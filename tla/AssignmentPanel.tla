-------------------------- MODULE AssignmentPanel --------------------------
(***************************************************************************)
(* The panels in which a user is given price lists, a price list its       *)
(* marketplaces and a role its permissions.  Opening one asks for what may *)
(* be ticked and for what is; a save replaces all that its owner has by    *)
(* what is ticked.  No load is cancelled, the panels of users and of lists *)
(* can be saved before theirs has landed, and what a save finds ticked may *)
(* come from elsewhere.                                                    *)
(***************************************************************************)
EXTENDS Screen

CONSTANTS Owners,         \* users, price lists or roles
          Things,         \* what is assigned to them
          FirstAssigned

PanelKinds == {"users", "lists", "roles"}

ASSUME AssignmentPanelAssumption ==
    None \notin Owners /\ FirstAssigned \in [Owners -> SUBSET Things]

VARIABLES
    kind,      \* which of the three it is
    assigned,  \* server: what owners have
    listed,    \* what the rows of the table say they have
    panel,     \* its owner, whether it is open, the ticks, and where they come from
    waiting,   \* loadingPermissions
    savingPanel,
    loads,     \* calls for what an owner has, in the order sent
    saves      \* calls that replace it

assignmentPanelVars == <<screenVars, company, kind, assigned, listed, panel, waiting,
                         savingPanel, loads, saves>>

Assigner == UserOn("panel")
Comes == LandsOn("panel") /\ UNCHANGED <<company, kind>>

\* from: whose load the ticks come from, a row, or nothing of this owner's;
\* crossed: a save was under way when it was opened, or has been sent since.
NoPanel == [owner |-> None, open |-> FALSE, ticks |-> {}, from |-> "none",
            touched |-> FALSE, crossed |-> FALSE]

AssignmentPanelInit ==
    /\ kind \in PanelKinds
    /\ assigned = FirstAssigned /\ listed = FirstAssigned
    /\ panel = NoPanel
    /\ waiting = FALSE /\ savingPanel = FALSE
    /\ loads = <<>> /\ saves = <<>>

-----------------------------------------------------------------------------
\* What is ticked before a load has landed: of a user nothing, of a list what
\* its row says, of a role what was ticked last, which is not shown.
TicksAtFirst(o) ==
    CASE kind = "users" -> {}
      [] kind = "lists" -> listed[o]
      [] kind = "roles" -> panel.ticks

\* openAccess, openMarketplaces, openPermissions: a role's permissions are
\* asked for when the catalogue of permissions has landed.
OpenPanel(o) ==
    /\ Assigner
    /\ panel' = [owner |-> o, open |-> TRUE, ticks |-> TicksAtFirst(o),
                 from |-> IF kind = "lists" THEN "row" ELSE "none",
                 touched |-> FALSE, crossed |-> savingPanel]
    /\ waiting' = (kind = "roles")
    /\ loads' = Append(loads, [owner |-> o, late |-> FALSE,
                               stage |-> IF kind = "roles" THEN "catalogue" ELSE "own"])
    /\ UNCHANGED <<company, kind, assigned, listed, savingPanel, saves>>

\* The panel of a role shows its contents when it has stopped waiting.
Usable == panel.open /\ ~waiting

Toggle(x) ==
    /\ Assigner /\ Usable
    /\ panel' = [panel EXCEPT !.touched = TRUE,
                              !.ticks = IF x \in @ THEN @ \ {x} ELSE @ \cup {x}]
    /\ UNCHANGED <<company, kind, assigned, listed, waiting, savingPanel, loads, saves>>

MaySave == Usable /\ ~savingPanel

SavePanel ==
    /\ Assigner /\ MaySave /\ panel.owner # None
    /\ savingPanel' = TRUE
    /\ saves' = Append(saves, [owner |-> panel.owner, ticks |-> panel.ticks, answer |-> None,
                               clean |-> /\ panel.from = "own"
                                         /\ ~panel.touched /\ ~panel.crossed])
    /\ panel' = [panel EXCEPT !.crossed = TRUE]
    /\ UNCHANGED <<company, kind, assigned, listed, waiting, loads>>

\* closeAccess, closeMarketplaces, closePermissions
ClosedPanel == [panel EXCEPT !.open = FALSE, !.owner = None]

ClosePanelOf ==
    /\ Assigner /\ panel.open
    /\ panel' = ClosedPanel
    /\ UNCHANGED <<company, kind, assigned, listed, waiting, savingPanel, loads, saves>>

\* The table is loaded again: the rows say what owners have.
ReloadRows ==
    /\ Assigner /\ listed' = assigned
    /\ UNCHANGED <<company, kind, assigned, panel, waiting, savingPanel, loads, saves>>

-----------------------------------------------------------------------------
(* Answers.                                                                  *)

\* Whoever the panel is of by now.
Ticked(call, ticks, from) ==
    panel' = [panel EXCEPT !.ticks = ticks, !.touched = FALSE,
                           !.from = IF call.owner = panel.owner /\ ~call.late THEN from ELSE "late"]

CatalogueLands(i) ==
    /\ Comes /\ loads[i].stage = "catalogue"
    /\ \/ /\ loads' = Append(Landed(loads, i, LAMBDA j : TRUE), [loads[i] EXCEPT !.stage = "own"])
          /\ UNCHANGED <<panel, waiting>>
       \/ /\ loads' = Landed(loads, i, LAMBDA j : TRUE)
          /\ waiting' = FALSE
          /\ panel' = [panel EXCEPT !.from = "late"]
    /\ UNCHANGED <<assigned, listed, savingPanel, saves>>

\* Mutation: a load says what the row of the table does.
Has_Row(o) == listed[o]

Has(o) == assigned[o]

\* A failure leaves a role nothing, a user or a list what was ticked.
OwnLands(i) ==
    LET call == loads[i] IN
    /\ Comes /\ call.stage = "own"
    /\ \/ Ticked(call, Has(call.owner), "own")
       \/ IF kind = "roles" THEN Ticked(call, {}, "none") ELSE UNCHANGED panel
    /\ waiting' = FALSE
    /\ loads' = Landed(loads, i, LAMBDA j : TRUE)
    /\ UNCHANGED <<assigned, listed, savingPanel, saves>>

\* Replaced, replaced and the answer lost, or refused.
SaveServed(i) ==
    /\ Comes /\ saves[i].answer = None
    /\ \/ /\ assigned' = [assigned EXCEPT ![saves[i].owner] = saves[i].ticks]
          /\ \E a \in {"ok", "error"} : saves' = [saves EXCEPT ![i].answer = a]
       \/ saves' = [saves EXCEPT ![i].answer = "error"] /\ UNCHANGED assigned
    /\ UNCHANGED <<listed, panel, waiting, savingPanel, loads>>

\* A success closes the panel, whoever it is of by now; only that of roles
\* has the table loaded again.
PanelSaveLands(i) ==
    /\ Comes /\ saves[i].answer # None
    /\ savingPanel' = FALSE
    /\ saves' = RemoveAt(saves, i)
    /\ IF saves[i].answer = "ok"
       THEN /\ panel' = IF kind = "roles" THEN ClosedPanel ELSE [panel EXCEPT !.open = FALSE]
            /\ listed' = IF kind = "roles" THEN assigned ELSE listed
       ELSE UNCHANGED <<panel, listed>>
    /\ UNCHANGED <<assigned, waiting, loads>>

-----------------------------------------------------------------------------
AssignmentPanelNext ==
    \/ \E o \in Owners : OpenPanel(o)
    \/ \E x \in Things : Toggle(x)
    \/ SavePanel \/ ClosePanelOf \/ ReloadRows
    \/ \E i \in DOMAIN loads : CatalogueLands(i) \/ OwnLands(i)
    \/ \E i \in DOMAIN saves : SaveServed(i) \/ PanelSaveLands(i)

AssignmentPanelSpec == AssignmentPanelInit /\ [][AssignmentPanelNext]_assignmentPanelVars

-----------------------------------------------------------------------------
(* Properties.                                                               *)

\* What an owner has changes only by a save of a panel in which something was
\* ticked, whose own load was not the last to land, or that another save
\* overlapped: opening a panel and saving it as it is leaves everything as it was.
UntouchedSaveIsHarmless ==
    [][assigned' # assigned =>
          \E i \in DOMAIN saves : saves[i].answer = None /\ ~saves[i].clean]_assignmentPanelVars
=============================================================================

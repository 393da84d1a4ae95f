------------------------------- MODULE Screen -------------------------------
(***************************************************************************)
(* What the models of the dashboard's screens share: which one the router  *)
(* shows, how much its user has done on it, and calls whose answers may    *)
(* overtake each other.  A component is made when its screen is entered    *)
(* and destroyed when it is left, so that a behaviour is one visit.        *)
(***************************************************************************)
EXTENDS Naturals, Sequences, FiniteSets, SequencesExt

CONSTANTS None,
          Companies, FirstCompany,
          MaxOps   \* bound: what the user does on a screen

ASSUME ScreenAssumption ==
    /\ FirstCompany \in Companies /\ None \notin Companies
    /\ MaxOps \in [DOMAIN MaxOps -> Nat]

VARIABLES screen, ops,
          company   \* the active company of the session

screenVars == <<screen, ops>>

ScreenInit == screen \in DOMAIN MaxOps /\ ops = 0 /\ company = FirstCompany

\* The user of screen s does something.
UserOn(s) == screen = s /\ ops < MaxOps[s] /\ ops' = ops + 1 /\ UNCHANGED screen

\* What lands on screen s is done by nobody.
LandsOn(s) == screen = s /\ UNCHANGED screenVars

\* Call i lands: those of the same subscriber sent before it have been overtaken.
Landed(calls, i, same(_)) ==
    RemoveAt([j \in DOMAIN calls |->
                 IF j < i /\ same(j) THEN [calls[j] EXCEPT !.late = TRUE] ELSE calls[j]], i)
=============================================================================

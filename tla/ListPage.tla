------------------------------ MODULE ListPage ------------------------------
(***************************************************************************)
(* CrudPageComponent, the table and form behind every administrative       *)
(* screen of the dashboard, with the rows it reads and writes over HTTP.   *)
(*                                                                         *)
(* Calls are not cancelled and their answers are applied as they land: a   *)
(* list asked for later may land earlier, and a save, a preview or a       *)
(* deletion may land after its modal was closed or the company switched.   *)
(* A row is reduced to its status: it is what the filter looks at and what *)
(* the form sets.                                                          *)
(***************************************************************************)
EXTENDS Screen

CONSTANTS Rows,        \* what the resource may hold, in the order of a column
          Owner,       \* the company of a row
          Searches,    \* texts of the search box
          Finds,       \* the rows a text finds
          Columns,     \* the sortable columns
          Sources,     \* keys of selectSources
          PageSize,
          FirstStored

ASSUME ListPageAssumption ==
    /\ Rows \subseteq Nat /\ PageSize \in Nat \ {0}
    /\ Owner \in [Rows -> Companies]
    /\ "" \in Searches /\ Finds \in [Searches -> SUBSET Rows] /\ Finds[""] = Rows
    /\ FirstStored \in [Rows -> {"active", "inactive", "unused"}]
    /\ "" \notin Columns /\ None \notin Rows /\ None \notin {"ok", "error"}
    /\ IsFiniteSet(Sources)

VARIABLES
    stored,    \* server: status of the rows, and whether there is one
    query,     \* page, search, status, sort and order
    box,       \* the search box: its text, whether it was typed in less than
               \* 300 ms ago, and the text last taken from it
    shown,     \* items, meta and error, and whether their answer was overtaken
    loading,
    lists,     \* calls of service.list, in the order sent
    options,   \* the company whose options a source has, and whether its
               \* answer was overtaken
    optionsCalls,
    modal,     \* the form and its modal
    target,    \* deleteTarget
    saving, deleting, previewing,
    writes,    \* calls of create, update, remove and the preview, in the order sent
    unseen     \* history: a write was made whose answer was lost, and no list
               \* asked for since

listPageVars == <<screenVars, stored, company, query, box, shown, loading, lists, options, optionsCalls,
          modal, target, saving, deleting, previewing, writes, unseen>>

Statuses == {"active", "inactive"}
Page == Nat \ {0}
Queries == [page : Page, search : Searches, status : Statuses \cup {""},
            sort : Columns \cup {""}, order : {"asc", "desc"}]

-----------------------------------------------------------------------------
(* The server.                                                              *)

Exists(r) == stored[r] \in Statuses

Matching(q, c) == {r \in Rows : /\ Owner[r] = c /\ Exists(r)
                                /\ r \in Finds[q.search]
                                /\ q.status = "" \/ stored[r] = q.status}

Sorted(q, rs) == SetToSortSeq(rs, LAMBDA a, b : IF q.order = "asc" THEN a < b ELSE a > b)

Pages(n) == (n + PageSize - 1) \div PageSize

PageOf(q, c) ==
    LET all == Sorted(q, Matching(q, c))
        first == (q.page - 1) * PageSize + 1
        rows == SubSeq(all, first, Min({first + PageSize - 1, Len(all)}))
    IN  [items |-> [i \in 1..Len(rows) |-> <<rows[i], stored[rows[i]]>>],
         page |-> q.page, totalPages |-> Pages(Len(all))]

-----------------------------------------------------------------------------
Closed == [open |-> FALSE, row |-> None, value |-> "", error |-> FALSE]

Blank == [items |-> <<>>, page |-> 1, totalPages |-> 0, error |-> FALSE,
          late |-> FALSE]

Asked(q, c) == [query |-> q, company |-> c, late |-> FALSE]

AskedOptions(c) == SetToSeq({[source |-> s, company |-> c, late |-> FALSE] : s \in Sources})

NoOptions == [s \in Sources |-> [of |-> None, late |-> FALSE]]

FirstQuery == [page |-> 1, search |-> "", status |-> "", sort |-> "", order |-> "desc"]

\* The page as ngOnInit leaves it: its options and its first list are asked for.
ListInit ==
    /\ stored = FirstStored
    /\ query = FirstQuery
    /\ box = [text |-> "", typed |-> FALSE, taken |-> None]
    /\ shown = Blank /\ loading = TRUE
    /\ lists = <<Asked(FirstQuery, company)>>
    /\ options = NoOptions
    /\ optionsCalls = AskedOptions(company)
    /\ modal = Closed /\ target = None
    /\ saving = FALSE /\ deleting = FALSE /\ previewing = FALSE
    /\ writes = <<>> /\ unseen = FALSE

form == <<modal, saving, previewing>>
delete == <<target, deleting>>
optionsVars == <<options, optionsCalls>>

-----------------------------------------------------------------------------
(* Asking for the list.                                                     *)

User == UserOn("list")
Answer == LandsOn("list")

\* load, with the query it builds.
Load(q, c) ==
    /\ loading' = TRUE
    /\ shown' = [shown EXCEPT !.error = FALSE]
    /\ lists' = Append(lists, Asked(q, c))
    /\ unseen' = FALSE

Ask(q) ==
    /\ query' = q
    /\ Load(q, company)

Refresh ==
    /\ User /\ Ask(query)
    /\ UNCHANGED <<stored, company, box, optionsVars, form, delete, writes>>

Type(s) ==
    /\ User
    /\ s # box.text
    /\ box' = [box EXCEPT !.text = s, !.typed = TRUE]
    /\ UNCHANGED <<stored, company, query, shown, loading, lists, optionsVars, form, delete, writes, unseen>>

\* debounceTime(300), distinctUntilChanged.
Debounced ==
    /\ Answer
    /\ box.typed
    /\ IF box.text = box.taken
       THEN /\ box' = [box EXCEPT !.typed = FALSE]
            /\ UNCHANGED <<query, shown, loading, lists, unseen>>
       ELSE /\ box' = [box EXCEPT !.typed = FALSE, !.taken = box.text]
            /\ Ask([query EXCEPT !.search = box.text, !.page = 1])
    /\ UNCHANGED <<stored, company, optionsVars, form, delete, writes>>

SetStatus(s) ==
    /\ User
    /\ Ask([query EXCEPT !.status = s, !.page = 1])
    /\ UNCHANGED <<stored, company, box, optionsVars, form, delete, writes>>

\* The table and its pager are there for a list that has landed and is not empty.
TableShown == ~loading /\ ~shown.error /\ shown.items # <<>>

\* The buttons go by the page of the answer, not by the page asked for.
GoToPage(p) ==
    /\ User
    /\ TableShown
    /\ \/ p = shown.page - 1 /\ shown.page > 1
       \/ p = shown.page + 1 /\ shown.page < shown.totalPages
    /\ p >= 1 /\ (shown.totalPages > 0 => p <= shown.totalPages)
    /\ Ask([query EXCEPT !.page = p])
    /\ UNCHANGED <<stored, company, box, optionsVars, form, delete, writes>>

ToggleSort(k) ==
    /\ User
    /\ TableShown
    /\ Ask([query EXCEPT !.sort = k,
                         !.order = IF query.sort = k /\ query.order = "asc" THEN "desc" ELSE "asc"])
    /\ UNCHANGED <<stored, company, box, optionsVars, form, delete, writes>>

\* The server may read a list at any moment before its answer lands; that it
\* reads it then hides nothing, since a write that lands later asks for another.
ListLands(i) ==
    LET call == lists[i]
        page == PageOf(call.query, call.company)
    IN
    /\ Answer
    /\ \/ shown' = [items |-> page.items, page |-> page.page, totalPages |-> page.totalPages,
                    error |-> FALSE, late |-> call.late]
       \/ shown' = [shown EXCEPT !.items = <<>>, !.error = TRUE, !.late = call.late]
    /\ loading' = FALSE
    /\ lists' = Landed(lists, i, LAMBDA j : TRUE)
    /\ UNCHANGED <<stored, company, query, box, optionsVars, form, delete, writes, unseen>>

-----------------------------------------------------------------------------
(* The company is switched, and options.                                    *)

CloseModal == modal' = Closed

SwitchedOptions(c) ==
    /\ options' = NoOptions
    /\ optionsCalls' = optionsCalls \o AskedOptions(c)

\* The subscriber of tenantContext.changes.
SwitchCompany(c) ==
    /\ User
    /\ c # company
    /\ company' = c
    /\ query' = [query EXCEPT !.page = 1]
    /\ CloseModal
    /\ SwitchedOptions(c)
    /\ Load(query', c)
    /\ UNCHANGED <<stored, box, delete, saving, previewing, writes>>

\* An error leaves the source without options.
OptionsLand(i) ==
    LET call == optionsCalls[i] IN
    /\ Answer
    /\ \E o \in {call.company, None} :
          options' = [options EXCEPT ![call.source] = [of |-> o, late |-> call.late]]
    /\ optionsCalls' = Landed(optionsCalls, i, LAMBDA j : optionsCalls[j].source = call.source)
    /\ UNCHANGED <<stored, company, query, box, shown, loading, lists, form, delete, writes, unseen>>

-----------------------------------------------------------------------------
(* The form and its calls.                                                  *)

listVars == <<query, box, shown, loading, lists>>

Opened(row, value) ==
    modal' = [open |-> TRUE, row |-> row, value |-> value, error |-> FALSE]

OpenCreate ==
    /\ User
    /\ Opened(None, "active")
    /\ UNCHANGED <<stored, company, listVars, optionsVars, saving, previewing, delete, writes, unseen>>

OpenEdit(i) ==
    /\ User
    /\ TableShown
    /\ Opened(shown.items[i][1], shown.items[i][2])
    /\ UNCHANGED <<stored, company, listVars, optionsVars, saving, previewing, delete, writes, unseen>>

Close ==
    /\ User
    /\ modal.open /\ CloseModal
    /\ UNCHANGED <<stored, company, listVars, optionsVars, saving, previewing, delete, writes, unseen>>

\* "" is what a required control does not accept.
Fill(v) ==
    /\ User
    /\ modal.open /\ v # modal.value
    /\ modal' = [modal EXCEPT !.value = v]
    /\ UNCHANGED <<stored, company, listVars, optionsVars, saving, previewing, delete, writes, unseen>>

Send(kind, row, value) ==
    writes' = Append(writes, [kind |-> kind, row |-> row, value |-> value,
                              company |-> company, answer |-> None])

RunPreview ==
    /\ User
    /\ modal.open /\ ~previewing
    /\ previewing' = TRUE
    /\ Send("preview", modal.row, modal.value)
    /\ UNCHANGED <<stored, company, listVars, optionsVars, modal, saving, delete, unseen>>

\* Mutation: the button does not wait for the answer.
MaySubmit_Always == modal.open

MaySubmit == modal.open /\ ~saving

Submit ==
    /\ User
    /\ MaySubmit
    /\ IF modal.value = ""
       THEN /\ modal' = [modal EXCEPT !.error = TRUE]
            /\ UNCHANGED <<saving, writes>>
       ELSE /\ modal' = [modal EXCEPT !.error = FALSE]
            /\ saving' = TRUE
            /\ Send("save", modal.row, modal.value)
    /\ UNCHANGED <<stored, company, listVars, optionsVars, previewing, delete, unseen>>

AskDelete(i) ==
    /\ User
    /\ TableShown
    /\ target' = shown.items[i][1]
    /\ UNCHANGED <<stored, company, listVars, optionsVars, form, deleting, writes, unseen>>

CancelDelete ==
    /\ User
    /\ target # None /\ target' = None
    /\ UNCHANGED <<stored, company, listVars, optionsVars, form, deleting, writes, unseen>>

ConfirmDelete ==
    /\ User
    /\ target # None /\ ~deleting
    /\ deleting' = TRUE
    /\ Send("delete", target, "")
    /\ UNCHANGED <<stored, company, listVars, optionsVars, form, target, unseen>>

\* Mutation: the row is found by its id alone.
Reachable_Anywhere(r, c) == Exists(r)

\* The where clause of the server.
Reachable(r, c) == Exists(r) /\ Owner[r] = c

\* What a call may leave stored.
Results(w) ==
    CASE w.kind = "delete" /\ Reachable(w.row, w.company) ->
            {[stored EXCEPT ![w.row] = "deleted"]}
      [] w.kind = "save" /\ w.row = None ->
            {[stored EXCEPT ![r] = w.value] : r \in {r \in Rows : Owner[r] = w.company /\ stored[r] = "unused"}}
      [] w.kind = "save" /\ w.row # None /\ Reachable(w.row, w.company) ->
            {[stored EXCEPT ![w.row] = w.value]}
      [] OTHER -> {}

Answered(i, a) == writes' = [writes EXCEPT ![i].answer = a]

\* The call is carried out, is carried out and its answer lost, or is refused.
WriteServed(i) ==
    /\ Answer
    /\ writes[i].answer = None
    /\ \/ /\ writes[i].kind # "preview"
          /\ stored' \in Results(writes[i])
          /\ \/ Answered(i, "ok") /\ UNCHANGED unseen
             \/ Answered(i, "error") /\ unseen' = TRUE
       \/ writes[i].kind = "preview" /\ Answered(i, "ok") /\ UNCHANGED <<stored, unseen>>
       \/ Answered(i, "error") /\ UNCHANGED <<stored, unseen>>
    /\ UNCHANGED <<company, listVars, optionsVars, form, delete>>

\* Mutation: the list is not asked for again.
AfterWrite_Kept == UNCHANGED <<shown, loading, lists, unseen>>

\* What a save and a deletion end with.
AfterWrite == Load(query, company)

\* A success closes whichever form is open.
SaveLands(i) ==
    /\ Answer
    /\ writes[i].kind = "save" /\ writes[i].answer # None
    /\ saving' = FALSE
    /\ writes' = RemoveAt(writes, i)
    /\ \/ writes[i].answer = "ok" /\ CloseModal /\ AfterWrite
       \/ /\ writes[i].answer = "error"
          /\ modal' = [modal EXCEPT !.error = modal.open]
          /\ UNCHANGED <<shown, loading, lists, unseen>>
    /\ UNCHANGED <<stored, company, query, box, optionsVars, previewing, delete>>

DeleteLands(i) ==
    /\ Answer
    /\ writes[i].kind = "delete" /\ writes[i].answer # None
    /\ deleting' = FALSE /\ target' = None
    /\ writes' = RemoveAt(writes, i)
    /\ \/ writes[i].answer = "ok" /\ AfterWrite
       \/ writes[i].answer = "error" /\ UNCHANGED <<shown, loading, lists, unseen>>
    /\ UNCHANGED <<stored, company, query, box, optionsVars, form>>

PreviewLands(i) ==
    /\ Answer
    /\ writes[i].kind = "preview" /\ writes[i].answer # None
    /\ previewing' = FALSE
    /\ writes' = RemoveAt(writes, i)
    /\ modal' = [modal EXCEPT !.error = @ \/ (modal.open /\ writes[i].answer = "error")]
    /\ UNCHANGED <<stored, company, listVars, optionsVars, saving, delete, unseen>>

-----------------------------------------------------------------------------
ListAnswers ==
    \/ \E i \in DOMAIN lists : ListLands(i)
    \/ \E i \in DOMAIN optionsCalls : OptionsLand(i)
    \/ \E i \in DOMAIN writes : WriteServed(i) \/ SaveLands(i) \/ DeleteLands(i) \/ PreviewLands(i)

ListNext ==
    \/ Refresh \/ Debounced
    \/ \E s \in Searches : Type(s)
    \/ \E s \in Statuses \cup {""} : SetStatus(s) \/ Fill(s)
    \/ \E p \in {shown.page - 1, shown.page + 1} : GoToPage(p)
    \/ \E k \in Columns : ToggleSort(k)
    \/ \E c \in Companies : SwitchCompany(c)
    \/ \E i \in DOMAIN shown.items : OpenEdit(i) \/ AskDelete(i)
    \/ OpenCreate \/ Close \/ RunPreview \/ Submit
    \/ CancelDelete \/ ConfirmDelete
    \/ ListAnswers

ListSpec == ListInit /\ [][ListNext]_listPageVars

-----------------------------------------------------------------------------
(* Properties.                                                              *)

\* Once every call has landed, and unless the last answer of its kind had been
\* overtaken, the table is that of the query and the company the user sees, as
\* the server has it, and a form offers the options of that company: whatever
\* was typed, filtered, sorted, paged, switched, saved or deleted on the way,
\* the last of it asked for what is shown.
SettledPageIsCurrent ==
    /\ lists = <<>> /\ writes = <<>> /\ ~unseen /\ ~shown.late =>
          /\ shown.error \/ shown.items = PageOf(query, company).items
          /\ ~loading
    /\ \A s \in Sources :
          (\A i \in DOMAIN optionsCalls : optionsCalls[i].source # s) /\ ~options[s].late =>
              options[s].of \in {company, None}

\* However modals are closed and opened over them, at most one save, one
\* deletion and one preview are under way, and what keeps a button from being
\* pressed and the table from being shown is there just as long as its call is.
FlagsTellTheCalls ==
    /\ loading => lists # <<>>
    /\ saving <=> \E i \in DOMAIN writes : writes[i].kind = "save"
    /\ deleting <=> \E i \in DOMAIN writes : writes[i].kind = "delete"
    /\ previewing <=> \E i \in DOMAIN writes : writes[i].kind = "preview"
    /\ \A i, j \in DOMAIN writes : i # j => writes[i].kind # writes[j].kind

\* A row changes only by a call sent while its company was the active one: the
\* table and the delete modal may still hold rows of the company switched from.
WritesStayInCompany ==
    [][\A r \in Rows : stored'[r] # stored[r] =>
          \E i \in DOMAIN writes : writes[i].company = Owner[r] /\ writes[i].answer = None]_listPageVars
=============================================================================

---------------------------- MODULE Autocomplete ----------------------------
(***************************************************************************)
(* AsyncAutocompleteComponent: a text field over a form control that holds *)
(* an id.  What is typed is searched for once it has stood for 300 ms; a   *)
(* new search cancels the one before it, whose answer then reaches nobody; *)
(* a selection cancels neither a search nor the timer of one.              *)
(***************************************************************************)
EXTENDS Screen

CONSTANTS Texts,     \* what may be typed
          Trim,      \* a text without the blanks around it
          LongTexts, \* those of at least minLength once trimmed
          Options, Label,
          Suggest    \* the options the source has for a term

ASSUME AutocompleteAssumption ==
    /\ "" \in Texts \ LongTexts /\ Label \in [Options -> STRING]
    /\ DOMAIN Trim = Texts \cup Range(Label) /\ LongTexts \subseteq DOMAIN Trim
    /\ \A t \in Range(Trim) : Suggest[t] \in Seq(Options)
    /\ None \notin Options

VARIABLES
    field,     \* the text, and whether the field has the focus
    value,     \* selectedId
    control,   \* what the form control holds
    initial,   \* an initialOption that has not yet come in
    timer,     \* the term, or INVALIDATE, that debounce holds back
    searches,  \* calls of the source, in the order sent
    list,      \* the suggestions, the term they were found for, the active one
    popup,     \* whether it is open, and its statusKey
    sent       \* history: the term last searched

autocompleteVars == <<screenVars, company, field, value, control, initial, timer,
                      searches, list, popup, sent>>

Typist == UserOn("field")
Elapses == LandsOn("field") /\ UNCHANGED company

Invalidate == "INVALIDATE"

NoList == [options |-> <<>>, term |-> None, active |-> 0]

Live(i) == searches[i].live
Loading == \E i \in DOMAIN searches : Live(i)

\* For a new record, and for one that is edited and whose label is still to come.
AutocompleteInit ==
    /\ value \in Options \cup {None} /\ control = value /\ initial = value
    /\ field = [text |-> IF value = None THEN "" ELSE "id", focused |-> FALSE]
    /\ timer = None /\ searches = <<>> /\ list = NoList
    /\ popup = [open |-> FALSE, status |-> ""] /\ sent = None

-----------------------------------------------------------------------------
\* cancelPending: whoever is still under way is no longer listened to.
Cancelled == [i \in DOMAIN searches |-> [searches[i] EXCEPT !.live = FALSE]]

\* Mutation: the subscription is forgotten, not cancelled.
CancelPending_Forgets == searches

CancelPending == Cancelled

\* An id goes as soon as its label is changed.
Typed == value' = None /\ control' = IF value = None THEN control ELSE None

\* onInput: a text too short cancels at once, one long enough after the timer.
OnInput(t) ==
    /\ Typist /\ field.focused /\ t # field.text
    /\ field' = [field EXCEPT !.text = t]
    /\ Typed
    /\ IF t \in LongTexts
       THEN timer' = Trim[t] /\ UNCHANGED <<searches, list, popup>>
       ELSE /\ timer' = Invalidate
            /\ searches' = CancelPending
            /\ list' = NoList
            /\ popup' = [open |-> FALSE, status |-> ""]
    /\ UNCHANGED <<company, initial, sent>>

\* The timer runs out.
Search ==
    /\ Elapses
    /\ timer # None /\ timer' = None
    /\ IF timer = Invalidate THEN UNCHANGED <<searches, popup, sent>>
       ELSE /\ searches' = Append(CancelPending, [term |-> timer, live |-> TRUE])
            /\ popup' = [popup EXCEPT !.status = ""]
            /\ sent' = timer
    /\ UNCHANGED <<field, value, control, initial, list>>

\* An answer opens the popup, wherever the focus is by then.
SearchLands(i) ==
    /\ Elapses
    /\ searches' = RemoveAt(searches, i)
    /\ IF ~Live(i) THEN UNCHANGED <<list, popup>>
       ELSE \/ LET found == Suggest[searches[i].term] IN
               /\ list' = [options |-> found, term |-> searches[i].term,
                           active |-> IF found = <<>> THEN 0 ELSE 1]
               /\ popup' = [open |-> TRUE, status |-> IF found = <<>> THEN "noResults" ELSE ""]
            \/ list' = NoList /\ popup' = [open |-> TRUE, status |-> "loadError"]
    /\ UNCHANGED <<field, value, control, initial, timer, sent>>

\* retry: the text is searched for again, however short.
Retry ==
    /\ Typist /\ popup.open /\ popup.status = "loadError"
    /\ timer' = Trim[field.text]
    /\ UNCHANGED <<company, field, value, control, initial, searches, list, popup, sent>>

Shown(o) == Label[o]

Select(o) ==
    /\ value' = o /\ control' = o
    /\ field' = [field EXCEPT !.text = Shown(o)]
    /\ list' = NoList
    /\ popup' = [open |-> FALSE, status |-> ""]
    /\ UNCHANGED <<company, initial, timer, searches, sent>>

\* The list is there if the panel has no message to show.
Offered(i) == popup.open /\ popup.status = "" /\ i \in DOMAIN list.options

Click(i) == Typist /\ Offered(i) /\ Select(list.options[i])

\* Enter takes the active option of an open popup, even under a message.
Enter ==
    /\ Typist /\ field.focused
    /\ popup.open /\ list.active \in DOMAIN list.options
    /\ Select(list.options[list.active])

Unchanged == UNCHANGED <<company, value, control, initial, timer, searches, sent>>

Hover(i) ==
    /\ Typist /\ Offered(i)
    /\ list' = [list EXCEPT !.active = i]
    /\ UNCHANGED <<field, popup>> /\ Unchanged

\* moveActive, with indices from 1 and 0 for none.  Up from none goes to the
\* last but one.
Moved(step) ==
    LET n == Len(list.options) IN
    IF n = 0 THEN list ELSE [list EXCEPT !.active = ((list.active - 1 + step + n) % n) + 1]

ArrowDown ==
    /\ Typist /\ field.focused
    /\ IF popup.open THEN list' = Moved(1) /\ UNCHANGED popup
       ELSE popup' = [popup EXCEPT !.open = TRUE] /\ UNCHANGED list
    /\ UNCHANGED field /\ Unchanged

ArrowUp ==
    /\ Typist /\ field.focused
    /\ list' = Moved(-1)
    /\ UNCHANGED <<field, popup>> /\ Unchanged

ClosePopup == popup' = [popup EXCEPT !.open = FALSE] /\ list' = [list EXCEPT !.active = 0]

Escape ==
    /\ Typist /\ field.focused /\ popup.open
    /\ ClosePopup
    /\ UNCHANGED field /\ Unchanged

\* Tab or a click elsewhere.
Blur ==
    /\ Typist /\ field.focused
    /\ field' = [field EXCEPT !.focused = FALSE]
    /\ ClosePopup /\ Unchanged

Focus ==
    /\ Typist /\ ~field.focused
    /\ field' = [field EXCEPT !.focused = TRUE]
    /\ popup' = [popup EXCEPT !.open = popup.open \/ list.options # <<>> \/ Loading]
    /\ UNCHANGED list /\ Unchanged

\* Mutation: the label is shown whatever is selected by now.
LabelCameInTime_Always == TRUE

\* syncInitialOption
LabelCameInTime == value = initial /\ initial \notin Range(list.options)

LabelComesIn ==
    /\ Elapses /\ initial # None /\ initial' = None
    /\ field' = IF LabelCameInTime THEN [field EXCEPT !.text = Label[initial]] ELSE field
    /\ UNCHANGED <<value, control, timer, searches, list, popup, sent>>

-----------------------------------------------------------------------------
AutocompleteNext ==
    \/ \E t \in Texts : OnInput(t)
    \/ Search \/ Retry \/ LabelComesIn
    \/ \E i \in DOMAIN searches : SearchLands(i)
    \/ \E i \in DOMAIN list.options : Click(i) \/ Hover(i)
    \/ Enter \/ ArrowDown \/ ArrowUp \/ Escape \/ Blur \/ Focus

AutocompleteSpec == AutocompleteInit /\ [][AutocompleteNext]_autocompleteVars

-----------------------------------------------------------------------------
(* Properties.                                                               *)

\* The form holds an id only together with its label in the field, or with the
\* id itself until the label of an edited record has come in: an id without a
\* matching label must not be submittable, whatever answer, timer or label
\* lands after it was selected or typed over.
IdMatchesText ==
    /\ control = value
    /\ value # None => \/ field.text = Label[value]
                       \/ initial = value /\ field.text = "id"

\* Suggestions are those of the term last searched, at most one search is
\* listened to, and it is the last: a slow answer never replaces a newer one's.
SuggestionsAreNewest ==
    /\ list.options # <<>> /\ ~Loading => list.term = sent
    /\ \A i \in DOMAIN searches : Live(i) => i = Len(searches) /\ searches[i].term = sent
=============================================================================

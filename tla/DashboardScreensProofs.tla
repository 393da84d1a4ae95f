----------------------- MODULE DashboardScreensProofs -----------------------
(***************************************************************************)
(* Proofs about DashboardScreens for every set of companies, rows, lists,  *)
(* options and owners, and for any number of calls under way.              *)
(*                                                                         *)
(* The calls of a screen are a sequence in the order sent, from which they *)
(* land in any order.  What its properties need of it is where the newest  *)
(* call is: it is the one that asked for what the user sees now, and once  *)
(* it has landed every other one is late (NewestList, NewestOptions,       *)
(* OnlyLastLive, NewestRead).                                              *)
(***************************************************************************)
EXTENDS DashboardScreens, TLAPS, SequenceTheorems, FiniteSetTheorems

----------------------------------------------------------------------------
(* Sequences of calls.                                                      *)

IsSeq(s) == \E S : s \in Seq(S)

\* A sequence is a function from the numbers up to its length.
LEMMA SeqFacts ==
    ASSUME NEW s, IsSeq(s)
    PROVE  Len(s) \in Nat /\ DOMAIN s = 1 .. Len(s) /\ s = [i \in 1 .. Len(s) |-> s[i]]
  BY DEF IsSeq

\* Such a function is a sequence.
LEMMA CallsOf ==
    ASSUME NEW n \in Nat, NEW T, NEW s \in [1 .. n -> T]
    PROVE  IsSeq(s) /\ Len(s) = n
<1>1. s \in Seq(T) /\ Len(s) = n
  OBVIOUS
<1> QED
  BY <1>1 DEF IsSeq

\* A call that is sent is the last one.
LEMMA AppendFacts ==
    ASSUME NEW s, IsSeq(s), NEW x
    PROVE  /\ IsSeq(Append(s, x)) /\ Len(Append(s, x)) = Len(s) + 1
           /\ \A k \in 1 .. Len(s) : Append(s, x)[k] = s[k]
           /\ Append(s, x)[Len(s) + 1] = x
<1>1. PICK S : s \in Seq(S)
  BY DEF IsSeq
<1>2. PICK T : T = S \cup {x}
  OBVIOUS
<1>3. s \in Seq(T) /\ x \in T
  BY <1>1, <1>2
<1> QED
  BY <1>3, AppendProperties DEF IsSeq

\* r is s followed by t.
Joined(r, s, t) ==
    /\ IsSeq(r) /\ Len(r) = Len(s) + Len(t)
    /\ \A k \in 1 .. Len(s) : r[k] = s[k]
    /\ \A k \in 1 .. Len(t) : r[Len(s) + k] = t[k]

\* Calls sent together follow those under way.
LEMMA ConcatFacts ==
    ASSUME NEW s, IsSeq(s), NEW t, IsSeq(t)
    PROVE  Joined(s \o t, s, t)
<1>1. PICK S, T : s \in Seq(S) /\ t \in Seq(T)
  BY DEF IsSeq
<1>2. PICK U : U = S \cup T
  OBVIOUS
<1>3. s \in Seq(U) /\ t \in Seq(U)
  BY <1>1, <1>2
<1>4. s \o t \in Seq(U) /\ Len(s \o t) = Len(s) + Len(t)
  BY <1>3, ConcatProperties
<1>5. \A k \in 1 .. Len(s) + Len(t) : (s \o t)[k] = IF k <= Len(s) THEN s[k] ELSE t[k - Len(s)]
  BY <1>3, ConcatProperties
<1>6. Len(s) \in Nat /\ Len(t) \in Nat
  BY <1>3
<1> QED
  BY <1>4, <1>5, <1>6 DEF IsSeq, Joined

\* What rest has of s when its i-th element is taken away.
Without(rest, s, i) ==
    /\ IsSeq(rest) /\ Len(rest) = Len(s) - 1
    /\ Len(s) \in Nat /\ DOMAIN s = 1 .. Len(s) /\ DOMAIN rest = 1 .. Len(s) - 1
    /\ \A k \in 1 .. Len(s) - 1 : k < i => rest[k] = s[k]
    /\ \A k \in 1 .. Len(s) - 1 : k >= i => rest[k] = s[k + 1]

\* A call that lands leaves the others in their order.
LEMMA RemoveAtFacts ==
    ASSUME NEW s, IsSeq(s), NEW i \in 1 .. Len(s)
    PROVE  Without(RemoveAt(s, i), s, i)
<1>0. PICK S : s \in Seq(S)
  BY DEF IsSeq
<1>1. PICK a : a = SubSeq(s, 1, i - 1)
  OBVIOUS
<1>2. PICK b : b = SubSeq(s, i + 1, Len(s))
  OBVIOUS
<1>3. IsSeq(a) /\ Len(a) = i - 1 /\ \A k \in 1 .. i - 1 : a[k] = s[k]
  <2>1. SubSeq(s, 1, i - 1) \in Seq(S) /\ Len(SubSeq(s, 1, i - 1)) = i - 1
    BY <1>0, SubSeqProperties
  <2>2. \A k \in 1 .. i - 1 : SubSeq(s, 1, i - 1)[k] = s[k]
    BY <1>0, SubSeqProperties
  <2> QED
    BY <1>1, <2>1, <2>2 DEF IsSeq
<1>4. IsSeq(b) /\ Len(b) = Len(s) - i /\ \A k \in 1 .. Len(s) - i : b[k] = s[k + i]
  <2>1. SubSeq(s, i + 1, Len(s)) \in Seq(S) /\ Len(SubSeq(s, i + 1, Len(s))) = Len(s) - i
    BY <1>0, SubSeqProperties
  <2>2. \A k \in 1 .. Len(s) - i : SubSeq(s, i + 1, Len(s))[k] = s[i + 1 + k - 1]
    BY <1>0, SubSeqProperties
  <2>3. IsSeq(b) /\ Len(b) = Len(s) - i
    BY <1>2, <2>1 DEF IsSeq
  <2>4. ASSUME NEW k \in 1 .. Len(s) - i PROVE b[k] = s[k + i]
    <3>1. Len(s) \in Nat
      BY <1>0
    <3>2. i + 1 + k - 1 = k + i
      BY <3>1
    <3> QED
      BY <1>2, <2>2, <3>2
  <2> QED
    BY <2>3, <2>4
<1>5. RemoveAt(s, i) = a \o b
  BY <1>1, <1>2 DEF RemoveAt
<1>6. Len(s) \in Nat
  BY <1>0
<1>7. Joined(a \o b, a, b)
  BY <1>3, <1>4, ConcatFacts
<1>8. IsSeq(a \o b) /\ Len(a \o b) = Len(s) - 1
  BY <1>3, <1>4, <1>6, <1>7 DEF Joined
<1>9. ASSUME NEW k \in 1 .. Len(s) - 1, k < i PROVE (a \o b)[k] = s[k]
  BY <1>3, <1>4, <1>6, <1>7, <1>9 DEF Joined
<1>10. ASSUME NEW k \in 1 .. Len(s) - 1, k >= i PROVE (a \o b)[k] = s[k + 1]
  <2>1. k - (i - 1) \in 1 .. Len(b) /\ Len(a) + (k - (i - 1)) = k
    BY <1>3, <1>4, <1>6, <1>10
  <2>2. (a \o b)[Len(a) + (k - (i - 1))] = b[k - (i - 1)]
    BY <1>3, <1>4, <1>7, <2>1 DEF Joined
  <2>3. b[k - (i - 1)] = s[k - (i - 1) + i] /\ k - (i - 1) + i = k + 1
    BY <1>4, <1>6, <2>1
  <2> QED
    BY <2>1, <2>2, <2>3
<1>11. DOMAIN (a \o b) = 1 .. Len(s) - 1
  BY <1>8, SeqFacts
<1>12. DOMAIN s = 1 .. Len(s)
  BY <1>0
<1> QED
  <2>1. /\ \A k \in 1 .. Len(s) - 1 : k < i => (a \o b)[k] = s[k]
        /\ \A k \in 1 .. Len(s) - 1 : k >= i => (a \o b)[k] = s[k + 1]
    BY <1>9, <1>10
  <2> QED
    BY <1>5, <1>6, <1>8, <1>11, <1>12, <2>1 DEF Without

\* Calls of which those before i that are in M are marked as overtaken.
Overtaken(calls, i, M) ==
    [j \in DOMAIN calls |-> IF j < i /\ j \in M THEN [calls[j] EXCEPT !.late = TRUE] ELSE calls[j]]

\* What is left of calls when call i has landed.
LandedFrom(rest, calls, i, M) ==
    /\ IsSeq(rest) /\ Len(rest) = Len(calls) - 1
    /\ Len(calls) \in Nat /\ DOMAIN calls = 1 .. Len(calls) /\ DOMAIN rest = 1 .. Len(calls) - 1
    /\ \A k \in 1 .. Len(calls) - 1 : k < i /\ k \notin M => rest[k] = calls[k]
    /\ \A k \in 1 .. Len(calls) - 1 : k < i /\ k \in M => rest[k] = [calls[k] EXCEPT !.late = TRUE]
    /\ \A k \in 1 .. Len(calls) - 1 : k >= i => rest[k] = calls[k + 1]

LEMMA LandedFacts ==
    ASSUME NEW calls, IsSeq(calls), NEW i \in 1 .. Len(calls), NEW M
    PROVE  LandedFrom(RemoveAt(Overtaken(calls, i, M), i), calls, i, M)
<1>1. Len(calls) \in Nat /\ DOMAIN calls = 1 .. Len(calls)
  BY SeqFacts
<1>2. PICK m : m = Overtaken(calls, i, M)
  OBVIOUS
<1>3. PICK S : S = {m[j] : j \in 1 .. Len(calls)}
  OBVIOUS
<1>4. m \in [1 .. Len(calls) -> S]
  BY <1>1, <1>2, <1>3 DEF Overtaken
<1>5. IsSeq(m) /\ Len(m) = Len(calls) /\ i \in 1 .. Len(m)
  BY <1>1, <1>4, CallsOf
<1>6. /\ \A k \in 1 .. Len(calls) : k >= i \/ k \notin M => m[k] = calls[k]
      /\ \A k \in 1 .. Len(calls) : k < i /\ k \in M => m[k] = [calls[k] EXCEPT !.late = TRUE]
  BY <1>1, <1>2 DEF Overtaken
<1>7. PICK r : r = RemoveAt(m, i)
  OBVIOUS
<1>8. Without(r, m, i)
  BY <1>5, <1>7, RemoveAtFacts
<1>9. LandedFrom(r, calls, i, M)
  BY <1>1, <1>5, <1>6, <1>8 DEF Without, LandedFrom
<1> QED
  BY <1>2, <1>7, <1>9

----------------------------------------------------------------------------
(* The list page: what its variables hold.                                  *)

IsListCall(c) == c \in [query : {c.query}, company : {c.company}, late : BOOLEAN]
IsOptionsCall(c) == c \in [source : Sources, company : Companies, late : BOOLEAN]
IsWrite(w) == w \in [kind : {"save", "delete", "preview"}, row : {w.row}, value : {w.value},
                     company : {w.company}, answer : {None, "ok", "error"}]

StoredShape == stored = [r \in Rows |-> stored[r]]
IsShown(s) == s \in [items : {s.items}, page : {s.page}, totalPages : {s.totalPages},
                     error : BOOLEAN, late : BOOLEAN]

ShownShape == IsShown(shown)
ListsShape == IsSeq(lists) /\ \A i \in DOMAIN lists : IsListCall(lists[i])
OptionsShape ==
    /\ options \in [Sources -> [of : Companies \cup {None}, late : BOOLEAN]]
    /\ IsSeq(optionsCalls) /\ \A i \in DOMAIN optionsCalls : IsOptionsCall(optionsCalls[i])
WritesShape == IsSeq(writes) /\ \A i \in DOMAIN writes : IsWrite(writes[i])
FlagsShape == {loading, saving, deleting, previewing, unseen} \subseteq BOOLEAN

----------------------------------------------------------------------------
(* The steps of the list page, by what they do to its calls.                *)

\* What the user does that is sent to nobody.
Quiet ==
    UNCHANGED <<screen, stored, company, query, shown, loading, lists, options, optionsCalls,
                saving, deleting, previewing, writes, unseen>>

\* The list is asked for again: with another query, for another company or for
\* the same.
AsksFor(q, c) ==
    /\ query' = q /\ company' = c
    /\ Load(q, c)
    /\ UNCHANGED <<screen, stored, saving, deleting, previewing, writes>>

LEMMA ListCases ==
    ASSUME ListNext
    PROVE  \/ Quiet
           \/ AsksFor(query', company) /\ UNCHANGED optionsVars
           \/ \E c \in Companies : SwitchCompany(c)
           \/ RunPreview \/ Submit \/ ConfirmDelete
           \/ ListAnswers
<1>1. CASE Refresh
  BY <1>1 DEF Refresh, Ask, AsksFor, User, UserOn, delete, form
<1>2. CASE Debounced
  <2>1. CASE box.text = box.taken
    BY <1>2, <2>1 DEF Debounced, Answer, LandsOn, screenVars, Quiet, delete, form, optionsVars
  <2>2. CASE box.text # box.taken
    BY <1>2, <2>2 DEF Debounced, Answer, LandsOn, screenVars, Ask, AsksFor, delete, form
  <2> QED
    BY <2>1, <2>2
<1>3. ASSUME NEW s \in Searches, Type(s) PROVE Quiet
  BY <1>3 DEF Type, User, UserOn, Quiet, delete, form, optionsVars
<1>4. ASSUME NEW s, SetStatus(s) PROVE AsksFor(query', company) /\ UNCHANGED optionsVars
  BY <1>4 DEF SetStatus, Ask, AsksFor, User, UserOn, delete, form
<1>5. ASSUME NEW s, Fill(s) PROVE Quiet
  BY <1>5 DEF Fill, User, UserOn, Quiet, delete, optionsVars, listVars
<1>6. ASSUME NEW p, GoToPage(p) PROVE AsksFor(query', company) /\ UNCHANGED optionsVars
  BY <1>6 DEF GoToPage, Ask, AsksFor, User, UserOn, delete, form
<1>7. ASSUME NEW k, ToggleSort(k) PROVE AsksFor(query', company) /\ UNCHANGED optionsVars
  BY <1>7 DEF ToggleSort, Ask, AsksFor, User, UserOn, delete, form
<1>8. ASSUME NEW i, OpenEdit(i) PROVE Quiet
  BY <1>8 DEF OpenEdit, User, UserOn, Quiet, delete, optionsVars, listVars
<1>9. ASSUME NEW i, AskDelete(i) PROVE Quiet
  BY <1>9 DEF AskDelete, User, UserOn, Quiet, form, optionsVars, listVars
<1>10. CASE OpenCreate
  BY <1>10 DEF OpenCreate, User, UserOn, Quiet, delete, optionsVars, listVars
<1>11. CASE Close
  BY <1>11 DEF Close, User, UserOn, Quiet, delete, optionsVars, listVars
<1>12. CASE CancelDelete
  BY <1>12 DEF CancelDelete, User, UserOn, Quiet, form, optionsVars, listVars
<1> QED
  BY <1>1, <1>2, <1>3, <1>4, <1>5, <1>6, <1>7, <1>8, <1>9, <1>10, <1>11, <1>12 DEF ListNext

\* Where a call has landed.
LEMMA ListLanding ==
    ASSUME NEW i \in DOMAIN lists, ListLands(i)
    PROVE  lists' = RemoveAt(Overtaken(lists, i, DOMAIN lists), i)
<1>1. Overtaken(lists, i, DOMAIN lists) =
        [j \in DOMAIN lists |-> IF j < i /\ TRUE THEN [lists[j] EXCEPT !.late = TRUE] ELSE lists[j]]
  BY DEF Overtaken
<1> QED
  BY <1>1 DEF ListLands, Landed

LEMMA OptionsLanding ==
    ASSUME NEW i \in DOMAIN optionsCalls, OptionsLand(i)
    PROVE  optionsCalls' = RemoveAt(Overtaken(optionsCalls, i,
                              {j \in DOMAIN optionsCalls : optionsCalls[j].source = optionsCalls[i].source}), i)
<1>1. Overtaken(optionsCalls, i,
                {j \in DOMAIN optionsCalls : optionsCalls[j].source = optionsCalls[i].source}) =
        [j \in DOMAIN optionsCalls |->
            IF j < i /\ optionsCalls[j].source = optionsCalls[i].source
            THEN [optionsCalls[j] EXCEPT !.late = TRUE] ELSE optionsCalls[j]]
  BY DEF Overtaken
<1> QED
  BY <1>1 DEF OptionsLand, Landed

\* What the server has of a query depends on nothing but the rows stored.
LEMMA PageUnchanged ==
    ASSUME UNCHANGED <<stored, query, company>>
    PROVE  PageOf(query, company)' = PageOf(query, company)
<1>1. Matching(query, company)' = Matching(query, company)
  BY DEF Matching, Exists
<1> QED
  BY <1>1 DEF PageOf

----------------------------------------------------------------------------
(* Types of the list page.                                                  *)

ListTypes == StoredShape /\ ShownShape /\ ListsShape /\ OptionsShape /\ WritesShape /\ FlagsShape

\* Asking adds a call that is not late.
LEMMA LoadFacts ==
    ASSUME ListsShape, ShownShape, NEW q, NEW c, Load(q, c)
    PROVE  /\ ListsShape' /\ ShownShape' /\ loading' = TRUE /\ unseen' = FALSE
           /\ shown'.late = shown.late
           /\ Len(lists') = Len(lists) + 1 /\ Len(lists) \in Nat /\ lists' # <<>>
           /\ lists'[Len(lists')] = [query |-> q, company |-> c, late |-> FALSE]
<1>1. PICK a : a = Asked(q, c)
  OBVIOUS
<1>2. a = [query |-> q, company |-> c, late |-> FALSE] /\ IsListCall(a)
  BY <1>1 DEF Asked, IsListCall
<1>3. IsSeq(lists) /\ lists' = Append(lists, a) /\ Len(lists) \in Nat /\ DOMAIN lists = 1 .. Len(lists)
  BY <1>1, SeqFacts DEF ListsShape, Load
<1>4. /\ IsSeq(lists') /\ Len(lists') = Len(lists) + 1 /\ lists'[Len(lists) + 1] = a
      /\ \A k \in 1 .. Len(lists) : lists'[k] = lists[k]
  BY <1>3, AppendFacts
<1>5. DOMAIN lists' = 1 .. Len(lists')
  BY <1>4, SeqFacts
<1>6. \A i \in DOMAIN lists' : IsListCall(lists'[i])
  BY <1>2, <1>3, <1>4, <1>5 DEF ListsShape
<1>7. lists' # <<>>
  BY <1>3, <1>4
<1>8. ShownShape' /\ shown'.late = shown.late
  BY DEF Load, ShownShape, IsShown
<1> QED
  BY <1>2, <1>3, <1>4, <1>6, <1>7, <1>8 DEF Load, ListsShape

\* Sending a write adds one that is not answered.
LEMMA SendFacts ==
    ASSUME WritesShape, NEW k \in {"save", "delete", "preview"}, NEW r, NEW v, Send(k, r, v)
    PROVE  /\ WritesShape'
           /\ Len(writes) \in Nat /\ DOMAIN writes = 1 .. Len(writes)
           /\ DOMAIN writes' = 1 .. Len(writes) + 1
           /\ \A i \in 1 .. Len(writes) : writes'[i] = writes[i]
           /\ writes'[Len(writes) + 1].kind = k /\ writes'[Len(writes) + 1].answer = None
<1>1. PICK w : w = [kind |-> k, row |-> r, value |-> v, company |-> company, answer |-> None]
  OBVIOUS
<1>2. IsWrite(w) /\ w.kind = k /\ w.answer = None
  BY <1>1 DEF IsWrite
<1>3. /\ IsSeq(writes) /\ writes' = Append(writes, w)
      /\ Len(writes) \in Nat /\ DOMAIN writes = 1 .. Len(writes)
  BY <1>1, SeqFacts DEF WritesShape, Send
<1>4. /\ IsSeq(writes') /\ Len(writes') = Len(writes) + 1 /\ writes'[Len(writes) + 1] = w
      /\ \A i \in 1 .. Len(writes) : writes'[i] = writes[i]
  BY <1>3, AppendFacts
<1>5. DOMAIN writes' = 1 .. Len(writes) + 1
  BY <1>4, SeqFacts
<1>6. \A i \in DOMAIN writes' : IsWrite(writes'[i])
  BY <1>2, <1>3, <1>4, <1>5 DEF WritesShape
<1> QED
  BY <1>2, <1>3, <1>4, <1>5, <1>6 DEF WritesShape

\* The answer changes nothing else of a write.
LEMMA AnsweredFacts ==
    ASSUME WritesShape, NEW i \in DOMAIN writes, NEW a \in {"ok", "error"}, Answered(i, a)
    PROVE  /\ WritesShape' /\ DOMAIN writes' = DOMAIN writes
           /\ \A j \in DOMAIN writes :
                 /\ writes'[j].kind = writes[j].kind
                 /\ writes'[j].answer = IF j = i THEN a ELSE writes[j].answer
<1>1. IsWrite(writes[i]) /\ Len(writes) \in Nat /\ DOMAIN writes = 1 .. Len(writes)
  BY SeqFacts DEF WritesShape
<1>2. PICK w : w = [writes[i] EXCEPT !.answer = a]
  OBVIOUS
<1>3. IsWrite(w) /\ w.kind = writes[i].kind /\ w.answer = a
  BY <1>1, <1>2 DEF IsWrite
<1>4. writes' = [writes EXCEPT ![i] = w]
  BY <1>2 DEF Answered
<1>5. DOMAIN writes' = DOMAIN writes /\ \A j \in DOMAIN writes : writes'[j] = IF j = i THEN w ELSE writes[j]
  BY <1>4
<1>6. PICK S : S = {writes'[j] : j \in 1 .. Len(writes)}
  OBVIOUS
<1>7. writes' \in [1 .. Len(writes) -> S]
  BY <1>1, <1>4, <1>6
<1>8. IsSeq(writes')
  BY <1>1, <1>7, CallsOf
<1>9. \A j \in DOMAIN writes' : IsWrite(writes'[j])
  BY <1>3, <1>5 DEF WritesShape
<1> QED
  BY <1>3, <1>5, <1>8, <1>9 DEF WritesShape

\* A write that lands leaves the others as they are.
LEMMA WriteGoneFacts ==
    ASSUME WritesShape, NEW i \in DOMAIN writes, writes' = RemoveAt(writes, i)
    PROVE  /\ WritesShape' /\ Len(writes) \in Nat /\ DOMAIN writes = 1 .. Len(writes)
           /\ DOMAIN writes' = 1 .. Len(writes) - 1
           /\ \A k \in 1 .. Len(writes) - 1 : writes'[k] = IF k < i THEN writes[k] ELSE writes[k + 1]
<1>1. IsSeq(writes) /\ Len(writes) \in Nat /\ DOMAIN writes = 1 .. Len(writes)
  BY SeqFacts DEF WritesShape
<1>2. Without(writes', writes, i)
  <2>1. i \in 1 .. Len(writes)
    BY <1>1
  <2> QED
    BY <1>1, <2>1, RemoveAtFacts
<1>3. DOMAIN writes' = 1 .. Len(writes) - 1
  BY <1>2 DEF Without
<1>4. \A k \in DOMAIN writes' : IsWrite(writes'[k])
  BY <1>1, <1>2, <1>3 DEF WritesShape, Without
<1> QED
  BY <1>1, <1>2, <1>3, <1>4 DEF WritesShape, Without

\* What its answer, or an error, leaves shown.
LEMMA ShownFacts ==
    ASSUME ListsShape, ShownShape, NEW i \in DOMAIN lists, ListLands(i)
    PROVE  /\ ShownShape' /\ shown'.late = lists[i].late
           /\ shown'.error \/ shown'.items = PageOf(lists[i].query, lists[i].company).items
<1>1. IsListCall(lists[i])
  BY DEF ListsShape
<1>2. PICK b \in BOOLEAN : b = lists[i].late
  BY <1>1 DEF IsListCall
<1>3. PICK page : page = PageOf(lists[i].query, lists[i].company)
  OBVIOUS
<1>4. PICK s : s = shown
  OBVIOUS
<1>5. IsShown(s)
  BY <1>4 DEF ShownShape
<1>6. PICK d : d = shown'
  OBVIOUS
<1>7. \/ d = [items |-> page.items, page |-> page.page, totalPages |-> page.totalPages,
              error |-> FALSE, late |-> b]
      \/ d = [s EXCEPT !.items = <<>>, !.error = TRUE, !.late = b]
  BY <1>2, <1>3, <1>4, <1>6 DEF ListLands
<1>8. CASE d = [items |-> page.items, page |-> page.page, totalPages |-> page.totalPages,
                error |-> FALSE, late |-> b]
  <2>1. IsShown(d) /\ d.late = b /\ d.items = page.items
    BY <1>8 DEF IsShown
  <2> QED
    BY <1>2, <1>3, <1>6, <2>1 DEF ShownShape
<1>9. CASE d = [s EXCEPT !.items = <<>>, !.error = TRUE, !.late = b]
  <2>1. IsShown(d) /\ d.late = b /\ d.error
    BY <1>5, <1>9 DEF IsShown
  <2> QED
    BY <1>2, <1>6, <2>1 DEF ShownShape
<1> QED
  BY <1>7, <1>8, <1>9

\* A list that lands.
LEMMA ListGoneFacts ==
    ASSUME ListsShape, NEW i \in DOMAIN lists, ListLands(i)
    PROVE  /\ ListsShape' /\ Len(lists) \in Nat /\ DOMAIN lists = 1 .. Len(lists)
           /\ DOMAIN lists' = 1 .. Len(lists) - 1 /\ Len(lists') = Len(lists) - 1
           /\ \A k \in 1 .. Len(lists) - 1 : k < i => lists'[k].late
           /\ \A k \in 1 .. Len(lists) - 1 : k >= i => lists'[k] = lists[k + 1]
<1>1. PICK M : M = DOMAIN lists
  OBVIOUS
<1>2. LandedFrom(lists', lists, i, M)
  <2>1. IsSeq(lists) /\ i \in 1 .. Len(lists)
    BY SeqFacts DEF ListsShape
  <2> QED
    BY <1>1, <2>1, ListLanding, LandedFacts
<1>3. Len(lists) \in Nat /\ DOMAIN lists = 1 .. Len(lists) /\ DOMAIN lists' = 1 .. Len(lists) - 1
  BY <1>2 DEF LandedFrom
<1>4. ASSUME NEW k \in DOMAIN lists' PROVE IsListCall(lists'[k]) /\ (k < i => lists'[k].late)
  <2>1. k \in DOMAIN lists /\ k + 1 \in DOMAIN lists
    BY <1>3
  <2>2. CASE k < i
    <3>1. lists'[k] = [lists[k] EXCEPT !.late = TRUE] /\ IsListCall(lists[k])
      BY <1>1, <1>2, <1>3, <2>1, <2>2 DEF LandedFrom, ListsShape
    <3>2. PICK c : c = lists[k]
      OBVIOUS
    <3>3. PICK d : d = [c EXCEPT !.late = TRUE]
      OBVIOUS
    <3>4. d.late /\ IsListCall(d)
      BY <3>1, <3>2, <3>3 DEF IsListCall
    <3> QED
      BY <3>1, <3>2, <3>3, <3>4
  <2>3. CASE ~(k < i)
    BY <1>2, <1>3, <2>1, <2>3 DEF LandedFrom, ListsShape
  <2> QED
    BY <2>2, <2>3
<1> QED
  BY <1>2, <1>3, <1>4 DEF ListsShape, LandedFrom

\* a is a sequence of n calls, one for each source, all for company c.
OneForEach(a, n, c) ==
    /\ IsSeq(a) /\ Len(a) = n
    /\ \A k \in 1 .. n : \E s \in Sources : a[k] = [source |-> s, company |-> c, late |-> FALSE]
    /\ \A s \in Sources : \E k \in 1 .. n : a[k] = [source |-> s, company |-> c, late |-> FALSE]
    /\ \A j, k \in 1 .. n : a[j].source = a[k].source => j = k

\* So are the options asked for.
LEMMA AskedFacts ==
    ASSUME NEW c
    PROVE  \E n \in Nat : OneForEach(AskedOptions(c), n, c)
<1>1. PICK S : S = {[source |-> s, company |-> c, late |-> FALSE] : s \in Sources}
  OBVIOUS
<1>2. IsFiniteSet(S)
  <2>1. PICK f : f = [s \in Sources |-> [source |-> s, company |-> c, late |-> FALSE]]
    OBVIOUS
  <2>2. f \in [Sources -> S] /\ \A t \in S : \E s \in Sources : f[s] = t
    BY <1>1, <2>1
  <2>3. f \in Surjection(Sources, S)
    BY <2>2 DEF Surjection
  <2>4. IsFiniteSet(Sources)
    BY ListPageAssumption, Zenon
  <2> QED
    BY <2>3, <2>4, FS_Surjection
<1>3. PICK n \in Nat : n = Cardinality(S)
  BY <1>2, FS_CardinalityType
<1>4. PICK a : a = AskedOptions(c)
  OBVIOUS
<1>5. a \in [1 .. n -> S] /\ IsInjective(a)
  <2>1. \E g \in [1 .. n -> S] : IsInjective(g)
    BY <1>2, <1>3, FS_CardinalityType DEF ExistsBijection, Bijection, Injection, Surjection
  <2>2. a = SetToSeq(S)
    BY <1>1, <1>4 DEF AskedOptions
  <2>3. a = CHOOSE g \in [1 .. n -> S] : IsInjective(g)
    BY <1>3, <2>2 DEF SetToSeq
  <2> QED
    BY <2>1, <2>3
<1>6. \A t \in S : \E k \in 1 .. n : a[k] = t
  <2>1. a \in Injection(1 .. n, S)
    BY <1>5 DEF Injection
  <2>2. Cardinality(1 .. n) = n
    BY FS_Interval
  <2>3. a \in Surjection(1 .. n, S)
    BY <1>2, <1>3, <2>1, <2>2, FS_Injection
  <2> QED
    BY <2>3 DEF Surjection
<1>7. IsSeq(a) /\ Len(a) = n
  BY <1>5, CallsOf
<1>8. \A k \in 1 .. n : \E s \in Sources : a[k] = [source |-> s, company |-> c, late |-> FALSE]
  BY <1>1, <1>5
<1>9. \A s \in Sources : \E k \in 1 .. n : a[k] = [source |-> s, company |-> c, late |-> FALSE]
  BY <1>1, <1>6
<1>10. ASSUME NEW j \in 1 .. n, NEW k \in 1 .. n, a[j].source = a[k].source PROVE j = k
  <2>1. PICK s \in Sources : a[j] = [source |-> s, company |-> c, late |-> FALSE]
    BY <1>8
  <2>2. PICK t \in Sources : a[k] = [source |-> t, company |-> c, late |-> FALSE]
    BY <1>8
  <2>3. a[j] = a[k]
    BY <1>10, <2>1, <2>2
  <2> QED
    BY <1>5, <2>3 DEF IsInjective
<1> QED
  BY <1>4, <1>7, <1>8, <1>9, <1>10 DEF OneForEach

\* Options that land.
LEMMA OptionsGoneFacts ==
    ASSUME OptionsShape, NEW i \in DOMAIN optionsCalls, OptionsLand(i)
    PROVE  /\ OptionsShape'
           /\ Len(optionsCalls) \in Nat /\ DOMAIN optionsCalls = 1 .. Len(optionsCalls)
           /\ DOMAIN optionsCalls' = 1 .. Len(optionsCalls) - 1
           /\ \A k \in 1 .. Len(optionsCalls) - 1 :
                 k < i /\ optionsCalls[k].source # optionsCalls[i].source =>
                    optionsCalls'[k] = optionsCalls[k]
           /\ \A k \in 1 .. Len(optionsCalls) - 1 :
                 k < i /\ optionsCalls[k].source = optionsCalls[i].source =>
                    optionsCalls'[k].late /\ optionsCalls'[k].source = optionsCalls[k].source
           /\ \A k \in 1 .. Len(optionsCalls) - 1 : k >= i => optionsCalls'[k] = optionsCalls[k + 1]
           /\ \E o \in {optionsCalls[i].company, None} :
                 options' = [options EXCEPT ![optionsCalls[i].source] =
                                [of |-> o, late |-> optionsCalls[i].late]]
<1>1. PICK M : M = {j \in DOMAIN optionsCalls : optionsCalls[j].source = optionsCalls[i].source}
  OBVIOUS
<1>2. LandedFrom(optionsCalls', optionsCalls, i, M)
  <2>1. IsSeq(optionsCalls) /\ i \in 1 .. Len(optionsCalls)
    BY SeqFacts DEF OptionsShape
  <2> QED
    BY <1>1, <2>1, OptionsLanding, LandedFacts
<1>3. /\ Len(optionsCalls) \in Nat /\ DOMAIN optionsCalls = 1 .. Len(optionsCalls)
      /\ DOMAIN optionsCalls' = 1 .. Len(optionsCalls) - 1
  BY <1>2 DEF LandedFrom
<1>4. ASSUME NEW k \in 1 .. Len(optionsCalls) - 1, k < i,
             optionsCalls[k].source = optionsCalls[i].source
      PROVE  /\ optionsCalls'[k].late /\ optionsCalls'[k].source = optionsCalls[k].source
             /\ IsOptionsCall(optionsCalls'[k])
  <2>1. k \in DOMAIN optionsCalls
    BY <1>3
  <2>2. optionsCalls'[k] = [optionsCalls[k] EXCEPT !.late = TRUE] /\ IsOptionsCall(optionsCalls[k])
    BY <1>1, <1>2, <1>4, <2>1 DEF LandedFrom, OptionsShape
  <2>3. PICK c : c = optionsCalls[k]
    OBVIOUS
  <2>4. PICK d : d = [c EXCEPT !.late = TRUE]
    OBVIOUS
  <2>5. d.late /\ d.source = c.source /\ IsOptionsCall(d)
    BY <2>2, <2>3, <2>4 DEF IsOptionsCall
  <2> QED
    BY <2>2, <2>3, <2>4, <2>5
<1>5. \A k \in 1 .. Len(optionsCalls) - 1 :
         k < i /\ optionsCalls[k].source # optionsCalls[i].source => optionsCalls'[k] = optionsCalls[k]
  BY <1>1, <1>2 DEF LandedFrom
<1>6. \A k \in 1 .. Len(optionsCalls) - 1 : k >= i => optionsCalls'[k] = optionsCalls[k + 1]
  BY <1>2 DEF LandedFrom
<1>7. ASSUME NEW k \in DOMAIN optionsCalls' PROVE IsOptionsCall(optionsCalls'[k])
  <2>1. k \in 1 .. Len(optionsCalls) - 1 /\ k \in DOMAIN optionsCalls /\ k + 1 \in DOMAIN optionsCalls
    BY <1>3
  <2>2. i \in 1 .. Len(optionsCalls)
    BY <1>3
  <2>3. CASE k < i
    BY <1>4, <1>5, <2>1, <2>3 DEF OptionsShape
  <2>4. CASE k >= i
    BY <1>6, <2>1, <2>4 DEF OptionsShape
  <2> QED
    BY <2>1, <2>2, <2>3, <2>4
<1>8. PICK o \in {optionsCalls[i].company, None} :
         options' = [options EXCEPT ![optionsCalls[i].source] = [of |-> o, late |-> optionsCalls[i].late]]
  BY DEF OptionsLand
<1>9. options' \in [Sources -> [of : Companies \cup {None}, late : BOOLEAN]]
  <2>1. IsOptionsCall(optionsCalls[i]) /\ options \in [Sources -> [of : Companies \cup {None}, late : BOOLEAN]]
    BY DEF OptionsShape
  <2>2. PICK d : d = [of |-> o, late |-> optionsCalls[i].late]
    OBVIOUS
  <2>3. d \in [of : Companies \cup {None}, late : BOOLEAN]
    BY <2>1, <2>2 DEF IsOptionsCall
  <2> QED
    BY <1>8, <2>1, <2>2, <2>3
<1>10. OptionsShape'
  BY <1>2, <1>7, <1>9 DEF OptionsShape, LandedFrom
<1> QED
  BY <1>3, <1>4, <1>5, <1>6, <1>8, <1>10

\* Those of another company are asked for, and none are shown until they land.
LEMMA SwitchedFacts ==
    ASSUME OptionsShape, NEW c \in Companies, SwitchedOptions(c)
    PROVE  /\ OptionsShape' /\ options' = NoOptions
           /\ \A s \in Sources : \E i \in DOMAIN optionsCalls' :
                 /\ optionsCalls'[i] = [source |-> s, company |-> c, late |-> FALSE]
                 /\ \A j \in DOMAIN optionsCalls' : optionsCalls'[j].source = s => j <= i
<1>1. PICK a : a = AskedOptions(c)
  OBVIOUS
<1>2. PICK n \in Nat : OneForEach(a, n, c)
  BY <1>1, AskedFacts
<1>3. PICK m \in Nat : m = Len(optionsCalls) /\ DOMAIN optionsCalls = 1 .. m
  BY SeqFacts DEF OptionsShape
<1>4. /\ IsSeq(optionsCalls') /\ Len(optionsCalls') = m + n
      /\ \A k \in 1 .. m : optionsCalls'[k] = optionsCalls[k]
      /\ \A k \in 1 .. n : optionsCalls'[m + k] = a[k]
  <2>1. IsSeq(optionsCalls) /\ optionsCalls' = optionsCalls \o a
    BY <1>1 DEF OptionsShape, SwitchedOptions
  <2>2. IsSeq(a) /\ Len(a) = n
    BY <1>2 DEF OneForEach
  <2>3. Joined(optionsCalls', optionsCalls, a)
    BY <2>1, <2>2, ConcatFacts
  <2> QED
    BY <1>3, <2>2, <2>3 DEF Joined
<1>5. DOMAIN optionsCalls' = 1 .. m + n
  BY <1>4, SeqFacts
<1>6. ASSUME NEW k \in 1 .. m + n
      PROVE  \/ k \in 1 .. m /\ optionsCalls'[k] = optionsCalls[k]
             \/ \E h \in 1 .. n : k = m + h /\ optionsCalls'[k] = a[h]
  <2>1. CASE k <= m
    BY <1>4, <2>1
  <2>2. CASE k > m
    <3>1. PICK h \in 1 .. n : k = m + h
      <4>1. k - m \in 1 .. n /\ k = m + (k - m)
        BY <2>2
      <4> QED
        BY <4>1
    <3> QED
      BY <1>4, <3>1
  <2> QED
    BY <2>1, <2>2
<1>7. ASSUME NEW k \in DOMAIN optionsCalls' PROVE IsOptionsCall(optionsCalls'[k])
  <2>1. CASE k \in 1 .. m /\ optionsCalls'[k] = optionsCalls[k]
    BY <1>3, <2>1 DEF OptionsShape
  <2>2. ASSUME NEW h \in 1 .. n, optionsCalls'[k] = a[h] PROVE IsOptionsCall(optionsCalls'[k])
    <3>1. PICK s \in Sources : a[h] = [source |-> s, company |-> c, late |-> FALSE]
      BY <1>2, <2>2 DEF OneForEach
    <3> QED
      BY <2>2, <3>1 DEF IsOptionsCall
  <2> QED
    BY <1>5, <1>6, <2>1, <2>2
<1>8. ASSUME NEW s \in Sources
      PROVE  \E i \in DOMAIN optionsCalls' :
                 /\ optionsCalls'[i] = [source |-> s, company |-> c, late |-> FALSE]
                 /\ \A j \in DOMAIN optionsCalls' : optionsCalls'[j].source = s => j <= i
  <2>1. PICK k \in 1 .. n : a[k] = [source |-> s, company |-> c, late |-> FALSE]
    BY <1>2 DEF OneForEach
  <2>2. m + k \in DOMAIN optionsCalls' /\ optionsCalls'[m + k] = a[k]
    BY <1>4, <1>5
  <2>3. ASSUME NEW j \in DOMAIN optionsCalls', optionsCalls'[j].source = s PROVE j <= m + k
    <3>1. CASE j \in 1 .. m
      BY <3>1
    <3>2. ASSUME NEW h \in 1 .. n, j = m + h, optionsCalls'[j] = a[h] PROVE j <= m + k
      <4>1. a[h].source = a[k].source
        BY <2>1, <2>3, <3>2
      <4>2. h = k
        BY <1>2, <4>1 DEF OneForEach
      <4> QED
        BY <3>2, <4>2
    <3> QED
      BY <1>5, <1>6, <3>1, <3>2
  <2> QED
    BY <2>1, <2>2, <2>3
<1>9. options' = NoOptions /\ options' \in [Sources -> [of : Companies \cup {None}, late : BOOLEAN]]
  BY DEF SwitchedOptions, NoOptions
<1> QED
  BY <1>4, <1>7, <1>8, <1>9 DEF OptionsShape

----------------------------------------------------------------------------
(* The steps that send and land writes, and those of the other screens.     *)

\* Nothing of the list page changes.
ListStill ==
    /\ UNCHANGED <<screen, stored, query, shown, loading, lists, options, optionsCalls,
                   saving, deleting, previewing, writes, unseen>>
    /\ screen = "list" => company' = company

\* The flag of a kind of write is raised or lowered.
FlagBecomes(k, b) ==
    /\ saving' = IF k = "save" THEN b ELSE saving
    /\ deleting' = IF k = "delete" THEN b ELSE deleting
    /\ previewing' = IF k = "preview" THEN b ELSE previewing

FlagOf(k) == IF k = "save" THEN saving ELSE IF k = "delete" THEN deleting ELSE previewing

\* A write is sent, and its button disabled.
Sends(k) ==
    /\ ~FlagOf(k) /\ FlagBecomes(k, TRUE)
    /\ \E r, v : Send(k, r, v)
    /\ UNCHANGED <<screen, stored, company, query, shown, loading, lists, options, optionsCalls, unseen>>

LEMMA SendCases ==
    ASSUME RunPreview \/ Submit \/ ConfirmDelete
    PROVE  ListStill \/ \E k \in {"save", "delete", "preview"} : Sends(k)
<1>1. CASE RunPreview
  <2>1. Sends("preview")
    BY <1>1 DEF RunPreview, User, UserOn, Sends, FlagOf, FlagBecomes, listVars, optionsVars, delete
  <2> QED
    BY <2>1
<1>2. CASE Submit
  <2>1. /\ ~saving /\ UNCHANGED <<screen, previewing, deleting>>
        /\ UNCHANGED <<stored, company, query, shown, loading, lists, options, optionsCalls, unseen>>
    <3>1. User /\ MaySubmit /\ UNCHANGED <<stored, company, listVars, optionsVars, previewing, delete, unseen>>
      BY <1>2, Zenon DEF Submit
    <3> QED
      BY <3>1 DEF MaySubmit, User, UserOn, listVars, optionsVars, delete
  <2>2. CASE UNCHANGED <<saving, writes>>
    BY <2>1, <2>2 DEF ListStill
  <2>3. CASE saving' = TRUE /\ Send("save", modal.row, modal.value)
    <3>1. \E r, v : Send("save", r, v)
      BY <2>3
    <3>2. Sends("save")
      BY <2>1, <2>3, <3>1 DEF Sends, FlagOf, FlagBecomes
    <3> QED
      BY <3>2
  <2> QED
    BY <1>2, <2>2, <2>3, Zenon DEF Submit
<1>3. CASE ConfirmDelete
  <2>1. /\ ~deleting /\ deleting' = TRUE /\ UNCHANGED <<screen, previewing, saving>>
        /\ UNCHANGED <<stored, company, query, shown, loading, lists, options, optionsCalls, unseen>>
    <3>1. User /\ ~deleting /\ deleting' = TRUE
          /\ UNCHANGED <<stored, company, listVars, optionsVars, form, target, unseen>>
      BY <1>3, Zenon DEF ConfirmDelete
    <3> QED
      BY <3>1 DEF User, UserOn, listVars, optionsVars, form
  <2>2. \E r, v : Send("delete", r, v)
    BY <1>3, Zenon DEF ConfirmDelete
  <2>3. Sends("delete")
    BY <2>1, <2>2 DEF Sends, FlagOf, FlagBecomes
  <2> QED
    BY <2>3
<1> QED
  BY <1>1, <1>2, <1>3

\* A write lands: its button is enabled again and, if it was carried out, the
\* list is asked for.
WriteLands(i) ==
    /\ FlagBecomes(writes[i].kind, FALSE)
    /\ writes' = RemoveAt(writes, i)
    /\ \/ Load(query, company)
       \/ /\ UNCHANGED <<shown, loading, lists, unseen>>
          /\ writes[i].kind = "preview" \/ writes[i].answer # "ok"
    /\ UNCHANGED <<screen, stored, company, query, options, optionsCalls>>

LEMMA LandingCases ==
    ASSUME NEW i \in DOMAIN writes, SaveLands(i) \/ DeleteLands(i) \/ PreviewLands(i)
    PROVE  WriteLands(i)
<1>1. CASE SaveLands(i)
  BY <1>1 DEF SaveLands, AfterWrite, Answer, LandsOn, screenVars, WriteLands, FlagBecomes, optionsVars, delete
<1>2. CASE DeleteLands(i)
  BY <1>2 DEF DeleteLands, AfterWrite, Answer, LandsOn, screenVars, WriteLands, FlagBecomes, optionsVars, form
<1>3. CASE PreviewLands(i)
  BY <1>3 DEF PreviewLands, Answer, LandsOn, screenVars, WriteLands, FlagBecomes, listVars, optionsVars, delete
<1> QED
  BY <1>1, <1>2, <1>3

\* A write is answered.
Serves(i) ==
    /\ writes[i].answer = None
    /\ \E a \in {"ok", "error"} :
          /\ Answered(i, a)
          /\ \/ UNCHANGED stored
             \/ writes[i].kind # "preview" /\ stored' \in Results(writes[i])
          /\ a = "ok" => UNCHANGED unseen
          /\ a = "error" => unseen' = TRUE \/ UNCHANGED <<stored, unseen>>
          /\ a = "ok" => writes[i].kind # "preview" \/ UNCHANGED stored
    /\ UNCHANGED <<screen, company, query, shown, loading, lists, options, optionsCalls,
                   saving, deleting, previewing>>

LEMMA ServedCases ==
    ASSUME NEW i \in DOMAIN writes, WriteServed(i)
    PROVE  Serves(i)
<1>1. UNCHANGED <<screen, company, query, shown, loading, lists, options, optionsCalls,
                   saving, deleting, previewing>>
  BY DEF WriteServed, Answer, LandsOn, screenVars, listVars, optionsVars, form, delete
<1> QED
  BY <1>1 DEF WriteServed, Serves

\* Only a page that is on screen does anything.
LEMMA ListOnScreen ==
    ASSUME ListNext
    PROVE  screen = "list" /\ UNCHANGED screen
<1>1. CASE User \/ Answer
  BY <1>1 DEF User, Answer, UserOn, LandsOn, screenVars
<1>2. CASE ListAnswers
  BY <1>1, <1>2, Zenon DEF ListAnswers, ListLands, OptionsLand, WriteServed, SaveLands, DeleteLands, PreviewLands
<1>3. CASE OpenCreate \/ Close \/ RunPreview \/ Submit \/ CancelDelete \/ ConfirmDelete \/ Refresh \/ Debounced
  BY <1>1, <1>3, Zenon DEF OpenCreate, Close, RunPreview, Submit, CancelDelete, ConfirmDelete, Refresh, Debounced
<1>4. CASE \/ \E s : Type(s) \/ SetStatus(s) \/ Fill(s) \/ GoToPage(s) \/ ToggleSort(s) \/ SwitchCompany(s)
           \/ \E i : OpenEdit(i) \/ AskDelete(i)
  BY <1>1, <1>4, Zenon DEF Type, SetStatus, Fill, GoToPage, ToggleSort, SwitchCompany, OpenEdit, AskDelete
<1> QED
  BY <1>2, <1>3, <1>4, Zenon DEF ListNext

\* What is done on the other screens is done there.
LEMMA OnOwnScreen ==
    /\ CatalogPageNext => screen = "catalog" /\ UNCHANGED screen
    /\ ExportWatchNext => screen = "exports" /\ UNCHANGED screen
    /\ AutocompleteNext => screen = "field" /\ UNCHANGED screen
    /\ AssignmentPanelNext => screen = "panel" /\ UNCHANGED screen
    /\ RecordFormNext => screen = "form" /\ UNCHANGED screen
<1>1. ASSUME CatalogPageNext PROVE screen = "catalog" /\ UNCHANGED screen
  BY <1>1 DEF CatalogPageNext, SelectList, SelectMarket, OnSearch, TurnTo, SwitchTenant, ReadLands,
              Reader, Lands, UserOn, LandsOn, screenVars
<1>2. ASSUME ExportWatchNext PROVE screen = "exports" /\ UNCHANGED screen
  BY <1>2 DEF ExportWatchNext, RequestExport, RequestLands, Tick, PollLands, JobFinishes, ExportsOfAnother,
              Requester, Informed, UserOn, LandsOn, screenVars
<1>3. ASSUME AutocompleteNext PROVE screen = "field" /\ UNCHANGED screen
  <2>1. Typist \/ Elapses
    BY <1>3, Zenon DEF AutocompleteNext, OnInput, Search, Retry, LabelComesIn, SearchLands, Click, Hover,
                Enter, ArrowDown, ArrowUp, Escape, Blur, Focus
  <2> QED
    BY <2>1 DEF Typist, Elapses, UserOn, LandsOn, screenVars
<1>4. ASSUME AssignmentPanelNext PROVE screen = "panel" /\ UNCHANGED screen
  <2>1. Assigner \/ Comes
    BY <1>4, Zenon DEF AssignmentPanelNext, OpenPanel, Toggle, SavePanel, ClosePanelOf, ReloadRows,
                CatalogueLands, OwnLands, SaveServed, PanelSaveLands
  <2> QED
    BY <2>1 DEF Assigner, Comes, UserOn, LandsOn, screenVars
<1>5. ASSUME RecordFormNext PROVE screen = "form" /\ UNCHANGED screen
  BY <1>5 DEF RecordFormNext, OpenNew, OpenRecord, SubmitForm, SaveReturns, EnterField, Editor,
              UserOn, LandsOn, screenVars
<1> QED
  BY <1>1, <1>2, <1>3, <1>4, <1>5, Zenon

\* What the other screens do leaves the list page as it is.
LEMMA ListOrStill ==
    ASSUME [Next]_vars
    PROVE  ListNext \/ ListStill
<1>1. ASSUME UNCHANGED listParts, UNCHANGED screen, screen = "list" => company' = company
      PROVE  ListStill
  BY <1>1 DEF ListStill, listParts, listVars, optionsVars, form, delete
<1>2. CASE UNCHANGED vars
  BY <1>1, <1>2 DEF vars, screenVars
<1>3. ASSUME NEW s, s # "list", screen = s, UNCHANGED screen, UNCHANGED listParts
      PROVE  ListStill
  BY <1>1, <1>3
<1> QED
  BY <1>2, <1>3, OnOwnScreen DEF Next

----------------------------------------------------------------------------
(* Every step, and what it does to the parts of the list page.              *)

\* The list is asked for and nothing else happens.
AsksAgain == AsksFor(query', company) /\ UNCHANGED optionsVars

LEMMA ListSteps ==
    ASSUME [Next]_vars
    PROVE  \/ ListStill
           \/ /\ screen = "list"
              /\ \/ AsksAgain
                 \/ \E c \in Companies : SwitchCompany(c)
                 \/ \E k \in {"save", "delete", "preview"} : Sends(k)
                 \/ \E i \in DOMAIN lists : ListLands(i)
                 \/ \E i \in DOMAIN optionsCalls : OptionsLand(i)
                 \/ \E i \in DOMAIN writes : Serves(i) \/ WriteLands(i)
<1>1. SUFFICES ASSUME ListNext
               PROVE  \/ ListStill \/ AsksAgain
                      \/ \E c \in Companies : SwitchCompany(c)
                      \/ \E k \in {"save", "delete", "preview"} : Sends(k)
                      \/ \E i \in DOMAIN lists : ListLands(i)
                      \/ \E i \in DOMAIN optionsCalls : OptionsLand(i)
                      \/ \E i \in DOMAIN writes : Serves(i) \/ WriteLands(i)
  BY ListOnScreen, ListOrStill
<1>2. Quiet => ListStill
  BY DEF Quiet, ListStill
<1>3. AsksFor(query', company) /\ UNCHANGED optionsVars => AsksAgain
  BY DEF AsksAgain
<1>4. CASE ListAnswers
  <2>1. ASSUME NEW i \in DOMAIN writes, WriteServed(i) PROVE Serves(i)
    BY <2>1, ServedCases
  <2>2. ASSUME NEW i \in DOMAIN writes, SaveLands(i) \/ DeleteLands(i) \/ PreviewLands(i) PROVE WriteLands(i)
    BY <2>2, LandingCases
  <2> QED
    BY <1>4, <2>1, <2>2, Zenon DEF ListAnswers
<1> QED
  BY <1>1, <1>2, <1>3, <1>4, ListCases, SendCases, Zenon

WritesStill == UNCHANGED <<saving, deleting, previewing, writes>>

LEMMA WriteSteps ==
    ASSUME [Next]_vars
    PROVE  \/ WritesStill
           \/ \E k \in {"save", "delete", "preview"} : Sends(k)
           \/ \E i \in DOMAIN writes : Serves(i) \/ WriteLands(i)
<1>1. ListStill => WritesStill
  BY DEF ListStill, WritesStill
<1>2. AsksAgain => WritesStill
  BY DEF AsksAgain, AsksFor, WritesStill
<1>3. ASSUME NEW c, SwitchCompany(c) PROVE WritesStill
  BY <1>3 DEF SwitchCompany, WritesStill, delete
<1>4. ASSUME NEW i, ListLands(i) PROVE WritesStill
  BY <1>4, Zenon DEF ListLands, WritesStill, form, delete
<1>5. ASSUME NEW i, OptionsLand(i) PROVE WritesStill
  BY <1>5, Zenon DEF OptionsLand, WritesStill, form, delete
<1> QED
  BY <1>1, <1>2, <1>3, <1>4, <1>5, ListSteps, Zenon

OptionsStill ==
    UNCHANGED <<screen, options, optionsCalls>> /\ (screen = "list" => company' = company)

LEMMA OptionsSteps ==
    ASSUME [Next]_vars
    PROVE  \/ OptionsStill
           \/ \E c \in Companies : SwitchCompany(c)
           \/ \E i \in DOMAIN optionsCalls : OptionsLand(i)
<1>1. ListStill => OptionsStill
  BY DEF ListStill, OptionsStill
<1>2. AsksAgain => OptionsStill
  BY DEF AsksAgain, AsksFor, OptionsStill, optionsVars
<1>3. ASSUME NEW k, Sends(k) PROVE OptionsStill
  BY <1>3 DEF Sends, OptionsStill
<1>4. ASSUME NEW i, ListLands(i) PROVE OptionsStill
  <2>1. Answer /\ UNCHANGED <<company, optionsVars>>
    BY <1>4, Zenon DEF ListLands
  <2> QED
    BY <2>1 DEF Answer, LandsOn, screenVars, optionsVars, OptionsStill
<1>5. ASSUME NEW i, Serves(i) PROVE OptionsStill
  BY <1>5 DEF Serves, OptionsStill
<1>6. ASSUME NEW i, WriteLands(i) PROVE OptionsStill
  BY <1>6 DEF WriteLands, OptionsStill
<1> QED
  BY <1>1, <1>2, <1>3, <1>4, <1>5, <1>6, ListSteps, Zenon

----------------------------------------------------------------------------
(* Writes and the flags of their buttons.                                   *)

WriteKinds == {"save", "delete", "preview"}

\* Each flag tells whether there is a write of its kind, and there is one at most.
WriteFlags ==
    /\ \A k \in WriteKinds : FlagOf(k) <=> \E i \in DOMAIN writes : writes[i].kind = k
    /\ \A i, j \in DOMAIN writes : i # j => writes[i].kind # writes[j].kind

WriteInv == WritesShape /\ {saving, deleting, previewing} \subseteq BOOLEAN /\ WriteFlags

LEMMA FlagFacts ==
    ASSUME {saving, deleting, previewing} \subseteq BOOLEAN, NEW k \in WriteKinds, NEW b \in BOOLEAN,
           FlagBecomes(k, b)
    PROVE  /\ {saving, deleting, previewing}' \subseteq BOOLEAN
           /\ \A h \in WriteKinds : h # k => (FlagOf(h)' <=> FlagOf(h))
           /\ FlagOf(k)' <=> b
  BY DEF FlagBecomes, FlagOf, WriteKinds

LEMMA WriteInvStep ==
    ASSUME WriteInv, [Next]_vars
    PROVE  WriteInv'
<1>1. CASE WritesStill
  <2>1. UNCHANGED <<saving, deleting, previewing, writes>>
    BY <1>1 DEF WritesStill
  <2> QED
    BY <2>1 DEF WriteInv, WritesShape, WriteFlags, FlagOf
<1>2. ASSUME NEW k \in WriteKinds, Sends(k) PROVE WriteInv'
  <2>1. PICK r, v : Send(k, r, v)
    BY <1>2 DEF Sends
  <2>2. /\ WritesShape'
        /\ Len(writes) \in Nat /\ DOMAIN writes = 1 .. Len(writes)
        /\ DOMAIN writes' = 1 .. Len(writes) + 1
        /\ \A i \in 1 .. Len(writes) : writes'[i] = writes[i]
        /\ writes'[Len(writes) + 1].kind = k
    BY <2>1, SendFacts DEF WriteKinds, WriteInv
  <2>3. ~FlagOf(k) /\ FlagBecomes(k, TRUE)
    BY <1>2 DEF Sends
  <2>4. \A i \in DOMAIN writes : writes[i].kind # k
    BY <2>3 DEF WriteInv, WriteFlags
  <2>5. /\ {saving, deleting, previewing}' \subseteq BOOLEAN
        /\ \A h \in WriteKinds : h # k => (FlagOf(h)' <=> FlagOf(h))
        /\ FlagOf(k)'
    BY <2>3, FlagFacts DEF WriteInv
  <2>6. ASSUME NEW h \in WriteKinds PROVE FlagOf(h)' <=> \E i \in DOMAIN writes' : writes'[i].kind = h
    <3>1. CASE h = k
      <4>1. Len(writes) + 1 \in DOMAIN writes'
        BY <2>2
      <4> QED
        BY <2>2, <2>5, <3>1, <4>1
    <3>2. CASE h # k
      <4>1. (\E i \in DOMAIN writes' : writes'[i].kind = h) <=> \E i \in DOMAIN writes : writes[i].kind = h
        BY <2>2, <3>2
      <4> QED
        BY <2>5, <3>2, <4>1 DEF WriteInv, WriteFlags
    <3> QED
      BY <3>1, <3>2
  <2>7. \A i, j \in DOMAIN writes' : i # j => writes'[i].kind # writes'[j].kind
    BY <2>2, <2>4 DEF WriteInv, WriteFlags
  <2> QED
    BY <2>2, <2>5, <2>6, <2>7 DEF WriteInv, WriteFlags
<1>3. ASSUME NEW i \in DOMAIN writes, Serves(i) PROVE WriteInv'
  <2>1. PICK a \in {"ok", "error"} : Answered(i, a)
    BY <1>3 DEF Serves
  <2>2. /\ WritesShape' /\ DOMAIN writes' = DOMAIN writes
        /\ \A j \in DOMAIN writes : writes'[j].kind = writes[j].kind
    BY <2>1, AnsweredFacts DEF WriteInv
  <2>3. UNCHANGED <<saving, deleting, previewing>>
    BY <1>3 DEF Serves
  <2> QED
    BY <2>2, <2>3 DEF WriteInv, WriteFlags, FlagOf
<1>4. ASSUME NEW i \in DOMAIN writes, WriteLands(i) PROVE WriteInv'
  <2>1. /\ WritesShape' /\ Len(writes) \in Nat /\ DOMAIN writes = 1 .. Len(writes)
        /\ DOMAIN writes' = 1 .. Len(writes) - 1
        /\ \A k \in 1 .. Len(writes) - 1 : writes'[k] = IF k < i THEN writes[k] ELSE writes[k + 1]
    BY <1>4, WriteGoneFacts DEF WriteInv, WriteLands
  <2>2. PICK k \in WriteKinds : k = writes[i].kind
    BY DEF WriteInv, WritesShape, IsWrite, WriteKinds
  <2>3. /\ {saving, deleting, previewing}' \subseteq BOOLEAN
        /\ \A h \in WriteKinds : h # k => (FlagOf(h)' <=> FlagOf(h))
        /\ ~FlagOf(k)'
    <3>1. FlagBecomes(k, FALSE)
      BY <1>4, <2>2 DEF WriteLands
    <3> QED
      BY <3>1, FlagFacts DEF WriteInv
  <2>4. \A j \in DOMAIN writes : j # i => writes[j].kind # k
    BY <2>2 DEF WriteInv, WriteFlags
  <2>5. i \in 1 .. Len(writes)
    BY <2>1
  <2>6. ASSUME NEW j \in DOMAIN writes'
        PROVE  \E n \in DOMAIN writes : n # i /\ writes'[j] = writes[n] /\ n = (IF j < i THEN j ELSE j + 1)
    BY <2>1, <2>5
  <2>7. ASSUME NEW n \in DOMAIN writes, n # i
        PROVE  \E j \in DOMAIN writes' : writes'[j] = writes[n]
    <3>1. CASE n < i
      <4>1. n \in DOMAIN writes'
        BY <2>1, <2>5, <3>1
      <4> QED
        BY <2>1, <3>1, <4>1
    <3>2. CASE n > i
      <4>1. n - 1 \in DOMAIN writes' /\ ~(n - 1 < i) /\ n - 1 + 1 = n
        BY <2>1, <2>5, <3>2
      <4> QED
        BY <2>1, <4>1
    <3> QED
      BY <2>1, <2>5, <2>7, <3>1, <3>2
  <2>8. ASSUME NEW h \in WriteKinds PROVE FlagOf(h)' <=> \E j \in DOMAIN writes' : writes'[j].kind = h
    <3>1. CASE h = k
      BY <2>3, <2>4, <2>6, <3>1
    <3>2. CASE h # k
      <4>1. (\E j \in DOMAIN writes' : writes'[j].kind = h) <=> \E j \in DOMAIN writes : writes[j].kind = h
        BY <2>2, <2>6, <2>7, <3>2
      <4> QED
        BY <2>3, <3>2, <4>1 DEF WriteInv, WriteFlags
    <3> QED
      BY <3>1, <3>2
  <2>9. ASSUME NEW j \in DOMAIN writes', NEW l \in DOMAIN writes', j # l
        PROVE  writes'[j].kind # writes'[l].kind
    <3>1. PICK n \in DOMAIN writes : writes'[j] = writes[n] /\ n = (IF j < i THEN j ELSE j + 1)
      BY <2>6
    <3>2. PICK m \in DOMAIN writes : writes'[l] = writes[m] /\ m = (IF l < i THEN l ELSE l + 1)
      BY <2>6
    <3>3. n # m
      BY <2>1, <2>5, <2>9, <3>1, <3>2
    <3> QED
      BY <3>1, <3>2, <3>3 DEF WriteInv, WriteFlags
  <2> QED
    BY <2>1, <2>3, <2>8, <2>9 DEF WriteInv, WriteFlags
<1> QED
  BY <1>1, <1>2, <1>3, <1>4, WriteSteps DEF WriteKinds

----------------------------------------------------------------------------
(* Options.                                                                 *)

\* The newest call for the options of a source is under way, for the company
\* that is active.
NewestUnderWay(s) ==
    \E i \in DOMAIN optionsCalls :
        /\ optionsCalls[i] = [source |-> s, company |-> company, late |-> FALSE]
        /\ \A j \in DOMAIN optionsCalls : optionsCalls[j].source = s => j <= i

\* It has landed.
NewestLanded(s) ==
    /\ \A i \in DOMAIN optionsCalls : optionsCalls[i].source = s => optionsCalls[i].late
    /\ (\A i \in DOMAIN optionsCalls : optionsCalls[i].source # s) /\ ~options[s].late =>
          options[s].of \in {company, None}

NewestOptions ==
    /\ screen = "list" => \A s \in Sources : NewestUnderWay(s) \/ NewestLanded(s)
    /\ screen # "list" => options = NoOptions

OptionsInv == OptionsShape /\ NewestOptions

LEMMA OptionsInvStep ==
    ASSUME OptionsInv, [Next]_vars
    PROVE  OptionsInv'
<1>1. CASE OptionsStill
  <2>1. UNCHANGED <<screen, options, optionsCalls>> /\ (screen = "list" => company' = company)
    BY <1>1 DEF OptionsStill
  <2>2. OptionsShape'
    BY <2>1 DEF OptionsInv, OptionsShape
  <2>3. CASE screen = "list"
    <3>1. UNCHANGED <<company, options, optionsCalls, screen>>
      BY <2>1, <2>3
    <3>2. ASSUME NEW s \in Sources, NewestUnderWay(s) PROVE NewestUnderWay(s)'
      BY <3>1, <3>2 DEF NewestUnderWay
    <3>3. ASSUME NEW s \in Sources, NewestLanded(s) PROVE NewestLanded(s)'
      BY <3>1, <3>3 DEF NewestLanded
    <3> QED
      BY <2>2, <2>3, <3>1, <3>2, <3>3 DEF OptionsInv, NewestOptions
  <2>4. CASE screen # "list"
    BY <2>1, <2>2, <2>4 DEF OptionsInv, NewestOptions, NoOptions
  <2> QED
    BY <2>3, <2>4
<1>2. ASSUME NEW c \in Companies, SwitchCompany(c) PROVE OptionsInv'
  <2>1. SwitchedOptions(c) /\ company' = c /\ screen' = "list"
    BY <1>2, Zenon DEF SwitchCompany, User, UserOn
  <2>2. /\ OptionsShape'
        /\ \A s \in Sources : \E i \in DOMAIN optionsCalls' :
              /\ optionsCalls'[i] = [source |-> s, company |-> c, late |-> FALSE]
              /\ \A j \in DOMAIN optionsCalls' : optionsCalls'[j].source = s => j <= i
    BY <2>1, SwitchedFacts DEF OptionsInv
  <2>3. \A s \in Sources : NewestUnderWay(s)'
    BY <2>1, <2>2 DEF NewestUnderWay
  <2> QED
    BY <2>1, <2>2, <2>3 DEF OptionsInv, NewestOptions
<1>3. ASSUME NEW i \in DOMAIN optionsCalls, OptionsLand(i) PROVE OptionsInv'
  <2>1. screen = "list" /\ screen' = "list" /\ company' = company
    BY <1>3, Zenon DEF OptionsLand, Answer, LandsOn, screenVars
  <2>2. /\ OptionsShape'
        /\ Len(optionsCalls) \in Nat /\ DOMAIN optionsCalls = 1 .. Len(optionsCalls)
        /\ DOMAIN optionsCalls' = 1 .. Len(optionsCalls) - 1
    BY <1>3, OptionsGoneFacts DEF OptionsInv
  <2>3. PICK o \in {optionsCalls[i].company, None} :
           options' = [options EXCEPT ![optionsCalls[i].source] = [of |-> o, late |-> optionsCalls[i].late]]
    BY <1>3, OptionsGoneFacts DEF OptionsInv
  <2>4. /\ \A k \in 1 .. Len(optionsCalls) - 1 :
              k < i /\ optionsCalls[k].source # optionsCalls[i].source => optionsCalls'[k] = optionsCalls[k]
        /\ \A k \in 1 .. Len(optionsCalls) - 1 :
              k < i /\ optionsCalls[k].source = optionsCalls[i].source =>
                 optionsCalls'[k].late /\ optionsCalls'[k].source = optionsCalls[k].source
        /\ \A k \in 1 .. Len(optionsCalls) - 1 : k >= i => optionsCalls'[k] = optionsCalls[k + 1]
    BY <1>3, OptionsGoneFacts DEF OptionsInv
  <2>5. PICK n \in Nat : n = Len(optionsCalls)
    BY <2>2, Zenon
  <2>6. i \in 1 .. n
    BY <2>2, <2>5
  <2>7. ASSUME NEW j \in 1 .. n - 1
        PROVE  \E k \in 1 .. n :
                  /\ k # i /\ k = (IF j < i THEN j ELSE j + 1)
                  /\ optionsCalls'[j].source = optionsCalls[k].source
                  /\ optionsCalls[k].late => optionsCalls'[j].late
                  /\ k < i /\ optionsCalls[k].source = optionsCalls[i].source => optionsCalls'[j].late
    <3>1. CASE j < i
      BY <2>4, <2>5, <2>6, <3>1
    <3>2. CASE j >= i
      BY <2>4, <2>5, <2>6, <3>2
    <3> QED
      BY <2>6, <3>1, <3>2
  <2>8. ASSUME NEW k \in 1 .. n, k # i, k > i \/ optionsCalls[k].source # optionsCalls[i].source
        PROVE  \E j \in 1 .. n - 1 : j = (IF k < i THEN k ELSE k - 1) /\ optionsCalls'[j] = optionsCalls[k]
    <3>1. CASE k < i
      BY <2>4, <2>5, <2>6, <2>8, <3>1
    <3>2. CASE k > i
      <4>1. k - 1 \in 1 .. n - 1 /\ k - 1 >= i /\ k - 1 + 1 = k
        BY <2>6, <3>2
      <4> QED
        BY <2>4, <2>5, <2>6, <3>2, <4>1
    <3> QED
      BY <2>6, <2>8, <3>1, <3>2
  <2>9. DOMAIN optionsCalls' = 1 .. n - 1 /\ DOMAIN optionsCalls = 1 .. n
    BY <2>2, <2>5
  <2>10. ASSUME NEW s \in Sources, NEW k \in 1 .. n, k # i,
                optionsCalls[k] = [source |-> s, company |-> company, late |-> FALSE],
                \A j \in 1 .. n : optionsCalls[j].source = s => j <= k
         PROVE  NewestUnderWay(s)'
    <3>1. k > i \/ optionsCalls[k].source # optionsCalls[i].source
      BY <2>6, <2>10
    <3>2. PICK h \in 1 .. n - 1 : h = (IF k < i THEN k ELSE k - 1) /\ optionsCalls'[h] = optionsCalls[k]
      BY <2>8, <2>10, <3>1
    <3>3. ASSUME NEW j \in 1 .. n - 1, optionsCalls'[j].source = s PROVE j <= h
      <4>1. PICK m \in 1 .. n : /\ m = (IF j < i THEN j ELSE j + 1)
                                /\ optionsCalls'[j].source = optionsCalls[m].source
        BY <2>7
      <4>2. m <= k
        BY <2>10, <3>3, <4>1
      <4> QED
        BY <2>6, <2>10, <3>2, <4>1, <4>2
    <3> QED
      BY <2>1, <2>9, <2>10, <3>2, <3>3 DEF NewestUnderWay
  <2>11. ASSUME NEW s \in Sources,
                \A j \in 1 .. n : j # i /\ optionsCalls[j].source = s =>
                    optionsCalls[j].late \/ (j < i /\ s = optionsCalls[i].source)
         PROVE  \A j \in DOMAIN optionsCalls' : optionsCalls'[j].source = s => optionsCalls'[j].late
    <3>1. ASSUME NEW j \in 1 .. n - 1, optionsCalls'[j].source = s PROVE optionsCalls'[j].late
      BY <2>7, <2>11, <3>1
    <3> QED
      BY <2>9, <3>1
  <2>12. IsOptionsCall(optionsCalls[i]) /\ options \in [Sources -> [of : Companies \cup {None}, late : BOOLEAN]]
    BY DEF OptionsInv, OptionsShape
  <2>13. PICK d : d = [of |-> o, late |-> optionsCalls[i].late]
    OBVIOUS
  <2>14. ASSUME NEW s \in Sources
         PROVE  options'[s] = IF s = optionsCalls[i].source THEN d ELSE options[s]
    BY <2>3, <2>12, <2>13
  <2>15. ASSUME NEW s \in Sources PROVE NewestUnderWay(s)' \/ NewestLanded(s)'
    <3>1. CASE NewestUnderWay(s)
      <4>1. PICK k \in 1 .. n : /\ optionsCalls[k] = [source |-> s, company |-> company, late |-> FALSE]
                                /\ \A j \in 1 .. n : optionsCalls[j].source = s => j <= k
        BY <2>9, <3>1 DEF NewestUnderWay
      <4>2. CASE k # i
        BY <2>10, <4>1, <4>2
      <4>3. CASE k = i
        <5>1. \A j \in 1 .. n : j # i /\ optionsCalls[j].source = s => j < i /\ s = optionsCalls[i].source
          BY <2>6, <4>1, <4>3
        <5>2. \A j \in DOMAIN optionsCalls' : optionsCalls'[j].source = s => optionsCalls'[j].late
          BY <2>11, <5>1
        <5>3. options'[s] = d /\ d.of \in {company, None}
          BY <2>3, <2>13, <2>14, <4>1, <4>3
        <5> QED
          BY <2>1, <5>2, <5>3 DEF NewestLanded
      <4> QED
        BY <4>2, <4>3
    <3>2. CASE NewestLanded(s)
      <4>1. \A j \in 1 .. n : optionsCalls[j].source = s => optionsCalls[j].late
        BY <2>9, <3>2 DEF NewestLanded
      <4>2. \A j \in DOMAIN optionsCalls' : optionsCalls'[j].source = s => optionsCalls'[j].late
        BY <2>11, <4>1
      <4>3. CASE s = optionsCalls[i].source
        <5>1. options'[s].late
          BY <2>6, <2>13, <2>14, <4>1, <4>3
        <5> QED
          BY <4>2, <5>1 DEF NewestLanded
      <4>4. CASE s # optionsCalls[i].source
        <5>1. options'[s] = options[s]
          BY <2>14, <4>4
        <5>2. ASSUME \A j \in DOMAIN optionsCalls' : optionsCalls'[j].source # s
              PROVE  \A k \in DOMAIN optionsCalls : optionsCalls[k].source # s
          <6>1. ASSUME NEW k \in 1 .. n, optionsCalls[k].source = s PROVE FALSE
            <7>1. k # i /\ optionsCalls[k].source # optionsCalls[i].source
              BY <4>4, <6>1
            <7>2. PICK j \in 1 .. n - 1 : optionsCalls'[j] = optionsCalls[k]
              BY <2>8, <7>1
            <7> QED
              BY <2>9, <5>2, <6>1, <7>2
          <6> QED
            BY <2>9, <6>1
        <5> QED
          BY <2>1, <3>2, <4>2, <5>1, <5>2 DEF NewestLanded
      <4> QED
        BY <4>3, <4>4
    <3>3. NewestUnderWay(s) \/ NewestLanded(s)
      BY <2>1 DEF OptionsInv, NewestOptions
    <3> QED
      BY <3>1, <3>2, <3>3
  <2> QED
    BY <2>1, <2>2, <2>15 DEF OptionsInv, NewestOptions
<1> QED
  BY <1>1, <1>2, <1>3, OptionsSteps

----------------------------------------------------------------------------
(* The list.                                                                *)

\* The newest call is under way and asks for what the user sees, or it has
\* landed and the others have been overtaken.
NewestList ==
    screen = "list" =>
        \/ /\ lists # <<>>
           /\ lists[Len(lists)] = [query |-> query, company |-> company, late |-> FALSE]
        \/ \A i \in DOMAIN lists : lists[i].late

\* No write has been carried out without a list being asked for since, or one to
\* be asked for when it lands.
AllListed ==
    ~unseen /\ \A i \in DOMAIN writes : writes[i].kind = "preview" \/ writes[i].answer # "ok"

\* When no list is under way and the last answer was not overtaken, it is that
\* of the newest call.
ShownIsNewest ==
    screen = "list" /\ lists = <<>> /\ ~shown.late /\ AllListed =>
        shown.error \/ shown.items = PageOf(query, company).items

LoadingIsUnderWay == loading => lists # <<>>

\* What is not on screen has just been made.
NotEntered == screen # "list" => lists # <<>>

ListInv ==
    /\ StoredShape /\ ShownShape /\ ListsShape /\ WritesShape
    /\ loading \in BOOLEAN /\ unseen \in BOOLEAN
    /\ NewestList /\ ShownIsNewest /\ LoadingIsUnderWay /\ NotEntered

\* A step that asks for the list of what it leaves the user to see.
LEMMA Reloaded ==
    ASSUME ListsShape, ShownShape, Load(query', company'), StoredShape', WritesShape'
    PROVE  ListInv'
<1>1. PICK q, c : q = query' /\ c = company'
  OBVIOUS
<1>2. Load(q, c)
  BY <1>1
<1>3. /\ ListsShape' /\ ShownShape' /\ loading' = TRUE /\ unseen' = FALSE
      /\ lists' # <<>>
      /\ lists'[Len(lists')] = [query |-> q, company |-> c, late |-> FALSE]
  BY <1>2, LoadFacts
<1>4. NewestList'
  BY <1>1, <1>3 DEF NewestList
<1>5. ShownIsNewest' /\ LoadingIsUnderWay' /\ NotEntered'
  BY <1>3 DEF ShownIsNewest, LoadingIsUnderWay, NotEntered
<1> QED
  BY <1>3, <1>4, <1>5 DEF ListInv

\* A step that leaves the list, and what has been written is still to be listed
\* or leaves the rows as they were.
LEMMA NotReloaded ==
    ASSUME ListInv,
           UNCHANGED <<screen, query, shown, loading, lists>>,
           screen = "list" => company' = company,
           StoredShape', WritesShape', unseen' \in BOOLEAN,
           AllListed' => AllListed /\ UNCHANGED stored
    PROVE  ListInv'
<1>1. ShownShape' /\ ListsShape' /\ loading' \in BOOLEAN /\ LoadingIsUnderWay' /\ NotEntered'
  BY DEF ListInv, ShownShape, ListsShape, LoadingIsUnderWay, NotEntered
<1>2. NewestList'
  BY DEF ListInv, NewestList
<1>3. ASSUME (screen = "list" /\ lists = <<>> /\ ~shown.late /\ AllListed)'
      PROVE  (shown.error \/ shown.items = PageOf(query, company).items)'
  <2>1. screen = "list" /\ lists = <<>> /\ ~shown.late /\ AllListed /\ UNCHANGED <<stored, query, company>>
    BY <1>3
  <2>2. PageOf(query, company)' = PageOf(query, company)
    BY <2>1, PageUnchanged
  <2> QED
    BY <2>1, <2>2 DEF ListInv, ShownIsNewest
<1>4. ShownIsNewest'
  BY <1>3, Zenon DEF ShownIsNewest
<1> QED
  BY <1>1, <1>2, <1>4 DEF ListInv

\* Whatever a call leaves stored, there are the same rows.
LEMMA ResultsShape ==
    ASSUME StoredShape, NEW w, NEW t \in Results(w)
    PROVE  t = [r \in Rows |-> t[r]]
<1>1. \E r, v : t = [stored EXCEPT ![r] = v]
  BY Zenon DEF Results
<1>2. PICK r, v : t = [stored EXCEPT ![r] = v]
  BY <1>1
<1> QED
  BY <1>2 DEF StoredShape

LEMMA ListInvStep ==
    ASSUME ListInv, [Next]_vars
    PROVE  ListInv'
<1>1. CASE ListStill
  <2>1. /\ UNCHANGED <<screen, query, shown, loading, lists, stored, writes, unseen>>
        /\ screen = "list" => company' = company
    BY <1>1 DEF ListStill
  <2>2. StoredShape' /\ WritesShape' /\ unseen' \in BOOLEAN
    BY <2>1 DEF ListInv, StoredShape, WritesShape
  <2>3. AllListed' => AllListed
    BY <2>1 DEF AllListed
  <2> QED
    BY <2>1, <2>2, <2>3, NotReloaded
<1>2. CASE AsksAgain
  <2>1. Load(query', company') /\ UNCHANGED <<stored, writes>>
    BY <1>2 DEF AsksAgain, AsksFor
  <2> QED
    BY <2>1, Reloaded DEF ListInv, StoredShape, WritesShape
<1>3. ASSUME NEW c \in Companies, SwitchCompany(c) PROVE ListInv'
  <2>1. Load(query', company') /\ UNCHANGED <<stored, writes>>
    BY <1>3, Zenon DEF SwitchCompany
  <2> QED
    BY <2>1, Reloaded DEF ListInv, StoredShape, WritesShape
<1>4. ASSUME NEW k \in {"save", "delete", "preview"}, Sends(k) PROVE ListInv'
  <2>1. PICK r, v : Send(k, r, v)
    BY <1>4 DEF Sends
  <2>2. /\ WritesShape' /\ DOMAIN writes = 1 .. Len(writes) /\ Len(writes) \in Nat
        /\ DOMAIN writes' = 1 .. Len(writes) + 1
        /\ \A i \in 1 .. Len(writes) : writes'[i] = writes[i]
    BY <2>1, SendFacts DEF ListInv
  <2>3. UNCHANGED <<screen, stored, company, query, shown, loading, lists, unseen>>
    BY <1>4 DEF Sends
  <2>4. AllListed' => AllListed
    BY <2>2, <2>3 DEF AllListed
  <2>5. StoredShape'
    BY <2>3 DEF ListInv, StoredShape
  <2> QED
    BY <2>2, <2>3, <2>4, <2>5, NotReloaded DEF ListInv
<1>5. ASSUME NEW i \in DOMAIN lists, ListLands(i), screen = "list" PROVE ListInv'
  <2>1. /\ ListsShape' /\ Len(lists) \in Nat /\ DOMAIN lists = 1 .. Len(lists)
        /\ DOMAIN lists' = 1 .. Len(lists) - 1 /\ Len(lists') = Len(lists) - 1
        /\ \A k \in 1 .. Len(lists) - 1 : k < i => lists'[k].late
        /\ \A k \in 1 .. Len(lists) - 1 : k >= i => lists'[k] = lists[k + 1]
    BY <1>5, ListGoneFacts DEF ListInv
  <2>2. /\ UNCHANGED <<screen, stored, company, query, writes, unseen>> /\ loading' = FALSE
        /\ shown'.late = lists[i].late
        /\ shown'.error \/ shown'.items = PageOf(lists[i].query, lists[i].company).items
    <3>1. Answer /\ UNCHANGED <<stored, company, query, writes, unseen>> /\ loading' = FALSE
      BY <1>5, Zenon DEF ListLands
    <3> QED
      BY <1>5, <3>1, ShownFacts DEF Answer, LandsOn, screenVars, ListInv
  <2>3. ShownShape'
    BY <1>5, ShownFacts DEF ListInv
  <2>4. i \in 1 .. Len(lists)
    BY <2>1
  <2>5. \/ lists[Len(lists)] = [query |-> query, company |-> company, late |-> FALSE]
        \/ \A k \in DOMAIN lists : lists[k].late
    BY <1>5 DEF ListInv, NewestList
  <2>6. NewestList'
    <3>1. CASE \A k \in DOMAIN lists : lists[k].late
      <4>1. ASSUME NEW k \in 1 .. Len(lists) - 1 PROVE lists'[k].late
        <5>1. k + 1 \in DOMAIN lists /\ (k < i \/ k >= i)
          BY <2>1, <2>4
        <5> QED
          BY <2>1, <3>1, <5>1
      <4> QED
        BY <2>1, <4>1 DEF NewestList
    <3>2. CASE i = Len(lists)
      <4>1. \A k \in 1 .. Len(lists) - 1 : lists'[k].late
        BY <2>1, <3>2
      <4> QED
        BY <2>1, <4>1 DEF NewestList
    <3>3. CASE lists[Len(lists)] = [query |-> query, company |-> company, late |-> FALSE] /\ i # Len(lists)
      <4>1. Len(lists) - 1 \in 1 .. Len(lists) - 1 /\ Len(lists) - 1 >= i /\ Len(lists) - 1 + 1 = Len(lists)
        BY <2>1, <2>4, <3>3
      <4>2. lists'[Len(lists')] = lists[Len(lists)] /\ lists' # <<>>
        BY <2>1, <4>1
      <4> QED
        BY <2>2, <3>3, <4>2 DEF NewestList
    <3> QED
      BY <2>5, <3>1, <3>2, <3>3
  <2>7. ASSUME lists' = <<>>, ~shown'.late
        PROVE  shown'.error \/ shown'.items = PageOf(query, company).items
    <3>1. i = Len(lists)
      BY <2>1, <2>4, <2>7
    <3>2. lists[i] = [query |-> query, company |-> company, late |-> FALSE]
      BY <2>2, <2>5, <2>7, <3>1
    <3>3. lists[i].query = query /\ lists[i].company = company
      BY <3>2
    <3> QED
      BY <2>2, <3>3
  <2>8. PageOf(query, company)' = PageOf(query, company)
    BY <2>2, PageUnchanged
  <2>9. ShownIsNewest'
    BY <2>7, <2>8, Zenon DEF ShownIsNewest
  <2>10. StoredShape' /\ WritesShape' /\ loading' \in BOOLEAN /\ unseen' \in BOOLEAN /\ LoadingIsUnderWay' /\ NotEntered'
    BY <1>5, <2>2 DEF ListInv, StoredShape, WritesShape, LoadingIsUnderWay, NotEntered
  <2> QED
    BY <2>1, <2>3, <2>6, <2>9, <2>10 DEF ListInv
<1>6. ASSUME NEW i \in DOMAIN optionsCalls, OptionsLand(i) PROVE ListInv'
  <2>1. /\ UNCHANGED <<screen, query, company, shown, loading, lists, stored, writes, unseen>>
    BY <1>6, Zenon DEF OptionsLand, Answer, LandsOn, screenVars
  <2>2. StoredShape' /\ WritesShape' /\ unseen' \in BOOLEAN
    BY <2>1 DEF ListInv, StoredShape, WritesShape
  <2>3. AllListed' => AllListed
    BY <2>1 DEF AllListed
  <2> QED
    BY <2>1, <2>2, <2>3, NotReloaded
<1>7. ASSUME NEW i \in DOMAIN writes, Serves(i) PROVE ListInv'
  <2>1. PICK a \in {"ok", "error"} :
           /\ Answered(i, a)
           /\ \/ UNCHANGED stored
              \/ writes[i].kind # "preview" /\ stored' \in Results(writes[i])
           /\ a = "ok" => UNCHANGED unseen
           /\ a = "error" => unseen' = TRUE \/ UNCHANGED <<stored, unseen>>
           /\ a = "ok" => writes[i].kind # "preview" \/ UNCHANGED stored
    BY <1>7 DEF Serves
  <2>2. UNCHANGED <<screen, company, query, shown, loading, lists>> /\ writes[i].answer = None
    BY <1>7 DEF Serves
  <2>3. /\ WritesShape' /\ DOMAIN writes' = DOMAIN writes
        /\ \A j \in DOMAIN writes :
              /\ writes'[j].kind = writes[j].kind
              /\ writes'[j].answer = IF j = i THEN a ELSE writes[j].answer
    BY <2>1, AnsweredFacts DEF ListInv
  <2>4. StoredShape' /\ unseen' \in BOOLEAN
    <3>1. CASE UNCHANGED stored
      BY <2>1, <3>1 DEF ListInv, StoredShape
    <3>2. CASE stored' \in Results(writes[i])
      <4>1. PICK t : t = stored'
        OBVIOUS
      <4>2. t = [r \in Rows |-> t[r]]
        BY <3>2, <4>1, ResultsShape DEF ListInv
      <4> QED
        BY <2>1, <4>1, <4>2 DEF ListInv, StoredShape
    <3> QED
      BY <2>1, <3>1, <3>2
  <2>5. ASSUME AllListed' PROVE AllListed /\ UNCHANGED stored
    <3>1. ~unseen' /\ \A j \in DOMAIN writes : writes[j].kind = "preview" \/ writes'[j].answer # "ok"
      BY <2>3, <2>5 DEF AllListed
    <3>2. UNCHANGED <<stored, unseen>>
      BY <2>1, <2>3, <3>1
    <3>3. \A j \in DOMAIN writes : writes[j].kind = "preview" \/ writes[j].answer # "ok"
      <4>1. None # "ok"
        BY ListPageAssumption, Zenon
      <4>2. writes[i].answer # "ok"
        BY <2>2, <4>1
      <4>3. ASSUME NEW j \in DOMAIN writes PROVE writes[j].kind = "preview" \/ writes[j].answer # "ok"
        BY <2>3, <3>1, <4>2
      <4> QED
        BY <4>3
    <3> QED
      BY <3>1, <3>2, <3>3 DEF AllListed
  <2> QED
    BY <2>2, <2>3, <2>4, <2>5, NotReloaded
<1>8. ASSUME NEW i \in DOMAIN writes, WriteLands(i) PROVE ListInv'
  <2>1. /\ WritesShape' /\ Len(writes) \in Nat /\ DOMAIN writes = 1 .. Len(writes)
        /\ DOMAIN writes' = 1 .. Len(writes) - 1
        /\ \A k \in 1 .. Len(writes) - 1 : writes'[k] = IF k < i THEN writes[k] ELSE writes[k + 1]
    BY <1>8, WriteGoneFacts DEF WriteLands, ListInv
  <2>2. UNCHANGED <<screen, stored, company, query>>
    BY <1>8 DEF WriteLands
  <2>3. StoredShape'
    BY <2>2 DEF ListInv, StoredShape
  <2>4. CASE Load(query, company)
    <3>1. Load(query', company')
      BY <2>2, <2>4
    <3> QED
      BY <2>1, <2>3, <3>1, Reloaded DEF ListInv
  <2>5. CASE /\ UNCHANGED <<shown, loading, lists, unseen>>
             /\ writes[i].kind = "preview" \/ writes[i].answer # "ok"
    <3>1. ASSUME AllListed' PROVE AllListed
      <4>1. ASSUME NEW k \in 1 .. Len(writes) PROVE writes[k].kind = "preview" \/ writes[k].answer # "ok"
        <5>1. CASE k = i
          BY <2>5, <5>1
        <5>2. CASE k < i
          <6>1. k \in DOMAIN writes'
            BY <2>1, <5>2
          <6> QED
            BY <2>1, <3>1, <5>2, <6>1 DEF AllListed
        <5>3. CASE k > i
          <6>1. i \in 1 .. Len(writes)
            BY <2>1
          <6>2. k - 1 \in DOMAIN writes' /\ ~(k - 1 < i) /\ k - 1 + 1 = k
            BY <2>1, <5>3, <6>1
          <6> QED
            BY <2>1, <3>1, <6>2 DEF AllListed
        <5> QED
          BY <2>1, <5>1, <5>2, <5>3
      <4> QED
        BY <2>1, <2>5, <3>1, <4>1 DEF AllListed
    <3> QED
      BY <2>1, <2>2, <2>3, <2>5, <3>1, NotReloaded DEF ListInv
  <2> QED
    BY <1>8, <2>4, <2>5 DEF WriteLands
<1> QED
  BY <1>1, <1>2, <1>3, <1>4, <1>5, <1>6, <1>7, <1>8, ListSteps

----------------------------------------------------------------------------
(* The page as it is made, and its properties.                              *)

LEMMA FirstFacts ==
    /\ FirstStored = [r \in Rows |-> FirstStored[r]] /\ FirstCompany \in Companies
<1>1. FirstStored \in [Rows -> {"active", "inactive", "unused"}]
  BY ListPageAssumption, Zenon
<1> QED
  BY <1>1, ScreenAssumption

LEMMA OptionsInvInit ==
    ASSUME Init
    PROVE  OptionsInv
<1>1. company \in Companies /\ options = NoOptions /\ optionsCalls = AskedOptions(company)
  BY FirstFacts, Zenon DEF Init, ScreenInit, ListInit
<1>2. PICK c \in Companies : c = company
  BY <1>1
<1>3. PICK a : a = AskedOptions(c)
  OBVIOUS
<1>4. PICK n \in Nat : OneForEach(a, n, c)
  BY <1>3, AskedFacts
<1>5. IsSeq(a) /\ Len(a) = n /\ DOMAIN a = 1 .. n
  <2>1. IsSeq(a) /\ Len(a) = n
    BY <1>4 DEF OneForEach
  <2> QED
    BY <2>1, SeqFacts
<1>6. ASSUME NEW i \in 1 .. n PROVE IsOptionsCall(a[i])
  <2>1. PICK s \in Sources : a[i] = [source |-> s, company |-> c, late |-> FALSE]
    BY <1>4 DEF OneForEach
  <2> QED
    BY <2>1 DEF IsOptionsCall
<1>7. options \in [Sources -> [of : Companies \cup {None}, late : BOOLEAN]]
  BY <1>1 DEF NoOptions
<1>8. OptionsShape
  BY <1>1, <1>2, <1>3, <1>5, <1>6, <1>7 DEF OptionsShape
<1>9. ASSUME NEW s \in Sources PROVE NewestUnderWay(s)
  <2>1. PICK i \in 1 .. n : a[i] = [source |-> s, company |-> c, late |-> FALSE]
    BY <1>4 DEF OneForEach
  <2>2. ASSUME NEW j \in 1 .. n, a[j].source = s PROVE j <= i
    <3>1. a[j].source = a[i].source
      BY <2>1, <2>2
    <3>2. j = i
      BY <1>4, <3>1 DEF OneForEach
    <3> QED
      BY <3>2
  <2> QED
    BY <1>1, <1>2, <1>3, <1>5, <2>1, <2>2 DEF NewestUnderWay
<1> QED
  BY <1>1, <1>8, <1>9 DEF OptionsInv, NewestOptions

LEMMA NoWritesShape ==
    ASSUME writes = <<>>
    PROVE  WritesShape /\ DOMAIN writes = {}
  BY DEF WritesShape, IsSeq

LEMMA WriteInvInit ==
    ASSUME Init
    PROVE  WriteInv
<1>1. writes = <<>> /\ saving = FALSE /\ deleting = FALSE /\ previewing = FALSE
  BY Zenon DEF Init, ListInit
<1> QED
  BY <1>1, NoWritesShape DEF WriteInv, WriteFlags, FlagOf

LEMMA ListInvInit ==
    ASSUME Init
    PROVE  ListInv
<1>1. /\ stored = FirstStored /\ query = FirstQuery /\ shown = Blank /\ loading = TRUE
      /\ lists = <<Asked(query, company)>> /\ writes = <<>> /\ unseen = FALSE
  BY Zenon DEF Init, ListInit
<1>2. PICK c : c = Asked(query, company)
  OBVIOUS
<1>3. c = [query |-> query, company |-> company, late |-> FALSE] /\ IsListCall(c)
  BY <1>2 DEF Asked, IsListCall
<1>4. IsSeq(lists) /\ Len(lists) = 1 /\ DOMAIN lists = 1 .. 1 /\ lists[1] = c /\ lists # <<>>
  <2>1. PICK S : S = {c}
    OBVIOUS
  <2>2. lists \in Seq(S)
    BY <1>1, <1>2, <2>1
  <2> QED
    BY <1>1, <1>2, <2>2 DEF IsSeq
<1>5. ShownShape /\ StoredShape
  BY <1>1, FirstFacts DEF ShownShape, IsShown, Blank, StoredShape
<1>6. ListsShape
  <2>1. ASSUME NEW i \in DOMAIN lists PROVE IsListCall(lists[i])
    <3>1. i = 1
      BY <1>4
    <3> QED
      BY <1>3, <1>4, <3>1
  <2> QED
    BY <1>4, <2>1 DEF ListsShape
<1>7. NewestList /\ ShownIsNewest /\ LoadingIsUnderWay /\ NotEntered
  BY <1>3, <1>4 DEF NewestList, ShownIsNewest, LoadingIsUnderWay, NotEntered
<1> QED
  BY <1>1, <1>5, <1>6, <1>7, NoWritesShape DEF ListInv

LEMMA PageInvariant == Spec => [](ListInv /\ OptionsInv /\ WriteInv)
<1>1. Init => ListInv /\ OptionsInv /\ WriteInv
  BY ListInvInit, OptionsInvInit, WriteInvInit
<1>2. ListInv /\ OptionsInv /\ WriteInv /\ [Next]_vars => (ListInv /\ OptionsInv /\ WriteInv)'
  BY ListInvStep, OptionsInvStep, WriteInvStep
<1> QED
  BY <1>1, <1>2, PTL DEF Spec

\* The flags that keep the buttons of the form from being pressed, and the table
\* from being shown, are up just as long as their call is under way, and there
\* is at most one write of a kind: saving, deleting and previewing of
\* CrudPageComponent, over any number of modals opened and closed.
THEOREM FlagsAlwaysTellTheCalls == Spec => []FlagsTellTheCalls
<1>1. ListInv /\ WriteInv => FlagsTellTheCalls
  BY DEF ListInv, LoadingIsUnderWay, WriteInv, WriteFlags, WriteKinds, FlagOf, FlagsTellTheCalls
<1> QED
  BY <1>1, PageInvariant, PTL

\* When every call of the page has landed, its table is what the server has for
\* the query and the company on screen, unless the last answer was an error, was
\* overtaken, or that of a write was lost; and the options offered are those of
\* that company: load and loadOptions, whose answers nobody cancels.
THEOREM SettledPageIsAlwaysCurrent == Spec => []SettledPageIsCurrent
<1>1. ASSUME ListInv, WriteInv, lists = <<>>, writes = <<>>, ~unseen, ~shown.late
      PROVE  (shown.error \/ shown.items = PageOf(query, company).items) /\ ~loading
  <2>1. screen = "list"
    BY <1>1 DEF ListInv, NotEntered
  <2>2. AllListed
    BY <1>1, NoWritesShape DEF AllListed
  <2> QED
    BY <1>1, <2>1, <2>2 DEF ListInv, ShownIsNewest, LoadingIsUnderWay
<1>2. ASSUME OptionsInv, NEW s \in Sources, \A i \in DOMAIN optionsCalls : optionsCalls[i].source # s,
             ~options[s].late
      PROVE  options[s].of \in {company, None}
  <2>1. CASE screen = "list"
    <3>1. ~NewestUnderWay(s)
      BY <1>2 DEF NewestUnderWay
    <3>2. NewestLanded(s)
      BY <1>2, <2>1, <3>1 DEF OptionsInv, NewestOptions
    <3> QED
      BY <1>2, <3>2 DEF NewestLanded
  <2>2. CASE screen # "list"
    BY <1>2, <2>2 DEF OptionsInv, NewestOptions, NoOptions
  <2> QED
    BY <2>1, <2>2
<1>3. ListInv /\ OptionsInv /\ WriteInv => SettledPageIsCurrent
  BY <1>1, <1>2, Zenon DEF SettledPageIsCurrent
<1> QED
  BY <1>3, PageInvariant, PTL

\* A call leaves stored no row of another company than its own other than it was.
LEMMA ResultsOwned ==
    ASSUME StoredShape, NEW w, NEW t \in Results(w), NEW r \in Rows, t[r] # stored[r]
    PROVE  Owner[r] = w.company
<1>1. \E n, v : t = [stored EXCEPT ![n] = v] /\ Owner[n] = w.company
  BY Zenon DEF Results, Reachable
<1>2. PICK n, v : t = [stored EXCEPT ![n] = v] /\ Owner[n] = w.company
  BY <1>1
<1>3. n = r
  BY <1>2 DEF StoredShape
<1> QED
  BY <1>2, <1>3

\* A row changes only by a write that was sent while its company was the active
\* one: the tenant of a request is that of its sending, whatever the company is
\* switched to while a form is open or its call under way.
THEOREM WritesAlwaysStayInCompany == Spec => WritesStayInCompany
<1>1. ASSUME ListInv, [Next]_vars, NEW r \in Rows, stored'[r] # stored[r]
      PROVE  \E i \in DOMAIN writes : writes[i].company = Owner[r] /\ writes[i].answer = None
  <2>1. stored' # stored
    BY <1>1
  <2>2. PICK i \in DOMAIN writes : Serves(i)
    <3>1. ListStill => UNCHANGED stored
      BY DEF ListStill
    <3>2. AsksAgain => UNCHANGED stored
      BY DEF AsksAgain, AsksFor
    <3>3. \A c : SwitchCompany(c) => UNCHANGED stored
      BY Zenon DEF SwitchCompany
    <3>4. \A k : Sends(k) => UNCHANGED stored
      BY DEF Sends
    <3>5. \A i : ListLands(i) => UNCHANGED stored
      BY Zenon DEF ListLands
    <3>6. \A i : OptionsLand(i) => UNCHANGED stored
      BY Zenon DEF OptionsLand
    <3>7. \A i : WriteLands(i) => UNCHANGED stored
      BY DEF WriteLands
    <3> QED
      BY <1>1, <2>1, <3>1, <3>2, <3>3, <3>4, <3>5, <3>6, <3>7, ListSteps, Zenon
  <2>3. stored' \in Results(writes[i]) /\ writes[i].answer = None
    BY <2>1, <2>2 DEF Serves
  <2>4. PICK t : t = stored'
    OBVIOUS
  <2>5. Owner[r] = writes[i].company
    BY <1>1, <2>3, <2>4, ResultsOwned DEF ListInv
  <2> QED
    BY <2>3, <2>5
<1>2. ListInv /\ [Next]_vars =>
        [\A r \in Rows : stored'[r] # stored[r] =>
            \E i \in DOMAIN writes : writes[i].company = Owner[r] /\ writes[i].answer = None]_listPageVars
  BY <1>1
<1>3. Spec => []ListInv /\ [][Next]_vars
  BY PageInvariant, PTL DEF Spec
<1> QED
  BY <1>2, <1>3, PTL DEF WritesStayInCompany

----------------------------------------------------------------------------
(* The panels of assignments.                                               *)

IsPanel(p) == p \in [owner : {p.owner}, open : BOOLEAN, ticks : {p.ticks}, from : {p.from},
                     touched : BOOLEAN, crossed : BOOLEAN]
IsSave(s) == s \in [owner : {s.owner}, ticks : {s.ticks}, answer : {s.answer}, clean : BOOLEAN]

AssignedShape == assigned = [o \in Owners |-> assigned[o]]
SavesShape == IsSeq(saves) /\ \A i \in DOMAIN saves : IsSave(saves[i])

\* What panel p has ticked as it was loaded is what its owner has.
TickedAsLoaded(p) ==
    p.owner # None /\ p.from = "own" /\ ~p.touched /\ ~p.crossed => p.ticks = assigned[p.owner]

\* There is one save at most, and as long as there is, a panel that is open or
\* opened knows that it is crossed by one.
SavesCross ==
    /\ savingPanel \in BOOLEAN /\ (savingPanel <=> DOMAIN saves # {})
    /\ savingPanel => DOMAIN saves = {1} /\ panel.crossed

\* A save of what was ticked as it was loaded would change nothing.
CleanSaves ==
    \A i \in DOMAIN saves : saves[i].clean /\ saves[i].answer = None =>
        saves[i].ticks = assigned[saves[i].owner]

PanelInv ==
    AssignedShape /\ IsPanel(panel) /\ SavesShape /\ TickedAsLoaded(panel) /\ SavesCross /\ CleanSaves

\* A step of the panel alone.
LEMMA PanelAlone ==
    ASSUME PanelInv, UNCHANGED <<assigned, savingPanel, saves>>,
           NEW p, p = panel', IsPanel(p), TickedAsLoaded(p), savingPanel => p.crossed
    PROVE  PanelInv'
<1>1. AssignedShape' /\ SavesShape' /\ CleanSaves' /\ SavesCross'
  BY DEF PanelInv, AssignedShape, SavesShape, CleanSaves, SavesCross
<1>2. IsPanel(panel)' /\ TickedAsLoaded(panel)'
  BY DEF IsPanel, TickedAsLoaded
<1> QED
  BY <1>1, <1>2 DEF PanelInv

\* Panel q is p, perhaps closed or without an owner or with ticks that are known
\* to be of somebody else.
EditOf(q, p) ==
    \/ q = p
    \/ q = [p EXCEPT !.from = "late"]
    \/ q = [p EXCEPT !.open = FALSE, !.owner = None]
    \/ q = [p EXCEPT !.open = FALSE]

LEMMA EditFacts ==
    ASSUME NEW p, NEW q, IsPanel(p), TickedAsLoaded(p), EditOf(q, p)
    PROVE  IsPanel(q) /\ TickedAsLoaded(q) /\ q.crossed = p.crossed
<1>1. CASE q = p
  BY <1>1
<1>2. CASE q = [p EXCEPT !.from = "late"]
  <2>1. IsPanel(q) /\ q.from = "late" /\ q.crossed = p.crossed
    BY <1>2 DEF IsPanel
  <2> QED
    BY <2>1 DEF TickedAsLoaded
<1>3. CASE q = [p EXCEPT !.open = FALSE, !.owner = None]
  <2>1. IsPanel(q) /\ q.owner = None /\ q.crossed = p.crossed
    BY <1>3 DEF IsPanel
  <2> QED
    BY <2>1 DEF TickedAsLoaded
<1>4. CASE q = [p EXCEPT !.open = FALSE]
  <2>1. /\ IsPanel(q) /\ q.owner = p.owner /\ q.crossed = p.crossed /\ q.from = p.from
        /\ q.touched = p.touched /\ q.ticks = p.ticks
    BY <1>4 DEF IsPanel
  <2> QED
    BY <2>1 DEF TickedAsLoaded
<1> QED
  BY <1>1, <1>2, <1>3, <1>4 DEF EditOf

LEMMA PanelEdited ==
    ASSUME PanelInv, UNCHANGED <<assigned, savingPanel, saves>>, EditOf(panel', panel)
    PROVE  PanelInv'
<1>1. PICK p : p = panel
  OBVIOUS
<1>2. IsPanel(p) /\ TickedAsLoaded(p) /\ (savingPanel => p.crossed)
  BY <1>1 DEF PanelInv, SavesCross
<1>3. PICK q : q = panel'
  OBVIOUS
<1>4. IsPanel(q) /\ TickedAsLoaded(q) /\ q.crossed = p.crossed
  BY <1>1, <1>2, <1>3, EditFacts
<1> QED
  BY <1>2, <1>3, <1>4, PanelAlone

\* Panel q is p with other ticks.
TouchOf(q, p, t) == q = [p EXCEPT !.touched = TRUE, !.ticks = t]

LEMMA PanelTouched ==
    ASSUME PanelInv, UNCHANGED <<assigned, savingPanel, saves>>, NEW t, TouchOf(panel', panel, t)
    PROVE  PanelInv'
<1>1. PICK p : p = panel
  OBVIOUS
<1>2. IsPanel(p) /\ TickedAsLoaded(p) /\ (savingPanel => p.crossed)
  BY <1>1 DEF PanelInv, SavesCross
<1>3. PICK q : q = panel'
  OBVIOUS
<1>4. IsPanel(q) /\ q.touched /\ q.crossed = p.crossed
  BY <1>1, <1>2, <1>3 DEF IsPanel, TouchOf
<1>5. TickedAsLoaded(q)
  BY <1>4 DEF TickedAsLoaded
<1> QED
  BY <1>2, <1>3, <1>4, <1>5, PanelAlone

\* The ticks of a load are those of its owner, or are known not to be.
LEMMA PanelTicked ==
    ASSUME PanelInv, UNCHANGED <<assigned, savingPanel, saves>>,
           NEW call, NEW ticks, NEW from, Ticked(call, ticks, from),
           from = "own" => ticks = assigned[call.owner]
    PROVE  PanelInv'
<1>1. PICK p : p = panel
  OBVIOUS
<1>2. IsPanel(p) /\ TickedAsLoaded(p) /\ (savingPanel => p.crossed)
  BY <1>1 DEF PanelInv, SavesCross
<1>3. PICK g : g = IF call.owner = p.owner /\ ~call.late THEN from ELSE "late"
  OBVIOUS
<1>4. PICK q : q = panel'
  OBVIOUS
<1>5. q = [p EXCEPT !.ticks = ticks, !.touched = FALSE, !.from = g]
  BY <1>1, <1>3, <1>4 DEF Ticked
<1>6. IsPanel(q) /\ q.owner = p.owner /\ q.ticks = ticks /\ q.from = g /\ q.crossed = p.crossed
  BY <1>2, <1>5 DEF IsPanel
<1>7. TickedAsLoaded(q)
  BY <1>3, <1>6 DEF TickedAsLoaded
<1> QED
  BY <1>2, <1>4, <1>6, <1>7, PanelAlone

LEMMA PanelInvStep ==
    ASSUME PanelInv, [Next]_vars
    PROVE  PanelInv'
<1>1. CASE UNCHANGED <<assigned, panel, savingPanel, saves>>
  BY <1>1, PanelEdited DEF EditOf
<1>2. ASSUME NEW o, OpenPanel(o) PROVE PanelInv'
  <2>1. PICK t, f : t = TicksAtFirst(o) /\ f = IF kind = "lists" THEN "row" ELSE "none"
    OBVIOUS
  <2>2. panel' = [owner |-> o, open |-> TRUE, ticks |-> t, from |-> f,
                  touched |-> FALSE, crossed |-> savingPanel]
    BY <1>2, <2>1 DEF OpenPanel
  <2>3. PICK q : q = panel'
    OBVIOUS
  <2>4. savingPanel \in BOOLEAN
    BY DEF PanelInv, SavesCross
  <2>5. IsPanel(q) /\ q.crossed = savingPanel /\ q.from # "own"
    BY <2>1, <2>2, <2>3, <2>4 DEF IsPanel
  <2>6. TickedAsLoaded(q)
    BY <2>5 DEF TickedAsLoaded
  <2> QED
    BY <1>2, <2>3, <2>5, <2>6, PanelAlone DEF OpenPanel
<1>3. ASSUME NEW x, Toggle(x) PROVE PanelInv'
  <2>1. PICK t : t = IF x \in panel.ticks THEN panel.ticks \ {x} ELSE panel.ticks \cup {x}
    OBVIOUS
  <2>2. TouchOf(panel', panel, t)
    BY <1>3, <2>1 DEF Toggle, TouchOf
  <2> QED
    BY <1>3, <2>2, PanelTouched DEF Toggle
<1>4. CASE SavePanel
  <2>1. PICK p : p = panel
    OBVIOUS
  <2>2. IsPanel(p) /\ TickedAsLoaded(p)
    BY <2>1 DEF PanelInv
  <2>3. PICK b \in BOOLEAN : b <=> p.from = "own" /\ ~p.touched /\ ~p.crossed
    OBVIOUS
  <2>4. PICK s : s = [owner |-> p.owner, ticks |-> p.ticks, answer |-> None, clean |-> b]
    OBVIOUS
  <2>5. /\ ~savingPanel /\ savingPanel' = TRUE /\ p.owner # None
        /\ saves' = Append(saves, s) /\ UNCHANGED assigned
        /\ panel' = [p EXCEPT !.crossed = TRUE]
    BY <1>4, <2>1, <2>3, <2>4 DEF SavePanel, MaySave
  <2>6. Len(saves) \in Nat /\ DOMAIN saves = 1 .. Len(saves) /\ IsSeq(saves) /\ DOMAIN saves = {}
    BY <2>5, SeqFacts DEF PanelInv, SavesShape, SavesCross
  <2>7. Len(saves) = 0
    BY <2>6
  <2>8. IsSeq(saves') /\ Len(saves') = 1 /\ saves'[1] = s
    <3>1. /\ IsSeq(Append(saves, s)) /\ Len(Append(saves, s)) = Len(saves) + 1
          /\ Append(saves, s)[Len(saves) + 1] = s
      BY <2>6, AppendFacts
    <3> QED
      BY <2>5, <2>7, <3>1
  <2>9. DOMAIN saves' = {1}
    BY <2>8, SeqFacts
  <2>10. IsSave(s) /\ s.owner = p.owner /\ s.ticks = p.ticks /\ (s.clean <=> b)
    BY <2>4 DEF IsSave
  <2>11. SavesShape' /\ CleanSaves'
    <3>1. s.clean => s.ticks = assigned[s.owner]
      BY <2>2, <2>3, <2>5, <2>10 DEF TickedAsLoaded
    <3> QED
      BY <2>5, <2>8, <2>9, <2>10, <3>1 DEF SavesShape, CleanSaves
  <2>12. PICK q : q = panel'
    OBVIOUS
  <2>13. IsPanel(q) /\ q.crossed = TRUE
    BY <2>2, <2>5, <2>12 DEF IsPanel
  <2>14. SavesCross' /\ IsPanel(panel)' /\ TickedAsLoaded(panel)'
    BY <2>5, <2>9, <2>12, <2>13 DEF SavesCross, IsPanel, TickedAsLoaded
  <2>15. AssignedShape'
    BY <2>5 DEF PanelInv, AssignedShape
  <2> QED
    BY <2>11, <2>14, <2>15 DEF PanelInv
<1>5. CASE ClosePanelOf
  BY <1>5, PanelEdited DEF ClosePanelOf, EditOf, ClosedPanel
<1>6. CASE ReloadRows
  BY <1>6, PanelEdited DEF ReloadRows, EditOf
<1>7. ASSUME NEW i, CatalogueLands(i) PROVE PanelInv'
  BY <1>7, PanelEdited DEF CatalogueLands, EditOf
<1>8. ASSUME NEW i, OwnLands(i) PROVE PanelInv'
  <2>1. PICK call : call = loads[i]
    OBVIOUS
  <2>2. UNCHANGED <<assigned, savingPanel, saves>>
    BY <1>8 DEF OwnLands
  <2>3. \/ Ticked(call, assigned[call.owner], "own")
        \/ Ticked(call, {}, "none")
        \/ UNCHANGED panel
    BY <1>8, <2>1 DEF OwnLands, Has
  <2>4. CASE Ticked(call, assigned[call.owner], "own")
    BY <2>2, <2>4, PanelTicked
  <2>5. CASE Ticked(call, {}, "none")
    BY <2>2, <2>5, PanelTicked
  <2>6. CASE UNCHANGED panel
    BY <2>2, <2>6, PanelEdited DEF EditOf
  <2> QED
    BY <2>3, <2>4, <2>5, <2>6
<1>9. ASSUME NEW i \in DOMAIN saves, SaveServed(i) PROVE PanelInv'
  <2>1. UNCHANGED <<panel, savingPanel>> /\ saves[i].answer = None
    BY <1>9 DEF SaveServed
  <2>2. IsSeq(saves) /\ DOMAIN saves = {1} /\ i = 1 /\ savingPanel /\ panel.crossed /\ IsSave(saves[1])
    BY DEF PanelInv, SavesShape, SavesCross
  <2>3. Len(saves) = 1
    BY <2>2, SeqFacts
  <2>4. PICK a : saves' = [saves EXCEPT ![1].answer = a]
    BY <1>9, <2>2 DEF SaveServed
  <2>5. PICK s : s = saves[1]
    OBVIOUS
  <2>6. PICK t : t = [s EXCEPT !.answer = a]
    OBVIOUS
  <2>7. IsSave(t) /\ t.owner = s.owner /\ t.ticks = s.ticks /\ t.clean = s.clean
    BY <2>2, <2>5, <2>6 DEF IsSave
  <2>8. saves' = [saves EXCEPT ![1] = t]
    BY <2>4, <2>5, <2>6
  <2>9. DOMAIN saves' = {1} /\ saves'[1] = t
    BY <2>2, <2>8
  <2>10. IsSeq(saves')
    <3>1. PICK S : S = {t}
      OBVIOUS
    <3>2. saves' \in [{1} -> S]
      BY <2>2, <2>8, <2>9, <3>1
    <3>3. 1 .. 1 = {1}
      OBVIOUS
    <3> QED
      BY <3>2, <3>3, CallsOf
  <2>11. \/ UNCHANGED assigned
         \/ assigned' = [assigned EXCEPT ![s.owner] = s.ticks]
    BY <1>9, <2>2, <2>5 DEF SaveServed
  <2>12. AssignedShape'
    BY <2>11 DEF PanelInv, AssignedShape
  <2>13. s.clean => s.ticks = assigned[s.owner]
    BY <2>1, <2>2, <2>5 DEF PanelInv, CleanSaves
  <2>14. s.clean => s.ticks = assigned'[s.owner]
    BY <2>11, <2>13 DEF PanelInv, AssignedShape
  <2>15. SavesShape' /\ CleanSaves'
    BY <2>7, <2>9, <2>10, <2>14 DEF SavesShape, CleanSaves
  <2>16. SavesCross' /\ IsPanel(panel)' /\ TickedAsLoaded(panel)'
    BY <2>1, <2>2, <2>9 DEF PanelInv, SavesCross, IsPanel, TickedAsLoaded
  <2> QED
    BY <2>12, <2>15, <2>16 DEF PanelInv
<1>10. ASSUME NEW i \in DOMAIN saves, PanelSaveLands(i) PROVE PanelInv'
  <2>1. UNCHANGED assigned /\ savingPanel' = FALSE /\ saves' = RemoveAt(saves, i)
    BY <1>10 DEF PanelSaveLands
  <2>2. IsSeq(saves) /\ DOMAIN saves = {1} /\ i = 1
    BY DEF PanelInv, SavesShape, SavesCross
  <2>3. Len(saves) = 1
    BY <2>2, SeqFacts
  <2>4. Without(saves', saves, i)
    BY <2>1, <2>2, <2>3, RemoveAtFacts
  <2>5. DOMAIN saves' = {} /\ IsSeq(saves')
    BY <2>3, <2>4 DEF Without
  <2>6. SavesShape' /\ CleanSaves' /\ SavesCross'
    BY <2>1, <2>5 DEF SavesShape, CleanSaves, SavesCross
  <2>7. \/ UNCHANGED panel \/ panel' = ClosedPanel \/ panel' = [panel EXCEPT !.open = FALSE]
    BY <1>10 DEF PanelSaveLands
  <2>8. PICK p : p = panel
    OBVIOUS
  <2>9. PICK q : q = panel'
    OBVIOUS
  <2>10. IsPanel(p) /\ TickedAsLoaded(p)
    BY <2>8 DEF PanelInv
  <2>11. IsPanel(q) /\ TickedAsLoaded(q)
    <3>1. EditOf(q, p)
      BY <2>7, <2>8, <2>9 DEF EditOf, ClosedPanel
    <3> QED
      BY <2>10, <3>1, EditFacts
  <2>12. IsPanel(panel)' /\ TickedAsLoaded(panel)' /\ AssignedShape'
    BY <2>1, <2>9, <2>11 DEF IsPanel, TickedAsLoaded, PanelInv, AssignedShape
  <2> QED
    BY <2>6, <2>12 DEF PanelInv
<1>11. UNCHANGED panelParts => UNCHANGED <<assigned, panel, savingPanel, saves>>
  BY DEF panelParts
<1>12. UNCHANGED vars => UNCHANGED panelParts
  BY DEF vars
<1> QED
  BY <1>1, <1>2, <1>3, <1>4, <1>5, <1>6, <1>7, <1>8, <1>9, <1>10, <1>11, <1>12, Zenon
     DEF Next, AssignmentPanelNext

\* What an owner has changes only by a save that is known to have been touched or
\* overtaken: opening a panel and saving it as it is changes nothing, though its
\* ticks and its owner are set by different calls (openAccess, openMarketplaces,
\* openPermissions and their saves).
THEOREM UntouchedSaveIsAlwaysHarmless == Spec => UntouchedSaveIsHarmless
<1>1. Init => PanelInv
  <2> SUFFICES ASSUME Init PROVE PanelInv
    OBVIOUS
  <2>1. panel = NoPanel /\ savingPanel = FALSE /\ saves = <<>> /\ assigned = FirstAssigned
    BY Zenon DEF Init, AssignmentPanelInit
  <2>2. IsPanel(panel) /\ panel.owner = None
    BY <2>1 DEF NoPanel, IsPanel
  <2>3. IsSeq(saves) /\ DOMAIN saves = {}
    BY <2>1 DEF IsSeq
  <2>4. SavesShape /\ CleanSaves /\ SavesCross
    BY <2>1, <2>3 DEF SavesShape, CleanSaves, SavesCross
  <2>5. AssignedShape /\ TickedAsLoaded(panel)
    BY <2>1, <2>2, AssignmentPanelAssumption DEF AssignedShape, TickedAsLoaded
  <2> QED
    BY <2>2, <2>4, <2>5 DEF PanelInv
<1>2. ASSUME PanelInv, [Next]_vars, assigned' # assigned
      PROVE  \E i \in DOMAIN saves : saves[i].answer = None /\ ~saves[i].clean
  <2>1. PICK i \in DOMAIN saves : SaveServed(i)
    <3>1. \A o : OpenPanel(o) => UNCHANGED assigned
      BY Zenon DEF OpenPanel
    <3>2. \A x : Toggle(x) => UNCHANGED assigned
      BY Zenon DEF Toggle
    <3>3. SavePanel \/ ClosePanelOf \/ ReloadRows => UNCHANGED assigned
      BY Zenon DEF SavePanel, ClosePanelOf, ReloadRows
    <3>4. \A i : CatalogueLands(i) \/ OwnLands(i) \/ PanelSaveLands(i) => UNCHANGED assigned
      BY Zenon DEF CatalogueLands, OwnLands, PanelSaveLands
    <3>5. UNCHANGED panelParts \/ UNCHANGED vars => UNCHANGED assigned
      BY DEF panelParts, vars
    <3> QED
      BY <1>2, <3>1, <3>2, <3>3, <3>4, <3>5, Zenon DEF Next, AssignmentPanelNext
  <2>2. saves[i].answer = None /\ assigned' = [assigned EXCEPT ![saves[i].owner] = saves[i].ticks]
    BY <1>2, <2>1 DEF SaveServed
  <2>3. saves[i].ticks # assigned[saves[i].owner]
    BY <1>2, <2>2 DEF PanelInv, AssignedShape
  <2> QED
    BY <1>2, <2>2, <2>3 DEF PanelInv, CleanSaves
<1>3. PanelInv /\ [Next]_vars => PanelInv'
  BY PanelInvStep
<1>4. PanelInv /\ [Next]_vars =>
        [assigned' # assigned =>
            \E i \in DOMAIN saves : saves[i].answer = None /\ ~saves[i].clean]_assignmentPanelVars
  BY <1>2
<1> QED
  BY <1>1, <1>3, <1>4, PTL DEF Spec, UntouchedSaveIsHarmless

----------------------------------------------------------------------------
(* The autocomplete field.                                                  *)

IsField(f) == f \in [text : {f.text}, focused : {f.focused}]
IsSuggestions(l) == l \in [options : {l.options}, term : {l.term}, active : {l.active}]
IsSearch(s) == s \in [term : {s.term}, live : BOOLEAN]
IsPopup(p) == p \in [open : {p.open}, status : {p.status}]
SearchesShape == IsSeq(searches) /\ \A i \in DOMAIN searches : IsSearch(searches[i])

\* Suggestions m are l, perhaps with another one active.
SameSuggestions(m, l) == IsSuggestions(m) /\ m.options = l.options /\ m.term = l.term

\* Field g is f with text t.
Retyped(g, f, t) == IsField(g) /\ g.text = t

\* Popup q is p, perhaps opened or closed.
SameStatus(q, p) == IsPopup(q) /\ q.status = p.status

LEMMA OpenFacts ==
    ASSUME NEW p, IsPopup(p), NEW b
    PROVE  SameStatus([p EXCEPT !.open = b], p)
<1>1. PICK q : q = [p EXCEPT !.open = b]
  OBVIOUS
<1>2. IsPopup(q) /\ q.status = p.status
  BY <1>1 DEF IsPopup
<1> QED
  BY <1>1, <1>2 DEF SameStatus

LEMMA ActiveFacts ==
    ASSUME NEW l, IsSuggestions(l), NEW n
    PROVE  SameSuggestions([l EXCEPT !.active = n], l)
<1>1. PICK m : m = [l EXCEPT !.active = n]
  OBVIOUS
<1>2. IsSuggestions(m) /\ m.options = l.options /\ m.term = l.term
  BY <1>1 DEF IsSuggestions
<1> QED
  BY <1>1, <1>2 DEF SameSuggestions

LEMMA TextFacts ==
    ASSUME NEW f, IsField(f), NEW t
    PROVE  Retyped([f EXCEPT !.text = t], f, t)
<1>1. PICK g : g = [f EXCEPT !.text = t]
  OBVIOUS
<1>2. IsField(g) /\ g.text = t
  BY <1>1 DEF IsField
<1> QED
  BY <1>1, <1>2 DEF Retyped

\* The calls under way after all were cancelled.
NoneLive(calls) == IsSeq(calls) /\ \A i \in DOMAIN calls : IsSearch(calls[i]) /\ ~calls[i].live

LEMMA CancelledFacts ==
    ASSUME SearchesShape
    PROVE  NoneLive(Cancelled)
<1>1. PICK c : c = Cancelled
  OBVIOUS
<1>2. Len(searches) \in Nat /\ DOMAIN searches = 1 .. Len(searches)
  BY SeqFacts DEF SearchesShape
<1>3. PICK S : S = {c[i] : i \in 1 .. Len(searches)}
  OBVIOUS
<1>4. c \in [1 .. Len(searches) -> S]
  BY <1>1, <1>2, <1>3 DEF Cancelled
<1>5. IsSeq(c) /\ DOMAIN c = DOMAIN searches
  BY <1>2, <1>4, CallsOf
<1>6. ASSUME NEW i \in DOMAIN c PROVE IsSearch(c[i]) /\ ~c[i].live
  <2>1. PICK s : s = searches[i]
    OBVIOUS
  <2>2. PICK t : t = [s EXCEPT !.live = FALSE]
    OBVIOUS
  <2>3. IsSearch(s) /\ c[i] = t
    BY <1>1, <1>5, <2>1, <2>2 DEF SearchesShape, Cancelled
  <2>4. IsSearch(t) /\ ~t.live
    BY <2>2, <2>3 DEF IsSearch
  <2> QED
    BY <2>3, <2>4
<1> QED
  BY <1>1, <1>5, <1>6 DEF NoneLive

----------------------------------------------------------------------------
(* Its steps, by what they do to the suggestions and to what is selected.   *)


FieldStill == UNCHANGED <<field, value, control, initial, timer, searches, list, popup, sent>>

\* Moving in the suggestions, or to and from the field.
Browses ==
    /\ Unchanged
    /\ IsField(field) => Retyped(field', field, field.text)
    /\ IsSuggestions(list) => SameSuggestions(list', list)
    /\ IsPopup(popup) => SameStatus(popup', popup)

\* An option is selected.
Selects(o) ==
    /\ value' = o /\ control' = o
    /\ field' = [field EXCEPT !.text = Label[o]]
    /\ list' = NoList
    /\ UNCHANGED <<initial, timer, searches, sent>>

LEMMA FieldSteps ==
    ASSUME [Next]_vars
    PROVE  \/ FieldStill \/ Browses
           \/ \E t \in Texts : OnInput(t)
           \/ Search \/ Retry \/ LabelComesIn
           \/ \E i \in DOMAIN searches : SearchLands(i)
           \/ \E i \in DOMAIN list.options : Selects(list.options[i])
<1>1. /\ IsField(field) => Retyped(field, field, field.text)
      /\ IsSuggestions(list) => SameSuggestions(list, list)
      /\ IsPopup(popup) => SameStatus(popup, popup)
  BY DEF Retyped, SameSuggestions, SameStatus
<1>2. ASSUME UNCHANGED field \/ \E b : field' = [field EXCEPT !.focused = b]
      PROVE  IsField(field) => Retyped(field', field, field.text)
  <2>1. PICK f : f = field
    OBVIOUS
  <2>2. PICK g : g = field'
    OBVIOUS
  <2>3. ASSUME NEW b, g = [f EXCEPT !.focused = b], IsField(f) PROVE Retyped(g, f, f.text)
    BY <2>3 DEF IsField, Retyped
  <2> QED
    BY <1>1, <1>2, <2>1, <2>2, <2>3, Zenon
<1>3. ASSUME NEW i, Hover(i) PROVE Browses
  <2>1. Unchanged /\ UNCHANGED <<field, popup>> /\ list' = [list EXCEPT !.active = i]
    BY <1>3, Zenon DEF Hover
  <2> QED
    BY <1>1, <2>1, ActiveFacts DEF Browses
<1>4. CASE ArrowDown
  <2>1. Unchanged /\ UNCHANGED field
    BY <1>4, Zenon DEF ArrowDown
  <2>2. CASE popup.open
    <3>1. UNCHANGED popup /\ list' = Moved(1)
      BY <1>4, <2>2, Zenon DEF ArrowDown
    <3>2. PICK n : n = ((list.active - 1 + 1 + Len(list.options)) % Len(list.options)) + 1
      OBVIOUS
    <3>3. list' = list \/ list' = [list EXCEPT !.active = n]
      BY <3>1, <3>2 DEF Moved
    <3> QED
      BY <1>1, <2>1, <3>1, <3>3, ActiveFacts DEF Browses
  <2>3. CASE ~popup.open
    <3>1. UNCHANGED list /\ popup' = [popup EXCEPT !.open = TRUE]
      BY <1>4, <2>3, Zenon DEF ArrowDown
    <3> QED
      BY <1>1, <2>1, <3>1, OpenFacts DEF Browses
  <2> QED
    BY <2>2, <2>3
<1>5. CASE ArrowUp
  <2>1. Unchanged /\ UNCHANGED <<field, popup>> /\ list' = Moved(-1)
    BY <1>5, Zenon DEF ArrowUp
  <2>2. PICK n : n = ((list.active - 1 + (-1) + Len(list.options)) % Len(list.options)) + 1
    OBVIOUS
  <2>3. list' = list \/ list' = [list EXCEPT !.active = n]
    BY <2>1, <2>2 DEF Moved
  <2> QED
    BY <1>1, <2>1, <2>3, ActiveFacts DEF Browses
<1>6. CASE Escape
  <2>1. Unchanged /\ UNCHANGED field /\ ClosePopup
    BY <1>6, Zenon DEF Escape
  <2> QED
    BY <1>1, <2>1, ActiveFacts, OpenFacts DEF Browses, ClosePopup
<1>7. CASE Blur
  <2>1. Unchanged /\ field' = [field EXCEPT !.focused = FALSE] /\ ClosePopup
    BY <1>7, Zenon DEF Blur
  <2> QED
    BY <1>2, <2>1, ActiveFacts, OpenFacts DEF Browses, ClosePopup
<1>8. CASE Focus
  <2>1. PICK b : b = (popup.open \/ list.options # <<>> \/ Loading)
    OBVIOUS
  <2>2. /\ Unchanged /\ field' = [field EXCEPT !.focused = TRUE] /\ UNCHANGED list
        /\ popup' = [popup EXCEPT !.open = b]
    BY <1>8, <2>1, Zenon DEF Focus
  <2> QED
    BY <1>1, <1>2, <2>2, OpenFacts DEF Browses
<1>9. ASSUME NEW o, Select(o) PROVE Selects(o)
  BY <1>9, Zenon DEF Select, Shown, Selects
<1>10. ASSUME NEW i \in DOMAIN list.options, Click(i)
       PROVE  \E j \in DOMAIN list.options : Selects(list.options[j])
  BY <1>9, <1>10, Zenon DEF Click
<1>11. CASE Enter
  BY <1>9, <1>11, Zenon DEF Enter
<1>12. UNCHANGED fieldParts \/ UNCHANGED vars => FieldStill
  BY DEF fieldParts, vars, FieldStill
<1> QED
  BY <1>3, <1>4, <1>5, <1>6, <1>7, <1>8, <1>10, <1>11, <1>12, Zenon DEF Next, AutocompleteNext

----------------------------------------------------------------------------
(* The id that is selected and the text of its field.                       *)

\* Until something is typed or selected, the id of an edited record stands in
\* its field and nothing has been searched for.
AsOpened == value # None /\ field.text # Label[value]

NothingSearched ==
    /\ searches = <<>> /\ timer = None /\ list.options = <<>>
    /\ IsPopup(popup) /\ popup.status # "loadError"

IdInv == IsField(field) /\ IsSuggestions(list) /\ IdMatchesText /\ (AsOpened => NothingSearched)

LEMMA IdInvStep ==
    ASSUME IdInv, [Next]_vars
    PROVE  IdInv'
<1>1. CASE FieldStill
  BY <1>1 DEF FieldStill, IdInv, IsField, IsSuggestions, IdMatchesText, AsOpened, NothingSearched, IsPopup
<1>2. CASE Browses
  <2>1. UNCHANGED <<value, control, initial, timer, searches>> /\ Retyped(field', field, field.text)
        /\ SameSuggestions(list', list) /\ (IsPopup(popup) => SameStatus(popup', popup))
    BY <1>2 DEF Browses, Unchanged, IdInv
  <2>2. /\ IsField(field') /\ field'.text = field.text /\ IsSuggestions(list')
        /\ list'.options = list.options
    BY <2>1 DEF Retyped, SameSuggestions
  <2>3. IsPopup(popup) => IsPopup(popup') /\ popup'.status = popup.status
    BY <2>1 DEF SameStatus
  <2>4. IsField(field)' /\ IsSuggestions(list)' /\ (IsPopup(popup') => IsPopup(popup)')
    BY <2>2 DEF IsField, IsSuggestions, IsPopup
  <2>5. IdMatchesText'
    BY <2>1, <2>2 DEF IdInv, IdMatchesText
  <2>6. AsOpened' => NothingSearched'
    BY <2>1, <2>2, <2>3, <2>4 DEF IdInv, AsOpened, NothingSearched
  <2> QED
    BY <2>4, <2>5, <2>6 DEF IdInv
<1>3. ASSUME NEW t \in Texts, OnInput(t) PROVE IdInv'
  <2>1. field' = [field EXCEPT !.text = t] /\ Typed /\ (UNCHANGED list \/ list' = NoList)
    BY <1>3, Zenon DEF OnInput
  <2>2. Retyped(field', field, t)
    BY <2>1, TextFacts DEF IdInv
  <2>3. IsField(field)' /\ IsSuggestions(list)'
    BY <2>1, <2>2 DEF Retyped, IsField, IsSuggestions, NoList, IdInv
  <2>4. value' = None /\ control' = None
    BY <2>1 DEF Typed, IdInv, IdMatchesText
  <2> QED
    BY <2>3, <2>4 DEF IdInv, IdMatchesText, AsOpened
<1>4. CASE Search
  <2>1. timer # None /\ UNCHANGED <<field, value, control, initial, list>>
    BY <1>4, Zenon DEF Search
  <2>2. ~AsOpened
    BY <2>1 DEF IdInv, NothingSearched
  <2> QED
    BY <2>1, <2>2 DEF IdInv, IsField, IsSuggestions, IdMatchesText, AsOpened
<1>5. CASE Retry
  <2>1. popup.status = "loadError" /\ UNCHANGED <<field, value, control, initial, list>>
    BY <1>5, Zenon DEF Retry
  <2>2. ~AsOpened
    BY <2>1 DEF IdInv, NothingSearched
  <2> QED
    BY <2>1, <2>2 DEF IdInv, IsField, IsSuggestions, IdMatchesText, AsOpened
<1>6. CASE LabelComesIn
  <2>1. /\ initial # None /\ initial' = None /\ UNCHANGED <<value, control, timer, searches, list, popup>>
        /\ field' = IF LabelCameInTime THEN [field EXCEPT !.text = Label[initial]] ELSE field
    BY <1>6, Zenon DEF LabelComesIn
  <2>2. IsSuggestions(list)'
    BY <2>1 DEF IdInv, IsSuggestions
  <2>3. CASE LabelCameInTime
    <3>1. Retyped(field', field, Label[initial]) /\ value = initial
      BY <2>1, <2>3, TextFacts DEF IdInv, LabelCameInTime
    <3>2. IsField(field)' /\ field'.text = Label[value]
      BY <3>1 DEF Retyped, IsField
    <3> QED
      BY <2>1, <2>2, <3>2 DEF IdInv, IdMatchesText, AsOpened
  <2>4. CASE ~LabelCameInTime
    <3>1. UNCHANGED field
      BY <2>1, <2>4
    <3>2. ASSUME value # None PROVE field.text = Label[value]
      <4>1. SUFFICES ASSUME AsOpened PROVE FALSE
        BY <3>2 DEF AsOpened
      <4>2. list.options = <<>> /\ value = initial
        BY <3>2, <4>1 DEF IdInv, NothingSearched, IdMatchesText, AsOpened
      <4>3. Range(list.options) = {}
        BY <4>2 DEF Range
      <4> QED
        BY <2>4, <4>2, <4>3 DEF LabelCameInTime
    <3> QED
      BY <2>1, <2>2, <3>1, <3>2 DEF IdInv, IsField, IdMatchesText, AsOpened
  <2> QED
    BY <2>3, <2>4
<1>7. ASSUME NEW i \in DOMAIN searches, SearchLands(i) PROVE IdInv'
  <2>1. UNCHANGED <<field, value, control, initial>>
    BY <1>7, Zenon DEF SearchLands
  <2>2. ~AsOpened
    BY DEF IdInv, NothingSearched
  <2>3. IsSuggestions(list)'
    <3>1. PICK found, n : found = Suggest[searches[i].term] /\ n = IF found = <<>> THEN 0 ELSE 1
      OBVIOUS
    <3>2. \/ UNCHANGED list \/ list' = NoList
          \/ list' = [options |-> found, term |-> searches[i].term, active |-> n]
      BY <1>7, <3>1, Zenon DEF SearchLands
    <3> QED
      BY <3>2 DEF IsSuggestions, NoList, IdInv
  <2> QED
    BY <2>1, <2>2, <2>3 DEF IdInv, IsField, IdMatchesText, AsOpened
<1>8. ASSUME NEW o, Selects(o) PROVE IdInv'
  <2>1. value' = o /\ control' = o /\ field' = [field EXCEPT !.text = Label[o]] /\ list' = NoList
    BY <1>8 DEF Selects
  <2>2. Retyped(field', field, Label[o])
    BY <2>1, TextFacts DEF IdInv
  <2>3. IsField(field)' /\ field'.text = Label[value'] /\ IsSuggestions(list)'
    BY <2>1, <2>2 DEF Retyped, IsField, IsSuggestions, NoList
  <2> QED
    BY <2>1, <2>3 DEF IdInv, IdMatchesText, AsOpened
<1> QED
  BY <1>1, <1>2, <1>3, <1>4, <1>5, <1>6, <1>7, <1>8, FieldSteps

LEMMA FieldInit ==
    ASSUME Init
    PROVE  /\ control = value /\ initial = value /\ timer = None /\ searches = <<>> /\ list = NoList
           /\ IsField(field) /\ (value # None => field.text = "id")
           /\ IsPopup(popup) /\ popup.status # "loadError"
<1>1. /\ control = value /\ initial = value /\ timer = None /\ searches = <<>> /\ list = NoList
      /\ field = [text |-> IF value = None THEN "" ELSE "id", focused |-> FALSE]
      /\ popup = [open |-> FALSE, status |-> ""]
  BY Zenon DEF Init, AutocompleteInit
<1>2. PICK e : e = ""
  BY Zenon
<1>3. e # "loadError"
  BY <1>2, Zenon
<1>4. /\ field = [text |-> IF value = None THEN e ELSE "id", focused |-> FALSE]
      /\ popup = [open |-> FALSE, status |-> e]
  BY <1>1, <1>2, Zenon
<1>5. PICK t : t = IF value = None THEN e ELSE "id"
  OBVIOUS
<1>6. field = [text |-> t, focused |-> FALSE]
  BY <1>4, <1>5
<1> QED
  <2>1. IsField(field) /\ (value # None => field.text = "id")
    BY <1>5, <1>6 DEF IsField
  <2>2. IsPopup(popup) /\ popup.status # "loadError"
    BY <1>3, <1>4 DEF IsPopup
  <2>3. control = value /\ initial = value /\ timer = None /\ searches = <<>> /\ list = NoList
    BY <1>1, Zenon
  <2> QED
    BY <2>1, <2>2, <2>3

\* The form control holds an id only with the label of that id in the field, or,
\* until it is touched, with that of the record that is edited: onInput, select
\* and syncInitialOption of AsyncAutocompleteComponent, in any order.
THEOREM IdAlwaysMatchesText == Spec => []IdMatchesText
<1>1. Init => IdInv
  <2> SUFFICES ASSUME Init PROVE IdInv
    OBVIOUS
  <2>1. IdMatchesText
    BY FieldInit DEF IdMatchesText
  <2>2. IsSuggestions(list) /\ list.options = <<>>
    BY FieldInit DEF IsSuggestions, NoList
  <2> QED
    BY <2>1, <2>2, FieldInit DEF IdInv, NothingSearched
<1>2. IdInv /\ [Next]_vars => IdInv'
  BY IdInvStep
<1>3. IdInv => IdMatchesText
  BY DEF IdInv
<1> QED
  BY <1>1, <1>2, <1>3, PTL DEF Spec

----------------------------------------------------------------------------
(* The suggestions and the searches they come from.                         *)

\* The last search is the only one that is listened to.
OnlyLastLive ==
    \A i \in DOMAIN searches : Live(i) => i = Len(searches) /\ searches[i].term = sent

\* What is suggested was found by it, once it has landed.
OfLastSearch == list.options # <<>> /\ ~Loading => list.term = sent

SuggestInv == SearchesShape /\ IsSuggestions(list) /\ OnlyLastLive /\ OfLastSearch

LEMMA SuggestInvStep ==
    ASSUME SuggestInv, [Next]_vars
    PROVE  SuggestInv'
<1>1. ASSUME UNCHANGED <<searches, sent>>, SameSuggestions(list', list) \/ list' = NoList PROVE SuggestInv'
  <2>1. SearchesShape' /\ OnlyLastLive' /\ (Loading' <=> Loading)
    BY <1>1 DEF SuggestInv, SearchesShape, OnlyLastLive, Live, Loading
  <2>2. CASE SameSuggestions(list', list)
    <3>1. IsSuggestions(list)' /\ list'.options = list.options /\ list'.term = list.term
      BY <2>2 DEF SameSuggestions, IsSuggestions
    <3> QED
      BY <1>1, <2>1, <3>1 DEF SuggestInv, OfLastSearch
  <2>3. CASE list' = NoList
    <3>1. IsSuggestions(list)' /\ list'.options = <<>>
      BY <2>3 DEF NoList, IsSuggestions
    <3> QED
      BY <2>1, <3>1 DEF SuggestInv, OfLastSearch
  <2> QED
    BY <1>1, <2>2, <2>3
<1>2. UNCHANGED list => SameSuggestions(list', list)
  BY DEF SuggestInv, SameSuggestions
<1>3. CASE FieldStill
  BY <1>1, <1>2, <1>3 DEF FieldStill
<1>4. CASE Browses
  BY <1>1, <1>4 DEF Browses, Unchanged, SuggestInv
<1>5. CASE Retry
  <2>1. UNCHANGED <<searches, sent, list>>
    BY <1>5, Zenon DEF Retry
  <2> QED
    BY <1>1, <1>2, <2>1
<1>6. CASE LabelComesIn
  <2>1. UNCHANGED <<searches, sent, list>>
    BY <1>6, Zenon DEF LabelComesIn
  <2> QED
    BY <1>1, <1>2, <2>1
<1>7. ASSUME NEW o, Selects(o) PROVE SuggestInv'
  BY <1>1, <1>7 DEF Selects
<1>8. NoneLive(Cancelled)
  BY CancelledFacts DEF SuggestInv
<1>9. ASSUME NEW t \in Texts, OnInput(t) PROVE SuggestInv'
  <2>1. UNCHANGED sent /\ (UNCHANGED <<searches, list>> \/ (searches' = Cancelled /\ list' = NoList))
    BY <1>9, Zenon DEF OnInput, CancelPending
  <2>2. CASE UNCHANGED <<searches, list>>
    BY <1>1, <1>2, <2>1, <2>2
  <2>3. CASE searches' = Cancelled /\ list' = NoList
    <3>1. NoneLive(searches')
      BY <1>8, <2>3
    <3>2. SearchesShape' /\ OnlyLastLive'
      BY <3>1 DEF NoneLive, SearchesShape, OnlyLastLive, Live
    <3>3. IsSuggestions(list)' /\ OfLastSearch'
      BY <2>3 DEF NoList, IsSuggestions, OfLastSearch
    <3> QED
      BY <3>2, <3>3 DEF SuggestInv
  <2> QED
    BY <2>1, <2>2, <2>3
<1>10. CASE Search
  <2>1. UNCHANGED list /\ \/ UNCHANGED <<searches, sent>>
                          \/ /\ searches' = Append(Cancelled, [term |-> timer, live |-> TRUE])
                             /\ sent' = timer
    BY <1>10, Zenon DEF Search, CancelPending
  <2>2. CASE UNCHANGED <<searches, sent>>
    BY <1>1, <1>2, <2>1, <2>2
  <2>3. CASE searches' = Append(Cancelled, [term |-> timer, live |-> TRUE]) /\ sent' = timer
    <3>1. PICK c : c = Cancelled
      OBVIOUS
    <3>2. PICK s : s = [term |-> timer, live |-> TRUE]
      OBVIOUS
    <3>3. NoneLive(c) /\ searches' = Append(c, s) /\ IsSearch(s) /\ s.live /\ s.term = sent'
      BY <1>8, <2>3, <3>1, <3>2 DEF IsSearch
    <3>4. IsSeq(c) /\ Len(c) \in Nat /\ DOMAIN c = 1 .. Len(c)
      BY <3>3, SeqFacts DEF NoneLive
    <3>5. /\ IsSeq(Append(c, s)) /\ Len(Append(c, s)) = Len(c) + 1
          /\ \A k \in 1 .. Len(c) : Append(c, s)[k] = c[k]
          /\ Append(c, s)[Len(c) + 1] = s
      BY <3>4, AppendFacts
    <3>6. PICK n \in Nat : n = Len(c)
      BY <3>4, Zenon
    <3>7. /\ IsSeq(searches') /\ Len(searches') = n + 1
          /\ \A k \in 1 .. n : searches'[k] = c[k]
          /\ searches'[n + 1] = s
      BY <3>3, <3>5, <3>6
    <3>8. DOMAIN searches' = 1 .. n + 1
      BY <3>7, SeqFacts
    <3>9. ASSUME NEW i \in 1 .. n + 1
          PROVE  IsSearch(searches'[i]) /\ (searches'[i].live => i = n + 1)
      <4>1. CASE i = n + 1
        BY <3>3, <3>7, <4>1
      <4>2. CASE i # n + 1
        <5>1. i \in 1 .. n
          BY <4>2
        <5> QED
          BY <3>3, <3>4, <3>6, <3>7, <5>1 DEF NoneLive
      <4> QED
        BY <4>1, <4>2
    <3>10. SearchesShape' /\ OnlyLastLive'
      BY <3>3, <3>7, <3>8, <3>9 DEF SearchesShape, OnlyLastLive, Live
    <3>11. Loading'
      <4>1. n + 1 \in DOMAIN searches'
        BY <3>8
      <4> QED
        BY <3>3, <3>7, <4>1 DEF Loading, Live
    <3> QED
      BY <2>1, <3>10, <3>11 DEF SuggestInv, OfLastSearch, IsSuggestions
  <2> QED
    BY <2>1, <2>2, <2>3
<1>11. ASSUME NEW i \in DOMAIN searches, SearchLands(i) PROVE SuggestInv'
  <2>1. searches' = RemoveAt(searches, i) /\ UNCHANGED sent
    BY <1>11, Zenon DEF SearchLands
  <2>2. PICK n \in Nat : n = Len(searches) /\ DOMAIN searches = 1 .. n
    <3>1. Len(searches) \in Nat /\ DOMAIN searches = 1 .. Len(searches)
      BY SeqFacts DEF SuggestInv, SearchesShape
    <3> QED
      BY <3>1, Zenon
  <2>3. i \in 1 .. n /\ i \in 1 .. Len(searches)
    BY <2>2
  <2>4. Without(searches', searches, i)
    BY <2>1, <2>3, RemoveAtFacts DEF SuggestInv, SearchesShape
  <2>5. IsSeq(searches') /\ Len(searches') = n - 1 /\ DOMAIN searches' = 1 .. n - 1
    BY <2>2, <2>4 DEF Without
  <2>6. ASSUME NEW k \in 1 .. n - 1
        PROVE  \E j \in 1 .. n : j # i /\ searches'[k] = searches[j] /\ j = IF k < i THEN k ELSE k + 1
    <3>1. CASE k < i
      BY <2>2, <2>3, <2>4, <3>1 DEF Without
    <3>2. CASE k >= i
      BY <2>2, <2>3, <2>4, <3>2 DEF Without
    <3> QED
      BY <2>3, <3>1, <3>2
  <2>7. SearchesShape'
    BY <2>2, <2>5, <2>6 DEF SuggestInv, SearchesShape
  <2>8. \A j \in 1 .. n : searches[j].live => j = n /\ searches[j].term = sent
    BY <2>2 DEF SuggestInv, OnlyLastLive, Live
  <2>9. OnlyLastLive'
    <3>1. ASSUME NEW k \in 1 .. n - 1, searches'[k].live PROVE k = n - 1 /\ searches'[k].term = sent
      <4>1. PICK j \in 1 .. n : j # i /\ searches'[k] = searches[j] /\ j = IF k < i THEN k ELSE k + 1
        BY <2>6
      <4>2. j = n /\ searches[j].term = sent
        BY <2>8, <3>1, <4>1
      <4> QED
        BY <2>3, <4>1, <4>2
    <3> QED
      BY <2>1, <2>5, <3>1 DEF OnlyLastLive, Live
  <2>10. CASE ~Live(i)
    <3>1. UNCHANGED list
      BY <1>11, <2>10, Zenon DEF SearchLands
    <3>2. ASSUME Loading PROVE Loading'
      <4>1. PICK j \in 1 .. n : searches[j].live
        BY <2>2, <3>2 DEF Loading, Live
      <4>2. j = n /\ i < n
        BY <2>3, <2>8, <2>10, <4>1 DEF Live
      <4>3. n - 1 \in 1 .. n - 1 /\ n - 1 >= i /\ n - 1 + 1 = n /\ n - 1 \in DOMAIN searches'
        BY <2>3, <2>5, <4>2
      <4>4. searches'[n - 1] = searches[n]
        BY <2>2, <2>4, <4>3 DEF Without
      <4> QED
        BY <4>1, <4>2, <4>3, <4>4 DEF Loading, Live
    <3> QED
      BY <2>1, <2>7, <2>9, <3>1, <3>2 DEF SuggestInv, OfLastSearch, IsSuggestions
  <2>11. CASE Live(i)
    <3>1. searches[i].term = sent
      BY <2>2, <2>3, <2>8, <2>11 DEF Live
    <3>2. PICK found, m : found = Suggest[searches[i].term] /\ m = IF found = <<>> THEN 0 ELSE 1
      OBVIOUS
    <3>3. \/ list' = NoList
          \/ list' = [options |-> found, term |-> searches[i].term, active |-> m]
      BY <1>11, <2>11, <3>2, Zenon DEF SearchLands
    <3>4. IsSuggestions(list)' /\ (list'.options = <<>> \/ list'.term = sent)
      BY <3>1, <3>3 DEF IsSuggestions, NoList
    <3> QED
      BY <2>1, <2>7, <2>9, <3>4 DEF SuggestInv, OfLastSearch
  <2> QED
    BY <2>10, <2>11
<1> QED
  BY <1>3, <1>4, <1>5, <1>6, <1>7, <1>9, <1>10, <1>11, FieldSteps

\* Once nothing is under way that is still listened to, the suggestions are those
\* of the last search, and while it is under way it is the only one listened to:
\* cancelPending and the subscription that applies an answer.
THEOREM SuggestionsAreAlwaysNewest == Spec => []SuggestionsAreNewest
<1>1. Init => SuggestInv
  <2> SUFFICES ASSUME Init PROVE SuggestInv
    OBVIOUS
  <2>1. searches = <<>> /\ list = NoList
    BY FieldInit
  <2>2. IsSeq(searches) /\ DOMAIN searches = {} /\ IsSuggestions(list) /\ list.options = <<>>
    BY <2>1 DEF IsSeq, IsSuggestions, NoList
  <2> QED
    BY <2>2 DEF SuggestInv, SearchesShape, OnlyLastLive, OfLastSearch
<1>2. SuggestInv /\ [Next]_vars => SuggestInv'
  BY SuggestInvStep
<1>3. SuggestInv => SuggestionsAreNewest
  BY DEF SuggestInv, OnlyLastLive, OfLastSearch, SuggestionsAreNewest
<1> QED
  BY <1>1, <1>2, <1>3, PTL DEF Spec

----------------------------------------------------------------------------
(* The catalog page: its calls, by what they are for.                       *)

IsRead(c) ==
    /\ c \in [kind : Kinds, tenant : Companies, late : BOOLEAN, of : {c.of}]

ReadsShape(r) == IsSeq(r) /\ \A i \in DOMAIN r : IsRead(r[i])

\* What a call asks for: the lists of a company, the marketplaces of a list, the
\* rows of a selection.
About(c) ==
    IF c.kind = "lists" THEN c.tenant ELSE IF c.kind = "markets" THEN c.of.list ELSE c.of

\* The newest call of kind k asks for x and has not been overtaken.
NewestRead(r, k, x) ==
    \E n \in DOMAIN r : /\ r[n].kind = k /\ ~r[n].late /\ About(r[n]) = x
                        /\ \A j \in DOMAIN r : r[j].kind = k => j <= n

\* The newest call of kind k has landed.
AllOvertaken(r, k) == \A n \in DOMAIN r : r[n].kind = k => r[n].late

UnderWay(r, k) == \E n \in DOMAIN r : r[n].kind = k

\* What is known of the calls of kind k in r still holds in q.
KeepsReads(r, q, k) ==
    /\ \A x : NewestRead(r, k, x) => NewestRead(q, k, x)
    /\ AllOvertaken(r, k) => AllOvertaken(q, k)
    /\ UnderWay(r, k) => UnderWay(q, k)

\* A call that is sent is the newest of its kind.
LEMMA SentFacts ==
    ASSUME NEW r, ReadsShape(r), NEW c, IsRead(c), ~c.late
    PROVE  /\ ReadsShape(Append(r, c))
           /\ NewestRead(Append(r, c), c.kind, About(c)) /\ UnderWay(Append(r, c), c.kind)
           /\ \A k : k # c.kind => KeepsReads(r, Append(r, c), k)
<1>1. PICK q : q = Append(r, c)
  OBVIOUS
<1>2. IsSeq(r) /\ Len(r) \in Nat /\ DOMAIN r = 1 .. Len(r)
  BY SeqFacts DEF ReadsShape
<1>3. IsSeq(q) /\ Len(q) = Len(r) + 1 /\ q[Len(r) + 1] = c /\ \A k \in 1 .. Len(r) : q[k] = r[k]
  BY <1>1, <1>2, AppendFacts
<1>4. PICK n : n = Len(r)
  OBVIOUS
<1>5. /\ n \in Nat /\ DOMAIN r = 1 .. n /\ DOMAIN q = 1 .. n + 1
      /\ q[n + 1] = c /\ \A k \in 1 .. n : q[k] = r[k]
  BY <1>2, <1>3, <1>4, SeqFacts
<1>6. n + 1 \in DOMAIN q /\ \A j \in DOMAIN q : j <= n + 1 /\ (j = n + 1 \/ j \in 1 .. n)
  BY <1>5
<1>7. ReadsShape(q)
  BY <1>3, <1>5, <1>6 DEF ReadsShape
<1>8. NewestRead(q, c.kind, About(c)) /\ UnderWay(q, c.kind)
  BY <1>5, <1>6 DEF NewestRead, UnderWay
<1>9. ASSUME NEW k, k # c.kind PROVE KeepsReads(r, q, k)
  <2>1. \A j \in DOMAIN q : q[j].kind = k => j \in 1 .. n /\ q[j] = r[j]
    BY <1>5, <1>6, <1>9
  <2>2. \A j \in DOMAIN r : j \in DOMAIN q /\ q[j] = r[j]
    BY <1>5
  <2>3. ASSUME NEW x, NewestRead(r, k, x) PROVE NewestRead(q, k, x)
    BY <1>5, <2>1, <2>2, <2>3 DEF NewestRead
  <2> QED
    BY <1>5, <2>1, <2>2, <2>3 DEF KeepsReads, AllOvertaken, UnderWay
<1> QED
  BY <1>1, <1>7, <1>8, <1>9

SameKind(r, i) == {j \in DOMAIN r : r[j].kind = r[i].kind}

\* A call that lands overtakes those of its kind that were sent before it, and
\* leaves the others as they are.
LEMMA ReadGone ==
    ASSUME NEW r, ReadsShape(r), NEW i \in DOMAIN r, NEW q, LandedFrom(q, r, i, SameKind(r, i))
    PROVE  /\ ReadsShape(q)
           /\ \A k : k # r[i].kind => KeepsReads(r, q, k)
           /\ AllOvertaken(r, r[i].kind) => r[i].late /\ AllOvertaken(q, r[i].kind)
           /\ \A x : NewestRead(r, r[i].kind, x) =>
                 \/ NewestRead(q, r[i].kind, x)
                 \/ AllOvertaken(q, r[i].kind) /\ About(r[i]) = x
<1>1. PICK n : n = Len(r)
  OBVIOUS
<1>2. n \in Nat /\ DOMAIN r = 1 .. n /\ DOMAIN q = 1 .. n - 1 /\ IsSeq(q) /\ i \in 1 .. n
  BY <1>1 DEF LandedFrom
<1>3. PICK K : K = SameKind(r, i)
  OBVIOUS
<1>4. \A j \in 1 .. n : j \in K <=> r[j].kind = r[i].kind
  BY <1>2, <1>3 DEF SameKind
<1>5. /\ \A j \in 1 .. n - 1 : j < i /\ j \notin K => q[j] = r[j]
      /\ \A j \in 1 .. n - 1 : j < i /\ j \in K => q[j] = [r[j] EXCEPT !.late = TRUE]
      /\ \A j \in 1 .. n - 1 : j >= i => q[j] = r[j + 1]
  BY <1>1, <1>3 DEF LandedFrom
<1>6. \A j \in 1 .. n : IsRead(r[j])
  BY <1>2 DEF ReadsShape
<1>7. ASSUME NEW j \in 1 .. n - 1, j < i
      PROVE  /\ IsRead(q[j]) /\ q[j].kind = r[j].kind /\ About(q[j]) = About(r[j])
             /\ q[j].late <=> (r[j].late \/ r[j].kind = r[i].kind)
  <2>1. j \in 1 .. n /\ IsRead(r[j]) /\ r[j].late \in BOOLEAN
    BY <1>2, <1>6 DEF IsRead
  <2>2. CASE j \in K
    <3>1. PICK c : c = r[j]
      OBVIOUS
    <3>2. PICK d : d = q[j]
      OBVIOUS
    <3>3. d = [c EXCEPT !.late = TRUE] /\ IsRead(c) /\ r[j].kind = r[i].kind
      BY <1>4, <1>5, <1>7, <2>1, <2>2, <3>1, <3>2
    <3>4. IsRead(d) /\ d.kind = c.kind /\ d.tenant = c.tenant /\ d.of = c.of /\ d.late
      BY <3>3 DEF IsRead
    <3> QED
      BY <3>1, <3>2, <3>3, <3>4 DEF About
  <2>3. CASE j \notin K
    BY <1>4, <1>5, <1>7, <2>1, <2>3
  <2> QED
    BY <2>2, <2>3
<1>8. ASSUME NEW j \in 1 .. n - 1, j >= i
      PROVE  q[j] = r[j + 1] /\ j + 1 \in 1 .. n /\ IsRead(q[j])
  BY <1>2, <1>5, <1>6, <1>8
<1>9. ReadsShape(q)
  <2>1. ASSUME NEW j \in 1 .. n - 1 PROVE IsRead(q[j])
    <3>1. j < i \/ j >= i
      BY <1>2
    <3> QED
      BY <1>7, <1>8, <3>1
  <2> QED
    BY <1>2, <2>1 DEF ReadsShape
\* Where the call j of r is in q, and where that of q was.
<1>10. ASSUME NEW j \in 1 .. n, j # i
      PROVE  \E m \in 1 .. n - 1 : /\ m = IF j < i THEN j ELSE j - 1
                                   /\ q[m].kind = r[j].kind /\ About(q[m]) = About(r[j])
                                   /\ q[m].late <=> (r[j].late \/ (j < i /\ r[j].kind = r[i].kind))
  <2>1. CASE j < i
    <3>1. j \in 1 .. n - 1
      BY <1>2, <2>1
    <3> QED
      BY <1>7, <2>1, <3>1
  <2>2. CASE ~(j < i)
    <3>1. j - 1 \in 1 .. n - 1 /\ j - 1 >= i /\ (j - 1) + 1 = j
      BY <1>2, <1>10, <2>2
    <3>2. q[j - 1] = r[j] /\ r[j].late \in BOOLEAN
      BY <1>6, <1>8, <3>1 DEF IsRead
    <3> QED
      BY <2>2, <3>1, <3>2
  <2> QED
    BY <2>1, <2>2
<1>11. ASSUME NEW m \in 1 .. n - 1
       PROVE  \E j \in 1 .. n : /\ j # i /\ j = IF m < i THEN m ELSE m + 1
                                /\ q[m].kind = r[j].kind
                                /\ q[m].late <=> (r[j].late \/ (j < i /\ r[j].kind = r[i].kind))
  <2>1. CASE m < i
    <3>1. m \in 1 .. n /\ m # i
      BY <1>2, <2>1
    <3> QED
      BY <1>7, <2>1, <3>1
  <2>2. CASE m >= i
    <3>1. q[m] = r[m + 1] /\ m + 1 \in 1 .. n /\ m + 1 # i /\ ~(m + 1 < i) /\ ~(m < i)
      BY <1>2, <1>8, <2>2
    <3>2. r[m + 1].late \in BOOLEAN
      BY <1>6, <3>1 DEF IsRead
    <3> QED
      BY <3>1, <3>2
  <2>3. m < i \/ m >= i
    BY <1>2
  <2> QED
    BY <2>1, <2>2, <2>3
<1>12. ASSUME NEW k, k # r[i].kind PROVE KeepsReads(r, q, k)
  <2>1. ASSUME NEW x, NewestRead(r, k, x) PROVE NewestRead(q, k, x)
    <3>1. PICK j \in 1 .. n : /\ r[j].kind = k /\ ~r[j].late /\ About(r[j]) = x
                              /\ \A l \in 1 .. n : r[l].kind = k => l <= j
      BY <1>2, <2>1 DEF NewestRead
    <3>2. PICK m \in 1 .. n - 1 : /\ m = IF j < i THEN j ELSE j - 1
                                  /\ q[m].kind = k /\ About(q[m]) = x /\ ~q[m].late
      BY <1>10, <1>12, <3>1
    <3>3. ASSUME NEW p \in 1 .. n - 1, q[p].kind = k PROVE p <= m
      <4>1. PICK l \in 1 .. n : l # i /\ l = (IF p < i THEN p ELSE p + 1) /\ q[p].kind = r[l].kind
        BY <1>11
      <4>2. l <= j
        BY <3>1, <3>3, <4>1
      <4> QED
        BY <1>2, <3>2, <4>1, <4>2
    <3> QED
      BY <1>2, <3>2, <3>3 DEF NewestRead
  <2>2. ASSUME AllOvertaken(r, k) PROVE AllOvertaken(q, k)
    BY <1>2, <1>11, <1>12, <2>2 DEF AllOvertaken
  <2>3. ASSUME UnderWay(r, k) PROVE UnderWay(q, k)
    BY <1>2, <1>10, <1>12, <2>3 DEF UnderWay
  <2> QED
    BY <2>1, <2>2, <2>3 DEF KeepsReads
<1>13. ASSUME AllOvertaken(r, r[i].kind) PROVE r[i].late /\ AllOvertaken(q, r[i].kind)
  BY <1>2, <1>11, <1>13 DEF AllOvertaken
<1>14. ASSUME NEW x, NewestRead(r, r[i].kind, x)
       PROVE  \/ NewestRead(q, r[i].kind, x)
              \/ AllOvertaken(q, r[i].kind) /\ About(r[i]) = x
  <2>1. PICK j \in 1 .. n : /\ r[j].kind = r[i].kind /\ ~r[j].late /\ About(r[j]) = x
                            /\ \A l \in 1 .. n : r[l].kind = r[i].kind => l <= j
    BY <1>2, <1>14 DEF NewestRead
  <2>2. CASE j = i
    <3>1. ASSUME NEW m \in 1 .. n - 1, q[m].kind = r[i].kind PROVE q[m].late
      <4>1. PICK l \in 1 .. n : /\ l # i /\ q[m].kind = r[l].kind
                                /\ q[m].late <=> (r[l].late \/ (l < i /\ r[l].kind = r[i].kind))
        BY <1>11
      <4>2. l <= i
        BY <2>1, <2>2, <3>1, <4>1
      <4> QED
        BY <1>2, <3>1, <4>1, <4>2
    <3> QED
      BY <1>2, <2>1, <2>2, <3>1 DEF AllOvertaken
  <2>3. CASE j # i
    <3>1. i < j /\ ~(j < i)
      BY <1>2, <2>1, <2>3
    <3>2. PICK m \in 1 .. n - 1 : /\ m = j - 1
                                  /\ q[m].kind = r[i].kind /\ About(q[m]) = x /\ ~q[m].late
      BY <1>10, <2>1, <2>3, <3>1
    <3>3. ASSUME NEW p \in 1 .. n - 1, q[p].kind = r[i].kind PROVE p <= m
      <4>1. PICK l \in 1 .. n : l # i /\ l = (IF p < i THEN p ELSE p + 1) /\ q[p].kind = r[l].kind
        BY <1>11
      <4>2. l <= j
        BY <2>1, <3>3, <4>1
      <4> QED
        BY <1>2, <3>1, <3>2, <4>1, <4>2
    <3> QED
      BY <1>2, <3>2, <3>3 DEF NewestRead
  <2> QED
    BY <2>2, <2>3
<1> QED
  BY <1>9, <1>12, <1>13, <1>14

----------------------------------------------------------------------------
(* The catalog page: what its view has to do with the calls under way.  Each *)
(* of the three layers, the lists, the marketplaces and the rows, is either   *)
(* being asked for by the newest call of its kind, or that one has landed and *)
(* the layer is what it asked for, unless the last to land of the kind was    *)
(* late or failed.                                                            *)

IsSelection(s) == s \in [list : {s.list}, market : {s.market}, term : {s.term}, page : {s.page}]

IsView(v) ==
    /\ v \in [selected : {v.selected}, lists : {v.lists}, markets : {v.markets}, rows : {v.rows},
              pages : {v.pages}, loading : BOOLEAN, loadingMarkets : BOOLEAN]
    /\ IsSelection(v.selected)

\* Lists of company s are shown and l is selected, t is the active company.
ListsAre(r, a, t, s, l) ==
    \/ NewestRead(r, "lists", t)
    \/ /\ AllOvertaken(r, "lists")
       /\ "lists" \in a \/ (s = t /\ (l # None => l \in Range(ListsOf[t])))

\* Marketplaces of list s are shown, list l and marketplace m are selected.
MarketsAre(r, a, l, s, m) ==
    l # None =>
        \/ NewestRead(r, "markets", l)
        \/ /\ AllOvertaken(r, "markets")
           /\ "markets" \in a \/ (s = l /\ (m # None => m \in Range(MarketsOf[l])))

\* Rows s are shown and the selection is x.
RowsAre(r, a, x, s) ==
    x.list # None /\ x.market # None =>
        \/ NewestRead(r, "rows", x)
        \/ AllOvertaken(r, "rows") /\ ("rows" \in a \/ s = x)

FlagsAre(v, r) ==
    /\ v.loading => UnderWay(r, "rows")
    /\ v.loadingMarkets => UnderWay(r, "markets")

\* All but the rows.
ChosenOk(v, r, a, t) ==
    /\ t \in Companies /\ IsView(v) /\ ReadsShape(r)
    /\ ListsAre(r, a, t, v.lists, v.selected.list)
    /\ MarketsAre(r, a, v.selected.list, v.markets, v.selected.market)
    /\ FlagsAre(v, r)

CatalogOk(v, r, a, t) == ChosenOk(v, r, a, t) /\ RowsAre(r, a, v.selected, v.rows)

\* What is known of a layer outlives what other calls do.
LEMMA LayersKept ==
    ASSUME NEW r, NEW q, NEW a, NEW b
    PROVE  /\ KeepsReads(r, q, "lists") /\ ("lists" \in a => "lists" \in b) =>
                \A t, s, l : ListsAre(r, a, t, s, l) => ListsAre(q, b, t, s, l)
           /\ KeepsReads(r, q, "markets") /\ ("markets" \in a => "markets" \in b) =>
                \A l, s, m : MarketsAre(r, a, l, s, m) => MarketsAre(q, b, l, s, m)
           /\ KeepsReads(r, q, "rows") /\ ("rows" \in a => "rows" \in b) =>
                \A x, s : RowsAre(r, a, x, s) => RowsAre(q, b, x, s)
<1>1. ASSUME KeepsReads(r, q, "lists"), "lists" \in a => "lists" \in b,
             NEW t, NEW s, NEW l, ListsAre(r, a, t, s, l)
      PROVE  ListsAre(q, b, t, s, l)
  BY <1>1 DEF KeepsReads, ListsAre
<1>2. ASSUME KeepsReads(r, q, "markets"), "markets" \in a => "markets" \in b,
             NEW l, NEW s, NEW m, MarketsAre(r, a, l, s, m)
      PROVE  MarketsAre(q, b, l, s, m)
  BY <1>2 DEF KeepsReads, MarketsAre
<1>3. ASSUME KeepsReads(r, q, "rows"), "rows" \in a => "rows" \in b,
             NEW x, NEW s, RowsAre(r, a, x, s)
      PROVE  RowsAre(q, b, x, s)
  BY <1>3 DEF KeepsReads, RowsAre
<1> QED
  BY <1>1, <1>2, <1>3

\* loadRows asks for the rows of the selection, if there is one.
LEMMA LoadRowsFacts ==
    ASSUME NEW v, NEW r, NEW a, NEW t, ChosenOk(v, r, a, t)
    PROVE  CatalogOk(LoadRows(v, r, t).view, LoadRows(v, r, t).reads, a, t)
<1>1. CASE v.selected.list = None \/ v.selected.market = None
  <2>1. LoadRows(v, r, t).view = v /\ LoadRows(v, r, t).reads = r
    BY <1>1 DEF LoadRows
  <2> QED
    BY <1>1, <2>1 DEF CatalogOk, RowsAre
<1>2. CASE ~(v.selected.list = None \/ v.selected.market = None)
  <2>1. PICK w : w = [v EXCEPT !.loading = TRUE]
    OBVIOUS
  <2>2. PICK c : c = Read("rows", v, t)
    OBVIOUS
  <2>3. PICK q : q = Append(r, c)
    OBVIOUS
  <2>4. LoadRows(v, r, t).view = w /\ LoadRows(v, r, t).reads = q
    BY <1>2, <2>1, <2>2, <2>3 DEF LoadRows
  <2>5. /\ IsView(w) /\ w.selected = v.selected /\ w.lists = v.lists /\ w.markets = v.markets
        /\ w.loadingMarkets = v.loadingMarkets
    BY <2>1 DEF ChosenOk, IsView
  <2>6. IsRead(c) /\ ~c.late /\ c.kind = "rows" /\ About(c) = v.selected
    BY <2>2 DEF ChosenOk, Read, IsRead, Kinds, About
  <2>7. /\ ReadsShape(q) /\ NewestRead(q, "rows", v.selected) /\ UnderWay(q, "rows")
        /\ KeepsReads(r, q, "lists") /\ KeepsReads(r, q, "markets")
    <3>1. ReadsShape(r)
      BY DEF ChosenOk
    <3> QED
      BY <2>3, <2>6, <3>1, SentFacts
  <2>8. /\ ListsAre(q, a, t, w.lists, w.selected.list)
        /\ MarketsAre(q, a, w.selected.list, w.markets, w.selected.market)
    BY <2>5, <2>7, LayersKept DEF ChosenOk
  <2>9. FlagsAre(w, q) /\ RowsAre(q, a, w.selected, w.rows)
    BY <2>5, <2>7 DEF ChosenOk, FlagsAre, RowsAre, KeepsReads
  <2> QED
    BY <2>4, <2>5, <2>7, <2>8, <2>9 DEF CatalogOk, ChosenOk
<1> QED
  BY <1>1, <1>2

\* Another marketplace is selected, by its user or as the first of those that came.
LEMMA MarketFacts ==
    ASSUME NEW v, NEW r, NEW a, NEW t, NEW m,
           t \in Companies, IsView(v), ReadsShape(r), FlagsAre(v, r),
           ListsAre(r, a, t, v.lists, v.selected.list),
           MarketsAre(r, a, v.selected.list, v.markets, m)
    PROVE  CatalogOk(MarketChanged(v, r, t, m).view, MarketChanged(v, r, t, m).reads, a, t)
<1>1. PICK w : w = [v EXCEPT !.selected.market = m, !.selected.page = 1]
  OBVIOUS
<1>2. /\ IsView(w) /\ w.selected.list = v.selected.list /\ w.selected.market = m
      /\ w.lists = v.lists /\ w.markets = v.markets
      /\ w.loading = v.loading /\ w.loadingMarkets = v.loadingMarkets
  BY <1>1 DEF IsView, IsSelection
<1>3. ChosenOk(w, r, a, t)
  BY <1>2 DEF ChosenOk, FlagsAre
<1> QED
  BY <1>1, <1>3, LoadRowsFacts DEF MarketChanged

\* Another list is selected, by its user or as the first of those that came.
LEMMA ListFacts ==
    ASSUME NEW v, NEW r, NEW a, NEW t, NEW l,
           t \in Companies, IsView(v), ReadsShape(r), FlagsAre(v, r),
           ListsAre(r, a, t, v.lists, l)
    PROVE  CatalogOk(ListChanged(v, r, t, l).view, ListChanged(v, r, t, l).reads, a, t)
<1>1. PICK w : w = [v EXCEPT !.selected.list = l, !.selected.market = None,
                             !.markets = None, !.rows = None]
  OBVIOUS
<1>2. /\ IsView(w) /\ w.selected.list = l /\ w.selected.market = None /\ w.lists = v.lists
      /\ w.loading = v.loading /\ w.loadingMarkets = v.loadingMarkets
  BY <1>1 DEF IsView, IsSelection
<1>3. CASE l = None
  <2>1. ListChanged(v, r, t, l).view = w /\ ListChanged(v, r, t, l).reads = r
    BY <1>1, <1>3 DEF ListChanged
  <2> QED
    BY <1>2, <1>3, <2>1 DEF CatalogOk, ChosenOk, FlagsAre, MarketsAre, RowsAre
<1>4. CASE l # None
  <2>1. PICK u : u = [w EXCEPT !.loadingMarkets = TRUE]
    OBVIOUS
  <2>2. PICK c : c = Read("markets", w, t)
    OBVIOUS
  <2>3. PICK q : q = Append(r, c)
    OBVIOUS
  <2>4. ListChanged(v, r, t, l).view = u /\ ListChanged(v, r, t, l).reads = q
    BY <1>1, <1>4, <2>1, <2>2, <2>3 DEF ListChanged
  <2>5. /\ IsView(u) /\ u.selected = w.selected /\ u.lists = w.lists /\ u.loading = w.loading
    BY <1>2, <2>1 DEF IsView
  <2>6. IsRead(c) /\ ~c.late /\ c.kind = "markets" /\ About(c) = l
    BY <1>2, <2>2 DEF Read, IsRead, Kinds, About
  <2>7. /\ ReadsShape(q) /\ NewestRead(q, "markets", l) /\ UnderWay(q, "markets")
        /\ KeepsReads(r, q, "lists") /\ KeepsReads(r, q, "rows")
    BY <2>3, <2>6, SentFacts
  <2>8. ListsAre(q, a, t, u.lists, l)
    BY <1>2, <2>5, <2>7, LayersKept
  <2>9. FlagsAre(u, q)
    BY <1>2, <2>5, <2>7 DEF FlagsAre, KeepsReads
  <2>10. MarketsAre(q, a, l, u.markets, None) /\ RowsAre(q, a, u.selected, u.rows)
    BY <1>2, <2>5, <2>7 DEF MarketsAre, RowsAre
  <2> QED
    BY <1>2, <2>4, <2>5, <2>7, <2>8, <2>9, <2>10 DEF CatalogOk, ChosenOk
<1> QED
  BY <1>3, <1>4

\* The first of the lists of a company, or of the marketplaces of a list.
LEMMA FirstOfFacts ==
    /\ \A t \in Companies : FirstOf(ListsOf[t]) # None => FirstOf(ListsOf[t]) \in Range(ListsOf[t])
    /\ \A t \in Companies : \A l \in Range(ListsOf[t]) :
          FirstOf(MarketsOf[l]) # None => FirstOf(MarketsOf[l]) \in Range(MarketsOf[l])
<1>1. ASSUME NEW S, NEW s \in Seq(S), FirstOf(s) # None PROVE FirstOf(s) \in Range(s)
  <2>1. s # <<>> /\ FirstOf(s) = s[1]
    BY <1>1 DEF FirstOf
  <2>2. 1 \in DOMAIN s
    BY <2>1
  <2> QED
    BY <2>1, <2>2 DEF Range
<1>2. \A t \in Companies : ListsOf[t] \in Seq(AllLists)
  BY CatalogPageAssumption, Zenon
<1>3. \A l \in AllLists : MarketsOf[l] \in Seq(AllMarkets)
  BY CatalogPageAssumption, Zenon
<1>4. \A t \in Companies : \A l \in Range(ListsOf[t]) : l \in AllLists
  BY DEF AllLists
<1>5. \A t \in Companies : FirstOf(ListsOf[t]) # None => FirstOf(ListsOf[t]) \in Range(ListsOf[t])
  BY <1>1, <1>2
<1>6. ASSUME NEW t \in Companies, NEW l \in Range(ListsOf[t]), FirstOf(MarketsOf[l]) # None
      PROVE  FirstOf(MarketsOf[l]) \in Range(MarketsOf[l])
  BY <1>1, <1>3, <1>4, <1>6
<1> QED
  BY <1>5, <1>6

----------------------------------------------------------------------------
(* The catalog page: its steps.                                             *)

\* What the other screens do leaves the catalog page as it is.
LEMMA CatalogOrStill ==
    ASSUME [Next]_vars
    PROVE  \/ CatalogPageNext /\ screen = "catalog" /\ UNCHANGED screen
           \/ UNCHANGED <<screen, view, reads, astray>> /\ (screen = "catalog" => UNCHANGED company)
<1>1. ASSUME NEW s, s # "catalog", screen = s, UNCHANGED screen, UNCHANGED catalogParts
      PROVE  UNCHANGED <<screen, view, reads, astray>> /\ (screen = "catalog" => UNCHANGED company)
  BY <1>1 DEF catalogParts
<1>2. CASE UNCHANGED vars
  BY <1>2 DEF vars, screenVars, catalogParts
<1> QED
  BY <1>1, <1>2, OnOwnScreen, ListOnScreen DEF Next

CatalogInv ==
    /\ screen = "catalog" => CatalogOk(view, reads, astray, company)
    /\ screen # "catalog" => reads # <<>>

\* Where a call of the catalog page has landed.
LEMMA ReadLanding ==
    ASSUME NEW i \in DOMAIN reads
    PROVE  Landed(reads, i, LAMBDA j : reads[j].kind = reads[i].kind)
             = RemoveAt(Overtaken(reads, i, SameKind(reads, i)), i)
<1>1. Overtaken(reads, i, SameKind(reads, i)) =
        [j \in DOMAIN reads |-> IF j < i /\ reads[j].kind = reads[i].kind
                                THEN [reads[j] EXCEPT !.late = TRUE] ELSE reads[j]]
  BY DEF Overtaken, SameKind
<1> QED
  BY <1>1 DEF Landed

\* A call lands: of the other kinds nothing changes, and of its own the newest
\* is still under way, or it was the newest, or it was late.
LEMMA LandsFacts ==
    ASSUME CatalogOk(view, reads, astray, company), NEW i \in DOMAIN reads, ReadLands(i)
    PROVE  \E q, c, k, b :
              /\ c = reads[i] /\ IsRead(c) /\ k = c.kind /\ b = astray' /\ ReadsShape(q)
              /\ \A j \in Kinds : j # k => KeepsReads(reads, q, j) /\ (j \in astray => j \in b)
              /\ AllOvertaken(reads, k) => AllOvertaken(q, k) /\ k \in b
              /\ \A x : NewestRead(reads, k, x) =>
                    \/ NewestRead(q, k, x)
                    \/ AllOvertaken(q, k) /\ (k \in b \/ About(c) = x)
              /\ \/ Served(c) /\ Becomes(Ok(c, q))
                 \/ Becomes(Failed(c, q)) /\ k \in b
<1>1. ReadsShape(reads)
  BY DEF CatalogOk, ChosenOk
<1>2. PICK q : q = Landed(reads, i, LAMBDA j : reads[j].kind = reads[i].kind)
  OBVIOUS
<1>3. PICK c : c = reads[i]
  OBVIOUS
<1>4. PICK b : b = astray'
  OBVIOUS
<1>5. /\ \/ /\ Served(c) /\ Becomes(Ok(c, q))
            /\ b = IF c.late THEN astray \cup {c.kind} ELSE astray \ {c.kind}
         \/ Becomes(Failed(c, q)) /\ b = astray \cup {c.kind}
  BY <1>2, <1>3, <1>4, Zenon DEF ReadLands
<1>6. IsRead(c) /\ i \in 1 .. Len(reads) /\ IsSeq(reads)
  BY <1>1, <1>3, SeqFacts DEF ReadsShape
<1>7. LandedFrom(q, reads, i, SameKind(reads, i))
  BY <1>2, <1>6, ReadLanding, LandedFacts
<1>8. /\ ReadsShape(q)
      /\ \A k : k # c.kind => KeepsReads(reads, q, k)
      /\ AllOvertaken(reads, c.kind) => c.late /\ AllOvertaken(q, c.kind)
      /\ \A x : NewestRead(reads, c.kind, x) =>
            \/ NewestRead(q, c.kind, x)
            \/ AllOvertaken(q, c.kind) /\ About(c) = x
  BY <1>1, <1>3, <1>7, ReadGone
<1>9. \A j \in Kinds : j # c.kind => (j \in astray => j \in b)
  BY <1>5
<1>10. c.late => c.kind \in b
  BY <1>5
<1>11. \/ Served(c) /\ Becomes(Ok(c, q))
       \/ Becomes(Failed(c, q)) /\ c.kind \in b
  BY <1>5
<1> QED
  BY <1>3, <1>4, <1>6, <1>8, <1>9, <1>10, <1>11

LEMMA CatalogInvStep ==
    ASSUME CatalogInv, [Next]_vars
    PROVE  CatalogInv'
<1>1. CASE UNCHANGED <<screen, view, reads, astray>> /\ (screen = "catalog" => UNCHANGED company)
  BY <1>1 DEF CatalogInv
<1> SUFFICES ASSUME CatalogPageNext, screen = "catalog", UNCHANGED screen
             PROVE  CatalogOk(view', reads', astray', company')
  BY <1>1, CatalogOrStill DEF CatalogInv
<1>2. CatalogOk(view, reads, astray, company)
  BY DEF CatalogInv
<1>3. /\ company \in Companies /\ IsView(view) /\ ReadsShape(reads) /\ FlagsAre(view, reads)
      /\ ListsAre(reads, astray, company, view.lists, view.selected.list)
      /\ MarketsAre(reads, astray, view.selected.list, view.markets, view.selected.market)
      /\ RowsAre(reads, astray, view.selected, view.rows)
  BY <1>2 DEF CatalogOk, ChosenOk
<1>4. ASSUME NEW l, SelectList(l) PROVE CatalogOk(view', reads', astray', company')
  <2>1. /\ l = None \/ l \in Range(ListsOf[view.lists])
        /\ Becomes(ListChanged(view, reads, company, l)) /\ UNCHANGED <<company, astray>>
    BY <1>4 DEF SelectList
  <2>2. ListsAre(reads, astray, company, view.lists, l)
    BY <1>3, <2>1 DEF ListsAre
  <2>3. CatalogOk(ListChanged(view, reads, company, l).view,
                  ListChanged(view, reads, company, l).reads, astray, company)
    BY <1>3, <2>2, ListFacts
  <2> QED
    BY <2>1, <2>3 DEF Becomes
<1>5. ASSUME NEW m, SelectMarket(m) PROVE CatalogOk(view', reads', astray', company')
  <2>1. /\ m = None \/ m \in Range(MarketsOf[view.markets])
        /\ Becomes(MarketChanged(view, reads, company, m)) /\ UNCHANGED <<company, astray>>
    BY <1>5 DEF SelectMarket
  <2>2. MarketsAre(reads, astray, view.selected.list, view.markets, m)
    BY <1>3, <2>1 DEF MarketsAre
  <2>3. CatalogOk(MarketChanged(view, reads, company, m).view,
                  MarketChanged(view, reads, company, m).reads, astray, company)
    BY <1>3, <2>2, MarketFacts
  <2> QED
    BY <2>1, <2>3 DEF Becomes
<1>6. ASSUME NEW s, OnSearch(s) PROVE CatalogOk(view', reads', astray', company')
  <2>1. PICK w : w = [view EXCEPT !.selected.term = s, !.selected.page = 1]
    OBVIOUS
  <2>2. Becomes(LoadRows(w, reads, company)) /\ UNCHANGED <<company, astray>>
    BY <1>6, <2>1 DEF OnSearch, Searched
  <2>3. /\ IsView(w) /\ w.selected.list = view.selected.list
        /\ w.selected.market = view.selected.market /\ w.lists = view.lists /\ w.markets = view.markets
        /\ w.loading = view.loading /\ w.loadingMarkets = view.loadingMarkets
    BY <1>3, <2>1 DEF IsView, IsSelection
  <2>4. ChosenOk(w, reads, astray, company)
    BY <1>3, <2>3 DEF ChosenOk, FlagsAre
  <2> QED
    BY <2>2, <2>4, LoadRowsFacts DEF Becomes
<1>7. ASSUME NEW p, TurnTo(p) PROVE CatalogOk(view', reads', astray', company')
  <2>1. PICK w : w = [view EXCEPT !.selected.page = p]
    OBVIOUS
  <2>2. Becomes(LoadRows(w, reads, company)) /\ UNCHANGED <<company, astray>>
    BY <1>7, <2>1 DEF TurnTo
  <2>3. /\ IsView(w) /\ w.selected.list = view.selected.list
        /\ w.selected.market = view.selected.market /\ w.lists = view.lists /\ w.markets = view.markets
        /\ w.loading = view.loading /\ w.loadingMarkets = view.loadingMarkets
    BY <1>3, <2>1 DEF IsView, IsSelection
  <2>4. ChosenOk(w, reads, astray, company)
    BY <1>3, <2>3 DEF ChosenOk, FlagsAre
  <2> QED
    BY <2>2, <2>4, LoadRowsFacts DEF Becomes
<1>8. ASSUME NEW t \in Companies, SwitchTenant(t) PROVE CatalogOk(view', reads', astray', company')
  <2>1. PICK v : v = view
    OBVIOUS
  <2>2. PICK w : w = view'
    OBVIOUS
  <2>3. PICK c : c = Read("lists", w, t)
    OBVIOUS
  <2>4. PICK q : q = reads'
    OBVIOUS
  <2>5. /\ w = [v EXCEPT !.selected.list = None, !.selected.market = None,
                         !.lists = None, !.markets = None, !.rows = None]
        /\ q = Append(reads, c) /\ company' = t /\ UNCHANGED astray
    BY <1>8, <2>1, <2>2, <2>3, <2>4 DEF SwitchTenant
  <2>6. /\ IsView(w) /\ w.selected.list = None
        /\ w.loading = v.loading /\ w.loadingMarkets = v.loadingMarkets
    BY <1>3, <2>1, <2>5 DEF IsView, IsSelection
  <2>7. IsRead(c) /\ ~c.late /\ c.kind = "lists" /\ About(c) = t
    BY <2>3 DEF Read, IsRead, Kinds, About
  <2>8. /\ ReadsShape(q) /\ NewestRead(q, "lists", t)
        /\ KeepsReads(reads, q, "markets") /\ KeepsReads(reads, q, "rows")
    BY <1>3, <2>5, <2>7, SentFacts
  <2>9. /\ ListsAre(q, astray, t, w.lists, w.selected.list) /\ FlagsAre(w, q)
        /\ MarketsAre(q, astray, w.selected.list, w.markets, w.selected.market)
        /\ RowsAre(q, astray, w.selected, w.rows)
    BY <1>3, <2>1, <2>6, <2>8 DEF ListsAre, MarketsAre, RowsAre, FlagsAre, KeepsReads
  <2> QED
    BY <2>2, <2>4, <2>5, <2>6, <2>8, <2>9 DEF CatalogOk, ChosenOk
<1>9. ASSUME NEW i \in DOMAIN reads, ReadLands(i) PROVE CatalogOk(view', reads', astray', company')
  <2>1. PICK q, c, k, b :
              /\ c = reads[i] /\ IsRead(c) /\ k = c.kind /\ b = astray' /\ ReadsShape(q)
              /\ \A j \in Kinds : j # k => KeepsReads(reads, q, j) /\ (j \in astray => j \in b)
              /\ AllOvertaken(reads, k) => AllOvertaken(q, k) /\ k \in b
              /\ \A x : NewestRead(reads, k, x) =>
                    \/ NewestRead(q, k, x)
                    \/ AllOvertaken(q, k) /\ (k \in b \/ About(c) = x)
              /\ \/ Served(c) /\ Becomes(Ok(c, q))
                 \/ Becomes(Failed(c, q)) /\ k \in b
    BY <1>2, <1>9, LandsFacts
  <2>2. PICK v : v = view
    OBVIOUS
  <2>3. IsView(v) /\ UNCHANGED company
    BY <1>3, <1>9, <2>2, Zenon DEF ReadLands
  <2>4. /\ k # "lists" => ListsAre(q, b, company, v.lists, v.selected.list)
        /\ k # "markets" => MarketsAre(q, b, v.selected.list, v.markets, v.selected.market)
        /\ k # "rows" => RowsAre(q, b, v.selected, v.rows)
    <3>1. ASSUME NEW j \in Kinds, j # k PROVE KeepsReads(reads, q, j) /\ (j \in astray => j \in b)
      BY <2>1, <3>1
    <3>2. "lists" \in Kinds /\ "markets" \in Kinds /\ "rows" \in Kinds
      BY DEF Kinds
    <3>3. ASSUME k # "lists" PROVE ListsAre(q, b, company, v.lists, v.selected.list)
      <4>1. KeepsReads(reads, q, "lists") /\ ("lists" \in astray => "lists" \in b)
        BY <3>1, <3>2, <3>3
      <4>2. \A t, s, l : ListsAre(reads, astray, t, s, l) => ListsAre(q, b, t, s, l)
        BY <4>1, LayersKept
      <4> QED
        BY <1>3, <2>2, <4>2
    <3>4. ASSUME k # "markets" PROVE MarketsAre(q, b, v.selected.list, v.markets, v.selected.market)
      BY <1>3, <2>2, <3>1, <3>2, <3>4, LayersKept
    <3>5. ASSUME k # "rows" PROVE RowsAre(q, b, v.selected, v.rows)
      BY <1>3, <2>2, <3>1, <3>2, <3>5, LayersKept
    <3> QED
      BY <3>3, <3>4, <3>5
  <2>5. /\ k # "rows" => (v.loading => UnderWay(q, "rows"))
        /\ k # "markets" => (v.loadingMarkets => UnderWay(q, "markets"))
    BY <1>3, <2>1, <2>2 DEF FlagsAre, KeepsReads, Kinds
  <2>6. CASE k = "lists"
    <3>1. \/ NewestRead(q, "lists", company)
          \/ AllOvertaken(q, "lists") /\ ("lists" \in b \/ c.tenant = company)
      BY <1>3, <2>1, <2>6 DEF ListsAre, About
    <3>2. CASE Becomes(Failed(c, q)) /\ k \in b
      <4>1. view' = v /\ reads' = q
        BY <2>1, <2>2, <2>6, <3>2 DEF Becomes, Failed
      <4>2. ListsAre(q, b, company, v.lists, v.selected.list)
        BY <2>6, <3>1, <3>2 DEF ListsAre
      <4> QED
        BY <1>3, <2>1, <2>3, <2>4, <2>5, <2>6, <4>1, <4>2 DEF CatalogOk, ChosenOk, FlagsAre
    <3>3. CASE Served(c) /\ Becomes(Ok(c, q))
      <4>1. PICK w : w = [v EXCEPT !.lists = c.tenant]
        OBVIOUS
      <4>2. /\ IsView(w) /\ w.selected = v.selected /\ w.markets = v.markets /\ w.rows = v.rows
            /\ w.loading = v.loading /\ w.loadingMarkets = v.loadingMarkets /\ w.lists = c.tenant
        BY <2>3, <4>1 DEF IsView
      <4>3. FlagsAre(w, q)
        BY <2>5, <2>6, <4>2 DEF FlagsAre
      <4>4. CASE v.selected.list \in Range(ListsOf[c.tenant])
        <5>1. view' = w /\ reads' = q
          BY <2>1, <2>2, <2>6, <3>3, <4>1, <4>4 DEF Becomes, Ok
        <5>2. ListsAre(q, b, company, w.lists, w.selected.list)
          BY <3>1, <4>2, <4>4 DEF ListsAre
        <5> QED
          BY <1>3, <2>1, <2>3, <2>4, <2>6, <4>2, <4>3, <5>1, <5>2 DEF CatalogOk, ChosenOk
      <4>5. CASE v.selected.list \notin Range(ListsOf[c.tenant])
        <5>1. PICK l : l = FirstOf(ListsOf[c.tenant])
          OBVIOUS
        <5>2. Becomes(ListChanged(w, q, company, l))
          BY <2>1, <2>2, <2>6, <3>3, <4>1, <4>5, <5>1 DEF Ok
        <5>3. ListsAre(q, b, company, w.lists, l)
          BY <2>1, <3>1, <4>2, <5>1, FirstOfFacts DEF ListsAre, IsRead
        <5>4. CatalogOk(ListChanged(w, q, company, l).view, ListChanged(w, q, company, l).reads,
                        b, company)
          BY <1>3, <2>1, <4>2, <4>3, <5>3, ListFacts
        <5> QED
          BY <2>1, <2>3, <5>2, <5>4 DEF Becomes
      <4> QED
        BY <4>4, <4>5
    <3> QED
      BY <2>1, <3>2, <3>3
  <2>7. CASE k = "markets"
    <3>1. v.selected.list # None =>
             \/ NewestRead(q, "markets", v.selected.list)
             \/ AllOvertaken(q, "markets") /\ ("markets" \in b \/ c.of.list = v.selected.list)
      BY <1>3, <2>1, <2>2, <2>7 DEF MarketsAre, About
    <3>2. CASE Becomes(Failed(c, q)) /\ k \in b
      <4>1. PICK w : w = [v EXCEPT !.loadingMarkets = FALSE]
        OBVIOUS
      <4>2. view' = w /\ reads' = q
        BY <2>1, <2>2, <2>7, <3>2, <4>1 DEF Becomes, Failed
      <4>3. /\ IsView(w) /\ w.selected = v.selected /\ w.lists = v.lists /\ w.rows = v.rows
            /\ w.markets = v.markets /\ w.loading = v.loading /\ ~w.loadingMarkets
        BY <2>3, <4>1 DEF IsView
      <4>4. MarketsAre(q, b, w.selected.list, w.markets, w.selected.market)
        BY <2>7, <3>1, <3>2, <4>3 DEF MarketsAre
      <4> QED
        BY <1>3, <2>1, <2>3, <2>4, <2>5, <2>7, <4>2, <4>3, <4>4 DEF CatalogOk, ChosenOk, FlagsAre
    <3>3. CASE Served(c) /\ Becomes(Ok(c, q))
      <4>1. PICK w : w = [v EXCEPT !.markets = c.of.list, !.loadingMarkets = FALSE]
        OBVIOUS
      <4>2. PICK m : m = FirstOf(MarketsOf[c.of.list])
        OBVIOUS
      <4>3. Becomes(MarketChanged(w, q, company, m))
        BY <2>1, <2>2, <2>7, <3>3, <4>1, <4>2 DEF Ok
      <4>4. /\ IsView(w) /\ w.selected = v.selected /\ w.lists = v.lists
            /\ w.markets = c.of.list /\ w.loading = v.loading /\ ~w.loadingMarkets
        BY <2>3, <4>1 DEF IsView
      <4>5. m # None => m \in Range(MarketsOf[c.of.list])
        <5>1. c.tenant \in Companies /\ c.of.list \in Range(ListsOf[c.tenant])
          BY <2>1, <2>7, <3>3 DEF Served, IsRead
        <5> QED
          BY <4>2, <5>1, FirstOfFacts
      <4>6. MarketsAre(q, b, w.selected.list, w.markets, m)
        BY <3>1, <4>4, <4>5 DEF MarketsAre
      <4>7. FlagsAre(w, q) /\ ListsAre(q, b, company, w.lists, w.selected.list)
        BY <2>4, <2>5, <2>7, <4>4 DEF FlagsAre
      <4>8. CatalogOk(MarketChanged(w, q, company, m).view, MarketChanged(w, q, company, m).reads,
                      b, company)
        BY <1>3, <2>1, <4>4, <4>6, <4>7, MarketFacts
      <4> QED
        BY <2>1, <2>3, <4>3, <4>8 DEF Becomes
    <3> QED
      BY <2>1, <3>2, <3>3
  <2>8. CASE k = "rows"
    <3>1. v.selected.list # None /\ v.selected.market # None =>
             \/ NewestRead(q, "rows", v.selected)
             \/ AllOvertaken(q, "rows") /\ ("rows" \in b \/ c.of = v.selected)
      BY <1>3, <2>1, <2>2, <2>8 DEF RowsAre, About
    <3>2. CASE Becomes(Failed(c, q)) /\ k \in b
      <4>1. PICK w : w = [v EXCEPT !.rows = None, !.loading = FALSE]
        OBVIOUS
      <4>2. view' = w /\ reads' = q
        BY <2>1, <2>2, <2>8, <3>2, <4>1 DEF Becomes, Failed
      <4>3. /\ IsView(w) /\ w.selected = v.selected /\ w.lists = v.lists
            /\ w.markets = v.markets /\ ~w.loading /\ w.loadingMarkets = v.loadingMarkets
        BY <2>3, <4>1 DEF IsView
      <4>4. RowsAre(q, b, w.selected, w.rows)
        BY <2>8, <3>1, <3>2, <4>3 DEF RowsAre
      <4> QED
        BY <1>3, <2>1, <2>3, <2>4, <2>5, <2>8, <4>2, <4>3, <4>4 DEF CatalogOk, ChosenOk, FlagsAre
    <3>3. CASE Served(c) /\ Becomes(Ok(c, q))
      <4>1. PICK w : w = [v EXCEPT !.rows = c.of, !.pages = TotalPages, !.loading = FALSE]
        OBVIOUS
      <4>2. view' = w /\ reads' = q
        BY <2>1, <2>2, <2>8, <3>3, <4>1 DEF Becomes, Ok
      <4>3. /\ IsView(w) /\ w.selected = v.selected /\ w.lists = v.lists /\ w.rows = c.of
            /\ w.markets = v.markets /\ ~w.loading /\ w.loadingMarkets = v.loadingMarkets
        BY <2>3, <4>1 DEF IsView
      <4>4. RowsAre(q, b, w.selected, w.rows)
        BY <3>1, <4>3 DEF RowsAre
      <4> QED
        BY <1>3, <2>1, <2>3, <2>4, <2>5, <2>8, <4>2, <4>3, <4>4 DEF CatalogOk, ChosenOk, FlagsAre
    <3> QED
      BY <2>1, <3>2, <3>3
  <2>9. k \in Kinds
    BY <2>1 DEF IsRead
  <2> QED
    BY <2>6, <2>7, <2>8, <2>9 DEF Kinds
<1> QED
  BY <1>4, <1>5, <1>6, <1>7, <1>8, <1>9, Zenon DEF CatalogPageNext

LEMMA CatalogInvInit ==
    ASSUME Init
    PROVE  CatalogInv
<1>1. PICK e : e = ""
  BY Zenon
<1>2. PICK u : u = Unselected
  OBVIOUS
<1>3. u = [list |-> None, market |-> None, term |-> e, page |-> 1]
  BY <1>1, <1>2, Zenon DEF Unselected
<1>4. /\ view = [selected |-> u, lists |-> None, markets |-> None, rows |-> None,
                 pages |-> 0, loading |-> FALSE, loadingMarkets |-> FALSE]
      /\ reads = <<Read("lists", view, FirstCompany)>> /\ astray = {} /\ company = FirstCompany
  BY <1>2, Zenon DEF Init, CatalogPageInit, ScreenInit
<1>5. PICK c : c = Read("lists", view, FirstCompany)
  OBVIOUS
<1>6. FirstCompany \in Companies
  BY ScreenAssumption, Zenon
<1>7. IsRead(c) /\ c.kind = "lists" /\ ~c.late /\ About(c) = company
  BY <1>4, <1>5, <1>6 DEF Read, IsRead, Kinds, About
<1>8. IsView(view) /\ view.selected.list = None /\ ~view.loading /\ ~view.loadingMarkets
  BY <1>3, <1>4 DEF IsView, IsSelection
<1>9. IsSeq(reads) /\ DOMAIN reads = {1} /\ reads[1] = c /\ reads # <<>>
  <2>1. PICK S : S = {c}
    OBVIOUS
  <2>2. reads = <<c>> /\ reads \in Seq(S) /\ 1 .. 1 = {1}
    BY <1>4, <1>5, <2>1
  <2> QED
    BY <2>2 DEF IsSeq
<1>10. ReadsShape(reads) /\ NewestRead(reads, "lists", company)
  BY <1>7, <1>9 DEF ReadsShape, NewestRead
<1> QED
  BY <1>4, <1>6, <1>8, <1>9, <1>10
  DEF CatalogInv, CatalogOk, ChosenOk, ListsAre, MarketsAre, RowsAre, FlagsAre

\* Once every call of the catalog page has landed, and unless the last of a kind
\* was late or failed, the list selected is one of the active company, its
\* marketplace one of the list, and the rows on screen those of the selection:
\* onListChange, onMarketplaceChange and loadRows of PriceCatalogComponent, with
\* any number of calls overtaking each other and the company switched at any time.
THEOREM SelectionAlwaysHoldsTogether == Spec => []SelectionHoldsTogether
<1>1. Init => CatalogInv
  BY CatalogInvInit
<1>2. CatalogInv /\ [Next]_vars => CatalogInv'
  BY CatalogInvStep
<1>3. CatalogInv => SelectionHoldsTogether
  <2> SUFFICES ASSUME CatalogInv, reads = <<>>, astray = {}
               PROVE  LET s == view.selected IN
                      /\ view.lists = company
                      /\ s.list # None => s.list \in Range(ListsOf[company]) /\ view.markets = s.list
                      /\ s.list # None /\ s.market # None =>
                            s.market \in Range(MarketsOf[s.list]) /\ view.rows = s
                      /\ ~view.loading /\ ~view.loadingMarkets
    BY DEF SelectionHoldsTogether
  <2>1. CatalogOk(view, reads, astray, company)
    BY DEF CatalogInv
  <2>2. DOMAIN reads = {}
    OBVIOUS
  <2>3. \A k : ~UnderWay(reads, k) /\ \A x : ~NewestRead(reads, k, x)
    BY <2>2 DEF UnderWay, NewestRead
  <2> QED
    BY <2>1, <2>3 DEF CatalogOk, ChosenOk, ListsAre, MarketsAre, RowsAre, FlagsAre
<1> QED
  BY <1>1, <1>2, <1>3, PTL DEF Spec

----------------------------------------------------------------------------
(* The forms of the records.                                                *)

\* A value that the API does not keep to the letter belongs to a field where it
\* is tidied, or to a text that is kept as it is.
Apt(k, x) ==
    /\ x = "padded" => k \in Trimmed \cup {"description", "notes"}
    /\ x = "mixed" => k = "email"
    /\ x = "fine" => k \in {"basePrice", "value"}

\* No value of a field stands for more than its form holds, and the fields that
\* may be left empty are among those of free.
FieldsIn(F, free) ==
    \A k \in DOMAIN F : /\ "x+" \notin F[k].takes /\ F[k].first \in F[k].takes
                        /\ \A x \in F[k].takes : Apt(k, x)
                        /\ ~F[k].required => k \in free

\* A field takes its first value, and none of some.
Spares(f, some) == f.first \in f.takes /\ \A x \in some : x \notin f.takes

Special == {"x+", "padded", "mixed", "fine"}

\* The kinds of fields.
LEMMA FieldKinds ==
    /\ \A f \in {Text({}), Text({"malformed"})} : f.required /\ Spares(f, Special \ {"padded"})
    /\ Text({"mixed", "malformed"}).required
    /\ Spares(Text({"mixed", "malformed"}), Special \ {"padded", "mixed"})
    /\ \A f \in {Amount({}), Amount({"above100"})} : f.required /\ Spares(f, Special \ {"fine"})
    /\ Spares(Prose, Special \ {"padded"})
    /\ Status.required /\ Spares(Status, Special)
<1>1. \A more : Text(more).required /\ Text(more).first \in Text(more).takes
                /\ \A x \in Text(more).takes : x \in {NoText, "x", "padded", "spaces", "long"} \cup more
  BY DEF Text, Field
<1>2. \A more : Amount(more).required /\ Amount(more).first \in Amount(more).takes
                /\ \A x \in Amount(more).takes : x \in {NoText, "x", "fine", "negative"} \cup more
  BY DEF Amount, Field
<1>3. /\ Prose.first \in Prose.takes
      /\ \A x \in Prose.takes : x \in {NoText, "x", "padded", "long"}
      /\ Status.required /\ Status.first \in Status.takes
      /\ \A x \in Status.takes : x \in {"active", "inactive"}
  BY DEF Prose, Status, OneOf, Field
<1>4. \A f \in {Text({}), Text({"malformed"})} : f.required /\ Spares(f, Special \ {"padded"})
  BY <1>1 DEF Spares, Special, NoText
<1>5. /\ Text({"mixed", "malformed"}).required
      /\ Spares(Text({"mixed", "malformed"}), Special \ {"padded", "mixed"})
  BY <1>1 DEF Spares, Special, NoText
<1>6. \A f \in {Amount({}), Amount({"above100"})} : f.required /\ Spares(f, Special \ {"fine"})
  BY <1>2 DEF Spares, Special, NoText
<1>7. Spares(Prose, Special \ {"padded"}) /\ Status.required /\ Spares(Status, Special)
  BY <1>3 DEF Spares, Special, NoText
<1> QED
  BY <1>4, <1>5, <1>6, <1>7

\* The day and the choice that must be entered, and those that need not be.
KindsAre(d, e, c, o) ==
    /\ Day(TRUE) = d /\ Day(FALSE) = e /\ Choice(TRUE) = c /\ Choice(FALSE) = o
    /\ d.required /\ c.required /\ {"early", "late", "far"} \subseteq d.takes
    /\ Spares(d, Special) /\ Spares(e, Special) /\ Spares(c, Special) /\ Spares(o, Special)

LEMMA Days == \E d, e, c, o : KindsAre(d, e, c, o)
<1>1. PICK d, e : d = Day(TRUE) /\ e = Day(FALSE)
  BY Zenon
<1>2. PICK c, o : c = Choice(TRUE) /\ o = Choice(FALSE)
  BY Zenon
<1>3. /\ d = [takes |-> {NoText, "early", "late", "far"}, required |-> TRUE, first |-> NoText]
      /\ e = [takes |-> {NoText, "early", "late", "far"}, required |-> FALSE, first |-> NoText]
      /\ c = [takes |-> {NoText, "x"}, required |-> TRUE, first |-> NoText]
      /\ o = [takes |-> {NoText, "x"}, required |-> FALSE, first |-> NoText]
  BY <1>1, <1>2, Zenon DEF Day, Choice, Field
<1>4. /\ d.required /\ c.required /\ {"early", "late", "far"} \subseteq d.takes
      /\ Spares(d, Special) /\ Spares(e, Special) /\ Spares(c, Special) /\ Spares(o, Special)
  BY <1>3 DEF NoText, Spares, Special
<1>5. KindsAre(d, e, c, o)
  BY <1>1, <1>2, <1>4, Zenon DEF KindsAre
<1> QED
  BY <1>5, Zenon

LEMMA DiscountFieldsIn ==
    FieldsIn(DiscountFields, {"productId", "priceListId", "marketplaceId", "endDate", "priority",
                              "description"})
<1>1. PICK F : F = DiscountFields
  OBVIOUS
<1>2. DOMAIN F = {"name", "type", "value", "appliesTo", "productId", "priceListId", "marketplaceId",
                  "startDate", "endDate", "priority", "status", "description"}
  BY <1>1 DEF DiscountFields
<1>0. PICK d, e, c, o : KindsAre(d, e, c, o)
  BY Days, Zenon
<1>3. /\ Day(TRUE) = d /\ Day(FALSE) = e /\ Choice(FALSE) = o /\ d.required
      /\ Spares(d, Special) /\ Spares(e, Special) /\ Spares(o, Special)
  BY <1>0, Zenon DEF KindsAre
<1>4. /\ F.name = Text({}) /\ F.value = Amount({"above100"})
      /\ F.productId = o /\ F.priceListId = o /\ F.marketplaceId = o
      /\ F.startDate = d /\ F.endDate = e /\ F.status = Status /\ F.description = Prose
  BY <1>1, <1>3 DEF DiscountFields
<1>5. /\ F.type = OneOf({"percentage", "fixed"}, "percentage")
      /\ F.appliesTo = OneOf({"product", "price_list", "marketplace"}, "product")
      /\ F.priority = Field({NoText, "x", "100", "fraction", "negative"}, FALSE, "100")
  BY <1>1 DEF DiscountFields
<1>6. /\ Spares(F.type, Special) /\ F.type.required
      /\ Spares(F.appliesTo, Special) /\ F.appliesTo.required
      /\ Spares(F.priority, Special)
  BY <1>5 DEF OneOf, Field, NoText, Spares, Special
<1> QED
  BY <1>1, <1>2, <1>4, <1>6, <1>3, FieldKinds DEF FieldsIn, Apt, Spares, Special, Trimmed

LEMMA PriceFieldsIn == FieldsIn(PriceFields, {"endDate", "notes"})
<1>1. PICK F : F = PriceFields
  OBVIOUS
<1>2. DOMAIN F = {"productId", "priceListId", "marketplaceId", "basePrice", "currencyCode",
                  "startDate", "endDate", "status", "notes"}
  BY <1>1 DEF PriceFields
<1>0. PICK d, e, c, o : KindsAre(d, e, c, o)
  BY Days, Zenon
<1>3. /\ Day(TRUE) = d /\ Day(FALSE) = e /\ Choice(TRUE) = c /\ d.required /\ c.required
      /\ Spares(d, Special) /\ Spares(e, Special) /\ Spares(c, Special)
  BY <1>0, Zenon DEF KindsAre
<1>4. /\ F.productId = c /\ F.marketplaceId = c /\ F.basePrice = Amount({})
      /\ F.currencyCode = c /\ F.startDate = d /\ F.endDate = e
      /\ F.status = Status /\ F.notes = Prose
  BY <1>1, <1>3 DEF PriceFields
<1>5. F.priceListId = Field({NoText, "x", "y"}, TRUE, NoText)
  BY <1>1 DEF PriceFields
<1>6. Spares(F.priceListId, Special) /\ F.priceListId.required
  BY <1>5 DEF Field, NoText, Spares, Special
<1> QED
  BY <1>1, <1>2, <1>4, <1>6, <1>3, FieldKinds DEF FieldsIn, Apt, Spares, Special, Trimmed

LEMMA OtherFieldsIn ==
    /\ FieldsIn(UserFields, {"password"})
    /\ FieldsIn(PriceListFields, {"description", "currencyCode"})
    /\ FieldsIn(ProductFields, {"description"})
    /\ FieldsIn(MarketplaceFields, {})
    /\ FieldsIn(CompanyFields, {"notes"})
    /\ FieldsIn(RoleFields, {"description"})
    /\ FieldsIn(ApiKeyFields, {"expiresAt"})
<1>1. PICK a, b, c, d, e : /\ a = OneOf({"es", "en"}, "es") /\ b = OneOf({"utc", "other"}, "utc")
                           /\ c = OneOf({"x", "y"}, "x")
                           /\ d = Field({NoText, "x", "short", "long"}, FALSE, NoText)
                           /\ e = Field({NoText, "early", "late"}, FALSE, NoText)
  BY Zenon
<1>0. PICK d0, e0, i, o : KindsAre(d0, e0, i, o)
  BY Days, Zenon
<1>2. /\ Choice(TRUE) = i /\ Choice(FALSE) = o /\ i.required
      /\ Spares(i, Special) /\ Spares(o, Special)
  BY <1>0, Zenon DEF KindsAre
<1>3. /\ \A f \in {a, b, c, d, e} : Spares(f, Special)
      /\ a.required /\ b.required /\ c.required
  <2>1. /\ a = [takes |-> {"es", "en"}, required |-> TRUE, first |-> "es"]
        /\ b = [takes |-> {"utc", "other"}, required |-> TRUE, first |-> "utc"]
        /\ c = [takes |-> {"x", "y"}, required |-> TRUE, first |-> "x"]
        /\ d = [takes |-> {NoText, "x", "short", "long"}, required |-> FALSE, first |-> NoText]
        /\ e = [takes |-> {NoText, "early", "late"}, required |-> FALSE, first |-> NoText]
    BY <1>1, Zenon DEF OneOf, Field
  <2> QED
    BY <2>1 DEF NoText, Spares, Special
<1>4. FieldsIn(UserFields, {"password"})
  <2>1. PICK F : F = UserFields
    OBVIOUS
  <2>2. DOMAIN F = {"name", "email", "password", "roleId", "status", "preferredLocale"}
    BY <2>1 DEF UserFields
  <2>3. /\ F.name = Text({}) /\ F.email = Text({"mixed", "malformed"}) /\ F.status = Status
    BY <2>1 DEF UserFields
  <2>4. F.password = d /\ F.roleId = i /\ F.preferredLocale = a
    <3>1. F = [name |-> Text({}), email |-> Text({"mixed", "malformed"}), password |-> d, roleId |-> i,
               status |-> Status, preferredLocale |-> a]
      BY <1>1, <1>2, <2>1, Zenon DEF UserFields
    <3> QED
      BY <3>1
  <2> QED
    BY <1>3, <1>2, <2>1, <2>2, <2>3, <2>4, FieldKinds DEF FieldsIn, Apt, Spares, Special, Trimmed
<1>5. FieldsIn(PriceListFields, {"description", "currencyCode"})
  <2>1. PriceListFields = [name |-> Text({}), description |-> Prose, currencyCode |-> o, status |-> Status]
    BY <1>2, Zenon DEF PriceListFields
  <2> QED
    BY <1>2, <2>1, FieldKinds DEF FieldsIn, Apt, Spares, Special, Trimmed
<1>6. FieldsIn(ProductFields, {"description"})
  <2>1. ProductFields = [sku |-> Text({}), name |-> Text({}), basePrice |-> Amount({}),
                         currencyCode |-> i, status |-> Status, description |-> Prose]
    BY <1>2, Zenon DEF ProductFields
  <2> QED
    BY <1>2, <2>1, FieldKinds DEF FieldsIn, Apt, Spares, Special, Trimmed
<1>7. FieldsIn(MarketplaceFields, {})
  <2>1. MarketplaceFields = [name |-> Text({}), code |-> i, status |-> Status]
    BY <1>2, Zenon DEF MarketplaceFields
  <2> QED
    BY <1>2, <2>1, FieldKinds DEF FieldsIn, Apt, Spares, Special, Trimmed
<1>8. FieldsIn(CompanyFields, {"notes"})
  <2>1. CompanyFields = [commercialName |-> Text({}), legalName |-> Text({}), slug |-> Text({"malformed"}),
                         defaultCurrency |-> i, timeZone |-> b, status |-> Status, notes |-> Prose]
    BY <1>1, <1>2, Zenon DEF CompanyFields
  <2> QED
    BY <1>2, <1>3, <2>1, FieldKinds DEF FieldsIn, Apt, Spares, Special, Trimmed
<1>9. FieldsIn(RoleFields, {"description"})
  BY FieldKinds DEF FieldsIn, Apt, Spares, Special, Trimmed, RoleFields
<1>10. FieldsIn(ApiKeyFields, {"expiresAt"})
  <2>1. ApiKeyFields = [name |-> Text({}), scope |-> c, expiresAt |-> e]
    BY <1>1, Zenon DEF ApiKeyFields
  <2> QED
    BY <1>3, <2>1, FieldKinds DEF FieldsIn, Apt, Spares, Special, Trimmed
<1> QED
  BY <1>4, <1>5, <1>6, <1>7, <1>8, <1>9, <1>10

\* The fields of a screen that may be left empty.
Optional ==
    [discounts |-> {"productId", "priceListId", "marketplaceId", "endDate", "priority", "description"},
     prices |-> {"endDate", "notes"}, users |-> {"password"},
     priceLists |-> {"description", "currencyCode"}, products |-> {"description"},
     marketplaces |-> {}, companies |-> {"notes"}, roles |-> {"description"},
     apiKeys |-> {"expiresAt"}]

Screens == {"discounts", "prices", "users", "priceLists", "products", "marketplaces", "companies",
            "roles", "apiKeys"}

LEMMA AllFieldsIn ==
    /\ DOMAIN Fields = Screens /\ \A p \in DOMAIN Fields : FieldsIn(Fields[p], Optional[p])
    /\ Fields.discounts = DiscountFields
<1>1. DOMAIN Fields = Screens
  BY DEF Fields, Screens
<1>2. /\ Fields.discounts = DiscountFields /\ Fields.prices = PriceFields /\ Fields.users = UserFields
      /\ Fields.priceLists = PriceListFields /\ Fields.products = ProductFields
      /\ Fields.marketplaces = MarketplaceFields /\ Fields.companies = CompanyFields
      /\ Fields.roles = RoleFields /\ Fields.apiKeys = ApiKeyFields
  BY DEF Fields
<1>3. ASSUME NEW p \in Screens PROVE FieldsIn(Fields[p], Optional[p])
  BY <1>2, <1>3, DiscountFieldsIn, PriceFieldsIn, OtherFieldsIn DEF Screens, Optional
<1> QED
  BY <1>1, <1>2, <1>3

\* What the controls hold; only the day of a key is as its browser has it.
DayOfKey(p, k) == p = "apiKeys" /\ k = "expiresAt"

IsValues(p, v) ==
    /\ v = [k \in DOMAIN Fields[p] |-> v[k]]
    /\ \A k \in DOMAIN Fields[p] : DayOfKey(p, k) \/ (v[k] \notin {None, "x+"} /\ Apt(k, v[k]))

\* No value of a field is null.
LEMMA NotNull ==
    /\ None \notin {NoText, "x", "padded", "long", "fine", "mixed", "early", "late", "far", "100"}
    /\ NoText \notin {"x", "100"}
<1>0. PICK d, e, c, o : KindsAre(d, e, c, o)
  BY Days, Zenon
<1>1. Day(TRUE) = d /\ Day(FALSE) = e /\ {"early", "late", "far"} \subseteq d.takes
  BY <1>0, Zenon DEF KindsAre
<1>2. /\ \A k \in {"name", "value", "priority", "startDate"} : None \notin DiscountFields[k].takes
      /\ None \notin UserFields.email.takes
  BY AllFieldsIn, RecordFormAssumption DEF Fields, DiscountFields, UserFields, Screens
<1>3. /\ {NoText, "x", "padded", "long"} \subseteq DiscountFields.name.takes
      /\ "fine" \in DiscountFields.value.takes /\ "100" \in DiscountFields.priority.takes
      /\ "mixed" \in UserFields.email.takes
  BY DEF DiscountFields, UserFields, Text, Amount, Field
<1>4. {"early", "late", "far"} \subseteq DiscountFields.startDate.takes
  BY <1>1 DEF DiscountFields
<1> QED
  BY <1>2, <1>3, <1>4 DEF NoText

LEMMA NeverNull ==
    ASSUME NEW x
    PROVE  Entered(x) \notin {None, "x+"}
  BY NotNull DEF Entered, NoText

\* What is tidied is shown as such, and so is what is kept.
LEMMA TidiedOnce ==
    ASSUME NEW k, NEW x, x \notin {None, "x+"}, Apt(k, x), NEW y \in {x, OrNull(x)}
    PROVE  Entered(Kept(k, Parsed(k, y))) = Tidy(k, x) /\ Apt(k, Kept(k, Parsed(k, y)))
<1>1. CASE x = NoText
  <2>1. y \in {NoText, None}
    BY <1>1 DEF OrNull
  <2>2. Kept(k, Parsed(k, y)) = y
    BY <2>1, NotNull DEF Kept, Parsed, NoText
  <2> QED
    BY <1>1, <2>1, <2>2, NotNull DEF Entered, Tidy, NoText, Apt
<1>2. CASE x # NoText
  <2>1. y = x
    BY <1>2 DEF OrNull
  <2>2. Kept(k, Parsed(k, x)) = Tidy(k, x)
    BY DEF Kept, Parsed, Tidy, Apt, Trimmed
  <2>3. Tidy(k, x) \notin {None, "x+"} /\ Apt(k, Tidy(k, x))
    BY NotNull DEF Tidy, Apt
  <2> QED
    BY <2>1, <2>2, <2>3 DEF Entered
<1> QED
  BY <1>1, <1>2

\* What was sent of a field is shown again, but for what is tidied.
LEMMA ReadBack ==
    ASSUME NEW p \in DOMAIN Fields, NEW mode, NEW v, IsValues(p, v),
           NEW r, DOMAIN r = DOMAIN Fields[p], NEW b, b = Payload(p, mode, v),
           NEW s,
           s = [k \in DOMAIN r |-> IF k \in DOMAIN b THEN Kept(k, Parsed(k, b[k])) ELSE r[k]],
           NEW k \in Editable(p, mode, v), ~(k = "priority" /\ v[k] = NoText),
           ~(p = "users" /\ k = "password"), ~(p = "prices" /\ k = "priceListId"),
           ~(p = "prices" /\ k = "marketplaceId"), ~DayOfKey(p, k)
    PROVE  ToForm(p, s)[k] = Tidy(k, v[k])
<1>1. /\ k \in DOMAIN Fields[p]
      /\ p = "discounts" /\ k \in References => k = ReferenceOf[v.appliesTo]
      /\ ~(p = "prices" /\ k = "productId" /\ mode = "edit")
  BY DEF Editable
<1>2. k \in Sent(p, mode)
  BY <1>1 DEF Sent, References
<1>3. b[k] = Mapped(p, v)[k] /\ s[k] = Kept(k, Parsed(k, b[k]))
  BY <1>1, <1>2 DEF Payload, Only
<1>4. PICK x : x = v[k] /\ x \notin {None, "x+"} /\ Apt(k, x)
  BY <1>1 DEF IsValues
<1>5. Mapped(p, v)[k] = x \/ Mapped(p, v)[k] = OrNull(x)
  <2>1. k \in DOMAIN v
    BY <1>1 DEF IsValues
  <2> QED
    BY <1>1, <1>4, <2>1 DEF Mapped
<1>6. ToForm(p, s)[k] = Entered(s[k])
  BY <1>1 DEF ToForm, DayOfKey
<1> QED
  BY <1>3, <1>4, <1>5, <1>6, TidiedOnce

\* What the form lets through, the validators refuse for nothing but what no form
\* looks at and the three known differences.
LEMMA Mirrored ==
    ASSUME NEW p \in DOMAIN Fields, NEW mode, NEW v, IsValues(p, v), FormErrors(p, v) = {},
           NEW b, b = Payload(p, mode, v), NEW k \in Refused(p, mode, b)
    PROVE  \/ LeftToTheApi(p, v[k])
           \/ p = "users" /\ k = "password"
           \/ p = "priceLists" /\ k = "currencyCode"
           \/ p = "prices" /\ k = "endDate"
<1>1. /\ DOMAIN v = DOMAIN Fields[p] /\ DOMAIN b = Sent(p, mode) /\ Sent(p, mode) = Known(p, mode)
      /\ Sent(p, mode) \subseteq DOMAIN Fields[p]
      /\ \A j \in Sent(p, mode) : b[j] = Mapped(p, v)[j]
  BY DEF IsValues, Payload, Only, Sent, Known
<1>2. p \in Screens /\ \A j \in DOMAIN Fields[p] : v[j] = NoText => j \in Optional[p]
  BY <1>1, AllFieldsIn DEF FormErrors, FieldsIn
<1>3. None \notin {NoText, "100", "early", "late"} /\ NoText # "100"
  BY NotNull
<1>4. \A x : OrNull(x) # NoText /\ (OrNull(x) = None => x = NoText \/ x = None)
  BY <1>3 DEF OrNull
<1>5. ASSUME k \in Sent(p, mode), b[k] = NoText, k \notin TakesEmpty
      PROVE  \/ p = "users" /\ k = "password"
             \/ p = "priceLists" /\ k = "currencyCode"
  <2>1. k \in DOMAIN v /\ Mapped(p, v)[k] = NoText
    BY <1>1, <1>5
  <2>2. /\ v[k] = NoText
        /\ ~(p = "discounts" /\ k \in References \cup {"startDate", "endDate", "description", "priority"})
        /\ ~(p = "prices" /\ k = "endDate") /\ ~(p = "apiKeys" /\ k = "expiresAt")
    BY <1>3, <1>4, <2>1 DEF Mapped
  <2>3. k \in Optional[p]
    BY <1>1, <1>2, <2>1, <2>2
  <2> QED
    BY <1>2, <1>5, <2>2, <2>3 DEF Optional, Screens, References, TakesEmpty
<1>6. ASSUME k \in Sent(p, mode), b[k] = None PROVE k \in TakesNull(p)
  <2>1. k \in DOMAIN v /\ Mapped(p, v)[k] = None /\ (DayOfKey(p, k) \/ v[k] # None)
    BY <1>1, <1>6 DEF IsValues
  <2>2. \/ p = "discounts" /\ k \in References \cup {"endDate", "description"}
        \/ p = "discounts" /\ k = "startDate" /\ v[k] = NoText
        \/ p = "prices" /\ k = "endDate"
        \/ p = "apiKeys" /\ k = "expiresAt"
    BY <1>3, <1>4, <2>1 DEF Mapped, DayOfKey
  <2>3. ~(p = "discounts" /\ k = "startDate" /\ v[k] = NoText)
    BY <1>1, <1>2, <2>1 DEF Optional
  <2> QED
    BY <2>2, <2>3 DEF TakesNull, TakesEmpty
<1>7. ASSUME p = "discounts" PROVE k \notin ScopeErrors(b) /\ ~Backwards(b)
  <2>1. DOMAIN v = {"name", "type", "value", "appliesTo", "productId", "priceListId", "marketplaceId",
                    "startDate", "endDate", "priority", "status", "description"}
        /\ Sent(p, mode) = DOMAIN v
    <3>1. DOMAIN v = DOMAIN DiscountFields /\ Sent(p, mode) = DOMAIN v
      BY <1>1, <1>7, AllFieldsIn DEF Sent
    <3> QED
      BY <3>1 DEF DiscountFields
  <2>2. /\ b.appliesTo = v.appliesTo /\ b.type = v.type /\ b.value = v.value
        /\ b.startDate = OrNull(v.startDate) /\ b.endDate = OrNull(v.endDate)
    BY <1>1, <1>7, <2>1 DEF Mapped, References
  <2>3. \A j \in References : b[j] = IF j = ReferenceOf[v.appliesTo] THEN OrNull(v[j]) ELSE None
    BY <1>1, <1>7, <2>1 DEF Mapped, References
  <2>4. /\ \A j \in References : ~(j = ReferenceOf[v.appliesTo] <=> v[j] = NoText)
        /\ ~(v.type = "percentage" /\ v.value = "above100") /\ ~Backwards(v)
    BY <1>7 DEF FormErrors, CrossErrors
  <2>5. \A j \in References : v[j] # None
    BY <1>1, <1>7, <2>1 DEF IsValues, References, DayOfKey
  <2>6. k \notin ScopeErrors(b)
    <3>1. \A j \in References : ~(j = ReferenceOf[b.appliesTo] <=> b[j] = None)
      BY <1>4, <2>2, <2>3, <2>4, <2>5
    <3> QED
      BY <2>2, <2>4, <3>1 DEF ScopeErrors
  <2>7. ~Backwards(b)
    BY <1>3, <2>2, <2>4 DEF Backwards, OrNull
  <2> QED
    BY <2>6, <2>7
<1>8. ASSUME k \in Sent(p, mode), b[k] \in Misfits(k) PROVE LeftToTheApi(p, v[k])
  <2>1. k \in DOMAIN v /\ Mapped(p, v)[k] = b[k]
    BY <1>1, <1>8
  <2>2. b[k] \in {v[k], OrNull(v[k]), None, "100"}
    BY <2>1 DEF Mapped
  <2>3. b[k] = None => k \in References \cup {"endDate", "startDate", "description", "expiresAt"}
                      \/ v[k] = None
    BY <1>3, <2>1 DEF Mapped, OrNull
  <2>4. b[k] # "100" /\ (b[k] = None => v[k] = None)
    BY <1>8, <2>3, NotNull DEF Misfits, References, Trimmed
  <2>5. b[k] = v[k]
    BY <2>2, <2>4 DEF OrNull
  <2>6. v[k] # "negative"
    BY <2>1 DEF FormErrors
  <2>7. p = "discounts" => ~(v[k] = "spaces" /\ k = "name")
    BY DEF FormErrors, CrossErrors
  <2>8. p = "discounts" /\ k # "name" => b[k] # "spaces"
    <3>1. CASE p = "discounts"
      <4>1. k \in DOMAIN DiscountFields
        BY <1>1, <1>8, <3>1, AllFieldsIn
      <4>2. k \in {"name", "type", "value", "appliesTo", "productId", "priceListId", "marketplaceId",
                   "startDate", "endDate", "priority", "status", "description"}
        BY <4>1 DEF DiscountFields
      <4> QED
        BY <1>8, <4>2 DEF Misfits, Trimmed
    <3> QED
      BY <3>1
  <2>9. b[k] \in {"spaces", "long", "short", "malformed", "fraction", "far", "negative"}
    BY <1>8 DEF Misfits
  <2> QED
    BY <2>5, <2>6, <2>7, <2>8, <2>9 DEF LeftToTheApi
<1> QED
  BY <1>1, <1>5, <1>6, <1>7, <1>8 DEF Refused

\* A form that is open holds values of its fields.
IsForm(p, f) ==
    \/ f = NoForm
    \/ /\ f = [mode |-> f.mode, of |-> f.of] /\ f.mode \in {"create", "edit"}
       /\ IsValues(p, f.of)

FormInv ==
    /\ resource \in DOMAIN Fields /\ record = [k \in DOMAIN Fields[resource] |-> record[k]]
    /\ \A k \in DOMAIN Fields[resource] : DayOfKey(resource, k) \/ Apt(k, record[k])
    /\ IsForm(resource, values) /\ IsForm(resource, submitted) /\ IsForm(resource, saved)
    /\ SavedAsShown

LEMMA FormOpens ==
    ASSUME FormInv, OpenNew \/ OpenRecord
    PROVE  FormInv'
<1>1. UNCHANGED <<resource, record, submitted, saved>>
  BY DEF OpenNew, OpenRecord, Editor
<1>2. ASSUME NEW v, NEW m \in {"create", "edit"}, values' = [mode |-> m, of |-> v], IsValues(resource, v)
      PROVE  FormInv'
  <2>1. IsForm(resource, values')
    BY <1>2 DEF IsForm
  <2>2. SavedAsShown'
    BY <1>1 DEF FormInv, SavedAsShown
  <2> QED
    BY <1>1, <2>1, <2>2 DEF FormInv
<1>3. CASE OpenNew
  <2>1. PICK v : v = [k \in DOMAIN Fields[resource] |-> Fields[resource][k].first]
    OBVIOUS
  <2>2. \A k \in DOMAIN Fields[resource] : v[k] \notin {None, "x+"} /\ Apt(k, v[k])
    BY <2>1, AllFieldsIn, RecordFormAssumption DEF FormInv, FieldsIn
  <2>3. IsValues(resource, v)
    BY <2>1, <2>2 DEF IsValues
  <2> QED
    BY <1>2, <1>3, <2>1, <2>3 DEF OpenNew
<1>4. CASE OpenRecord
  <2>1. PICK v : v = ToForm(resource, record)
    OBVIOUS
  <2>2. v = [k \in DOMAIN Fields[resource] |-> v[k]]
    BY <2>1 DEF ToForm
  <2>3. ASSUME NEW k \in DOMAIN Fields[resource], ~DayOfKey(resource, k)
        PROVE  v[k] \notin {None, "x+"} /\ Apt(k, v[k])
    <3>1. v[k] = NoText \/ v[k] = Entered(record[k])
      BY <2>1, <2>3 DEF ToForm, DayOfKey
    <3>2. NoText = Entered(None)
      BY DEF Entered
    <3>3. Apt(k, record[k])
      BY <2>3 DEF FormInv
    <3>4. Apt(k, v[k])
      BY <3>1, <3>3 DEF Apt, Entered, NoText
    <3> QED
      BY <3>1, <3>2, <3>4, NeverNull
  <2>4. IsValues(resource, v)
    BY <2>2, <2>3 DEF IsValues
  <2> QED
    BY <1>2, <1>4, <2>1, <2>4 DEF OpenRecord
<1> QED
  BY <1>3, <1>4

LEMMA FieldEntered ==
    ASSUME FormInv, NEW k \in DOMAIN Fields[resource], NEW x \in Fields[resource][k].takes,
           EnterField(k, x)
    PROVE  FormInv'
<1>1. UNCHANGED <<resource, record, submitted, saved>> /\ values.mode # "closed"
      /\ values' = [values EXCEPT !.of[k] = x]
  BY Zenon DEF EnterField, Editor
<1>2. PICK f : f = values
  OBVIOUS
<1>3. f = [mode |-> f.mode, of |-> f.of] /\ f.mode \in {"create", "edit"} /\ IsValues(resource, f.of)
  BY <1>1, <1>2 DEF FormInv, IsForm, NoForm
<1>4. PICK v : v = [f.of EXCEPT ![k] = x]
  OBVIOUS
<1>5. values' = [f EXCEPT !.of = v]
  BY <1>1, <1>2, <1>4, Zenon
<1>6. values' = [mode |-> f.mode, of |-> v]
  BY <1>3, <1>5
<1>7. x \notin {None, "x+"} /\ Apt(k, x)
  BY AllFieldsIn, RecordFormAssumption DEF FormInv, FieldsIn
<1>8. IsValues(resource, v)
  BY <1>3, <1>4, <1>7 DEF IsValues
<1>9. IsForm(resource, values')
  BY <1>3, <1>6, <1>8 DEF IsForm
<1>10. SavedAsShown'
  BY <1>1 DEF FormInv, SavedAsShown
<1> QED
  BY <1>1, <1>9, <1>10 DEF FormInv

LEMMA FormSaved ==
    ASSUME FormInv, SaveReturns
    PROVE  FormInv'
<1>1. PICK b : /\ b = Payload(resource, submitted.mode, submitted.of)
               /\ submitted # NoForm /\ submitted' = NoForm /\ UNCHANGED resource
               /\ \/ record' = Merged(b) /\ values' = NoForm /\ saved' = submitted
                  \/ UNCHANGED <<record, values, saved>>
  BY Zenon DEF SaveReturns
<1>2. IsForm(resource, NoForm)
  BY DEF IsForm
<1>3. CASE UNCHANGED <<record, values, saved>>
  <2>1. SavedAsShown'
    BY <1>1, <1>3 DEF FormInv, SavedAsShown
  <2> QED
    BY <1>1, <1>2, <1>3, <2>1 DEF FormInv
<1>4. CASE record' = Merged(b) /\ values' = NoForm /\ saved' = submitted
  <2>1. PICK p, m, v, r, s : /\ p = resource /\ m = submitted.mode /\ v = submitted.of
                             /\ r = record /\ s = record'
    OBVIOUS
  <2>2. p \in DOMAIN Fields /\ IsValues(p, v) /\ DOMAIN r = DOMAIN Fields[p]
    BY <1>1, <2>1 DEF FormInv, IsForm
  <2>3. s = [k \in DOMAIN r |-> IF k \in DOMAIN b THEN Kept(k, Parsed(k, b[k])) ELSE r[k]]
    BY <1>4, <2>1, Zenon DEF Merged
  <2>4. ASSUME NEW k \in Editable(p, m, v), ~(k = "priority" /\ v[k] = NoText),
               ~(p = "users" /\ k = "password"), ~(p = "prices" /\ k = "priceListId"),
               ~(p = "prices" /\ k = "marketplaceId"), ~DayOfKey(p, k)
        PROVE  ToForm(p, s)[k] = Tidy(k, v[k])
    BY <1>1, <2>1, <2>2, <2>3, <2>4, ReadBack
  <2>5. SavedAsShown'
    <3>1. saved'.mode = m /\ saved'.of = v /\ resource' = p /\ record' = s
      BY <1>1, <1>4, <2>1
    <3> QED
      BY <2>4, <3>1 DEF SavedAsShown, DayOfKey
  <2>6. record' = [k \in DOMAIN Fields[resource] |-> record'[k]]
    BY <2>1, <2>2, <2>3
  <2>7. ASSUME NEW k \in DOMAIN Fields[p], ~DayOfKey(p, k)
        PROVE  Apt(k, s[k])
    <3>1. Apt(k, r[k])
      BY <2>1, <2>7 DEF FormInv
    <3>2. k \in DOMAIN v /\ v[k] \notin {None, "x+"} /\ Apt(k, v[k])
      BY <2>2, <2>7 DEF IsValues
    <3>3. CASE k \in DOMAIN b
      <4>1. b[k] = Mapped(p, v)[k] /\ s[k] = Kept(k, Parsed(k, b[k]))
        BY <1>1, <2>1, <2>2, <2>3, <2>7, <3>3 DEF Payload, Only
      <4>2. b[k] \in {v[k], OrNull(v[k]), None, "100"}
        BY <3>2, <4>1 DEF Mapped
      <4>3. b[k] \in {None, "100"} => Kept(k, Parsed(k, b[k])) = b[k] /\ Apt(k, b[k])
        BY NotNull DEF Kept, Parsed, Apt
      <4> QED
        BY <3>2, <4>1, <4>2, <4>3, TidiedOnce
    <3> QED
      BY <2>2, <2>3, <2>7, <3>1, <3>3
  <2>8. \A k \in DOMAIN Fields[resource'] : DayOfKey(resource', k) \/ Apt(k, record'[k])
    BY <1>1, <2>1, <2>7
  <2> QED
    BY <1>1, <1>2, <1>4, <2>5, <2>6, <2>8 DEF FormInv
<1> QED
  BY <1>1, <1>3, <1>4

LEMMA FormInvStep ==
    ASSUME FormInv, [Next]_vars
    PROVE  FormInv'
<1>1. CASE UNCHANGED formParts
  <2>1. UNCHANGED <<resource, record, values, submitted, saved>>
    BY <1>1 DEF formParts
  <2> QED
    BY <2>1 DEF FormInv, SavedAsShown
<1>2. CASE SubmitForm
  <2>1. submitted' = values /\ UNCHANGED <<resource, record, values, saved>>
    BY <1>2, Zenon DEF SubmitForm, Editor
  <2>2. SavedAsShown'
    BY <2>1 DEF FormInv, SavedAsShown
  <2> QED
    BY <2>1, <2>2 DEF FormInv
<1>3. CASE RecordFormNext
  BY <1>2, <1>3, FormOpens, FieldEntered, FormSaved, Zenon DEF RecordFormNext
<1>4. UNCHANGED vars => UNCHANGED formParts
  BY DEF vars
<1> QED
  BY <1>1, <1>3, <1>4, Zenon DEF Next

LEMMA FormStarts ==
    ASSUME Init
    PROVE  FormInv
<1>1. resource \in DOMAIN Fields /\ record \in Records(resource)
      /\ values = NoForm /\ submitted = NoForm /\ saved = NoForm
  BY Zenon DEF Init, RecordFormInit
<1>2. record = [k \in DOMAIN Fields[resource] |-> record[k]]
  BY <1>1 DEF Records
<1>3. ASSUME NEW k \in DOMAIN Fields[resource]
      PROVE  Apt(k, record[k])
  <2>1. PICK f : f = Fields[resource][k]
    OBVIOUS
  <2>2. f.first \in f.takes /\ \A x \in f.takes : Apt(k, x)
    BY <1>1, <2>1, AllFieldsIn DEF FieldsIn
  <2>3. \A full : Held(resource, k, full) \in {"early", "late", "x+", f.first, "x"}
    BY <2>1 DEF Held
  <2>4. record[k] \in {"early", "late", "x+", f.first, "x", None}
    BY <1>1, <2>3 DEF Records
  <2> QED
    BY <2>2, <2>4, NotNull DEF Apt
<1> QED
  BY <1>1, <1>2, <1>3 DEF FormInv, IsForm, SavedAsShown

\* Whatever is entered and cleared, a save that is carried out leaves a record the
\* form shows again as it was sent, but for what is tidied, for any number of
\* openings, edits and saves (mapToForm, mapToPayload, the schemas of the API and
\* the update of the repository).
THEOREM AlwaysSavedAsShown == Spec => []SavedAsShown
<1>1. Init => FormInv
  BY FormStarts
<1>2. FormInv /\ [Next]_vars => FormInv'
  BY FormInvStep
<1>3. FormInv => SavedAsShown
  BY DEF FormInv
<1> QED
  BY <1>1, <1>2, <1>3, PTL DEF Spec

\* What a form lets through, the validators of the API refuse for nothing but what
\* no form looks at, a password left empty, the currency of a price list and the
\* dates of a price, whatever its fields hold (buildForm, discountFormSchema and
\* the schemas of the API).
THEOREM FormsAlwaysMirrorTheApi == Spec => []FormsMirrorTheApi
<1>1. Init => FormInv
  BY FormStarts
<1>2. FormInv /\ [Next]_vars => FormInv'
  BY FormInvStep
<1>3. FormInv => FormsMirrorTheApi
  <2> SUFFICES ASSUME FormInv, values # NoForm, FormErrors(resource, values.of) = {},
                      NEW k \in Refused(resource, values.mode,
                                        Payload(resource, values.mode, values.of))
               PROVE  \/ LeftToTheApi(resource, values.of[k])
                      \/ <<resource, k>> \in {<<"users", "password">>, <<"priceLists", "currencyCode">>,
                                              <<"prices", "endDate">>}
    BY DEF FormsMirrorTheApi
  <2>1. resource \in DOMAIN Fields /\ IsValues(resource, values.of)
    BY DEF FormInv, IsForm
  <2> QED
    BY <2>1, Mirrored
<1> QED
  BY <1>1, <1>2, <1>3, PTL DEF Spec

----------------------------------------------------------------------------
(* The exports and the interval that watches them.                          *)

\* The exports are left by the other screens as they are.
LEMMA ExportsOrStill ==
    ASSUME [Next]_vars
    PROVE  \/ ExportWatchNext /\ screen = "exports" /\ UNCHANGED screen
           \/ UNCHANGED <<screen, exportVars>> /\ (screen = "exports" => UNCHANGED company)
<1>1. CASE ExportWatchNext
  BY <1>1, OnOwnScreen
<1>2. ASSUME NEW s, s # "exports", screen = s, UNCHANGED screen, UNCHANGED exportVars
      PROVE  UNCHANGED <<screen, exportVars>> /\ (screen = "exports" => UNCHANGED company)
  BY <1>2
<1>3. CASE UNCHANGED vars
  BY <1>3 DEF vars, screenVars
<1> QED
  BY <1>1, <1>2, <1>3, ListOnScreen, OnOwnScreen DEF Next

IsPoll(c) == c = [tenant |-> c.tenant, late |-> c.late] /\ c.late \in BOOLEAN
PollsShape == IsSeq(polls) /\ \A i \in DOMAIN polls : IsPoll(polls[i])
JobsShape == jobs = [j \in Jobs |-> [status |-> jobs[j].status, tenant |-> jobs[j].tenant]]

\* What is shown as finished is.
ShownIsSo ==
    \A e \in exports :
        e.job \in Jobs /\ e = [job |-> e.job, finished |-> e.finished] /\ e.finished \in BOOLEAN
        /\ (e.finished => jobs[e.job].status = "finished")

\* The newest call is of the active company and under way, or all that are have
\* been overtaken and it has brought j.
NewestHas(j) ==
    \/ /\ DOMAIN polls # {}
       /\ polls[Len(polls)] = [tenant |-> company, late |-> FALSE]
    \/ /\ \A i \in DOMAIN polls : polls[i].late
       /\ \E e \in exports : e.job = j

\* The interval has stopped with j shown as finished, and nothing that is under
\* way takes it from the screen.
StoppedWith(j) ==
    /\ [job |-> j, finished |-> TRUE] \in exports
    /\ jobs[j].status = "finished"
    /\ \A i \in DOMAIN polls : polls[i].tenant = company

Followed(j) ==
    /\ j \in Jobs /\ jobs[j].tenant = company /\ jobs[j].status # "none"
    /\ NewestHas(j) /\ (polling \/ StoppedWith(j))

WatchInv ==
    /\ PollsShape /\ JobsShape /\ ShownIsSo
    /\ polling \in BOOLEAN /\ missed \in BOOLEAN
    /\ screen # "exports" => watched = {}
    /\ missed \/ \A j \in watched : Followed(j)

\* A call that is sent is the newest.
LEMMA PollSent ==
    ASSUME PollsShape, NEW c, polls' = Append(polls, [tenant |-> c, late |-> FALSE])
    PROVE  /\ PollsShape' /\ DOMAIN polls' # {}
           /\ polls'[Len(polls')] = [tenant |-> c, late |-> FALSE]
           /\ \A i \in DOMAIN polls' : polls'[i].tenant = c \/ \E k \in DOMAIN polls : polls'[i] = polls[k]
<1>1. PICK x : x = [tenant |-> c, late |-> FALSE]
  OBVIOUS
<1>2. PICK n \in Nat : n = Len(polls) /\ DOMAIN polls = 1 .. n
  BY SeqFacts DEF PollsShape
<1>3. /\ IsSeq(polls') /\ Len(polls') = n + 1
      /\ \A k \in 1 .. n : polls'[k] = polls[k]
      /\ polls'[n + 1] = x
  BY <1>1, <1>2, AppendFacts DEF PollsShape
<1>4. DOMAIN polls' = 1 .. n + 1
  BY <1>3, SeqFacts
<1>5. IsPoll(x) /\ x.tenant = c
  BY <1>1 DEF IsPoll
<1>6. ASSUME NEW i \in 1 .. n + 1
      PROVE  IsPoll(polls'[i]) /\ (polls'[i].tenant = c \/ \E k \in DOMAIN polls : polls'[i] = polls[k])
  <2>1. CASE i = n + 1
    BY <1>3, <1>5, <2>1
  <2>2. CASE i # n + 1
    <3>1. i \in 1 .. n
      BY <2>2
    <3>2. polls'[i] = polls[i] /\ i \in DOMAIN polls
      BY <1>2, <1>3, <3>1
    <3> QED
      BY <3>2 DEF PollsShape
  <2> QED
    BY <2>1, <2>2
<1>7. PollsShape'
  BY <1>3, <1>4, <1>6 DEF PollsShape
<1>8. DOMAIN polls' # {} /\ polls'[Len(polls')] = [tenant |-> c, late |-> FALSE]
  BY <1>1, <1>3, <1>4
<1> QED
  BY <1>4, <1>6, <1>7, <1>8

\* A call that has landed leaves the others with their companies, and the newest
\* where it is the newest.
LEMMA PollGone ==
    ASSUME PollsShape, NEW i \in DOMAIN polls, PollLands(i)
    PROVE  /\ PollsShape'
           /\ \A j \in DOMAIN polls' : \E k \in DOMAIN polls : polls'[j].tenant = polls[k].tenant
           /\ i = Len(polls) => \A j \in DOMAIN polls' : polls'[j].late
           /\ i # Len(polls) => DOMAIN polls' # {} /\ polls'[Len(polls')] = polls[Len(polls)]
<1>1. Overtaken(polls, i, DOMAIN polls) =
        [j \in DOMAIN polls |-> IF j < i /\ TRUE THEN [polls[j] EXCEPT !.late = TRUE] ELSE polls[j]]
  BY DEF Overtaken
<1>2. polls' = RemoveAt(Overtaken(polls, i, DOMAIN polls), i)
  BY <1>1 DEF PollLands, Landed
<1>3. PICK n \in Nat : n = Len(polls) /\ DOMAIN polls = 1 .. n
  BY SeqFacts DEF PollsShape
<1>4. LandedFrom(polls', polls, i, DOMAIN polls)
  BY <1>2, <1>3, LandedFacts DEF PollsShape
<1>5. /\ IsSeq(polls') /\ Len(polls') = n - 1 /\ DOMAIN polls' = 1 .. n - 1
      /\ \A k \in 1 .. n - 1 : k < i => polls'[k] = [polls[k] EXCEPT !.late = TRUE]
      /\ \A k \in 1 .. n - 1 : k >= i => polls'[k] = polls[k + 1]
  BY <1>3, <1>4 DEF LandedFrom
<1>6. ASSUME NEW k \in 1 .. n - 1
      PROVE  /\ IsPoll(polls'[k]) /\ (k < i => polls'[k].late)
             /\ \E h \in DOMAIN polls : polls'[k].tenant = polls[h].tenant
  <2>1. k \in DOMAIN polls /\ k + 1 \in DOMAIN polls
    BY <1>3
  <2>2. CASE k < i
    <3>1. IsPoll(polls[k]) /\ polls'[k] = [polls[k] EXCEPT !.late = TRUE]
      BY <1>5, <2>1, <2>2 DEF PollsShape
    <3>2. polls'[k] = [tenant |-> polls[k].tenant, late |-> TRUE]
      BY <3>1 DEF IsPoll
    <3> QED
      BY <2>1, <3>2 DEF IsPoll
  <2>3. CASE k >= i
    BY <1>3, <1>5, <2>1, <2>3 DEF PollsShape
  <2> QED
    BY <1>3, <2>2, <2>3
<1>7. ASSUME i # n PROVE n - 1 \in 1 .. n - 1 /\ polls'[n - 1] = polls[n]
  <2>1. n - 1 \in 1 .. n - 1 /\ n - 1 >= i /\ n - 1 + 1 = n
    BY <1>3, <1>7
  <2> QED
    BY <1>5, <2>1
<1> QED
  <2>1. PollsShape' /\ \A j \in DOMAIN polls' : \E k \in DOMAIN polls : polls'[j].tenant = polls[k].tenant
    BY <1>5, <1>6 DEF PollsShape
  <2>2. i = Len(polls) => \A j \in DOMAIN polls' : polls'[j].late
    BY <1>3, <1>5, <1>6
  <2>3. i # Len(polls) => DOMAIN polls' # {} /\ polls'[Len(polls')] = polls[Len(polls)]
    BY <1>3, <1>5, <1>7
  <2> QED
    BY <2>1, <2>2, <2>3

\* What has been followed still is when the exports, the company and the calls
\* for them stay.
LEMMA StillFollowed ==
    ASSUME UNCHANGED <<company, exports, polls, polling>>,
           NEW j, Followed(j), jobs'[j].tenant = jobs[j].tenant,
           jobs'[j].status = jobs[j].status \/ jobs'[j].status = "finished"
    PROVE  Followed(j)'
<1>1. NewestHas(j)'
  BY DEF Followed, NewestHas
<1>2. StoppedWith(j) => StoppedWith(j)'
  BY DEF StoppedWith
<1> QED
  BY <1>1, <1>2 DEF Followed

LEMMA WatchInvStep ==
    ASSUME WatchInv, [Next]_vars
    PROVE  WatchInv'
<1>1. CASE UNCHANGED <<screen, exportVars>> /\ (screen = "exports" => UNCHANGED company)
  <2>1. PollsShape' /\ JobsShape' /\ ShownIsSo'
    BY <1>1 DEF WatchInv, exportVars, PollsShape, JobsShape, ShownIsSo
  <2>2. CASE screen = "exports"
    <3>1. \A j \in watched : Followed(j) => Followed(j)'
      BY <1>1, <2>2, StillFollowed DEF exportVars
    <3> QED
      BY <1>1, <2>1, <2>2, <3>1 DEF WatchInv, exportVars
  <2>3. CASE screen # "exports"
    BY <1>1, <2>1, <2>3 DEF WatchInv, exportVars
  <2> QED
    BY <2>2, <2>3
<1>2. ASSUME screen = "exports", screen' = screen, RequestExport PROVE WatchInv'
  <2>1. PollsShape' /\ JobsShape' /\ ShownIsSo'
    BY <1>2 DEF WatchInv, RequestExport, PollsShape, JobsShape, ShownIsSo
  <2>2. \A j \in watched : Followed(j) => Followed(j)'
    BY <1>2, StillFollowed DEF RequestExport
  <2> QED
    BY <1>2, <2>1, <2>2 DEF WatchInv, RequestExport
<1>3. ASSUME screen = "exports", screen' = screen, NEW j \in Jobs, Queued(j),
             UNCHANGED <<company, exports, missed>>,
             \/ UNCHANGED <<polls, polling, watched>>
             \/ /\ Requested
                /\ watched' = IF requesting = company THEN watched \cup {j} ELSE watched
      PROVE  WatchInv'
  <2>1. PICK x : x = [status |-> "pending", tenant |-> requesting]
    OBVIOUS
  <2>2. jobs' = [jobs EXCEPT ![j] = x] /\ jobs[j].status = "none"
    BY <1>3, <2>1 DEF Queued
  <2>3. x = [status |-> x.status, tenant |-> x.tenant] /\ x.status = "pending" /\ x.tenant = requesting
    BY <2>1
  <2>4. jobs'[j] = x /\ \A h \in Jobs : h # j => jobs'[h] = jobs[h]
    BY <2>2 DEF WatchInv, JobsShape
  <2>5. JobsShape'
    BY <2>2, <2>3 DEF WatchInv, JobsShape
  <2>6. ShownIsSo'
    BY <1>3, <2>2, <2>4 DEF WatchInv, ShownIsSo
  <2>7. CASE UNCHANGED <<polls, polling, watched>>
    <3>1. \A h \in watched : Followed(h) => Followed(h)'
      BY <1>3, <2>2, <2>4, <2>7, StillFollowed DEF Followed
    <3> QED
      BY <1>3, <2>5, <2>6, <2>7, <3>1 DEF WatchInv, PollsShape
  <2>8. CASE Requested /\ watched' = IF requesting = company THEN watched \cup {j} ELSE watched
    <3>1. polls' = Append(polls, [tenant |-> company, late |-> FALSE]) /\ polling' = TRUE
      BY <2>8 DEF Requested, LoadExports
    <3>2. PollsShape' /\ DOMAIN polls' # {} /\ polls'[Len(polls')] = [tenant |-> company, late |-> FALSE]
      BY <3>1, PollSent DEF WatchInv
    <3>3. \A h : NewestHas(h)'
      BY <1>3, <3>2 DEF NewestHas
    <3>4. ASSUME NEW h \in watched, Followed(h) PROVE Followed(h)'
      BY <1>3, <2>2, <2>4, <3>1, <3>3, <3>4 DEF Followed
    <3>5. requesting = company => Followed(j)'
      BY <1>3, <2>3, <2>4, <3>1, <3>3 DEF Followed
    <3> QED
      BY <1>3, <2>5, <2>6, <2>8, <3>1, <3>2, <3>4, <3>5 DEF WatchInv
  <2> QED
    BY <1>3, <2>7, <2>8
<1>4. ASSUME screen = "exports", screen' = screen,
             UNCHANGED <<company, exports, missed, jobs, polls, polling, watched>>
      PROVE  WatchInv'
  <2>1. PollsShape' /\ JobsShape' /\ ShownIsSo'
    BY <1>4 DEF WatchInv, PollsShape, JobsShape, ShownIsSo
  <2>2. \A j \in watched : Followed(j) => Followed(j)'
    BY <1>4, StillFollowed
  <2> QED
    BY <1>4, <2>1, <2>2 DEF WatchInv
<1>5. ASSUME screen = "exports", screen' = screen, RequestLands PROVE WatchInv'
  <2>1. UNCHANGED <<company, exports, missed>>
    BY <1>5 DEF RequestLands
  <2>2. CASE UNCHANGED <<polls, polling, watched, jobs>>
    BY <1>4, <1>5, <2>1, <2>2
  <2>3. CASE ~UNCHANGED <<polls, polling, watched, jobs>>
    BY <1>3, <1>5, <2>1, <2>3 DEF RequestLands
  <2> QED
    BY <2>2, <2>3
<1>6. ASSUME screen = "exports", screen' = screen, Tick PROVE WatchInv'
  <2>1. /\ polls' = Append(polls, [tenant |-> company, late |-> FALSE])
        /\ polling' = Pending /\ missed' = (missed \/ polls # <<>>)
        /\ UNCHANGED <<company, requesting, jobs, exports, watched>>
    BY <1>6 DEF Tick, LoadExports
  <2>2. /\ PollsShape' /\ DOMAIN polls' # {} /\ polls'[Len(polls')] = [tenant |-> company, late |-> FALSE]
        /\ \A i \in DOMAIN polls' : polls'[i].tenant = company \/ \E k \in DOMAIN polls : polls'[i] = polls[k]
    BY <2>1, PollSent DEF WatchInv
  <2>3. JobsShape' /\ ShownIsSo' /\ polling' \in BOOLEAN /\ missed' \in BOOLEAN
    BY <2>1 DEF WatchInv, JobsShape, ShownIsSo, Pending
  <2>4. ASSUME ~missed, polls = <<>>, NEW j \in watched PROVE Followed(j)'
    <3>1. Followed(j) /\ DOMAIN polls = {}
      BY <2>4 DEF WatchInv
    <3>2. PICK e \in exports : e.job = j
      BY <3>1 DEF Followed, NewestHas
    <3>3. NewestHas(j)'
      BY <2>1, <2>2 DEF NewestHas
    <3>4. CASE Pending
      BY <2>1, <3>1, <3>3, <3>4 DEF Followed
    <3>5. CASE ~Pending
      <4>1. e = [job |-> e.job, finished |-> e.finished] /\ e.finished = TRUE /\ jobs[j].status = "finished"
        BY <3>2, <3>5 DEF Pending, WatchInv, ShownIsSo
      <4>2. [job |-> j, finished |-> TRUE] \in exports
        BY <3>2, <4>1
      <4>3. StoppedWith(j)'
        BY <2>1, <2>2, <3>1, <4>1, <4>2 DEF StoppedWith
      <4> QED
        BY <2>1, <3>1, <3>3, <4>3 DEF Followed
    <3> QED
      BY <3>4, <3>5
  <2> QED
    BY <1>6, <2>1, <2>2, <2>3, <2>4 DEF WatchInv
<1>7. ASSUME screen = "exports", screen' = screen, NEW i \in DOMAIN polls, PollLands(i) PROVE WatchInv'
  <2>1. UNCHANGED <<company, requesting, jobs, polling, watched>>
    BY <1>7 DEF PollLands
  <2>2. /\ PollsShape'
        /\ \A j \in DOMAIN polls' : \E k \in DOMAIN polls : polls'[j].tenant = polls[k].tenant
        /\ i = Len(polls) => \A j \in DOMAIN polls' : polls'[j].late
        /\ i # Len(polls) => DOMAIN polls' # {} /\ polls'[Len(polls')] = polls[Len(polls)]
    BY <1>7, PollGone DEF WatchInv
  <2>3. JobsShape'
    BY <2>1 DEF WatchInv, JobsShape
  <2>4. CASE exports' = {} /\ missed' = TRUE
    <3>1. ShownIsSo'
      BY <2>4 DEF ShownIsSo
    <3> QED
      BY <1>7, <2>1, <2>2, <2>3, <2>4, <3>1 DEF WatchInv
  <2>5. CASE /\ exports' = {[job |-> j, finished |-> jobs[j].status = "finished"] :
                              j \in {j \in Jobs : jobs[j].tenant = polls[i].tenant}}
             /\ missed' = (missed \/ polls[i].late)
    <3>1. ShownIsSo'
      <4> SUFFICES ASSUME NEW e \in exports'
                   PROVE  /\ e.job \in Jobs /\ e = [job |-> e.job, finished |-> e.finished]
                          /\ e.finished \in BOOLEAN
                          /\ e.finished => jobs'[e.job].status = "finished"
        BY Zenon DEF ShownIsSo
      <4>1. PICK j \in Jobs : e = [job |-> j, finished |-> jobs[j].status = "finished"]
        BY <2>5, Zenon
      <4> QED
        BY <2>1, <4>1
    <3>2. ASSUME NEW j \in Jobs, jobs[j].tenant = polls[i].tenant
          PROVE  [job |-> j, finished |-> jobs[j].status = "finished"] \in exports'
      BY <2>5, <3>2, Zenon
    <3>3. missed' \in BOOLEAN /\ IsPoll(polls[i])
      BY <2>5 DEF WatchInv, PollsShape, IsPoll
    <3>4. ASSUME NEW j \in watched, ~missed' PROVE Followed(j)'
      <4>1. Followed(j) /\ polls[i].late = FALSE
        BY <2>5, <3>3, <3>4 DEF WatchInv, IsPoll
      <4>2. polls[Len(polls)] = [tenant |-> company, late |-> FALSE]
        BY <4>1 DEF Followed, NewestHas
      <4>3. NewestHas(j)'
        <5>1. CASE i = Len(polls)
          <6>1. j \in Jobs /\ jobs[j].tenant = polls[i].tenant
            BY <4>1, <4>2, <5>1 DEF Followed
          <6>2. PICK e \in exports' : e = [job |-> j, finished |-> jobs[j].status = "finished"]
            BY <3>2, <6>1, Zenon
          <6>3. e.job = j
            BY <6>2
          <6> QED
            BY <2>2, <5>1, <6>3 DEF NewestHas
        <5>2. CASE i # Len(polls)
          BY <2>1, <2>2, <4>2, <5>2 DEF NewestHas
        <5> QED
          BY <5>1, <5>2
      <4>4. ASSUME StoppedWith(j) PROVE StoppedWith(j)'
        <5>1. j \in Jobs /\ jobs[j].tenant = polls[i].tenant /\ jobs[j].status = "finished"
          BY <4>1, <4>4 DEF Followed, StoppedWith
        <5>2. [job |-> j, finished |-> jobs[j].status = "finished"] \in exports'
          BY <3>2, <5>1, Zenon
        <5>3. (jobs[j].status = "finished") = TRUE
          BY <5>1
        <5>4. [job |-> j, finished |-> TRUE] \in exports'
          BY <5>2, <5>3, Zenon
        <5>5. \A k \in DOMAIN polls' : polls'[k].tenant = company
          BY <2>2, <4>4 DEF StoppedWith
        <5> QED
          BY <2>1, <5>1, <5>4, <5>5 DEF StoppedWith
      <4> QED
        BY <2>1, <4>1, <4>3, <4>4 DEF Followed
    <3> QED
      BY <1>7, <2>1, <2>2, <2>3, <3>1, <3>3, <3>4 DEF WatchInv
  <2> QED
    BY <1>7, <2>4, <2>5 DEF PollLands
<1>8. ASSUME screen = "exports", screen' = screen, NEW j \in Jobs, JobFinishes(j) PROVE WatchInv'
  <2>1. PICK x : x = [status |-> "finished", tenant |-> jobs[j].tenant]
    OBVIOUS
  <2>2. jobs' = [jobs EXCEPT ![j] = x]
    <3>1. jobs[j] = [status |-> jobs[j].status, tenant |-> jobs[j].tenant]
      BY DEF WatchInv, JobsShape
    <3>2. jobs' = [jobs EXCEPT ![j] = [jobs[j] EXCEPT !.status = "finished"]]
      BY <1>8 DEF JobFinishes
    <3>3. [jobs[j] EXCEPT !.status = "finished"] = x
      BY <2>1, <3>1
    <3> QED
      BY <3>2, <3>3
  <2>3. x = [status |-> x.status, tenant |-> x.tenant] /\ x.status = "finished" /\ x.tenant = jobs[j].tenant
    BY <2>1
  <2>4. jobs'[j] = x /\ \A h \in Jobs : h # j => jobs'[h] = jobs[h]
    BY <2>2 DEF WatchInv, JobsShape
  <2>5. JobsShape'
    BY <2>2, <2>3 DEF WatchInv, JobsShape
  <2>6. UNCHANGED <<company, requesting, exports, polls, polling, watched, missed>>
    BY <1>8 DEF JobFinishes
  <2>7. ShownIsSo' /\ PollsShape'
    BY <2>3, <2>4, <2>6 DEF WatchInv, ShownIsSo, PollsShape
  <2>8. \A h \in watched : Followed(h) => Followed(h)'
    BY <2>3, <2>4, <2>6, StillFollowed DEF Followed
  <2> QED
    BY <1>8, <2>5, <2>6, <2>7, <2>8 DEF WatchInv
<1>9. ASSUME screen = "exports", screen' = screen, NEW t, ExportsOfAnother(t) PROVE WatchInv'
  <2>1. /\ polls' = Append(polls, [tenant |-> t, late |-> FALSE]) /\ watched' = {}
        /\ UNCHANGED <<requesting, jobs, exports, polling, missed>>
    BY <1>9 DEF ExportsOfAnother
  <2>2. PollsShape'
    BY <2>1, PollSent DEF WatchInv
  <2> QED
    BY <2>1, <2>2 DEF WatchInv, JobsShape, ShownIsSo
<1> QED
  BY <1>1, <1>2, <1>5, <1>6, <1>7, <1>8, <1>9, ExportsOrStill DEF ExportWatchNext

\* While an export requested here is not shown as finished the interval goes on,
\* as long as answers land in time and whatever else the user does: requestExport,
\* startPolling and loadExports of PriceCatalogComponent, for any number of
\* exports, of calls under way and of switches of the company.
THEOREM IntervalAlwaysGoesOn == Spec => []IntervalGoesOn
<1>1. Init => WatchInv
  <2> SUFFICES ASSUME Init PROVE WatchInv
    OBVIOUS
  <2>1. /\ jobs = [j \in Jobs |-> [status |-> "none", tenant |-> None]]
        /\ exports = {} /\ polls = <<[tenant |-> FirstCompany, late |-> FALSE]>>
        /\ polling = FALSE /\ watched = {} /\ missed = FALSE
    BY DEF Init, ExportWatchInit
  <2>2. PICK x : x = [tenant |-> FirstCompany, late |-> FALSE]
    OBVIOUS
  <2>3. IsPoll(x) /\ polls = <<x>>
    BY <2>1, <2>2 DEF IsPoll
  <2>4. PollsShape
    <3>1. polls \in Seq({x}) /\ Len(polls) = 1 /\ polls[1] = x
      BY <2>3
    <3>2. IsSeq(polls)
      BY <3>1 DEF IsSeq
    <3>3. DOMAIN polls = 1 .. 1
      BY <3>1, <3>2, SeqFacts
    <3> QED
      BY <2>3, <3>1, <3>2, <3>3 DEF PollsShape
  <2> QED
    BY <2>1, <2>4 DEF WatchInv, JobsShape, ShownIsSo
<1>2. WatchInv /\ [Next]_vars => WatchInv'
  BY WatchInvStep
<1>3. WatchInv => IntervalGoesOn
  BY DEF WatchInv, Followed, StoppedWith, IntervalGoesOn
<1> QED
  BY <1>1, <1>2, <1>3, PTL DEF Spec
=============================================================================

------------------------ MODULE DiscountWritesProofs ------------------------
(***************************************************************************)
(* Proofs about DiscountWrites for every set of requests, of request       *)
(* bodies and of referenced rows.                                          *)
(*                                                                         *)
(* The inductive invariant IInv says what a request holds between the      *)
(* check of its scope and the write: one reference, of the company's own,  *)
(* in the column of the scope it has merged (ScopeMerged).  That bounds    *)
(* what any interleaving can write.  That the column also fits the row's   *)
(* scope needs the row to be the one that was read (SeenIsRow), which only *)
(* requests that do not overlap can count on (OneAtATime).                 *)
(***************************************************************************)
EXTENDS DiscountWrites, TLAPS

\* A request to create names its scope.
CreatesNameTheirScope ==
    \A r \in Requests :
        pc[r] \in {"merging", "checking", "writing"} /\ kind[r] = "create" =>
            data[r].appliesTo # Undefined

\* What a request that was accepted is about to write.
ScopeMerged ==
    \A r \in Requests :
        pc[r] \in {"checking", "writing"} =>
            /\ data[r][ScopeOf(r)] \in OwnRefs
            /\ \A s \in Scopes \ {ScopeOf(r)} : data[r][s] = NoRef

\* Requests that do not overlap are alone.
OneAtATime ==
    ~overlapped => \A q, r \in Requests : pc[q] # "idle" /\ pc[r] # "idle" => q = r

\* What an update has read is still there when nothing overlaps.
SeenIsRow ==
    ~overlapped =>
        \A r \in Requests :
            pc[r] \in {"merging", "checking", "writing"} /\ kind[r] = "update" =>
                seen[r] = ScopeState(row) /\ state # "absent"

\* A request to delete has found the row.
RemovesWhatIsThere ==
    \A r \in Requests : pc[r] = "removing" => state # "absent"

IInv ==
    /\ TypeOK
    /\ RemovesWhatIsThere
    /\ CreatesNameTheirScope
    /\ ScopeMerged
    /\ OneAtATime
    /\ SeenIsRow
    /\ AtMostOneReference
    /\ ReferencesAreOwn
    /\ ScopeMatches

ScopeStates == [appliesTo : Scopes, product : RefColumn, price_list : RefColumn,
                marketplace : RefColumn]
----------------------------------------------------------------------------
(* Lemmas about the operators.                                              *)

\* What an update remembers of a row has the type of its scope columns.
LEMMA ScopeStateType == ASSUME NEW d \in Rows PROVE ScopeState(d) \in ScopeStates
  BY DEF ScopeState, Rows, Scopes, ScopeStates

\* ... and the values of the row.
LEMMA ScopeStateValues ==
    ASSUME NEW d
    PROVE  /\ ScopeState(d).appliesTo = d.appliesTo
           /\ \A s \in Scopes : ScopeState(d)[s] = d[s]
  BY DEF ScopeState, Scopes

\* Whatever body is merged into a row, the result is a row.
LEMMA MergedType ==
    ASSUME NEW d \in Rows, NEW p \in Bodies
    PROVE  Merged(d, p) \in Rows
  BY DiscountAssumption DEF Merged, Rows, Bodies

\* A field the body has replaces the column, another one leaves it.
LEMMA MergedValues ==
    ASSUME NEW d \in Rows, NEW p \in Bodies
    PROVE  /\ Merged(d, p).appliesTo = IF p.appliesTo = Undefined THEN d.appliesTo ELSE p.appliesTo
           /\ \A s \in Scopes : p[s] # Undefined => Merged(d, p)[s] = p[s]
  BY DEF Merged, Rows, Bodies, Scopes

\* The empty row is one, and a body too.
LEMMA BlankType == Blank \in Rows /\ Blank \in Bodies
  BY DEF Blank, Rows, Bodies, Scopes, Types, RefColumn, NoEnd

\* The scope an update is checked for is one of the three.
LEMMA ScopeOfType ==
    ASSUME TypeOK, NEW r \in Requests
    PROVE  ScopeOf(r) \in Scopes
  BY DEF TypeOK, ScopeOf, Bodies

\* Every scope has a column of its own, which holds a reference or nothing.
LEMMA RefColumns ==
    /\ \A d \in Rows, s \in Scopes : d[s] \in RefColumn
    /\ \A d \in ScopeStates, s \in Scopes : d[s] \in RefColumn
    /\ \A d \in Bodies, s \in Scopes : d[s] \in RefColumn \cup {Undefined}
  BY DEF Rows, ScopeStates, Bodies, Scopes

\* The merged reference is the payload's, the row's or none.
LEMMA FieldValueType ==
    ASSUME TypeOK, NEW r \in Requests, NEW s \in Scopes
    PROVE  FieldValue(r, s) \in RefColumn
<1>1. data[r] \in Bodies /\ seen[r] \in ScopeStates
  BY DEF TypeOK, ScopeStates
<1>2. data[r][s] \in RefColumn \cup {Undefined} /\ seen[r][s] \in RefColumn
  BY <1>1, RefColumns
<1> QED
  BY <1>2 DEF FieldValue, RefColumn
----------------------------------------------------------------------------
(* Preservation.                                                            *)

\* Nothing has been asked yet.
LEMMA InitHolds == Init => IInv
<1> SUFFICES ASSUME Init PROVE IInv
  OBVIOUS
<1>1. ScopeState(Blank) \in ScopeStates
  BY BlankType, ScopeStateType
<1>2. TypeOK
  BY <1>1, BlankType DEF Init, TypeOK, PCs, ScopeStates
<1>3. AtMostOneReference /\ ReferencesAreOwn /\ ScopeMatches
  BY DEF Init, AtMostOneReference, ReferencesAreOwn, ScopeMatches, Blank, Scopes
<1>4. CreatesNameTheirScope /\ ScopeMerged /\ OneAtATime /\ SeenIsRow /\ RemovesWhatIsThere
  BY DEF Init, RemovesWhatIsThere, CreatesNameTheirScope, ScopeMerged, OneAtATime, SeenIsRow
<1> QED
  BY <1>2, <1>3, <1>4 DEF IInv

\* Types.
LEMMA TypeStep == IInv /\ [Next]_vars => TypeOK'
<1> SUFFICES ASSUME IInv, [Next]_vars PROVE TypeOK'
  OBVIOUS
<1>a. ScopeState(Blank) \in ScopeStates /\ ScopeState(row) \in ScopeStates /\ row \in Rows
  BY BlankType, ScopeStateType DEF IInv, TypeOK
<1>b. ASSUME NEW r \in Requests, Done(r)
      PROVE  /\ pc' \in [Requests -> PCs] /\ kind' \in [Requests -> {"create", "update"}]
             /\ data' \in [Requests -> Bodies] /\ seen' \in [Requests -> ScopeStates]
  BY <1>a, <1>b, BlankType DEF IInv, TypeOK, Done, PCs, ScopeStates
<1> USE DEF IInv, TypeOK
<1>1. ASSUME NEW r \in Requests, NEW p \in Payloads, Create(r, p) PROVE TypeOK'
  BY <1>1, DiscountAssumption DEF Create, Arrive, PCs
<1>2. ASSUME NEW r \in Requests, NEW p \in Payloads, Update(r, p) PROVE TypeOK'
  BY <1>2, <1>a, DiscountAssumption DEF Update, Arrive, PCs, ScopeStates
<1>3. ASSUME NEW r \in Requests, Merge(r) PROVE TypeOK'
  <2>1. CASE Done(r)
    BY <1>3, <1>b, <2>1 DEF Merge, ScopeStates
  <2>2. CASE /\ data' = [data EXCEPT ![r] = [f \in DOMAIN data[r] |->
                            IF f \in Scopes THEN Normalized(r, f) ELSE data[r][f]]]
             /\ pc' = [pc EXCEPT ![r] = IF kind[r] = "create" THEN "writing" ELSE "checking"]
             /\ UNCHANGED <<kind, seen>>
    <3>1. \A s \in Scopes : Normalized(r, s) \in RefColumn
      BY FieldValueType DEF Normalized, RefColumn
    <3>2. [f \in DOMAIN data[r] |-> IF f \in Scopes THEN Normalized(r, f) ELSE data[r][f]] \in Bodies
      <4> DEFINE N(f) == Normalized(r, f)
      <4>1. data[r] \in Bodies /\ \A s \in Scopes : N(s) \in RefColumn
        BY <3>1
      <4> HIDE DEF N
      <4>2. [f \in DOMAIN data[r] |-> IF f \in Scopes THEN N(f) ELSE data[r][f]] \in Bodies
        BY <4>1 DEF Bodies, Scopes
      <4> QED
        BY <4>2 DEF N
    <3> QED
      BY <1>3, <2>2, <3>2 DEF Merge, PCs
  <2> QED
    BY <1>3, <2>1, <2>2 DEF Merge
<1>4. ASSUME NEW r \in Requests, Check(r) PROVE TypeOK'
  BY <1>4, <1>b DEF Check, PCs, locals, ScopeStates
<1>5. ASSUME NEW r \in Requests, Insert(r) PROVE TypeOK'
  BY <1>5, <1>a, <1>b, MergedType, BlankType DEF Insert, ScopeStates
<1>6. ASSUME NEW r \in Requests, Write(r) PROVE TypeOK'
  BY <1>6, <1>a, <1>b, MergedType DEF Write, ScopeStates
<1>7. ASSUME NEW r \in Requests, Fail(r) PROVE TypeOK'
  BY <1>7, <1>b DEF Fail, ScopeStates
<1>8. ASSUME NEW r \in Requests, Remove(r) PROVE TypeOK'
  BY <1>8 DEF Remove, Arrive, PCs, locals
<1>9. ASSUME NEW r \in Requests, SoftDelete(r) PROVE TypeOK'
  BY <1>9, <1>b DEF SoftDelete, ScopeStates
<1>10. ASSUME NEW x \in OwnRefs, DeleteReference(x) PROVE TypeOK'
  BY <1>10 DEF DeleteReference, locals
<1>11. CASE UNCHANGED vars
  BY <1>11 DEF vars, locals
<1> QED
  BY <1>1, <1>2, <1>3, <1>4, <1>5, <1>6, <1>7, <1>8, <1>9, <1>10, <1>11 DEF Next

\* A row is never taken away.
LEMMA RemovesStep == IInv /\ [Next]_vars => RemovesWhatIsThere'
<1> SUFFICES ASSUME IInv, [Next]_vars PROVE RemovesWhatIsThere'
  OBVIOUS
<1> USE DEF IInv, TypeOK, RemovesWhatIsThere
<1>1. ASSUME NEW r \in Requests, NEW p \in Payloads, Create(r, p) PROVE RemovesWhatIsThere'
  BY <1>1 DEF Create, Arrive
<1>2. ASSUME NEW r \in Requests, NEW p \in Payloads, Update(r, p) PROVE RemovesWhatIsThere'
  BY <1>2 DEF Update, Arrive
<1>3. ASSUME NEW r \in Requests, Merge(r) PROVE RemovesWhatIsThere'
  BY <1>3 DEF Merge, Done
<1>4. ASSUME NEW r \in Requests, Check(r) PROVE RemovesWhatIsThere'
  BY <1>4 DEF Check, Done, locals
<1>5. ASSUME NEW r \in Requests, Insert(r) PROVE RemovesWhatIsThere'
  BY <1>5 DEF Insert, Done
<1>6. ASSUME NEW r \in Requests, Write(r) PROVE RemovesWhatIsThere'
  BY <1>6 DEF Write, Done
<1>7. ASSUME NEW r \in Requests, Fail(r) PROVE RemovesWhatIsThere'
  BY <1>7 DEF Fail, Done
<1>8. ASSUME NEW r \in Requests, Remove(r) PROVE RemovesWhatIsThere'
  BY <1>8 DEF Remove, Arrive, locals
<1>9. ASSUME NEW r \in Requests, SoftDelete(r) PROVE RemovesWhatIsThere'
  BY <1>9 DEF SoftDelete, Done
<1>10. ASSUME NEW x \in OwnRefs, DeleteReference(x) PROVE RemovesWhatIsThere'
  BY <1>10 DEF DeleteReference, locals
<1>11. CASE UNCHANGED vars
  BY <1>11 DEF vars, locals
<1> QED
  BY <1>1, <1>2, <1>3, <1>4, <1>5, <1>6, <1>7, <1>8, <1>9, <1>10, <1>11 DEF Next

\* createDiscountSchema requires the scope, and the merge leaves it.
LEMMA CreatesStep == IInv /\ [Next]_vars => CreatesNameTheirScope'
<1> SUFFICES ASSUME IInv, [Next]_vars PROVE CreatesNameTheirScope'
  OBVIOUS
<1> USE DEF IInv, TypeOK, CreatesNameTheirScope
<1>1. ASSUME NEW r \in Requests, NEW p \in Payloads, Create(r, p) PROVE CreatesNameTheirScope'
  BY <1>1 DEF Create, CreateAccepts, Arrive
<1>2. ASSUME NEW r \in Requests, NEW p \in Payloads, Update(r, p) PROVE CreatesNameTheirScope'
  BY <1>2 DEF Update, Arrive
<1>3. ASSUME NEW r \in Requests, Merge(r) PROVE CreatesNameTheirScope'
  <2>1. \A q \in Requests :
          pc'[q] # "idle" => kind'[q] = kind[q] /\ pc[q] \in {pc'[q], "merging"}
    BY <1>3 DEF Merge, Done
  <2>2. \A q \in Requests : pc'[q] # "idle" => data'[q].appliesTo = data[q].appliesTo
    BY <1>3 DEF Merge, Done, Bodies, Scopes
  <2> QED
    BY <2>1, <2>2
<1>4. ASSUME NEW r \in Requests, Check(r) PROVE CreatesNameTheirScope'
  BY <1>4 DEF Check, Done, locals
<1>5. ASSUME NEW r \in Requests, Insert(r) PROVE CreatesNameTheirScope'
  BY <1>5 DEF Insert, Done
<1>6. ASSUME NEW r \in Requests, Write(r) PROVE CreatesNameTheirScope'
  BY <1>6 DEF Write, Done
<1>7. ASSUME NEW r \in Requests, Fail(r) PROVE CreatesNameTheirScope'
  BY <1>7 DEF Fail, Done
<1>8. ASSUME NEW r \in Requests, Remove(r) PROVE CreatesNameTheirScope'
  BY <1>8 DEF Remove, Arrive, locals
<1>9. ASSUME NEW r \in Requests, SoftDelete(r) PROVE CreatesNameTheirScope'
  BY <1>9 DEF SoftDelete, Done
<1>10. ASSUME NEW x \in OwnRefs, DeleteReference(x) PROVE CreatesNameTheirScope'
  BY <1>10 DEF DeleteReference, locals
<1>11. CASE UNCHANGED vars
  BY <1>11 DEF vars, locals
<1> QED
  BY <1>1, <1>2, <1>3, <1>4, <1>5, <1>6, <1>7, <1>8, <1>9, <1>10, <1>11 DEF Next

\* A request goes on past the merge with one reference, which exists and is the
\* company's own; the columns it was merged from are not touched again.
LEMMA MergedStep == IInv /\ [Next]_vars => ScopeMerged'
<1> SUFFICES ASSUME IInv, [Next]_vars PROVE ScopeMerged'
  OBVIOUS
<1> USE DEF IInv, TypeOK, ScopeMerged
<1>1. ASSUME NEW r \in Requests, NEW p \in Payloads, Create(r, p) PROVE ScopeMerged'
  BY <1>1 DEF Create, Arrive, ScopeOf
<1>2. ASSUME NEW r \in Requests, NEW p \in Payloads, Update(r, p) PROVE ScopeMerged'
  BY <1>2 DEF Update, Arrive, ScopeOf
<1>3. ASSUME NEW r \in Requests, Merge(r) PROVE ScopeMerged'
  <2>1. CASE Done(r)
    BY <1>3, <2>1 DEF Merge, Done, ScopeOf
  <2>2. CASE /\ Belongs(r) /\ Normal(r)
             /\ data' = [data EXCEPT ![r] = [f \in DOMAIN data[r] |->
                            IF f \in Scopes THEN Normalized(r, f) ELSE data[r][f]]]
             /\ pc' = [pc EXCEPT ![r] = IF kind[r] = "create" THEN "writing" ELSE "checking"]
             /\ UNCHANGED <<kind, seen>>
    <3>1. ScopeOf(r) \in Scopes /\ FieldValue(r, ScopeOf(r)) \in OwnRefs
      BY <2>2, ScopeOfType DEF Belongs, Normal
    <3>2. /\ data'[r].appliesTo = data[r].appliesTo
          /\ \A s \in Scopes : data'[r][s] = Normalized(r, s)
      BY <2>2 DEF Bodies, Scopes
    <3>3. \A q \in Requests \ {r} : pc'[q] = pc[q] /\ data'[q] = data[q] /\ seen'[q] = seen[q]
      BY <2>2
    <3>4. ScopeOf(r)' = ScopeOf(r) /\ \A q \in Requests \ {r} : ScopeOf(q)' = ScopeOf(q)
      BY <2>2, <3>2, <3>3 DEF ScopeOf
    <3>5. /\ data'[r][ScopeOf(r)] \in OwnRefs
          /\ \A s \in Scopes \ {ScopeOf(r)} : data'[r][s] = NoRef
      BY <3>1, <3>2 DEF Normalized
    <3>6. ASSUME NEW q \in Requests, q # r, pc'[q] \in {"checking", "writing"}
          PROVE  /\ data'[q][ScopeOf(q)'] \in OwnRefs
                 /\ \A s \in Scopes \ {ScopeOf(q)'} : data'[q][s] = NoRef
      BY <3>3, <3>4, <3>6
    <3> QED
      BY <3>4, <3>5, <3>6
  <2> QED
    BY <1>3, <2>1, <2>2 DEF Merge
<1>4. ASSUME NEW r \in Requests, Check(r) PROVE ScopeMerged'
  BY <1>4 DEF Check, Done, locals, ScopeOf
<1>5. ASSUME NEW r \in Requests, Insert(r) PROVE ScopeMerged'
  BY <1>5 DEF Insert, Done, ScopeOf
<1>6. ASSUME NEW r \in Requests, Write(r) PROVE ScopeMerged'
  BY <1>6 DEF Write, Done, ScopeOf
<1>7. ASSUME NEW r \in Requests, Fail(r) PROVE ScopeMerged'
  BY <1>7 DEF Fail, Done, ScopeOf
<1>8. ASSUME NEW r \in Requests, Remove(r) PROVE ScopeMerged'
  BY <1>8 DEF Remove, Arrive, locals, ScopeOf
<1>9. ASSUME NEW r \in Requests, SoftDelete(r) PROVE ScopeMerged'
  BY <1>9 DEF SoftDelete, Done, ScopeOf
<1>10. ASSUME NEW x \in OwnRefs, DeleteReference(x) PROVE ScopeMerged'
  BY <1>10 DEF DeleteReference, locals, ScopeOf
<1>11. CASE UNCHANGED vars
  BY <1>11 DEF vars, locals, ScopeOf
<1> QED
  BY <1>1, <1>2, <1>3, <1>4, <1>5, <1>6, <1>7, <1>8, <1>9, <1>10, <1>11 DEF Next

\* A request that arrives while another one is under way sets overlapped.
LEMMA AloneStep == IInv /\ [Next]_vars => OneAtATime'
<1> SUFFICES ASSUME IInv, [Next]_vars PROVE OneAtATime'
  OBVIOUS
<1> USE DEF IInv, TypeOK, OneAtATime
<1>1. ASSUME NEW r \in Requests, NEW p \in Payloads, Create(r, p) PROVE OneAtATime'
  BY <1>1 DEF Create, Arrive
<1>2. ASSUME NEW r \in Requests, NEW p \in Payloads, Update(r, p) PROVE OneAtATime'
  BY <1>2 DEF Update, Arrive
<1>3. ASSUME NEW r \in Requests, Merge(r) PROVE OneAtATime'
  BY <1>3 DEF Merge, Done
<1>4. ASSUME NEW r \in Requests, Check(r) PROVE OneAtATime'
  BY <1>4 DEF Check, Done, locals
<1>5. ASSUME NEW r \in Requests, Insert(r) PROVE OneAtATime'
  BY <1>5 DEF Insert, Done
<1>6. ASSUME NEW r \in Requests, Write(r) PROVE OneAtATime'
  BY <1>6 DEF Write, Done
<1>7. ASSUME NEW r \in Requests, Fail(r) PROVE OneAtATime'
  BY <1>7 DEF Fail, Done
<1>8. ASSUME NEW r \in Requests, Remove(r) PROVE OneAtATime'
  BY <1>8 DEF Remove, Arrive, locals
<1>9. ASSUME NEW r \in Requests, SoftDelete(r) PROVE OneAtATime'
  BY <1>9 DEF SoftDelete, Done
<1>10. ASSUME NEW x \in OwnRefs, DeleteReference(x) PROVE OneAtATime'
  BY <1>10 DEF DeleteReference, locals
<1>11. CASE UNCHANGED vars
  BY <1>11 DEF vars, locals
<1> QED
  BY <1>1, <1>2, <1>3, <1>4, <1>5, <1>6, <1>7, <1>8, <1>9, <1>10, <1>11 DEF Next

\* Only a write changes the row, and it ends the only request there is.
LEMMA SeenStep == IInv /\ [Next]_vars => SeenIsRow'
<1> SUFFICES ASSUME IInv, [Next]_vars PROVE SeenIsRow'
  OBVIOUS
<1> USE DEF IInv, TypeOK, SeenIsRow, OneAtATime
<1>1. ASSUME NEW r \in Requests, NEW p \in Payloads, Create(r, p) PROVE SeenIsRow'
  BY <1>1 DEF Create, Arrive
<1>2. ASSUME NEW r \in Requests, NEW p \in Payloads, Update(r, p) PROVE SeenIsRow'
  BY <1>2 DEF Update, Arrive
<1>3. ASSUME NEW r \in Requests, Merge(r) PROVE SeenIsRow'
  BY <1>3 DEF Merge, Done
<1>4. ASSUME NEW r \in Requests, Check(r) PROVE SeenIsRow'
  BY <1>4 DEF Check, Done, locals
<1>5. ASSUME NEW r \in Requests, Insert(r) PROVE SeenIsRow'
  BY <1>5 DEF Insert, Done
<1>6. ASSUME NEW r \in Requests, Write(r) PROVE SeenIsRow'
  BY <1>6 DEF Write, Done
<1>7. ASSUME NEW r \in Requests, Fail(r) PROVE SeenIsRow'
  BY <1>7 DEF Fail, Done
<1>8. ASSUME NEW r \in Requests, Remove(r) PROVE SeenIsRow'
  BY <1>8 DEF Remove, Arrive, locals
<1>9. ASSUME NEW r \in Requests, SoftDelete(r) PROVE SeenIsRow'
  BY <1>9 DEF SoftDelete, Done
<1>10. ASSUME NEW x \in OwnRefs, DeleteReference(x) PROVE SeenIsRow'
  BY <1>10 DEF DeleteReference, locals
<1>11. CASE UNCHANGED vars
  BY <1>11 DEF vars, locals
<1> QED
  BY <1>1, <1>2, <1>3, <1>4, <1>5, <1>6, <1>7, <1>8, <1>9, <1>10, <1>11 DEF Next

\* What merging an accepted request into a row leaves in the scope columns.
LEMMA WrittenScope ==
    ASSUME IInv, NEW d \in Rows, NEW r \in Requests, pc[r] \in {"checking", "writing"}
    PROVE  /\ \A s \in Scopes : Merged(d, data[r])[s] # NoRef <=> s = ScopeOf(r)
           /\ \A s \in Scopes : Merged(d, data[r])[s] \in OwnRefs \cup {NoRef}
<1>1. data[r] \in Bodies
  BY DEF IInv, TypeOK
<1>2. /\ data[r][ScopeOf(r)] \in OwnRefs
      /\ \A s \in Scopes \ {ScopeOf(r)} : data[r][s] = NoRef
  BY DEF IInv, ScopeMerged
<1>3. \A s \in Scopes : data[r][s] \in OwnRefs \cup {NoRef} /\ data[r][s] # Undefined
  BY <1>2, DiscountAssumption DEF RefColumn, Refs
<1>4. \A s \in Scopes : Merged(d, data[r])[s] = data[r][s]
  BY <1>1, <1>3, MergedValues
<1> QED
  BY <1>2, <1>3, <1>4, DiscountAssumption DEF Refs

\* A write sets the three scope columns together, to one reference.
LEMMA OneReferenceStep == IInv /\ [Next]_vars => AtMostOneReference'
<1> SUFFICES ASSUME IInv, [Next]_vars PROVE AtMostOneReference'
  OBVIOUS
<1> USE DEF IInv, TypeOK, AtMostOneReference
<1>1. ASSUME NEW r \in Requests, NEW p \in Payloads, Create(r, p) PROVE AtMostOneReference'
  BY <1>1 DEF Create, Arrive
<1>2. ASSUME NEW r \in Requests, NEW p \in Payloads, Update(r, p) PROVE AtMostOneReference'
  BY <1>2 DEF Update, Arrive
<1>3. ASSUME NEW r \in Requests, Merge(r) PROVE AtMostOneReference'
  BY <1>3 DEF Merge
<1>4. ASSUME NEW r \in Requests, Check(r) PROVE AtMostOneReference'
  BY <1>4 DEF Check
<1>5. ASSUME NEW r \in Requests, Insert(r) PROVE AtMostOneReference'
  <2>1. CASE state = "absent"
    BY <1>5, <2>1, WrittenScope, BlankType DEF Insert
  <2> QED
    BY <1>5, <2>1 DEF Insert
<1>6. ASSUME NEW r \in Requests, Write(r) PROVE AtMostOneReference'
  BY <1>6, WrittenScope DEF Write
<1>7. ASSUME NEW r \in Requests, Fail(r) PROVE AtMostOneReference'
  BY <1>7 DEF Fail
<1>8. ASSUME NEW r \in Requests, Remove(r) PROVE AtMostOneReference'
  BY <1>8 DEF Remove, Arrive
<1>9. ASSUME NEW r \in Requests, SoftDelete(r) PROVE AtMostOneReference'
  BY <1>9 DEF SoftDelete
<1>10. ASSUME NEW x \in OwnRefs, DeleteReference(x) PROVE AtMostOneReference'
  BY <1>10 DEF DeleteReference
<1>11. CASE UNCHANGED vars
  BY <1>11 DEF vars, locals
<1> QED
  BY <1>1, <1>2, <1>3, <1>4, <1>5, <1>6, <1>7, <1>8, <1>9, <1>10, <1>11 DEF Next

\* ... and that reference is the company's own.
LEMMA OwnStep == IInv /\ [Next]_vars => ReferencesAreOwn'
<1> SUFFICES ASSUME IInv, [Next]_vars PROVE ReferencesAreOwn'
  OBVIOUS
<1> USE DEF IInv, TypeOK, ReferencesAreOwn
<1>1. ASSUME NEW r \in Requests, NEW p \in Payloads, Create(r, p) PROVE ReferencesAreOwn'
  BY <1>1 DEF Create, Arrive
<1>2. ASSUME NEW r \in Requests, NEW p \in Payloads, Update(r, p) PROVE ReferencesAreOwn'
  BY <1>2 DEF Update, Arrive
<1>3. ASSUME NEW r \in Requests, Merge(r) PROVE ReferencesAreOwn'
  BY <1>3 DEF Merge
<1>4. ASSUME NEW r \in Requests, Check(r) PROVE ReferencesAreOwn'
  BY <1>4 DEF Check
<1>5. ASSUME NEW r \in Requests, Insert(r) PROVE ReferencesAreOwn'
  <2>1. CASE state = "absent"
    BY <1>5, <2>1, WrittenScope, BlankType DEF Insert
  <2> QED
    BY <1>5, <2>1 DEF Insert
<1>6. ASSUME NEW r \in Requests, Write(r) PROVE ReferencesAreOwn'
  BY <1>6, WrittenScope DEF Write
<1>7. ASSUME NEW r \in Requests, Fail(r) PROVE ReferencesAreOwn'
  BY <1>7 DEF Fail
<1>8. ASSUME NEW r \in Requests, Remove(r) PROVE ReferencesAreOwn'
  BY <1>8 DEF Remove, Arrive
<1>9. ASSUME NEW r \in Requests, SoftDelete(r) PROVE ReferencesAreOwn'
  BY <1>9 DEF SoftDelete
<1>10. ASSUME NEW x \in OwnRefs, DeleteReference(x) PROVE ReferencesAreOwn'
  BY <1>10 DEF DeleteReference
<1>11. CASE UNCHANGED vars
  BY <1>11 DEF vars, locals
<1> QED
  BY <1>1, <1>2, <1>3, <1>4, <1>5, <1>6, <1>7, <1>8, <1>9, <1>10, <1>11 DEF Next

\* The scope a lone request has merged is the one the row ends up with.
LEMMA MatchesStep == IInv /\ [Next]_vars => ScopeMatches'
<1> SUFFICES ASSUME IInv, [Next]_vars PROVE ScopeMatches'
  OBVIOUS
<1> USE DEF IInv, TypeOK, ScopeMatches
<1>1. ASSUME NEW r \in Requests, NEW p \in Payloads, Create(r, p) PROVE ScopeMatches'
  BY <1>1 DEF Create, Arrive
<1>2. ASSUME NEW r \in Requests, NEW p \in Payloads, Update(r, p) PROVE ScopeMatches'
  BY <1>2 DEF Update, Arrive
<1>3. ASSUME NEW r \in Requests, Merge(r) PROVE ScopeMatches'
  BY <1>3 DEF Merge
<1>4. ASSUME NEW r \in Requests, Check(r) PROVE ScopeMatches'
  BY <1>4 DEF Check
<1>5. ASSUME NEW r \in Requests, Insert(r) PROVE ScopeMatches'
  <2>1. CASE state = "absent"
    <3>1. ScopeOf(r) = data[r].appliesTo /\ Merged(Blank, data[r]).appliesTo = data[r].appliesTo
      BY <1>5, MergedValues, BlankType DEF Insert, ScopeOf, CreatesNameTheirScope
    <3>2. \A s \in Scopes : Merged(Blank, data[r])[s] # NoRef <=> s = ScopeOf(r)
      BY <1>5, WrittenScope, BlankType DEF Insert
    <3> QED
      BY <1>5, <2>1, <3>1, <3>2 DEF Insert
  <2> QED
    BY <1>5, <2>1 DEF Insert
<1>6. ASSUME NEW r \in Requests, Write(r) PROVE ScopeMatches'
  <2> SUFFICES ASSUME ~overlapped PROVE ScopeMatches'
    BY <1>6 DEF Write
  <2>1. seen[r] = ScopeState(row)
    BY <1>6 DEF Write, SeenIsRow
  <2>2. Merged(row, data[r]).appliesTo = ScopeOf(r)
    BY <2>1, ScopeStateValues, MergedValues DEF ScopeOf
  <2>3. \A s \in Scopes : Merged(row, data[r])[s] # NoRef <=> s = ScopeOf(r)
    BY <1>6, WrittenScope DEF Write
  <2> QED
    BY <1>6, <2>2, <2>3 DEF Write
<1>7. ASSUME NEW r \in Requests, Fail(r) PROVE ScopeMatches'
  BY <1>7 DEF Fail
<1>8. ASSUME NEW r \in Requests, Remove(r) PROVE ScopeMatches'
  BY <1>8 DEF Remove, Arrive
<1>9. ASSUME NEW r \in Requests, SoftDelete(r) PROVE ScopeMatches'
  BY <1>9 DEF SoftDelete, RemovesWhatIsThere
<1>10. ASSUME NEW x \in OwnRefs, DeleteReference(x) PROVE ScopeMatches'
  BY <1>10 DEF DeleteReference
<1>11. CASE UNCHANGED vars
  BY <1>11 DEF vars, locals
<1> QED
  BY <1>1, <1>2, <1>3, <1>4, <1>5, <1>6, <1>7, <1>8, <1>9, <1>10, <1>11 DEF Next

\* No step leaves the invariant.
LEMMA StepHolds == IInv /\ [Next]_vars => IInv'
  BY TypeStep, RemovesStep, CreatesStep, MergedStep, AloneStep, SeenStep, OneReferenceStep, OwnStep,
     MatchesStep DEF IInv
----------------------------------------------------------------------------
(* What holds of every behaviour.                                           *)

\* The invariant holds in every state, whatever is sent and overlaps.
THEOREM Invariance == Spec => []IInv
  BY InitHolds, StepHolds, PTL DEF Spec

\* Every variable keeps its type: a partial update never writes a missing field.
THEOREM TypeCorrect == Spec => []TypeOK
<1>1. IInv => TypeOK
  BY DEF IInv
<1> QED
  BY <1>1, Invariance, PTL

\* One discount refers to one thing at most, whatever updates overlap.
THEOREM AtMostOneReferenceAlways == Spec => []AtMostOneReference
<1>1. IInv => AtMostOneReference
  BY DEF IInv
<1> QED
  BY <1>1, Invariance, PTL

\* A discount never refers to another company's rows, whatever updates overlap.
THEOREM ReferencesAreOwnAlways == Spec => []ReferencesAreOwn
<1>1. IInv => ReferencesAreOwn
  BY DEF IInv
<1> QED
  BY <1>1, Invariance, PTL

\* Requests that do not overlap keep exactly the column of the scope set.
THEOREM ScopeMatchesAlways == Spec => []ScopeMatches
<1>1. IInv => ScopeMatches
  BY DEF IInv
<1> QED
  BY <1>1, Invariance, PTL

\* A row of the right type never raises a price and never makes it negative,
\* a percentage above one hundred included.
THEOREM StoredDiscountOnlyLowersAlways == Spec => []StoredDiscountOnlyLowers
<1>1. IInv => StoredDiscountOnlyLowers
  <2>1. IInv => row.value \in Nat
    BY DEF IInv, TypeOK, Rows
  <2> QED
    BY <2>1 DEF StoredDiscountOnlyLowers, ApplyDiscount, AtLeastFloor, RoundRatio, Floor
<1> QED
  BY <1>1, Invariance, PTL
=============================================================================

------------------------ MODULE CatalogAccessProofs ------------------------
(***************************************************************************)
(* What is proved of CatalogAccess, for any companies, users, lists and    *)
(* any number of requests.                                                 *)
(*                                                                         *)
(* The invariant says of each request, by the statement it has come to,    *)
(* what it has found out; a request that does not take a step keeps it,    *)
(* because what was held stays held and what is deleted stays deleted.     *)
(***************************************************************************)
EXTENDS CatalogAccess, TLAPS

OfList == {"marketplaces", "catalog", "export"}
AfterSeeing == {"markets", "market", "relation", "prices", "answer"}
Reading == AfterSeeing \cup {"listing", "visible"}
Arrived == Reading \cup {"permissions"}

\* The kind of a request fits the statement it has come to, and has its arguments.
Fits(r) ==
    /\ pc[r] = "listing" => req[r].kind = "priceLists"
    /\ pc[r] = "visible" => req[r].kind \in OfList
    /\ pc[r] = "markets" => req[r].kind = "marketplaces"
    /\ pc[r] \in {"market", "prices"} => req[r].kind = "catalog"
    /\ pc[r] = "relation" => req[r].kind \in {"catalog", "export"}
    /\ pc[r] \in Arrived => req[r].kind \in Reads /\ req[r].user \in Users
    /\ pc[r] \in Arrived /\ req[r].kind \in OfList => req[r].list \in Lists
    /\ pc[r] \in Arrived /\ req[r].kind \in {"catalog", "export"} => req[r].item \in Markets
    /\ pc[r] \in {"checkLists", "grant"} => req[r].user \in Users /\ req[r].ids \subseteq Lists
    /\ pc[r] \in {"checkMarkets", "relate"} => req[r].list \in Lists /\ req[r].ids \subseteq Markets
    /\ pc[r] \in {"write", "remove"} => req[r].item \in Items

\* What a read has found true was true since it arrived.
Known(r) ==
    /\ pc[r] \in Arrived => {"active", "holder"} \subseteq held[r]
    /\ pc[r] \in Reading => "permitted" \in held[r]
    /\ pc[r] = "visible" /\ req[r].all /\ Exists(req[r].list, req[r].tenant)
           => "visible" \in held[r]
    /\ pc[r] \in AfterSeeing /\ req[r].kind \in OfList => "visible" \in held[r]
    /\ pc[r] \in {"relation", "prices", "answer"} /\ req[r].kind = "catalog"
           => "onSale" \in held[r]
    /\ pc[r] \in {"prices", "answer"} /\ req[r].kind \in {"catalog", "export"}
           => "carried" \in held[r]

\* A list that was seen is the company's, and so is what is answered.
Own(r) ==
    /\ pc[r] \in Reading => req[r].tenant \in TenantsFor(req[r].user, req[r].role)
    /\ pc[r] \in AfterSeeing /\ req[r].kind \in OfList => TenantOf[req[r].list] = req[r].tenant
    /\ pc[r] = "answer" => \A i \in answer[r] : TenantOf[i] = req[r].tenant

Fine(r) == Fits(r) /\ Known(r) /\ Own(r)

IInv == TypeOK /\ \A r \in Requests : Fine(r)

\* What a step leaves a request that does not take it.
Same(q) ==
    /\ pc'[q] = pc[q] /\ req'[q] = req[q] /\ answer'[q] = answer[q]
    /\ pc[q] # "idle" => held[q] \subseteq held'[q]

NoneReturns == \A i \in Items : rows[i].deleted => rows'[i].deleted

LEMMA InitInv == Init => IInv
  BY CatalogAssumption
  DEF Init, IInv, TypeOK, Fine, Fits, Known, Own, Reading, AfterSeeing, Arrived,
     OfList, NoRequest, Arguments, Reads, Writes, PCs, Row, UserStatuses, FactNames,
     Permissions

\* A request that does not take the step keeps what it knows.
LEMMA Bystander ==
  ASSUME TypeOK, NEW q \in Requests, Fine(q), Same(q), NoneReturns
  PROVE  Fine(q)'
<1> USE DEF OfList, AfterSeeing, Reading, Arrived, Same
<1>1. Fits(q)'
  BY DEF Fine, Fits
<1>2. Known(q)'
  <2>1. pc[q] = "visible" => req[q].list \in Lists
    BY DEF Fine, Fits
  <2>2. pc[q] = "visible" /\ Exists(req[q].list, req[q].tenant)'
            => Exists(req[q].list, req[q].tenant)
    BY <2>1 DEF NoneReturns, Exists, Items
  <2> QED
    BY <2>2 DEF Fine, Known, Exists
<1>3. Own(q)'
  BY DEF Fine, Own
<1> QED
  BY <1>1, <1>2, <1>3 DEF Fine

\* A step of one request, or of none.
LEMMA Others ==
  ASSUME TypeOK, Remember, NEW q \in Requests, pc'[q] = pc[q], req'[q] = req[q],
         answer'[q] = answer[q]
  PROVE  Same(q)
  BY DEF Same, Remember, TypeOK

LEMMA Remembers ==
  ASSUME Remember, NEW r \in Requests, pc'[r] # "idle"
  PROVE  held[r] \subseteq held'[r] /\ Facts(r)' \subseteq held'[r]
  BY DEF Remember

-----------------------------------------------------------------------------
(* Types.                                                                    *)

LEMMA HeldType == ASSUME TypeOK, pc' \in [Requests -> PCs], Remember
                  PROVE  held' \in [Requests -> SUBSET FactNames]
<1>1. \A r \in Requests : Facts(r)' \subseteq FactNames
  BY DEF Facts
<1> QED
  BY <1>1 DEF Remember, TypeOK

\* The arrival of a request.
LEMMA BeginType ==
  ASSUME TypeOK, NEW r \in Requests, NEW c, NEW first \in PCs, Begin(r, c, first),
         c \in Arguments,
         UNCHANGED world, Remember
  PROVE  TypeOK'
<1>1. pc' \in [Requests -> PCs]
  BY DEF TypeOK, Begin
<1> QED
  BY <1>1, HeldType DEF TypeOK, Begin, world

\* What Go, Found and Done make of the request.
LEMMA AdvanceType ==
  ASSUME TypeOK, NEW r \in Requests, Remember,
         \/ \E next \in PCs : Go(r, next)
         \/ \E what \in SUBSET Items : Found(r, what)
         \/ Done(r)
  PROVE  /\ pc' \in [Requests -> PCs] /\ req' \in [Requests -> Arguments]
         /\ answer' \in [Requests -> SUBSET Items]
         /\ held' \in [Requests -> SUBSET FactNames]
<1>1. NoRequest \in Arguments
  BY DEF NoRequest, Reads, Arguments
<1>2. pc' \in [Requests -> PCs]
  BY DEF TypeOK, Go, Found, Done, PCs
<1>3. answer' \in [Requests -> SUBSET Items]
  BY DEF TypeOK, Go, Found, Done
<1>4. UNCHANGED req \/ req' = [req EXCEPT ![r] = NoRequest]
  BY DEF Go, Found, Done
<1> QED
  BY <1>1, <1>2, <1>3, <1>4, HeldType DEF TypeOK

-----------------------------------------------------------------------------
(* Steps.                                                                    *)

\* It is enough to look at the request that takes the step.
LEMMA OneMoves ==
  ASSUME IInv, TypeOK', NoneReturns, Remember, NEW r \in Requests, Fine(r)',
         \A q \in Requests : q # r =>
             pc'[q] = pc[q] /\ req'[q] = req[q] /\ answer'[q] = answer[q]
  PROVE  IInv'
<1>1. ASSUME NEW q \in Requests, q # r PROVE Fine(q)'
  <2>1. Same(q)
    BY <1>1, Others DEF IInv
  <2> QED
    BY <2>1, Bystander DEF IInv
<1> QED
  BY <1>1 DEF IInv

\* A request ends, with or without an answer.
LEMMA DoneStep ==
  ASSUME IInv, NEW r \in Requests, Done(r), UNCHANGED world, Remember
  PROVE  IInv'
<1>1. TypeOK'
  BY AdvanceType DEF IInv, TypeOK, world
<1>2. pc'[r] = "idle"
  BY DEF Done, IInv, TypeOK
<1>3. Fine(r)'
  BY <1>2 DEF Fine, Fits, Known, Own, Reading, AfterSeeing, Arrived
<1>4. NoneReturns
  BY DEF NoneReturns, world
<1> QED
  BY <1>1, <1>3, <1>4, OneMoves DEF Done, IInv, TypeOK

\* A read arrives: its user is active and has the role that was found.
LEMMA ReadStep ==
  ASSUME IInv, NEW r \in Requests, NEW k \in Reads, NEW u \in Users, NEW t \in Tenants,
         NEW l \in Lists \cup {Nothing}, NEW m \in Markets \cup {Nothing},
         k \in OfList => l \in Lists, k \in {"catalog", "export"} => m \in Markets,
         Read(r, k, u, t, l, m)
  PROVE  IInv'
<1> DEFINE c == [NoRequest EXCEPT !.kind = k, !.user = u, !.tenant = t, !.role = role[u],
                                  !.list = l, !.item = m]
<1>1. /\ c \in Arguments
      /\ c.kind = k /\ c.user = u /\ c.role = role[u] /\ c.list = l /\ c.item = m
  BY DEF NoRequest, Arguments, Items, IInv, TypeOK
<1>2. /\ Begin(r, c, "permissions") /\ UNCHANGED world /\ Remember
      /\ users[u] = "active"
  BY DEF Read
<1>3. TypeOK'
  BY <1>1, <1>2, BeginType DEF IInv, PCs
<1>4. /\ pc'[r] = "permissions" /\ req'[r] = c
      /\ \A q \in Requests : q # r =>
             pc'[q] = pc[q] /\ req'[q] = req[q] /\ answer'[q] = answer[q]
  BY <1>2 DEF Begin, IInv, TypeOK
<1>5. Fits(r)'
  BY <1>1, <1>4 DEF Fits, Reading, AfterSeeing, Arrived
<1>6. Known(r)'
  <2>1. Facts(r)' \subseteq held'[r]
    BY <1>2, <1>4, Remembers
  <2>2. {"active", "holder"} \subseteq Facts(r)'
    BY <1>1, <1>2, <1>4 DEF Facts, FactNames, world
  <2> QED
    BY <1>4, <2>1, <2>2 DEF Known, AfterSeeing, Reading, Arrived
<1>7. Own(r)'
  BY <1>4 DEF Own, AfterSeeing, Reading, Arrived
<1>8. NoneReturns
  BY <1>2 DEF NoneReturns, world
<1> QED
  BY <1>2, <1>3, <1>4, <1>5, <1>6, <1>7, <1>8, OneMoves DEF Fine

\* Its permission is found, and what it may see all of is seen.
LEMMA PermissionStep ==
  ASSUME IInv, NEW r \in Requests, FindPermissions(r)
  PROVE  IInv'
<1> DEFINE c == req[r]
<1>1. UNCHANGED world /\ Remember /\ pc[r] = "permissions"
  BY DEF FindPermissions
<1>2. CASE Done(r)
  BY <1>1, <1>2, DoneStep
<1>3. CASE ~Done(r)
  <2> DEFINE all == CanReadAll(c.role)
             next == IF c.kind = "priceLists" THEN "listing" ELSE "visible"
  <2>1. /\ c.tenant \in TenantsFor(c.user, c.role) /\ Permitted(c.role, c.kind)
        /\ req' = [req EXCEPT ![r].all = all] /\ pc' = [pc EXCEPT ![r] = next]
        /\ UNCHANGED answer
    BY <1>3 DEF FindPermissions
  <2>2. all \in BOOLEAN /\ next \in PCs
    BY DEF CanReadAll, PCs
  <2>3. req' \in [Requests -> Arguments] /\ pc' \in [Requests -> PCs]
    <3>1. \A d \in Arguments : [d EXCEPT !.all = all] \in Arguments
      BY <2>2 DEF Arguments
    <3>2. req \in [Requests -> Arguments] /\ pc \in [Requests -> PCs]
      BY DEF IInv, TypeOK
    <3> HIDE DEF all, next
    <3> QED
      BY <2>1, <2>2, <3>1, <3>2
  <2>4. TypeOK'
    BY <1>1, <2>1, <2>3, HeldType DEF IInv, TypeOK, world
  <2>5. /\ pc'[r] = next /\ req'[r].all = all
        /\ req'[r].kind = c.kind /\ req'[r].user = c.user /\ req'[r].tenant = c.tenant
        /\ req'[r].role = c.role /\ req'[r].list = c.list /\ req'[r].item = c.item
        /\ \A q \in Requests : q # r =>
               pc'[q] = pc[q] /\ req'[q] = req[q] /\ answer'[q] = answer[q]
    BY <2>1 DEF IInv, TypeOK, Arguments
  <2>6. Fits(r)'
    BY <1>1, <2>5 DEF IInv, Fine, Fits, Arrived, Reading, AfterSeeing, Arrived, Reads, OfList
  <2>7. Known(r)'
    <3>1. Facts(r)' \subseteq held'[r] /\ held[r] \subseteq held'[r]
      BY <1>1, <2>2, <2>5, Remembers
    <3>2. c.kind \in Reads /\ (c.kind # "priceLists" => c.list \in Lists)
      BY <1>1 DEF IInv, Fine, Fits, Arrived, Reads, OfList
    <3>3. "permitted" \in Facts(r)'
      BY <1>1, <2>1, <2>5, <3>2 DEF Facts, FactNames, Permitted, Needed, world
    <3>4. c.kind # "priceLists" /\ all /\ Exists(c.list, c.tenant)' => "visible" \in Facts(r)'
      BY <1>1, <2>5, <3>2, CatalogAssumption DEF Facts, FactNames, CanReadAll, Items, world
    <3>5. {"active", "holder"} \subseteq held[r]
      BY <1>1 DEF IInv, Fine, Known, Arrived
    <3> HIDE DEF all
    <3> QED
      BY <2>5, <3>1, <3>3, <3>4, <3>5 DEF Known, AfterSeeing, Exists, OfList
  <2>8. Own(r)'
    BY <1>1, <2>1, <2>5 DEF Own, AfterSeeing, TenantsFor
  <2>9. NoneReturns
    BY <1>1 DEF NoneReturns, world
  <2> QED
    BY <1>1, <2>4, <2>5, <2>6, <2>7, <2>8, <2>9, OneMoves DEF Fine
<1> QED
  BY <1>2, <1>3

\* The statements of a read after its arrival.  The facts are those after the step,
\* when nothing has changed but the request itself.
LEMMA StatementStep ==
  ASSUME IInv, NEW r \in Requests,
         \/ VisiblePriceLists(r) \/ AssertVisible(r) \/ FindMarketplaces(r)
         \/ FindMarketplace(r) \/ FindRelation(r) \/ FindPrices(r) \/ Respond(r)
  PROVE  IInv'
<1> DEFINE c == req[r]
<1> USE DEF IInv
<1>1. /\ UNCHANGED world /\ Remember
      /\ \/ Done(r)
         \/ (\E next \in PCs : Go(r, next)) \/ (\E what \in SUBSET Items : Found(r, what))
  <2>1. CASE VisiblePriceLists(r)
    <3>1. Listed(c.user, c.tenant, c.all) \in SUBSET Items
      BY DEF Listed, Items
    <3> QED
      BY <2>1, <3>1 DEF VisiblePriceLists
  <2>2. CASE AssertVisible(r)
    <3>1. AfterVisible(c.kind) \in PCs
      BY <2>2 DEF AssertVisible, AfterVisible, PCs, Fine, Fits, OfList
    <3> QED
      BY <2>2, <3>1 DEF AssertVisible
  <2>3. CASE FindMarketplaces(r)
    <3>1. {m \in Markets : <<c.list, m>> \in carried /\ Served(m, c.tenant)} \in SUBSET Items
      BY DEF Items
    <3> QED
      BY <2>3, <3>1 DEF FindMarketplaces
  <2>4. CASE FindMarketplace(r)
    BY <2>4 DEF FindMarketplace, PCs
  <2>5. CASE FindRelation(r)
    <3>1. {c.list} \in SUBSET Items
      BY <2>5 DEF FindRelation, Items, Fine, Fits, Reading, AfterSeeing, Arrived, OfList
    <3> QED
      BY <2>5, <3>1 DEF FindRelation, PCs
  <2>6. CASE FindPrices(r)
    <3>1. {c.list} \in SUBSET Items
      BY <2>6 DEF FindPrices, Items, Fine, Fits, Reading, AfterSeeing, Arrived, OfList
    <3> QED
      BY <2>6, <3>1 DEF FindPrices
  <2>7. CASE Respond(r)
    BY <2>7 DEF Respond
  <2> QED
    BY <2>1, <2>2, <2>3, <2>4, <2>5, <2>6, <2>7
<1>2. CASE Done(r)
  BY <1>1, <1>2, DoneStep
<1>3. CASE ~Done(r)
  <2>1. TypeOK'
    BY <1>1, AdvanceType DEF TypeOK, world
  <2>2. /\ req' = req /\ pc'[r] # "idle"
        /\ \A q \in Requests : q # r => pc'[q] = pc[q] /\ answer'[q] = answer[q]
    BY <1>3 DEF VisiblePriceLists, AssertVisible, FindMarketplaces, FindMarketplace,
       FindRelation, FindPrices, Respond, Go, Found, AfterVisible, TypeOK, Fine, Fits, OfList
  <2>3. held[r] \subseteq held'[r] /\ Facts(r)' \subseteq held'[r] /\ Facts(r)' = Facts(r)
    BY <1>1, <2>2, Remembers DEF Facts, world, CanReadAll, Permitted, Needed, Exists, Served
  <2>4. NoneReturns
    BY <1>1 DEF NoneReturns, world
  <2>5. Fine(r)'
    <3> USE DEF Fine, Fits, Known, Own, Reading, AfterSeeing, Arrived, OfList, TypeOK
    <3>1. CASE VisiblePriceLists(r)
      BY <2>2, <2>3, <3>1 DEF VisiblePriceLists, Found, Listed, Served, Exists, Reads
    <3>2. CASE AssertVisible(r)
      <4>1. /\ CanSee(c.user, c.tenant, c.all, c.list) /\ pc[r] = "visible"
            /\ pc'[r] = AfterVisible(c.kind) /\ c.kind \in OfList
        BY <1>3, <3>2 DEF AssertVisible, Go
      <4>2. Exists(c.list, c.tenant)
        BY <4>1 DEF CanSee, Served
      <4>3. c.all \/ "visible" \in Facts(r)
        BY <4>1, <4>2, CatalogAssumption DEF CanSee, Facts, FactNames, Items, Reads
      <4>4. "visible" \in held'[r]
        BY <2>3, <4>1, <4>2, <4>3
      <4> QED
        BY <2>2, <2>3, <4>1, <4>2, <4>4 DEF AfterVisible, Exists
    <3>3. CASE FindMarketplaces(r)
      BY <2>2, <2>3, <3>3 DEF FindMarketplaces, Found, Served, Exists, Reads
    <3>4. CASE FindMarketplace(r)
      <4>1. Served(c.item, c.tenant) /\ pc[r] = "market" /\ pc'[r] = "relation"
        BY <1>3, <3>4 DEF FindMarketplace, Go
      <4>2. "onSale" \in Facts(r)
        BY <4>1, CatalogAssumption DEF Facts, FactNames, Items, Reads
      <4> QED
        BY <2>2, <2>3, <4>1, <4>2
    <3>5. CASE FindRelation(r)
      <4>1. /\ <<c.list, c.item>> \in carried /\ pc[r] = "relation"
            /\ pc'[r] = IF c.kind = "catalog" THEN "prices" ELSE "answer"
            /\ c.kind # "catalog" => answer'[r] = {c.list}
        BY <1>3, <3>5 DEF FindRelation, Go, Found
      <4>2. "carried" \in Facts(r)
        BY <4>1, CatalogAssumption DEF Facts, FactNames, Items, Reads
      <4> QED
        BY <2>2, <2>3, <4>1, <4>2 DEF Reads
    <3>6. CASE FindPrices(r)
      BY <2>2, <2>3, <3>6 DEF FindPrices, Found, Reads
    <3>7. CASE Respond(r)
      BY <1>3, <3>7 DEF Respond
    <3> QED
      BY <3>1, <3>2, <3>3, <3>4, <3>5, <3>6, <3>7
  <2> QED
    BY <1>1, <2>1, <2>2, <2>4, <2>5, OneMoves
<1> QED
  BY <1>2, <1>3

\* An administrator's request arrives.
LEMMA ArriveStep ==
  ASSUME IInv, NEW r \in Requests, NEW c \in Arguments,
         NEW first \in {"checkLists", "checkMarkets", "write", "remove"},
         Begin(r, c, first), UNCHANGED world, Remember,
         first = "checkLists" => c.user \in Users /\ c.ids \subseteq Lists,
         first = "checkMarkets" => c.list \in Lists /\ c.ids \subseteq Markets,
         first \in {"write", "remove"} => c.item \in Items
  PROVE  IInv'
<1>1. TypeOK'
  BY BeginType DEF IInv, PCs
<1>2. /\ pc'[r] = first /\ req'[r] = c
      /\ \A q \in Requests : q # r =>
             pc'[q] = pc[q] /\ req'[q] = req[q] /\ answer'[q] = answer[q]
  BY DEF Begin, IInv, TypeOK
<1>3. Fine(r)'
  BY <1>2 DEF Fine, Fits, Known, Own, Reading, AfterSeeing, Arrived
<1>4. NoneReturns
  BY DEF NoneReturns, world
<1> QED
  BY <1>1, <1>2, <1>3, <1>4, OneMoves

LEMMA WriterArrives ==
  ASSUME IInv, NEW r \in Requests, NEW t \in Tenants,
         \/ \E u \in Users, ids \in SUBSET Lists : Assign(r, t, u, ids)
         \/ \E l \in Lists, ids \in SUBSET Markets : Relate(r, t, l, ids)
         \/ \E i \in Items : Delete(r, t, i) \/ \E s \in {"active", "inactive"} : Update(r, t, i, s)
  PROVE  IInv'
<1> USE DEF NoRequest, Arguments, Reads, Writes, Items
<1>1. ASSUME NEW u \in Users, NEW ids \in SUBSET Lists, Assign(r, t, u, ids) PROVE IInv'
  <2> DEFINE c == [NoRequest EXCEPT !.kind = "assign", !.user = u, !.tenant = t, !.ids = ids]
  <2>1. c \in Arguments /\ c.user = u /\ c.ids = ids
    OBVIOUS
  <2>2. Begin(r, c, "checkLists") /\ UNCHANGED world /\ Remember
    BY <1>1 DEF Assign
  <2> HIDE DEF c
  <2> QED
    BY <2>1, <2>2, ArriveStep
<1>2. ASSUME NEW l \in Lists, NEW ids \in SUBSET Markets, Relate(r, t, l, ids) PROVE IInv'
  <2> DEFINE c == [NoRequest EXCEPT !.kind = "relate", !.tenant = t, !.list = l, !.ids = ids]
  <2>1. c \in Arguments /\ c.list = l /\ c.ids = ids
    OBVIOUS
  <2>2. Begin(r, c, "checkMarkets") /\ UNCHANGED world /\ Remember
    BY <1>2 DEF Relate
  <2> HIDE DEF c
  <2> QED
    BY <2>1, <2>2, ArriveStep
<1>3. ASSUME NEW i \in Items, Delete(r, t, i) PROVE IInv'
  <2> DEFINE c == [NoRequest EXCEPT !.kind = "delete", !.tenant = t, !.item = i]
  <2>1. c \in Arguments /\ c.item = i
    OBVIOUS
  <2>2. Begin(r, c, "remove") /\ UNCHANGED world /\ Remember
    BY <1>3 DEF Delete
  <2> HIDE DEF c
  <2> QED
    BY <2>1, <2>2, ArriveStep
<1>4. ASSUME NEW i \in Items, NEW s \in {"active", "inactive"}, Update(r, t, i, s) PROVE IInv'
  <2> DEFINE c == [NoRequest EXCEPT !.kind = "update", !.tenant = t, !.item = i, !.status = s]
  <2>1. c \in Arguments /\ c.item = i
    OBVIOUS
  <2>2. Begin(r, c, "write") /\ UNCHANGED world /\ Remember
    BY <1>4 DEF Update
  <2> HIDE DEF c
  <2> QED
    BY <2>1, <2>2, ArriveStep
<1> QED
  BY <1>1, <1>2, <1>3, <1>4

\* The check before a replacement.
LEMMA CheckStep ==
  ASSUME IInv, NEW r \in Requests, AssertPriceLists(r) \/ AssertAllExist(r)
  PROVE  IInv'
<1> USE DEF IInv
<1>1. UNCHANGED world /\ Remember
  BY DEF AssertPriceLists, AssertAllExist
<1>2. CASE Done(r)
  BY <1>1, <1>2, DoneStep
<1>3. CASE ~Done(r)
  <2>1. \E next \in PCs : Go(r, next)
    BY <1>3 DEF AssertPriceLists, AssertAllExist, PCs
  <2>2. TypeOK'
    BY <1>1, <2>1, AdvanceType DEF TypeOK, world
  <2>3. /\ req' = req /\ answer' = answer
        /\ \A q \in Requests : q # r => pc'[q] = pc[q]
        /\ \/ pc[r] = "checkLists" /\ pc'[r] = "grant"
           \/ pc[r] = "checkMarkets" /\ pc'[r] = "relate"
    BY <1>3 DEF AssertPriceLists, AssertAllExist, Go, TypeOK
  <2>4. Fine(r)'
    BY <2>3 DEF Fine, Fits, Known, Own, Reading, AfterSeeing, Arrived
  <2>5. NoneReturns
    BY <1>1 DEF NoneReturns, world
  <2> QED
    BY <1>1, <2>2, <2>3, <2>4, <2>5, OneMoves
<1> QED
  BY <1>2, <1>3

\* The writes: the request ends, and the world changes within its type.
LEMMA WriteStep ==
  ASSUME IInv, NEW r \in Requests,
         ReplaceAccess(r) \/ ReplaceMarketplaces(r) \/ Write(r) \/ SoftDelete(r)
  PROVE  IInv' /\ NoneReturns
<1> USE DEF IInv
<1>1. Done(r) /\ Remember /\ UNCHANGED <<users, role, grants>>
  BY DEF ReplaceAccess, ReplaceMarketplaces, Write, SoftDelete
<1>2. /\ rows' \in [Items -> Row] /\ granted' \subseteq Users \X Lists
      /\ carried' \subseteq Lists \X Markets /\ NoneReturns
  <2>1. CASE ReplaceAccess(r)
    <3>1. req[r].user \in Users /\ req[r].ids \subseteq Lists
      BY <2>1 DEF ReplaceAccess, Fine, Fits
    <3> QED
      BY <2>1, <3>1 DEF ReplaceAccess, Replaced, TypeOK, NoneReturns
  <2>2. CASE ReplaceMarketplaces(r)
    <3>1. req[r].list \in Lists /\ req[r].ids \subseteq Markets
      BY <2>2 DEF ReplaceMarketplaces, Fine, Fits
    <3> QED
      BY <2>2, <3>1 DEF ReplaceMarketplaces, Replaced, TypeOK, NoneReturns
  <2>3. CASE Write(r)
    <3>1. req[r].status \in {"active", "inactive"}
      BY DEF TypeOK, Arguments
    <3> QED
      BY <2>3, <3>1 DEF Write, Updated, Row, TypeOK, NoneReturns
  <2>4. CASE SoftDelete(r)
    BY <2>4 DEF SoftDelete, Removed, Row, TypeOK, NoneReturns
  <2> QED
    BY <2>1, <2>2, <2>3, <2>4
<1>3. TypeOK'
  BY <1>1, <1>2, AdvanceType DEF TypeOK
<1>4. Fine(r)'
  BY <1>1 DEF Done, TypeOK, Fine, Fits, Known, Own, Reading, AfterSeeing, Arrived
<1>5. \A q \in Requests : q # r =>
          pc'[q] = pc[q] /\ req'[q] = req[q] /\ answer'[q] = answer[q]
  BY <1>1 DEF Done, TypeOK
<1> QED
  BY <1>1, <1>2, <1>3, <1>4, <1>5, OneMoves

\* A user or a role changes: no request takes the step.
LEMMA UserStep ==
  ASSUME IInv,
         \/ \E u \in Users : \/ \E g \in Roles : ChangeRole(u, g)
                            \/ \E s \in UserStatuses : ChangeUser(u, s)
         \/ \E g \in Roles, permissions \in Grants : AssignPermissions(g, permissions)
  PROVE  IInv' /\ UNCHANGED rows
<1> USE DEF IInv
<1>1. UNCHANGED <<rows, granted, carried, pc, req, answer>> /\ Remember
  BY DEF ChangeRole, ChangeUser, AssignPermissions
<1>2. /\ users' \in [Users -> UserStatuses] /\ role' \in [Users -> Roles]
      /\ grants' \in [Roles -> Grants]
  BY DEF ChangeRole, ChangeUser, AssignPermissions, TypeOK
<1>3. TypeOK'
  BY <1>1, <1>2, HeldType DEF TypeOK
<1>4. NoneReturns
  BY <1>1 DEF NoneReturns
<1>5. ASSUME NEW q \in Requests PROVE Fine(q)'
  <2>1. Same(q)
    BY <1>1, Others
  <2> QED
    BY <1>4, <2>1, Bystander
<1> QED
  BY <1>1, <1>3, <1>5

LEMMA NextStep == IInv /\ [Next]_vars => IInv' /\ NoneReturns
<1> SUFFICES ASSUME IInv, [Next]_vars PROVE IInv' /\ NoneReturns
  OBVIOUS
<1>1. ASSUME NEW r \in Requests, NEW u \in Users, NEW t \in Tenants,
             ReadPriceLists(r, u, t)
      PROVE  IInv' /\ UNCHANGED rows
  BY <1>1, ReadStep DEF ReadPriceLists, Read, Reads, OfList, world
<1>2. ASSUME NEW r \in Requests, NEW u \in Users, NEW t \in Tenants, NEW l \in Lists,
             ReadMarketplaces(r, u, t, l)
      PROVE  IInv' /\ UNCHANGED rows
  BY <1>2, ReadStep DEF ReadMarketplaces, Read, Reads, OfList, world
<1>3. ASSUME NEW r \in Requests, NEW u \in Users, NEW t \in Tenants, NEW l \in Lists,
             NEW m \in Markets, ReadCatalog(r, u, t, l, m) \/ CheckExport(r, u, t, l, m)
      PROVE  IInv' /\ UNCHANGED rows
  <2>1. CASE ReadCatalog(r, u, t, l, m)
    BY <2>1, ReadStep DEF ReadCatalog, Read, Reads, OfList, world
  <2>2. CASE CheckExport(r, u, t, l, m)
    BY <2>2, ReadStep DEF CheckExport, Read, Reads, OfList, world
  <2> QED
    BY <1>3, <2>1, <2>2
<1>4. ASSUME NEW r \in Requests,
             \/ FindPermissions(r)
             \/ VisiblePriceLists(r) \/ AssertVisible(r) \/ FindMarketplaces(r)
             \/ FindMarketplace(r) \/ FindRelation(r) \/ FindPrices(r) \/ Respond(r)
      PROVE  IInv' /\ UNCHANGED rows
  <2>1. UNCHANGED rows
    BY <1>4 DEF FindPermissions, VisiblePriceLists, AssertVisible, FindMarketplaces, FindMarketplace,
       FindRelation, FindPrices, Respond, world
  <2> QED
    BY <1>4, <2>1, StatementStep, PermissionStep
<1>5. ASSUME NEW r \in Requests, NEW t \in Tenants,
             \/ \E u \in Users, ids \in SUBSET Lists : Assign(r, t, u, ids)
             \/ \E l \in Lists, ids \in SUBSET Markets : Relate(r, t, l, ids)
             \/ \E i \in Items :
                    Delete(r, t, i) \/ \E s \in {"active", "inactive"} : Update(r, t, i, s)
      PROVE  IInv' /\ UNCHANGED rows
  <2>1. UNCHANGED rows
    BY <1>5 DEF Assign, Relate, Delete, Update, world
  <2> QED
    BY <1>5, <2>1, WriterArrives
<1>6. ASSUME NEW r \in Requests, AssertPriceLists(r) \/ AssertAllExist(r)
      PROVE  IInv' /\ UNCHANGED rows
  <2>1. UNCHANGED rows
    BY <1>6 DEF AssertPriceLists, AssertAllExist, world
  <2> QED
    BY <1>6, <2>1, CheckStep
<1>7. ASSUME NEW r \in Requests,
             ReplaceAccess(r) \/ ReplaceMarketplaces(r) \/ Write(r) \/ SoftDelete(r)
      PROVE  IInv' /\ NoneReturns
  BY <1>7, WriteStep
<1>8. ASSUME NEW r \in Requests, Fail(r) PROVE IInv' /\ UNCHANGED rows
  BY <1>8, DoneStep DEF Fail, world
<1>9. ASSUME \/ \E u \in Users : \/ \E g \in Roles : ChangeRole(u, g)
                                \/ \E s \in UserStatuses : ChangeUser(u, s)
             \/ \E g \in Roles, permissions \in Grants : AssignPermissions(g, permissions)
      PROVE  IInv' /\ UNCHANGED rows
  BY <1>9, UserStep
<1>10. CASE UNCHANGED vars
  <2>1. (\A q \in Requests : Same(q)) /\ NoneReturns
    BY <1>10 DEF vars, Same, NoneReturns
  <2>2. TypeOK'
    BY <1>10 DEF vars, IInv, TypeOK
  <2>3. ASSUME NEW q \in Requests PROVE Fine(q)'
    BY <2>1, Bystander DEF IInv
  <2> QED
    BY <2>1, <2>2, <2>3 DEF IInv
<1>11. UNCHANGED rows => NoneReturns
  BY DEF NoneReturns
<1>12. CASE Next
  <2>1. CASE \/ \E u \in Users : \/ \E g \in Roles : ChangeRole(u, g)
                                 \/ \E s \in UserStatuses : ChangeUser(u, s)
             \/ \E g \in Roles, permissions \in Grants : AssignPermissions(g, permissions)
    BY <1>9, <1>11, <2>1
  <2>2. CASE \E r \in Requests, u \in Users, t \in Tenants :
            \/ ReadPriceLists(r, u, t)
            \/ \E l \in Lists :
                \/ ReadMarketplaces(r, u, t, l)
                \/ \E m \in Markets : ReadCatalog(r, u, t, l, m) \/ CheckExport(r, u, t, l, m)
    BY <1>1, <1>2, <1>3, <1>11, <2>2
  <2>3. CASE \E r \in Requests, t \in Tenants :
             \/ \E u \in Users, ids \in SUBSET Lists : Assign(r, t, u, ids)
             \/ \E l \in Lists, ids \in SUBSET Markets : Relate(r, t, l, ids)
             \/ \E i \in Items :
                    Delete(r, t, i) \/ \E s \in {"active", "inactive"} : Update(r, t, i, s)
    BY <1>5, <1>11, <2>3
  <2>4. CASE \E r \in Requests :
             \/ FindPermissions(r) \/ VisiblePriceLists(r) \/ AssertVisible(r) \/ FindMarketplaces(r)
             \/ FindMarketplace(r) \/ FindRelation(r) \/ FindPrices(r) \/ Respond(r)
             \/ AssertPriceLists(r) \/ AssertAllExist(r) \/ ReplaceAccess(r)
             \/ ReplaceMarketplaces(r) \/ Write(r) \/ SoftDelete(r) \/ Fail(r)
    BY <1>4, <1>6, <1>7, <1>8, <1>11, <2>4
  <2> QED
    BY <1>12, <2>1, <2>2, <2>3, <2>4, CatalogAssumption DEF Next
<1> QED
  BY <1>10, <1>12

-----------------------------------------------------------------------------
(* Theorems.                                                                 *)

\* The state is well typed, and every request is as far as it has found out.
THEOREM CatalogInvariant == Spec => []IInv
<1> QED
  BY InitInv, NextStep, PTL DEF Spec

\* Type correctness (CatalogAccess).
THEOREM CatalogTypes == Spec => []TypeOK
<1>1. IInv => TypeOK
  BY DEF IInv
<1> QED
  BY <1>1, CatalogInvariant, PTL

\* Whatever is revoked, deactivated or deleted while a request reads, each condition
\* of what it answers was true since it was authenticated (PriceCatalogService).
THEOREM AnswersAllowed == Spec => []AnswersWereAllowed
<1>1. IInv => AnswersWereAllowed
  BY DEF IInv, AnswersWereAllowed, Required, Fine, Fits, Known, Reading, AfterSeeing, Arrived, OfList,
     FactNames, Reads
<1> QED
  BY <1>1, CatalogInvariant, PTL

\* A request answers about the one company its user may act for (resolveTenant and
\* the where clauses).
THEOREM CompanyKept == Spec => []StaysInCompany
<1>1. IInv => StaysInCompany
  BY DEF IInv, StaysInCompany, Fine, Fits, Known, Own, Reading, AfterSeeing, Arrived, TenantsFor
<1> QED
  BY <1>1, CatalogInvariant, PTL

\* The lists a user is offered are those that can be read (PriceListAccessService).
THEOREM SelectorAgrees == Spec => []SelectorIsReadable
<1>1. SelectorIsReadable
  BY DEF SelectorIsReadable, Listed, CanSee, Served
<1> QED
  BY <1>1, PTL

\* What is deleted is never brought back (TenantCrudRepository).
THEOREM DeletionIsFinal == Spec => DeletedStaysDeleted
<1>1. IInv /\ [Next]_vars => [\A i \in Items : rows[i].deleted => rows'[i].deleted]_vars
  BY NextStep DEF NoneReturns
<1> QED
  BY <1>1, CatalogInvariant, PTL DEF Spec, DeletedStaysDeleted
=============================================================================

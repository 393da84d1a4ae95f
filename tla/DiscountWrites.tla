--------------------------- MODULE DiscountWrites ---------------------------
(***************************************************************************)
(* DiscountService: one discount row and the create, update and delete     *)
(* requests that run concurrently on it, with the validators in front of   *)
(* them.  An update is partial; what it leaves out is taken from the row   *)
(* that was read, and the three scope columns are always written together. *)
(*                                                                         *)
(* Names are left out: a unique key decides about them.                    *)
(***************************************************************************)
EXTENDS PricingEngine

CONSTANTS Requests,     \* HTTP requests that may be under way at a time
          Undefined,    \* a field the payload does not have
          OwnRefs,      \* ids of the company's products, lists and marketplaces
          ForeignRefs,  \* ids of other companies'
          Payloads      \* the request bodies users send

Refs == OwnRefs \cup ForeignRefs
RefColumn == Refs \cup {NoRef}
Types == {"percentage", "fixed"}

\* The columns of discounts, and the bodies that zod lets through field by field.
Rows == [appliesTo : Scopes, product : RefColumn, price_list : RefColumn,
         marketplace : RefColumn, type : Types, value : Nat,
         startDate : Nat, endDate : Nat \cup {NoEnd}]
Bodies == [appliesTo : Scopes \cup {Undefined}, product : RefColumn \cup {Undefined},
           price_list : RefColumn \cup {Undefined}, marketplace : RefColumn \cup {Undefined},
           type : Types \cup {Undefined}, value : Nat \cup {Undefined},
           startDate : Nat \cup {Undefined}, endDate : Nat \cup {NoEnd, Undefined}]

ASSUME DiscountAssumption ==
    /\ Payloads \subseteq Bodies
    /\ NoRef \notin Refs /\ OwnRefs \cap ForeignRefs = {}
    /\ Undefined \notin Scopes \cup RefColumn \cup Types
    /\ Undefined \notin Nat /\ Undefined # NoEnd

VARIABLES
    state,      \* the row: "absent", "live", or "deleted" (deleted_at is set)
    row,        \* its columns
    refsLive,   \* the company's own rows that are not deleted
    pc,         \* where each request is
    kind,       \* create or update
    data,       \* its payload, then what it is about to write
    seen,       \* `existing`: the scope of the row it read
    overlapped  \* history: two requests that write were under way at once

locals == <<kind, data, seen>>
vars == <<state, row, refsLive, pc, locals, overlapped>>

PCs == {"idle", "merging", "checking", "writing", "removing"}

\* Columns that hold nothing yet.
Blank == [appliesTo |-> "product", product |-> NoRef, price_list |-> NoRef,
          marketplace |-> NoRef, type |-> "fixed", value |-> 0,
          startDate |-> 0, endDate |-> NoEnd]

\* The columns an update merges with its payload.
ScopeState(d) == [f \in {"appliesTo"} \cup Scopes |-> d[f]]

Init ==
    /\ state = "absent" /\ row = Blank
    /\ refsLive = OwnRefs
    /\ pc = [r \in Requests |-> "idle"]
    /\ kind = [r \in Requests |-> "create"]
    /\ data = [r \in Requests |-> Blank]
    /\ seen = [r \in Requests |-> ScopeState(Blank)]
    /\ overlapped = FALSE

----------------------------------------------------------------------------
(* The validators, on one request body.                                     *)

IsSet(v) == v # Undefined /\ v # NoRef

\* The column of the scope is required, those of the others must be empty.
ScopeFits(p) == \A s \in Scopes : IsSet(p[s]) <=> s = p.appliesTo

\* withValidDateRange compares what the body has.
DatesFit(p) ==
    p.startDate # Undefined /\ p.endDate # Undefined /\ p.endDate # NoEnd =>
        p.startDate <= p.endDate

PercentageFits(p) ==
    p.type = "percentage" /\ p.value # Undefined => p.value <= 100

\* createDiscountSchema.
CreateAccepts(p) ==
    /\ p.appliesTo # Undefined /\ p.type # Undefined
    /\ p.value # Undefined /\ p.startDate # Undefined
    /\ ScopeFits(p) /\ PercentageFits(p) /\ DatesFit(p)

\* updateDiscountSchema: the scope is only looked at when the body names one.
UpdateAccepts(p) ==
    /\ p.appliesTo # Undefined => ScopeFits(p)
    /\ PercentageFits(p) /\ DatesFit(p)

----------------------------------------------------------------------------
(* DiscountService.                                                         *)

Arrive(r, to) ==
    /\ pc[r] = "idle"
    /\ pc' = [pc EXCEPT ![r] = to]
    /\ overlapped' = (overlapped \/ \E q \in Requests : pc[q] # "idle")
    /\ UNCHANGED <<state, row, refsLive>>

\* The answer is sent, or an error.
Done(r) ==
    /\ pc' = [pc EXCEPT ![r] = "idle"]
    /\ kind' = [kind EXCEPT ![r] = "create"]
    /\ data' = [data EXCEPT ![r] = Blank]
    /\ seen' = [seen EXCEPT ![r] = ScopeState(Blank)]

Create(r, p) ==
    /\ CreateAccepts(p)
    /\ Arrive(r, "merging")
    /\ kind' = [kind EXCEPT ![r] = "create"]
    /\ data' = [data EXCEPT ![r] = p]
    /\ UNCHANGED seen

\* update, up to its get.
Update(r, p) ==
    /\ UpdateAccepts(p)
    /\ state = "live"
    /\ Arrive(r, "merging")
    /\ kind' = [kind EXCEPT ![r] = "update"]
    /\ data' = [data EXCEPT ![r] = p]
    /\ seen' = [seen EXCEPT ![r] = ScopeState(row)]

\* appliesTo of the merged scope.
ScopeOf(r) == IF data[r].appliesTo = Undefined THEN seen[r].appliesTo ELSE data[r].appliesTo

\* fieldValue: the payload, else the row unless the scope changes.
FieldValue(r, s) ==
    IF data[r][s] # Undefined THEN data[r][s]
    ELSE IF kind[r] = "create" \/ ScopeOf(r) # seen[r].appliesTo THEN NoRef
    ELSE seen[r][s]

\* Mutation: the owner of the reference is not looked up on update.
Belongs_OnCreate(r) ==
    kind[r] = "create" => FieldValue(r, ScopeOf(r)) \in refsLive \cup {NoRef}

\* assertScopeBelongsToTenant: the reference of the scope, when there is one.
Belongs(r) == FieldValue(r, ScopeOf(r)) \in refsLive \cup {NoRef}

\* normalizeScopeData accepts: its own column set, and no other in the payload.
Normal(r) ==
    /\ FieldValue(r, ScopeOf(r)) # NoRef
    /\ \A s \in Scopes \ {ScopeOf(r)} : ~IsSet(data[r][s])

\* Mutation: the columns of the other scopes are left as they are.
Normalized_KeepsOthers(r, s) == IF s = ScopeOf(r) THEN FieldValue(r, s) ELSE data[r][s]

\* The scope columns normalizeScopeData writes: one is set, two are null.
Normalized(r, s) == IF s = ScopeOf(r) THEN FieldValue(r, s) ELSE NoRef

\* The scope is merged, checked and normalized, or the request is refused.
Merge(r) ==
    /\ pc[r] = "merging"
    /\ \/ /\ Belongs(r) /\ Normal(r)
          /\ data' = [data EXCEPT ![r] = [f \in DOMAIN @ |->
                        IF f \in Scopes THEN Normalized(r, f) ELSE @[f]]]
          /\ pc' = [pc EXCEPT ![r] = IF kind[r] = "create" THEN "writing" ELSE "checking"]
          /\ UNCHANGED <<kind, seen>>
       \/ ~(Belongs(r) /\ Normal(r)) /\ Done(r)
    /\ UNCHANGED <<state, row, refsLive, overlapped>>

\* super.update: get and assertExists look for the row again.
Check(r) ==
    /\ pc[r] = "checking"
    /\ \/ /\ state = "live"
          /\ pc' = [pc EXCEPT ![r] = "writing"]
          /\ UNCHANGED locals
       \/ state # "live" /\ Done(r)
    /\ UNCHANGED <<state, row, refsLive, overlapped>>

\* The fields that are not undefined are written.
Merged(old, new) == [f \in DOMAIN old |-> IF new[f] = Undefined THEN old[f] ELSE new[f]]

\* repository.create.  The model has one row; another name would be another row.
Insert(r) ==
    /\ pc[r] = "writing" /\ kind[r] = "create"
    /\ \/ state = "absent" /\ state' = "live" /\ row' = Merged(Blank, data[r])
       \/ state # "absent" /\ UNCHANGED <<state, row>>
    /\ Done(r)
    /\ UNCHANGED <<refsLive, overlapped>>

\* update where id, whatever the row has become since it was read.
Write(r) ==
    /\ pc[r] = "writing" /\ kind[r] = "update"
    /\ row' = Merged(row, data[r])
    /\ Done(r)
    /\ UNCHANGED <<state, refsLive, overlapped>>

\* A statement throws.
Fail(r) ==
    /\ pc[r] # "idle"
    /\ Done(r)
    /\ UNCHANGED <<state, row, refsLive, overlapped>>

\* remove: get and assertExists find the row ...
Remove(r) ==
    /\ state = "live"
    /\ Arrive(r, "removing")
    /\ UNCHANGED locals

\* ... and softDelete updates it by id.
SoftDelete(r) ==
    /\ pc[r] = "removing"
    /\ state' = "deleted"
    /\ Done(r)
    /\ UNCHANGED <<row, refsLive, overlapped>>

\* A product, list or marketplace is deleted; nothing asks who refers to it.
DeleteReference(x) ==
    /\ x \in refsLive
    /\ refsLive' = refsLive \ {x}
    /\ UNCHANGED <<state, row, pc, locals, overlapped>>

Next ==
    \/ \E r \in Requests, p \in Payloads : Create(r, p) \/ Update(r, p)
    \/ \E r \in Requests : \/ Merge(r) \/ Check(r) \/ Insert(r) \/ Write(r) \/ Fail(r)
                           \/ Remove(r) \/ SoftDelete(r)
    \/ \E x \in OwnRefs : DeleteReference(x)

Spec == Init /\ [][Next]_vars

----------------------------------------------------------------------------
(* Properties.                                                              *)

TypeOK ==
    /\ state \in {"absent", "live", "deleted"}
    /\ row \in Rows
    /\ refsLive \subseteq OwnRefs
    /\ pc \in [Requests -> PCs]
    /\ kind \in [Requests -> {"create", "update"}]
    /\ data \in [Requests -> Bodies]
    /\ seen \in [Requests -> [appliesTo : Scopes, product : RefColumn,
                             price_list : RefColumn, marketplace : RefColumn]]
    /\ overlapped \in BOOLEAN

\* Partial updates, scope changes included, keep exactly the column of the
\* scope set, as long as requests do not overlap.
ScopeMatches ==
    ~overlapped /\ state # "absent" => \A s \in Scopes : row[s] # NoRef <=> s = row.appliesTo

\* Whatever overlaps, a discount never refers to two things.
AtMostOneReference == \A s, z \in Scopes : row[s] # NoRef /\ row[z] # NoRef => s = z

\* Whatever overlaps, a discount only refers to rows of its own company, though
\* the columns have no tenant key and an update may only repeat what it has read.
ReferencesAreOwn == \A s \in Scopes : row[s] \in OwnRefs \cup {NoRef}

\* Whatever partial updates have made of a row, a percentage above one hundred
\* included, it only lowers a price, and never below zero.
StoredDiscountOnlyLowers ==
    \A b \in {0, 1, 99, 100} : LET f == ApplyDiscount(b, row, 1) IN 0 <= f /\ f <= b
=============================================================================

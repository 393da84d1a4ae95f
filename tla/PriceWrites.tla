---------------------------- MODULE PriceWrites ----------------------------
(***************************************************************************)
(* PriceService: one price of a company, its price_history, and the        *)
(* create, update and delete requests that run concurrently, while         *)
(* administrators switch discounts on and off, delete what the price       *)
(* refers to, and days pass.                                               *)
(*                                                                         *)
(* A request reads in several statements and writes in one transaction, so *)
(* a step is one of: the row it starts from, the references, the inputs of *)
(* the engine, the transaction.  One price is enough: requests about       *)
(* different prices share nothing but what they read.                      *)
(***************************************************************************)
EXTENDS PricingEngine, Sequences

CONSTANTS Requests,    \* HTTP requests that may be under way at a time
          Bases,       \* the base prices users ask for, in ticks
          Keep,        \* an update without basePrice
          Discounts,   \* the discounts of the company, by their active versions
          Context,     \* the product, price list and marketplace of the price
          Unit,        \* ticks in the smallest unit of the currency, and of the column
          LastDay,     \* bound on the days that pass
          MaxRequests  \* bound on the requests ever made

ASSUME PriceAssumption ==
    /\ Bases \subseteq Nat /\ Keep \notin Bases
    /\ Unit \in Nat \ {0} /\ LastDay \in Nat /\ MaxRequests \in Nat
    /\ \A d \in Discounts : d.status = "active" /\ d.value \in Nat

\* Ids are a primary key, the columns of a price that Context stands for are
\* not null, and the validators take no negative priority.
ASSUME DiscountAssumption ==
    /\ \A d \in Discounts : /\ d.appliesTo \in Scopes
                             /\ d.priority \in Nat /\ d.createdAt \in Nat /\ d.id \in Nat
                             /\ d.startDate \in Int /\ d.endDate \in Int
    /\ \A d, e \in Discounts : d.id = e.id => d = e
    /\ \A s \in Scopes : Context[s] # NoRef

VARIABLES
    state,      \* the row: "absent", "live", or "deleted" (deleted_at is set)
    base,       \* base_price
    final,      \* final_price
    history,    \* price_history, in the order written
    enabled,    \* the discounts that are active and not deleted
    refsLive,   \* product, list and marketplace exist and are not deleted
    today,      \* the calendar day in the company's time zone
    pc,         \* where each request is
    kind,       \* what it is
    asked,      \* data.basePrice
    seen,       \* `existing`: the row it read
    pricing,    \* what the engine gave it
    requests,   \* how many there have been
    overlapped  \* history: two requests that write were under way at once

row == <<state, base, final>>
world == <<enabled, refsLive, today>>
locals == <<kind, asked, seen, pricing>>
vars == <<row, history, world, pc, locals, requests, overlapped>>

Prices == [base : Int, final : Int]
NoPrice == [base |-> -1, final |-> -1]      \* null
PCs == {"idle", "checking", "pricing", "writing", "removing"}
Kinds == {"create", "update"}

Init ==
    /\ state = "absent" /\ base = -1 /\ final = -1
    /\ history = <<>>
    /\ enabled \in SUBSET Discounts
    /\ refsLive = TRUE
    /\ today = 0
    /\ pc = [r \in Requests |-> "idle"]
    /\ kind = [r \in Requests |-> "create"]
    /\ asked = [r \in Requests |-> Keep]
    /\ seen = [r \in Requests |-> NoPrice]
    /\ pricing = [r \in Requests |-> NoPrice]
    /\ requests = 0
    /\ overlapped = FALSE

----------------------------------------------------------------------------
Arrive(r, to) ==
    /\ pc[r] = "idle" /\ requests < MaxRequests
    /\ pc' = [pc EXCEPT ![r] = to]
    /\ requests' = requests + 1
    /\ overlapped' = (overlapped \/ \E q \in Requests : pc[q] # "idle")
    /\ UNCHANGED <<row, history, world, pricing>>

Start(r, k, b, s) ==
    /\ Arrive(r, "checking")
    /\ kind' = [kind EXCEPT ![r] = k]
    /\ asked' = [asked EXCEPT ![r] = b]
    /\ seen' = [seen EXCEPT ![r] = s]

\* The answer is sent, or an error.
Done(r) ==
    /\ pc' = [pc EXCEPT ![r] = "idle"]
    /\ kind' = [kind EXCEPT ![r] = "create"]
    /\ asked' = [asked EXCEPT ![r] = Keep]
    /\ seen' = [seen EXCEPT ![r] = NoPrice]
    /\ pricing' = [pricing EXCEPT ![r] = NoPrice]

Create(r, b) == Start(r, "create", b, NoPrice)

\* update, up to its get: a price that was deleted is not found.
Update(r, b) ==
    /\ state = "live"
    /\ Start(r, "update", b, [base |-> base, final |-> final])

\* assertReferences, and the currency, which is never deleted.
CheckReferences(r) ==
    /\ pc[r] = "checking"
    /\ \/ /\ refsLive
          /\ pc' = [pc EXCEPT ![r] = "pricing"]
          /\ UNCHANGED locals
       \/ ~refsLive /\ Done(r)
    /\ UNCHANGED <<row, history, world, requests, overlapped>>

\* The base price an update is calculated from.
BaseFor(r) == IF asked[r] = Keep THEN seen[r].base ELSE asked[r]

\* Mutation: an update that changes only the base price is not recorded.
Changed_FinalOnly(r) == seen[r].final # pricing[r].final

\* baseChanged or finalChanged.
Changed(r) == seen[r].base # pricing[r].base \/ seen[r].final # pricing[r].final

\* preview: the active discounts and the time zone are read, then the engine runs.
Preview(r) ==
    /\ pc[r] = "pricing"
    /\ pricing' = [pricing EXCEPT ![r] =
            [base  |-> RoundTo(BaseFor(r), Unit),
             final |-> FinalPrice(BaseFor(r), enabled, Context, today, Unit)]]
    /\ pc' = [pc EXCEPT ![r] = "writing"]
    /\ UNCHANGED <<row, history, world, kind, asked, seen, requests, overlapped>>

Entry(r) == [old |-> seen[r], new |-> pricing[r]]

\* The transaction of create.  The column rounds the base price to cents.
Insert(r) ==
    /\ pc[r] = "writing" /\ kind[r] = "create"
    /\ state = "absent"
    /\ state' = "live"
    /\ base' = RoundTo(asked[r], Unit)
    /\ final' = pricing[r].final
    /\ history' = Append(history, [old |-> NoPrice, new |-> [base |-> base', final |-> final']])
    /\ Done(r)
    /\ UNCHANGED <<world, requests, overlapped>>

\* The unique key of product, list, marketplace and start date counts deleted
\* rows too.
InsertConflict(r) ==
    /\ pc[r] = "writing" /\ kind[r] = "create"
    /\ state # "absent"
    /\ Done(r)
    /\ UNCHANGED <<row, history, world, requests, overlapped>>

\* base_price is in the update only if the request carries one.
BaseWritten(r) == IF asked[r] = Keep THEN base ELSE RoundTo(asked[r], Unit)

\* The transaction of update: by id, whatever the row has become since it was
\* read, deleted included.  The final price is always written.
Write(r) ==
    /\ pc[r] = "writing" /\ kind[r] = "update"
    /\ base' = BaseWritten(r)
    /\ final' = pricing[r].final
    /\ history' = IF Changed(r) THEN Append(history, Entry(r)) ELSE history
    /\ Done(r)
    /\ UNCHANGED <<state, world, requests, overlapped>>

\* An exception before or in the transaction, which rolls it back.
Fail(r) ==
    /\ pc[r] # "idle"
    /\ Done(r)
    /\ UNCHANGED <<row, history, world, requests, overlapped>>

\* remove: get and assertExists find the price ...
Remove(r) ==
    /\ state = "live"
    /\ Arrive(r, "removing")
    /\ UNCHANGED <<kind, asked, seen>>

\* ... and softDelete updates it by id.
SoftDelete(r) ==
    /\ pc[r] = "removing"
    /\ state' = "deleted"
    /\ Done(r)
    /\ UNCHANGED <<base, final, history, world, requests, overlapped>>

----------------------------------------------------------------------------
(* Administrators, and time.                                                *)

SwitchDiscount(d) ==
    /\ enabled' = IF d \in enabled THEN enabled \ {d} ELSE enabled \cup {d}
    /\ UNCHANGED <<row, history, refsLive, today, pc, locals, requests, overlapped>>

DeleteReference ==
    /\ refsLive
    /\ refsLive' = FALSE
    /\ UNCHANGED <<row, history, enabled, today, pc, locals, requests, overlapped>>

NextDay ==
    /\ today < LastDay
    /\ today' = today + 1
    /\ UNCHANGED <<row, history, enabled, refsLive, pc, locals, requests, overlapped>>

Next ==
    \/ \E r \in Requests, b \in Bases : Create(r, b)
    \/ \E r \in Requests, b \in Bases \cup {Keep} : Update(r, b)
    \/ \E r \in Requests : \/ CheckReferences(r) \/ Preview(r)
                           \/ Insert(r) \/ InsertConflict(r) \/ Write(r)
                           \/ Remove(r) \/ SoftDelete(r) \/ Fail(r)
    \/ \E d \in Discounts : SwitchDiscount(d)
    \/ DeleteReference
    \/ NextDay

Spec == Init /\ [][Next]_vars

----------------------------------------------------------------------------
(* Properties.                                                              *)

TypeOK ==
    /\ state \in {"absent", "live", "deleted"}
    /\ base \in Int /\ final \in Int
    /\ history \in Seq([old : Prices, new : Prices])
    /\ enabled \subseteq Discounts
    /\ refsLive \in BOOLEAN
    /\ today \in 0 .. LastDay
    /\ pc \in [Requests -> PCs]
    /\ kind \in [Requests -> Kinds]
    /\ asked \in [Requests -> Bases \cup {Keep}]
    /\ seen \in [Requests -> Prices]
    /\ pricing \in [Requests -> Prices]
    /\ requests \in 0 .. MaxRequests
    /\ overlapped \in BOOLEAN

\* The audit trail is complete when requests do not overlap: it starts from
\* nothing, every entry continues the one before, and the last one is the row.
TrailIsComplete ==
    ~overlapped =>
        /\ \A i \in 1 .. Len(history) :
              history[i].old = IF i = 1 THEN NoPrice ELSE history[i - 1].new
        /\ state # "absent" =>
              /\ history # <<>>
              /\ history[Len(history)].new = [base |-> base, final |-> final]

\* Whatever overlaps, no amount is ever shown that the trail does not contain:
\* an update that records nothing writes back what it has read.
EveryAmountIsRecorded ==
    state # "absent" =>
        /\ \E i \in 1 .. Len(history) : history[i].new.base = base
        /\ \E i \in 1 .. Len(history) : history[i].new.final = final

\* Whatever overlaps, the old amounts of an entry were new ones before.
OldAmountsWereNew ==
    \A i \in 1 .. Len(history) :
        history[i].old = NoPrice \/
            \E h, k \in 1 .. i - 1 : /\ history[h].new.base = history[i].old.base
                                     /\ history[k].new.final = history[i].old.final

\* A discount never raises a price nor makes it negative, up to the rounding of
\* the base, as long as requests do not overlap.
DiscountsOnlyLower ==
    ~overlapped /\ state # "absent" => 0 <= final /\ final <= base

\* The discount that is applied is the best of all that apply to the price, in
\* the order of scope, priority, creation time and id; and there is one if any
\* discount applies.
BestDiscountApplies ==
    LET applying == {d \in enabled :
                        /\ d.startDate <= today
                        /\ d.endDate # NoEnd => d.endDate >= today
                        /\ \E s \in Scopes : d.appliesTo = s /\ d[s] = Context[s]}
        key(d) == <<Rank[d.appliesTo], d.priority, d.createdAt, d.id>>
        smaller(k, l) == \E i \in 1 .. 4 : k[i] < l[i] /\ \A j \in 1 .. i - 1 : k[j] = l[j]
        best == Selected(enabled, Context, today)
    IN  /\ best = {} <=> applying = {}
        /\ \A d \in best : d \in applying /\ \A e \in applying \ {d} : smaller(key(d), key(e))

----------------------------------------------------------------------------
(* What the documentation says and the code does not do.                    *)

\* "Every change to a price's base or final value writes an append-only
\* price_history row in the same transaction, recording old/new values": the
\* last row of the trail holds the values of the price.
TrailEndsAtPrice ==
    state # "absent" => history[Len(history)].new = [base |-> base, final |-> final]
=============================================================================

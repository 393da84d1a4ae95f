-------------------------- MODULE PriceWritesProofs --------------------------
(***************************************************************************)
(* Proofs about PriceWrites for every set of requests, amounts, discounts, *)
(* currency unit and number of days.                                       *)
(*                                                                         *)
(* Two things make the trail what it is.  An update only ever writes back  *)
(* amounts it has read or records, so whatever overlaps, the row and the   *)
(* old amounts of the entries come from the trail (SeenIsRecorded).  And   *)
(* while requests do not overlap, what was read is still the row when the  *)
(* transaction runs (OneAtATime, SeenIsRow), so that entries join up.      *)
(***************************************************************************)
EXTENDS PriceWrites, TLAPS, WellFoundedInduction

----------------------------------------------------------------------------
(* Division, as SMT sees it.                                                *)

\* A quotient is within one divisor of its dividend.
LEMMA DivBounds ==
    ASSUME NEW a \in Int, NEW b \in Int, b > 0
    PROVE  a \div b \in Int /\ b * (a \div b) <= a /\ a < b * (a \div b) + b
  OBVIOUS

\* Multiplication by a positive number keeps the order.
LEMMA TimesMonotone ==
    ASSUME NEW u \in Int, u > 0, NEW x \in Int, NEW y \in Int, x <= y
    PROVE  u * x <= u * y
  OBVIOUS

\* The bounds determine the quotient.
LEMMA DivUnique ==
    ASSUME NEW a \in Int, NEW b \in Int, b > 0, NEW k \in Int, b * k <= a, a < b * k + b
    PROVE  a \div b = k
<1> DEFINE q == a \div b
<1>1. q \in Int /\ b * q <= a /\ a < b * q + b
  BY DivBounds
<1> HIDE DEF q
<1>2. q = k \/ q >= k + 1 \/ q + 1 <= k
  BY <1>1
<1>3. q >= k + 1 => b * q >= b * k + b
  BY <1>1, TimesMonotone
<1>4. q + 1 <= k => b * k >= b * q + b
  BY <1>1, TimesMonotone
<1> QED
  BY <1>1, <1>2, <1>3, <1>4 DEF q

\* A quotient is at most y when the dividend is less than y + 1 divisors.
LEMMA DivAtMost ==
    ASSUME NEW a \in Int, NEW b \in Int, b > 0, NEW y \in Int, a < b * y + b
    PROVE  a \div b <= y
<1> DEFINE q == a \div b
<1>1. q \in Int /\ b * q <= a
  BY DivBounds
<1> HIDE DEF q
<1>2. y + 1 <= q => b * y + b <= b * q
  BY <1>1, TimesMonotone
<1> QED
  BY <1>1, <1>2 DEF q

----------------------------------------------------------------------------
(* Rounding.                                                                *)

\* roundTo gives an amount, and not a negative one unless it was given one.
LEMMA RoundToType ==
    ASSUME NEW v \in Int, NEW unit \in Nat \ {0}
    PROVE  /\ RoundRatio(v, unit) \in Int
           /\ RoundTo(v, unit) \in Int
           /\ v >= 0 => RoundTo(v, unit) >= 0
<1>1. RoundRatio(v, unit) \in Int
  BY DivBounds DEF RoundRatio
<1>2. v >= 0 => RoundRatio(v, unit) >= 0
  <2> SUFFICES ASSUME v >= 0, RoundRatio(v, unit) <= -1 PROVE FALSE
    BY <1>1
  <2> DEFINE q == RoundRatio(v, unit)
  <2>1. 2 * v + unit < (2 * unit) * q + 2 * unit
    BY DivBounds DEF RoundRatio
  <2>2. (2 * unit) * q <= (2 * unit) * (-1)
    BY <1>1, TimesMonotone
  <2> QED
    BY <2>1, <2>2, <1>1
<1>3. RoundRatio(v, unit) >= 0 => unit * RoundRatio(v, unit) >= unit * 0
  BY <1>1, TimesMonotone
<1> QED
  BY <1>1, <1>2, <1>3 DEF RoundTo

\* An amount that was rounded is not changed by rounding it again: the base
\* price of a row may be read, rounded and written back.
THEOREM RoundToIdempotent ==
    ASSUME NEW v \in Int, NEW unit \in Nat \ {0}
    PROVE  RoundTo(RoundTo(v, unit), unit) = RoundTo(v, unit)
<1> DEFINE k == RoundRatio(v, unit)
<1>1. k \in Int
  BY RoundToType
<1> HIDE DEF k
<1>2. 2 * (unit * k) + unit \in Int /\ (2 * unit) * k <= 2 * (unit * k) + unit
      /\ 2 * (unit * k) + unit < (2 * unit) * k + 2 * unit
  BY <1>1
<1>3. (2 * (unit * k) + unit) \div (2 * unit) = k
  BY <1>1, <1>2, DivUnique
<1> QED
  BY <1>3 DEF RoundTo, RoundRatio, k

\* A discounted amount, rounded, is at most the amount without it, rounded.
LEMMA DiscountRounds ==
    ASSUME NEW b \in Nat, NEW d, d.value \in Nat, NEW unit \in Nat \ {0}
    PROVE  /\ RoundRatio(b * (100 - d.value), 100 * unit) \in Int
           /\ RoundRatio(b * (100 - d.value), 100 * unit) <= RoundRatio(b, unit)
           /\ RoundRatio(b - d.value, unit) \in Int
           /\ RoundRatio(b - d.value, unit) <= RoundRatio(b, unit)
<1> DEFINE y == RoundRatio(b, unit)
<1>1. y \in Int /\ 2 * b + unit < (2 * unit) * y + 2 * unit
  <2>1. 2 * b + unit \in Int /\ 2 * unit \in Int /\ 2 * unit > 0
    OBVIOUS
  <2>2. y = (2 * b + unit) \div (2 * unit)
    BY DEF RoundRatio
  <2> QED
    BY <2>1, <2>2, DivBounds
<1> HIDE DEF y
<1>2. b * (100 - d.value) \in Int /\ b * (100 - d.value) <= b * 100
  <2>1. b * d.value \in Nat /\ b * (100 - d.value) = b * 100 - b * d.value
    OBVIOUS
  <2> QED
    BY <2>1
<1>3. 2 * (b * (100 - d.value)) + 100 * unit < (2 * (100 * unit)) * y + 2 * (100 * unit)
  <2>1. (2 * (100 * unit)) * y = 100 * ((2 * unit) * y)
    BY <1>1
  <2>2. (2 * unit) * y \in Int
    BY <1>1
  <2> QED
    BY <1>1, <1>2, <2>1, <2>2
<1>4. 2 * (b - d.value) + unit < (2 * unit) * y + 2 * unit
  BY <1>1
<1>5. RoundRatio(b * (100 - d.value), 100 * unit) \in Int /\ RoundRatio(b - d.value, unit) \in Int
  BY <1>2, DivBounds DEF RoundRatio
<1>6. RoundRatio(b * (100 - d.value), 100 * unit) <= y
  <2> DEFINE z == b * (100 - d.value)
  <2>1. 2 * z + 100 * unit \in Int /\ 2 * (100 * unit) \in Int /\ 2 * (100 * unit) > 0
    BY <1>2
  <2>2. 2 * z + 100 * unit < (2 * (100 * unit)) * y + 2 * (100 * unit)
    BY <1>3
  <2>3. RoundRatio(z, 100 * unit) = (2 * z + 100 * unit) \div (2 * (100 * unit))
    BY DEF RoundRatio
  <2> HIDE DEF z
  <2>4. RoundRatio(z, 100 * unit) <= y
    BY <1>1, <2>1, <2>2, <2>3, DivAtMost
  <2> QED
    BY <2>4 DEF z
<1>7. RoundRatio(b - d.value, unit) <= y
  BY <1>1, <1>4, DivAtMost DEF RoundRatio
<1> QED
  BY <1>5, <1>6, <1>7 DEF y

----------------------------------------------------------------------------
(* The engine.                                                              *)

\* Applying any discount leaves a price between nothing and the rounded base.
THEOREM ApplyDiscountBounds ==
    ASSUME NEW b \in Nat, NEW d, d.value \in Nat, NEW unit \in Nat \ {0}
    PROVE  /\ ApplyDiscount(b, d, unit) \in Int
           /\ 0 <= ApplyDiscount(b, d, unit)
           /\ ApplyDiscount(b, d, unit) <= RoundTo(b, unit)
<1> DEFINE x == IF d.type = "percentage" THEN RoundRatio(b * (100 - d.value), 100 * unit)
                                         ELSE RoundRatio(b - d.value, unit)
<1>1. x \in Int /\ x <= RoundRatio(b, unit)
  BY DiscountRounds
<1>2. RoundRatio(b, unit) \in Int /\ RoundTo(b, unit) >= 0 /\ RoundTo(b, unit) \in Int
  BY RoundToType
<1>3. ApplyDiscount(b, d, unit) = AtLeastFloor(unit * x)
  BY DEF ApplyDiscount
<1> HIDE DEF x
<1>4. unit * x \in Int /\ unit * x <= unit * RoundRatio(b, unit)
  BY <1>1, <1>2, TimesMonotone
<1> QED
  BY <1>2, <1>3, <1>4 DEF AtLeastFloor, Floor, RoundTo

\* Whatever discounts there are, the final price lies between nothing and the
\* rounded base price.
THEOREM FinalPriceBounds ==
    ASSUME NEW b \in Nat, NEW discounts, \A d \in discounts : d.value \in Nat,
           NEW context, NEW day, NEW unit \in Nat \ {0}
    PROVE  /\ FinalPrice(b, discounts, context, day, unit) \in Int
           /\ 0 <= FinalPrice(b, discounts, context, day, unit)
           /\ FinalPrice(b, discounts, context, day, unit) <= RoundTo(b, unit)
<1> DEFINE chosen == Selected(discounts, context, day)
<1>1. chosen \subseteq discounts
  BY DEF Selected
<1> HIDE DEF chosen
<1>2. CASE chosen = {}
  BY <1>2, RoundToType DEF FinalPrice, chosen
<1>3. CASE chosen # {}
  <2> DEFINE d == CHOOSE e \in chosen : TRUE
  <2>1. d \in chosen
    BY <1>3
  <2> HIDE DEF d
  <2>2. d.value \in Nat
    BY <1>1, <2>1
  <2>3. FinalPrice(b, discounts, context, day, unit) = ApplyDiscount(b, d, unit)
    BY <1>3 DEF FinalPrice, chosen, d
  <2> QED
    BY <2>2, <2>3, ApplyDiscountBounds
<1> QED
  BY <1>2, <1>3

----------------------------------------------------------------------------
(* The choice of a discount.                                                *)

\* A set of numbers has a least one.
LEMMA LeastNumber ==
    ASSUME NEW S \in SUBSET Nat, S # {}
    PROVE  \E n \in S : \A m \in S : n <= m
<1> DEFINE R == OpToRel(<, Nat)
<1>1. IsWellFoundedOn(R, Nat)
  BY NatLessThanWellFounded, Zenon
<1>2. PICK n \in S : \A m \in S : ~ (<<m, n>> \in R)
  <2> HIDE DEF R
  <2> QED
    BY <1>1, WFMin
<1>3. \A m \in S : ~ (m < n)
  BY <1>2 DEF OpToRel
<1> QED
  BY <1>3

\* So has a set of things that are given numbers.
LEMMA LeastBy ==
    ASSUME NEW T, T # {}, NEW f \in [T -> Nat]
    PROVE  \E x \in T : \A y \in T : f[x] <= f[y]
<1> DEFINE S == {f[x] : x \in T}
<1>1. S \in SUBSET Nat /\ S # {}
  OBVIOUS
<1>2. PICK n \in S : \A m \in S : n <= m
  <2> HIDE DEF S
  <2> QED
    BY <1>1, LeastNumber
<1>3. PICK x \in T : f[x] = n
  OBVIOUS
<1> QED
  BY <1>2, <1>3

\* What the order of a scope needs to have a first: numbers, and ids that are keys.
Ordered(ds) ==
    /\ \A d \in ds : d.priority \in Nat /\ d.createdAt \in Nat /\ d.id \in Nat
    /\ \A d, e \in ds : d.id = e.id => d = e

\* Of the candidates of a scope one comes before all others.
LEMMA FirstCandidate ==
    ASSUME NEW ds, ds # {}, Ordered(ds)
    PROVE  \E d \in ds : \A e \in ds : e = d \/ Before(d, e)
<1> DEFINE byPriority == [d \in ds |-> d.priority]
<1>1. PICK p \in ds : \A e \in ds : p.priority <= e.priority
  <2>1. byPriority \in [ds -> Nat]
    BY DEF Ordered
  <2>2. \E x \in ds : \A y \in ds : byPriority[x] <= byPriority[y]
    <3> HIDE DEF byPriority
    <3> QED
      BY <2>1, LeastBy
  <2> QED
    BY <2>2
<1> DEFINE S == {d \in ds : d.priority = p.priority}
           byAge == [d \in S |-> d.createdAt]
<1>2. PICK c \in S : \A e \in S : c.createdAt <= e.createdAt
  <2>1. byAge \in [S -> Nat] /\ S # {}
    BY DEF Ordered
  <2>2. \E x \in S : \A y \in S : byAge[x] <= byAge[y]
    <3> HIDE DEF byAge, S
    <3> QED
      BY <2>1, LeastBy
  <2> QED
    BY <2>2
<1> DEFINE T == {d \in S : d.createdAt = c.createdAt}
           byId == [d \in T |-> d.id]
<1>3. PICK i \in T : \A e \in T : i.id <= e.id
  <2>1. byId \in [T -> Nat] /\ T # {}
    BY DEF Ordered
  <2>2. \E x \in T : \A y \in T : byId[x] <= byId[y]
    <3> HIDE DEF byId, T
    <3> QED
      BY <2>1, LeastBy
  <2> QED
    BY <2>2
<1>4. ASSUME NEW e \in ds, e # i PROVE Before(i, e)
  <2>1. i \in ds /\ i.priority = p.priority /\ i.createdAt = c.createdAt
    OBVIOUS
  <2>2. i.priority <= e.priority
    BY <1>1, <2>1
  <2>3. e.priority = i.priority => i.createdAt <= e.createdAt
    BY <1>2, <2>1
  <2>4. e.priority = i.priority /\ e.createdAt = i.createdAt => i.id <= e.id
    BY <1>3, <2>1
  <2>5. i.id # e.id
    BY <1>4, <2>1 DEF Ordered
  <2> QED
    BY <2>1, <2>2, <2>3, <2>4, <2>5 DEF Before, Ordered
<1> QED
  BY <1>4

----------------------------------------------------------------------------
(* The inductive invariant.                                                 *)

InService(r) == pc[r] \in {"checking", "pricing", "writing"}
Updating(r) == InService(r) /\ kind[r] = "update"

BaseRecorded(h, b) == \E i \in 1 .. Len(h) : h[i].new.base = b
FinalRecorded(h, f) == \E i \in 1 .. Len(h) : h[i].new.final = f

\* An amount is recorded before the entry i of the trail.
RecordedBefore(h, p, i) ==
    \E j, k \in 1 .. i - 1 : h[j].new.base = p.base /\ h[k].new.final = p.final

\* A request to create names a base price.
CreatesNameABase ==
    \A r \in Requests : InService(r) /\ kind[r] = "create" => asked[r] \in Bases

\* Updates and deletions have found the row, and rows are never taken away.
RowIsThere ==
    \A r \in Requests : Updating(r) \/ pc[r] = "removing" => state # "absent"

\* There is no trail without a row.
TrailOfARow == state = "absent" => history = <<>>

\* The base price in the row, and what updates have read of it, is rounded.
BasesRounded ==
    /\ state # "absent" => base \in Nat /\ RoundTo(base, Unit) = base
    /\ \A r \in Requests :
          Updating(r) => seen[r].base \in Nat /\ RoundTo(seen[r].base, Unit) = seen[r].base

\* What the engine has said.
EngineSaid ==
    \A r \in Requests :
        pc[r] = "writing" =>
            /\ pricing[r].base = RoundTo(BaseFor(r), Unit)
            /\ 0 <= pricing[r].final /\ pricing[r].final <= pricing[r].base

\* What an update has read is in the trail.
SeenIsRecorded ==
    \A r \in Requests :
        Updating(r) => BaseRecorded(history, seen[r].base) /\ FinalRecorded(history, seen[r].final)

\* What the row has is in the trail.
RowIsRecorded ==
    state # "absent" => BaseRecorded(history, base) /\ FinalRecorded(history, final)

\* Requests that do not overlap are alone.
OneAtATime ==
    ~overlapped => \A q, r \in Requests : pc[q] # "idle" /\ pc[r] # "idle" => q = r

\* What an update has read is still there when nothing overlaps.
SeenIsRow ==
    ~overlapped =>
        \A r \in Requests : Updating(r) => seen[r].base = base /\ seen[r].final = final

IInv ==
    /\ TypeOK
    /\ CreatesNameABase
    /\ RowIsThere
    /\ TrailOfARow
    /\ BasesRounded
    /\ EngineSaid
    /\ SeenIsRecorded
    /\ RowIsRecorded
    /\ OneAtATime
    /\ SeenIsRow
    /\ OldAmountsWereNew
    /\ TrailIsComplete
    /\ DiscountsOnlyLower

----------------------------------------------------------------------------
(* Lemmas about the trail.                                                  *)

\* The old trail is a part of a longer one, and the last entry is the new one.
LEMMA AppendedTrail ==
    ASSUME NEW T, NEW h \in Seq(T), NEW e \in T
    PROVE  /\ Append(h, e) \in Seq(T)
           /\ Len(Append(h, e)) = Len(h) + 1
           /\ \A i \in 1 .. Len(h) : Append(h, e)[i] = h[i]
           /\ Append(h, e)[Len(h) + 1] = e
  OBVIOUS

\* What was recorded stays recorded, and the new amounts are.
LEMMA AppendRecords ==
    ASSUME NEW T, NEW h \in Seq(T), NEW e \in T
    PROVE  /\ \A b : BaseRecorded(h, b) => BaseRecorded(Append(h, e), b)
           /\ \A f : FinalRecorded(h, f) => FinalRecorded(Append(h, e), f)
           /\ BaseRecorded(Append(h, e), e.new.base)
           /\ FinalRecorded(Append(h, e), e.new.final)
<1>1. \A i \in 1 .. Len(h) : i \in 1 .. Len(Append(h, e)) /\ Append(h, e)[i] = h[i]
  BY AppendedTrail
<1>2. Len(h) + 1 \in 1 .. Len(Append(h, e)) /\ Append(h, e)[Len(h) + 1] = e
  BY AppendedTrail
<1> QED
  BY <1>1, <1>2 DEF BaseRecorded, FinalRecorded

----------------------------------------------------------------------------
(* Preservation.                                                            *)

\* Nothing has been asked yet.
LEMMA InitHolds == Init => IInv
<1> SUFFICES ASSUME Init PROVE IInv
  OBVIOUS
<1>1. TypeOK
  <2>1. history \in Seq([old : Prices, new : Prices]) /\ 0 \in 0 .. LastDay /\ 0 \in 0 .. MaxRequests
    BY PriceAssumption DEF Init
  <2>2. NoPrice \in Prices
    BY DEF NoPrice, Prices
  <2>3. /\ pc \in [Requests -> PCs] /\ kind \in [Requests -> Kinds]
        /\ asked \in [Requests -> Bases \cup {Keep}]
        /\ seen \in [Requests -> Prices] /\ pricing \in [Requests -> Prices]
    BY <2>2 DEF Init, PCs, Kinds
  <2>4. base \in Int /\ final \in Int /\ enabled \subseteq Discounts
    BY DEF Init
  <2> QED
    BY <2>1, <2>3, <2>4 DEF Init, TypeOK
<1>2. /\ CreatesNameABase /\ RowIsThere /\ BasesRounded /\ EngineSaid /\ SeenIsRecorded
      /\ OneAtATime /\ SeenIsRow
  BY DEF Init, CreatesNameABase, RowIsThere, BasesRounded, EngineSaid, SeenIsRecorded,
         OneAtATime, SeenIsRow, InService, Updating
<1>3. TrailOfARow /\ RowIsRecorded /\ OldAmountsWereNew /\ TrailIsComplete /\ DiscountsOnlyLower
  BY DEF Init, TrailOfARow, RowIsRecorded, OldAmountsWereNew, TrailIsComplete, DiscountsOnlyLower
<1> QED
  BY <1>1, <1>2, <1>3 DEF IInv

\* What an update is calculated from is an amount.
LEMMA BaseForType ==
    ASSUME IInv, NEW r \in Requests, InService(r)
    PROVE  BaseFor(r) \in Nat
<1>1. CASE asked[r] = Keep
  BY <1>1, PriceAssumption DEF IInv, TypeOK, CreatesNameABase, BasesRounded, Updating, InService,
                               BaseFor, Kinds
<1>2. CASE asked[r] # Keep
  BY <1>2, PriceAssumption DEF IInv, TypeOK, BaseFor
<1> QED
  BY <1>1, <1>2

\* What the engine gives an update or a creation.
LEMMA PreviewGives ==
    ASSUME IInv, NEW r \in Requests, Preview(r)
    PROVE  /\ pricing'[r] \in Prices
           /\ pricing'[r].base = RoundTo(BaseFor(r), Unit)
           /\ 0 <= pricing'[r].final /\ pricing'[r].final <= pricing'[r].base
<1> DEFINE f == FinalPrice(BaseFor(r), enabled, Context, today, Unit)
<1>1. BaseFor(r) \in Nat /\ RoundTo(BaseFor(r), Unit) \in Int
  BY BaseForType, RoundToType, PriceAssumption DEF Preview, InService
<1>2. f \in Int /\ 0 <= f /\ f <= RoundTo(BaseFor(r), Unit)
  BY <1>1, FinalPriceBounds, PriceAssumption DEF IInv, TypeOK
<1>3. pricing'[r] = [base |-> RoundTo(BaseFor(r), Unit), final |-> f]
  BY DEF Preview, IInv, TypeOK
<1> HIDE DEF f
<1> QED
  BY <1>1, <1>2, <1>3 DEF Prices

\* What a transaction writes: the base price it was calculated from, or the one
\* that is there, and an entry of the right type.
LEMMA WriteWrites ==
    ASSUME IInv, NEW r \in Requests, pc[r] = "writing"
    PROVE  /\ asked[r] # Keep => /\ RoundTo(asked[r], Unit) \in Nat
                                 /\ RoundTo(RoundTo(asked[r], Unit), Unit) = RoundTo(asked[r], Unit)
                                 /\ pricing[r].base = RoundTo(asked[r], Unit)
           /\ asked[r] = Keep => /\ kind[r] = "update"
                                 /\ pricing[r].base = seen[r].base
           /\ pricing[r] \in Prices /\ seen[r] \in Prices
<1> USE DEF IInv, TypeOK
<1>1. asked[r] # Keep => asked[r] \in Nat
  BY PriceAssumption
<1>2. pricing[r].base = RoundTo(BaseFor(r), Unit)
  BY DEF EngineSaid
<1>3. asked[r] = Keep => kind[r] = "update" /\ RoundTo(seen[r].base, Unit) = seen[r].base
  BY PriceAssumption DEF CreatesNameABase, InService, Updating, BasesRounded, Kinds
<1>4. asked[r] # Keep => /\ RoundTo(asked[r], Unit) \in Nat
                         /\ RoundTo(RoundTo(asked[r], Unit), Unit) = RoundTo(asked[r], Unit)
  <2> SUFFICES ASSUME asked[r] # Keep
               PROVE  /\ RoundTo(asked[r], Unit) \in Nat
                      /\ RoundTo(RoundTo(asked[r], Unit), Unit) = RoundTo(asked[r], Unit)
    OBVIOUS
  <2>1. asked[r] \in Int /\ asked[r] >= 0 /\ Unit \in Nat \ {0}
    BY <1>1, PriceAssumption
  <2>2. RoundTo(asked[r], Unit) \in Int /\ RoundTo(asked[r], Unit) >= 0
    BY <2>1, RoundToType
  <2> QED
    BY <2>1, <2>2, RoundToIdempotent
<1> QED
  BY <1>2, <1>3, <1>4 DEF BaseFor

\* Types.
LEMMA TypeStep == IInv /\ [Next]_vars => TypeOK'
<1> SUFFICES ASSUME IInv, [Next]_vars PROVE TypeOK'
  OBVIOUS
<1>a. ASSUME NEW r \in Requests, Done(r)
      PROVE  /\ pc' \in [Requests -> PCs] /\ kind' \in [Requests -> Kinds]
             /\ asked' \in [Requests -> Bases \cup {Keep}]
             /\ seen' \in [Requests -> Prices] /\ pricing' \in [Requests -> Prices]
  BY <1>a DEF IInv, TypeOK, Done, PCs, Kinds, Prices, NoPrice
<1> USE DEF IInv, TypeOK
<1>1. ASSUME NEW r \in Requests, NEW b \in Bases, Create(r, b) PROVE TypeOK'
  BY <1>1, PriceAssumption DEF Create, Start, Arrive, row, world, PCs, Kinds, Prices, NoPrice
<1>2. ASSUME NEW r \in Requests, NEW b \in Bases \cup {Keep}, Update(r, b) PROVE TypeOK'
  BY <1>2, PriceAssumption DEF Update, Start, Arrive, row, world, PCs, Kinds, Prices
<1>3. ASSUME NEW r \in Requests, CheckReferences(r) PROVE TypeOK'
  BY <1>3, <1>a DEF CheckReferences, row, world, locals, PCs
<1>4. ASSUME NEW r \in Requests, Preview(r) PROVE TypeOK'
  BY <1>4, PreviewGives DEF Preview, row, world, PCs
<1>5. ASSUME NEW r \in Requests, Insert(r) PROVE TypeOK'
  <2> DEFINE e == [old |-> NoPrice, new |-> [base |-> base', final |-> final']]
  <2>1. base' \in Int /\ final' \in Int
    BY <1>5, WriteWrites, PriceAssumption DEF Insert, Prices
  <2>2. e \in [old : Prices, new : Prices]
    BY <2>1 DEF Prices, NoPrice
  <2>3. history' = Append(history, e)
    BY <1>5 DEF Insert
  <2> HIDE DEF e
  <2>4. history' \in Seq([old : Prices, new : Prices])
    BY <2>2, <2>3, AppendedTrail
  <2> QED
    BY <1>5, <1>a, <2>1, <2>4 DEF Insert, world
<1>6. ASSUME NEW r \in Requests, InsertConflict(r) PROVE TypeOK'
  BY <1>6, <1>a DEF InsertConflict, row, world
<1>7. ASSUME NEW r \in Requests, Write(r) PROVE TypeOK'
  <2>1. base' \in Int /\ final' \in Int
    BY <1>7, WriteWrites DEF Write, BaseWritten, Prices
  <2>2. Entry(r) \in [old : Prices, new : Prices]
    BY <1>7, WriteWrites DEF Write, Entry
  <2>3. history' \in Seq([old : Prices, new : Prices])
    BY <1>7, <2>2, AppendedTrail DEF Write
  <2> QED
    BY <1>7, <1>a, <2>1, <2>3 DEF Write, world
<1>8. ASSUME NEW r \in Requests, Remove(r) PROVE TypeOK'
  BY <1>8, PriceAssumption DEF Remove, Arrive, row, world, PCs
<1>9. ASSUME NEW r \in Requests, SoftDelete(r) PROVE TypeOK'
  BY <1>9, <1>a DEF SoftDelete, row, world
<1>10. ASSUME NEW r \in Requests, Fail(r) PROVE TypeOK'
  BY <1>10, <1>a DEF Fail, row, world
<1>11. ASSUME NEW d \in Discounts, SwitchDiscount(d) PROVE TypeOK'
  BY <1>11 DEF SwitchDiscount, row, locals
<1>12. ASSUME DeleteReference PROVE TypeOK'
  BY <1>12 DEF DeleteReference, row, locals
<1>13. ASSUME NextDay PROVE TypeOK'
  BY <1>13, PriceAssumption DEF NextDay, row, locals
<1>14. CASE UNCHANGED vars
  BY <1>14 DEF vars, row, world, locals
<1> QED
  BY <1>1, <1>2, <1>3, <1>4, <1>5, <1>6, <1>7,
     <1>8, <1>9, <1>10, <1>11, <1>12, <1>13, <1>14 DEF Next

\* The schema of create requires the base price.
LEMMA CreatesStep == IInv /\ [Next]_vars => CreatesNameABase'
<1> SUFFICES ASSUME IInv, [Next]_vars PROVE CreatesNameABase'
  OBVIOUS
<1> USE DEF IInv, TypeOK, CreatesNameABase, InService
<1>1. ASSUME NEW r \in Requests, NEW b \in Bases, Create(r, b) PROVE CreatesNameABase'
  BY <1>1 DEF Create, Start, Arrive, row, world
<1>2. ASSUME NEW r \in Requests, NEW b \in Bases \cup {Keep}, Update(r, b) PROVE CreatesNameABase'
  BY <1>2 DEF Update, Start, Arrive, row, world
<1>3. ASSUME NEW r \in Requests, CheckReferences(r) PROVE CreatesNameABase'
  BY <1>3 DEF CheckReferences, Done, locals, row, world
<1>4. ASSUME NEW r \in Requests, Preview(r) PROVE CreatesNameABase'
  BY <1>4 DEF Preview, row, world
<1>5. ASSUME NEW r \in Requests, Insert(r) PROVE CreatesNameABase'
  BY <1>5 DEF Insert, Done, row, world
<1>6. ASSUME NEW r \in Requests, InsertConflict(r) PROVE CreatesNameABase'
  BY <1>6 DEF InsertConflict, Done, row, world
<1>7. ASSUME NEW r \in Requests, Write(r) PROVE CreatesNameABase'
  BY <1>7 DEF Write, Done, row, world
<1>8. ASSUME NEW r \in Requests, Remove(r) PROVE CreatesNameABase'
  BY <1>8 DEF Remove, Arrive, row, world
<1>9. ASSUME NEW r \in Requests, SoftDelete(r) PROVE CreatesNameABase'
  BY <1>9 DEF SoftDelete, Done, row, world
<1>10. ASSUME NEW r \in Requests, Fail(r) PROVE CreatesNameABase'
  BY <1>10 DEF Fail, Done, row, world
<1>11. ASSUME NEW d \in Discounts, SwitchDiscount(d) PROVE CreatesNameABase'
  BY <1>11 DEF SwitchDiscount, locals, row, world
<1>12. ASSUME DeleteReference PROVE CreatesNameABase'
  BY <1>12 DEF DeleteReference, locals, row, world
<1>13. ASSUME NextDay PROVE CreatesNameABase'
  BY <1>13 DEF NextDay, locals, row, world
<1>14. CASE UNCHANGED vars
  BY <1>14 DEF vars, locals, row, world
<1> QED
  BY <1>1, <1>2, <1>3, <1>4, <1>5, <1>6, <1>7,
     <1>8, <1>9, <1>10, <1>11, <1>12, <1>13, <1>14 DEF Next

\* No step takes a row away.
LEMMA RowStep == IInv /\ [Next]_vars => RowIsThere'
<1> SUFFICES ASSUME IInv, [Next]_vars PROVE RowIsThere'
  OBVIOUS
<1> USE DEF IInv, TypeOK, RowIsThere, InService, Updating
<1>1. ASSUME NEW r \in Requests, NEW b \in Bases, Create(r, b) PROVE RowIsThere'
  BY <1>1 DEF Create, Start, Arrive, row, world
<1>2. ASSUME NEW r \in Requests, NEW b \in Bases \cup {Keep}, Update(r, b) PROVE RowIsThere'
  BY <1>2 DEF Update, Start, Arrive, row, world
<1>3. ASSUME NEW r \in Requests, CheckReferences(r) PROVE RowIsThere'
  BY <1>3 DEF CheckReferences, Done, locals, row, world
<1>4. ASSUME NEW r \in Requests, Preview(r) PROVE RowIsThere'
  BY <1>4 DEF Preview, row, world
<1>5. ASSUME NEW r \in Requests, Insert(r) PROVE RowIsThere'
  BY <1>5 DEF Insert, Done, row, world
<1>6. ASSUME NEW r \in Requests, InsertConflict(r) PROVE RowIsThere'
  BY <1>6 DEF InsertConflict, Done, row, world
<1>7. ASSUME NEW r \in Requests, Write(r) PROVE RowIsThere'
  BY <1>7 DEF Write, Done, row, world
<1>8. ASSUME NEW r \in Requests, Remove(r) PROVE RowIsThere'
  BY <1>8 DEF Remove, Arrive, row, world
<1>9. ASSUME NEW r \in Requests, SoftDelete(r) PROVE RowIsThere'
  BY <1>9 DEF SoftDelete, Done, row, world
<1>10. ASSUME NEW r \in Requests, Fail(r) PROVE RowIsThere'
  BY <1>10 DEF Fail, Done, row, world
<1>11. ASSUME NEW d \in Discounts, SwitchDiscount(d) PROVE RowIsThere'
  BY <1>11 DEF SwitchDiscount, locals, row, world
<1>12. ASSUME DeleteReference PROVE RowIsThere'
  BY <1>12 DEF DeleteReference, locals, row, world
<1>13. ASSUME NextDay PROVE RowIsThere'
  BY <1>13 DEF NextDay, locals, row, world
<1>14. CASE UNCHANGED vars
  BY <1>14 DEF vars, locals, row, world
<1> QED
  BY <1>1, <1>2, <1>3, <1>4, <1>5, <1>6, <1>7,
     <1>8, <1>9, <1>10, <1>11, <1>12, <1>13, <1>14 DEF Next

\* The transaction of create makes the row and its first entry; the one of update
\* only runs when there is a row.
LEMMA TrailStep == IInv /\ [Next]_vars => TrailOfARow'
<1> SUFFICES ASSUME IInv, [Next]_vars PROVE TrailOfARow'
  OBVIOUS
<1> USE DEF IInv, TypeOK, TrailOfARow, RowIsThere, InService, Updating
<1>1. ASSUME NEW r \in Requests, NEW b \in Bases, Create(r, b) PROVE TrailOfARow'
  BY <1>1 DEF Create, Start, Arrive, row, world
<1>2. ASSUME NEW r \in Requests, NEW b \in Bases \cup {Keep}, Update(r, b) PROVE TrailOfARow'
  BY <1>2 DEF Update, Start, Arrive, row, world
<1>3. ASSUME NEW r \in Requests, CheckReferences(r) PROVE TrailOfARow'
  BY <1>3 DEF CheckReferences, Done, locals, row, world
<1>4. ASSUME NEW r \in Requests, Preview(r) PROVE TrailOfARow'
  BY <1>4 DEF Preview, row, world
<1>5. ASSUME NEW r \in Requests, Insert(r) PROVE TrailOfARow'
  BY <1>5 DEF Insert, Done, row, world
<1>6. ASSUME NEW r \in Requests, InsertConflict(r) PROVE TrailOfARow'
  BY <1>6 DEF InsertConflict, Done, row, world
<1>7. ASSUME NEW r \in Requests, Write(r) PROVE TrailOfARow'
  BY <1>7 DEF Write, Done, world, Kinds
<1>8. ASSUME NEW r \in Requests, Remove(r) PROVE TrailOfARow'
  BY <1>8 DEF Remove, Arrive, row, world
<1>9. ASSUME NEW r \in Requests, SoftDelete(r) PROVE TrailOfARow'
  BY <1>9 DEF SoftDelete, Done, row, world
<1>10. ASSUME NEW r \in Requests, Fail(r) PROVE TrailOfARow'
  BY <1>10 DEF Fail, Done, row, world
<1>11. ASSUME NEW d \in Discounts, SwitchDiscount(d) PROVE TrailOfARow'
  BY <1>11 DEF SwitchDiscount, locals, row, world
<1>12. ASSUME DeleteReference PROVE TrailOfARow'
  BY <1>12 DEF DeleteReference, locals, row, world
<1>13. ASSUME NextDay PROVE TrailOfARow'
  BY <1>13 DEF NextDay, locals, row, world
<1>14. CASE UNCHANGED vars
  BY <1>14 DEF vars, locals, row, world
<1> QED
  BY <1>1, <1>2, <1>3, <1>4, <1>5, <1>6, <1>7,
     <1>8, <1>9, <1>10, <1>11, <1>12, <1>13, <1>14 DEF Next

\* The column rounds what is written.
LEMMA RoundedStep == IInv /\ [Next]_vars => BasesRounded'
<1> SUFFICES ASSUME IInv, [Next]_vars PROVE BasesRounded'
  OBVIOUS
<1> USE DEF IInv, TypeOK, BasesRounded, RowIsThere, InService, Updating, Kinds
<1>1. ASSUME NEW r \in Requests, NEW b \in Bases, Create(r, b) PROVE BasesRounded'
  BY <1>1 DEF Create, Start, Arrive, row, world
<1>2. ASSUME NEW r \in Requests, NEW b \in Bases \cup {Keep}, Update(r, b) PROVE BasesRounded'
  BY <1>2 DEF Update, Start, Arrive, row, world
<1>3. ASSUME NEW r \in Requests, CheckReferences(r) PROVE BasesRounded'
  BY <1>3 DEF CheckReferences, Done, locals, row, world
<1>4. ASSUME NEW r \in Requests, Preview(r) PROVE BasesRounded'
  BY <1>4 DEF Preview, row, world
<1>5. ASSUME NEW r \in Requests, Insert(r) PROVE BasesRounded'
  <2>1. asked[r] # Keep
    BY <1>5, PriceAssumption DEF Insert, CreatesNameABase
  <2>2. base' \in Nat /\ RoundTo(base', Unit) = base'
    BY <1>5, <2>1, WriteWrites DEF Insert
  <2> QED
    BY <1>5, <2>2 DEF Insert, Done, world
<1>6. ASSUME NEW r \in Requests, InsertConflict(r) PROVE BasesRounded'
  BY <1>6 DEF InsertConflict, Done, row, world
<1>7. ASSUME NEW r \in Requests, Write(r) PROVE BasesRounded'
  <2>1. base' \in Nat /\ RoundTo(base', Unit) = base'
    BY <1>7, WriteWrites DEF Write, BaseWritten
  <2> QED
    BY <1>7, <2>1 DEF Write, Done, world
<1>8. ASSUME NEW r \in Requests, Remove(r) PROVE BasesRounded'
  BY <1>8 DEF Remove, Arrive, row, world
<1>9. ASSUME NEW r \in Requests, SoftDelete(r) PROVE BasesRounded'
  BY <1>9 DEF SoftDelete, Done, row, world
<1>10. ASSUME NEW r \in Requests, Fail(r) PROVE BasesRounded'
  BY <1>10 DEF Fail, Done, row, world
<1>11. ASSUME NEW d \in Discounts, SwitchDiscount(d) PROVE BasesRounded'
  BY <1>11 DEF SwitchDiscount, locals, row, world
<1>12. ASSUME DeleteReference PROVE BasesRounded'
  BY <1>12 DEF DeleteReference, locals, row, world
<1>13. ASSUME NextDay PROVE BasesRounded'
  BY <1>13 DEF NextDay, locals, row, world
<1>14. CASE UNCHANGED vars
  BY <1>14 DEF vars, locals, row, world
<1> QED
  BY <1>1, <1>2, <1>3, <1>4, <1>5, <1>6, <1>7,
     <1>8, <1>9, <1>10, <1>11, <1>12, <1>13, <1>14 DEF Next

\* Only the engine sets what a request is about to write.
LEMMA EngineStep == IInv /\ [Next]_vars => EngineSaid'
<1> SUFFICES ASSUME IInv, [Next]_vars PROVE EngineSaid'
  OBVIOUS
<1> USE DEF IInv, TypeOK, EngineSaid, InService
<1>1. ASSUME NEW r \in Requests, NEW b \in Bases, Create(r, b) PROVE EngineSaid'
  BY <1>1 DEF Create, Start, Arrive, row, world, BaseFor
<1>2. ASSUME NEW r \in Requests, NEW b \in Bases \cup {Keep}, Update(r, b) PROVE EngineSaid'
  BY <1>2 DEF Update, Start, Arrive, row, world, BaseFor
<1>3. ASSUME NEW r \in Requests, CheckReferences(r) PROVE EngineSaid'
  BY <1>3 DEF CheckReferences, Done, locals, row, world, BaseFor
<1>4. ASSUME NEW r \in Requests, Preview(r) PROVE EngineSaid'
  <2>1. BaseFor(r)' = BaseFor(r) /\ \A q \in Requests \ {r} : BaseFor(q)' = BaseFor(q)
    BY <1>4 DEF Preview, BaseFor
  <2>2. \A q \in Requests \ {r} : pc'[q] = pc[q] /\ pricing'[q] = pricing[q]
    BY <1>4 DEF Preview
  <2> QED
    BY <1>4, <2>1, <2>2, PreviewGives
<1>5. ASSUME NEW r \in Requests, Insert(r) PROVE EngineSaid'
  BY <1>5 DEF Insert, Done, row, world, BaseFor
<1>6. ASSUME NEW r \in Requests, InsertConflict(r) PROVE EngineSaid'
  BY <1>6 DEF InsertConflict, Done, row, world, BaseFor
<1>7. ASSUME NEW r \in Requests, Write(r) PROVE EngineSaid'
  BY <1>7 DEF Write, Done, row, world, BaseFor
<1>8. ASSUME NEW r \in Requests, Remove(r) PROVE EngineSaid'
  BY <1>8 DEF Remove, Arrive, row, world, BaseFor
<1>9. ASSUME NEW r \in Requests, SoftDelete(r) PROVE EngineSaid'
  BY <1>9 DEF SoftDelete, Done, row, world, BaseFor
<1>10. ASSUME NEW r \in Requests, Fail(r) PROVE EngineSaid'
  BY <1>10 DEF Fail, Done, row, world, BaseFor
<1>11. ASSUME NEW d \in Discounts, SwitchDiscount(d) PROVE EngineSaid'
  BY <1>11 DEF SwitchDiscount, locals, row, world, BaseFor
<1>12. ASSUME DeleteReference PROVE EngineSaid'
  BY <1>12 DEF DeleteReference, locals, row, world, BaseFor
<1>13. ASSUME NextDay PROVE EngineSaid'
  BY <1>13 DEF NextDay, locals, row, world, BaseFor
<1>14. CASE UNCHANGED vars
  BY <1>14 DEF vars, locals, row, world, BaseFor
<1> QED
  BY <1>1, <1>2, <1>3, <1>4, <1>5, <1>6, <1>7,
     <1>8, <1>9, <1>10, <1>11, <1>12, <1>13, <1>14 DEF Next

\* The trail only grows, and the transaction leaves it unless it has changed an amount.
LEMMA TrailGrows ==
    ASSUME IInv, NEW r \in Requests, Insert(r) \/ Write(r)
    PROVE  /\ \A b : BaseRecorded(history, b) => BaseRecorded(history', b)
           /\ \A f : FinalRecorded(history, f) => FinalRecorded(history', f)
           /\ BaseRecorded(history', base') /\ FinalRecorded(history', final')
<1> USE DEF IInv, TypeOK
<1> DEFINE E == [old : Prices, new : Prices]
<1>0. history \in Seq(E)
  OBVIOUS
<1>1. CASE Insert(r)
  <2> DEFINE e == [old |-> NoPrice, new |-> [base |-> base', final |-> final']]
  <2>1. asked[r] # Keep /\ base' \in Int /\ final' \in Int
    BY <1>1, WriteWrites, PriceAssumption DEF Insert, CreatesNameABase, InService, Prices
  <2>2. e \in E /\ e.new.base = base' /\ e.new.final = final'
    BY <2>1 DEF Prices, NoPrice
  <2>3. history' = Append(history, e)
    BY <1>1 DEF Insert
  <2> HIDE DEF e, E
  <2> QED
    BY <1>0, <2>2, <2>3, AppendRecords
<1>2. CASE Write(r)
  <2>1. Entry(r) \in E /\ Entry(r).new = pricing[r]
    BY <1>2, WriteWrites DEF Write, Entry
  <2>2. BaseRecorded(history, seen[r].base) /\ FinalRecorded(history, seen[r].final)
    BY <1>2 DEF Write, SeenIsRecorded, Updating, InService
  <2>3. BaseRecorded(history, base)
    BY <1>2 DEF Write, RowIsRecorded, RowIsThere, Updating, InService
  <2>4. final' = pricing[r].final /\ (asked[r] # Keep => base' = pricing[r].base)
        /\ (asked[r] = Keep => base' = base)
    BY <1>2, WriteWrites DEF Write, BaseWritten
  <2>5. CASE Changed(r)
    <3>1. history' = Append(history, Entry(r))
      BY <1>2, <2>5 DEF Write
    <3> HIDE DEF E
    <3>2. /\ \A b : BaseRecorded(history, b) => BaseRecorded(history', b)
          /\ \A f : FinalRecorded(history, f) => FinalRecorded(history', f)
          /\ BaseRecorded(history', pricing[r].base)
          /\ FinalRecorded(history', pricing[r].final)
      BY <1>0, <2>1, <3>1, AppendRecords
    <3> QED
      BY <2>3, <2>4, <3>2
  <2>6. CASE ~Changed(r)
    <3>1. history' = history /\ seen[r].base = pricing[r].base /\ seen[r].final = pricing[r].final
      BY <1>2, <2>6 DEF Write, Changed
    <3> QED
      BY <2>2, <2>3, <2>4, <3>1
  <2> QED
    BY <2>5, <2>6
<1> QED
  BY <1>1, <1>2

\* An update reads amounts that are recorded, and the trail only grows.
LEMMA SeenRecordedStep == IInv /\ [Next]_vars => SeenIsRecorded'
<1> SUFFICES ASSUME IInv, [Next]_vars PROVE SeenIsRecorded'
  OBVIOUS
<1> USE DEF IInv, TypeOK, SeenIsRecorded, InService, Updating
<1>1. ASSUME NEW r \in Requests, NEW b \in Bases, Create(r, b) PROVE SeenIsRecorded'
  BY <1>1 DEF Create, Start, Arrive, row, world
<1>2. ASSUME NEW r \in Requests, NEW b \in Bases \cup {Keep}, Update(r, b) PROVE SeenIsRecorded'
  BY <1>2 DEF Update, Start, Arrive, row, world, RowIsRecorded
<1>3. ASSUME NEW r \in Requests, CheckReferences(r) PROVE SeenIsRecorded'
  BY <1>3 DEF CheckReferences, Done, locals, row, world
<1>4. ASSUME NEW r \in Requests, Preview(r) PROVE SeenIsRecorded'
  BY <1>4 DEF Preview, row, world
<1>5. ASSUME NEW r \in Requests, Insert(r) PROVE SeenIsRecorded'
  BY <1>5, TrailGrows DEF Insert, Done, world
<1>6. ASSUME NEW r \in Requests, InsertConflict(r) PROVE SeenIsRecorded'
  BY <1>6 DEF InsertConflict, Done, row, world
<1>7. ASSUME NEW r \in Requests, Write(r) PROVE SeenIsRecorded'
  BY <1>7, TrailGrows DEF Write, Done, world
<1>8. ASSUME NEW r \in Requests, Remove(r) PROVE SeenIsRecorded'
  BY <1>8 DEF Remove, Arrive, row, world
<1>9. ASSUME NEW r \in Requests, SoftDelete(r) PROVE SeenIsRecorded'
  BY <1>9 DEF SoftDelete, Done, row, world
<1>10. ASSUME NEW r \in Requests, Fail(r) PROVE SeenIsRecorded'
  BY <1>10 DEF Fail, Done, row, world
<1>11. ASSUME NEW d \in Discounts, SwitchDiscount(d) PROVE SeenIsRecorded'
  BY <1>11 DEF SwitchDiscount, locals, row, world
<1>12. ASSUME DeleteReference PROVE SeenIsRecorded'
  BY <1>12 DEF DeleteReference, locals, row, world
<1>13. ASSUME NextDay PROVE SeenIsRecorded'
  BY <1>13 DEF NextDay, locals, row, world
<1>14. CASE UNCHANGED vars
  BY <1>14 DEF vars, locals, row, world
<1> QED
  BY <1>1, <1>2, <1>3, <1>4, <1>5, <1>6, <1>7,
     <1>8, <1>9, <1>10, <1>11, <1>12, <1>13, <1>14 DEF Next

\* The row gets amounts that are recorded.
LEMMA RowRecordedStep == IInv /\ [Next]_vars => RowIsRecorded'
<1> SUFFICES ASSUME IInv, [Next]_vars PROVE RowIsRecorded'
  OBVIOUS
<1> USE DEF IInv, TypeOK, RowIsRecorded
<1>1. ASSUME NEW r \in Requests, NEW b \in Bases, Create(r, b) PROVE RowIsRecorded'
  BY <1>1 DEF Create, Start, Arrive, row, world
<1>2. ASSUME NEW r \in Requests, NEW b \in Bases \cup {Keep}, Update(r, b) PROVE RowIsRecorded'
  BY <1>2 DEF Update, Start, Arrive, row, world
<1>3. ASSUME NEW r \in Requests, CheckReferences(r) PROVE RowIsRecorded'
  BY <1>3 DEF CheckReferences, Done, locals, row, world
<1>4. ASSUME NEW r \in Requests, Preview(r) PROVE RowIsRecorded'
  BY <1>4 DEF Preview, row, world
<1>5. ASSUME NEW r \in Requests, Insert(r) PROVE RowIsRecorded'
  BY <1>5, TrailGrows
<1>6. ASSUME NEW r \in Requests, InsertConflict(r) PROVE RowIsRecorded'
  BY <1>6 DEF InsertConflict, Done, row, world
<1>7. ASSUME NEW r \in Requests, Write(r) PROVE RowIsRecorded'
  BY <1>7, TrailGrows
<1>8. ASSUME NEW r \in Requests, Remove(r) PROVE RowIsRecorded'
  BY <1>8 DEF Remove, Arrive, row, world
<1>9. ASSUME NEW r \in Requests, SoftDelete(r) PROVE RowIsRecorded'
  BY <1>9 DEF SoftDelete, RowIsThere
<1>10. ASSUME NEW r \in Requests, Fail(r) PROVE RowIsRecorded'
  BY <1>10 DEF Fail, Done, row, world
<1>11. ASSUME NEW d \in Discounts, SwitchDiscount(d) PROVE RowIsRecorded'
  BY <1>11 DEF SwitchDiscount, locals, row, world
<1>12. ASSUME DeleteReference PROVE RowIsRecorded'
  BY <1>12 DEF DeleteReference, locals, row, world
<1>13. ASSUME NextDay PROVE RowIsRecorded'
  BY <1>13 DEF NextDay, locals, row, world
<1>14. CASE UNCHANGED vars
  BY <1>14 DEF vars, locals, row, world
<1> QED
  BY <1>1, <1>2, <1>3, <1>4, <1>5, <1>6, <1>7,
     <1>8, <1>9, <1>10, <1>11, <1>12, <1>13, <1>14 DEF Next

\* A request that arrives while another one is under way sets overlapped.
LEMMA AloneStep == IInv /\ [Next]_vars => OneAtATime'
<1> SUFFICES ASSUME IInv, [Next]_vars PROVE OneAtATime'
  OBVIOUS
<1> USE DEF IInv, TypeOK, OneAtATime
<1>1. ASSUME NEW r \in Requests, NEW b \in Bases, Create(r, b) PROVE OneAtATime'
  BY <1>1 DEF Create, Start, Arrive, row, world
<1>2. ASSUME NEW r \in Requests, NEW b \in Bases \cup {Keep}, Update(r, b) PROVE OneAtATime'
  BY <1>2 DEF Update, Start, Arrive, row, world
<1>3. ASSUME NEW r \in Requests, CheckReferences(r) PROVE OneAtATime'
  BY <1>3 DEF CheckReferences, Done, locals, row, world
<1>4. ASSUME NEW r \in Requests, Preview(r) PROVE OneAtATime'
  BY <1>4 DEF Preview, row, world
<1>5. ASSUME NEW r \in Requests, Insert(r) PROVE OneAtATime'
  BY <1>5 DEF Insert, Done, row, world
<1>6. ASSUME NEW r \in Requests, InsertConflict(r) PROVE OneAtATime'
  BY <1>6 DEF InsertConflict, Done, row, world
<1>7. ASSUME NEW r \in Requests, Write(r) PROVE OneAtATime'
  BY <1>7 DEF Write, Done, row, world
<1>8. ASSUME NEW r \in Requests, Remove(r) PROVE OneAtATime'
  BY <1>8 DEF Remove, Arrive, row, world
<1>9. ASSUME NEW r \in Requests, SoftDelete(r) PROVE OneAtATime'
  BY <1>9 DEF SoftDelete, Done, row, world
<1>10. ASSUME NEW r \in Requests, Fail(r) PROVE OneAtATime'
  BY <1>10 DEF Fail, Done, row, world
<1>11. ASSUME NEW d \in Discounts, SwitchDiscount(d) PROVE OneAtATime'
  BY <1>11 DEF SwitchDiscount, locals, row, world
<1>12. ASSUME DeleteReference PROVE OneAtATime'
  BY <1>12 DEF DeleteReference, locals, row, world
<1>13. ASSUME NextDay PROVE OneAtATime'
  BY <1>13 DEF NextDay, locals, row, world
<1>14. CASE UNCHANGED vars
  BY <1>14 DEF vars, locals, row, world
<1> QED
  BY <1>1, <1>2, <1>3, <1>4, <1>5, <1>6, <1>7,
     <1>8, <1>9, <1>10, <1>11, <1>12, <1>13, <1>14 DEF Next

\* Only a transaction changes the row, and it ends the only request there is.
LEMMA SeenRowStep == IInv /\ [Next]_vars => SeenIsRow'
<1> SUFFICES ASSUME IInv, [Next]_vars PROVE SeenIsRow'
  OBVIOUS
<1> USE DEF IInv, TypeOK, SeenIsRow, OneAtATime, InService, Updating
<1>1. ASSUME NEW r \in Requests, NEW b \in Bases, Create(r, b) PROVE SeenIsRow'
  BY <1>1 DEF Create, Start, Arrive, row, world
<1>2. ASSUME NEW r \in Requests, NEW b \in Bases \cup {Keep}, Update(r, b) PROVE SeenIsRow'
  BY <1>2 DEF Update, Start, Arrive, row, world
<1>3. ASSUME NEW r \in Requests, CheckReferences(r) PROVE SeenIsRow'
  BY <1>3 DEF CheckReferences, Done, locals, row, world
<1>4. ASSUME NEW r \in Requests, Preview(r) PROVE SeenIsRow'
  BY <1>4 DEF Preview, row, world
<1>5. ASSUME NEW r \in Requests, Insert(r) PROVE SeenIsRow'
  BY <1>5 DEF Insert, Done, row, world
<1>6. ASSUME NEW r \in Requests, InsertConflict(r) PROVE SeenIsRow'
  BY <1>6 DEF InsertConflict, Done, row, world
<1>7. ASSUME NEW r \in Requests, Write(r) PROVE SeenIsRow'
  BY <1>7 DEF Write, Done, row, world
<1>8. ASSUME NEW r \in Requests, Remove(r) PROVE SeenIsRow'
  BY <1>8 DEF Remove, Arrive, row, world
<1>9. ASSUME NEW r \in Requests, SoftDelete(r) PROVE SeenIsRow'
  BY <1>9 DEF SoftDelete, Done, row, world
<1>10. ASSUME NEW r \in Requests, Fail(r) PROVE SeenIsRow'
  BY <1>10 DEF Fail, Done, row, world
<1>11. ASSUME NEW d \in Discounts, SwitchDiscount(d) PROVE SeenIsRow'
  BY <1>11 DEF SwitchDiscount, locals, row, world
<1>12. ASSUME DeleteReference PROVE SeenIsRow'
  BY <1>12 DEF DeleteReference, locals, row, world
<1>13. ASSUME NextDay PROVE SeenIsRow'
  BY <1>13 DEF NextDay, locals, row, world
<1>14. CASE UNCHANGED vars
  BY <1>14 DEF vars, locals, row, world
<1> QED
  BY <1>1, <1>2, <1>3, <1>4, <1>5, <1>6, <1>7,
     <1>8, <1>9, <1>10, <1>11, <1>12, <1>13, <1>14 DEF Next

\* An entry whose old amounts are recorded keeps OldAmountsWereNew.
LEMMA OldAmountsAppended ==
    ASSUME IInv, NEW e \in [old : Prices, new : Prices], history' = Append(history, e),
           \/ e.old = NoPrice
           \/ BaseRecorded(history, e.old.base) /\ FinalRecorded(history, e.old.final)
    PROVE  OldAmountsWereNew'
<1> USE DEF IInv, TypeOK, OldAmountsWereNew
<1> DEFINE n == Len(history)
<1>1. /\ n \in Nat /\ Len(history') = n + 1 /\ history'[n + 1] = e
      /\ \A i \in 1 .. n : history'[i] = history[i]
  BY AppendedTrail
<1> HIDE DEF n
<1>2. ASSUME NEW i \in 1 .. n, history'[i].old # NoPrice
      PROVE  \E h, k \in 1 .. i - 1 : /\ history'[h].new.base = history'[i].old.base
                                      /\ history'[k].new.final = history'[i].old.final
  <2>1. PICK h \in 1 .. i - 1, k \in 1 .. i - 1 :
            history[h].new.base = history[i].old.base /\ history[k].new.final = history[i].old.final
    BY <1>1, <1>2 DEF n
  <2>2. h \in 1 .. n /\ k \in 1 .. n
    BY <1>1
  <2> QED
    BY <1>1, <2>1, <2>2
<1>3. ASSUME e.old # NoPrice
      PROVE  \E h, k \in 1 .. n : /\ history'[h].new.base = e.old.base
                                  /\ history'[k].new.final = e.old.final
  <2>1. PICK h \in 1 .. n, k \in 1 .. n :
            history[h].new.base = e.old.base /\ history[k].new.final = e.old.final
    BY <1>3 DEF BaseRecorded, FinalRecorded, n
  <2> QED
    BY <1>1, <2>1
<1>4. ASSUME NEW i \in 1 .. n + 1, history'[i].old # NoPrice
      PROVE  \E h, k \in 1 .. i - 1 : /\ history'[h].new.base = history'[i].old.base
                                      /\ history'[k].new.final = history'[i].old.final
  <2>1. CASE i = n + 1
    <3>1. i - 1 = n /\ history'[i] = e
      BY <1>1, <2>1
    <3> QED
      BY <1>3, <1>4, <3>1
  <2>2. CASE i \in 1 .. n
    BY <1>2, <1>4, <2>2
  <2>3. n \in Nat
    BY <1>1
  <2>4. i = n + 1 \/ i \in 1 .. n
    <3> HIDE DEF IInv, TypeOK, OldAmountsWereNew
    <3> QED
      BY <2>3
  <2> QED
    BY <2>1, <2>2, <2>4
<1> QED
  BY <1>1, <1>4

\* What an update has read was recorded before the entry it appends.
LEMMA OldStep == IInv /\ [Next]_vars => OldAmountsWereNew'
<1> SUFFICES ASSUME IInv, [Next]_vars PROVE OldAmountsWereNew'
  OBVIOUS
<1> USE DEF IInv, TypeOK
<1>1. ASSUME NEW r \in Requests, NEW b \in Bases, Create(r, b) PROVE OldAmountsWereNew'
  BY <1>1 DEF Create, Start, Arrive, row, OldAmountsWereNew
<1>2. ASSUME NEW r \in Requests, NEW b \in Bases \cup {Keep}, Update(r, b) PROVE OldAmountsWereNew'
  BY <1>2 DEF Update, Start, Arrive, row, OldAmountsWereNew
<1>3. ASSUME NEW r \in Requests, CheckReferences(r) PROVE OldAmountsWereNew'
  BY <1>3 DEF CheckReferences, row, OldAmountsWereNew
<1>4. ASSUME NEW r \in Requests, Preview(r) PROVE OldAmountsWereNew'
  BY <1>4 DEF Preview, row, OldAmountsWereNew
<1>5. ASSUME NEW r \in Requests, Insert(r) PROVE OldAmountsWereNew'
  <2> DEFINE e == [old |-> NoPrice, new |-> [base |-> base', final |-> final']]
  <2>1. base' \in Int /\ final' \in Int
    BY TypeStep
  <2>2. e \in [old : Prices, new : Prices] /\ e.old = NoPrice
    BY <2>1 DEF Prices, NoPrice
  <2>3. history' = Append(history, e)
    BY <1>5 DEF Insert
  <2> HIDE DEF e
  <2> QED
    BY <2>2, <2>3, OldAmountsAppended
<1>6. ASSUME NEW r \in Requests, InsertConflict(r) PROVE OldAmountsWereNew'
  BY <1>6 DEF InsertConflict, row, OldAmountsWereNew
<1>7. ASSUME NEW r \in Requests, Write(r) PROVE OldAmountsWereNew'
  <2>1. CASE Changed(r)
    <3>1. Entry(r) \in [old : Prices, new : Prices] /\ Entry(r).old = seen[r]
      BY <1>7, WriteWrites DEF Write, Entry
    <3>2. BaseRecorded(history, seen[r].base) /\ FinalRecorded(history, seen[r].final)
      BY <1>7 DEF Write, SeenIsRecorded, Updating, InService
    <3>3. history' = Append(history, Entry(r))
      BY <1>7, <2>1 DEF Write
    <3> QED
      BY <3>1, <3>2, <3>3, OldAmountsAppended
  <2>2. CASE ~Changed(r)
    BY <1>7, <2>2 DEF Write, OldAmountsWereNew
  <2> QED
    BY <2>1, <2>2
<1>8. ASSUME NEW r \in Requests, Remove(r) PROVE OldAmountsWereNew'
  BY <1>8 DEF Remove, Arrive, row, OldAmountsWereNew
<1>9. ASSUME NEW r \in Requests, SoftDelete(r) PROVE OldAmountsWereNew'
  BY <1>9 DEF SoftDelete, OldAmountsWereNew
<1>10. ASSUME NEW r \in Requests, Fail(r) PROVE OldAmountsWereNew'
  BY <1>10 DEF Fail, row, OldAmountsWereNew
<1>11. ASSUME NEW d \in Discounts, SwitchDiscount(d) PROVE OldAmountsWereNew'
  BY <1>11 DEF SwitchDiscount, row, OldAmountsWereNew
<1>12. ASSUME DeleteReference PROVE OldAmountsWereNew'
  BY <1>12 DEF DeleteReference, row, OldAmountsWereNew
<1>13. ASSUME NextDay PROVE OldAmountsWereNew'
  BY <1>13 DEF NextDay, row, OldAmountsWereNew
<1>14. CASE UNCHANGED vars
  BY <1>14 DEF vars, row, OldAmountsWereNew
<1> QED
  BY <1>1, <1>2, <1>3, <1>4, <1>5, <1>6, <1>7,
     <1>8, <1>9, <1>10, <1>11, <1>12, <1>13, <1>14 DEF Next

\* An entry that continues the trail and ends at the row keeps TrailIsComplete.
LEMMA TrailContinued ==
    ASSUME IInv, ~overlapped, NEW e \in [old : Prices, new : Prices],
           history' = Append(history, e),
           e.old = IF history = <<>> THEN NoPrice ELSE history[Len(history)].new,
           e.new = [base |-> base', final |-> final']
    PROVE  TrailIsComplete'
<1> USE DEF IInv, TypeOK, TrailIsComplete
<1> DEFINE n == Len(history)
<1>1. /\ n \in Nat /\ Len(history') = n + 1 /\ history'[n + 1] = e
      /\ \A i \in 1 .. n : history'[i] = history[i]
      /\ history = <<>> <=> n = 0
  BY AppendedTrail
<1>2. \A i \in 1 .. n : history[i].old = IF i = 1 THEN NoPrice ELSE history[i - 1].new
  OBVIOUS
<1>3. e.old = IF n = 0 THEN NoPrice ELSE history[n].new
  BY <1>1
<1> HIDE DEF n
<1>4. ASSUME NEW i \in 1 .. n + 1
      PROVE  history'[i].old = IF i = 1 THEN NoPrice ELSE history'[i - 1].new
  <2>1. CASE i = n + 1
    BY <1>1, <1>3, <2>1
  <2>2. CASE i \in 1 .. n
    BY <1>1, <1>2, <2>2
  <2> QED
    BY <1>1, <2>1, <2>2
<1>5. history' # <<>>
  BY <1>1
<1> QED
  BY <1>1, <1>4, <1>5

\* While nothing overlaps, an update has read the end of the trail.
LEMMA CompleteStep == IInv /\ [Next]_vars => TrailIsComplete'
<1> SUFFICES ASSUME IInv, [Next]_vars PROVE TrailIsComplete'
  OBVIOUS
<1> USE DEF IInv, TypeOK
<1>1. ASSUME NEW r \in Requests, NEW b \in Bases, Create(r, b) PROVE TrailIsComplete'
  BY <1>1 DEF Create, Start, Arrive, row, TrailIsComplete
<1>2. ASSUME NEW r \in Requests, NEW b \in Bases \cup {Keep}, Update(r, b) PROVE TrailIsComplete'
  BY <1>2 DEF Update, Start, Arrive, row, TrailIsComplete
<1>3. ASSUME NEW r \in Requests, CheckReferences(r) PROVE TrailIsComplete'
  BY <1>3 DEF CheckReferences, row, TrailIsComplete
<1>4. ASSUME NEW r \in Requests, Preview(r) PROVE TrailIsComplete'
  BY <1>4 DEF Preview, row, TrailIsComplete
<1>5. ASSUME NEW r \in Requests, Insert(r) PROVE TrailIsComplete'
  <2> SUFFICES ASSUME ~overlapped PROVE TrailIsComplete'
    BY <1>5 DEF Insert, TrailIsComplete
  <2> DEFINE e == [old |-> NoPrice, new |-> [base |-> base', final |-> final']]
  <2>1. base' \in Int /\ final' \in Int
    BY TypeStep
  <2>2. /\ e \in [old : Prices, new : Prices] /\ e.old = NoPrice
        /\ e.new = [base |-> base', final |-> final']
    BY <2>1 DEF Prices, NoPrice
  <2>3. history' = Append(history, e) /\ history = <<>>
    BY <1>5 DEF Insert, TrailOfARow
  <2> HIDE DEF e
  <2> QED
    BY <2>2, <2>3, TrailContinued
<1>6. ASSUME NEW r \in Requests, InsertConflict(r) PROVE TrailIsComplete'
  BY <1>6 DEF InsertConflict, row, TrailIsComplete
<1>7. ASSUME NEW r \in Requests, Write(r) PROVE TrailIsComplete'
  <2> SUFFICES ASSUME ~overlapped PROVE TrailIsComplete'
    BY <1>7 DEF Write, TrailIsComplete
  <2>1. /\ state # "absent" /\ seen[r].base = base /\ seen[r].final = final
        /\ history # <<>> /\ history[Len(history)].new = [base |-> base, final |-> final]
    BY <1>7 DEF Write, RowIsThere, SeenIsRow, Updating, InService, TrailIsComplete
  <2>2. pricing[r].base = base' /\ pricing[r].final = final'
    BY <1>7, <2>1, WriteWrites DEF Write, BaseWritten
  <2>3. CASE Changed(r)
    <3>1. Entry(r) \in [old : Prices, new : Prices]
      BY <1>7, WriteWrites DEF Write, Entry
    <3>2. /\ Entry(r).old = [base |-> base, final |-> final]
          /\ Entry(r).new = [base |-> base', final |-> final']
      BY <1>7, <2>1, <2>2, WriteWrites DEF Write, Entry, Prices
    <3>3. history' = Append(history, Entry(r))
      BY <1>7, <2>3 DEF Write
    <3> QED
      BY <2>1, <3>1, <3>2, <3>3, TrailContinued
  <2>4. CASE ~Changed(r)
    <3>1. base' = base /\ final' = final /\ history' = history
      BY <1>7, <2>1, <2>2, <2>4 DEF Write, Changed
    <3> QED
      BY <1>7, <3>1 DEF Write, TrailIsComplete
  <2> QED
    BY <2>3, <2>4
<1>8. ASSUME NEW r \in Requests, Remove(r) PROVE TrailIsComplete'
  BY <1>8 DEF Remove, Arrive, row, TrailIsComplete
<1>9. ASSUME NEW r \in Requests, SoftDelete(r) PROVE TrailIsComplete'
  BY <1>9 DEF SoftDelete, TrailIsComplete, RowIsThere
<1>10. ASSUME NEW r \in Requests, Fail(r) PROVE TrailIsComplete'
  BY <1>10 DEF Fail, row, TrailIsComplete
<1>11. ASSUME NEW d \in Discounts, SwitchDiscount(d) PROVE TrailIsComplete'
  BY <1>11 DEF SwitchDiscount, row, TrailIsComplete
<1>12. ASSUME DeleteReference PROVE TrailIsComplete'
  BY <1>12 DEF DeleteReference, row, TrailIsComplete
<1>13. ASSUME NextDay PROVE TrailIsComplete'
  BY <1>13 DEF NextDay, row, TrailIsComplete
<1>14. CASE UNCHANGED vars
  BY <1>14 DEF vars, row, TrailIsComplete
<1> QED
  BY <1>1, <1>2, <1>3, <1>4, <1>5, <1>6, <1>7,
     <1>8, <1>9, <1>10, <1>11, <1>12, <1>13, <1>14 DEF Next

\* While nothing overlaps, the base price that is written is the one the final
\* price was calculated from.
LEMMA LowerStep == IInv /\ [Next]_vars => DiscountsOnlyLower'
<1> SUFFICES ASSUME IInv, [Next]_vars PROVE DiscountsOnlyLower'
  OBVIOUS
<1> USE DEF IInv, TypeOK
<1>1. ASSUME NEW r \in Requests, NEW b \in Bases, Create(r, b) PROVE DiscountsOnlyLower'
  BY <1>1 DEF Create, Start, Arrive, row, DiscountsOnlyLower
<1>2. ASSUME NEW r \in Requests, NEW b \in Bases \cup {Keep}, Update(r, b) PROVE DiscountsOnlyLower'
  BY <1>2 DEF Update, Start, Arrive, row, DiscountsOnlyLower
<1>3. ASSUME NEW r \in Requests, CheckReferences(r) PROVE DiscountsOnlyLower'
  BY <1>3 DEF CheckReferences, row, DiscountsOnlyLower
<1>4. ASSUME NEW r \in Requests, Preview(r) PROVE DiscountsOnlyLower'
  BY <1>4 DEF Preview, row, DiscountsOnlyLower
<1>5. ASSUME NEW r \in Requests, Insert(r) PROVE DiscountsOnlyLower'
  <2>1. asked[r] # Keep
    BY <1>5, PriceAssumption DEF Insert, CreatesNameABase, InService
  <2>2. base' = pricing[r].base /\ final' = pricing[r].final
    BY <1>5, <2>1, WriteWrites DEF Insert
  <2> QED
    BY <1>5, <2>2 DEF Insert, EngineSaid, DiscountsOnlyLower
<1>6. ASSUME NEW r \in Requests, InsertConflict(r) PROVE DiscountsOnlyLower'
  BY <1>6 DEF InsertConflict, row, DiscountsOnlyLower
<1>7. ASSUME NEW r \in Requests, Write(r) PROVE DiscountsOnlyLower'
  <2> SUFFICES ASSUME ~overlapped PROVE DiscountsOnlyLower'
    BY <1>7 DEF Write, DiscountsOnlyLower
  <2>1. base' = pricing[r].base /\ final' = pricing[r].final
    BY <1>7, WriteWrites DEF Write, BaseWritten, SeenIsRow, Updating, InService
  <2> QED
    BY <1>7, <2>1 DEF Write, EngineSaid, DiscountsOnlyLower
<1>8. ASSUME NEW r \in Requests, Remove(r) PROVE DiscountsOnlyLower'
  BY <1>8 DEF Remove, Arrive, row, DiscountsOnlyLower
<1>9. ASSUME NEW r \in Requests, SoftDelete(r) PROVE DiscountsOnlyLower'
  BY <1>9 DEF SoftDelete, DiscountsOnlyLower, RowIsThere
<1>10. ASSUME NEW r \in Requests, Fail(r) PROVE DiscountsOnlyLower'
  BY <1>10 DEF Fail, row, DiscountsOnlyLower
<1>11. ASSUME NEW d \in Discounts, SwitchDiscount(d) PROVE DiscountsOnlyLower'
  BY <1>11 DEF SwitchDiscount, row, DiscountsOnlyLower
<1>12. ASSUME DeleteReference PROVE DiscountsOnlyLower'
  BY <1>12 DEF DeleteReference, row, DiscountsOnlyLower
<1>13. ASSUME NextDay PROVE DiscountsOnlyLower'
  BY <1>13 DEF NextDay, row, DiscountsOnlyLower
<1>14. CASE UNCHANGED vars
  BY <1>14 DEF vars, row, DiscountsOnlyLower
<1> QED
  BY <1>1, <1>2, <1>3, <1>4, <1>5, <1>6, <1>7,
     <1>8, <1>9, <1>10, <1>11, <1>12, <1>13, <1>14 DEF Next

\* No step leaves the invariant.
LEMMA StepHolds == IInv /\ [Next]_vars => IInv'
  BY TypeStep, CreatesStep, RowStep, TrailStep, RoundedStep, EngineStep, SeenRecordedStep,
     RowRecordedStep, AloneStep, SeenRowStep, OldStep, CompleteStep, LowerStep DEF IInv

----------------------------------------------------------------------------
(* What holds of every behaviour.                                           *)

\* The invariant holds in every state, whatever is sent and overlaps.
THEOREM Invariance == Spec => []IInv
  BY InitHolds, StepHolds, PTL DEF Spec

\* Every variable keeps its type.
THEOREM TypeCorrect == Spec => []TypeOK
<1>1. IInv => TypeOK
  BY DEF IInv
<1> QED
  BY <1>1, Invariance, PTL

\* No amount is ever shown that the trail does not contain, whatever overlaps.
THEOREM EveryAmountIsRecordedAlways == Spec => []EveryAmountIsRecorded
<1>1. IInv => EveryAmountIsRecorded
  BY DEF IInv, RowIsRecorded, BaseRecorded, FinalRecorded, EveryAmountIsRecorded
<1> QED
  BY <1>1, Invariance, PTL

\* The old amounts of every entry were new amounts of earlier ones, whatever
\* overlaps.
THEOREM OldAmountsWereNewAlways == Spec => []OldAmountsWereNew
<1>1. IInv => OldAmountsWereNew
  BY DEF IInv
<1> QED
  BY <1>1, Invariance, PTL

\* While requests do not overlap, the trail starts from nothing, has no gap and
\* ends at the row.
THEOREM TrailIsCompleteAlways == Spec => []TrailIsComplete
<1>1. IInv => TrailIsComplete
  BY DEF IInv
<1> QED
  BY <1>1, Invariance, PTL

\* While requests do not overlap, the final price lies between nothing and the
\* base price, whatever discounts are switched on and off in between.
THEOREM DiscountsOnlyLowerAlways == Spec => []DiscountsOnlyLower
<1>1. IInv => DiscountsOnlyLower
  BY DEF IInv
<1> QED
  BY <1>1, Invariance, PTL

----------------------------------------------------------------------------
(* The discount that is applied.                                            *)

\* Selected finds the first candidate of the first scope that has any.
LEMMA BestIsSelected ==
    ASSUME TypeOK
    PROVE  BestDiscountApplies
<1> DEFINE applying == {d \in enabled :
                           /\ d.startDate <= today
                           /\ d.endDate # NoEnd => d.endDate >= today
                           /\ \E s \in Scopes : d.appliesTo = s /\ d[s] = Context[s]}
           candidates(s) ==
               {d \in enabled : Applicable(d, today) /\ MatchesScope(d, s, Context)}
           deciding == {s \in Scopes : /\ candidates(s) # {}
                                       /\ \A z \in Scopes : Rank[z] < Rank[s] => candidates(z) = {}}
           best == Selected(enabled, Context, today)
           key(d) == <<Rank[d.appliesTo], d.priority, d.createdAt, d.id>>
           smaller(k, l) == \E i \in 1 .. 4 : k[i] < l[i] /\ \A j \in 1 .. i - 1 : k[j] = l[j]
<1>1. /\ enabled \subseteq Discounts /\ today \in Int
      /\ \A d \in enabled : /\ d.status = "active" /\ d.appliesTo \in Scopes
                            /\ d.priority \in Nat /\ d.createdAt \in Nat /\ d.id \in Nat
                            /\ d.startDate \in Int /\ d.endDate \in Int
  BY PriceAssumption, DiscountAssumption DEF TypeOK
<1>2. \A s \in Scopes : Ordered(candidates(s))
  BY <1>1, DiscountAssumption DEF Ordered
<1>3. \A s \in Scopes : candidates(s) \subseteq applying /\ \A d \in candidates(s) : d.appliesTo = s
  BY <1>1 DEF Applicable, WithinRange, MatchesScope
<1>4. \A d \in applying : d \in candidates(d.appliesTo)
  BY <1>1, DiscountAssumption DEF Applicable, WithinRange, MatchesScope
<1>5. best = {d \in UNION {candidates(s) : s \in deciding} :
                 \A e \in candidates(d.appliesTo) : e = d \/ Before(d, e)}
  BY DEF Selected
<1>6. best = {} <=> applying = {}
  <2>1. ASSUME applying = {} PROVE best = {}
    BY <1>3, <1>5, <2>1
  <2>2. ASSUME applying # {} PROVE best # {}
    <3>1. \E s \in Scopes : candidates(s) # {}
      BY <1>1, <1>4, <2>2
    <3>2. \E s \in Scopes : /\ candidates(s) # {}
                            /\ \A z \in Scopes : Rank[z] < Rank[s] => candidates(z) = {}
      <4> HIDE DEF candidates
      <4> QED
        BY <3>1 DEF Scopes, Rank
    <3>3. PICK s \in deciding : TRUE
      BY <3>2
    <3>4. PICK d \in candidates(s) : \A e \in candidates(s) : e = d \/ Before(d, e)
      <4> HIDE DEF candidates
      <4> QED
        BY <1>2, <3>3, FirstCandidate
    <3>5. d.appliesTo = s
      BY <1>3
    <3> QED
      BY <1>5, <3>3, <3>4, <3>5
  <2> QED
    BY <2>1, <2>2
<1>7. ASSUME NEW d \in best PROVE d \in applying
  BY <1>3, <1>5
<1>8. ASSUME NEW d \in best, NEW e \in applying \ {d} PROVE smaller(key(d), key(e))
  <2>1. PICK s \in deciding : d \in candidates(s)
    BY <1>5
  <2>2. d.appliesTo = s /\ d \in enabled /\ e \in enabled /\ e \in candidates(e.appliesTo)
    BY <1>3, <1>4, <2>1
  <2>3. CASE e.appliesTo = s
    <3>1. Before(d, e)
      BY <1>5, <2>2, <2>3
    <3>2. /\ d.priority \in Nat /\ d.createdAt \in Nat /\ d.id \in Nat
          /\ e.priority \in Nat /\ e.createdAt \in Nat /\ e.id \in Nat
      BY <1>1, <2>2
    <3>3. \/ key(d)[2] < key(e)[2]
          \/ key(d)[2] = key(e)[2] /\ key(d)[3] < key(e)[3]
          \/ key(d)[2] = key(e)[2] /\ key(d)[3] = key(e)[3] /\ key(d)[4] < key(e)[4]
      BY <3>1, <3>2 DEF Before
    <3>4. key(d)[1] = key(e)[1]
      BY <2>2, <2>3
    <3> HIDE DEF key
    <3> QED
      BY <3>3, <3>4
  <2>4. CASE e.appliesTo # s
    <3>1. e.appliesTo \in Scopes /\ ~(Rank[e.appliesTo] < Rank[s])
      BY <1>1, <2>1, <2>2
    <3>2. Rank[s] < Rank[e.appliesTo]
      BY <2>4, <3>1 DEF Scopes, Rank
    <3>3. key(d)[1] < key(e)[1]
      BY <2>2, <3>2
    <3> HIDE DEF key
    <3> QED
      BY <3>3
  <2> QED
    BY <2>3, <2>4
<1> QED
  BY <1>6, <1>7, <1>8 DEF BestDiscountApplies

\* The discount that is applied is the best of all that apply to the price, in
\* the order of scope, priority, creation time and id; and there is one if any
\* discount applies.
THEOREM BestDiscountAppliesAlways == Spec => []BestDiscountApplies
<1>1. TypeOK => BestDiscountApplies
  BY BestIsSelected
<1> QED
  BY <1>1, TypeCorrect, PTL
=============================================================================

--------------------------- MODULE PricingEngine ---------------------------
(***************************************************************************)
(* The pure discount engine of pricing.engine.ts: at most one discount is  *)
(* applied to a base price, chosen by scope, then priority, creation time  *)
(* and id.                                                                 *)
(*                                                                         *)
(* Money is an integer number of ticks, finer than the smallest unit a     *)
(* currency shows, so that rounding has something to do; a percentage is   *)
(* an integer.  Days are integers: the code compares calendar dates of the *)
(* company's time zone.                                                    *)
(***************************************************************************)
EXTENDS Integers

Scopes == {"product", "price_list", "marketplace"}
NoRef == "null"     \* an empty scope column
NoEnd == -1         \* no endDate
Floor == 0          \* DEFAULT_PRICE_FLOOR

\* DISCOUNT_SCOPE_PRECEDENCE.
Rank == [product |-> 1, price_list |-> 2, marketplace |-> 3]

----------------------------------------------------------------------------
(* Selection.                                                               *)

\* isBusinessDateWithinRange: both ends belong to the range.
WithinRange(d, today) ==
    d.startDate <= today /\ (d.endDate = NoEnd \/ today <= d.endDate)

\* isDiscountApplicable.
Applicable(d, today) == d.status = "active" /\ WithinRange(d, today)

\* matchesScope: the column of the discount's own scope names the context's row.
\* A discount whose column is null matches nothing.
MatchesScope(d, scope, context) ==
    /\ d.appliesTo = scope
    /\ d[scope] # NoRef
    /\ d[scope] = context[scope]

\* Mutation: the tie is broken by id before the creation time is looked at.
Before_IdFirst(d, e) ==
    \/ d.priority < e.priority
    \/ d.priority = e.priority /\ d.id < e.id

\* The comparison of sortByPriority.
Before(d, e) ==
    \/ d.priority < e.priority
    \/ d.priority = e.priority /\ d.createdAt < e.createdAt
    \/ d.priority = e.priority /\ d.createdAt = e.createdAt /\ d.id < e.id

\* The first scope with candidates decides, and the first of its candidates is
\* the discount; the empty set when the base price applies.
Selected(discounts, context, today) ==
    LET candidates(scope) ==
            {d \in discounts : Applicable(d, today) /\ MatchesScope(d, scope, context)}
        deciding == {s \in Scopes : /\ candidates(s) # {}
                                    /\ \A z \in Scopes : Rank[z] < Rank[s] => candidates(z) = {}}
    IN  {d \in UNION {candidates(s) : s \in deciding} :
            \A e \in candidates(d.appliesTo) : e = d \/ Before(d, e)}

----------------------------------------------------------------------------
(* Amounts.                                                                 *)

\* num / den to the nearest integer, halves up: Math.round.
RoundRatio(num, den) == (2 * num + den) \div (2 * den)

\* roundTo, to multiples of unit ticks.
RoundTo(v, unit) == unit * RoundRatio(v, unit)

\* Mutation: the floor is forgotten.
AtLeastFloor_None(v) == v

\* Math.max(.., floor).
AtLeastFloor(v) == IF v < Floor THEN Floor ELSE v

\* applyDiscountToPrice.
ApplyDiscount(basePrice, d, unit) ==
    AtLeastFloor(unit * IF d.type = "percentage"
                        THEN RoundRatio(basePrice * (100 - d.value), 100 * unit)
                        ELSE RoundRatio(basePrice - d.value, unit))

\* The finalPrice of calculateFinalPrice; its basePrice is RoundTo(basePrice, unit).
FinalPrice(basePrice, discounts, context, today, unit) ==
    LET chosen == Selected(discounts, context, today) IN
    IF chosen = {} THEN RoundTo(basePrice, unit)
    ELSE ApplyDiscount(basePrice, CHOOSE d \in chosen : TRUE, unit)
=============================================================================

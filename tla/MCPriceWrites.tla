--------------------------- MODULE MCPriceWrites ---------------------------
(* Instances of PriceWrites for TLC. *)
EXTENDS PriceWrites, TLC

ThePrice == [product |-> "p", price_list |-> "l", marketplace |-> "m"]

Discount(id, created, prio, scope, ref, type, value, from, to) ==
    [id |-> id, createdAt |-> created, priority |-> prio, status |-> "active",
     appliesTo |-> scope, type |-> type, value |-> value, startDate |-> from, endDate |-> to,
     product |-> IF scope = "product" THEN ref ELSE NoRef,
     price_list |-> IF scope = "price_list" THEN ref ELSE NoRef,
     marketplace |-> IF scope = "marketplace" THEN ref ELSE NoRef]

\* Two that tie on priority, where age and id disagree: one ends after the first
\* day, the other is worth more than the price.  The third starts on the second
\* day and has the narrowest scope in spite of its priority.
SomeDiscounts ==
    {Discount(4, 1, 1, "price_list", "l", "percentage", 25, 0, 0),
     Discount(3, 2, 1, "price_list", "l", "fixed", 2000, 0, NoEnd),
     Discount(5, 1, 9, "product", "p", "percentage", 10, 1, NoEnd)}

\* In ticks of a tenth of a cent: one amount that the column has to round.
SomeBases == {1000, 155}

Symmetry == Permutations(Requests)
=============================================================================

-------------------------- MODULE MCDiscountWrites --------------------------
(* Instances of DiscountWrites for TLC. *)
EXTENDS DiscountWrites, TLC

Nothing == [f \in DOMAIN Blank |-> Undefined]
New(scope, ref, type, value) ==
    [Nothing EXCEPT !.appliesTo = scope, ![scope] = ref, !.type = type, !.value = value,
                    !.startDate = 1, !.endDate = 2]

\* Two ways to create; a rename; a reference of the stored scope, of another
\* company and none; a scope with and without its reference; and a value that
\* does not fit the stored type.
SomePayloads ==
    {New("product", "p1", "fixed", 150), New("marketplace", "m1", "percentage", 20),
     Nothing,
     [Nothing EXCEPT !.product = "p1"], [Nothing EXCEPT !.product = "p9"],
     [Nothing EXCEPT !.marketplace = NoRef],
     [Nothing EXCEPT !.appliesTo = "price_list", !.price_list = "l1", !.product = NoRef],
     [Nothing EXCEPT !.appliesTo = "marketplace"],
     [Nothing EXCEPT !.appliesTo = "marketplace", !.marketplace = "m1"],
     [Nothing EXCEPT !.value = 200]}

Own == {"p1", "l1", "m1"}
Foreign == {"p9"}

Symmetry == Permutations(Requests)
=============================================================================

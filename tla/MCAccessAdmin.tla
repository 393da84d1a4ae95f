-------------------------- MODULE MCAccessAdmin --------------------------
(* Instances of AccessAdmin for TLC. *)
EXTENDS AccessAdmin, TLC

CONSTANTS c1, c2, k1, k2, r0, r1, r2, u1, u2, p1, p2

Symmetry == Permutations(Processes)

KeysFirst == k1 :> [tenant |-> c1, state |-> "active", expired |-> FALSE, scopes |-> {"read"}, deleted |-> FALSE]
             @@ k2 :> [tenant |-> None, state |-> Unused, expired |-> FALSE, scopes |-> {}, deleted |-> FALSE]

\* One role of the seed, one of a company, one yet to be created.
RoleRow(t, state, slug) == [tenant |-> t, state |-> state, slug |-> slug, system |-> t = None, granted |-> {}]
RolesFirst == r0 :> RoleRow(None, "live", "readonly") @@ r1 :> RoleRow(c1, "live", "clerk")
              @@ r2 :> [RoleRow(c1, Unused, "clerk") EXCEPT !.system = FALSE]

UsersFirst == u1 :> [tenant |-> c1, state |-> "live", role |-> r1]
              @@ u2 :> [tenant |-> None, state |-> Unused, role |-> r0]
=============================================================================

-------------------------- MODULE MCClientSession --------------------------
(* Instances of ClientSession for TLC. *)
EXTENDS ClientSession

CONSTANT c1

\* One user for each seeded role.
RoleOf == [root |-> "global_admin", owner |-> "tenant_admin", seller |-> "tenant_user",
           reader |-> "readonly_user", viewer |-> "price_catalog_viewer"]
HomeOf == [u \in Users |-> IF u = "root" THEN None ELSE c1]
GrantedBySeed == [u \in Users |-> SystemRole[RoleOf[u]]]

PreferredFirst == [u \in Users |-> IF u = "root" THEN "es" ELSE "en"]
GoesOn == [u \in Users \cup {None} |-> 2]
============================================================================

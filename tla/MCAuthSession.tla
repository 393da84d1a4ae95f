--------------------------- MODULE MCAuthSession ---------------------------
(* Instances of AuthSession for TLC. *)
EXTENDS AuthSession, TLC

\* Users, browsers and requests are told apart by equality only.
Symmetry == Permutations(Users) \cup Permutations(Browsers) \cup Permutations(Requests)
=============================================================================

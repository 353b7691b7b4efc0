--------------------------- MODULE MCConfigRestore ---------------------------
(* A small instance of ConfigRestore: a host, a rule, a group and the policy,*)
(* and two administrators, each with one call under way.                     *)
EXTENDS ConfigRestore, TLC

CONSTANTS a1, a2, r1

MCSections == <<"host", "rule", "group", "policy">>
MCSymmetry == Permutations(Admins)
=============================================================================

-------------------------- MODULE MCDirectForwards --------------------------
(* Small instances of direct forwards and the whitelist.                   *)
EXTENDS DirectForwards, TLC

CONSTANTS ip1, net1

\* One range, which covers the one address.
OneRange == [n \in {net1} |-> {ip1}]

Symmetry == Permutations(Admins) \union Permutations(Listeners)
=============================================================================

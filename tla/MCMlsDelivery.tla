--------------------------- MODULE MCMlsDelivery ---------------------------
(* Two accounts: the owner with one device, a member with one or two.     *)
EXTENDS MlsDelivery, TLC

CONSTANTS owner, member, d1, d2, d3

MCUserOf == [d \in Devices |-> IF d = d1 THEN owner ELSE member]

Symmetry == Permutations(Operations) \cup Permutations(EventIds)
=============================================================================

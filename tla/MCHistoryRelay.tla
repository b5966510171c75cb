--------------------------- MODULE MCHistoryRelay ---------------------------
(* One manifest of two chunks; the bodies are of two sizes, and the one    *)
(* declared total is what a small and a large body add up to.              *)
EXTENDS HistoryRelay, TLC

CONSTANTS small, large

MCChunkCount == [m \in Manifests |-> 2]

MCTotalBytes == [m \in Manifests |-> 3]

MCSize == [b \in Ciphertexts |-> IF b = small THEN 1 ELSE 2]

Symmetry == Permutations(Transfers) \cup Permutations(Channels) \cup Permutations(Devices)
=============================================================================

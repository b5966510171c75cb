----------------------------- MODULE MCAccounts -----------------------------
(* Symmetry of the model values; Legacy is one of Names and stays apart.   *)
EXTENDS Accounts, DatabaseChecks, TLC

Symmetry == Permutations(Names \ {Legacy}) \cup Permutations(Yuids) \cup
            Permutations(Devices) \cup Permutations(Sessions) \cup Permutations(Nonces)
=============================================================================

--------------------------- MODULE MCKeyPackages ---------------------------
(* Symmetry of the model values.                                           *)
EXTENDS KeyPackages, ThrottleChecks, TLC

Symmetry == Permutations(Devices) \cup Permutations(Packages) \cup
            Permutations(Runs)
=============================================================================

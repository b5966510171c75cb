---------------------------- MODULE MCChatStore ----------------------------
(* Symmetry of the model values; and the checks of Administration, whose   *)
(* limits the uploads of ChatStore obey.                                   *)
EXTENDS ChatStore, AdministrationChecks, TLC

Symmetry == Permutations(Channels) \cup Permutations(Uploads) \cup
            Permutations(Contents) \cup Permutations(Ids)
=============================================================================

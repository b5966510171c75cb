------------------------- MODULE MCEncryptedHistory ------------------------
(* Two devices of a member and one of the owner.                           *)
EXTENDS EncryptedHistory, TLC

CONSTANTS a1, a2, o1, alice, olga

MCDevices == {a1, a2, o1}

MCUserOf == (a1 :> alice) @@ (a2 :> alice) @@ (o1 :> olga)

MCKinds == (a1 :> {"message"}) @@ (a2 :> {"edit"}) @@ (o1 :> {"delete"})

MCCapacity == (a1 :> 3) @@ (a2 :> 3) @@ (o1 :> 2)
=============================================================================

---------------------------- MODULE MCMediaRoom ----------------------------
(* The accounts of the devices, and the symmetry of the keys: devices and  *)
(* sockets are ordered.                                                    *)
EXTENDS MediaRoom, PresenceChecks, TLC

CONSTANTS u1, u2

MCUserOf == [d \in Devices |-> IF d = 2 THEN u2 ELSE u1]

(* What a key nobody carries was handed to makes no difference.            *)
View == <<channels, presence, rooms, revoked, banned, clients, inbox,
          [k \in Keys |-> IF Carried(k) THEN known[k] ELSE {}], confused>>

Symmetry == Permutations(Keys) \cup Permutations(Rooms)
=============================================================================

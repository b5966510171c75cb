-------------------------- MODULE MediaRoom_proofs --------------------------
(***************************************************************************)
(* Proofs about the voice rooms, for any number of devices, connections,   *)
(* rooms and keys: the types, that a key in use stays among the members of *)
(* its room, and that they agree on it.  What a step of the server does to *)
(* the rooms is said once (RoomsKeep); a step of a client concerns one     *)
(* connection.                                                             *)
(***************************************************************************)
EXTENDS MediaRoom, WellFoundedInduction, TLAPS

USE DevicesAssumption, UserOfAssumption, NoneAssumption

(***************************************************************************)
(* The inductive invariant.  A socket is in a room when its client asked   *)
(* for the room and the server has it there.                               *)
(***************************************************************************)
In(s, r) == clients[s] # None /\ clients[s].room = r /\ presence[s].room = r

Device(s) == presence[s].device

Pending(s) == {inbox[s][i] : i \in DOMAIN inbox[s]}

\* Who is connected: one client of a device, nobody who was revoked or banned.
SocketsInv ==
    /\ \A s \in Sockets : clients[s] = None => inbox[s] = <<>>
    /\ \A s \in Sockets : clients[s] # None =>
         presence[s] # None /\ presence[s].room \in {clients[s].room, None}
    /\ \A s \in Sockets : presence[s] # None =>
         Authorized(Device(s), revoked, banned) /\ presence[s].room \in channels \cup {None}
    /\ \A s, t \in Sockets :
         clients[s] # None /\ clients[t] # None /\ Device(s) = Device(t) => s = t

\* The state of a room names the devices that are in it.
RoomsInv ==
    \A r \in channels :
        IF Active(presence, r, revoked, banned) = {} THEN rooms[r] = None
        ELSE rooms[r] # None /\ rooms[r].devices = Active(presence, r, revoked, banned)

\* A client works with the state of the room it asked for.
ClientInv(s) ==
    LET c == clients[s]
    IN  /\ c.view # None => c.room # None /\ c.view.room = c.room
        /\ c.key # None => c.view # None
        /\ c.todo # {} => c.key # None /\ c.todo \subseteq c.view.devices \ {Device(s)}

\* Within an epoch a room only grows, and its leader stays.
Fits(m, r) ==
    /\ m.epoch <= rooms[r].epoch
    /\ m.epoch = rooms[r].epoch =>
         m.devices \subseteq rooms[r].devices /\ Least(m.devices) = Least(rooms[r].devices)

\* Key k, of that epoch, is known to members only.
Confined(k, epoch, r) == epoch = rooms[r].epoch => known[k] \subseteq rooms[r].devices

ViewInv(s, r) ==
    clients[s].view # None =>
        /\ Fits(clients[s].view, r)
        /\ clients[s].key # None => Confined(clients[s].key, clients[s].view.epoch, r)

EventInv(s, r, m) ==
    IF IsState(m) THEN Fits(m, r)
    ELSE /\ m.epoch <= rooms[r].epoch /\ m.from # Device(s)
         /\ Confined(m.key, m.epoch, r)

\* The server writes to the connection of a device that it has told something.
ToldInv(s, r) ==
    clients[s].view # None \/ (\E m \in Pending(s) : m.room = r) =>
        SocketFor(presence, r, Device(s)) = s

MemberInv(s, r) ==
    ViewInv(s, r) /\ ToldInv(s, r) /\ \A m \in Pending(s) : m.room = r => EventInv(s, r, m)

\* A key is of one room, also where rooms are confused.
Carries(s, r, k) ==
    \/ clients[s] # None /\ clients[s].room = r /\ clients[s].key = k
    \/ \E m \in Pending(s) : ~IsState(m) /\ m.room = r /\ m.key = k

OneRoom ==
    \A s, t \in Sockets, r, q \in Rooms, k \in Keys :
        Carries(s, r, k) /\ Carries(t, q, k) => r = q

(***************************************************************************)
(* The leader s of the epoch has key k and has delivered it to t: t has    *)
(* none of this epoch, or this one, or will come to it in its inbox after  *)
(* every other.                                                            *)
(***************************************************************************)
Leads(s, r, k) ==
    /\ In(s, r) /\ clients[s].key = k /\ clients[s].view # None
    /\ clients[s].view.epoch = rooms[r].epoch /\ Device(s) = Least(rooms[r].devices)

Delivers(t, i, r) ==
    /\ i \in DOMAIN inbox[t] /\ ~IsState(inbox[t][i])
    /\ inbox[t][i].room = r /\ inbox[t][i].epoch = rooms[r].epoch

\* After the event i, key k comes to t.
Comes(t, r, k, i) ==
    \E j \in DOMAIN inbox[t] : i < j /\ Delivers(t, j, r) /\ inbox[t][j].key = k

Served(t, r, k) ==
    /\ \A i \in DOMAIN inbox[t] :
         Delivers(t, i, r) /\ inbox[t][i].key # k => Comes(t, r, k, i)
    /\ /\ clients[t].key \notin {None, k} /\ clients[t].view # None
       /\ clients[t].view.epoch = rooms[r].epoch
       => Comes(t, r, k, 0)

HeldInv ==
    \A s, t \in Sockets, r \in Rooms, k \in Keys :
        /\ r \notin confused /\ Leads(s, r, k) /\ In(t, r) /\ s # t
        /\ Device(t) \in clients[s].view.devices \ clients[s].todo
        => Served(t, r, k)

Members ==
    \A s \in Sockets, r \in Rooms : r \notin confused /\ In(s, r) => MemberInv(s, r)

ClientsInv == \A s \in Sockets : clients[s] # None => ClientInv(s)

Inv ==
    /\ TypeOK /\ SocketsInv /\ RoomsInv /\ ClientsInv
    /\ Members /\ OneRoom /\ HeldInv

------------------------------------------------------------------------------
(***************************************************************************)
(* The least of a set of numbers, the two kinds of events, and queues.     *)
(***************************************************************************)
LEMMA LeastIs ==
    ASSUME NEW S, S \subseteq Nat, S # {}
    PROVE  Least(S) \in S /\ \A y \in S : Least(S) <= y
<1>1. PICK m \in S : \A n \in S : ~ (<<n, m>> \in OpToRel(<, Nat))
  BY NatLessThanWellFounded, WFMin
<1>2. \A n \in S : n < m => <<n, m>> \in OpToRel(<, Nat)
  BY DEF OpToRel
<1>3. \A n \in S : n \in Nat /\ ~ (n < m)  BY <1>1, <1>2
<1>4. m \in Nat  OBVIOUS
<1>5. \A n \in S : m <= n  BY <1>3, <1>4
<1> QED BY <1>5 DEF Least

\* The least of a set is the least of each part it is in.
LEMMA LeastOfPart ==
    ASSUME NEW S, S \subseteq Nat, NEW T, T \subseteq S, Least(S) \in T
    PROVE  Least(T) = Least(S)
<1>1. S # {} /\ T # {} /\ T \subseteq Nat  OBVIOUS
<1>2. \A y \in T : Least(S) <= y  BY <1>1, LeastIs
<1>3. Least(T) \in T /\ Least(T) <= Least(S)  BY <1>1, LeastIs
<1>4. Least(S) <= Least(T)  BY <1>2, <1>3
<1>5. Least(S) \in Nat /\ Least(T) \in Nat  BY <1>1, <1>3
<1> QED BY <1>3, <1>4, <1>5

LEMMA Kinds ==
    /\ \A m \in StateEvents : IsState(m)
    /\ \A m \in Envelopes : ~IsState(m)
BY DEF StateEvents, Envelopes, IsState

LEMMA Suffix ==
    ASSUME NEW S, NEW q \in Seq(S), NEW n \in 0..Len(q)
    PROVE  /\ SubSeq(q, n + 1, Len(q)) \in Seq(S)
           /\ Len(SubSeq(q, n + 1, Len(q))) = Len(q) - n
           /\ \A i \in 1 .. Len(q) - n : SubSeq(q, n + 1, Len(q))[i] = q[i + n]
OBVIOUS

(***************************************************************************)
(* The connections of a device in a room, and the state of a room with     *)
(* some devices.                                                           *)
(***************************************************************************)
LEMMA SocketForIs ==
    ASSUME NEW p, NEW r, NEW d, SocketsIn(p, r, d) # {}
    PROVE  /\ SocketFor(p, r, d) \in SocketsIn(p, r, d)
           /\ SocketFor(p, r, d) \in Sockets
           /\ p[SocketFor(p, r, d)] # None
           /\ p[SocketFor(p, r, d)].room = r /\ p[SocketFor(p, r, d)].device = d
<1>1. SocketsIn(p, r, d) \subseteq Sockets  BY DEF SocketsIn
<1>2. SocketFor(p, r, d) \in SocketsIn(p, r, d)  BY <1>1, LeastIs DEF SocketFor
<1> QED BY <1>2 DEF SocketsIn

LEMMA NewStateType ==
    ASSUME NEW room \in RoomStates \cup {None}, NEW D \in SUBSET Devices, D # {}
    PROVE  NewState(room, D) \in RoomStates
<1> DEFINE new == NewState(room, D)
<1> SUFFICES new \in RoomStates  OBVIOUS
<1>1. /\ new.devices = D /\ DOMAIN new = {"epoch", "seq", "devices", "last"}
      /\ new = [epoch |-> new.epoch, seq |-> new.seq, devices |-> new.devices,
                last |-> new.last]
  BY DEF NewState
<1>2. CASE room = None
  <2>1. new.epoch = 1 /\ new.seq = 1 /\ new.last = [d \in Devices |-> 0]
    BY <1>2 DEF NewState, Rotates
  <2>2. new.last \in [Devices -> Nat]  BY <2>1
  <2> HIDE DEF new
  <2> QED BY <1>1, <2>1, <2>2 DEF RoomStates
<1>3. CASE room \in RoomStates
  <2>1. /\ room.epoch \in Nat \ {0} /\ room.seq \in Nat \ {0} /\ room.last \in [Devices -> Nat]
        /\ room # None
    BY <1>3 DEF RoomStates
  <2>2. new.epoch \in Nat \ {0} /\ new.seq \in Nat \ {0}  BY <2>1 DEF NewState
  <2>3. new.last \in {[d \in Devices |-> 0], room.last}  BY <2>1 DEF NewState
  <2>4. new.last \in [Devices -> Nat]  BY <2>1, <2>3
  <2> HIDE DEF new
  <2> QED BY <1>1, <2>2, <2>4 DEF RoomStates
<1> QED BY <1>2, <1>3

\* Within an epoch the state of a room only gains devices and keeps its leader.
LEMMA NewStateGrows ==
    ASSUME NEW room \in RoomStates, NEW D
    PROVE  /\ room.epoch <= NewState(room, D).epoch
           /\ NewState(room, D).devices = D
           /\ room.epoch = NewState(room, D).epoch =>
                room.devices \subseteq D /\ Least(room.devices) = Least(D)
<1>1. room.epoch \in Nat /\ room # None  BY DEF RoomStates
<1>2. /\ NewState(room, D).epoch = room.epoch + (IF Rotates(room, D) THEN 1 ELSE 0)
      /\ NewState(room, D).devices = D
  BY <1>1 DEF NewState
<1>3. ~Rotates(room, D) => room.devices \subseteq D /\ Least(room.devices) = Least(D)
  BY DEF Rotates
<1> QED BY <1>1, <1>2, <1>3

LEMMA AnnouncedIs ==
    ASSUME NEW room \in RoomStates \cup {None}, NEW D \in SUBSET Devices
    PROVE  /\ Announced(room, D) \in RoomStates \cup {None}
           /\ Announced(room, D) = None <=> D = {}
           /\ D # {} => Announced(room, D) = NewState(room, D)
                        /\ Announced(room, D).devices = D
<1>1. D # {} => NewState(room, D) \in RoomStates  BY NewStateType
<1>2. None \notin RoomStates  OBVIOUS
<1>3. NewState(room, D).devices = D  BY DEF NewState
<1> QED BY <1>1, <1>2, <1>3 DEF Announced

------------------------------------------------------------------------------
(***************************************************************************)
(* The types.                                                              *)
(***************************************************************************)
Events == StateEvents \cup Envelopes

LEMMA IdleType == \A r \in Rooms \cup {None} : [Idle EXCEPT !.room = r] \in Clients
BY DEF Idle, Clients

LEMMA AnnounceTypes ==
    ASSUME TypeOK, NEW p \in [Sockets -> Presence \cup {None}], NEW R, R \subseteq Rooms,
           NEW rev \in SUBSET Devices, NEW ban \in SUBSET Users,
           NEW box \in [Sockets -> Seq(Events)],
           clients' \in [Sockets -> Clients \cup {None}],
           Announce(p, R, rev, ban, box), channels' \subseteq Rooms, known' = known,
           confused' \subseteq Rooms
    PROVE  TypeOK'
<1>1. \A r \in Rooms : Active(p, r, rev, ban) \in SUBSET Devices  BY DEF Active
<1>2. \A r \in Rooms : rooms[r] \in RoomStates \cup {None}  BY DEF TypeOK
<1>3. \A r \in Rooms :
         Announced(rooms[r], Active(p, r, rev, ban)) \in RoomStates \cup {None}
  BY <1>1, <1>2, AnnouncedIs
<1>4. rooms' \in [Rooms -> RoomStates \cup {None}]
  BY <1>2, <1>3 DEF Announce
<1>5. ASSUME NEW s \in Sockets PROVE inbox'[s] \in Seq(Events)
  <2> DEFINE r == p[s].room
             new == NewState(rooms[r], Active(p, r, rev, ban))
  <2>1. CASE Told(s, p, R, rev, ban) /\ clients'[s] # None
    <3>1. r \in Rooms /\ Active(p, r, rev, ban) # {}  BY <2>1 DEF Told
    <3>2. new \in RoomStates  BY <1>1, <1>2, <3>1, NewStateType
    <3>3. StateEvent(r, new) \in Events
      BY <3>1, <3>2 DEF StateEvent, RoomStates, StateEvents, Events
    <3>4. inbox'[s] = Append(box[s], StateEvent(r, new))  BY <2>1 DEF Announce
    <3> QED BY <3>3, <3>4
  <2>2. CASE ~(Told(s, p, R, rev, ban) /\ clients'[s] # None)
    <3>1. inbox'[s] = box[s]  BY <2>2 DEF Announce
    <3> QED BY <3>1
  <2> QED BY <2>1, <2>2
<1>6. \E f : inbox' = [s \in Sockets |-> f[s]]
  <2>1. inbox' = [s \in Sockets |-> inbox'[s]]  BY DEF Announce
  <2> QED BY <2>1
<1>7. inbox' \in [Sockets -> Seq(Events)]  BY <1>5, <1>6
<1>8. presence' = p /\ revoked' = rev /\ banned' = ban  BY DEF Announce
<1> QED BY <1>4, <1>7, <1>8 DEF TypeOK, Events

LEMMA DropTypes ==
    ASSUME TypeOK, NEW S, NEW rev \in SUBSET Devices, NEW ban \in SUBSET Users,
           S \subseteq Sockets, Drop(S, rev, ban)
    PROVE  TypeOK'
<1> DEFINE p == [s \in Sockets |-> IF s \in S THEN None ELSE presence[s]]
           box == [s \in Sockets |-> IF s \in S THEN <<>> ELSE inbox[s]]
           R == UNION {RoomOf(s) : s \in S}
<1>1. p \in [Sockets -> Presence \cup {None}] /\ box \in [Sockets -> Seq(Events)]
  BY DEF TypeOK, Events
<1>2. \A s \in S : RoomOf(s) \subseteq Rooms
  BY DEF RoomOf, TypeOK, Presence
<1>3. R \subseteq Rooms  BY <1>2
<1>4. clients' \in [Sockets -> Clients \cup {None}]  BY DEF Drop, TypeOK
<1>5. Announce(p, R, rev, ban, box) /\ channels' \subseteq Rooms /\ known' = known
  BY DEF Drop, TypeOK
<1>6. confused' \subseteq Rooms  BY DEF Drop, Confuses, TypeOK
<1> HIDE DEF p, box, R
<1> QED BY <1>1, <1>3, <1>4, <1>5, <1>6, AnnounceTypes

LEMMA TookTypes ==
    ASSUME TypeOK, NEW s \in Sockets, NEW c \in Clients, Ready(s), Took(s, c),
           known' \in [Keys -> SUBSET Devices]
    PROVE  TypeOK'
<1>1. inbox[s] \in Seq(Events) /\ inbox[s] # <<>>  BY DEF TypeOK, Ready, Events
<1>2. Tail(inbox[s]) \in Seq(Events)  BY <1>1
<1>3. inbox' \in [Sockets -> Seq(StateEvents \cup Envelopes)]
  BY <1>2 DEF Took, TypeOK, Events
<1>4. clients' \in [Sockets -> Clients \cup {None}]  BY DEF Took, TypeOK
<1> QED BY <1>3, <1>4 DEF Took, TypeOK

LEMMA FailedType == \A c \in Clients : Failed(c) \in Clients
BY DEF Failed, Clients

LEMMA EnteredType ==
    ASSUME NEW c \in Clients, NEW m \in StateEvents
    PROVE  /\ Entered(c, m) \in Clients /\ Entered(c, m).room = c.room
           /\ Entered(c, m).view = m /\ Entered(c, m).todo = c.todo
           /\ Entered(c, m).key \in {c.key, None}
           /\ Entered(c, m).key # None => c.view # None /\ c.view.epoch = m.epoch
                                          /\ Entered(c, m).key = c.key
BY DEF Entered, Clients

LEMMA HeadType ==
    ASSUME TypeOK, NEW s \in Sockets, Ready(s)
    PROVE  /\ Head(inbox[s]) \in Events /\ Head(inbox[s]) = inbox[s][1]
           /\ inbox[s] \in Seq(Events) /\ Len(inbox[s]) > 0
           /\ clients[s] \in Clients /\ clients[s].todo = {} /\ clients[s] # None
           /\ IsState(Head(inbox[s])) => Head(inbox[s]) \in StateEvents
           /\ ~IsState(Head(inbox[s])) => Head(inbox[s]) \in Envelopes
<1>1. inbox[s] \in Seq(Events) /\ inbox[s] # <<>>  BY DEF TypeOK, Ready, Events
<1>2. Head(inbox[s]) \in Events /\ Head(inbox[s]) = inbox[s][1] /\ Len(inbox[s]) > 0
  BY <1>1
<1>3. clients[s] \in Clients /\ clients[s].todo = {} /\ clients[s] # None
  BY DEF TypeOK, Ready
<1> QED BY <1>1, <1>2, <1>3, Kinds DEF Events

LEMMA PlacedType ==
    ASSUME NEW o \in Presence, NEW q \in Rooms \cup {None}
    PROVE  /\ [o EXCEPT !.room = q] \in Presence /\ o # None
           /\ [o EXCEPT !.room = q] # None
           /\ [o EXCEPT !.room = q].room = q
           /\ [o EXCEPT !.room = q].device = o.device
<1>1. o # None  OBVIOUS
<1>2. [o EXCEPT !.room = q] \in Presence
  BY DEF Presence
<1>3. [o EXCEPT !.room = q] # None  BY <1>2
<1>4. [o EXCEPT !.room = q].room = q /\ [o EXCEPT !.room = q].device = o.device
  BY DEF Presence
<1> QED BY <1>1, <1>2, <1>3, <1>4

(***************************************************************************)
(* What a client delivers, to whom, and what the server makes of it.       *)
(***************************************************************************)
Recipient(s) == Least(clients[s].todo)

LEMMA SendFacts ==
    ASSUME TypeOK, SocketsInv, ClientsInv, NEW s \in Sockets, clients[s] # None,
           clients[s].todo # {}
    PROVE  /\ clients[s] \in Clients /\ clients[s].out + 1 \in Nat \ {0}
           /\ clients[s].view \in StateEvents /\ clients[s].view # None
           /\ clients[s].view.room = clients[s].room /\ clients[s].room \in Rooms
           /\ clients[s].key \in Keys
           /\ Recipient(s) \in clients[s].todo /\ Recipient(s) \in Devices
           /\ Recipient(s) # Device(s)
           /\ presence[s] \in Presence
<1>1. clients[s] \in Clients /\ presence[s] \in Presence  BY DEF TypeOK, SocketsInv
<1>2. /\ clients[s].todo \in SUBSET Devices /\ clients[s].out \in Nat
      /\ clients[s].view \in StateEvents \cup {None}
      /\ clients[s].room \in Rooms \cup {None} /\ clients[s].key \in Keys \cup {None}
  BY <1>1 DEF Clients
<1>3. Recipient(s) \in clients[s].todo  BY <1>2, LeastIs DEF Recipient
<1>4. ClientInv(s)  BY DEF ClientsInv
<1> QED BY <1>1, <1>2, <1>3, <1>4 DEF ClientInv

Envelope(s) ==
    [room |-> clients[s].view.room, epoch |-> clients[s].view.epoch,
     number |-> clients[s].out + 1, from |-> Device(s), key |-> clients[s].key]

LEMMA DeliveryFacts ==
    ASSUME TypeOK, SocketsInv, ClientsInv, NEW s \in Sockets, clients[s] # None,
           clients[s].todo # {}, NEW r, r = clients[s].view.room,
           NEW t, t = Recipient(s), NEW to, to = SocketFor(presence, r, t),
           Relayed(s, t, clients[s].out + 1), Delivery(s, t, clients[s].out + 1)
    PROVE  /\ r \in Rooms /\ In(s, r) /\ rooms[r] \in RoomStates
           /\ rooms[r].epoch = clients[s].view.epoch
           /\ Device(s) = Least(rooms[r].devices)
           /\ t \in Active(presence, r, revoked, banned)
           /\ to \in Sockets /\ presence[to] # None /\ presence[to].room = r /\ Device(to) = t
           /\ Envelope(s) \in Envelopes
           /\ rooms' \in [Rooms -> RoomStates \cup {None}]
           /\ \A q \in Rooms : /\ rooms'[q] = None <=> rooms[q] = None
                               /\ rooms[q] # None => /\ rooms'[q].epoch = rooms[q].epoch
                                                     /\ rooms'[q].devices = rooms[q].devices
           /\ known' = [known EXCEPT ![clients[s].key] = @ \cup {t}]
           /\ inbox' = IF clients[to] = None THEN inbox
                       ELSE [inbox EXCEPT ![to] = Append(@, Envelope(s))]
<1>1. /\ clients[s].view \in StateEvents /\ clients[s].view.room = clients[s].room
      /\ clients[s].room \in Rooms /\ clients[s].key \in Keys
      /\ clients[s].out + 1 \in Nat \ {0} /\ t \in Devices /\ presence[s] \in Presence
  BY SendFacts
<1>2. /\ presence[s].room = r /\ rooms[r] # None /\ rooms[r].epoch = clients[s].view.epoch
      /\ Device(s) = Least(rooms[r].devices)
      /\ t \in Active(presence, r, revoked, banned)
      /\ Device(s) \in Active(presence, r, revoked, banned)
  BY DEF Relayed, Device
<1>3. r \in Rooms /\ rooms[r] \in RoomStates /\ Device(s) \in Devices
  BY <1>1, <1>2 DEF TypeOK, Device, Presence
<1>4. SocketsIn(presence, r, t) # {}  BY <1>2 DEF Active
<1>5. to \in Sockets /\ presence[to] # None /\ presence[to].room = r /\ Device(to) = t
  BY <1>4, SocketForIs DEF Device
<1>6. Envelope(s) \in Envelopes
  BY <1>1, <1>3 DEF Envelope, Envelopes, StateEvents
<1>7. rooms' = [rooms EXCEPT ![r].last[Device(s)] = clients[s].out + 1]
  <2>1. Delivery(s, t, clients[s].out + 1)  OBVIOUS
  <2> QED BY <2>1, Zenon DEF Delivery, Device
<1>8. /\ rooms' \in [Rooms -> RoomStates \cup {None}]
      /\ rooms'[r] \in RoomStates /\ rooms'[r].epoch = rooms[r].epoch
      /\ rooms'[r].devices = rooms[r].devices
      /\ \A q \in Rooms \ {r} : rooms'[q] = rooms[q]
  <2>1. rooms \in [Rooms -> RoomStates \cup {None}]  BY DEF TypeOK
  <2>2. [rooms[r] EXCEPT !.last[Device(s)] = clients[s].out + 1] \in RoomStates
    BY <1>1, <1>3 DEF RoomStates
  <2>3. rooms' = [rooms EXCEPT ![r] = [rooms[r] EXCEPT !.last[Device(s)] = clients[s].out + 1]]
    BY <1>7, <2>1
  <2>4. rooms'[r] = [rooms[r] EXCEPT !.last[Device(s)] = clients[s].out + 1]
    BY <1>3, <2>1, <2>3
  <2>5. rooms'[r].epoch = rooms[r].epoch /\ rooms'[r].devices = rooms[r].devices
    BY <1>3, <2>4 DEF RoomStates
  <2>6. rooms'[r] \in RoomStates  BY <2>2, <2>4
  <2>7. \A q \in Rooms \ {r} : rooms'[q] = rooms[q]  BY <2>1, <2>3
  <2>8. rooms' \in [Rooms -> RoomStates \cup {None}]
    <3>1. PICK new : new = [rooms[r] EXCEPT !.last[Device(s)] = clients[s].out + 1]  OBVIOUS
    <3> QED BY <1>3, <2>1, <2>2, <2>3, <3>1
  <2> QED BY <2>5, <2>6, <2>7, <2>8
<1>9. \A q \in Rooms : /\ rooms'[q] = None <=> rooms[q] = None
                       /\ rooms[q] # None => /\ rooms'[q].epoch = rooms[q].epoch
                                             /\ rooms'[q].devices = rooms[q].devices
  BY <1>3, <1>8
<1>10. /\ known' = [known EXCEPT ![clients[s].key] = @ \cup {t}]
       /\ inbox' = IF clients[to] = None THEN inbox
                   ELSE [inbox EXCEPT ![to] = Append(@, Envelope(s))]
  BY DEF Delivery, Envelope, Device
<1> QED BY <1>1, <1>2, <1>3, <1>5, <1>6, <1>8, <1>9, <1>10 DEF In

LEMMA SendTypes ==
    ASSUME TypeOK, SocketsInv, ClientsInv, NEW s \in Sockets, Send(s)
    PROVE  TypeOK'
<1> DEFINE c == clients[s]
           t == Recipient(s)
           n == c.out + 1
<1>1. c # None /\ c.todo # {}  BY DEF Send
<1>2. c \in Clients /\ n \in Nat /\ c.key \in Keys /\ t \in Devices
  BY <1>1, SendFacts
<1>3. [c EXCEPT !.out = n] \in Clients /\ [c EXCEPT !.out = n, !.todo = @ \ {t}] \in Clients
  BY <1>2 DEF Clients
<1>4. Failed([c EXCEPT !.out = n]) \in Clients  BY <1>3, FailedType
<1>5. \/ clients' = [clients EXCEPT ![s] = [c EXCEPT !.out = n, !.todo = @ \ {t}]]
      \/ clients' = [clients EXCEPT ![s] = Failed([c EXCEPT !.out = n])]
  BY DEF Send, Recipient
<1>6. clients' \in [Sockets -> Clients \cup {None}]  BY <1>3, <1>4, <1>5 DEF TypeOK
<1>7. CASE UNCHANGED <<rooms, known, inbox>>
  BY <1>6, <1>7 DEF Send, TypeOK
<1>8. CASE Relayed(s, t, n) /\ Delivery(s, t, n)
  <2> DEFINE to == SocketFor(presence, c.view.room, t)
  <2>1. /\ to \in Sockets /\ Envelope(s) \in Envelopes
        /\ rooms' \in [Rooms -> RoomStates \cup {None}]
        /\ known' = [known EXCEPT ![c.key] = @ \cup {t}]
        /\ inbox' = IF clients[to] = None THEN inbox
                    ELSE [inbox EXCEPT ![to] = Append(@, Envelope(s))]
    BY <1>1, <1>8, DeliveryFacts
  <2>2. known' \in [Keys -> SUBSET Devices]  BY <1>2, <2>1 DEF TypeOK
  <2>3. inbox[to] \in Seq(Events) /\ Envelope(s) \in Events  BY <2>1 DEF TypeOK, Events
  <2>4. Append(inbox[to], Envelope(s)) \in Seq(Events)  BY <2>3
  <2>5. inbox' \in [Sockets -> Seq(StateEvents \cup Envelopes)]
    BY <2>1, <2>4 DEF TypeOK, Events
  <2>6. UNCHANGED <<channels, presence, revoked, banned, confused>>  BY DEF Send
  <2> QED BY <1>6, <2>1, <2>2, <2>5, <2>6 DEF TypeOK
<1> QED BY <1>7, <1>8 DEF Send, Recipient

LEMMA TypesStep ==
    ASSUME TypeOK, SocketsInv, ClientsInv, Next
    PROVE  TypeOK'
<1>1. ASSUME NEW s \in Sockets, NEW d \in Devices, Connect(s, d) PROVE TypeOK'
  <2>1. [device |-> d, room |-> None] \in Presence  BY DEF Presence
  <2>2. Idle \in Clients  BY DEF Idle, Clients
  <2> QED BY <1>1, <2>1, <2>2 DEF Connect, TypeOK
<1>2. ASSUME NEW s \in Sockets, Lose(s) PROVE TypeOK'
  BY <1>2 DEF Lose, TypeOK
<1>3. ASSUME NEW s \in Sockets, Disconnect(s) PROVE TypeOK'
  <2>1. Drop({s}, revoked, banned)  BY <1>3 DEF Disconnect
  <2>2. revoked \in SUBSET Devices /\ banned \in SUBSET Users  BY DEF TypeOK
  <2> QED BY <2>1, <2>2, DropTypes
<1>4. ASSUME NEW s \in Sockets, NEW r \in Rooms, Join(s, r) PROVE TypeOK'
  <2>1. PICK n \in 0..Len(inbox[s]) :
          Announce([presence EXCEPT ![s].room = r], RoomOf(s) \cup {r}, revoked, banned,
                   [inbox EXCEPT ![s] = SubSeq(@, n + 1, Len(@))])
    BY <1>4 DEF Join
  <2> DEFINE p == [presence EXCEPT ![s].room = r]
             box == [inbox EXCEPT ![s] = SubSeq(@, n + 1, Len(@))]
  <2>2. inbox[s] \in Seq(Events)  BY DEF TypeOK, Events
  <2>3. SubSeq(inbox[s], n + 1, Len(inbox[s])) \in Seq(Events)  BY <2>2, Suffix
  <2>4. box \in [Sockets -> Seq(Events)]  BY <2>3 DEF TypeOK, Events
  <2>5. clients' \in [Sockets -> Clients \cup {None}]
    BY <1>4, IdleType DEF Join, TypeOK
  <2>6. presence[s] \in Presence  BY <1>4 DEF Join, TypeOK, SocketsInv
  <2>10. p \in [Sockets -> Presence \cup {None}]  BY <2>6, PlacedType DEF TypeOK
  <2>7. RoomOf(s) \cup {r} \subseteq Rooms  BY DEF RoomOf, TypeOK, Presence
  <2>8. revoked \in SUBSET Devices /\ banned \in SUBSET Users  BY DEF TypeOK
  <2>9. /\ channels' \subseteq Rooms /\ known' = known
        /\ confused' \subseteq Rooms
    BY <1>4 DEF Join, Confuses, TypeOK
  <2> HIDE DEF p, box
  <2> QED BY <2>1, <2>4, <2>5, <2>7, <2>8, <2>9, <2>10, AnnounceTypes DEF p, box
<1>5. ASSUME NEW s \in Sockets, Leave(s) PROVE TypeOK'
  <2> DEFINE p == [presence EXCEPT ![s].room = None]
  <2>1. Announce(p, RoomOf(s), revoked, banned, inbox)  BY <1>5 DEF Leave
  <2>2. inbox \in [Sockets -> Seq(Events)]  BY DEF TypeOK, Events
  <2>3. Idle \in Clients  BY DEF Idle, Clients
  <2>4. clients' \in [Sockets -> Clients \cup {None}]
    BY <1>5, <2>3 DEF Leave, TypeOK
  <2>9. presence[s] \in Presence  BY <1>5 DEF Leave, TypeOK, SocketsInv
  <2>5. p \in [Sockets -> Presence \cup {None}]  BY <2>9, PlacedType DEF TypeOK
  <2>6. RoomOf(s) \subseteq Rooms  BY DEF RoomOf, TypeOK, Presence
  <2>7. revoked \in SUBSET Devices /\ banned \in SUBSET Users  BY DEF TypeOK
  <2>10. channels' = channels /\ known' = known  BY <1>5 DEF Leave
  <2>8. channels' \subseteq Rooms /\ known' = known /\ confused' \subseteq Rooms
    BY <1>5, <2>10 DEF Leave, Confuses, TypeOK
  <2> HIDE DEF p
  <2> QED BY <2>1, <2>2, <2>4, <2>5, <2>6, <2>7, <2>8, AnnounceTypes
<1>6. ASSUME NEW s \in Sockets, ApplyRoomState(s) PROVE TypeOK'
  <2> DEFINE c == clients[s]
             m == Head(inbox[s])
             d == presence[s].device
             e == Entered(c, m)
  <2>1. Ready(s) /\ IsState(m)  BY <1>6 DEF ApplyRoomState
  <2>2. c \in Clients /\ m \in StateEvents  BY <2>1, HeadType
  <2>3. e \in Clients  BY <2>2, EnteredType
  <2>4. m.devices \ {d} \in SUBSET Devices  BY <2>2 DEF StateEvents
  <2>5. known \in [Keys -> SUBSET Devices]  BY DEF TypeOK
  <2>6. CASE Took(s, e) /\ UNCHANGED known
    BY <2>1, <2>3, <2>5, <2>6, TookTypes
  <2>7. CASE Took(s, [e EXCEPT !.todo = m.devices \ {d}]) /\ UNCHANGED known
    <3>1. [e EXCEPT !.todo = m.devices \ {d}] \in Clients  BY <2>3, <2>4 DEF Clients
    <3> QED BY <2>1, <2>5, <2>7, <3>1, TookTypes
  <2>8. ASSUME NEW k \in Keys, Valid(c, d, m),
               Took(s, [e EXCEPT !.key = k, !.todo = m.devices \ {d}]),
               known' = [known EXCEPT ![k] = {d}]
        PROVE  TypeOK'
    <3>1. [e EXCEPT !.key = k, !.todo = m.devices \ {d}] \in Clients
      BY <2>3, <2>4 DEF Clients
    <3>2. d \in Devices  BY <2>2, <2>8 DEF Valid, StateEvents
    <3>3. known' \in [Keys -> SUBSET Devices]  BY <2>5, <2>8, <3>2
    <3> QED BY <2>1, <2>8, <3>1, <3>3, TookTypes
  <2> QED BY <1>6, <2>6, <2>7, <2>8 DEF ApplyRoomState
<1>7. ASSUME NEW s \in Sockets, RejectRoomState(s) PROVE TypeOK'
  <2> DEFINE c == clients[s]
             m == Head(inbox[s])
  <2>1. Ready(s) /\ IsState(m) /\ UNCHANGED known  BY <1>7 DEF RejectRoomState
  <2>2. c \in Clients /\ m \in StateEvents  BY <2>1, HeadType
  <2>3. Failed(c) \in Clients /\ Failed(Entered(c, m)) \in Clients
    BY <2>2, EnteredType, FailedType
  <2>4. known \in [Keys -> SUBSET Devices]  BY DEF TypeOK
  <2>5. Took(s, Failed(c)) \/ Took(s, Failed(Entered(c, m)))
    BY <1>7 DEF RejectRoomState
  <2> QED BY <2>1, <2>3, <2>4, <2>5, TookTypes
<1>8. ASSUME NEW s \in Sockets, OpenEnvelope(s) PROVE TypeOK'
  <2> DEFINE c == clients[s]
             m == Head(inbox[s])
             e == [c EXCEPT !.key = m.key, !.in = m.number]
  <2>1. Ready(s) /\ ~IsState(m) /\ UNCHANGED known  BY <1>8 DEF OpenEnvelope
  <2>2. c \in Clients /\ m \in Envelopes  BY <2>1, HeadType
  <2>3. Failed(c) \in Clients  BY <2>2, FailedType
  <2>4. e \in Clients  BY <2>2 DEF Clients, Envelopes
  <2>5. known \in [Keys -> SUBSET Devices]  BY DEF TypeOK
  <2>6. Took(s, Failed(c)) \/ Took(s, e)  BY <1>8 DEF OpenEnvelope
  <2> QED BY <2>1, <2>3, <2>4, <2>5, <2>6, TookTypes
<1>9. ASSUME NEW s \in Sockets, Ignore(s) PROVE TypeOK'
  <2>1. Ready(s) /\ Took(s, clients[s]) /\ UNCHANGED known  BY <1>9 DEF Ignore
  <2>2. clients[s] \in Clients  BY <2>1, HeadType
  <2>3. known \in [Keys -> SUBSET Devices]  BY DEF TypeOK
  <2> QED BY <2>1, <2>2, <2>3, TookTypes
<1>10. ASSUME NEW s \in Sockets, Send(s) PROVE TypeOK'
  BY <1>10, SendTypes
<1>11. ASSUME NEW d \in Devices, RevokeDevice(d) PROVE TypeOK'
  <2> DEFINE S == {s \in Sockets : presence[s] # None /\ presence[s].device = d}
  <2>1. Drop(S, revoked \cup {d}, banned)  BY <1>11 DEF RevokeDevice
  <2>2. revoked \cup {d} \in SUBSET Devices /\ banned \in SUBSET Users  BY DEF TypeOK
  <2>3. S \subseteq Sockets  OBVIOUS
  <2> HIDE DEF S
  <2> QED BY <2>1, <2>2, <2>3, DropTypes
<1>12. ASSUME NEW u \in Users, Ban(u) PROVE TypeOK'
  <2> DEFINE S == {s \in Sockets : presence[s] # None /\ UserOf[presence[s].device] = u}
  <2>1. Drop(S, revoked, banned \cup {u})  BY <1>12 DEF Ban
  <2>2. revoked \in SUBSET Devices /\ banned \cup {u} \in SUBSET Users  BY DEF TypeOK
  <2>3. S \subseteq Sockets  OBVIOUS
  <2> HIDE DEF S
  <2> QED BY <2>1, <2>2, <2>3, DropTypes
<1>13. ASSUME NEW u \in Users, Unban(u) PROVE TypeOK'
  BY <1>13 DEF Unban, TypeOK
<1>14. ASSUME NEW r \in Rooms, DeleteChannel(r) PROVE TypeOK'
  <2>2. \A s \in Sockets : presence[s] # None =>
           [presence[s] EXCEPT !.room = None] \in Presence
    BY PlacedType DEF TypeOK
  <2>1. presence' \in [Sockets -> Presence \cup {None}]
    <3>1. \A s \in Sockets : presence'[s] \in Presence \cup {None}
      BY <1>14, <2>2 DEF DeleteChannel, TypeOK
    <3>2. presence' = [s \in Sockets |-> presence'[s]]  BY <1>14 DEF DeleteChannel
    <3> QED BY <3>1, <3>2
  <2> QED BY <1>14, <2>1 DEF DeleteChannel, TypeOK
<1>15. ASSUME Restart PROVE TypeOK'
  BY <1>15 DEF Restart, TypeOK
<1> QED BY <1>1, <1>2, <1>3, <1>4, <1>5, <1>6, <1>7, <1>8, <1>9, <1>10, <1>11, <1>12,
           <1>13, <1>14, <1>15 DEF Next, OfSocket

------------------------------------------------------------------------------
(***************************************************************************)
(* What the server, or the start and the end of a connection, do to the    *)
(* rooms: of t's inbox all but the first n events are left, and perhaps    *)
(* the state of its room comes after them; t remains where it was, or      *)
(* enters r; each room is announced, or nobody comes to it or leaves it.   *)
(***************************************************************************)
Left(t, n) ==
    /\ \/ Len(inbox'[t]) = Len(inbox[t]) - n
       \/ /\ Len(inbox'[t]) = Len(inbox[t]) - n + 1
          /\ inbox'[t][Len(inbox'[t])]
               = StateEvent(presence'[t].room, rooms'[presence'[t].room])
          /\ SocketFor(presence', presence'[t].room, presence'[t].device) = t
    /\ \A i \in 1 .. Len(inbox[t]) - n : inbox'[t][i] = inbox[t][i + n]

Remains(t) ==
    /\ presence'[t] = presence[t]
    /\ clients'[t] = None \/ (clients'[t] = clients[t] /\ Left(t, 0))

Enters(t, r) ==
    /\ clients[t] # None /\ clients'[t] = [Idle EXCEPT !.room = r]
    /\ presence'[t] = [presence[t] EXCEPT !.room = r]
    /\ \E n \in 0 .. Len(inbox[t]) :
         Left(t, n) /\ (OfEarlierStay(t, r, n) /\ rooms'[r] # None => r \in confused')

\* No client receives a key or an event of another.
Keeps(t) ==
    \E n \in 0 .. Len(inbox[t]) :
        Left(t, n) /\ (clients'[t] = clients[t] \/ clients'[t].key = None)

RoomStep ==
    /\ known' = known /\ channels' \subseteq channels
    /\ \A r \in confused : r \in confused' \/ rooms'[r] = None
    /\ \A t \in Sockets : clients'[t] # None => Keeps(t)
    /\ \A r \in Rooms :
         \/ rooms'[r] = Announced(rooms[r], Active(presence', r, revoked', banned'))
         \/ /\ rooms'[r] = rooms[r]
            /\ r \in channels' =>
                 \A d : SocketsIn(presence', r, d) = SocketsIn(presence, r, d)
    /\ \A t \in Sockets, r \in Rooms :
         presence'[t] # None /\ presence'[t].room = r => Remains(t) \/ Enters(t, r)

\* A queue from which the first n events of t's inbox are gone.
Rest(q, t, n) ==
    /\ q \in Seq(Events) /\ Len(q) = Len(inbox[t]) - n
    /\ \A i \in 1 .. Len(inbox[t]) - n : q[i] = inbox[t][i + n]

LEMMA AnnounceLeft ==
    ASSUME TypeOK, NEW p, NEW R, R \subseteq Rooms, NEW rev, NEW ban, NEW box,
           Announce(p, R, rev, ban, box), NEW t \in Sockets, NEW n \in 0 .. Len(inbox[t]),
           Rest(box[t], t, n)
    PROVE  Left(t, n) /\ (clients'[t] = None => inbox'[t] = box[t])
<1> DEFINE r == p[t].room
           D == Active(p, r, rev, ban)
           new == StateEvent(r, NewState(rooms[r], D))
<1>1. inbox[t] \in Seq(Events)  BY DEF TypeOK, Events
<1>2. Len(inbox[t]) - n \in Nat  BY <1>1
<1>3. presence' = p  BY DEF Announce
<1>4. CASE Told(t, p, R, rev, ban) /\ clients'[t] # None
  <2>1. inbox'[t] = Append(box[t], new)  BY <1>4 DEF Announce
  <2>2. r \in R /\ D # {} /\ SocketFor(p, r, p[t].device) = t  BY <1>4 DEF Told
  <2>3. rooms'[r] = NewState(rooms[r], D)  BY <2>2 DEF Announce, Announced
  <2> HIDE DEF new
  <2>4. /\ Len(inbox'[t]) = Len(inbox[t]) - n + 1
        /\ inbox'[t][Len(inbox'[t])] = new
        /\ \A i \in 1 .. Len(inbox[t]) - n : inbox'[t][i] = inbox[t][i + n]
    BY <1>2, <2>1 DEF Rest
  <2> QED BY <1>3, <1>4, <2>2, <2>3, <2>4 DEF Left, new
<1>5. CASE ~(Told(t, p, R, rev, ban) /\ clients'[t] # None)
  <2>1. inbox'[t] = box[t]  BY <1>5 DEF Announce
  <2> QED BY <2>1 DEF Left, Rest
<1> QED BY <1>4, <1>5

LEMMA AnnounceKeeps ==
    ASSUME TypeOK, NEW p, NEW R, R \subseteq Rooms, NEW rev, NEW ban, NEW box,
           Announce(p, R, rev, ban, box), NEW t \in Sockets, box[t] = inbox[t]
    PROVE  Left(t, 0) /\ (clients'[t] = None => inbox'[t] = inbox[t])
<1>1. inbox[t] \in Seq(Events)  BY DEF TypeOK, Events
<1>2. PICK n \in 0 .. Len(inbox[t]) : n = 0  BY <1>1
<1>3. Rest(box[t], t, n)  BY <1>1, <1>2 DEF Rest
<1>4. Left(t, n) /\ (clients'[t] = None => inbox'[t] = box[t])
  BY <1>3, AnnounceLeft
<1> QED BY <1>2, <1>4

LEMMA LeftKeeps ==
    ASSUME TypeOK, NEW t \in Sockets, Left(t, 0),
           clients'[t] = clients[t] \/ clients'[t].key = None
    PROVE  Keeps(t)
<1>1. inbox[t] \in Seq(Events)  BY DEF TypeOK, Events
<1>2. 0 \in 0 .. Len(inbox[t])  BY <1>1
<1> QED BY <1>2 DEF Keeps

LEMMA AnnounceRooms ==
    ASSUME NEW p, NEW R, R \subseteq Rooms, NEW rev, NEW ban, NEW box,
           Announce(p, R, rev, ban, box)
    PROVE  /\ presence' = p /\ revoked' = rev /\ banned' = ban
           /\ \A r \in R : rooms'[r] = Announced(rooms[r], Active(presence', r, revoked', banned'))
           /\ \A r \in Rooms \ R : rooms'[r] = rooms[r]
BY DEF Announce

(***************************************************************************)
(* A disconnection, a revocation, a ban.                                   *)
(***************************************************************************)
LEMMA DropStep ==
    ASSUME TypeOK, SocketsInv, NEW S, S \subseteq Sockets, NEW rev, NEW ban, Drop(S, rev, ban)
    PROVE  /\ RoomStep /\ channels' = channels /\ revoked' = rev /\ banned' = ban
           /\ \A t \in S : clients'[t] = None /\ presence'[t] = None /\ inbox'[t] = <<>>
           /\ \A t \in Sockets \ S : /\ clients'[t] = clients[t] /\ presence'[t] = presence[t]
                                     /\ clients'[t] = None => inbox'[t] = <<>>
<1> DEFINE p == [s \in Sockets |-> IF s \in S THEN None ELSE presence[s]]
           box == [s \in Sockets |-> IF s \in S THEN <<>> ELSE inbox[s]]
           R == UNION {RoomOf(s) : s \in S}
<1>1. Announce(p, R, rev, ban, box) /\ channels' = channels /\ known' = known
  BY DEF Drop
<1>2. \A s \in Sockets : clients'[s] = IF s \in S THEN None ELSE clients[s]
  BY DEF Drop
<1>3. \A s \in S : RoomOf(s) \subseteq Rooms  BY DEF RoomOf, TypeOK, Presence
<1>4. R \subseteq Rooms  BY <1>3
<1>5. \A t \in S : p[t] = None /\ box[t] = <<>>  OBVIOUS
<1>6. \A t \in Sockets \ S : p[t] = presence[t] /\ box[t] = inbox[t]  OBVIOUS
<1>7. \A r \in Rooms \ R, t \in S : ~(presence[t] # None /\ presence[t].room = r)
  BY DEF RoomOf
<1>8. \A r \in Rooms \ R : \A d : SocketsIn(p, r, d) = SocketsIn(presence, r, d)
  BY <1>5, <1>6, <1>7 DEF SocketsIn
<1> HIDE DEF p, box, R
<1>9. /\ presence' = p /\ revoked' = rev /\ banned' = ban
      /\ \A r \in R : rooms'[r] = Announced(rooms[r], Active(presence', r, revoked', banned'))
      /\ \A r \in Rooms \ R : rooms'[r] = rooms[r]
  BY <1>1, <1>4, AnnounceRooms
<1>10. ASSUME NEW t \in Sockets \ S
       PROVE  Left(t, 0) /\ (clients'[t] = None => inbox'[t] = inbox[t])
  <2>1. t \in Sockets /\ box[t] = inbox[t]  BY <1>6
  <2> QED BY <1>1, <1>4, <2>1, AnnounceKeeps
<1>11. ASSUME NEW t \in S PROVE inbox'[t] = <<>>
  BY <1>1, <1>2, <1>5 DEF Announce
<1>12. \A t \in Sockets : presence'[t] # None => Remains(t)
  BY <1>2, <1>5, <1>6, <1>9, <1>10 DEF Remains
<1>14. \A t \in Sockets : clients'[t] # None => Keeps(t)
  BY <1>2, <1>10, LeftKeeps
<1>15. \A r \in confused : r \in confused' \/ rooms'[r] = None
  BY DEF Drop, Confuses
<1>13. RoomStep
  BY <1>1, <1>8, <1>9, <1>12, <1>14, <1>15 DEF RoomStep
<1> QED BY <1>1, <1>2, <1>5, <1>6, <1>9, <1>10, <1>11, <1>13 DEF SocketsInv

(***************************************************************************)
(* Joining and leaving.                                                    *)
(***************************************************************************)
LEMMA JoinStep ==
    ASSUME TypeOK, SocketsInv, NEW s \in Sockets, NEW r \in Rooms, Join(s, r)
    PROVE  /\ RoomStep /\ UNCHANGED <<channels, revoked, banned>>
           /\ clients'[s] = [Idle EXCEPT !.room = r]
           /\ presence'[s] = [presence[s] EXCEPT !.room = r]
           /\ \A t \in Sockets \ {s} : /\ clients'[t] = clients[t] /\ presence'[t] = presence[t]
                                       /\ clients'[t] = None => inbox'[t] = <<>>
<1>1. PICK n \in 0..Len(inbox[s]) :
        /\ Announce([presence EXCEPT ![s].room = r], RoomOf(s) \cup {r}, revoked, banned,
                    [inbox EXCEPT ![s] = SubSeq(@, n + 1, Len(@))])
        /\ Confuses(IF OfEarlierStay(s, r, n) THEN {r} ELSE {})
  BY DEF Join
<1> DEFINE p == [presence EXCEPT ![s].room = r]
           box == [inbox EXCEPT ![s] = SubSeq(@, n + 1, Len(@))]
           R == RoomOf(s) \cup {r}
<1>2. /\ clients[s] # None /\ presence[s] \in Presence /\ inbox[s] \in Seq(Events)
      /\ clients' = [clients EXCEPT ![s] = [Idle EXCEPT !.room = r]]
      /\ channels' = channels /\ known' = known
  BY DEF Join, TypeOK, SocketsInv, Events
<1>3. R \subseteq Rooms  BY <1>2 DEF RoomOf, Presence
<1>4. /\ p[s] = [presence[s] EXCEPT !.room = r] /\ p[s].room = r
      /\ \A t \in Sockets \ {s} : p[t] = presence[t]
  BY <1>2 DEF TypeOK, Presence
<1>5. Rest(box[s], s, n)
  <2>1. box[s] = SubSeq(inbox[s], n + 1, Len(inbox[s]))  BY DEF TypeOK
  <2> HIDE DEF box
  <2> QED BY <1>2, <2>1, Suffix DEF Rest
<1>6. \A t \in Sockets \ {s} : box[t] = inbox[t]  BY DEF TypeOK
<1>7. \A q \in Rooms \ R : \A d : SocketsIn(p, q, d) = SocketsIn(presence, q, d)
  <2>1. \A q \in Rooms \ R : presence[s].room # q /\ p[s].room # q
    BY <1>2, <1>4 DEF RoomOf
  <2> HIDE DEF p
  <2> QED BY <1>4, <2>1 DEF SocketsIn
<1> HIDE DEF p, box, R
<1>8. Announce(p, R, revoked, banned, box)  BY <1>1 DEF p, box, R
<1>9. /\ presence' = p /\ revoked' = revoked /\ banned' = banned
      /\ \A q \in R : rooms'[q] = Announced(rooms[q], Active(presence', q, revoked', banned'))
      /\ \A q \in Rooms \ R : rooms'[q] = rooms[q]
  BY <1>3, <1>8, AnnounceRooms
<1>10. ASSUME NEW t \in Sockets \ {s}
       PROVE  Left(t, 0) /\ (clients'[t] = None => inbox'[t] = inbox[t])
  BY <1>3, <1>6, <1>8, AnnounceKeeps
<1>11. Left(s, n)  BY <1>3, <1>5, <1>8, AnnounceLeft
<1>12. clients'[s] = [Idle EXCEPT !.room = r]
       /\ \A t \in Sockets \ {s} : clients'[t] = clients[t]
  BY <1>2 DEF TypeOK
<1>16. OfEarlierStay(s, r, n) /\ rooms'[r] # None => r \in confused'
  BY <1>1 DEF Confuses
<1>13. Enters(s, r)  BY <1>2, <1>4, <1>9, <1>11, <1>12, <1>16 DEF Enters
<1>14. \A t \in Sockets \ {s} : Remains(t)
  BY <1>4, <1>9, <1>10, <1>12 DEF Remains
<1>17. \A t \in Sockets : Keeps(t)
  <2>1. Keeps(s)  BY <1>11, <1>12 DEF Keeps, Idle
  <2> QED BY <1>10, <1>12, <2>1, LeftKeeps
<1>18. \A q \in confused : q \in confused' \/ rooms'[q] = None
  BY <1>1 DEF Confuses
<1>19. \A t \in Sockets, q \in Rooms :
         presence'[t] # None /\ presence'[t].room = q => Remains(t) \/ Enters(t, q)
  BY <1>4, <1>9, <1>13, <1>14
<1>15. RoomStep
  BY <1>2, <1>7, <1>9, <1>17, <1>18, <1>19 DEF RoomStep
<1> QED BY <1>2, <1>4, <1>9, <1>10, <1>12, <1>15 DEF SocketsInv

LEMMA LeaveStep ==
    ASSUME TypeOK, SocketsInv, NEW s \in Sockets, Leave(s)
    PROVE  /\ RoomStep /\ UNCHANGED <<channels, revoked, banned>>
           /\ clients'[s] = Idle
           /\ presence'[s] = [presence[s] EXCEPT !.room = None]
           /\ \A t \in Sockets \ {s} : /\ clients'[t] = clients[t] /\ presence'[t] = presence[t]
                                       /\ clients'[t] = None => inbox'[t] = <<>>
<1> DEFINE p == [presence EXCEPT ![s].room = None]
           R == RoomOf(s)
<1>1. /\ clients[s] # None /\ presence[s] \in Presence
      /\ clients' = [clients EXCEPT ![s] = Idle]
      /\ channels' = channels /\ known' = known
      /\ Announce(p, R, revoked, banned, inbox)
  BY DEF Leave, TypeOK, SocketsInv
<1>2. R \subseteq Rooms  BY <1>1 DEF RoomOf, Presence
<1>3. /\ p[s] = [presence[s] EXCEPT !.room = None] /\ p[s].room = None
      /\ \A t \in Sockets \ {s} : p[t] = presence[t]
  BY <1>1 DEF TypeOK, Presence
<1>4. \A q \in Rooms \ R : \A d : SocketsIn(p, q, d) = SocketsIn(presence, q, d)
  <2>1. \A q \in Rooms \ R : presence[s].room # q
    <3>1. presence[s] # None  BY <1>1
    <3> QED BY <3>1 DEF RoomOf
  <2>2. \A q \in Rooms : p[s].room # q  BY <1>3
  <2> HIDE DEF p
  <2>3. ASSUME NEW q \in Rooms \ R, NEW d
        PROVE  SocketsIn(p, q, d) = SocketsIn(presence, q, d)
    <3>1. ASSUME NEW t \in Sockets
          PROVE  (p[t] # None /\ p[t].room = q /\ p[t].device = d)
                   <=> (presence[t] # None /\ presence[t].room = q /\ presence[t].device = d)
      <4>1. CASE t = s  BY <2>1, <2>2, <4>1
      <4>2. CASE t # s  BY <1>3, <4>2
      <4> QED BY <4>1, <4>2
    <3> QED BY <3>1 DEF SocketsIn
  <2> QED BY <2>3
<1> HIDE DEF p, R
<1>5. /\ presence' = p /\ revoked' = revoked /\ banned' = banned
      /\ \A q \in R : rooms'[q] = Announced(rooms[q], Active(presence', q, revoked', banned'))
      /\ \A q \in Rooms \ R : rooms'[q] = rooms[q]
  BY <1>1, <1>2, AnnounceRooms
<1>6. ASSUME NEW t \in Sockets
      PROVE  Left(t, 0) /\ (clients'[t] = None => inbox'[t] = inbox[t])
  BY <1>1, <1>2, AnnounceKeeps
<1>7. clients'[s] = Idle /\ \A t \in Sockets \ {s} : clients'[t] = clients[t]
  BY <1>1 DEF TypeOK
<1>8. \A t \in Sockets \ {s} : Remains(t)
  BY <1>3, <1>5, <1>6, <1>7 DEF Remains
<1>9. \A q \in Rooms : presence'[s].room # q  BY <1>3, <1>5
<1>11. \A t \in Sockets : Keeps(t)
  BY <1>6, <1>7, LeftKeeps DEF Idle
<1>12. \A q \in confused : q \in confused' \/ rooms'[q] = None
  BY DEF Leave, Confuses
<1>10. RoomStep
  BY <1>1, <1>4, <1>5, <1>8, <1>9, <1>11, <1>12 DEF RoomStep
<1> QED BY <1>1, <1>3, <1>5, <1>6, <1>7, <1>10 DEF SocketsInv

(***************************************************************************)
(* What the clients and the server do without an announcement.             *)
(***************************************************************************)
LEMMA ConnectStep ==
    ASSUME TypeOK, SocketsInv, NEW s \in Sockets, NEW d \in Devices, Connect(s, d)
    PROVE  RoomStep
<1>1. /\ presence' = [presence EXCEPT ![s] = [device |-> d, room |-> None]]
      /\ clients' = [clients EXCEPT ![s] = Idle] /\ presence[s] = None
      /\ UNCHANGED <<channels, rooms, revoked, banned, inbox, known, confused>>
  BY DEF Connect
<1>2. /\ presence'[s].room = None /\ clients'[s].key = None
      /\ \A t \in Sockets \ {s} : presence'[t] = presence[t] /\ clients'[t] = clients[t]
  BY <1>1 DEF TypeOK, Idle
<1>3. \A r \in Rooms : \A e : SocketsIn(presence', r, e) = SocketsIn(presence, r, e)
  BY <1>1, <1>2 DEF SocketsIn
<1>4. \A t \in Sockets : Left(t, 0)
  BY <1>1 DEF Left, TypeOK
<1>5. \A t \in Sockets, r \in Rooms : presence'[t] # None /\ presence'[t].room = r => Remains(t)
  BY <1>2, <1>4 DEF Remains
<1>6. \A t \in Sockets : Keeps(t)  BY <1>2, <1>4, LeftKeeps
<1> QED BY <1>1, <1>3, <1>5, <1>6 DEF RoomStep

LEMMA LoseStep ==
    ASSUME TypeOK, SocketsInv, NEW s \in Sockets, Lose(s)
    PROVE  RoomStep
<1>1. /\ clients' = [clients EXCEPT ![s] = None] /\ inbox' = [inbox EXCEPT ![s] = <<>>]
      /\ UNCHANGED <<channels, presence, rooms, revoked, banned, known, confused>>
  BY DEF Lose
<1>2. /\ clients'[s] = None
      /\ \A t \in Sockets \ {s} : inbox'[t] = inbox[t] /\ clients'[t] = clients[t]
  BY <1>1 DEF TypeOK
<1>6. \A t \in Sockets : inbox[t] \in Seq(Events)  BY DEF TypeOK, Events
<1>3. \A t \in Sockets \ {s} : Left(t, 0)
  BY <1>2, <1>6 DEF Left
<1>4. \A t \in Sockets : Remains(t)
  BY <1>1, <1>2, <1>3 DEF Remains
<1>5. \A t \in Sockets : clients'[t] # None => Keeps(t)  BY <1>2, <1>3, LeftKeeps
<1> QED BY <1>1, <1>4, <1>5 DEF RoomStep

LEMMA UnbanStep ==
    ASSUME TypeOK, NEW u, Unban(u)
    PROVE  RoomStep
<1>1. UNCHANGED <<channels, presence, rooms, revoked, clients, inbox, known, confused>>
  BY DEF Unban
<1>2. \A t \in Sockets : Left(t, 0)  BY <1>1 DEF Left, TypeOK
<1>3. \A t \in Sockets : Remains(t)  BY <1>1, <1>2 DEF Remains
<1>4. \A t \in Sockets : Keeps(t)  BY <1>1, <1>2, LeftKeeps
<1> QED BY <1>1, <1>3, <1>4 DEF RoomStep

LEMMA DeleteChannelStep ==
    ASSUME TypeOK, NEW r \in Rooms, DeleteChannel(r)
    PROVE  /\ RoomStep
           /\ \A s \in Sockets :
                /\ presence'[s] # None <=> presence[s] # None
                /\ presence[s] # None =>
                     /\ Device(s)' = Device(s) /\ presence'[s].room # r
                     /\ presence'[s].room \in {presence[s].room, None}
<1>1. /\ channels' = channels \ {r}
      /\ UNCHANGED <<rooms, revoked, banned, clients, inbox, known, confused>>
  BY DEF DeleteChannel
<1>2. ASSUME NEW s \in Sockets, presence[s] # None, presence[s].room = r
      PROVE  /\ presence'[s] # None /\ presence'[s].room = None
             /\ presence'[s].device = presence[s].device
  <2>1. presence[s] \in Presence  BY <1>2 DEF TypeOK
  <2>2. presence'[s] = [presence[s] EXCEPT !.room = None]  BY <1>2 DEF DeleteChannel
  <2> QED BY <2>1, <2>2, PlacedType
<1>3. \A s \in Sockets : ~(presence[s] # None /\ presence[s].room = r) =>
         presence'[s] = presence[s]
  BY DEF DeleteChannel
<1>4. \A q \in Rooms \ {r} : \A d : SocketsIn(presence', q, d) = SocketsIn(presence, q, d)
  BY <1>2, <1>3 DEF SocketsIn
<1>5. \A t \in Sockets : Left(t, 0)  BY <1>1 DEF Left, TypeOK
<1>6. \A t \in Sockets, q \in Rooms : presence'[t] # None /\ presence'[t].room = q => Remains(t)
  BY <1>1, <1>2, <1>3, <1>5 DEF Remains
<1>8. \A t \in Sockets : Keeps(t)  BY <1>1, <1>5, LeftKeeps
<1>7. RoomStep
  BY <1>1, <1>4, <1>6, <1>8 DEF RoomStep
<1> QED BY <1>2, <1>3, <1>7 DEF Device

LEMMA RestartStep ==
    ASSUME TypeOK, Restart
    PROVE  RoomStep
<1>1. /\ \A s \in Sockets : presence'[s] = None
      /\ \A r \in Rooms : rooms'[r] = None
      /\ \A s \in Sockets : clients'[s] = None
      /\ known' = known /\ channels' = channels
  BY DEF Restart
<1>2. \A r \in Rooms : Active(presence', r, revoked', banned') = {}
  BY <1>1 DEF Active, SocketsIn
<1>3. \A r \in Rooms :
         rooms'[r] = Announced(rooms[r], Active(presence', r, revoked', banned'))
  BY <1>1, <1>2 DEF Announced
<1> QED BY <1>1, <1>3 DEF RoomStep, TypeOK

------------------------------------------------------------------------------
(***************************************************************************)
(* A client takes the first event of its inbox: it gives up its key, sees  *)
(* a state and keeps or loses its key, makes a key, opens an envelope, or  *)
(* is not interested.                                                      *)
(***************************************************************************)
Takes(s, c) ==
    /\ Ready(s) /\ c \in Clients /\ c.room = clients[s].room
    /\ Took(s, c)

Sees(s, c) ==
    LET m == Head(inbox[s])
    IN  /\ IsState(m) /\ m.room = clients[s].room /\ clients[s].room # None
        /\ Device(s) \in m.devices /\ c.view = m

GivesUp(s, c) ==
    /\ c.key = None /\ c.todo = {} /\ known' = known
    /\ c.view = clients[s].view \/ Sees(s, c)

Follows(s, c) ==
    /\ Sees(s, c) /\ known' = known
    /\ c.key # None => /\ c.key = clients[s].key /\ clients[s].view # None
                       /\ clients[s].view.epoch = c.view.epoch
    /\ \/ c.todo = {} /\ Device(s) # Least(c.view.devices)
       \/ c.todo = c.view.devices \ {Device(s)} /\ c.key # None

Makes(s, c) ==
    /\ Sees(s, c) /\ c.key \in Keys /\ ~Carried(c.key)
    /\ Device(s) = Least(c.view.devices) /\ c.todo = c.view.devices \ {Device(s)}
    /\ known' = [known EXCEPT ![c.key] = {Device(s)}]

Opens(s, c) ==
    LET m == Head(inbox[s])
    IN  /\ ~IsState(m) /\ clients[s].view # None /\ c.view = clients[s].view
        /\ m.room = c.view.room /\ m.epoch = c.view.epoch
        /\ m.from = Least(c.view.devices)
        /\ c.key = m.key /\ c.todo = {} /\ known' = known

Ignores(s, c) ==
    c = clients[s] /\ known' = known /\ (c.room = None \/ c.view = None)

LEMMA FailedIs ==
    ASSUME NEW c \in Clients
    PROVE  /\ Failed(c) \in Clients /\ Failed(c).room = c.room /\ Failed(c).view = c.view
           /\ Failed(c).key = None /\ Failed(c).todo = {}
BY DEF Failed, Clients

LEMMA TakeSteps ==
    ASSUME TypeOK, NEW s \in Sockets,
           ApplyRoomState(s) \/ RejectRoomState(s) \/ OpenEnvelope(s) \/ Ignore(s)
    PROVE  \E c : /\ Takes(s, c)
                  /\ GivesUp(s, c) \/ Follows(s, c) \/ Makes(s, c) \/ Opens(s, c) \/ Ignores(s, c)
<1> DEFINE o == clients[s]
           m == Head(inbox[s])
           d == presence[s].device
           e == Entered(o, m)
<1>1. Ready(s)  BY DEF ApplyRoomState, RejectRoomState, OpenEnvelope, Ignore
<1>2. o \in Clients /\ o.todo = {}  BY <1>1, HeadType
<1>3. d = Device(s)  BY Zenon DEF Device
<1>4. CASE ApplyRoomState(s)
  <2>0. IsState(m) /\ o.room # None /\ Valid(o, d, m)
    BY <1>4 DEF ApplyRoomState
  <2>1. m \in StateEvents /\ IsState(m) /\ o.room # None
    BY <1>1, <2>0, HeadType
  <2>2. /\ e \in Clients /\ e.room = o.room /\ e.view = m /\ e.todo = {}
        /\ e.key # None => o.view # None /\ o.view.epoch = m.epoch /\ e.key = o.key
    BY <1>2, <2>1, EnteredType
  <2>3. Valid(o, d, m) /\ m.room = o.room /\ d \in m.devices  BY <2>0 DEF Valid
  <2>4. m.devices \ {d} \in SUBSET Devices  BY <2>1 DEF StateEvents
  <2>5. CASE d # Least(m.devices) /\ Took(s, e) /\ UNCHANGED known
    <3>1. Takes(s, e)  BY <1>1, <2>2, <2>5 DEF Takes
    <3>2. Follows(s, e)  BY <1>3, <2>1, <2>2, <2>3, <2>5 DEF Follows, Sees
    <3> QED BY <3>1, <3>2
  <2>6. CASE e.key # None /\ Took(s, [e EXCEPT !.todo = m.devices \ {d}]) /\ UNCHANGED known
    <3> DEFINE c == [e EXCEPT !.todo = m.devices \ {d}]
    <3>1. /\ c \in Clients /\ c.room = o.room /\ c.view = m /\ c.key = e.key
          /\ c.todo = m.devices \ {d}
      BY <2>2, <2>4 DEF Clients
    <3> HIDE DEF c, e
    <3>2. Took(s, c)  BY <2>6 DEF c
    <3>3. Takes(s, c)  BY <1>1, <3>1, <3>2 DEF Takes
    <3>4. Follows(s, c)  BY <1>3, <2>1, <2>2, <2>3, <2>6, <3>1 DEF Follows, Sees
    <3> QED BY <3>3, <3>4
  <2>7. ASSUME NEW k \in Keys, ~Carried(k), d = Least(m.devices),
               Took(s, [e EXCEPT !.key = k, !.todo = m.devices \ {d}]),
               known' = [known EXCEPT ![k] = {d}]
        PROVE  \E c : Takes(s, c) /\ Makes(s, c)
    <3> DEFINE c == [e EXCEPT !.key = k, !.todo = m.devices \ {d}]
    <3>1. /\ c \in Clients /\ c.room = o.room /\ c.view = m /\ c.key = k
          /\ c.todo = m.devices \ {d}
      BY <2>2, <2>4 DEF Clients
    <3> HIDE DEF c, e
    <3>2. Took(s, c)  BY <2>7 DEF c
    <3>3. Takes(s, c)  BY <1>1, <3>1, <3>2 DEF Takes
    <3>4. Makes(s, c)  BY <1>3, <2>1, <2>2, <2>3, <2>7, <3>1 DEF Makes, Sees
    <3> QED BY <3>3, <3>4
  <2>8. \/ d # Least(m.devices) /\ Took(s, e) /\ UNCHANGED known
        \/ e.key # None /\ Took(s, [e EXCEPT !.todo = m.devices \ {d}]) /\ UNCHANGED known
        \/ \E k \in Keys : /\ ~Carried(k) /\ d = Least(m.devices)
                           /\ Took(s, [e EXCEPT !.key = k, !.todo = m.devices \ {d}])
                           /\ known' = [known EXCEPT ![k] = {d}]
    BY <1>4 DEF ApplyRoomState
  <2> QED BY <2>5, <2>6, <2>7, <2>8
<1>5. CASE RejectRoomState(s)
  <2>0. IsState(m) /\ o.room # None /\ known' = known  BY <1>5 DEF RejectRoomState
  <2>1. m \in StateEvents /\ IsState(m) /\ o.room # None /\ known' = known
    BY <1>1, <2>0, HeadType
  <2>2. e \in Clients /\ e.room = o.room /\ e.view = m  BY <1>2, <2>1, EnteredType
  <2>3. CASE Took(s, Failed(o))
    <3>1. Takes(s, Failed(o)) /\ GivesUp(s, Failed(o))
      BY <1>1, <1>2, <2>1, <2>3, FailedIs DEF Takes, GivesUp
    <3> QED BY <3>1
  <2>4. CASE Valid(o, d, m) /\ Took(s, Failed(e))
    <3> HIDE DEF e
    <3>1. /\ Failed(e) \in Clients /\ Failed(e).room = o.room /\ Failed(e).view = m
          /\ Failed(e).key = None /\ Failed(e).todo = {}
      BY <2>2, FailedIs
    <3>2. Sees(s, Failed(e))  BY <1>3, <2>1, <2>4, <3>1 DEF Sees, Valid
    <3>3. Takes(s, Failed(e)) /\ GivesUp(s, Failed(e))
      BY <1>1, <2>1, <2>4, <3>1, <3>2 DEF Takes, GivesUp
    <3> QED BY <3>3
  <2> QED BY <1>5, <2>3, <2>4 DEF RejectRoomState
<1>6. CASE OpenEnvelope(s)
  <2>0. ~IsState(m) /\ o.view # None /\ known' = known  BY <1>6 DEF OpenEnvelope
  <2>1. m \in Envelopes /\ ~IsState(m) /\ o.view # None /\ known' = known
    BY <1>1, <2>0, HeadType
  <2>2. CASE Took(s, Failed(o))
    <3>1. Takes(s, Failed(o)) /\ GivesUp(s, Failed(o))
      BY <1>1, <1>2, <2>1, <2>2, FailedIs DEF Takes, GivesUp
    <3> QED BY <3>1
  <2>3. CASE /\ m.room = o.view.room /\ m.epoch = o.view.epoch /\ m.from = Least(o.view.devices)
             /\ Took(s, [o EXCEPT !.key = m.key, !.in = m.number])
    <3> DEFINE c == [o EXCEPT !.key = m.key, !.in = m.number]
    <3>1. /\ c \in Clients /\ c.room = o.room /\ c.view = o.view /\ c.key = m.key
          /\ c.todo = {}
      BY <1>2, <2>1 DEF Clients, Envelopes
    <3> HIDE DEF c
    <3>2. Took(s, c)  BY <2>3 DEF c
    <3>3. Takes(s, c)  BY <1>1, <3>1, <3>2 DEF Takes
    <3>4. Opens(s, c)  BY <2>1, <2>3, <3>1 DEF Opens
    <3> QED BY <3>3, <3>4
  <2> QED BY <1>6, <2>2, <2>3 DEF OpenEnvelope
<1>7. CASE Ignore(s)
  <2>1. Takes(s, o) /\ Ignores(s, o)  BY <1>1, <1>2, <1>7 DEF Takes, Ignores, Ignore
  <2> QED BY <2>1
<1> QED BY <1>4, <1>5, <1>6, <1>7

LEMMA TakesIs ==
    ASSUME TypeOK, NEW s \in Sockets, NEW c, Takes(s, c)
    PROVE  /\ clients[s] # None /\ clients'[s] = c /\ clients[s].todo = {}
           /\ c.room = clients[s].room /\ c # None
           /\ inbox[s] \in Seq(Events) /\ inbox'[s] \in Seq(Events) /\ Len(inbox[s]) \in Nat \ {0}
           /\ Len(inbox'[s]) = Len(inbox[s]) - 1
           /\ \A i \in 1 .. Len(inbox[s]) - 1 : inbox'[s][i] = inbox[s][i + 1]
           /\ Head(inbox[s]) = inbox[s][1]
           /\ \A t \in Sockets \ {s} : clients'[t] = clients[t] /\ inbox'[t] = inbox[t]
           /\ UNCHANGED <<channels, presence, rooms, revoked, banned, confused>>
<1>1. /\ Head(inbox[s]) = inbox[s][1] /\ inbox[s] \in Seq(Events) /\ Len(inbox[s]) > 0
      /\ clients[s] # None /\ clients[s].todo = {}
  BY HeadType DEF Takes
<1>2. inbox'[s] = Tail(inbox[s]) /\ \A t \in Sockets \ {s} : inbox'[t] = inbox[t]
  BY DEF Takes, Took, TypeOK
<1>3. /\ Len(inbox'[s]) = Len(inbox[s]) - 1 /\ inbox'[s] \in Seq(Events)
      /\ \A i \in 1 .. Len(inbox[s]) - 1 : inbox'[s][i] = inbox[s][i + 1]
  BY <1>1, <1>2
<1>4. clients'[s] = c /\ \A t \in Sockets \ {s} : clients'[t] = clients[t]
  BY DEF Takes, Took, TypeOK
<1> QED BY <1>1, <1>2, <1>3, <1>4 DEF Takes, Took

------------------------------------------------------------------------------
(***************************************************************************)
(* Who is connected, and what a client works with.                         *)
(***************************************************************************)
LEMMA DropSockets ==
    ASSUME TypeOK, SocketsInv, ClientsInv, NEW S, S \subseteq Sockets, NEW rev, NEW ban,
           Drop(S, rev, ban),
           \A t \in Sockets \ S : presence[t] # None => Authorized(Device(t), rev, ban)
    PROVE  SocketsInv' /\ ClientsInv'
<1>1. /\ channels' = channels /\ revoked' = rev /\ banned' = ban
      /\ \A t \in S : clients'[t] = None /\ presence'[t] = None /\ inbox'[t] = <<>>
      /\ \A t \in Sockets \ S : /\ clients'[t] = clients[t] /\ presence'[t] = presence[t]
                                /\ clients'[t] = None => inbox'[t] = <<>>
  BY DropStep
<1>2. \A t \in Sockets \ S : Device(t)' = Device(t)  BY <1>1 DEF Device
<1>3. SocketsInv'
  BY <1>1, <1>2 DEF SocketsInv, Authorized
<1>4. \A t \in Sockets : clients'[t] # None => t \in Sockets \ S  BY <1>1
<1>5. ClientsInv'
  BY <1>1, <1>2, <1>4 DEF ClientsInv, ClientInv
<1> QED BY <1>3, <1>5

LEMMA PlaceSockets ==
    ASSUME TypeOK, SocketsInv, ClientsInv, NEW s \in Sockets, clients[s] # None,
           NEW q \in channels \cup {None}, UNCHANGED <<channels, revoked, banned>>,
           clients'[s] = [Idle EXCEPT !.room = q],
           presence'[s] = [presence[s] EXCEPT !.room = q],
           \A t \in Sockets \ {s} : /\ clients'[t] = clients[t] /\ presence'[t] = presence[t]
                                    /\ clients'[t] = None => inbox'[t] = <<>>
    PROVE  SocketsInv' /\ ClientsInv'
<1>1. presence[s] \in Presence /\ q \in Rooms \cup {None}  BY DEF TypeOK, SocketsInv
<1>2. presence'[s] # None /\ presence'[s].room = q /\ Device(s)' = Device(s)
  BY <1>1, PlacedType DEF Device
<1>3. [Idle EXCEPT !.room = q] \in Clients  BY <1>1, IdleType
<1>4. /\ clients'[s] # None /\ clients'[s].room = q /\ clients'[s].view = None
      /\ clients'[s].key = None /\ clients'[s].todo = {}
  BY <1>3 DEF Idle
<1>5. \A t \in Sockets : Device(t)' = Device(t)  BY <1>2 DEF Device
<1>6. \A t \in Sockets : clients'[t] # None <=> clients[t] # None  BY <1>4
<1>7. \A t \in Sockets : presence'[t] # None <=> presence[t] # None
  BY <1>1, <1>2
<1>8. SocketsInv'
  <2>1. \A t \in Sockets : clients'[t] = None => inbox'[t] = <<>>  BY <1>4
  <2>2. \A t \in Sockets : clients'[t] # None =>
           presence'[t] # None /\ presence'[t].room \in {clients'[t].room, None}
    BY <1>2, <1>4 DEF SocketsInv
  <2>3. \A t \in Sockets : presence'[t] # None =>
           Authorized(Device(t), revoked, banned)' /\ presence'[t].room \in channels' \cup {None}
    <3>1. \A t \in Sockets : presence'[t] # None =>
             Authorized(Device(t), revoked, banned) /\ presence'[t].room \in channels \cup {None}
      BY <1>2, <1>7 DEF SocketsInv
    <3> QED BY <1>5, <3>1 DEF Authorized
  <2>4. \A t, u \in Sockets :
           clients'[t] # None /\ clients'[u] # None /\ Device(t)' = Device(u)' => t = u
    BY <1>5, <1>6 DEF SocketsInv
  <2> QED BY <2>1, <2>2, <2>3, <2>4 DEF SocketsInv
<1>9. ClientInv(s)'  BY <1>4 DEF ClientInv
<1>10. \A t \in Sockets \ {s} : clients'[t] # None => ClientInv(t)'
  BY <1>5 DEF ClientsInv, ClientInv
<1> QED BY <1>8, <1>9, <1>10 DEF ClientsInv

\* A step of one client that neither moves it nor the others.
LEMMA ClientSockets ==
    ASSUME TypeOK, SocketsInv, ClientsInv, NEW s \in Sockets, clients[s] # None,
           clients'[s] # None, clients'[s].room = clients[s].room, ClientInv(s)',
           \A t \in Sockets \ {s} : clients'[t] = clients[t],
           \A t \in Sockets : clients[t] = None => inbox'[t] = <<>>,
           UNCHANGED <<channels, presence, revoked, banned>>
    PROVE  SocketsInv' /\ ClientsInv'
<1>1. \A t \in Sockets : Device(t)' = Device(t)  BY DEF Device
<1>2. \A t \in Sockets : clients'[t] # None <=> clients[t] # None  OBVIOUS
<1>3. \A t \in Sockets : clients[t] # None => clients'[t].room = clients[t].room  OBVIOUS
<1>4. SocketsInv'
  <2>1. \A t \in Sockets : clients'[t] # None =>
           presence'[t] # None /\ presence'[t].room \in {clients'[t].room, None}
    BY <1>2, <1>3 DEF SocketsInv
  <2>2. \A t \in Sockets : presence'[t] # None =>
           Authorized(Device(t), revoked, banned)' /\ presence'[t].room \in channels' \cup {None}
    BY <1>1 DEF SocketsInv, Authorized
  <2>3. \A t, u \in Sockets :
           clients'[t] # None /\ clients'[u] # None /\ Device(t)' = Device(u)' => t = u
    BY <1>1, <1>2 DEF SocketsInv
  <2> QED BY <1>2, <2>1, <2>2, <2>3 DEF SocketsInv
<1>5. \A t \in Sockets \ {s} : clients'[t] # None => ClientInv(t)'
  BY <1>1 DEF ClientsInv, ClientInv
<1> QED BY <1>4, <1>5 DEF ClientsInv

LEMMA TakeSockets ==
    ASSUME TypeOK, SocketsInv, ClientsInv, NEW s \in Sockets, NEW c, Takes(s, c),
           GivesUp(s, c) \/ Follows(s, c) \/ Makes(s, c) \/ Opens(s, c) \/ Ignores(s, c)
    PROVE  SocketsInv' /\ ClientsInv'
<1>1. /\ clients[s] # None /\ clients'[s] = c /\ clients[s].todo = {}
      /\ c.room = clients[s].room /\ c # None
      /\ \A t \in Sockets \ {s} : clients'[t] = clients[t] /\ inbox'[t] = inbox[t]
      /\ UNCHANGED <<channels, presence, rooms, revoked, banned>>
  BY TakesIs
<1>2. ClientInv(s) /\ Device(s)' = Device(s)  BY <1>1 DEF ClientsInv, Device
<1>3. Sees(s, c) => c.view # None /\ c.room # None /\ c.view.room = c.room
  <2>1. SUFFICES ASSUME Sees(s, c) PROVE c.view # None /\ c.room # None /\ c.view.room = c.room
    OBVIOUS
  <2>2. Ready(s)  BY DEF Takes
  <2>3. c.view \in StateEvents  BY <2>1, <2>2, HeadType DEF Sees
  <2> QED BY <1>1, <2>1, <2>3 DEF Sees
<1>4. ClientInv(s)'
  <2>1. CASE GivesUp(s, c)
    BY <1>1, <1>2, <1>3, <2>1 DEF GivesUp, ClientInv
  <2>2. CASE Follows(s, c)
    BY <1>1, <1>2, <1>3, <2>2 DEF Follows, ClientInv
  <2>3. CASE Makes(s, c)
    BY <1>1, <1>2, <1>3, <2>3 DEF Makes, ClientInv
  <2>4. CASE Opens(s, c)
    BY <1>1, <1>2, <2>4 DEF Opens, ClientInv
  <2>5. CASE Ignores(s, c)
    BY <1>1, <1>2, <2>5 DEF Ignores, ClientInv
  <2> QED BY <2>1, <2>2, <2>3, <2>4, <2>5
<1>5. \A t \in Sockets : clients[t] = None => inbox'[t] = <<>>
  BY <1>1 DEF SocketsInv
<1> QED BY <1>1, <1>4, <1>5, ClientSockets

\* What sending makes of the client: it goes on, or gives up its key.
LEMMA SendClient ==
    ASSUME TypeOK, SocketsInv, ClientsInv, NEW s \in Sockets, Send(s)
    PROVE  /\ clients[s] # None /\ clients[s].todo # {}
           /\ clients'[s] # None
           /\ clients'[s].room = clients[s].room /\ clients'[s].view = clients[s].view
           /\ \/ /\ clients'[s].key = clients[s].key
                 /\ clients'[s].todo = clients[s].todo \ {Recipient(s)}
                 /\ Relayed(s, Recipient(s), clients[s].out + 1)
                 /\ Delivery(s, Recipient(s), clients[s].out + 1)
              \/ clients'[s].key = None /\ clients'[s].todo = {}
           /\ \/ /\ Relayed(s, Recipient(s), clients[s].out + 1)
                 /\ Delivery(s, Recipient(s), clients[s].out + 1)
              \/ UNCHANGED <<rooms, known, inbox>>
           /\ \A t \in Sockets \ {s} : clients'[t] = clients[t]
           /\ UNCHANGED <<channels, presence, revoked, banned, confused>>
<1> DEFINE o == clients[s]
           t == Recipient(s)
           n == o.out + 1
           c1 == [o EXCEPT !.out = n, !.todo = @ \ {t}]
           c2 == Failed([o EXCEPT !.out = n])
<1>1. o # None /\ o.todo # {}  BY DEF Send
<1>2. o \in Clients /\ n \in Nat  BY <1>1, SendFacts
<1>3. /\ c1 \in Clients /\ c1.room = o.room /\ c1.view = o.view /\ c1.key = o.key
      /\ c1.todo = o.todo \ {t}
  BY <1>2 DEF Clients
<1>4. [o EXCEPT !.out = n] \in Clients
      /\ [o EXCEPT !.out = n].room = o.room /\ [o EXCEPT !.out = n].view = o.view
  BY <1>2 DEF Clients
<1>5. /\ c2 \in Clients /\ c2.room = o.room /\ c2.view = o.view /\ c2.key = None
      /\ c2.todo = {}
  BY <1>4, FailedIs
<1>6. \/ /\ Relayed(s, t, n) /\ Delivery(s, t, n)
         /\ clients' = [clients EXCEPT ![s] = c1]
      \/ /\ clients' = [clients EXCEPT ![s] = c2]
         /\ \/ Relayed(s, t, n) /\ Delivery(s, t, n)
            \/ UNCHANGED <<rooms, known, inbox>>
  BY DEF Send, Recipient
<1>7. UNCHANGED <<channels, presence, revoked, banned, confused>>  BY DEF Send
<1> HIDE DEF c1, c2, n, t
<1>8. /\ clients'[s] \in {c1, c2} /\ \A u \in Sockets \ {s} : clients'[u] = clients[u]
      /\ clients'[s] = c1 => (Relayed(s, t, n) /\ Delivery(s, t, n)) \/ c1 = c2
      /\ \/ Relayed(s, t, n) /\ Delivery(s, t, n)
         \/ UNCHANGED <<rooms, known, inbox>>
  BY <1>6 DEF TypeOK
<1> QED BY <1>1, <1>3, <1>5, <1>7, <1>8 DEF n, t

LEMMA SendSockets ==
    ASSUME TypeOK, SocketsInv, ClientsInv, NEW s \in Sockets, Send(s)
    PROVE  SocketsInv' /\ ClientsInv'
<1>1. /\ clients[s] # None /\ clients[s].todo # {} /\ clients'[s] # None
      /\ clients'[s].room = clients[s].room /\ clients'[s].view = clients[s].view
      /\ \/ /\ clients'[s].key = clients[s].key
            /\ clients'[s].todo = clients[s].todo \ {Recipient(s)}
         \/ clients'[s].key = None /\ clients'[s].todo = {}
      /\ \/ /\ Relayed(s, Recipient(s), clients[s].out + 1)
            /\ Delivery(s, Recipient(s), clients[s].out + 1)
         \/ UNCHANGED <<rooms, known, inbox>>
      /\ \A t \in Sockets \ {s} : clients'[t] = clients[t]
      /\ UNCHANGED <<channels, presence, revoked, banned>>
  BY SendClient
<1>2. ClientInv(s) /\ Device(s)' = Device(s)  BY <1>1 DEF ClientsInv, Device
<1>3. ClientInv(s)'  BY <1>1, <1>2 DEF ClientInv
<1>4. \A t \in Sockets : clients[t] = None => inbox'[t] = <<>>
  <2>1. CASE UNCHANGED inbox  BY <2>1 DEF SocketsInv
  <2>2. CASE /\ Relayed(s, Recipient(s), clients[s].out + 1)
             /\ Delivery(s, Recipient(s), clients[s].out + 1)
    <3>1. \E to \in Sockets : inbox' = IF clients[to] = None THEN inbox
                                       ELSE [inbox EXCEPT ![to] = Append(@, Envelope(s))]
      BY <1>1, <2>2, DeliveryFacts
    <3> QED BY <3>1 DEF SocketsInv, TypeOK
  <2> QED BY <1>1, <2>1, <2>2
<1> QED BY <1>1, <1>3, <1>4, ClientSockets

LEMMA BaseStep ==
    ASSUME TypeOK, SocketsInv, ClientsInv, Next
    PROVE  TypeOK' /\ SocketsInv' /\ ClientsInv'
<1>1. ASSUME NEW s \in Sockets, NEW d \in Devices, Connect(s, d)
      PROVE  SocketsInv' /\ ClientsInv'
  <2>1. /\ presence[s] = None /\ Authorized(d, revoked, banned)
        /\ \A t \in Sockets : clients[t] # None => presence[t].device # d
        /\ presence'[s] = [device |-> d, room |-> None] /\ clients'[s] = Idle
        /\ \A t \in Sockets \ {s} : presence'[t] = presence[t] /\ clients'[t] = clients[t]
        /\ UNCHANGED <<channels, revoked, banned, inbox>>
    BY <1>1 DEF Connect, TypeOK
  <2>2. Idle # None /\ [device |-> d, room |-> None] # None
    BY DEF Idle, Clients, Presence
  <2>3. SocketsInv'
    BY <2>1, <2>2 DEF SocketsInv, Device, Authorized, Idle
  <2>4. ClientInv(s)'  BY <2>1 DEF ClientInv, Idle
  <2>5. \A t \in Sockets \ {s} : clients'[t] # None => ClientInv(t)'
    BY <2>1 DEF ClientsInv, ClientInv, Device
  <2> QED BY <2>3, <2>4, <2>5 DEF ClientsInv
<1>2. ASSUME NEW s \in Sockets, Lose(s) PROVE SocketsInv' /\ ClientsInv'
  <2>1. /\ clients'[s] = None /\ inbox'[s] = <<>>
        /\ \A t \in Sockets \ {s} : inbox'[t] = inbox[t] /\ clients'[t] = clients[t]
        /\ UNCHANGED <<channels, presence, revoked, banned>>
    BY <1>2 DEF Lose, TypeOK
  <2>2. SocketsInv'  BY <2>1 DEF SocketsInv, Device, Authorized
  <2>3. ClientsInv'  BY <2>1 DEF ClientsInv, ClientInv, Device
  <2> QED BY <2>2, <2>3
<1>3. ASSUME NEW s \in Sockets, Disconnect(s) PROVE SocketsInv' /\ ClientsInv'
  <2>1. Drop({s}, revoked, banned)  BY <1>3 DEF Disconnect
  <2>2. \A t \in Sockets \ {s} : presence[t] # None => Authorized(Device(t), revoked, banned)
    BY DEF SocketsInv
  <2> QED BY <2>1, <2>2, DropSockets
<1>4. ASSUME NEW s \in Sockets, NEW r \in Rooms, Join(s, r) PROVE SocketsInv' /\ ClientsInv'
  <2>1. clients[s] # None /\ r \in channels  BY <1>4 DEF Join
  <2> QED BY <1>4, <2>1, JoinStep, PlaceSockets
<1>5. ASSUME NEW s \in Sockets, Leave(s) PROVE SocketsInv' /\ ClientsInv'
  <2>1. clients[s] # None  BY <1>5 DEF Leave
  <2>2. Idle = [Idle EXCEPT !.room = None]  BY DEF Idle
  <2>3. clients'[s] = [Idle EXCEPT !.room = None]  BY <1>5, <2>2, LeaveStep
  <2> QED BY <1>5, <2>1, <2>3, LeaveStep, PlaceSockets
<1>6. ASSUME NEW s \in Sockets,
             ApplyRoomState(s) \/ RejectRoomState(s) \/ OpenEnvelope(s) \/ Ignore(s)
      PROVE  SocketsInv' /\ ClientsInv'
  BY <1>6, TakeSteps, TakeSockets
<1>7. ASSUME NEW s \in Sockets, Send(s) PROVE SocketsInv' /\ ClientsInv'
  BY <1>7, SendSockets
<1>8. ASSUME NEW d \in Devices, RevokeDevice(d) PROVE SocketsInv' /\ ClientsInv'
  <2> DEFINE S == {s \in Sockets : presence[s] # None /\ presence[s].device = d}
  <2>1. Drop(S, revoked \cup {d}, banned) /\ S \subseteq Sockets  BY <1>8 DEF RevokeDevice
  <2>2. \A t \in Sockets \ S :
           presence[t] # None => Authorized(Device(t), revoked \cup {d}, banned)
    BY DEF SocketsInv, Authorized, Device
  <2> HIDE DEF S
  <2> QED BY <2>1, <2>2, DropSockets
<1>9. ASSUME NEW u \in Users, Ban(u) PROVE SocketsInv' /\ ClientsInv'
  <2> DEFINE S == {s \in Sockets : presence[s] # None /\ UserOf[presence[s].device] = u}
  <2>1. Drop(S, revoked, banned \cup {u}) /\ S \subseteq Sockets  BY <1>9 DEF Ban
  <2>2. \A t \in Sockets \ S :
           presence[t] # None => Authorized(Device(t), revoked, banned \cup {u})
    BY DEF SocketsInv, Authorized, Device
  <2> HIDE DEF S
  <2> QED BY <2>1, <2>2, DropSockets
<1>10. ASSUME NEW u \in Users, Unban(u) PROVE SocketsInv' /\ ClientsInv'
  <2>1. /\ banned' = banned \ {u}
        /\ UNCHANGED <<channels, presence, revoked, clients, inbox>>
    BY <1>10 DEF Unban
  <2>2. SocketsInv'  BY <2>1 DEF SocketsInv, Device, Authorized
  <2>3. ClientsInv'  BY <2>1 DEF ClientsInv, ClientInv, Device
  <2> QED BY <2>2, <2>3
<1>11. ASSUME NEW r \in Rooms, DeleteChannel(r) PROVE SocketsInv' /\ ClientsInv'
  <2>1. /\ \A s \in Sockets :
             /\ presence'[s] # None <=> presence[s] # None
             /\ presence[s] # None =>
                  /\ Device(s)' = Device(s) /\ presence'[s].room # r
                  /\ presence'[s].room \in {presence[s].room, None}
    BY <1>11, DeleteChannelStep
  <2>2. channels' = channels \ {r} /\ UNCHANGED <<revoked, banned, clients, inbox>>
    BY <1>11 DEF DeleteChannel
  <2>3. \A t \in Sockets : clients[t] # None => presence[t] # None  BY DEF SocketsInv
  <2>4. None # r  OBVIOUS
  <2>5. SocketsInv'
    <3>1. \A t \in Sockets : clients'[t] # None =>
             presence'[t] # None /\ presence'[t].room \in {clients'[t].room, None}
      BY <2>1, <2>2 DEF SocketsInv
    <3>2. \A t \in Sockets : presence'[t] # None =>
             Authorized(Device(t), revoked, banned)' /\ presence'[t].room \in channels' \cup {None}
      BY <2>1, <2>2 DEF SocketsInv, Authorized
    <3>3. \A t, v \in Sockets :
             clients'[t] # None /\ clients'[v] # None /\ Device(t)' = Device(v)' => t = v
      BY <2>1, <2>2, <2>3 DEF SocketsInv
    <3>4. \A t \in Sockets : clients'[t] = None => inbox'[t] = <<>>
      BY <2>2 DEF SocketsInv
    <3> QED BY <3>1, <3>2, <3>3, <3>4 DEF SocketsInv
  <2>6. ClientsInv'  BY <2>1, <2>2, <2>3 DEF ClientsInv, ClientInv
  <2> QED BY <2>5, <2>6
<1>12. ASSUME Restart PROVE SocketsInv' /\ ClientsInv'
  BY <1>12 DEF Restart, SocketsInv, ClientsInv
<1>13. TypeOK'  BY TypesStep
<1> QED BY <1>1, <1>2, <1>3, <1>4, <1>5, <1>6, <1>7, <1>8, <1>9, <1>10, <1>11, <1>12, <1>13
        DEF Next, OfSocket

(***************************************************************************)
(* The types hold: every field of the rooms, of the events on their way    *)
(* and of the clients has its type, whatever is joined, lost, banned,      *)
(* revoked, deleted or sent, also when events of an earlier stay in a room *)
(* come late.                                                              *)
(***************************************************************************)
THEOREM TypesHold == Spec => []TypeOK
<1>1. Init => TypeOK /\ SocketsInv /\ ClientsInv
  BY DEF Init, TypeOK, SocketsInv, ClientsInv
<1>2. TypeOK /\ SocketsInv /\ ClientsInv /\ [Next]_vars => (TypeOK /\ SocketsInv /\ ClientsInv)'
  <2>1. ASSUME TypeOK, SocketsInv, ClientsInv, UNCHANGED vars
        PROVE  TypeOK' /\ SocketsInv' /\ ClientsInv'
    <3>1. TypeOK'  BY <2>1 DEF vars, TypeOK
    <3>2. SocketsInv'  BY <2>1 DEF vars, SocketsInv, Device, Authorized
    <3>3. ClientsInv'  BY <2>1 DEF vars, ClientsInv, ClientInv, Device
    <3> QED BY <3>1, <3>2, <3>3
  <2> QED BY <2>1, BaseStep
<1> QED BY <1>1, <1>2, PTL DEF Spec

------------------------------------------------------------------------------
(***************************************************************************)
(* The state of a room names the devices in it.                            *)
(***************************************************************************)
LEMMA ActiveIs ==
    ASSUME NEW p, NEW rev, NEW ban,
           \A s \in Sockets : p[s] # None => Authorized(p[s].device, rev, ban)
    PROVE  \A r : Active(p, r, rev, ban) = {d \in Devices : SocketsIn(p, r, d) # {}}
BY DEF Active, SocketsIn

LEMMA RoomsStep ==
    ASSUME TypeOK, SocketsInv, RoomsInv, TypeOK', SocketsInv', RoomStep
    PROVE  RoomsInv'
<1> SUFFICES ASSUME NEW r \in channels'
             PROVE  LET D == Active(presence', r, revoked', banned')
                    IN  IF D = {} THEN rooms'[r] = None
                        ELSE rooms'[r] # None /\ rooms'[r].devices = D
  BY DEF RoomsInv
<1> DEFINE D == Active(presence', r, revoked', banned')
<1>1. r \in Rooms /\ r \in channels /\ rooms[r] \in RoomStates \cup {None}
  BY DEF TypeOK, RoomStep
<1>2. D \in SUBSET Devices  BY DEF Active
<1>3. CASE rooms'[r] = Announced(rooms[r], D)
  <2> HIDE DEF D
  <2>1. /\ Announced(rooms[r], D) = None <=> D = {}
        /\ D # {} => Announced(rooms[r], D).devices = D
    BY <1>1, <1>2, AnnouncedIs
  <2>2. D = {} => rooms'[r] = None  BY <1>3, <2>1
  <2>3. D # {} => rooms'[r] # None /\ rooms'[r].devices = D  BY <1>3, <2>1
  <2> QED BY <2>2, <2>3 DEF D
<1>4. CASE rooms'[r] = rooms[r] /\ \A d : SocketsIn(presence', r, d) = SocketsIn(presence, r, d)
  <2>1. D = {d \in Devices : SocketsIn(presence', r, d) # {}}
    <3>1. \A s \in Sockets : presence'[s] # None => Authorized(presence'[s].device, revoked', banned')
      BY DEF SocketsInv, Device, Authorized
    <3> QED BY <3>1, ActiveIs
  <2>2. Active(presence, r, revoked, banned) = {d \in Devices : SocketsIn(presence, r, d) # {}}
    <3>1. \A s \in Sockets : presence[s] # None => Authorized(presence[s].device, revoked, banned)
      BY DEF SocketsInv, Device
    <3> QED BY <3>1, ActiveIs
  <2>3. D = Active(presence, r, revoked, banned)  BY <1>4, <2>1, <2>2
  <2> HIDE DEF D
  <2> QED BY <1>1, <1>4, <2>3 DEF RoomsInv, D
<1> QED BY <1>1, <1>3, <1>4 DEF RoomStep

\* A connection in a room.
LEMMA InRoom ==
    ASSUME TypeOK, SocketsInv, RoomsInv, NEW s \in Sockets, NEW r \in Rooms, In(s, r)
    PROVE  /\ r \in channels /\ r # None /\ rooms[r] \in RoomStates /\ rooms[r] # None
           /\ rooms[r].devices = Active(presence, r, revoked, banned)
           /\ Device(s) \in rooms[r].devices /\ Device(s) \in Devices
           /\ clients[s] # None /\ clients[s] \in Clients /\ clients[s].room = r
           /\ presence[s] # None /\ presence[s].room = r
           /\ inbox[s] \in Seq(Events) /\ rooms[r].epoch \in Nat
<1>1. /\ clients[s] # None /\ presence[s] # None /\ presence[s].room = r /\ r # None
      /\ presence[s] \in Presence /\ clients[s] \in Clients /\ clients[s].room = r
      /\ inbox[s] \in Seq(Events)
  BY DEF In, SocketsInv, TypeOK, Events
<1>2. r \in channels /\ Authorized(Device(s), revoked, banned)  BY <1>1 DEF SocketsInv
<1>3. Device(s) \in Devices  BY <1>1 DEF Device, Presence
<1>4. s \in SocketsIn(presence, r, Device(s))  BY <1>1 DEF SocketsIn, Device
<1>5. Device(s) \in Active(presence, r, revoked, banned)  BY <1>2, <1>3, <1>4 DEF Active
<1>6. /\ rooms[r] # None /\ rooms[r].devices = Active(presence, r, revoked, banned)
  BY <1>2, <1>5 DEF RoomsInv
<1>7. rooms[r] \in RoomStates  BY <1>6 DEF TypeOK
<1>8. rooms[r].epoch \in Nat  BY <1>7 DEF RoomStates
<1> QED BY <1>1, <1>2, <1>3, <1>5, <1>6, <1>7, <1>8

LEMMA InRoomNext ==
    ASSUME TypeOK', SocketsInv', RoomsInv', NEW s \in Sockets, NEW r \in Rooms, In(s, r)'
    PROVE  /\ r \in channels' /\ r # None /\ rooms'[r] \in RoomStates /\ rooms'[r] # None
           /\ clients'[s] # None /\ clients'[s] \in Clients /\ clients'[s].room = r
           /\ presence'[s] # None /\ presence'[s].room = r
           /\ inbox'[s] \in Seq(Events) /\ rooms'[r].epoch \in Nat
<1>1. /\ clients'[s] # None /\ presence'[s] # None /\ presence'[s].room = r /\ r # None
      /\ presence'[s] \in Presence /\ clients'[s] \in Clients /\ clients'[s].room = r
      /\ inbox'[s] \in Seq(Events)
  BY DEF In, SocketsInv, TypeOK, Events
<1>2. r \in channels' /\ Authorized(Device(s), revoked, banned)'  BY <1>1 DEF SocketsInv
<1>3. Device(s)' \in Devices  BY <1>1 DEF Device, Presence
<1>4. s \in SocketsIn(presence', r, Device(s)')  BY <1>1 DEF SocketsIn, Device
<1>5. Device(s)' \in Active(presence', r, revoked', banned')
  BY <1>2, <1>3, <1>4 DEF Active, Authorized
<1>6. rooms'[r] # None  BY <1>2, <1>5 DEF RoomsInv
<1>7. rooms'[r] \in RoomStates  BY <1>6 DEF TypeOK
<1>8. rooms'[r].epoch \in Nat  BY <1>7 DEF RoomStates
<1> QED BY <1>1, <1>2, <1>6, <1>7, <1>8

(***************************************************************************)
(* Within an epoch a room grows: what fits it still does, and who knew a   *)
(* key is still a member.                                                  *)
(***************************************************************************)
Grows(r) ==
    /\ rooms[r].epoch \in Nat /\ rooms'[r].epoch \in Nat
    /\ rooms[r].epoch <= rooms'[r].epoch
    /\ rooms[r].epoch = rooms'[r].epoch =>
         /\ rooms[r].devices \subseteq rooms'[r].devices
         /\ Least(rooms[r].devices) = Least(rooms'[r].devices)

LEMMA RoomGrows ==
    ASSUME TypeOK, NEW r \in Rooms, RoomStep, rooms[r] \in RoomStates, rooms'[r] \in RoomStates,
           rooms'[r] # None
    PROVE  Grows(r)
<1> DEFINE D == Active(presence', r, revoked', banned')
<1>1. rooms[r].epoch \in Nat /\ rooms'[r].epoch \in Nat  BY DEF RoomStates
<1>2. CASE rooms'[r] = rooms[r]
  BY <1>1, <1>2 DEF Grows
<1>3. CASE rooms'[r] = Announced(rooms[r], D)
  <2> HIDE DEF D
  <2>1. rooms'[r] = NewState(rooms[r], D)  BY <1>3 DEF Announced
  <2> QED BY <1>1, <2>1, NewStateGrows DEF Grows
<1> QED BY <1>2, <1>3 DEF RoomStep

LEMMA FitsKeeps ==
    ASSUME NEW r, Grows(r), NEW m, m.epoch \in Nat, Fits(m, r)
    PROVE  /\ m.epoch <= rooms'[r].epoch
           /\ m.epoch = rooms'[r].epoch => /\ m.devices \subseteq rooms'[r].devices
                                           /\ Least(m.devices) = Least(rooms'[r].devices)
<1>1. /\ m.epoch <= rooms[r].epoch
      /\ m.epoch = rooms[r].epoch => /\ m.devices \subseteq rooms[r].devices
                                     /\ Least(m.devices) = Least(rooms[r].devices)
  BY DEF Fits
<1>2. m.epoch <= rooms'[r].epoch  BY <1>1 DEF Grows
<1>3. m.epoch = rooms'[r].epoch =>
        m.epoch = rooms[r].epoch /\ rooms[r].epoch = rooms'[r].epoch
  BY <1>1 DEF Grows
<1> QED BY <1>1, <1>2, <1>3 DEF Grows

LEMMA ConfinedKeeps ==
    ASSUME NEW r, Grows(r), NEW e \in Nat, e <= rooms[r].epoch, NEW k, Confined(k, e, r),
           known' = known
    PROVE  /\ e <= rooms'[r].epoch
           /\ e = rooms'[r].epoch => known'[k] \subseteq rooms'[r].devices
<1>1. e = rooms'[r].epoch => e = rooms[r].epoch /\ rooms[r].epoch = rooms'[r].epoch
  BY DEF Grows
<1>2. e <= rooms'[r].epoch  BY DEF Grows
<1> QED BY <1>1, <1>2 DEF Grows, Confined

LEMMA StateEventIs ==
    ASSUME NEW r, NEW room
    PROVE  /\ IsState(StateEvent(r, room)) /\ StateEvent(r, room).room = r
           /\ StateEvent(r, room).epoch = room.epoch
           /\ StateEvent(r, room).devices = room.devices
BY DEF StateEvent, IsState

\* The type of an event in a queue.
LEMMA EventType ==
    ASSUME NEW q \in Seq(Events), NEW i \in DOMAIN q
    PROVE  /\ q[i] \in Events /\ q[i].epoch \in Nat /\ q[i].room \in Rooms
           /\ ~IsState(q[i]) => q[i].key \in Keys
<1>1. q[i] \in Events  OBVIOUS
<1>2. q[i] \in StateEvents \/ q[i] \in Envelopes  BY <1>1 DEF Events
<1>3. CASE q[i] \in StateEvents
  BY <1>1, <1>3, Kinds DEF StateEvents
<1>4. CASE q[i] \in Envelopes
  BY <1>1, <1>4 DEF Envelopes
<1> QED BY <1>2, <1>3, <1>4

(***************************************************************************)
(* What a step of the server leaves of the rest: members fit their room,   *)
(* a key is of one room, and what was delivered stays so.  An event that   *)
(* is on its way to a connection that enters its room was sent to it as a  *)
(* member, unless the room is confused then.                               *)
(***************************************************************************)
Same(t) == clients'[t] = clients[t] /\ presence'[t] = presence[t]

LEMMA MovesIs ==
    ASSUME TypeOK, SocketsInv, TypeOK', SocketsInv', RoomsInv', RoomStep,
           NEW t \in Sockets, NEW r \in Rooms, In(t, r)', r \notin confused'
    PROVE  /\ Device(t)' = Device(t) /\ clients[t] # None /\ inbox[t] \in Seq(Events)
           /\ \/ Same(t) /\ In(t, r) /\ Left(t, 0)
              \/ /\ clients'[t].view = None /\ clients'[t].key = None
                 /\ \E n \in 0 .. Len(inbox[t]) :
                      /\ Left(t, n)
                      /\ \A i \in n + 1 .. Len(inbox[t]) : inbox[t][i].room = r => In(t, r)
<1>1. clients'[t] # None /\ presence'[t] # None /\ presence'[t].room = r /\ r # None
  BY DEF In, SocketsInv
<1>2. inbox[t] \in Seq(Events)  BY DEF TypeOK, Events
<1>3. CASE Remains(t)
  BY <1>1, <1>2, <1>3 DEF Remains, Same, In, Device
<1>4. CASE Enters(t, r)
  <2>1. clients[t] # None /\ presence[t] # None /\ presence[t] \in Presence
        /\ presence[t].room \in {clients[t].room, None}
    BY <1>4 DEF Enters, SocketsInv, TypeOK
  <2>2. Device(t)' = Device(t)  BY <1>4, <2>1, PlacedType DEF Enters, Device
  <2>3. clients'[t].view = None /\ clients'[t].key = None  BY <1>4 DEF Enters, Idle
  <2>7. rooms'[r] # None  BY InRoomNext DEF RoomStep
  <2>4. PICK n \in 0 .. Len(inbox[t]) : Left(t, n) /\ ~OfEarlierStay(t, r, n)
    BY <1>4, <2>7 DEF Enters
  <2>5. presence[t].room = r => In(t, r)  BY <1>1, <2>1 DEF In
  <2>6. \A i \in n + 1 .. Len(inbox[t]) : inbox[t][i].room = r => In(t, r)
    BY <2>4, <2>5 DEF OfEarlierStay
  <2> QED BY <1>2, <2>1, <2>2, <2>3, <2>4, <2>6
<1> QED BY <1>1, <1>3, <1>4 DEF RoomStep

\* Which events are left, and what comes after them.
LEMMA LeftEvents ==
    ASSUME TypeOK, TypeOK', SocketsInv', NEW t \in Sockets, NEW r \in Rooms, In(t, r)',
           NEW n \in 0 .. Len(inbox[t]), Left(t, n), NEW i \in DOMAIN inbox'[t]
    PROVE  \/ /\ i + n \in n + 1 .. Len(inbox[t]) /\ i + n \in DOMAIN inbox[t]
              /\ inbox'[t][i] = inbox[t][i + n]
           \/ /\ inbox'[t][i] = StateEvent(r, rooms'[r])
              /\ SocketFor(presence', r, Device(t)') = t
<1>1. inbox[t] \in Seq(Events) /\ inbox'[t] \in Seq(Events)  BY DEF TypeOK, Events
<1>2. i \in 1 .. Len(inbox'[t]) /\ DOMAIN inbox[t] = 1 .. Len(inbox[t]) /\ n \in Nat /\ i \in Nat
      /\ Len(inbox[t]) \in Nat
  BY <1>1
<1>3. CASE i <= Len(inbox[t]) - n
  BY <1>2, <1>3 DEF Left
<1>4. CASE ~(i <= Len(inbox[t]) - n)
  <2>1. i = Len(inbox'[t]) /\ Len(inbox'[t]) # Len(inbox[t]) - n  BY <1>2, <1>4 DEF Left
  <2>2. presence'[t].room = r  BY DEF In
  <2> QED BY <2>1, <2>2 DEF Left, Device
<1> QED BY <1>3, <1>4

\* The connection that a device is told on stays the one.
LEMMA SocketStays ==
    ASSUME TypeOK, SocketsInv, RoomStep, NEW s \in Sockets, NEW r \in Rooms,
           In(s, r), In(s, r)', Device(s)' = Device(s),
           SocketFor(presence, r, Device(s)) = s, presence'[s] # None
    PROVE  SocketFor(presence', r, Device(s)') = s
<1> DEFINE S == SocketsIn(presence, r, Device(s))
           T == SocketsIn(presence', r, Device(s))
<1>1. ASSUME NEW t \in T PROVE t \in S
  <2>1. t \in Sockets /\ presence'[t] # None /\ presence'[t].room = r
        /\ presence'[t].device = Device(s)
    BY <1>1 DEF SocketsIn
  <2>2. CASE Remains(t)
    BY <2>1, <2>2 DEF Remains, SocketsIn
  <2>3. CASE Enters(t, r)
    <3>1. clients[t] # None /\ presence[t] \in Presence
      BY <2>1, <2>3 DEF Enters, SocketsInv, TypeOK
    <3>2. presence'[t].device = presence[t].device
      BY <2>3, <3>1, PlacedType DEF Enters
    <3>3. t = s  BY <2>1, <3>1, <3>2 DEF SocketsInv, Device, In
    <3>4. presence[s] # None /\ presence[s].room = r  BY DEF In, SocketsInv
    <3> QED BY <3>3, <3>4 DEF SocketsIn, Device
  <2> QED BY <2>1, <2>2, <2>3 DEF RoomStep
<1>2. s \in T  BY DEF In, SocketsIn, Device
<1>3. S \subseteq Nat  BY DEF SocketsIn
<1>4. Least(S) = s  BY DEF SocketFor
<1> HIDE DEF S, T
<1>5. Least(T) = s  BY <1>1, <1>2, <1>3, <1>4, LeastOfPart
<1> QED BY <1>5 DEF SocketFor, T

LEMMA MembersStep ==
    ASSUME TypeOK, SocketsInv, RoomsInv, ClientsInv, Members,
           TypeOK', SocketsInv', RoomsInv', RoomStep
    PROVE  Members'
<1> SUFFICES ASSUME NEW s \in Sockets, NEW r \in Rooms, r \notin confused', In(s, r)'
             PROVE  MemberInv(s, r)'
  BY DEF Members
<1>1. /\ rooms'[r] \in RoomStates /\ rooms'[r] # None /\ rooms'[r].epoch \in Nat
      /\ presence'[s] # None /\ known' = known
      /\ rooms[r] \in RoomStates \cup {None} /\ r \notin confused
  BY InRoomNext DEF RoomStep, TypeOK
<1>2. /\ Device(s)' = Device(s) /\ clients[s] # None /\ inbox[s] \in Seq(Events)
      /\ \/ Same(s) /\ In(s, r) /\ Left(s, 0)
         \/ /\ clients'[s].view = None /\ clients'[s].key = None
            /\ \E n \in 0 .. Len(inbox[s]) :
                 /\ Left(s, n)
                 /\ \A i \in n + 1 .. Len(inbox[s]) : inbox[s][i].room = r => In(s, r)
  BY MovesIs
<1>3. In(s, r) => Grows(r) /\ MemberInv(s, r)
  <2> SUFFICES ASSUME In(s, r) PROVE Grows(r) /\ MemberInv(s, r)  OBVIOUS
  <2>1. rooms[r] \in RoomStates  BY InRoom
  <2> QED BY <1>1, <2>1, RoomGrows DEF Members
<1>4. PICK n \in 0 .. Len(inbox[s]) :
        /\ Left(s, n)
        /\ \A i \in n + 1 .. Len(inbox[s]) : inbox[s][i].room = r => In(s, r)
  <2>1. CASE Same(s) /\ In(s, r) /\ Left(s, 0)
    <3>1. 0 \in 0 .. Len(inbox[s])  BY <1>2
    <3> QED BY <2>1, <3>1
  <2> QED BY <1>2, <2>1
<1>5. ASSUME NEW i \in DOMAIN inbox'[s], inbox'[s][i].room = r
      PROVE  \/ /\ i + n \in DOMAIN inbox[s] /\ inbox'[s][i] = inbox[s][i + n]
                /\ In(s, r) /\ Grows(r) /\ MemberInv(s, r)
             \/ /\ inbox'[s][i] = StateEvent(r, rooms'[r])
                /\ SocketFor(presence', r, Device(s)') = s
  <2>1. \/ /\ i + n \in n + 1 .. Len(inbox[s]) /\ i + n \in DOMAIN inbox[s]
           /\ inbox'[s][i] = inbox[s][i + n]
        \/ /\ inbox'[s][i] = StateEvent(r, rooms'[r])
           /\ SocketFor(presence', r, Device(s)') = s
    BY <1>4, LeftEvents
  <2> QED BY <1>3, <1>4, <1>5, <2>1
<1>6. ASSUME NEW m \in Pending(s)', m.room = r
      PROVE  EventInv(s, r, m)'
  <2>1. PICK i \in DOMAIN inbox'[s] : inbox'[s][i] = m  BY DEF Pending
  <2>2. CASE /\ i + n \in DOMAIN inbox[s] /\ m = inbox[s][i + n]
             /\ In(s, r) /\ Grows(r) /\ MemberInv(s, r)
    <3>1. m \in Pending(s)  BY <2>2 DEF Pending
    <3>2. EventInv(s, r, m)  BY <1>6, <2>2, <3>1 DEF MemberInv
    <3>3. m.epoch \in Nat  BY <1>2, <2>2, EventType
    <3>4. CASE IsState(m)
      <4>1. Fits(m, r)  BY <3>2, <3>4 DEF EventInv
      <4>2. /\ m.epoch <= rooms'[r].epoch
            /\ m.epoch = rooms'[r].epoch => /\ m.devices \subseteq rooms'[r].devices
                                            /\ Least(m.devices) = Least(rooms'[r].devices)
        BY <2>2, <3>3, <4>1, FitsKeeps
      <4>3. Fits(m, r)'  BY <4>2 DEF Fits
      <4> QED BY <3>4, <4>3 DEF EventInv
    <3>5. CASE ~IsState(m)
      <4>1. m.epoch <= rooms[r].epoch /\ m.from # Device(s) /\ Confined(m.key, m.epoch, r)
        BY <3>2, <3>5 DEF EventInv
      <4>2. /\ m.epoch <= rooms'[r].epoch
            /\ m.epoch = rooms'[r].epoch => known'[m.key] \subseteq rooms'[r].devices
        BY <1>1, <2>2, <3>3, <4>1, ConfinedKeeps
      <4>3. Confined(m.key, m.epoch, r)'  BY <4>2 DEF Confined
      <4> QED BY <1>2, <3>5, <4>1, <4>2, <4>3 DEF EventInv
    <3> QED BY <3>4, <3>5
  <2>3. CASE m = StateEvent(r, rooms'[r])
    <3>1. IsState(m) /\ m.epoch = rooms'[r].epoch /\ m.devices = rooms'[r].devices
      BY <2>3, StateEventIs
    <3>2. Fits(m, r)'  BY <1>1, <3>1 DEF Fits
    <3> QED BY <3>1, <3>2 DEF EventInv
  <2> QED BY <1>5, <1>6, <2>1, <2>2, <2>3
<1>7. ViewInv(s, r)'
  <2>1. CASE Same(s) /\ In(s, r) /\ clients[s].view # None
    <3> DEFINE view == clients[s].view
    <3>1. /\ Grows(r) /\ Fits(view, r)
          /\ clients[s].key # None => Confined(clients[s].key, view.epoch, r)
      BY <1>3, <2>1 DEF MemberInv, ViewInv
    <3>2. view.epoch \in Nat
      <4>1. clients[s] \in Clients  BY <2>1, InRoom
      <4>2. view \in StateEvents  BY <2>1, <4>1 DEF Clients
      <4> QED BY <4>2 DEF StateEvents
    <3>3. clients'[s].view = view /\ clients'[s].key = clients[s].key  BY <2>1 DEF Same
    <3> HIDE DEF view
    <3>4. /\ view.epoch <= rooms'[r].epoch
          /\ view.epoch = rooms'[r].epoch => /\ view.devices \subseteq rooms'[r].devices
                                             /\ Least(view.devices) = Least(rooms'[r].devices)
      BY <3>1, <3>2, FitsKeeps
    <3>5. clients[s].key # None =>
            (view.epoch = rooms'[r].epoch => known'[clients[s].key] \subseteq rooms'[r].devices)
      BY <1>1, <3>1, <3>2, ConfinedKeeps DEF Fits
    <3> QED BY <3>3, <3>4, <3>5 DEF ViewInv, Fits, Confined
  <2>2. CASE clients'[s].view = None
    BY <2>2 DEF ViewInv
  <2> QED BY <1>2, <2>1, <2>2 DEF Same
<1>8. ToldInv(s, r)'
  <2> SUFFICES ASSUME clients'[s].view # None \/ \E m \in Pending(s)' : m.room = r
               PROVE  SocketFor(presence', r, Device(s)') = s
    BY DEF ToldInv
  <2>1. \/ In(s, r) /\ MemberInv(s, r)
           /\ (clients[s].view # None \/ \E m \in Pending(s) : m.room = r)
        \/ SocketFor(presence', r, Device(s)') = s
    <3>1. CASE clients'[s].view # None
      BY <1>2, <1>3, <3>1 DEF Same
    <3>2. CASE \E m \in Pending(s)' : m.room = r
      <4>1. PICK i \in DOMAIN inbox'[s] : inbox'[s][i].room = r  BY <3>2 DEF Pending
      <4> QED BY <1>5, <4>1 DEF Pending
    <3> QED BY <3>1, <3>2
  <2>2. CASE In(s, r) /\ SocketFor(presence, r, Device(s)) = s
    BY <1>1, <1>2, <2>2, SocketStays
  <2> QED BY <2>1, <2>2 DEF MemberInv, ToldInv
<1> QED BY <1>6, <1>7, <1>8 DEF MemberInv

\* A client carries no key of a room that it did not carry before.
LEMMA CarriesNoMore ==
    ASSUME TypeOK, TypeOK', SocketsInv', RoomStep,
           NEW t \in Sockets, NEW r \in Rooms, NEW k \in Keys, Carries(t, r, k)'
    PROVE  Carries(t, r, k)
<1>1. clients'[t] # None
  <2>1. inbox'[t] = <<>> => Pending(t)' = {}  BY DEF Pending
  <2> QED BY <2>1 DEF Carries, SocketsInv
<1>2. PICK n \in 0 .. Len(inbox[t]) :
        Left(t, n) /\ (clients'[t] = clients[t] \/ clients'[t].key = None)
  BY <1>1 DEF RoomStep, Keeps
<1>3. inbox[t] \in Seq(Events) /\ inbox'[t] \in Seq(Events) /\ k # None
  BY DEF TypeOK, Events
<1>4. CASE clients'[t].room = r /\ clients'[t].key = k
  BY <1>1, <1>2, <1>3, <1>4 DEF Carries
<1>5. CASE \E m \in Pending(t)' : ~IsState(m) /\ m.room = r /\ m.key = k
  <2>1. PICK i \in DOMAIN inbox'[t] : /\ ~IsState(inbox'[t][i]) /\ inbox'[t][i].room = r
                                      /\ inbox'[t][i].key = k
    BY <1>5 DEF Pending
  <2>2. /\ i \in 1 .. Len(inbox'[t]) /\ DOMAIN inbox[t] = 1 .. Len(inbox[t])
        /\ Len(inbox[t]) \in Nat /\ n \in Nat /\ i \in Nat
    BY <1>3
  <2>3. i <= Len(inbox[t]) - n
    <3>1. inbox'[t][i] # StateEvent(presence'[t].room, rooms'[presence'[t].room])
      BY <2>1, StateEventIs
    <3> QED BY <1>2, <2>2, <3>1 DEF Left
  <2>4. i + n \in DOMAIN inbox[t] /\ inbox'[t][i] = inbox[t][i + n]
    BY <1>2, <2>2, <2>3 DEF Left
  <2> QED BY <2>1, <2>4 DEF Carries, Pending
<1> QED BY <1>4, <1>5 DEF Carries

LEMMA OneRoomStep ==
    ASSUME TypeOK, TypeOK', SocketsInv', OneRoom, RoomStep
    PROVE  OneRoom'
<1>1. \A t \in Sockets, r \in Rooms, k \in Keys : Carries(t, r, k)' => Carries(t, r, k)
  BY CarriesNoMore
<1> QED BY <1>1 DEF OneRoom

(***************************************************************************)
(* What comes to t still comes when events before it are gone.             *)
(***************************************************************************)
LEMMA ComesKeeps ==
    ASSUME TypeOK, TypeOK', NEW t \in Sockets, NEW r, NEW k, NEW n \in 0 .. Len(inbox[t]),
           Left(t, n), rooms'[r].epoch = rooms[r].epoch, NEW i \in Nat, NEW g, g = i + n,
           Comes(t, r, k, g)
    PROVE  Comes(t, r, k, i)'
<1>1. inbox[t] \in Seq(Events) /\ inbox'[t] \in Seq(Events)  BY DEF TypeOK, Events
<1>2. PICK j \in DOMAIN inbox[t] :
        i + n < j /\ Delivers(t, j, r) /\ inbox[t][j].key = k
  BY DEF Comes
<1>3. /\ DOMAIN inbox[t] = 1 .. Len(inbox[t]) /\ DOMAIN inbox'[t] = 1 .. Len(inbox'[t])
      /\ Len(inbox[t]) \in Nat /\ Len(inbox'[t]) \in Nat
  BY <1>1
<1>4. Len(inbox[t]) - n <= Len(inbox'[t])  BY <1>3 DEF Left
<1>5. PICK h \in 1 .. Len(inbox[t]) - n : h + n = j /\ i < h
  <2>1. j - n \in 1 .. Len(inbox[t]) - n /\ (j - n) + n = j /\ i < j - n  BY <1>2, <1>3
  <2> QED BY <2>1
<1>6. h \in DOMAIN inbox'[t] /\ inbox'[t][h] = inbox[t][j]
  BY <1>3, <1>4, <1>5 DEF Left
<1>7. Delivers(t, h, r)'  BY <1>2, <1>6 DEF Delivers
<1> QED BY <1>2, <1>5, <1>6, <1>7 DEF Comes

LEMMA ServedInboxStep ==
    ASSUME TypeOK, TypeOK', SocketsInv', NEW t \in Sockets, NEW r \in Rooms, In(t, r)', NEW k,
           NEW n \in 0 .. Len(inbox[t]), Left(t, n), rooms'[r].epoch = rooms[r].epoch,
           \A i \in n + 1 .. Len(inbox[t]) :
               Delivers(t, i, r) /\ inbox[t][i].key # k => Comes(t, r, k, i)
    PROVE  \A i \in DOMAIN inbox'[t] :
               Delivers(t, i, r)' /\ inbox'[t][i].key # k => Comes(t, r, k, i)'
<1> SUFFICES ASSUME NEW i \in DOMAIN inbox'[t], Delivers(t, i, r)', inbox'[t][i].key # k
             PROVE  Comes(t, r, k, i)'
  OBVIOUS
<1>7. inbox'[t] \in Seq(Events)  BY DEF TypeOK, Events
<1>1. i \in 1 .. Len(inbox'[t]) /\ i \in Nat  BY <1>7
<1>2. ~IsState(inbox'[t][i])  BY DEF Delivers
<1>3. inbox'[t][i] # StateEvent(r, rooms'[r])  BY <1>2, StateEventIs
<1>4. \/ /\ i + n \in n + 1 .. Len(inbox[t]) /\ i + n \in DOMAIN inbox[t]
         /\ inbox'[t][i] = inbox[t][i + n]
      \/ /\ inbox'[t][i] = StateEvent(r, rooms'[r])
         /\ SocketFor(presence', r, Device(t)') = t
  BY LeftEvents
<1>5. Delivers(t, i + n, r) /\ inbox[t][i + n].key # k  BY <1>3, <1>4 DEF Delivers
<1>6. Comes(t, r, k, i + n)  BY <1>3, <1>4, <1>5
<1> QED BY <1>1, <1>6, ComesKeeps

LEMMA HeldStep ==
    ASSUME TypeOK, SocketsInv, RoomsInv, Members, HeldInv,
           TypeOK', SocketsInv', RoomsInv', RoomStep
    PROVE  HeldInv'
<1> SUFFICES ASSUME NEW s \in Sockets, NEW t \in Sockets, NEW r \in Rooms, NEW k \in Keys,
                    r \notin confused', Leads(s, r, k)', In(t, r)', s # t,
                    Device(t)' \in clients'[s].view.devices \ clients'[s].todo
             PROVE  Served(t, r, k)'
  BY DEF HeldInv
<1>1. /\ In(s, r)' /\ clients'[s].key = k /\ k # None /\ clients'[s].view # None
      /\ clients'[s].view.epoch = rooms'[r].epoch
      /\ Device(s)' = Least(rooms'[r].devices)
  BY DEF Leads
<1>2. Device(s)' = Device(s) /\ Same(s) /\ In(s, r)  BY <1>1, MovesIs
<1>13. r \notin confused
  <2>1. rooms'[r] # None  BY <1>1, InRoomNext DEF RoomStep
  <2> QED BY <2>1 DEF RoomStep
<1>3. /\ clients'[s] = clients[s] /\ clients[s].key = k /\ clients[s].view # None
      /\ clients[s].view.epoch = rooms'[r].epoch
  BY <1>1, <1>2 DEF Same
<1>4. Grows(r)
  <2>1. rooms[r] \in RoomStates /\ rooms'[r] \in RoomStates /\ rooms'[r] # None
    BY <1>1, <1>2, InRoom, InRoomNext
  <2> QED BY <2>1, RoomGrows
<1>5. rooms[r].epoch = rooms'[r].epoch
  <2>1. ViewInv(s, r)  BY <1>2, <1>13 DEF Members, MemberInv
  <2>2. clients[s].view.epoch <= rooms[r].epoch  BY <1>3, <2>1 DEF ViewInv, Fits
  <2> QED BY <1>3, <1>4, <2>2 DEF Grows
<1>6. Leads(s, r, k)  BY <1>1, <1>2, <1>3, <1>4, <1>5 DEF Leads, Grows
<1>7. /\ Device(t)' = Device(t) /\ inbox[t] \in Seq(Events)
      /\ \/ Same(t) /\ In(t, r) /\ Left(t, 0)
         \/ /\ clients'[t].view = None /\ clients'[t].key = None
            /\ \E n \in 0 .. Len(inbox[t]) :
                 /\ Left(t, n)
                 /\ \A i \in n + 1 .. Len(inbox[t]) : inbox[t][i].room = r => In(t, r)
  BY MovesIs
<1>8. In(t, r) => Served(t, r, k)
  BY <1>3, <1>6, <1>7, <1>13 DEF HeldInv
<1>9. PICK n \in 0 .. Len(inbox[t]) :
        /\ Left(t, n)
        /\ \A i \in n + 1 .. Len(inbox[t]) : inbox[t][i].room = r => In(t, r)
        /\ (Same(t) /\ In(t, r) /\ n = 0) \/ clients'[t].key = None
  <2>1. CASE Same(t) /\ In(t, r) /\ Left(t, 0)
    <3>1. 0 \in 0 .. Len(inbox[t])  BY <1>7
    <3> QED BY <2>1, <3>1
  <2> QED BY <1>7, <2>1
<1>10. \A i \in n + 1 .. Len(inbox[t]) :
          Delivers(t, i, r) /\ inbox[t][i].key # k => Comes(t, r, k, i)
  <2> SUFFICES ASSUME NEW i \in n + 1 .. Len(inbox[t]), Delivers(t, i, r), inbox[t][i].key # k
               PROVE  Comes(t, r, k, i)
    OBVIOUS
  <2>1. i \in DOMAIN inbox[t] /\ inbox[t][i].room = r  BY DEF Delivers
  <2>2. Served(t, r, k)  BY <1>8, <1>9, <2>1
  <2> QED BY <2>1, <2>2 DEF Served
<1>11. \A i \in DOMAIN inbox'[t] :
          Delivers(t, i, r)' /\ inbox'[t][i].key # k => Comes(t, r, k, i)'
  BY <1>5, <1>9, <1>10, ServedInboxStep
<1>12. ASSUME clients'[t].key \notin {None, k}, clients'[t].view # None,
              clients'[t].view.epoch = rooms'[r].epoch
       PROVE  Comes(t, r, k, 0)'
  <2>1. Same(t) /\ In(t, r) /\ n = 0  BY <1>9, <1>12
  <2>2. Served(t, r, k)  BY <1>8, <2>1
  <2>3. Comes(t, r, k, 0)  BY <1>5, <1>12, <2>1, <2>2 DEF Served, Same
  <2>4. 0 \in Nat /\ 0 = 0 + n  BY <2>1
  <2> QED BY <1>5, <1>9, <2>3, <2>4, ComesKeeps
<1> QED BY <1>11, <1>12 DEF Served

LEMMA RoomStepKeeps ==
    ASSUME Inv, TypeOK', SocketsInv', ClientsInv', RoomStep
    PROVE  Inv'
<1>1. RoomsInv'  BY RoomsStep DEF Inv
<1>2. Members'  BY <1>1, MembersStep DEF Inv
<1>3. OneRoom'  BY OneRoomStep DEF Inv
<1>4. HeldInv'  BY <1>1, HeldStep DEF Inv
<1> QED BY <1>1, <1>2, <1>3, <1>4 DEF Inv

------------------------------------------------------------------------------
(***************************************************************************)
(* A step of one client leaves the rooms alone, or only counts an envelope *)
(* in one.                                                                 *)
(***************************************************************************)
RoomsStay ==
    /\ UNCHANGED <<channels, presence, revoked, banned, confused>>
    /\ \A r \in Rooms : /\ rooms'[r] = None <=> rooms[r] = None
                        /\ rooms[r] # None => /\ rooms'[r].epoch = rooms[r].epoch
                                              /\ rooms'[r].devices = rooms[r].devices

LEMMA RoomsStayInv ==
    ASSUME TypeOK, RoomsInv, RoomsStay
    PROVE  RoomsInv'
<1>1. channels \subseteq Rooms  BY DEF TypeOK
<1>2. \A r : Active(presence', r, revoked', banned') = Active(presence, r, revoked, banned)
  BY DEF RoomsStay
<1> QED BY <1>1, <1>2 DEF RoomsInv, RoomsStay

\* What a client that takes an event sees of its room.
LEMMA SeesIs ==
    ASSUME Inv, NEW s \in Sockets, NEW r \in Rooms, r \notin confused, In(s, r),
           NEW c, Takes(s, c)
    PROVE  /\ Sees(s, c) =>
                /\ c.view \in StateEvents /\ c.view # None /\ c.view.room = r
                /\ Device(s) \in c.view.devices /\ Fits(c.view, r)
           /\ ~IsState(Head(inbox[s])) /\ Head(inbox[s]).room = r =>
                /\ EventInv(s, r, Head(inbox[s])) /\ Head(inbox[s]).key \in Keys
                /\ Head(inbox[s]) \in Pending(s)
           /\ MemberInv(s, r)
<1>1. Ready(s) /\ TypeOK /\ MemberInv(s, r)  BY DEF Takes, Inv, Members
<1>2. /\ Head(inbox[s]) = inbox[s][1] /\ inbox[s] \in Seq(Events) /\ Len(inbox[s]) > 0
      /\ IsState(Head(inbox[s])) => Head(inbox[s]) \in StateEvents
      /\ ~IsState(Head(inbox[s])) => Head(inbox[s]) \in Envelopes
  BY <1>1, HeadType
<1>3. 1 \in DOMAIN inbox[s]  BY <1>2
<1>4. Head(inbox[s]) \in Pending(s)  BY <1>2, <1>3 DEF Pending
<1>5. Head(inbox[s]).room = r => EventInv(s, r, Head(inbox[s]))
  BY <1>1, <1>4 DEF MemberInv
<1>6. clients[s].room = r  BY DEF In
<1>7. Sees(s, c) =>
        /\ c.view \in StateEvents /\ c.view # None /\ c.view.room = r
        /\ Device(s) \in c.view.devices /\ Fits(c.view, r)
  BY <1>2, <1>5, <1>6 DEF Sees, EventInv
<1>8. ~IsState(Head(inbox[s])) => Head(inbox[s]).key \in Keys
  BY <1>2 DEF Envelopes
<1> QED BY <1>1, <1>4, <1>5, <1>7, <1>8

LEMMA TakeKeepsKnown ==
    ASSUME TypeOK, NEW s \in Sockets, NEW c,
           GivesUp(s, c) \/ Follows(s, c) \/ Makes(s, c) \/ Opens(s, c) \/ Ignores(s, c),
           NEW k \in Keys, Carried(k)
    PROVE  known'[k] = known[k]
<1>1. CASE known' = known  BY <1>1
<1>2. CASE Makes(s, c)  BY <1>2 DEF Makes, TypeOK
<1> QED BY <1>1, <1>2 DEF GivesUp, Follows, Opens, Ignores

\* What is pending after a client took an event was pending before.
LEMMA TakePending ==
    ASSUME TypeOK, NEW s \in Sockets, NEW c, Takes(s, c), NEW u \in Sockets
    PROVE  Pending(u)' \subseteq Pending(u)
<1>1. /\ inbox[s] \in Seq(Events) /\ inbox'[s] \in Seq(Events)
      /\ Len(inbox'[s]) = Len(inbox[s]) - 1
      /\ \A i \in 1 .. Len(inbox[s]) - 1 : inbox'[s][i] = inbox[s][i + 1]
      /\ \A t \in Sockets \ {s} : inbox'[t] = inbox[t]
  BY TakesIs
<1>2. CASE u # s
  <2>1. inbox'[u] = inbox[u]  BY <1>1, <1>2
  <2> QED BY <2>1 DEF Pending
<1>3. CASE u = s
  <2>1. DOMAIN inbox[s] = 1 .. Len(inbox[s]) /\ DOMAIN inbox'[s] = 1 .. Len(inbox[s]) - 1
        /\ Len(inbox[s]) \in Nat
    BY <1>1
  <2>2. \A i \in DOMAIN inbox'[s] : i + 1 \in DOMAIN inbox[s]  BY <2>1
  <2>3. \A i \in DOMAIN inbox'[s] : inbox'[s][i] = inbox[s][i + 1]  BY <1>1, <2>1
  <2> QED BY <1>3, <2>2, <2>3 DEF Pending
<1> QED BY <1>2, <1>3

LEMMA CarriedIs ==
    ASSUME TypeOK, NEW s \in Sockets, clients[s] # None
    PROVE  /\ clients[s].key # None => clients[s].key \in Keys /\ Carried(clients[s].key)
           /\ \A m \in Pending(s) : ~IsState(m) => m.key \in Keys /\ Carried(m.key)
<1>1. clients[s].key # None => clients[s].key \in Keys  BY DEF TypeOK, Clients
<1>2. clients[s].key # None => Carried(clients[s].key)  BY DEF Carried
<1>3. ASSUME NEW m \in Pending(s), ~IsState(m) PROVE m.key \in Keys /\ Carried(m.key)
  <2>1. PICK i \in DOMAIN inbox[s] : inbox[s][i] = m  BY DEF Pending
  <2>2. inbox[s] \in Seq(Events)  BY DEF TypeOK, Events
  <2>3. m.key \in Keys  BY <1>3, <2>1, <2>2, EventType
  <2> QED BY <1>3, <2>1, <2>3 DEF Carried
<1> QED BY <1>1, <1>2, <1>3

\* What was on its way or kept fits still, when the rooms stay and the keys
\* that are carried are known to the same devices.
LEMMA EventStays ==
    ASSUME TypeOK, NEW s \in Sockets, clients[s] # None, NEW r \in Rooms,
           rooms'[r].epoch = rooms[r].epoch, rooms'[r].devices = rooms[r].devices,
           Device(s)' = Device(s), NEW m \in Pending(s), EventInv(s, r, m),
           ~IsState(m) => (Confined(m.key, m.epoch, r) => Confined(m.key, m.epoch, r)')
    PROVE  EventInv(s, r, m)'
<1>1. CASE IsState(m)
  <2>1. Fits(m, r)  BY <1>1 DEF EventInv
  <2>2. Fits(m, r)'  BY <2>1 DEF Fits
  <2> QED BY <1>1, <2>2 DEF EventInv
<1>2. CASE ~IsState(m)
  BY <1>2 DEF EventInv
<1> QED BY <1>1, <1>2

LEMMA TakeMembers ==
    ASSUME Inv, NEW s \in Sockets, NEW c, Takes(s, c),
           GivesUp(s, c) \/ Follows(s, c) \/ Makes(s, c) \/ Opens(s, c) \/ Ignores(s, c)
    PROVE  Members'
<1>1. /\ clients[s] # None /\ clients'[s] = c /\ c.room = clients[s].room /\ c # None
      /\ inbox[s] \in Seq(Events) /\ Len(inbox[s]) \in Nat \ {0}
      /\ \A t \in Sockets \ {s} : clients'[t] = clients[t] /\ inbox'[t] = inbox[t]
      /\ UNCHANGED <<channels, presence, rooms, revoked, banned, confused>>
      /\ TypeOK /\ SocketsInv
  BY TakesIs DEF Inv
<1> SUFFICES ASSUME NEW u \in Sockets, NEW r \in Rooms, r \notin confused', In(u, r)'
             PROVE  MemberInv(u, r)'
  BY DEF Members
<1>2. In(u, r) /\ clients[u] # None /\ Device(u)' = Device(u) /\ r \notin confused
  BY <1>1 DEF In, Device
<1>3. MemberInv(u, r)  BY <1>2 DEF Inv, Members
<1>4. Pending(u)' \subseteq Pending(u)  BY <1>1, TakePending
<1>5. \A k \in Keys : \A e : Carried(k) /\ Confined(k, e, r) => Confined(k, e, r)'
  <2>1. \A k \in Keys : Carried(k) => known'[k] = known[k]  BY <1>1, TakeKeepsKnown
  <2> QED BY <1>1, <2>1 DEF Confined
<1>6. ASSUME NEW m \in Pending(u)', m.room = r PROVE EventInv(u, r, m)'
  <2>1. m \in Pending(u) /\ EventInv(u, r, m)  BY <1>3, <1>4, <1>6 DEF MemberInv
  <2>2. ~IsState(m) => (Confined(m.key, m.epoch, r) => Confined(m.key, m.epoch, r)')
    BY <1>1, <1>2, <1>5, <2>1, CarriedIs
  <2> QED BY <1>1, <1>2, <2>1, <2>2, EventStays
<1>7. ToldInv(u, r)'
  <2>1. Sees(s, c) => Head(inbox[s]) \in Pending(s) /\ Head(inbox[s]).room = clients[s].room
    <3>1. Head(inbox[s]) = inbox[s][1] /\ 1 \in DOMAIN inbox[s]  BY <1>1
    <3> QED BY <3>1 DEF Sees, Pending
  <2>2. clients'[u].view # None =>
           clients[u].view # None \/ \E m \in Pending(u) : m.room = r
    <3>1. CASE u # s  BY <1>1, <3>1
    <3>2. CASE u = s
      <4>1. c.view = clients[s].view \/ Sees(s, c)
        BY DEF GivesUp, Follows, Makes, Opens, Ignores
      <4> QED BY <1>1, <1>2, <2>1, <3>2, <4>1 DEF In
    <3> QED BY <3>1, <3>2
  <2>3. ToldInv(u, r)  BY <1>3 DEF MemberInv
  <2> QED BY <1>1, <1>2, <1>4, <2>2, <2>3 DEF ToldInv
<1>8. ViewInv(u, r)'
  <2>1. ViewInv(u, r)  BY <1>3 DEF MemberInv
  <2>2. CASE u # s
    <3>1. clients'[u] = clients[u]  BY <1>1, <2>2
    <3>2. clients[u].key # None =>
            \A e : Confined(clients[u].key, e, r) => (e = rooms[r].epoch =>
                      known'[clients[u].key] \subseteq rooms[r].devices)
      <4>1. clients[u].key # None => clients[u].key \in Keys /\ Carried(clients[u].key)
        BY <1>1, <1>2, CarriedIs
      <4>2. clients[u].key # None => known'[clients[u].key] = known[clients[u].key]
        BY <1>1, <4>1, TakeKeepsKnown
      <4> QED BY <4>2 DEF Confined
    <3> QED BY <1>1, <2>1, <3>1, <3>2 DEF ViewInv, Fits, Confined
  <2>3. CASE u = s
    <3>1. In(s, r) /\ ViewInv(s, r) /\ r \notin confused  BY <1>2, <2>1, <2>3
    <3>2. /\ Sees(s, c) =>
               /\ c.view # None /\ Device(s) \in c.view.devices /\ Fits(c.view, r)
          /\ ~IsState(Head(inbox[s])) /\ Head(inbox[s]).room = r => EventInv(s, r, Head(inbox[s]))
      BY <3>1, SeesIs
    <3>3. c.view # None => Fits(c.view, r)
      <4>1. c.view = clients[s].view \/ Sees(s, c)
        BY DEF GivesUp, Follows, Makes, Opens, Ignores
      <4> QED BY <3>1, <3>2, <4>1 DEF ViewInv
    <3>4. ASSUME c.view # None, c.key # None, c.view.epoch = rooms[r].epoch
          PROVE  known'[c.key] \subseteq rooms[r].devices
      <4>1. CASE Follows(s, c)
        BY <3>1, <3>4, <4>1 DEF Follows, ViewInv, Confined
      <4>2. CASE Makes(s, c)
        <5>1. Device(s) \in rooms[r].devices  BY <3>1, InRoom DEF Inv
        <5>2. known'[c.key] = {Device(s)}  BY <1>1, <4>2 DEF Makes, TypeOK
        <5> QED BY <5>1, <5>2
      <4>3. CASE Opens(s, c)
        <5>1. clients[s].view # None /\ clients[s].view.room = r
          BY <1>1, <3>1, <4>3 DEF Opens, Inv, ClientsInv, ClientInv, In
        <5>2. EventInv(s, r, Head(inbox[s])) /\ ~IsState(Head(inbox[s]))
          BY <3>2, <4>3, <5>1 DEF Opens
        <5> QED BY <3>4, <4>3, <5>2 DEF Opens, EventInv, Confined
      <4>4. CASE Ignores(s, c)
        BY <3>1, <3>4, <4>4 DEF Ignores, ViewInv, Confined
      <4>5. CASE GivesUp(s, c)
        BY <3>4, <4>5 DEF GivesUp
      <4> QED BY <4>1, <4>2, <4>3, <4>4, <4>5
    <3> QED BY <1>1, <2>3, <3>3, <3>4 DEF ViewInv, Fits, Confined
  <2> QED BY <2>2, <2>3
<1> QED BY <1>6, <1>7, <1>8 DEF MemberInv

LEMMA TakeOneRoom ==
    ASSUME Inv, NEW s \in Sockets, NEW c, Takes(s, c),
           GivesUp(s, c) \/ Follows(s, c) \/ Makes(s, c) \/ Opens(s, c) \/ Ignores(s, c)
    PROVE  OneRoom'
<1>1. /\ clients[s] # None /\ clients'[s] = c /\ c.room = clients[s].room /\ c # None
      /\ inbox[s] \in Seq(Events) /\ Len(inbox[s]) \in Nat \ {0} /\ Head(inbox[s]) = inbox[s][1]
      /\ \A t \in Sockets \ {s} : clients'[t] = clients[t] /\ inbox'[t] = inbox[t]
      /\ TypeOK
  BY TakesIs DEF Inv
<1>2. ASSUME NEW u \in Sockets, NEW r \in Rooms, NEW k \in Keys, Carries(u, r, k)'
      PROVE  Carries(u, r, k) \/ (u = s /\ c.room = r /\ Makes(s, c) /\ k = c.key)
  <2>1. CASE u # s
    BY <1>1, <1>2, <2>1 DEF Carries, Pending
  <2>2. CASE \E m \in Pending(u)' : ~IsState(m) /\ m.room = r /\ m.key = k
    BY <1>1, <2>2, TakePending DEF Carries
  <2>3. CASE u = s /\ c.room = r /\ c.key = k
    <3>1. CASE GivesUp(s, c)  BY <2>3, <3>1 DEF GivesUp
    <3>2. CASE Follows(s, c)  BY <1>1, <2>3, <3>2 DEF Follows, Carries
    <3>3. CASE Opens(s, c)
      <4>1. clients[s].view # None /\ clients[s].view.room = r
        BY <1>1, <2>3, <3>3 DEF Opens, Inv, ClientsInv, ClientInv
      <4>2. Head(inbox[s]) \in Pending(s)  BY <1>1 DEF Pending
      <4> QED BY <2>3, <3>3, <4>1, <4>2 DEF Opens, Carries
    <3>4. CASE Ignores(s, c)  BY <1>1, <2>3, <3>4 DEF Ignores, Carries
    <3> QED BY <2>3, <3>1, <3>2, <3>3, <3>4
  <2> QED BY <1>1, <1>2, <2>1, <2>2, <2>3 DEF Carries
<1>3. ASSUME NEW u \in Sockets, NEW r \in Rooms, NEW k \in Keys, Carries(u, r, k)
      PROVE  Carried(k)
  <2>1. CASE clients[u] # None /\ clients[u].key = k
    BY <2>1 DEF Carried
  <2>2. CASE \E m \in Pending(u) : ~IsState(m) /\ m.key = k
    BY <2>2 DEF Carried, Pending
  <2> QED BY <1>3, <2>1, <2>2 DEF Carries
<1> SUFFICES ASSUME NEW u \in Sockets, NEW v \in Sockets, NEW r \in Rooms, NEW q \in Rooms,
                    NEW k \in Keys, Carries(u, r, k)', Carries(v, q, k)'
             PROVE  r = q
  BY DEF OneRoom
<1>4. Carries(u, r, k) \/ (u = s /\ c.room = r /\ Makes(s, c) /\ k = c.key)  BY <1>2
<1>5. Carries(v, q, k) \/ (v = s /\ c.room = q /\ Makes(s, c) /\ k = c.key)  BY <1>2
<1>6. CASE Carries(u, r, k) /\ Carries(v, q, k)
  BY <1>6 DEF Inv, OneRoom
<1>7. CASE Makes(s, c) /\ k = c.key
  <2>1. ~Carried(k)  BY <1>7 DEF Makes
  <2> QED BY <1>3, <1>4, <1>5, <2>1
<1> QED BY <1>4, <1>5, <1>6, <1>7

LEMMA TakeHeld ==
    ASSUME Inv, NEW s \in Sockets, NEW c, Takes(s, c), TypeOK', SocketsInv',
           GivesUp(s, c) \/ Follows(s, c) \/ Makes(s, c) \/ Opens(s, c) \/ Ignores(s, c)
    PROVE  HeldInv'
<1>1. /\ clients[s] # None /\ clients'[s] = c /\ c.room = clients[s].room /\ c # None
      /\ inbox[s] \in Seq(Events) /\ inbox'[s] \in Seq(Events) /\ Len(inbox[s]) \in Nat \ {0}
      /\ Len(inbox'[s]) = Len(inbox[s]) - 1
      /\ \A i \in 1 .. Len(inbox[s]) - 1 : inbox'[s][i] = inbox[s][i + 1]
      /\ Head(inbox[s]) = inbox[s][1]
      /\ \A t \in Sockets \ {s} : clients'[t] = clients[t] /\ inbox'[t] = inbox[t]
      /\ UNCHANGED <<channels, presence, rooms, revoked, banned, confused>>
      /\ TypeOK /\ SocketsInv /\ RoomsInv
  BY TakesIs DEF Inv
<1> SUFFICES ASSUME NEW l \in Sockets, NEW t \in Sockets, NEW r \in Rooms, NEW k \in Keys,
                    r \notin confused', Leads(l, r, k)', In(t, r)', l # t,
                    Device(t)' \in clients'[l].view.devices \ clients'[l].todo
             PROVE  Served(t, r, k)'
  BY DEF HeldInv
<1>10. r \notin confused  BY <1>1
<1>2. /\ In(l, r)' /\ clients'[l].key = k /\ k # None /\ clients'[l].view # None
      /\ clients'[l].view.epoch = rooms[r].epoch /\ Device(l)' = Least(rooms[r].devices)
      /\ Device(l)' = Device(l) /\ Device(t)' = Device(t) /\ r # None
  BY <1>1 DEF Leads, Device
<1>3. In(l, r) /\ In(t, r) /\ Device(l) # Device(t)
  <2>1. \A u \in Sockets : In(u, r)' => In(u, r)  BY <1>1 DEF In
  <2>2. In(l, r) /\ In(t, r)  BY <1>2, <2>1
  <2> QED BY <1>1, <2>2 DEF In, SocketsInv
\* What s sees in this epoch has the same leader.
<1>4. ASSUME In(s, r), Sees(s, c), c.view.epoch = rooms[r].epoch
      PROVE  Least(c.view.devices) = Device(l)
  <2>1. Fits(c.view, r)  BY <1>4, <1>10, SeesIs
  <2>2. Least(c.view.devices) = Least(rooms[r].devices)  BY <1>4, <2>1 DEF Fits
  <2> QED BY <1>2, <2>2
<1>5. l # s
  <2> SUFFICES ASSUME l = s PROVE FALSE  OBVIOUS
  <2>1. In(s, r) /\ c.key = k /\ c.view # None /\ c.view.epoch = rooms[r].epoch
        /\ Device(s) = Least(rooms[r].devices) /\ Device(t) \in c.view.devices \ c.todo
    BY <1>1, <1>2, <1>3
  <2>2. CASE GivesUp(s, c)  BY <1>2, <2>1, <2>2 DEF GivesUp
  <2>3. CASE Follows(s, c)  BY <1>3, <1>4, <2>1, <2>3 DEF Follows
  <2>4. CASE Makes(s, c)  BY <1>3, <2>1, <2>4 DEF Makes
  <2>5. CASE Opens(s, c)
    <3>1. clients[s].view # None /\ clients[s].view.room = r
      BY <1>1, <2>1, <2>5 DEF Opens, Inv, ClientsInv, ClientInv, In
    <3>2. Head(inbox[s]).from # Device(s)
      BY <1>10, <2>1, <2>5, <3>1, SeesIs DEF Opens, EventInv
    <3>3. ViewInv(s, r)  BY <1>10, <2>1 DEF Inv, Members, MemberInv
    <3>4. Least(c.view.devices) = Device(s)
      BY <2>1, <2>5, <3>1, <3>3 DEF Opens, ViewInv, Fits
    <3> QED BY <2>5, <3>2, <3>4 DEF Opens
  <2>6. CASE Ignores(s, c)  BY <1>2, <2>1, <2>6 DEF Ignores, In
  <2> QED BY <2>2, <2>3, <2>4, <2>5, <2>6
<1>6. Leads(l, r, k)  BY <1>1, <1>2, <1>3, <1>5 DEF Leads
<1>7. Served(t, r, k)
  BY <1>1, <1>2, <1>3, <1>5, <1>6, <1>10 DEF Inv, HeldInv
<1>8. CASE t # s
  <2>1. clients'[t] = clients[t] /\ inbox'[t] = inbox[t] /\ rooms'[r] = rooms[r]
    BY <1>1, <1>8
  <2> QED BY <1>7, <2>1 DEF Served, Comes, Delivers
<1>9. CASE t = s
  <2>1. /\ In(s, r) /\ Served(s, r, k) /\ rooms'[r].epoch = rooms[r].epoch
        /\ 1 \in 0 .. Len(inbox[s]) /\ 1 \in DOMAIN inbox[s] /\ In(s, r)'
    BY <1>1, <1>3, <1>7, <1>9
  <2>2. Left(s, 1)  BY <1>1 DEF Left
  <2>3. \A i \in 1 + 1 .. Len(inbox[s]) :
           Delivers(s, i, r) /\ inbox[s][i].key # k => Comes(s, r, k, i)
    <3>1. \A i \in 1 + 1 .. Len(inbox[s]) : i \in DOMAIN inbox[s]  BY <1>1
    <3> QED BY <2>1, <3>1 DEF Served
  <2>4. \A i \in DOMAIN inbox'[s] :
           Delivers(s, i, r)' /\ inbox'[s][i].key # k => Comes(s, r, k, i)'
    BY <1>1, <2>1, <2>2, <2>3, ServedInboxStep
  <2>5. ASSUME c.key \notin {None, k}, c.view # None, c.view.epoch = rooms[r].epoch
        PROVE  Comes(s, r, k, 1)
    <3>1. CASE GivesUp(s, c)  BY <2>5, <3>1 DEF GivesUp
    <3>2. CASE Follows(s, c)
      <4>1. /\ clients[s].key \notin {None, k} /\ clients[s].view # None
            /\ clients[s].view.epoch = rooms[r].epoch
        BY <2>5, <3>2 DEF Follows
      <4>2. PICK j \in DOMAIN inbox[s] : 0 < j /\ Delivers(s, j, r) /\ inbox[s][j].key = k
        BY <2>1, <4>1 DEF Served, Comes
      <4>3. j # 1  BY <1>1, <3>2, <4>2 DEF Follows, Sees, Delivers
      <4>4. 1 < j  BY <1>1, <4>2, <4>3
      <4> QED BY <4>2, <4>4 DEF Comes
    <3>3. CASE Makes(s, c)
      BY <1>3, <1>4, <1>9, <2>1, <2>5, <3>3 DEF Makes
    <3>4. CASE Opens(s, c)
      <4>1. clients[s].view # None /\ clients[s].view.room = r
        BY <1>1, <2>1, <3>4 DEF Opens, Inv, ClientsInv, ClientInv, In
      <4>2. Delivers(s, 1, r) /\ inbox[s][1].key # k
        BY <1>1, <2>1, <2>5, <3>4, <4>1 DEF Opens, Delivers
      <4> QED BY <2>1, <4>2 DEF Served
    <3>5. CASE Ignores(s, c)
      BY <1>1, <1>2, <2>1, <2>5, <3>5 DEF Ignores, In
    <3> QED BY <3>1, <3>2, <3>3, <3>4, <3>5
  <2>6. ASSUME Comes(s, r, k, 1) PROVE Comes(s, r, k, 0)'
    <3>1. 0 \in Nat /\ 1 = 0 + 1  OBVIOUS
    <3> QED BY <1>1, <2>1, <2>2, <2>6, <3>1, ComesKeeps
  <2> QED BY <1>1, <1>9, <2>1, <2>4, <2>5, <2>6 DEF Served
<1> QED BY <1>8, <1>9

LEMMA TakeKeeps ==
    ASSUME Inv, NEW s \in Sockets, TypeOK', SocketsInv', ClientsInv',
           ApplyRoomState(s) \/ RejectRoomState(s) \/ OpenEnvelope(s) \/ Ignore(s)
    PROVE  Inv'
<1>1. PICK c : /\ Takes(s, c)
               /\ GivesUp(s, c) \/ Follows(s, c) \/ Makes(s, c) \/ Opens(s, c) \/ Ignores(s, c)
  BY TakeSteps DEF Inv
<1>2. RoomsStay  BY <1>1, TakesIs DEF Inv, RoomsStay
<1>3. RoomsInv'  BY <1>2, RoomsStayInv DEF Inv
<1>4. Members'  BY <1>1, TakeMembers
<1>5. OneRoom'  BY <1>1, TakeOneRoom
<1>6. HeldInv'  BY <1>1, TakeHeld
<1> QED BY <1>3, <1>4, <1>5, <1>6 DEF Inv

------------------------------------------------------------------------------
(***************************************************************************)
(* The leader s delivers its key: the envelope reaches the connection to   *)
(* of a member of its room, if there is a client.                          *)
(***************************************************************************)
Posts(s, r, to) ==
    /\ In(s, r) /\ clients[s].key \in Keys
    /\ clients[s].view # None /\ clients[s].view.room = r
    /\ clients[s].view.epoch = rooms[r].epoch /\ Device(s) = Least(rooms[r].devices)
    /\ to = SocketFor(presence, r, Device(to)) /\ Device(to) = Recipient(s)
    /\ Device(to) \in rooms[r].devices /\ Device(to) # Device(s)
    /\ Envelope(s) \in Envelopes
    /\ known' = [known EXCEPT ![clients[s].key] = @ \cup {Recipient(s)}]
    /\ inbox' = IF clients[to] = None THEN inbox
                ELSE [inbox EXCEPT ![to] = Append(@, Envelope(s))]

\* The client of a step that sends keeps all but its key, which it may give up.
Sends(s) ==
    /\ clients[s] # None /\ clients'[s] # None
    /\ clients'[s].room = clients[s].room /\ clients'[s].view = clients[s].view
    /\ \/ /\ clients'[s].key = clients[s].key
          /\ clients'[s].todo = clients[s].todo \ {Recipient(s)}
       \/ clients'[s].key = None
    /\ \A t \in Sockets \ {s} : clients'[t] = clients[t]

LEMMA SendIs ==
    ASSUME TypeOK, SocketsInv, RoomsInv, ClientsInv, NEW s \in Sockets, Send(s)
    PROVE  /\ RoomsStay /\ Sends(s)
           /\ \/ known' = known /\ inbox' = inbox /\ clients'[s].key = None
              \/ \E r \in Rooms, to \in Sockets : Posts(s, r, to)
<1> DEFINE r == clients[s].view.room
           t == Recipient(s)
           n == clients[s].out + 1
           to == SocketFor(presence, r, t)
<1>1. /\ clients[s] # None /\ clients[s].todo # {} /\ Sends(s)
      /\ \/ Relayed(s, t, n) /\ Delivery(s, t, n)
         \/ UNCHANGED <<rooms, known, inbox>> /\ clients'[s].key = None
      /\ UNCHANGED <<channels, presence, revoked, banned, confused>>
  BY SendClient DEF Sends
<1>2. CASE UNCHANGED <<rooms, known, inbox>> /\ clients'[s].key = None
  BY <1>1, <1>2 DEF RoomsStay
<1>3. CASE Relayed(s, t, n) /\ Delivery(s, t, n)
  <2>1. /\ r \in Rooms /\ In(s, r) /\ rooms[r].epoch = clients[s].view.epoch
        /\ Device(s) = Least(rooms[r].devices)
        /\ t \in Active(presence, r, revoked, banned)
        /\ to \in Sockets /\ Device(to) = t
        /\ Envelope(s) \in Envelopes
        /\ \A q \in Rooms : /\ rooms'[q] = None <=> rooms[q] = None
                            /\ rooms[q] # None => /\ rooms'[q].epoch = rooms[q].epoch
                                                  /\ rooms'[q].devices = rooms[q].devices
        /\ known' = [known EXCEPT ![clients[s].key] = @ \cup {t}]
        /\ inbox' = IF clients[to] = None THEN inbox
                    ELSE [inbox EXCEPT ![to] = Append(@, Envelope(s))]
    BY <1>1, <1>3, DeliveryFacts
  <2>2. clients[s].view # None /\ clients[s].key \in Keys /\ t # Device(s)
    BY <1>1, SendFacts
  <2>3. rooms[r].devices = Active(presence, r, revoked, banned)  BY <2>1, InRoom
  <2> HIDE DEF r, t, to
  <2>4. to = SocketFor(presence, r, Device(to))  BY <2>1 DEF to
  <2>5. clients[s].view.room = r  BY DEF r
  <2>6. Recipient(s) = t  BY DEF t
  <2>7. Posts(s, r, to)  BY <2>1, <2>2, <2>3, <2>4, <2>5, <2>6 DEF Posts
  <2> QED BY <1>1, <2>1, <2>7 DEF RoomsStay
<1> QED BY <1>1, <1>2, <1>3

LEMMA SendsIn ==
    ASSUME SocketsInv, RoomsStay, NEW s \in Sockets, Sends(s), NEW u \in Sockets
    PROVE  /\ Device(u)' = Device(u)
           /\ \A r : In(u, r)' <=> In(u, r)
           /\ clients[u] # None =>
                clients'[u].view = clients[u].view /\ clients'[u].key \in {clients[u].key, None}
BY DEF RoomsStay, Sends, In, Device

\* A queue gains the envelope, or nothing.
LEMMA PostInbox ==
    ASSUME TypeOK, NEW s \in Sockets, NEW r \in Rooms, NEW to \in Sockets, Posts(s, r, to),
           NEW u \in Sockets
    PROVE  /\ DOMAIN inbox[u] \subseteq DOMAIN inbox'[u]
           /\ \A i \in DOMAIN inbox[u] : inbox'[u][i] = inbox[u][i]
           /\ \A i \in DOMAIN inbox'[u] \ DOMAIN inbox[u] : u = to /\ inbox'[u][i] = Envelope(s)
           /\ DOMAIN inbox[u] = 1 .. Len(inbox[u]) /\ Len(inbox[u]) \in Nat
<1>1. inbox[u] \in Seq(Events) /\ Envelope(s) \in Events  BY DEF TypeOK, Events, Posts
<1>2. DOMAIN inbox[u] = 1 .. Len(inbox[u]) /\ Len(inbox[u]) \in Nat  BY <1>1
<1>3. CASE u = to /\ clients[to] # None
  <2>1. inbox'[u] = Append(inbox[u], Envelope(s))  BY <1>3 DEF Posts, TypeOK
  <2>2. /\ DOMAIN inbox'[u] = 1 .. Len(inbox[u]) + 1
        /\ \A i \in 1 .. Len(inbox[u]) : inbox'[u][i] = inbox[u][i]
        /\ inbox'[u][Len(inbox[u]) + 1] = Envelope(s)
    BY <1>1, <2>1
  <2>3. \A i \in DOMAIN inbox'[u] \ DOMAIN inbox[u] : i = Len(inbox[u]) + 1  BY <1>2, <2>2
  <2>4. DOMAIN inbox[u] \subseteq DOMAIN inbox'[u]
    BY <1>2, <2>2
  <2> QED BY <1>2, <1>3, <2>2, <2>3, <2>4
<1>4. CASE ~(u = to /\ clients[to] # None)
  <2>1. inbox'[u] = inbox[u]  BY <1>4 DEF Posts, TypeOK
  <2> QED BY <1>2, <1>4, <2>1
<1> QED BY <1>3, <1>4

LEMMA PostLast ==
    ASSUME TypeOK, NEW s \in Sockets, NEW r \in Rooms, NEW to \in Sockets, Posts(s, r, to),
           clients[to] # None
    PROVE  /\ Len(inbox[to]) + 1 \in DOMAIN inbox'[to]
           /\ inbox'[to][Len(inbox[to]) + 1] = Envelope(s)
<1>1. inbox[to] \in Seq(Events) /\ Envelope(s) \in Events  BY DEF TypeOK, Events, Posts
<1>2. inbox'[to] = Append(inbox[to], Envelope(s))  BY DEF Posts, TypeOK
<1> QED BY <1>1, <1>2

LEMMA PostPending ==
    ASSUME TypeOK, NEW s \in Sockets, NEW r \in Rooms, NEW to \in Sockets, Posts(s, r, to),
           NEW u \in Sockets, NEW m \in Pending(u)'
    PROVE  m \in Pending(u) \/ (u = to /\ m = Envelope(s))
<1>1. PICK i \in DOMAIN inbox'[u] : inbox'[u][i] = m  BY DEF Pending
<1>2. CASE i \in DOMAIN inbox[u]
  <2>1. inbox'[u][i] = inbox[u][i]  BY <1>2, PostInbox
  <2> QED BY <1>1, <1>2, <2>1 DEF Pending
<1>3. CASE i \notin DOMAIN inbox[u]
  <2>1. i \in DOMAIN inbox'[u] \ DOMAIN inbox[u]  BY <1>3
  <2>2. \A j \in DOMAIN inbox'[u] \ DOMAIN inbox[u] : u = to /\ inbox'[u][j] = Envelope(s)
    BY PostInbox
  <2> QED BY <1>1, <2>1, <2>2
<1> QED BY <1>2, <1>3

LEMMA EnvelopeIs ==
    ASSUME NEW s \in Sockets, NEW r \in Rooms, NEW to \in Sockets, Posts(s, r, to)
    PROVE  /\ ~IsState(Envelope(s)) /\ Envelope(s).room = r
           /\ Envelope(s).epoch = rooms[r].epoch /\ Envelope(s).from = Device(s)
           /\ Envelope(s).key = clients[s].key
<1>1. ~IsState(Envelope(s))  BY Kinds DEF Posts
<1> QED BY <1>1 DEF Posts, Envelope

\* Whoever carries a key of the members of its room has it among them still:
\* it is delivered to a member.
LEMMA PostConfined ==
    ASSUME Inv, NEW s \in Sockets, NEW r \in Rooms, NEW to \in Sockets, Posts(s, r, to), RoomsStay,
           NEW u \in Sockets, NEW q \in Rooms, NEW k \in Keys, In(u, q), Carries(u, q, k),
           NEW e, Confined(k, e, q)
    PROVE  Confined(k, e, q)'
<1>1. rooms'[q].epoch = rooms[q].epoch /\ rooms'[q].devices = rooms[q].devices
  <2>1. rooms[q] # None  BY InRoom DEF Inv
  <2> QED BY <2>1 DEF RoomsStay
<1>2. CASE k # clients[s].key
  <2>1. known'[k] = known[k]  BY <1>2 DEF Posts, Inv, TypeOK
  <2> QED BY <1>1, <2>1 DEF Confined
<1>3. CASE k = clients[s].key
  <2>1. Carries(s, r, k)  BY <1>3 DEF Posts, Carries, In
  <2>2. q = r  BY <2>1 DEF Inv, OneRoom
  <2>3. known'[k] = known[k] \cup {Recipient(s)}  BY <1>3 DEF Posts, Inv, TypeOK
  <2>4. Recipient(s) \in rooms[r].devices  BY DEF Posts
  <2> QED BY <1>1, <2>2, <2>3, <2>4 DEF Confined
<1> QED BY <1>2, <1>3

LEMMA CarriesOf ==
    ASSUME TypeOK, NEW u \in Sockets, NEW q \in Rooms, In(u, q)
    PROVE  /\ clients[u].key # None => clients[u].key \in Keys /\ Carries(u, q, clients[u].key)
           /\ \A m \in Pending(u) : ~IsState(m) /\ m.room = q => m.key \in Keys /\ Carries(u, q, m.key)
<1>1. clients[u] # None  BY DEF In
<1>2. /\ clients[u].key # None => clients[u].key \in Keys
      /\ \A m \in Pending(u) : ~IsState(m) => m.key \in Keys
  BY <1>1, CarriedIs
<1> QED BY <1>1, <1>2 DEF Carries, In

LEMMA PostMembers ==
    ASSUME Inv, NEW s \in Sockets, NEW r \in Rooms, NEW to \in Sockets, Posts(s, r, to),
           RoomsStay, Sends(s)
    PROVE  Members'
<1>0. TypeOK /\ SocketsInv /\ RoomsInv  BY DEF Inv
<1> SUFFICES ASSUME NEW u \in Sockets, NEW q \in Rooms, q \notin confused', In(u, q)'
             PROVE  MemberInv(u, q)'
  BY DEF Members
<1>8. q \notin confused  BY DEF RoomsStay
<1>1. /\ In(u, q) /\ Device(u)' = Device(u) /\ clients[u] # None
      /\ clients'[u].view = clients[u].view /\ clients'[u].key \in {clients[u].key, None}
  <2>1. In(u, q) /\ Device(u)' = Device(u)  BY <1>0, SendsIn
  <2>2. clients[u] # None  BY <2>1 DEF In
  <2> QED BY <1>0, <2>1, <2>2, SendsIn
<1>2. MemberInv(u, q)  BY <1>1, <1>8 DEF Inv, Members
<1>3. rooms'[q].epoch = rooms[q].epoch /\ rooms'[q].devices = rooms[q].devices
  <2>1. rooms[q] # None  BY <1>0, <1>1, InRoom
  <2> QED BY <2>1 DEF RoomsStay
<1>4. \A k \in Keys : \A e : Carries(u, q, k) /\ Confined(k, e, q) => Confined(k, e, q)'
  BY <1>1, PostConfined
<1>5. ViewInv(u, q)'
  <2>1. clients[u].view # None =>
          /\ Fits(clients[u].view, q)
          /\ clients[u].key # None => Confined(clients[u].key, clients[u].view.epoch, q)
    BY <1>2 DEF MemberInv, ViewInv
  <2>2. clients[u].key # None => clients[u].key \in Keys /\ Carries(u, q, clients[u].key)
    BY <1>0, <1>1, CarriesOf
  <2>3. ASSUME NEW k, k = clients[u].key, k # None, NEW e, e = clients[u].view.epoch,
               clients[u].view # None, e = rooms[q].epoch
        PROVE  known'[k] \subseteq rooms[q].devices
    <3>1. k \in Keys /\ Carries(u, q, k) /\ Confined(k, e, q)  BY <2>1, <2>2, <2>3
    <3>2. Confined(k, e, q)'  BY <1>4, <3>1
    <3> QED BY <1>3, <2>3, <3>2 DEF Confined
  <2> QED BY <1>1, <1>3, <2>1, <2>3 DEF ViewInv, Fits, Confined
<1>6. ASSUME NEW m \in Pending(u)', m.room = q PROVE EventInv(u, q, m)'
  <2>1. m \in Pending(u) \/ (u = to /\ m = Envelope(s))  BY <1>0, PostPending
  <2>2. CASE m \in Pending(u)
    <3>1. EventInv(u, q, m)  BY <1>2, <1>6, <2>2 DEF MemberInv
    <3>2. ~IsState(m) => m.key \in Keys /\ Carries(u, q, m.key)
      BY <1>0, <1>1, <1>6, <2>2, CarriesOf
    <3>3. ~IsState(m) => (Confined(m.key, m.epoch, q) => Confined(m.key, m.epoch, q)')
      BY <1>4, <3>2
    <3> QED BY <1>0, <1>1, <1>3, <2>2, <3>1, <3>3, EventStays
  <2>3. CASE u = to /\ m = Envelope(s)
    <3>1. ~IsState(m) /\ m.room = r /\ m.epoch = rooms[r].epoch /\ m.from = Device(s)
          /\ m.key = clients[s].key
      BY <2>3, EnvelopeIs
    <3>2. q = r /\ Device(to) # Device(s) /\ In(s, r) /\ m.key # None
      BY <1>6, <3>1 DEF Posts
    <3>3. clients[s].view # None /\ clients[s].view.epoch = rooms[r].epoch  BY DEF Posts
    <3>4. Confined(m.key, m.epoch, r) /\ Carries(s, r, m.key) /\ m.key \in Keys
      <4>1. ViewInv(s, r)  BY <1>8, <3>2 DEF Inv, Members, MemberInv
      <4> QED BY <3>1, <3>2, <3>3, <4>1 DEF ViewInv, Posts, Carries, In
    <3>5. Confined(m.key, m.epoch, r)'  BY <3>2, <3>4, PostConfined
    <3>6. rooms[r].epoch \in Nat  BY <1>0, <3>2, InRoom
    <3> QED BY <1>1, <1>3, <2>3, <3>1, <3>2, <3>5, <3>6 DEF EventInv
  <2> QED BY <2>1, <2>2, <2>3
<1>7. ToldInv(u, q)'
  <2>1. ToldInv(u, q)  BY <1>2 DEF MemberInv
  <2>2. ASSUME NEW m \in Pending(u)', m.room = q
        PROVE  (\E x \in Pending(u) : x.room = q) \/ SocketFor(presence, q, Device(u)) = u
    <3>1. m \in Pending(u) \/ (u = to /\ m = Envelope(s))  BY <1>0, PostPending
    <3>2. CASE m \in Pending(u)  BY <2>2, <3>2
    <3>3. CASE u = to /\ m = Envelope(s)
      <4>1. q = r  BY <2>2, <3>3, EnvelopeIs
      <4> QED BY <3>3, <4>1 DEF Posts
    <3> QED BY <3>1, <3>2, <3>3
  <2>3. presence' = presence  BY DEF RoomsStay
  <2> QED BY <1>1, <2>1, <2>2, <2>3 DEF ToldInv
<1> QED BY <1>5, <1>6, <1>7 DEF MemberInv

LEMMA PostOneRoom ==
    ASSUME Inv, NEW s \in Sockets, NEW r \in Rooms, NEW to \in Sockets, Posts(s, r, to),
           RoomsStay, Sends(s)
    PROVE  OneRoom'
<1>0. TypeOK /\ SocketsInv  BY DEF Inv
<1>1. ASSUME NEW u \in Sockets, NEW q \in Rooms, NEW k \in Keys, Carries(u, q, k)'
      PROVE  Carries(u, q, k) \/ (q = r /\ Carries(s, r, k))
  <2>2. k # None  OBVIOUS
  <2>3. CASE clients'[u] # None /\ clients'[u].room = q /\ clients'[u].key = k
    <3>1. clients[u] # None /\ clients[u].room = q /\ clients'[u].key \in {clients[u].key, None}
      BY <2>3 DEF Sends
    <3> QED BY <2>2, <2>3, <3>1 DEF Carries
  <2>4. ASSUME NEW m \in Pending(u)', ~IsState(m), m.room = q, m.key = k
        PROVE  Carries(u, q, k) \/ (q = r /\ Carries(s, r, k))
    <3>1. m \in Pending(u) \/ (u = to /\ m = Envelope(s))  BY <1>0, PostPending
    <3>2. CASE m \in Pending(u)  BY <2>4, <3>2 DEF Carries
    <3>3. CASE m = Envelope(s)
      <4>1. q = r /\ k = clients[s].key  BY <2>4, <3>3, EnvelopeIs
      <4> QED BY <4>1 DEF Posts, Carries, In
    <3> QED BY <3>1, <3>2, <3>3
  <2> QED BY <1>1, <2>3, <2>4 DEF Carries
<1> QED BY <1>1 DEF OneRoom, Inv

(***************************************************************************)
(* What was served stays so when nothing of the room is added.             *)
(***************************************************************************)
LEMMA ServedStays ==
    ASSUME NEW t \in Sockets, NEW r \in Rooms, NEW k, Served(t, r, k),
           rooms'[r].epoch = rooms[r].epoch,
           clients'[t].view = clients[t].view, clients'[t].key \in {clients[t].key, None},
           DOMAIN inbox[t] \subseteq DOMAIN inbox'[t],
           \A i \in DOMAIN inbox[t] : inbox'[t][i] = inbox[t][i],
           \A i \in DOMAIN inbox'[t] \ DOMAIN inbox[t] : inbox'[t][i].room # r
    PROVE  Served(t, r, k)'
<1>1. ASSUME NEW i, Comes(t, r, k, i) PROVE Comes(t, r, k, i)'
  BY <1>1 DEF Comes, Delivers
<1>2. ASSUME NEW i \in DOMAIN inbox'[t], Delivers(t, i, r)', inbox'[t][i].key # k
      PROVE  Comes(t, r, k, i)'
  <2>1. i \in DOMAIN inbox[t] /\ Delivers(t, i, r) /\ inbox[t][i].key # k
    BY <1>2 DEF Delivers
  <2>2. Comes(t, r, k, i)  BY <2>1 DEF Served
  <2> QED BY <1>1, <2>2
<1>3. ASSUME clients'[t].key \notin {None, k}, clients'[t].view # None,
             clients'[t].view.epoch = rooms'[r].epoch
      PROVE  Comes(t, r, k, 0)'
  <2>1. Comes(t, r, k, 0)  BY <1>3 DEF Served
  <2> QED BY <1>1, <2>1
<1> QED BY <1>2, <1>3 DEF Served

LEMMA PostHeld ==
    ASSUME Inv, NEW s \in Sockets, NEW r \in Rooms, NEW to \in Sockets, Posts(s, r, to),
           RoomsStay, Sends(s)
    PROVE  HeldInv'
<1>0. TypeOK /\ SocketsInv /\ RoomsInv  BY DEF Inv
<1> SUFFICES ASSUME NEW l \in Sockets, NEW t \in Sockets, NEW q \in Rooms, NEW k \in Keys,
                    q \notin confused', Leads(l, q, k)', In(t, q)', l # t,
                    Device(t)' \in clients'[l].view.devices \ clients'[l].todo
             PROVE  Served(t, q, k)'
  BY DEF HeldInv
<1>9. q \notin confused  BY DEF RoomsStay
<1>1. In(l, q) /\ In(t, q) /\ clients[l] # None /\ clients[t] # None
  <2>1. In(l, q) /\ In(t, q)  BY <1>0, SendsIn DEF Leads
  <2> QED BY <2>1 DEF In
<1>2. rooms'[q].epoch = rooms[q].epoch /\ rooms'[q].devices = rooms[q].devices
  <2>1. rooms[q] # None  BY <1>0, <1>1, InRoom
  <2> QED BY <2>1 DEF RoomsStay
<1>3. /\ Device(l)' = Device(l) /\ Device(t)' = Device(t)
      /\ clients'[l].view = clients[l].view /\ clients'[l].key \in {clients[l].key, None}
      /\ clients'[t].view = clients[t].view /\ clients'[t].key \in {clients[t].key, None}
  BY <1>0, <1>1, SendsIn
<1>4. Leads(l, q, k) /\ k # None /\ clients'[l].key = k
  BY <1>1, <1>2, <1>3 DEF Leads
<1>5. /\ DOMAIN inbox[t] \subseteq DOMAIN inbox'[t]
      /\ \A i \in DOMAIN inbox[t] : inbox'[t][i] = inbox[t][i]
      /\ \A i \in DOMAIN inbox'[t] \ DOMAIN inbox[t] : t = to /\ inbox'[t][i] = Envelope(s)
      /\ t = to =>
           /\ Len(inbox[t]) + 1 \in DOMAIN inbox'[t]
           /\ inbox'[t][Len(inbox[t]) + 1] = Envelope(s)
      /\ DOMAIN inbox[t] = 1 .. Len(inbox[t]) /\ Len(inbox[t]) \in Nat
  <2>1. /\ DOMAIN inbox[t] \subseteq DOMAIN inbox'[t]
        /\ \A i \in DOMAIN inbox[t] : inbox'[t][i] = inbox[t][i]
        /\ \A i \in DOMAIN inbox'[t] \ DOMAIN inbox[t] : t = to /\ inbox'[t][i] = Envelope(s)
        /\ DOMAIN inbox[t] = 1 .. Len(inbox[t]) /\ Len(inbox[t]) \in Nat
    BY <1>0, PostInbox
  <2>2. ASSUME t = to
        PROVE  /\ Len(inbox[t]) + 1 \in DOMAIN inbox'[t]
               /\ inbox'[t][Len(inbox[t]) + 1] = Envelope(s)
    <3>1. clients[to] # None  BY <1>1, <2>2
    <3>2. /\ Len(inbox[to]) + 1 \in DOMAIN inbox'[to]
          /\ inbox'[to][Len(inbox[to]) + 1] = Envelope(s)
      BY <1>0, <3>1, PostLast
    <3> QED BY <2>2, <3>2
  <2> QED BY <2>1, <2>2
<1>6. ASSUME Served(t, q, k), t # to \/ q # r PROVE Served(t, q, k)'
  <2>1. \A i \in DOMAIN inbox'[t] \ DOMAIN inbox[t] : inbox'[t][i].room # q
    BY <1>5, <1>6, EnvelopeIs
  <2> QED BY <1>2, <1>3, <1>5, <1>6, <2>1, ServedStays
<1>7. CASE l # s
  <2>1. clients'[l] = clients[l]  BY <1>7 DEF Sends
  <2>2. Served(t, q, k)  BY <1>1, <1>3, <1>4, <1>9, <2>1 DEF Inv, HeldInv
  <2>3. q # r
    <3>1. ASSUME q = r PROVE Device(s) = Device(l)  BY <1>4, <3>1 DEF Posts, Leads
    <3>2. In(s, r)  BY DEF Posts
    <3> QED BY <1>0, <1>1, <1>7, <3>1, <3>2 DEF SocketsInv, In
  <2> QED BY <1>6, <2>2, <2>3
<1>8. CASE l = s
  <2>1. q = r /\ k = clients[s].key /\ Device(t) \in clients[s].view.devices
        /\ (Device(t) \notin clients[s].todo \/ Device(t) = Recipient(s))
    <3>1. q = r  BY <1>1, <1>8 DEF Posts, In
    <3>2. /\ clients'[s].key = clients[s].key
          /\ clients'[s].todo = clients[s].todo \ {Recipient(s)}
      BY <1>4, <1>8 DEF Sends
    <3> QED BY <1>3, <1>4, <1>8, <3>1, <3>2
  <2>2. CASE t = to
    <3>1. PICK j : /\ j \in DOMAIN inbox'[t] /\ inbox'[t][j] = Envelope(s)
                   /\ 0 < j /\ \A i \in DOMAIN inbox[t] : i < j
      <4>1. 0 < Len(inbox[t]) + 1 /\ \A i \in DOMAIN inbox[t] : i < Len(inbox[t]) + 1
        BY <1>5
      <4> QED BY <1>5, <2>2, <4>1
    <3>2. Delivers(t, j, r)' /\ inbox'[t][j].key = k
      <4>1. ~IsState(inbox'[t][j]) /\ inbox'[t][j].room = r /\ inbox'[t][j].key = k
            /\ inbox'[t][j].epoch = rooms'[r].epoch
        BY <1>2, <2>1, <3>1, EnvelopeIs
      <4> QED BY <3>1, <4>1 DEF Delivers
    <3>3. ASSUME NEW i \in DOMAIN inbox[t] \cup {0} PROVE Comes(t, r, k, i)'
      <4>1. i < j  BY <3>1
      <4> QED BY <3>1, <3>2, <4>1 DEF Comes
    <3>4. \A i \in DOMAIN inbox'[t] : inbox'[t][i].key # k => i \in DOMAIN inbox[t]
      BY <1>5, <2>1, EnvelopeIs
    <3> QED BY <2>1, <3>3, <3>4 DEF Served
  <2>3. CASE t # to /\ Device(t) = Recipient(s)
    \* Nothing of the room was said on this connection.
    <3>1. SocketFor(presence, r, Device(t)) # t  BY <2>3 DEF Posts
    <3>2. clients[t].view = None /\ \A m \in Pending(t) : m.room # r
      <4>1. ToldInv(t, r)  BY <1>1, <1>9, <2>1 DEF Inv, Members, MemberInv
      <4> QED BY <3>1, <4>1 DEF ToldInv
    <3>3. \A i \in DOMAIN inbox'[t] : i \in DOMAIN inbox[t] /\ inbox'[t][i].room # r
      BY <1>5, <2>3, <3>2 DEF Pending
    <3> QED BY <1>3, <2>1, <3>2, <3>3 DEF Served, Delivers
  <2>4. CASE t # to /\ Device(t) \notin clients[s].todo
    <3>1. Served(t, q, k)  BY <1>1, <1>4, <1>8, <1>9, <2>1, <2>4 DEF Inv, HeldInv
    <3> QED BY <1>6, <2>4, <3>1
  <2> QED BY <2>1, <2>2, <2>3, <2>4
<1> QED BY <1>7, <1>8

\* Nothing was delivered: the client gives up its key.
LEMMA NotSent ==
    ASSUME Inv, NEW s \in Sockets, RoomsStay, Sends(s), known' = known, inbox' = inbox,
           clients'[s].key = None
    PROVE  Members' /\ OneRoom' /\ HeldInv'
<1>1. TypeOK /\ SocketsInv /\ RoomsInv  BY DEF Inv
<1>2. ASSUME NEW u \in Sockets, NEW r \in Rooms, In(u, r)'
      PROVE  /\ In(u, r) /\ Device(u)' = Device(u)
             /\ clients'[u].view = clients[u].view /\ clients'[u].key \in {clients[u].key, None}
             /\ rooms'[r].epoch = rooms[r].epoch /\ rooms'[r].devices = rooms[r].devices
  <2>1. In(u, r) /\ Device(u)' = Device(u)  BY <1>1, <1>2, SendsIn
  <2>2. clients[u] # None  BY <2>1 DEF In
  <2>3. rooms[r] # None  BY <1>1, <2>1, InRoom
  <2>4. clients'[u].view = clients[u].view /\ clients'[u].key \in {clients[u].key, None}
    BY <1>1, <2>2, SendsIn
  <2> QED BY <2>1, <2>3, <2>4 DEF RoomsStay
<1>3. Members'
  <2> SUFFICES ASSUME NEW u \in Sockets, NEW r \in Rooms, r \notin confused', In(u, r)'
               PROVE  MemberInv(u, r)'
    BY DEF Members
  <2>6. r \notin confused  BY DEF RoomsStay
  <2>1. MemberInv(u, r) /\ clients[u] # None  BY <1>2, <2>6 DEF Inv, Members, In
  <2>2. ViewInv(u, r)'  BY <1>2, <2>1 DEF MemberInv, ViewInv, Fits, Confined
  <2>3. ToldInv(u, r)'
    BY <1>2, <2>1 DEF MemberInv, ToldInv, Pending, RoomsStay
  <2>4. ASSUME NEW m \in Pending(u), m.room = r PROVE EventInv(u, r, m)'
    <3>1. EventInv(u, r, m)  BY <2>1, <2>4 DEF MemberInv
    <3>2. ~IsState(m) => (Confined(m.key, m.epoch, r) => Confined(m.key, m.epoch, r)')
      BY <1>2 DEF Confined
    <3> QED BY <1>1, <1>2, <2>1, <3>1, <3>2, EventStays
  <2>5. Pending(u)' = Pending(u)  BY DEF Pending
  <2> QED BY <2>2, <2>3, <2>4, <2>5 DEF MemberInv
<1>4. OneRoom'
  <2>1. ASSUME NEW u \in Sockets, NEW r \in Rooms, NEW k \in Keys, Carries(u, r, k)'
        PROVE  Carries(u, r, k)
    <3>1. k # None  OBVIOUS
    <3> QED BY <2>1, <3>1 DEF Carries, Pending, Sends
  <2> QED BY <2>1 DEF OneRoom, Inv
<1>5. HeldInv'
  <2> SUFFICES ASSUME NEW l \in Sockets, NEW t \in Sockets, NEW r \in Rooms, NEW k \in Keys,
                      r \notin confused', Leads(l, r, k)', In(t, r)', l # t,
                      Device(t)' \in clients'[l].view.devices \ clients'[l].todo
               PROVE  Served(t, r, k)'
    BY DEF HeldInv
  <2>1. In(l, r)' /\ clients'[l].key = k /\ k # None  BY DEF Leads
  <2>2. clients'[l] = clients[l]  BY <2>1 DEF Sends
  <2>3. Leads(l, r, k)  BY <1>2, <2>1, <2>2 DEF Leads
  <2>4. Served(t, r, k)  BY <1>2, <2>1, <2>2, <2>3 DEF Inv, HeldInv, RoomsStay
  <2> QED BY <1>2, <2>4, ServedStays
<1> QED BY <1>3, <1>4, <1>5

LEMMA SendKeeps ==
    ASSUME Inv, NEW s \in Sockets, Send(s), TypeOK', SocketsInv', ClientsInv'
    PROVE  Inv'
<1>1. /\ RoomsStay /\ Sends(s)
      /\ \/ known' = known /\ inbox' = inbox /\ clients'[s].key = None
         \/ \E r \in Rooms, to \in Sockets : Posts(s, r, to)
  BY SendIs DEF Inv
<1>2. RoomsInv'  BY <1>1, RoomsStayInv DEF Inv
<1>3. CASE known' = known /\ inbox' = inbox /\ clients'[s].key = None
  <2>1. Members' /\ OneRoom' /\ HeldInv'  BY <1>1, <1>3, NotSent
  <2> QED BY <1>2, <2>1 DEF Inv
<1>4. ASSUME NEW r \in Rooms, NEW to \in Sockets, Posts(s, r, to) PROVE Inv'
  <2>1. Members'  BY <1>1, <1>4, PostMembers
  <2>2. OneRoom'  BY <1>1, <1>4, PostOneRoom
  <2>3. HeldInv'  BY <1>1, <1>4, PostHeld
  <2> QED BY <1>2, <2>1, <2>2, <2>3 DEF Inv
<1> QED BY <1>1, <1>3, <1>4

LEMMA InvStep ==
    ASSUME Inv, Next
    PROVE  Inv'
<1>0. TypeOK /\ SocketsInv /\ TypeOK' /\ SocketsInv' /\ ClientsInv'
  BY BaseStep DEF Inv
<1>1. ASSUME RoomStep PROVE Inv'  BY <1>0, <1>1, RoomStepKeeps
<1>2. ASSUME NEW S, S \subseteq Sockets, NEW rev, NEW ban, Drop(S, rev, ban) PROVE RoomStep
  BY <1>0, <1>2, DropStep
<1>3. ASSUME NEW s \in Sockets, OfSocket(s) PROVE Inv'
  <2>1. ASSUME NEW d \in Devices, Connect(s, d) PROVE RoomStep
    BY <1>0, <2>1, ConnectStep
  <2>2. CASE Lose(s)  BY <1>0, <1>1, <2>2, LoseStep
  <2>3. CASE Disconnect(s)
    <3>1. Drop({s}, revoked, banned)  BY <2>3 DEF Disconnect
    <3> QED BY <1>1, <1>2, <3>1
  <2>4. ASSUME NEW r \in Rooms, Join(s, r) PROVE RoomStep
    BY <1>0, <2>4, JoinStep
  <2>5. CASE Leave(s)  BY <1>0, <1>1, <2>5, LeaveStep
  <2>6. CASE ApplyRoomState(s) \/ RejectRoomState(s) \/ OpenEnvelope(s) \/ Ignore(s)
    BY <1>0, <2>6, TakeKeeps
  <2>7. CASE Send(s)  BY <1>0, <2>7, SendKeeps
  <2> QED BY <1>1, <1>3, <2>1, <2>2, <2>3, <2>4, <2>5, <2>6, <2>7 DEF OfSocket
<1>4. ASSUME NEW d \in Devices, RevokeDevice(d) PROVE Inv'
  <2> DEFINE S == {s \in Sockets : presence[s] # None /\ presence[s].device = d}
  <2>1. Drop(S, revoked \cup {d}, banned) /\ S \subseteq Sockets  BY <1>4 DEF RevokeDevice
  <2> HIDE DEF S
  <2> QED BY <1>1, <1>2, <2>1
<1>5. ASSUME NEW u \in Users, Ban(u) PROVE Inv'
  <2> DEFINE S == {s \in Sockets : presence[s] # None /\ UserOf[presence[s].device] = u}
  <2>1. Drop(S, revoked, banned \cup {u}) /\ S \subseteq Sockets  BY <1>5 DEF Ban
  <2> HIDE DEF S
  <2> QED BY <1>1, <1>2, <2>1
<1>6. ASSUME NEW u \in Users, Unban(u) PROVE Inv'  BY <1>0, <1>1, <1>6, UnbanStep
<1>7. ASSUME NEW r \in Rooms, DeleteChannel(r) PROVE Inv'
  BY <1>0, <1>1, <1>7, DeleteChannelStep
<1>8. CASE Restart  BY <1>0, <1>1, <1>8, RestartStep
<1> QED BY <1>3, <1>4, <1>5, <1>6, <1>7, <1>8 DEF Next

(***************************************************************************)
(* The invariant holds in every state, whatever the server's handlers and  *)
(* the clients' coordinators do one after the other (server.js: voice:join *)
(* to disconnect, media_e2ee_coordinator.dart).                            *)
(***************************************************************************)
THEOREM InvHolds == Spec => []Inv
<1>1. Init => Inv
  <2> SUFFICES ASSUME Init PROVE Inv  OBVIOUS
  <2>1. TypeOK /\ SocketsInv /\ ClientsInv
    BY DEF Init, TypeOK, SocketsInv, ClientsInv
  <2>2. RoomsInv
    <3>1. \A r : Active(presence, r, revoked, banned) = {}  BY DEF Init, Active, SocketsIn
    <3>2. \A r \in channels : rooms[r] = None  BY DEF Init
    <3> QED BY <3>1, <3>2 DEF RoomsInv
  <2>3. \A s \in Sockets : clients[s] = None  BY DEF Init
  <2>4. Members  BY <2>3 DEF Members, In
  <2>7. \A s \in Sockets : Pending(s) = {}  BY DEF Init, Pending
  <2>5. OneRoom  BY <2>3, <2>7 DEF OneRoom, Carries
  <2>6. HeldInv  BY <2>3 DEF HeldInv, In
  <2> QED BY <2>1, <2>2, <2>4, <2>5, <2>6 DEF Inv
<1>2. Inv /\ [Next]_vars => Inv'
  <2>1. ASSUME Inv, UNCHANGED vars PROVE Inv'
    <3>1. TypeOK'  BY <2>1 DEF Inv, TypeOK, vars
    <3>2. SocketsInv' /\ ClientsInv'
      BY <2>1 DEF Inv, SocketsInv, ClientsInv, ClientInv, Device, Authorized, vars
    <3>3. RoomsInv'
      <4>1. RoomsStay  BY <2>1 DEF RoomsStay, vars
      <4> QED BY <2>1, <4>1, RoomsStayInv DEF Inv
    <3>4. Members'
      BY <2>1 DEF Inv, Members, MemberInv, In, ViewInv, ToldInv, EventInv, Fits, Confined,
                  Device, Pending, vars
    <3>5. OneRoom'  BY <2>1 DEF Inv, OneRoom, Carries, In, Pending, vars
    <3>6. HeldInv'
      BY <2>1 DEF Inv, HeldInv, Leads, In, Device, Served, Comes, Delivers, vars
    <3> QED BY <3>1, <3>2, <3>3, <3>4, <3>5, <3>6 DEF Inv
  <2> QED BY <2>1, InvStep
<1> QED BY <1>1, <1>2, PTL DEF Spec

(***************************************************************************)
(* A key in use stays in its room: when a client has seen the room's last  *)
(* state, the key it encrypts with was handed to members of the room only, *)
(* whoever joined, left, was banned or lost its connection before, and     *)
(* however deliveries failed and overlapped.  The exception the property   *)
(* states is a room that somebody joined with events of an earlier stay    *)
(* there on their way, until everybody has left it.                        *)
(***************************************************************************)
THEOREM KeysStay == Spec => []KeysStayInRoom
<1>1. Inv => KeysStayInRoom
  <2> SUFFICES ASSUME Inv, NEW s \in Sockets, Current(s), clients[s].key # None,
                      clients[s].room \notin confused
               PROVE  known[clients[s].key] \subseteq rooms[clients[s].room].devices
    BY DEF KeysStayInRoom
  <2> DEFINE r == clients[s].room
  <2>1. clients[s] \in Clients /\ r # None  BY DEF Inv, TypeOK, Current
  <2>2. r \in Rooms /\ In(s, r)  BY <2>1 DEF Clients, Current, In
  <2>3. ViewInv(s, r)  BY <2>2 DEF Inv, Members, MemberInv
  <2>4. clients[s].view # None /\ clients[s].view.epoch = rooms[r].epoch
    BY StateEventIs DEF Current
  <2> HIDE DEF r
  <2>5. known[clients[s].key] \subseteq rooms[r].devices  BY <2>3, <2>4 DEF ViewInv, Confined
  <2> QED BY <2>5 DEF r
<1> QED BY <1>1, InvHolds, PTL

(***************************************************************************)
(* Who holds a key holds the leader's: when the leader has delivered its   *)
(* key, a member that has seen the room's last state, has handled its      *)
(* events and holds a key holds the same; with the same exception.         *)
(***************************************************************************)
THEOREM HoldersHoldTheSame == Spec => []HoldersAgree
<1>1. Inv => HoldersAgree
  <2> SUFFICES ASSUME Inv, NEW s \in Sockets, NEW t \in Sockets,
                      Current(s), Current(t), clients[s].room = clients[t].room,
                      clients[s].room \notin confused, clients[s].key # None, clients[s].todo = {},
                      Device(s) = Least(clients[s].view.devices),
                      clients[t].key # None, inbox[t] = <<>>
               PROVE  clients[s].key = clients[t].key
    BY DEF HoldersAgree, Device
  <2>1. PICK r : r = clients[s].room  OBVIOUS
  <2>2. PICK k : k = clients[s].key  OBVIOUS
  <2>3. clients[s] \in Clients /\ r # None  BY <2>1 DEF Inv, TypeOK, Current
  <2>4. r \in Rooms /\ k \in Keys  BY <2>1, <2>2, <2>3 DEF Clients
  <2>5. In(s, r) /\ In(t, r)  BY <2>1 DEF Current, In
  <2>6. /\ clients[s].view # None /\ clients[t].view # None
        /\ clients[s].view.epoch = rooms[r].epoch /\ clients[t].view.epoch = rooms[r].epoch
        /\ clients[s].view.devices = rooms[r].devices
    BY <2>1, StateEventIs DEF Current
  <2>7. Leads(s, r, k)  BY <2>2, <2>5, <2>6 DEF Leads
  <2>8. Device(t) \in clients[s].view.devices \ clients[s].todo
    BY <2>4, <2>5, <2>6, InRoom DEF Inv
  <2>9. CASE s # t
    <3>1. Served(t, r, k)  BY <2>1, <2>4, <2>5, <2>7, <2>8, <2>9 DEF Inv, HeldInv
    <3>2. \A i : ~Comes(t, r, k, i)  BY DEF Comes
    <3>3. clients[t].key \in {None, k}  BY <2>6, <3>1, <3>2 DEF Served
    <3> QED BY <2>2, <3>3
  <2> QED BY <2>9
<1> QED BY <1>1, InvHolds, PTL
=============================================================================

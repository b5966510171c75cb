----------------------------- MODULE MediaRoom -----------------------------
(***************************************************************************)
(* The encrypted voice rooms: the rooms and realtime handlers of           *)
(* server/src/server.js (voice:join, voice:leave, media:e2ee:envelope,     *)
(* disconnect, and what bans, revocations and deleted channels do to them) *)
(* composed with the key coordinator of every client                       *)
(* (client/lib/data/media_e2ee_coordinator.dart).                          *)
(*                                                                         *)
(* The server's handlers are synchronous, each is one step.  What it emits *)
(* to a socket stays in order in the socket's inbox until the client       *)
(* handles it, one event at a time.  The leader's delivery of a room key   *)
(* awaits the answer to each envelope, and other events come in between.   *)
(*                                                                         *)
(* Devices and sockets are numbered in the order of their identifiers.  A  *)
(* signature or a key agreement that fails, an answer that is lost, a rate *)
(* limit: the client's step may fail at any time.                          *)
(***************************************************************************)
EXTENDS Integers, Sequences, FiniteSets

CONSTANTS
    Devices,        \* media device ids
    Sockets,        \* ids of realtime connections
    Users, UserOf,  \* accounts, and the account of a device
    Owner,          \* the account that owns the server
    Rooms,          \* voice channels
    Keys,           \* room keys; one that nobody carries stands for a new one
    None,
    MaxEpoch, MaxSequence, MaxEnvelopes, MaxInbox     \* bounds of the counters

ASSUME DevicesAssumption == Devices \subseteq Nat /\ Sockets \subseteq Nat
ASSUME UserOfAssumption == UserOf \in [Devices -> Users]

VARIABLES
    channels,       \* the voice channels that exist
    presence,       \* socketPresence
    rooms,          \* mediaRoomStates
    revoked,        \* media_devices.revoked_at
    banned,         \* accounts with an active ban
    clients,        \* the coordinator of the application behind a socket
    inbox,          \* what the server emitted and the client has not handled
    (***********************************************************************)
    (* History variables, for the properties only.                         *)
    (***********************************************************************)
    known,          \* the devices each key was handed to
    confused        \* the rooms in which a client may handle events of a stay it
                    \* had there before

vars == <<channels, presence, rooms, revoked, banned, clients, inbox, known, confused>>

------------------------------------------------------------------------------
Presence == [device : Devices, room : Rooms \cup {None}]

RoomStates == [epoch : Nat \ {0}, seq : Nat \ {0}, devices : (SUBSET Devices) \ {{}},
               last : [Devices -> Nat]]

\* media:e2ee:state; its leader is the smallest device.
StateEvents == [room : Rooms, epoch : Nat \ {0}, seq : Nat \ {0},
                devices : (SUBSET Devices) \ {{}}]

\* media:e2ee:envelope
Envelopes == [room : Rooms, epoch : Nat \ {0}, number : Nat \ {0}, from : Devices,
              key : Keys]

(***************************************************************************)
(* A client: the room it asked for, the room state it accepted, its key,   *)
(* the numbers of its last outgoing and incoming envelope, and the devices *)
(* the delivery in progress has still to serve.                            *)
(***************************************************************************)
Clients == [room : Rooms \cup {None}, view : StateEvents \cup {None},
            key : Keys \cup {None}, out : Nat, in : Nat, todo : SUBSET Devices]

ASSUME NoneAssumption ==
    None \notin Presence \cup RoomStates \cup StateEvents \cup Clients \cup Rooms \cup Keys

Idle == [room |-> None, view |-> None, key |-> None, out |-> 0, in |-> 0, todo |-> {}]

IsState(m) == "devices" \in DOMAIN m

Least(S) == CHOOSE x \in S : \A y \in S : x <= y

------------------------------------------------------------------------------
(***************************************************************************)
(* activeMediaRoomMembers.                                                 *)
(***************************************************************************)
SocketsIn(p, r, d) == {s \in Sockets : p[s] # None /\ p[s].room = r /\ p[s].device = d}

SocketFor(p, r, d) == Least(SocketsIn(p, r, d))

Authorized(d, rev, ban) == d \notin rev /\ UserOf[d] \notin ban

Active(p, r, rev, ban) ==
    {d \in Devices : SocketsIn(p, r, d) # {} /\ Authorized(d, rev, ban)}

(***************************************************************************)
(* emitMediaRoomState: the state of a room whose active devices are D.     *)
(***************************************************************************)
\* Mutant of Rotates: the epoch follows the leader only.
RotatesWithLeader(room, D) == room = None \/ Least(room.devices) # Least(D)

Rotates(room, D) ==
    room = None \/ ~(room.devices \subseteq D) \/ Least(room.devices) # Least(D)

NewState(room, D) ==
    [epoch   |-> IF room = None THEN 1 ELSE room.epoch + (IF Rotates(room, D) THEN 1 ELSE 0),
     seq     |-> IF room = None THEN 1 ELSE room.seq + (IF room.devices # D THEN 1 ELSE 0),
     devices |-> D,
     last    |-> IF Rotates(room, D) THEN [d \in Devices |-> 0] ELSE room.last]

\* Mutant of Announced: a room that nobody is in stays.
AnnouncedEmpty(room, D) == NewState(room, D)

Announced(room, D) == IF D = {} THEN None ELSE NewState(room, D)

StateEvent(r, room) ==
    [room |-> r, epoch |-> room.epoch, seq |-> room.seq, devices |-> room.devices]

(***************************************************************************)
(* What the counters of a run stop at.                                     *)
(***************************************************************************)
Bounds ==
    /\ \A r \in Rooms : rooms[r] # None => rooms[r].epoch <= MaxEpoch /\ rooms[r].seq <= MaxSequence
    /\ \A s \in Sockets :
         Len(inbox[s]) <= MaxInbox /\ (clients[s] # None => clients[s].out <= MaxEnvelopes)

(***************************************************************************)
(* The rooms R are announced, with the presence p and what is revoked and  *)
(* banned by then, to clients whose inbox was box.  When one handler       *)
(* announces a room several times in a row, the announcements say the same *)
(* and stand here as one.                                                  *)
(***************************************************************************)
Told(s, p, R, rev, ban) ==
    /\ p[s] # None /\ p[s].room \in R
    /\ p[s].device \in Active(p, p[s].room, rev, ban)
    /\ s = SocketFor(p, p[s].room, p[s].device)

Announce(p, R, rev, ban, box) ==
    /\ presence' = p /\ revoked' = rev /\ banned' = ban
    /\ rooms' = [r \in Rooms |->
         IF r \in R THEN Announced(rooms[r], Active(p, r, rev, ban)) ELSE rooms[r]]
    /\ inbox' = [s \in Sockets |->
         IF Told(s, p, R, rev, ban) /\ clients'[s] # None
         THEN Append(box[s], StateEvent(p[s].room, NewState(rooms[p[s].room],
                                          Active(p, p[s].room, rev, ban))))
         ELSE box[s]]
    /\ Bounds'

\* A room that everybody has left begins anew.
Confuses(R) == confused' = {r \in confused \cup R : rooms'[r] # None}

RoomOf(s) == IF presence[s] = None THEN {} ELSE {presence[s].room} \ {None}

------------------------------------------------------------------------------
Init ==
    /\ channels = Rooms
    /\ presence = [s \in Sockets |-> None]
    /\ rooms = [r \in Rooms |-> None]
    /\ revoked = {} /\ banned = {}
    /\ clients = [s \in Sockets |-> None]
    /\ inbox = [s \in Sockets |-> <<>>]
    /\ known = [k \in Keys |-> {}]
    /\ confused = {}

(***************************************************************************)
(* A connection of device d, which runs one application: an earlier        *)
(* connection may still be in the server's tables, but nobody reads it.    *)
(***************************************************************************)
Connect(s, d) ==
    /\ presence[s] = None
    /\ Authorized(d, revoked, banned)
    /\ \A t \in Sockets : clients[t] # None => presence[t].device # d
    /\ presence' = [presence EXCEPT ![s] = [device |-> d, room |-> None]]
    /\ clients' = [clients EXCEPT ![s] = Idle]
    /\ UNCHANGED <<channels, rooms, revoked, banned, inbox, known, confused>>

\* The client loses the connection; the server does not know yet.
Lose(s) ==
    /\ clients[s] # None
    /\ clients' = [clients EXCEPT ![s] = None]
    /\ inbox' = [inbox EXCEPT ![s] = <<>>]
    /\ UNCHANGED <<channels, presence, rooms, revoked, banned, known, confused>>

(***************************************************************************)
(* The server drops the sockets S: disconnect, for each of them.           *)
(***************************************************************************)
Drop(S, rev, ban) ==
    /\ clients' = [s \in Sockets |-> IF s \in S THEN None ELSE clients[s]]
    /\ Announce([s \in Sockets |-> IF s \in S THEN None ELSE presence[s]],
                UNION {RoomOf(s) : s \in S}, rev, ban,
                [s \in Sockets |-> IF s \in S THEN <<>> ELSE inbox[s]])
    /\ Confuses({})
    /\ UNCHANGED <<channels, known>>

Disconnect(s) == presence[s] # None /\ Drop({s}, revoked, banned)

(***************************************************************************)
(* DELETE /api/media/devices/:deviceId drops the connections of the        *)
(* sessions bound to the device.  (A session that registered another       *)
(* device since its connection was opened is left to the module Accounts.) *)
(***************************************************************************)
RevokeDevice(d) ==
    /\ d \notin revoked
    /\ Drop({s \in Sockets : presence[s] # None /\ presence[s].device = d},
            revoked \cup {d}, banned)

\* An owner is not banned.
Ban(u) ==
    /\ u # Owner
    /\ Drop({s \in Sockets : presence[s] # None /\ UserOf[presence[s].device] = u},
            revoked, banned \cup {u})

Unban(u) ==
    /\ u \in banned
    /\ banned' = banned \ {u}
    /\ UNCHANGED <<channels, presence, rooms, revoked, clients, inbox, known, confused>>

\* DELETE /api/admin/channels/:channelId says nothing to the rooms.
DeleteChannel(r) ==
    /\ r \in channels
    /\ channels' = channels \ {r}
    /\ presence' = [s \in Sockets |-> IF presence[s] # None /\ presence[s].room = r
                                      THEN [presence[s] EXCEPT !.room = None]
                                      ELSE presence[s]]
    /\ UNCHANGED <<rooms, revoked, banned, clients, inbox, known, confused>>

\* The server restarts: every connection and every room is gone.
Restart ==
    /\ presence' = [s \in Sockets |-> None]
    /\ rooms' = [r \in Rooms |-> None]
    /\ clients' = [s \in Sockets |-> None]
    /\ inbox' = [s \in Sockets |-> <<>>]
    /\ confused' = {}
    /\ UNCHANGED <<channels, revoked, banned, known>>

------------------------------------------------------------------------------
(***************************************************************************)
(* joinVoiceDeck and voice:join: begin forgets the room before, and with   *)
(* it the n events that had arrived; those on their way are handled as if  *)
(* they were of the new stay.  They may be of an earlier stay in the same  *)
(* room when the client did not await the answers to what it sent since (a *)
(* double tap on a deck does not, nor does a join after a leave that timed *)
(* out).                                                                   *)
(***************************************************************************)
OfEarlierStay(s, r, n) ==
    presence[s].room # r /\ \E i \in n + 1 .. Len(inbox[s]) : inbox[s][i].room = r

Join(s, r) ==
    /\ clients[s] # None
    /\ r \in channels
    /\ clients' = [clients EXCEPT ![s] = [Idle EXCEPT !.room = r]]
    /\ \E n \in 0..Len(inbox[s]) :
         /\ Announce([presence EXCEPT ![s].room = r], RoomOf(s) \cup {r}, revoked, banned,
                     [inbox EXCEPT ![s] = SubSeq(@, n + 1, Len(@))])
         /\ Confuses(IF OfEarlierStay(s, r, n) THEN {r} ELSE {})
    /\ UNCHANGED <<channels, known>>

\* leaveVoiceDeck and voice:leave, also after a join that failed or timed out.
Leave(s) ==
    /\ clients[s] # None /\ clients[s].room # None
    /\ clients' = [clients EXCEPT ![s] = Idle]
    /\ Announce([presence EXCEPT ![s].room = None], RoomOf(s), revoked, banned, inbox)
    /\ Confuses({})
    /\ UNCHANGED <<channels, known>>

------------------------------------------------------------------------------
(***************************************************************************)
(* The client takes the next event of its queue, when nothing it awaits is *)
(* left of the one before.                                                 *)
(***************************************************************************)
Ready(s) == clients[s] # None /\ inbox[s] # <<>> /\ clients[s].todo = {}

Took(s, c) ==
    /\ clients' = [clients EXCEPT ![s] = c]
    /\ inbox' = [inbox EXCEPT ![s] = Tail(@)]
    /\ UNCHANGED <<channels, presence, rooms, revoked, banned, confused>>

\* catchError of _queueEvent.  Mutant of Failed: it keeps the key.
FailedWithKey(c) == [c EXCEPT !.todo = {}]

Failed(c) == [c EXCEPT !.key = None, !.todo = {}]

\* MediaRoomStateVerifier.verify, and this device is a member.
Valid(c, d, m) ==
    /\ m.room = c.room
    /\ c.view # None => m.epoch >= c.view.epoch /\ m.seq >= c.view.seq
    /\ d \in m.devices

\* A new epoch starts without a key, and its envelopes are numbered anew.
Entered(c, m) ==
    IF c.view # None /\ c.view.epoch = m.epoch THEN [c EXCEPT !.view = m]
    ELSE [c EXCEPT !.view = m, !.key = None, !.out = 0, !.in = 0]

Carried(k) ==
    \/ \E s \in Sockets : clients[s] # None /\ clients[s].key = k
    \/ \E s \in Sockets : \E i \in DOMAIN inbox[s] :
         ~IsState(inbox[s][i]) /\ inbox[s][i].key = k

(***************************************************************************)
(* _applyRoomState.                                                        *)
(***************************************************************************)
ApplyRoomState(s) ==
    LET c == clients[s]
        m == Head(inbox[s])
        d == presence[s].device
        e == Entered(c, m)
    IN  /\ Ready(s) /\ IsState(m) /\ c.room # None
        /\ \/ /\ Valid(c, d, m) /\ d # Least(m.devices)
              /\ Took(s, e)
              /\ UNCHANGED known
           \/ /\ Valid(c, d, m) /\ d = Least(m.devices) /\ e.key # None
              /\ Took(s, [e EXCEPT !.todo = m.devices \ {d}])
              /\ UNCHANGED known
           \/ /\ Valid(c, d, m) /\ d = Least(m.devices) /\ e.key = None
              /\ \E k \in Keys :
                   /\ ~Carried(k)
                   /\ Took(s, [e EXCEPT !.key = k, !.todo = m.devices \ {d}])
                   /\ known' = [known EXCEPT ![k] = {d}]

\* It fails, before or after the state is recorded.
RejectRoomState(s) ==
    LET c == clients[s]
        m == Head(inbox[s])
    IN  /\ Ready(s) /\ IsState(m) /\ c.room # None
        /\ \/ Took(s, Failed(c))
           \/ Valid(c, presence[s].device, m) /\ Took(s, Failed(Entered(c, m)))
        /\ UNCHANGED known

(***************************************************************************)
(* _openEnvelope.                                                          *)
(***************************************************************************)
OpenEnvelope(s) ==
    LET c == clients[s]
        m == Head(inbox[s])
    IN  /\ Ready(s) /\ ~IsState(m) /\ c.view # None
        /\ \/ /\ m.number > c.in /\ m.room = c.view.room /\ m.epoch = c.view.epoch
              /\ m.from = Least(c.view.devices)
              /\ Took(s, [c EXCEPT !.key = m.key, !.in = m.number])
           \/ Took(s, Failed(c))
        /\ UNCHANGED known

\* Nothing began, or no room state came yet.
Ignore(s) ==
    LET c == clients[s]
    IN  /\ Ready(s)
        /\ c.room = None \/ (c.view = None /\ ~IsState(Head(inbox[s])))
        /\ Took(s, c)
        /\ UNCHANGED known

------------------------------------------------------------------------------
(***************************************************************************)
(* media:e2ee:envelope for device t, numbered n, of the epoch and the room *)
(* of the sender's view.                                                   *)
(***************************************************************************)
Relayed(s, t, n) ==
    LET r == clients[s].view.room
        d == presence[s].device
        A == Active(presence, r, revoked, banned)
    IN  /\ presence[s].room = r
        /\ rooms[r] # None /\ rooms[r].epoch = clients[s].view.epoch
        /\ d \in A /\ d = Least(rooms[r].devices)
        /\ t \in A
        /\ n > rooms[r].last[d]

Delivery(s, t, n) ==
    LET r == clients[s].view.room
        d == presence[s].device
        to == SocketFor(presence, r, t)
    IN  /\ rooms' = [rooms EXCEPT ![r].last[d] = n]
        /\ known' = [known EXCEPT ![clients[s].key] = @ \cup {t}]
        /\ inbox' = IF clients[to] = None THEN inbox
                    ELSE [inbox EXCEPT ![to] = Append(@,
                       [room |-> r, epoch |-> clients[s].view.epoch, number |-> n,
                        from |-> d, key |-> clients[s].key])]

(***************************************************************************)
(* _sendCurrentKeyToMembers: the next recipient.                           *)
(***************************************************************************)
Send(s) ==
    LET c == clients[s]
        t == Least(c.todo)
        n == c.out + 1
    IN  /\ c # None /\ c.todo # {}
        /\ \/ /\ Relayed(s, t, n) /\ Delivery(s, t, n)
              /\ \/ clients' = [clients EXCEPT ![s] =
                                  [c EXCEPT !.out = n, !.todo = @ \ {t}]]
                 \/ clients' = [clients EXCEPT ![s] = Failed([c EXCEPT !.out = n])]
           \/ /\ clients' = [clients EXCEPT ![s] = Failed([c EXCEPT !.out = n])]
              /\ UNCHANGED <<rooms, known, inbox>>
        /\ Bounds'
        /\ UNCHANGED <<channels, presence, revoked, banned, confused>>

------------------------------------------------------------------------------
OfSocket(s) ==
    \/ \E d \in Devices : Connect(s, d)
    \/ Lose(s)
    \/ Disconnect(s)
    \/ \E r \in Rooms : Join(s, r)
    \/ Leave(s)
    \/ ApplyRoomState(s)
    \/ RejectRoomState(s)
    \/ OpenEnvelope(s)
    \/ Ignore(s)
    \/ Send(s)

Next ==
    \/ \E s \in Sockets : OfSocket(s)
    \/ \E d \in Devices : RevokeDevice(d)
    \/ \E u \in Users : Ban(u) \/ Unban(u)
    \/ \E r \in Rooms : DeleteChannel(r)
    \/ Restart

Spec == Init /\ [][Next]_vars

------------------------------------------------------------------------------
(***************************************************************************)
(* The type invariant.                                                     *)
(***************************************************************************)
TypeOK ==
    /\ channels \subseteq Rooms
    /\ presence \in [Sockets -> Presence \cup {None}]
    /\ rooms \in [Rooms -> RoomStates \cup {None}]
    /\ revoked \subseteq Devices /\ banned \subseteq Users
    /\ clients \in [Sockets -> Clients \cup {None}]
    /\ inbox \in [Sockets -> Seq(StateEvents \cup Envelopes)]
    /\ known \in [Keys -> SUBSET Devices]
    /\ confused \subseteq Rooms

(***************************************************************************)
(* "Only currently authorized devices in the voice deck possess the room   *)
(* key" (MEDIA_E2EE.md): when a client in a room has seen the room's last  *)
(* state, the key it encrypts with was handed to no device but the room's  *)
(* members: whoever left, was banned, or lost its connection, has only     *)
(* keys that nobody uses.  The exception is a room that somebody joined    *)
(* with events of an earlier stay there on their way, which may name an    *)
(* epoch that the room has begun again since; it ends when everybody has   *)
(* left the room.                                                          *)
(***************************************************************************)
Current(s) ==
    /\ clients[s] # None /\ clients[s].room # None /\ presence[s].room = clients[s].room
    /\ clients[s].view # None
    /\ rooms[clients[s].room] # None
    /\ clients[s].view = StateEvent(clients[s].room, rooms[clients[s].room])
    /\ \A i \in DOMAIN inbox[s] : ~IsState(inbox[s][i])

KeysStayInRoom ==
    \A s \in Sockets :
        Current(s) /\ clients[s].key # None /\ clients[s].room \notin confused =>
            known[clients[s].key] \subseteq rooms[clients[s].room].devices

(***************************************************************************)
(* The members of a room hear each other: when the leader holds a key, has *)
(* delivered it, and a member that holds a key has handled its events, the *)
(* two are the same, also after failed, repeated and overlapping           *)
(* deliveries; with the same exception.                                    *)
(***************************************************************************)
HoldersAgree ==
    \A s, t \in Sockets :
        /\ Current(s) /\ Current(t) /\ clients[s].room = clients[t].room
        /\ clients[s].room \notin confused
        /\ clients[s].key # None /\ clients[s].todo = {}
        /\ presence[s].device = Least(clients[s].view.devices)
        /\ clients[t].key # None /\ inbox[t] = <<>>
        => clients[s].key = clients[t].key
=============================================================================

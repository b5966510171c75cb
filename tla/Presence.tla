------------------------------ MODULE Presence ------------------------------
(***************************************************************************)
(* What every client is told of who is connected and who is in which voice *)
(* deck: socketPresence in server/src/server.js, its handlers, and the     *)
(* member list and deck activity made from it (emitPresence).              *)
(*                                                                         *)
(* presence is a function of the sockets that are connected; they are      *)
(* numbered in the order of their connection, which is the order of the    *)
(* Map.  A media state is the set of the flags that are on.                *)
(***************************************************************************)
EXTENDS Integers, FiniteSets

CONSTANTS Flags, None

First(S) == CHOOSE s \in S : \A t \in S : s <= t

------------------------------------------------------------------------------
(***************************************************************************)
(* The handlers: connection, voice:join, voice:leave, voice:state and      *)
(* disconnect of a socket; the deletion of a channel; the end of a user's  *)
(* sessions.                                                               *)
(***************************************************************************)
Connected(presence, s, user) ==
    [t \in DOMAIN presence \cup {s} |->
        IF t = s THEN [user |-> user, room |-> None, joined |-> None, media |-> {}]
        ELSE presence[t]]

Joined(presence, s, room, now) ==
    [presence EXCEPT
        ![s].room = room,
        ![s].joined = IF presence[s].room = room /\ @ # None THEN @ ELSE now]

Left(presence, s) == [presence EXCEPT ![s].room = None, ![s].joined = None]

\* mergeVoiceMediaState: a patch is a function of the flags it gives.
Merged(media, patch) ==
    {f \in Flags : IF f \in DOMAIN patch THEN patch[f] ELSE f \in media}

Switched(presence, s, patch) == [presence EXCEPT ![s].media = Merged(@, patch)]

\* voiceMediaStateChanged: only then the others are told.
IsTold(presence, s, patch) == Merged(presence[s].media, patch) # presence[s].media

Without(presence, gone) == [s \in DOMAIN presence \ gone |-> presence[s]]

Disconnected(presence, s) == Without(presence, {s})

ChannelDeleted(presence, room) ==
    [s \in DOMAIN presence |->
        IF presence[s].room = room
        THEN [presence[s] EXCEPT !.room = None, !.joined = None, !.media = {}]
        ELSE presence[s]]

------------------------------------------------------------------------------
(***************************************************************************)
(* A member of the server: where it is shown, and with which flags.        *)
(***************************************************************************)
SocketsOf(presence, user) == {s \in DOMAIN presence : presence[s].user = user}

InVoice(presence, user) == {s \in SocketsOf(presence, user) : presence[s].room # None}

UserDisconnected(presence, user) == Without(presence, SocketsOf(presence, user))

\* getVoicePresenceForUser: what joined first, of equals what connected first
VoicePresence(presence, user) ==
    LET S == InVoice(presence, user)
        earliest == {s \in S : \A t \in S : presence[s].joined <= presence[t].joined} IN
    IF S = {} THEN None ELSE First(earliest)

\* getVoiceMediaStateForUser: of what connected first, those in a deck before others
MediaState(presence, user) ==
    IF InVoice(presence, user) # {} THEN presence[First(InVoice(presence, user))].media
    ELSE IF SocketsOf(presence, user) # {}
    THEN presence[First(SocketsOf(presence, user))].media ELSE {}

\* getMemberList: users have a YUID or None, bans name a user, a YUID or both.
Listed(users, bans) ==
    {u \in DOMAIN users :
        \A ban \in bans : ban.user # u /\ (users[u] = None \/ ban.yuid # users[u])}

Member(presence, user) ==
    LET s == VoicePresence(presence, user) IN
    [online |-> SocketsOf(presence, user) # {},
     room |-> IF s = None THEN None ELSE presence[s].room,
     joined |-> IF s = None THEN None ELSE presence[s].joined,
     media |-> MediaState(presence, user)]

MemberList(presence, users, bans) ==
    [u \in Listed(users, bans) |-> Member(presence, u)]

\* getVoiceDeckActivity, getVoiceState
DeckActivity(presence, room) ==
    LET S == {s \in DOMAIN presence : presence[s].room = room} IN
    [occupancy |-> Cardinality(S),
     since |-> IF S = {} THEN None ELSE First({presence[s].joined : s \in S})]
=============================================================================

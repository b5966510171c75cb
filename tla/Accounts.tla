------------------------------ MODULE Accounts ------------------------------
(***************************************************************************)
(* Accounts, identities (YUIDs), devices, sessions, bans and the realtime  *)
(* sockets of server/src/server.js and server/src/auth.js.                 *)
(*                                                                         *)
(* A handler is one atomic step, except POST /api/auth/session, which      *)
(* awaits bcrypt: BeginLogin runs up to the first await, and FinishRegister*)
(* or FinishCompare (and FinishRehash) what follows, with the role and the *)
(* row of the user read before.  An exception thrown after an await is an  *)
(* unhandled rejection and ends the process; what it keeps in memory (the  *)
(* challenges, the sockets, the running handlers) is lost.                 *)
(*                                                                         *)
(* A username stands for its normalised form and for the user id: users    *)
(* are never deleted.  A YUID stands for itself and for its public key, of *)
(* which it is the digest.  What only refuses a request (rate limits, the  *)
(* back-off after wrong passwords, the form of the fields, a media key     *)
(* bound to another device id) may happen at any time and changes nothing. *)
(***************************************************************************)
CONSTANTS
    Names,          \* usernames
    Yuids,          \* identities
    Devices,        \* media device ids
    Sessions,       \* session ids, each used once; bounds the number of logins
    Nonces,         \* challenges; bounds the logins that run at a time
    Legacy,         \* the account of a database older than YUIDs
    None            \* SQL NULL, or no entry

ASSUME LegacyAssumption == Legacy \in Names

VARIABLES
    users,          \* users
    devices,        \* media_devices
    sessions,       \* sessions
    lapsed,         \* the session ids that a lookup refused and deleted
    ended,          \* the session ids deleted for another reason
    bans,           \* the rows of bans with revoked_at NULL
    challenges,     \* yuidChallenges
    logins,         \* the running handlers of POST /api/auth/session, by challenge
    sockets         \* the connected sockets, with what io.use attached

vars == <<users, devices, sessions, lapsed, ended, bans, challenges,
          logins, sockets>>

------------------------------------------------------------------------------
Users == [role : {"owner", "member"}, yuid : Yuids \cup {None}, weak : BOOLEAN]

DeviceRows == [user : Names, by : Yuids, revoked : BOOLEAN]

SessionRows == [user : Names, device : Devices]

Bans == [user : Names, yuid : Yuids \cup {None}]

(***************************************************************************)
(* A running login: the step that follows its await, what it presented,    *)
(* and what it read: the role for a new user ("member" where it has no   *)
(* meaning), or the YUID and the cost of the hash of the user it found.    *)
(***************************************************************************)
Logins == [step : {"register", "compare", "rehash"}, name : Names, yuid : Yuids,
           role : {"owner", "member"}, bound : Yuids \cup {None}, weak : BOOLEAN]

SocketsOf == [session : Sessions, user : Names, device : Devices]

ASSUME NoneAssumption ==
    None \notin Names \cup Yuids \cup Users \cup DeviceRows \cup SessionRows \cup Logins

Known == {n \in Names : users[n] # None}

HasYuid(n, y) == users[n] # None /\ users[n].yuid = y

YuidBanned(y) == \E b \in bans : b.yuid # None /\ b.yuid = y

BannedByName(n) == \E b \in bans : b.user = n

Banned(n) == BannedByName(n) \/ (users[n].yuid # None /\ YuidBanned(users[n].yuid))

SessionsOfUser(n) == {s \in Sessions : sessions[s] # None /\ sessions[s].user = n}

SessionsOnDevice(d) == {s \in Sessions : sessions[s] # None /\ sessions[s].device = d}

SocketsOfUser(n) == {k \in sockets : k.user = n}

SocketsOn(S) == {k \in sockets : k.session \in S}

(***************************************************************************)
(* DELETE FROM sessions: the rows S.                                       *)
(***************************************************************************)
EndSessions(S) ==
    /\ sessions' = [s \in Sessions |-> IF s \in S THEN None ELSE sessions[s]]
    /\ ended' = ended \cup S

(***************************************************************************)
(* authRequired and io.use: the session is there, its account not banned,  *)
(* its device not revoked.                                                 *)
(***************************************************************************)
Authenticated(s) ==
    /\ sessions[s] # None
    /\ ~Banned(sessions[s].user)
    /\ ~devices[sessions[s].device].revoked

IsOwner(s) == users[sessions[s].user].role = "owner"

------------------------------------------------------------------------------
LegacyUsers ==
    [n \in Names |-> IF n = Legacy THEN [role |-> "owner", yuid |-> None, weak |-> TRUE]
                                   ELSE None]

Init ==
    /\ users \in {[n \in Names |-> None], LegacyUsers}
    /\ devices = [d \in Devices |-> None]
    /\ sessions = [s \in Sessions |-> None]
    /\ lapsed = {} /\ ended = {}
    /\ bans = {}
    /\ challenges = {}
    /\ logins = [c \in Nonces |-> None]
    /\ sockets = {}

(***************************************************************************)
(* GET /api/auth/yuid/challenge.                                           *)
(***************************************************************************)
IssueChallenge(c) ==
    /\ c \notin challenges /\ logins[c] = None
    /\ challenges' = challenges \cup {c}
    /\ UNCHANGED <<users, devices, sessions, lapsed, ended, bans, logins, sockets>>

(***************************************************************************)
(* A challenge expires, or a request consumes it and is then refused.      *)
(***************************************************************************)
LoseChallenge(c) ==
    /\ c \in challenges
    /\ challenges' = challenges \ {c}
    /\ UNCHANGED <<users, devices, sessions, lapsed, ended, bans, logins, sockets>>

(***************************************************************************)
(* verifyYuidProof and verifyMediaDeviceProof: the request was signed, for *)
(* a challenge that is outstanding and is consumed by it.                  *)
(***************************************************************************)
Proven(c) == c \in challenges

Consumed(c) == challenges \ {c}

------------------------------------------------------------------------------
(***************************************************************************)
(* POST /api/auth/session, up to its first await.                          *)
(***************************************************************************)
RoleOfNext == IF Known = {} THEN "owner" ELSE "member"

\* The user is new: the role is settled, then bcrypt.hash is awaited.
BeginRegister(c, n, y) ==
    /\ Proven(c)
    /\ ~YuidBanned(y)
    /\ users[n] = None
    /\ \A m \in Names : ~HasYuid(m, y)
    /\ challenges' = Consumed(c)
    /\ logins' = [logins EXCEPT ![c] =
         [step |-> "register", name |-> n, yuid |-> y, role |-> RoleOfNext,
          bound |-> None, weak |-> FALSE]]
    /\ UNCHANGED <<users, devices, sessions, lapsed, ended, bans, sockets>>

\* The ban that the login of a known user meets: of the user, or of its YUID
\* or, before it has one, of the presented one, which was looked up before.
BeginCompare(c, n, y) ==
    /\ Proven(c)
    /\ ~YuidBanned(y)
    /\ users[n] # None
    /\ ~Banned(n)
    /\ challenges' = Consumed(c)
    /\ logins' = [logins EXCEPT ![c] =
         [step |-> "compare", name |-> n, yuid |-> y, role |-> "member",
          bound |-> users[n].yuid, weak |-> users[n].weak]]
    /\ UNCHANGED <<users, devices, sessions, lapsed, ended, bans, sockets>>

\* A login of a banned account ends its sessions and its sockets.
LoginOfBanned(c, n, y) ==
    /\ Proven(c)
    /\ ~YuidBanned(y)
    /\ users[n] # None
    /\ Banned(n)
    /\ challenges' = Consumed(c)
    /\ EndSessions(SessionsOfUser(n))
    /\ sockets' = sockets \ SocketsOfUser(n)
    /\ UNCHANGED <<users, devices, lapsed, bans, logins>>

(***************************************************************************)
(* registerMediaDevice, and the session that follows it.  The device is    *)
(* one the request named; nothing depends on it before.                    *)
(***************************************************************************)
\* Mutant of Registrable: the account a device belongs to is not compared.
RegistrableForeign(d, n) == devices[d] # None => ~devices[d].revoked

Registrable(d, n) ==
    devices[d] # None => devices[d].user = n /\ ~devices[d].revoked

\* Mutant of Registered: the authorisation is not stored.
RegisteredWithout(d, n, y) ==
    [devices EXCEPT ![d] = [user |-> n, by |-> None, revoked |-> FALSE]]

Registered(d, n, y) == [devices EXCEPT ![d] = [user |-> n, by |-> y, revoked |-> FALSE]]

Fresh(s) == sessions[s] = None /\ s \notin lapsed \cup ended

OpenSession(n, y) ==
    \/ \E d \in Devices, s \in Sessions :
         /\ Registrable(d, n)
         /\ Fresh(s)
         /\ devices' = Registered(d, n, y)
         /\ sessions' = [sessions EXCEPT ![s] = [user |-> n, device |-> d]]
    \/ /\ \E x \in Devices : devices[x] # None     \* also a media key already bound
       /\ UNCHANGED <<sessions, devices>>

(***************************************************************************)
(* The process ends and starts again.                                      *)
(***************************************************************************)
Restart ==
    /\ challenges' = {}
    /\ logins' = [c \in Nonces |-> None]
    /\ sockets' = {}
    /\ UNCHANGED <<users, devices, sessions, lapsed, ended, bans>>

(***************************************************************************)
(* After bcrypt.hash: createUserWithRole, whose INSERT fails when the name *)
(* or the YUID was taken in between; nothing catches that.                 *)
(***************************************************************************)
Insertable(l) == users[l.name] = None /\ \A m \in Names : ~HasYuid(m, l.yuid)

FinishRegister(c) ==
    LET l == logins[c]
    IN  /\ l # None /\ l.step = "register"
        /\ IF Insertable(l)
           THEN /\ users' = [users EXCEPT ![l.name] =
                     [role |-> l.role, yuid |-> l.yuid, weak |-> FALSE]]
                /\ OpenSession(l.name, l.yuid)
                /\ logins' = [logins EXCEPT ![c] = None]
                /\ UNCHANGED <<lapsed, ended, bans, challenges, sockets>>
           ELSE Restart

(***************************************************************************)
(* The rest of a login whose password matched: the YUID is bound again     *)
(* when it is not the one the user had before the await; it may belong to  *)
(* another user.                                                           *)
(***************************************************************************)
\* Mutant of Bindable: the owner of the YUID is not looked up.
BindableAlways(n, y) == TRUE

Bindable(n, y) == \A m \in Names \ {n} : ~HasYuid(m, y)

Bound(l, weak) ==
    [users EXCEPT ![l.name].yuid = IF l.bound = l.yuid THEN @ ELSE l.yuid,
                  ![l.name].weak = weak]

FinishLogin(c, l, weak) ==
    /\ logins' = [logins EXCEPT ![c] = None]
    /\ \/ /\ l.bound = l.yuid \/ Bindable(l.name, l.yuid)
          /\ users' = Bound(l, weak)
          /\ OpenSession(l.name, l.yuid)
       \/ /\ l.bound # l.yuid /\ ~Bindable(l.name, l.yuid)
          /\ users' = [users EXCEPT ![l.name].weak = weak]
          /\ UNCHANGED <<sessions, devices>>
    /\ UNCHANGED <<lapsed, ended, bans, challenges, sockets>>

FinishCompare(c) ==
    LET l == logins[c]
    IN  /\ l # None /\ l.step = "compare"
        /\ \/ ~l.weak /\ FinishLogin(c, l, users[l.name].weak)
           \/ /\ l.weak
              /\ logins' = [logins EXCEPT ![c].step = "rehash"]
              /\ UNCHANGED <<users, devices, sessions, lapsed, ended, bans,
                             challenges, sockets>>

FinishRehash(c) ==
    LET l == logins[c]
    IN  /\ l # None /\ l.step = "rehash"
        /\ FinishLogin(c, l, FALSE)

\* The password is wrong.
RefuseLogin(c) ==
    /\ logins[c] # None /\ logins[c].step = "compare"
    /\ logins' = [logins EXCEPT ![c] = None]
    /\ UNCHANGED <<users, devices, sessions, lapsed, ended, bans, challenges, sockets>>

------------------------------------------------------------------------------
(***************************************************************************)
(* The lookup of a session whose expires_at or idle_expires_at has passed  *)
(* deletes it.  Until it is looked up, an overdue session is one that is   *)
(* not used (and the ping of a socket may renew its idle deadline), so no  *)
(* state says whether a session is overdue.  A ban or a revoked device     *)
(* found by authRequired or io.use also ends the session.                  *)
(***************************************************************************)
LookupRefused(s) ==
    /\ sessions' = [sessions EXCEPT ![s] = None]
    /\ lapsed' = lapsed \cup {s}
    /\ UNCHANGED <<users, devices, ended, bans, challenges, logins, sockets>>

Expire(s) == sessions[s] # None /\ LookupRefused(s)

RefuseBanned(s) ==
    /\ sessions[s] # None
    /\ Banned(sessions[s].user) \/ devices[sessions[s].device].revoked
    /\ LookupRefused(s)

(***************************************************************************)
(* POST /api/media/devices/register on an existing session.                *)
(***************************************************************************)
RegisterDevice(s, c, d) ==
    LET n == sessions[s].user
    IN  /\ Authenticated(s) /\ Proven(c)
        /\ users[n].yuid # None
        /\ challenges' = Consumed(c)
        /\ Registrable(d, n)
        /\ devices' = Registered(d, n, users[n].yuid)
        /\ sessions' = [sessions EXCEPT ![s].device = d]
        /\ UNCHANGED <<users, lapsed, ended, bans, logins, sockets>>

(***************************************************************************)
(* DELETE /api/media/devices/:deviceId by its account or by an owner.      *)
(***************************************************************************)
RevokeDevice(s, d) ==
    /\ Authenticated(s)
    /\ devices[d] # None /\ ~devices[d].revoked
    /\ devices[d].user = sessions[s].user \/ IsOwner(s)
    /\ devices' = [devices EXCEPT ![d].revoked = TRUE]
    /\ EndSessions(SessionsOnDevice(d))
    /\ sockets' = sockets \ SocketsOn(SessionsOnDevice(d))
    /\ UNCHANGED <<users, lapsed, bans, challenges, logins>>

(***************************************************************************)
(* POST /api/auth/logout and DELETE /api/auth/sessions/:sessionId.         *)
(***************************************************************************)
\* Mutant of Dropped: the sockets of a deleted session stay.
DroppedNone(x) == sockets

Dropped(x) == sockets \ SocketsOn({x})

DeleteSession(s, x) ==
    /\ Authenticated(s)
    /\ x \in SessionsOfUser(sessions[s].user)
    /\ EndSessions({x})
    /\ sockets' = Dropped(x)
    /\ UNCHANGED <<users, devices, lapsed, bans, challenges, logins>>

(***************************************************************************)
(* POST /api/auth/session/rotate: the row gets another token.              *)
(***************************************************************************)
Rotate(s) ==
    /\ Authenticated(s)
    /\ sockets' = Dropped(s)
    /\ UNCHANGED <<users, devices, sessions, lapsed, ended, bans, challenges, logins>>

------------------------------------------------------------------------------
(***************************************************************************)
(* The realtime connection; its user and device stay as the handshake      *)
(* found them.                                                             *)
(***************************************************************************)
Connect(s) ==
    /\ Authenticated(s)
    /\ sockets' = sockets \cup
         {[session |-> s, user |-> sessions[s].user, device |-> sessions[s].device]}
    /\ UNCHANGED <<users, devices, sessions, lapsed, ended, bans, challenges, logins>>

Disconnect(k) ==
    /\ sockets' = sockets \ {k}
    /\ UNCHANGED <<users, devices, sessions, lapsed, ended, bans, challenges, logins>>

(***************************************************************************)
(* POST /api/admin/bans and DELETE /api/admin/bans/:banId.                 *)
(***************************************************************************)
\* Mutant of Silenced: the realtime connections of the account stay.
SilencedNone(n) == sockets

Silenced(n) == sockets \ SocketsOfUser(n)

Ban(s, n) ==
    /\ Authenticated(s) /\ IsOwner(s)
    /\ n # sessions[s].user
    /\ users[n] # None /\ users[n].role # "owner"
    /\ bans' = IF Banned(n) THEN bans ELSE bans \cup {[user |-> n, yuid |-> users[n].yuid]}
    /\ EndSessions(SessionsOfUser(n))
    /\ sockets' = Silenced(n)
    /\ UNCHANGED <<users, devices, lapsed, challenges, logins>>

Unban(s, b) ==
    /\ Authenticated(s) /\ IsOwner(s)
    /\ bans' = bans \ {b}
    /\ UNCHANGED <<users, devices, sessions, lapsed, ended, challenges, logins, sockets>>

------------------------------------------------------------------------------
Login(c) ==
    \/ \E n \in Names, y \in Yuids :
         BeginRegister(c, n, y) \/ BeginCompare(c, n, y) \/ LoginOfBanned(c, n, y)
    \/ FinishRegister(c)
    \/ FinishCompare(c)
    \/ FinishRehash(c)
    \/ RefuseLogin(c)

OfSession(s) ==
    \/ Expire(s)
    \/ RefuseBanned(s)
    \/ \E c \in Nonces, d \in Devices : RegisterDevice(s, c, d)
    \/ \E d \in Devices : RevokeDevice(s, d)
    \/ \E x \in Sessions : DeleteSession(s, x)
    \/ Rotate(s)
    \/ Connect(s)
    \/ \E n \in Names : Ban(s, n)
    \/ \E b \in bans : Unban(s, b)

Next ==
    \/ \E c \in Nonces : IssueChallenge(c) \/ LoseChallenge(c) \/ Login(c)
    \/ \E s \in Sessions : OfSession(s)
    \/ \E k \in sockets : Disconnect(k)
    \/ Restart

Spec == Init /\ [][Next]_vars

------------------------------------------------------------------------------
(***************************************************************************)
(* The type invariant.                                                     *)
(***************************************************************************)
TypeOK ==
    /\ users \in [Names -> Users \cup {None}]
    /\ devices \in [Devices -> DeviceRows \cup {None}]
    /\ sessions \in [Sessions -> SessionRows \cup {None}]
    /\ lapsed \subseteq Sessions /\ ended \subseteq Sessions
    /\ bans \subseteq Bans
    /\ challenges \subseteq Nonces
    /\ logins \in [Nonces -> Logins \cup {None}]
    /\ sockets \subseteq SocketsOf

(***************************************************************************)
(* Logout, rotation, revocation and bans disconnect the sockets that the   *)
(* session opened (SECURITY_PLAN.md: "logout, rotation, or revocation      *)
(* disconnects sockets authenticated by the affected session"): while a    *)
(* socket is connected, the row of its session is there, or a lookup found *)
(* it expired, or its account banned through a YUID it got by a login that *)
(* overlapped the ban, and deleted it: these leave the sockets.            *)
(***************************************************************************)
SocketsHaveSessions ==
    \A k \in sockets :
        \/ sessions[k.session] # None /\ sessions[k.session].user = k.user
        \/ k.session \in lapsed

(***************************************************************************)
(* From the ban of an account on, until it is lifted, no socket of the     *)
(* account is connected, whichever logins were running at the time.        *)
(***************************************************************************)
BannedAreOffline == \A k \in sockets : ~BannedByName(k.user)

(***************************************************************************)
(* No session is on a revoked device, although a login may have been       *)
(* waiting for bcrypt while its device was revoked.                        *)
(***************************************************************************)
SessionsOnLiveDevices ==
    \A s \in Sessions :
        sessions[s] # None =>
            /\ devices[sessions[s].device] # None
            /\ devices[sessions[s].device].user = sessions[s].user
            /\ ~devices[sessions[s].device].revoked

(***************************************************************************)
(* A YUID belongs to one account, although registrations and logins that   *)
(* bind it look it up before or after their await.                         *)
(***************************************************************************)
OneAccountPerIdentity ==
    \A n, m \in Known : users[n].yuid # None /\ users[n].yuid = users[m].yuid => n = m
=============================================================================

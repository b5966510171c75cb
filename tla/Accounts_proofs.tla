-------------------------- MODULE Accounts_proofs --------------------------
(***************************************************************************)
(* Proofs about accounts.  The invariants need what a running login and a  *)
(* session have in common: the account they name exists.                   *)
(***************************************************************************)
EXTENDS Accounts, TLAPS

SessionsKnown == \A s \in Sessions : sessions[s] # None => users[sessions[s].user] # None

LoginsKnown ==
    \A c \in Nonces :
        logins[c] # None /\ logins[c].step # "register" => users[logins[c].name] # None

LapsedGone == \A s \in lapsed : sessions[s] = None

IInv ==
    /\ TypeOK
    /\ LapsedGone
    /\ SessionsKnown
    /\ LoginsKnown
    /\ SocketsHaveSessions
    /\ BannedAreOffline
    /\ SessionsOnLiveDevices
    /\ OneAccountPerIdentity

------------------------------------------------------------------------------
LEMMA InitInv == Init => IInv
<1> SUFFICES ASSUME Init PROVE IInv
  OBVIOUS
<1> USE DEF Init
<1>1. TypeOK
  <2>1. LegacyUsers \in [Names -> Users \cup {None}]
    BY DEF LegacyUsers, Users
  <2> QED
    BY <2>1 DEF TypeOK
<1>2. LapsedGone /\ SessionsKnown /\ LoginsKnown /\ SocketsHaveSessions
  BY DEF LapsedGone, SessionsKnown, LoginsKnown, SocketsHaveSessions
<1>3. BannedAreOffline /\ SessionsOnLiveDevices
  BY DEF BannedAreOffline, SessionsOnLiveDevices
<1>4. OneAccountPerIdentity
  BY NoneAssumption DEF OneAccountPerIdentity, Known, LegacyUsers
<1> QED
  BY <1>1, <1>2, <1>3, <1>4 DEF IInv

(***************************************************************************)
(* Deleting sessions, and dropping the sockets among those of them, keeps  *)
(* the invariants.                                                         *)
(***************************************************************************)
LEMMA Endings ==
    ASSUME IInv, NEW S \in SUBSET Sessions, EndSessions(S),
           sockets' \subseteq sockets, \A k \in sockets' : k.session \notin S,
           UNCHANGED <<users, logins>>, bans' \subseteq Bans,
           challenges' \subseteq Nonces, lapsed' = lapsed,
           devices' \in [Devices -> DeviceRows \cup {None}],
           \A k \in sockets' : \A b \in bans' : b.user # k.user,
           \A s \in Sessions \ S :
               sessions[s] # None => devices'[sessions[s].device] = devices[sessions[s].device]
    PROVE  IInv'
<1> USE DEF IInv, EndSessions
<1>1. TypeOK'
  BY DEF TypeOK
<1>2. LapsedGone' /\ SessionsKnown' /\ LoginsKnown'
  BY DEF LapsedGone, SessionsKnown, LoginsKnown, TypeOK
<1>3. SocketsHaveSessions'
  BY DEF SocketsHaveSessions, TypeOK, SocketsOf
<1>4. BannedAreOffline'
  BY DEF BannedAreOffline, BannedByName
<1>5. SessionsOnLiveDevices'
  BY DEF SessionsOnLiveDevices, TypeOK
<1>6. OneAccountPerIdentity'
  BY DEF OneAccountPerIdentity, Known
<1> QED
  BY <1>1, <1>2, <1>3, <1>4, <1>5, <1>6

(***************************************************************************)
(* Steps that open, end or change no session and add no socket.            *)
(***************************************************************************)
LEMMA Quiet ==
    ASSUME IInv, UNCHANGED <<users, devices, sessions, lapsed, ended>>,
           bans' \subseteq bans, challenges' \subseteq Nonces, sockets' \subseteq sockets,
           logins' \in [Nonces -> Logins \cup {None}],
           \A c \in Nonces :
               logins'[c] # None /\ logins'[c].step # "register" => users[logins'[c].name] # None
    PROVE  IInv'
<1> USE DEF IInv
<1>1. TypeOK'
  BY DEF TypeOK
<1>2. LapsedGone' /\ SessionsKnown' /\ LoginsKnown'
  BY DEF LapsedGone, SessionsKnown, LoginsKnown
<1>3. SocketsHaveSessions' /\ BannedAreOffline'
  BY DEF SocketsHaveSessions, BannedAreOffline, BannedByName
<1>4. SessionsOnLiveDevices' /\ OneAccountPerIdentity'
  BY DEF SessionsOnLiveDevices, OneAccountPerIdentity, Known
<1> QED
  BY <1>1, <1>2, <1>3, <1>4

(***************************************************************************)
(* The device and the session at the end of a login or a registration.     *)
(***************************************************************************)
LEMMA Opening ==
    ASSUME IInv, NEW n \in Names, NEW y \in Yuids, OpenSession(n, y),
           users' \in [Names -> Users \cup {None}], users'[n] # None,
           \A m \in Names : users[m] # None => users'[m] # None,
           UNCHANGED <<lapsed, ended, bans, sockets>>
    PROVE  /\ devices' \in [Devices -> DeviceRows \cup {None}]
           /\ sessions' \in [Sessions -> SessionRows \cup {None}]
           /\ LapsedGone' /\ SessionsKnown' /\ SocketsHaveSessions' /\ BannedAreOffline'
           /\ SessionsOnLiveDevices'
<1> USE DEF IInv
<1>1. CASE UNCHANGED <<sessions, devices>>
  BY <1>1 DEF TypeOK, LapsedGone, SessionsKnown, SocketsHaveSessions, BannedAreOffline,
              BannedByName, SessionsOnLiveDevices, SessionRows
<1>2. ASSUME NEW d \in Devices, NEW s \in Sessions,
             Registrable(d, n), Fresh(s), devices' = Registered(d, n, y),
             sessions' = [sessions EXCEPT ![s] = [user |-> n, device |-> d]]
      PROVE  /\ devices' \in [Devices -> DeviceRows \cup {None}]
             /\ sessions' \in [Sessions -> SessionRows \cup {None}]
             /\ LapsedGone' /\ SessionsKnown' /\ SocketsHaveSessions' /\ BannedAreOffline'
             /\ SessionsOnLiveDevices'
  <2>0. /\ sessions[s] = None /\ s \notin lapsed
        /\ sessions'[s] = [user |-> n, device |-> d] /\ sessions'[s] # None
        /\ \A t \in Sessions \ {s} : sessions'[t] = sessions[t]
    BY <1>2, NoneAssumption DEF TypeOK, Fresh, SessionRows
  <2>1. devices' \in [Devices -> DeviceRows \cup {None}]
    BY <1>2 DEF TypeOK, Registered, DeviceRows
  <2>2. sessions' \in [Sessions -> SessionRows \cup {None}]
    BY <1>2 DEF TypeOK, SessionRows
  <2>3. LapsedGone' /\ SessionsKnown'
    BY <2>0 DEF LapsedGone, SessionsKnown, TypeOK, SessionRows
  <2>4. SocketsHaveSessions' /\ BannedAreOffline'
    BY <2>0 DEF SocketsHaveSessions, BannedAreOffline, BannedByName, TypeOK, SocketsOf
  <2>5. SessionsOnLiveDevices'
    <3>1. /\ devices'[d] = [user |-> n, by |-> y, revoked |-> FALSE] /\ devices'[d] # None
          /\ \A e \in Devices \ {d} : devices'[e] = devices[e]
      <4>1. [user |-> n, by |-> y, revoked |-> FALSE] \in DeviceRows
        BY DEF DeviceRows
      <4>2. [user |-> n, by |-> y, revoked |-> FALSE] # None
        BY <4>1, NoneAssumption
      <4> QED
        BY <1>2, <4>2 DEF TypeOK, Registered
    <3>2. \A t \in Sessions : sessions[t] # None /\ sessions[t].device = d => sessions[t].user = n
      BY <1>2 DEF Registrable, SessionsOnLiveDevices
    <3> QED
      BY <2>0, <3>1, <3>2 DEF SessionsOnLiveDevices, TypeOK, SessionRows
  <2> QED
    BY <2>1, <2>2, <2>3, <2>4, <2>5
<1> QED
  BY <1>1, <1>2 DEF OpenSession

------------------------------------------------------------------------------
(***************************************************************************)
(* A new account.                                                          *)
(***************************************************************************)
LEMMA Registration ==
    ASSUME IInv, NEW c \in Nonces, FinishRegister(c), Insertable(logins[c])
    PROVE  IInv'
<1> DEFINE l == logins[c]
<1> USE DEF IInv
<1>1. /\ l \in Logins /\ l # None
      /\ users' = [users EXCEPT ![l.name] = [role |-> l.role, yuid |-> l.yuid, weak |-> FALSE]]
      /\ OpenSession(l.name, l.yuid)
      /\ logins' = [logins EXCEPT ![c] = None]
      /\ UNCHANGED <<lapsed, ended, bans, challenges, sockets>>
  BY DEF FinishRegister, TypeOK
<1>2. /\ l.name \in Names /\ l.yuid \in Yuids /\ l.role \in {"owner", "member"}
      /\ l.yuid # None
  BY <1>1, NoneAssumption DEF Logins
<1>3. [role |-> l.role, yuid |-> l.yuid, weak |-> FALSE] \in Users
  BY <1>2 DEF Users
<1>4. [role |-> l.role, yuid |-> l.yuid, weak |-> FALSE] # None
  BY <1>3, NoneAssumption
<1>5. /\ users' \in [Names -> Users \cup {None}]
      /\ users'[l.name] # None /\ users'[l.name].yuid = l.yuid
      /\ \A m \in Names \ {l.name} : users'[m] = users[m]
  BY <1>1, <1>2, <1>3, <1>4 DEF TypeOK
<1>6. /\ devices' \in [Devices -> DeviceRows \cup {None}]
      /\ sessions' \in [Sessions -> SessionRows \cup {None}]
      /\ LapsedGone' /\ SessionsKnown' /\ SocketsHaveSessions' /\ BannedAreOffline'
      /\ SessionsOnLiveDevices'
  BY <1>1, <1>2, <1>5, Opening
<1>7. TypeOK'
  BY <1>1, <1>5, <1>6 DEF TypeOK
<1>8. LoginsKnown'
  <2> SUFFICES ASSUME NEW e \in Nonces, logins'[e] # None, logins'[e].step # "register"
               PROVE  users'[logins'[e].name] # None
    BY DEF LoginsKnown
  <2>1. logins'[e] = logins[e] /\ logins[e] \in Logins
    BY <1>1 DEF TypeOK
  <2> QED
    BY <2>1, <1>5 DEF LoginsKnown, Logins
<1>9. OneAccountPerIdentity'
  BY <1>5 DEF OneAccountPerIdentity, Known, Insertable, HasYuid
<1> QED
  BY <1>6, <1>7, <1>8, <1>9

(***************************************************************************)
(* The end of a login with the right password.                             *)
(***************************************************************************)
LEMMA Finishing ==
    ASSUME IInv, NEW c \in Nonces, logins[c] # None, logins[c].step # "register",
           NEW weak \in BOOLEAN, FinishLogin(c, logins[c], weak)
    PROVE  IInv'
<1> DEFINE l == logins[c]
<1> USE DEF IInv
<1>1. l \in Logins
  BY DEF TypeOK
<1>2. /\ l.name \in Names /\ l.yuid \in Yuids /\ l.yuid # None
      /\ users[l.name] # None /\ users[l.name] \in Users
  BY <1>1, NoneAssumption DEF Logins, LoginsKnown, TypeOK
<1>3. /\ logins' = [logins EXCEPT ![c] = None]
      /\ UNCHANGED <<lapsed, ended, bans, challenges, sockets>>
  BY DEF FinishLogin
<1>4. ASSUME users' \in [Names -> Users \cup {None}],
             \A m \in Names : users[m] # None => users'[m] # None
      PROVE  LoginsKnown'
  <2> SUFFICES ASSUME NEW e \in Nonces, logins'[e] # None, logins'[e].step # "register"
               PROVE  users'[logins'[e].name] # None
    BY DEF LoginsKnown
  <2>1. logins'[e] = logins[e] /\ logins[e] \in Logins
    BY <1>3 DEF TypeOK
  <2> QED
    BY <2>1, <1>4 DEF LoginsKnown, Logins
<1>5. CASE /\ l.bound = l.yuid \/ Bindable(l.name, l.yuid)
           /\ users' = Bound(l, weak)
           /\ OpenSession(l.name, l.yuid)
  <2>1. PICK u \in Users : /\ users' = [users EXCEPT ![l.name] = u]
                           /\ u.yuid = IF l.bound = l.yuid THEN users[l.name].yuid ELSE l.yuid
    <3> DEFINE u == [users[l.name] EXCEPT
                       !.yuid = IF l.bound = l.yuid THEN @ ELSE l.yuid, !.weak = weak]
    <3>1. u \in Users
      BY <1>2 DEF Users
    <3>2. u.yuid = IF l.bound = l.yuid THEN users[l.name].yuid ELSE l.yuid
      BY <1>2 DEF Users
    <3>3. users' = [users EXCEPT ![l.name] = u]
      BY <1>2, <1>5 DEF Bound, Users, TypeOK
    <3> QED
      BY <3>1, <3>2, <3>3
  <2>2. u # None
    BY NoneAssumption
  <2>3. /\ users' \in [Names -> Users \cup {None}]
        /\ users'[l.name] = u
        /\ \A m \in Names \ {l.name} : users'[m] = users[m]
        /\ \A m \in Names : users[m] # None => users'[m] # None
    BY <1>2, <2>1, <2>2 DEF TypeOK
  <2>4. /\ devices' \in [Devices -> DeviceRows \cup {None}]
        /\ sessions' \in [Sessions -> SessionRows \cup {None}]
        /\ LapsedGone' /\ SessionsKnown' /\ SocketsHaveSessions' /\ BannedAreOffline'
        /\ SessionsOnLiveDevices'
    BY <1>2, <1>3, <1>5, <2>2, <2>3, Opening
  <2>5. TypeOK'
    BY <1>3, <2>3, <2>4 DEF TypeOK
  <2>6. OneAccountPerIdentity'
    BY <1>2, <1>5, <2>1, <2>3 DEF OneAccountPerIdentity, Known, Bindable, HasYuid
  <2> QED
    BY <1>4, <2>3, <2>4, <2>5, <2>6
<1>6. CASE /\ users' = [users EXCEPT ![l.name].weak = weak]
           /\ UNCHANGED <<sessions, devices>>
  <2>1. PICK u \in Users : /\ users' = [users EXCEPT ![l.name] = u]
                           /\ u.yuid = users[l.name].yuid
    <3> DEFINE u == [users[l.name] EXCEPT !.weak = weak]
    <3>1. u \in Users /\ u.yuid = users[l.name].yuid
      BY <1>2 DEF Users
    <3> QED
      BY <1>6, <3>1
  <2>2. u # None
    BY NoneAssumption
  <2>3. /\ users' \in [Names -> Users \cup {None}]
        /\ users'[l.name] = u
        /\ \A m \in Names \ {l.name} : users'[m] = users[m]
        /\ \A m \in Names : users[m] # None => users'[m] # None
    BY <1>2, <2>1, <2>2 DEF TypeOK
  <2>4. TypeOK'
    BY <1>3, <1>6, <2>3 DEF TypeOK
  <2>5. /\ LapsedGone' /\ SessionsKnown' /\ SocketsHaveSessions'
        /\ BannedAreOffline' /\ SessionsOnLiveDevices'
    BY <1>3, <1>6, <2>3 DEF LapsedGone, SessionsKnown, SocketsHaveSessions, BannedAreOffline,
       BannedByName, SessionsOnLiveDevices, TypeOK, SessionRows
  <2>6. OneAccountPerIdentity'
    BY <1>2, <2>1, <2>3 DEF OneAccountPerIdentity, Known
  <2> QED
    BY <1>4, <2>3, <2>4, <2>5, <2>6
<1> QED
  BY <1>5, <1>6 DEF FinishLogin

------------------------------------------------------------------------------
LEMMA Ends ==
    ASSUME IInv, NEW S \in SUBSET Sessions, EndSessions(S),
           sockets' \subseteq sockets, \A k \in sockets' : k.session \notin S,
           UNCHANGED <<users, devices, bans, logins>>, challenges' \subseteq Nonces,
           lapsed' = lapsed
    PROVE  IInv'
<1>1. /\ devices' \in [Devices -> DeviceRows \cup {None}] /\ bans' \subseteq Bans
      /\ \A k \in sockets' : \A b \in bans' : b.user # k.user
  BY DEF IInv, TypeOK, BannedAreOffline, BannedByName
<1> QED
  BY <1>1, Endings

(***************************************************************************)
(* The sessions of an account and of a device go with their sockets.       *)
(***************************************************************************)
LEMMA SocketsOfSessions ==
    ASSUME IInv, NEW k \in sockets, k.session \in Sessions, sessions[k.session] # None
    PROVE  sessions[k.session].user = k.user
BY DEF IInv, SocketsHaveSessions, LapsedGone

LEMMA StepInv == IInv /\ [Next]_vars => IInv'
<1> SUFFICES ASSUME IInv, [Next]_vars PROVE IInv'
  OBVIOUS
<1> USE DEF IInv, Consumed
<1>1. ASSUME NEW c \in Nonces, IssueChallenge(c) \/ LoseChallenge(c) PROVE IInv'
  BY <1>1, Quiet DEF IssueChallenge, LoseChallenge, TypeOK, LoginsKnown
<1>2. ASSUME NEW c \in Nonces, NEW n \in Names, NEW y \in Yuids,
             BeginRegister(c, n, y) \/ BeginCompare(c, n, y)
      PROVE  IInv'
  <2>1. PICK l \in Logins : /\ logins' = [logins EXCEPT ![c] = l]
                            /\ l.step # "register" => users[l.name] # None
    <3>1. CASE BeginRegister(c, n, y)
      <4>1. [step |-> "register", name |-> n, yuid |-> y, role |-> RoleOfNext,
             bound |-> None, weak |-> FALSE] \in Logins
        BY DEF Logins, RoleOfNext
      <4> QED
        BY <3>1, <4>1 DEF BeginRegister
    <3>2. CASE BeginCompare(c, n, y)
      <4>1. users[n] \in Users
        BY <3>2 DEF BeginCompare, TypeOK
      <4>2. [step |-> "compare", name |-> n, yuid |-> y, role |-> "member",
             bound |-> users[n].yuid, weak |-> users[n].weak] \in Logins
        BY <4>1 DEF Logins, Users
      <4> QED
        BY <3>2, <4>2 DEF BeginCompare
    <3> QED
      BY <1>2, <3>1, <3>2
  <2>2. /\ UNCHANGED <<users, devices, sessions, lapsed, ended, bans, sockets>>
        /\ challenges' \subseteq Nonces
    BY <1>2 DEF BeginRegister, BeginCompare, TypeOK
  <2>3. logins' \in [Nonces -> Logins \cup {None}]
    BY <2>1 DEF TypeOK
  <2>4. \A e \in Nonces : logins'[e] # None /\ logins'[e].step # "register" =>
                              users[logins'[e].name] # None
    BY <2>1 DEF TypeOK, LoginsKnown
  <2> QED
    BY <2>2, <2>3, <2>4, Quiet
<1>3. ASSUME NEW c \in Nonces, NEW n \in Names, NEW y \in Yuids, LoginOfBanned(c, n, y)
      PROVE  IInv'
  <2>1. \A k \in sockets' : k.session \notin SessionsOfUser(n)
    BY <1>3, SocketsOfSessions DEF LoginOfBanned, SocketsOfUser, SessionsOfUser
  <2> QED
    BY <1>3, <2>1, Ends DEF LoginOfBanned, SessionsOfUser, TypeOK
<1>4. ASSUME NEW c \in Nonces, FinishRegister(c) PROVE IInv'
  <2>1. CASE Insertable(logins[c])
    BY <1>4, <2>1, Registration
  <2>2. CASE ~Insertable(logins[c])
    BY <1>4, <2>2, Quiet DEF FinishRegister, Restart
  <2> QED
    BY <2>1, <2>2
<1>5. ASSUME NEW c \in Nonces, FinishCompare(c) PROVE IInv'
  <2>0. logins[c] # None /\ logins[c].step = "compare" /\ logins[c] \in Logins
    BY <1>5 DEF FinishCompare, TypeOK
  <2>1. CASE FinishLogin(c, logins[c], users[logins[c].name].weak)
    <3>1. users[logins[c].name].weak \in BOOLEAN
      BY <2>0 DEF LoginsKnown, TypeOK, Logins, Users
    <3> QED
      BY <2>0, <2>1, <3>1, Finishing
  <2>2. CASE /\ logins' = [logins EXCEPT ![c].step = "rehash"]
             /\ UNCHANGED <<users, devices, sessions, lapsed, ended, bans, challenges, sockets>>
    <3>1. [logins[c] EXCEPT !.step = "rehash"] \in Logins
      BY <2>0 DEF Logins
    <3>2. [logins[c] EXCEPT !.step = "rehash"].name = logins[c].name
      BY <2>0 DEF Logins
    <3>3. logins' \in [Nonces -> Logins \cup {None}]
      BY <2>2, <3>1 DEF TypeOK
    <3>4. \A e \in Nonces : logins'[e] # None /\ logins'[e].step # "register" =>
                                users[logins'[e].name] # None
      BY <2>0, <2>2, <3>2 DEF TypeOK, LoginsKnown
    <3> QED
      BY <2>2, <3>3, <3>4, Quiet DEF TypeOK
  <2> QED
    BY <1>5, <2>1, <2>2 DEF FinishCompare
<1>6. ASSUME NEW c \in Nonces, FinishRehash(c) PROVE IInv'
  BY <1>6, Finishing DEF FinishRehash
<1>7. ASSUME NEW c \in Nonces, RefuseLogin(c) PROVE IInv'
  BY <1>7, Quiet DEF RefuseLogin, TypeOK, LoginsKnown
<1>8. ASSUME NEW s \in Sessions, Expire(s) \/ RefuseBanned(s) PROVE IInv'
  <2>1. LookupRefused(s)
    BY <1>8 DEF Expire, RefuseBanned
  <2>2. TypeOK'
    BY <2>1 DEF LookupRefused, TypeOK
  <2>3. LapsedGone' /\ SessionsKnown' /\ LoginsKnown'
    BY <2>1 DEF LookupRefused, LapsedGone, SessionsKnown, LoginsKnown, TypeOK
  <2>4. SocketsHaveSessions' /\ BannedAreOffline'
    BY <2>1 DEF LookupRefused, SocketsHaveSessions, BannedAreOffline, BannedByName, TypeOK
  <2>5. SessionsOnLiveDevices' /\ OneAccountPerIdentity'
    BY <2>1 DEF LookupRefused, SessionsOnLiveDevices, OneAccountPerIdentity, Known, TypeOK
  <2> QED
    BY <2>2, <2>3, <2>4, <2>5
<1>9. ASSUME NEW s \in Sessions, NEW c \in Nonces, NEW d \in Devices, RegisterDevice(s, c, d)
      PROVE  IInv'
  <2> DEFINE n == sessions[s].user
  <2>1. /\ sessions[s] # None /\ n \in Names /\ users[n].yuid \in Yuids
        /\ Registrable(d, n) /\ devices' = Registered(d, n, users[n].yuid)
        /\ sessions' = [sessions EXCEPT ![s].device = d]
        /\ challenges' \subseteq Nonces
        /\ UNCHANGED <<users, lapsed, ended, bans, logins, sockets>>
    BY <1>9 DEF RegisterDevice, Authenticated, TypeOK, SessionRows, SessionsKnown, Users
  <2>2. [user |-> n, by |-> users[n].yuid, revoked |-> FALSE] \in DeviceRows
    BY <2>1 DEF DeviceRows
  <2>3. [user |-> n, by |-> users[n].yuid, revoked |-> FALSE] # None
    BY <2>2, NoneAssumption
  <2>4. /\ devices' \in [Devices -> DeviceRows \cup {None}]
        /\ devices'[d] = [user |-> n, by |-> users[n].yuid, revoked |-> FALSE]
        /\ devices'[d] # None
        /\ \A e \in Devices \ {d} : devices'[e] = devices[e]
    BY <2>1, <2>2, <2>3 DEF TypeOK, Registered
  <2>5. [user |-> n, device |-> d] \in SessionRows
    BY <2>1 DEF SessionRows
  <2>6. [user |-> n, device |-> d] # None
    BY <2>5, NoneAssumption
  <2>7. /\ sessions' \in [Sessions -> SessionRows \cup {None}]
        /\ sessions'[s] = [user |-> n, device |-> d] /\ sessions'[s] # None
        /\ \A t \in Sessions \ {s} : sessions'[t] = sessions[t]
    BY <2>1, <2>5, <2>6 DEF TypeOK, SessionRows
  <2>8. TypeOK'
    BY <2>1, <2>4, <2>7 DEF TypeOK
  <2>9. LapsedGone' /\ SessionsKnown' /\ LoginsKnown' /\ SocketsHaveSessions' /\ BannedAreOffline'
    <3>1. sessions'[s].user = n /\ users[n] # None /\ s \notin lapsed
      BY <2>1, <2>7 DEF SessionsKnown, LapsedGone
    <3>2. LapsedGone'
      BY <2>1, <2>7, <3>1 DEF LapsedGone, TypeOK
    <3>3. SessionsKnown'
      BY <2>1, <2>7, <3>1 DEF SessionsKnown
    <3>4. SocketsHaveSessions'
      BY <2>1, <2>7, <3>1 DEF SocketsHaveSessions, TypeOK, SocketsOf
    <3>5. LoginsKnown' /\ BannedAreOffline'
      BY <2>1 DEF LoginsKnown, BannedAreOffline, BannedByName
    <3> QED
      BY <3>2, <3>3, <3>4, <3>5
  <2>10. SessionsOnLiveDevices'
    <3>1. \A t \in Sessions : sessions[t] # None /\ sessions[t].device = d => sessions[t].user = n
      BY <2>1 DEF Registrable, SessionsOnLiveDevices
    <3> QED
      BY <2>4, <2>7, <3>1 DEF SessionsOnLiveDevices, TypeOK, SessionRows
  <2>11. OneAccountPerIdentity'
    BY <2>1 DEF OneAccountPerIdentity, Known
  <2> QED
    BY <2>8, <2>9, <2>10, <2>11
<1>10. ASSUME NEW s \in Sessions, NEW d \in Devices, RevokeDevice(s, d) PROVE IInv'
  <2>1. devices' \in [Devices -> DeviceRows \cup {None}]
    <3>1. [devices[d] EXCEPT !.revoked = TRUE] \in DeviceRows
      BY <1>10 DEF RevokeDevice, TypeOK, DeviceRows
    <3> QED
      BY <1>10, <3>1 DEF RevokeDevice, TypeOK
  <2>2. \A t \in Sessions \ SessionsOnDevice(d) :
           sessions[t] # None => devices'[sessions[t].device] = devices[sessions[t].device]
    BY <1>10 DEF RevokeDevice, SessionsOnDevice, TypeOK, SessionRows
  <2>3. \A k \in sockets' : k.session \notin SessionsOnDevice(d)
    BY <1>10 DEF RevokeDevice, SocketsOn
  <2>4. /\ sockets' \subseteq sockets /\ EndSessions(SessionsOnDevice(d))
        /\ UNCHANGED <<users, lapsed, bans, challenges, logins>>
        /\ SessionsOnDevice(d) \in SUBSET Sessions
    BY <1>10 DEF RevokeDevice, SessionsOnDevice
  <2>5. /\ bans' \subseteq Bans /\ challenges' \subseteq Nonces
        /\ \A k \in sockets' : \A b \in bans' : b.user # k.user
    BY <2>4 DEF TypeOK, BannedAreOffline, BannedByName
  <2> QED
    BY <2>1, <2>2, <2>3, <2>4, <2>5, Endings
<1>11. ASSUME NEW s \in Sessions, NEW x \in Sessions, DeleteSession(s, x) PROVE IInv'
  <2>1. \A k \in sockets' : k.session \notin {x}
    BY <1>11 DEF DeleteSession, Dropped, SocketsOn
  <2> QED
    BY <1>11, <2>1, Ends DEF DeleteSession, Dropped, TypeOK
<1>12. ASSUME NEW s \in Sessions, Rotate(s) PROVE IInv'
  BY <1>12, Quiet DEF Rotate, Dropped, TypeOK, LoginsKnown
<1>13. ASSUME NEW s \in Sessions, Connect(s) PROVE IInv'
  <2> DEFINE k == [session |-> s, user |-> sessions[s].user, device |-> sessions[s].device]
  <2>1. /\ sessions[s] # None /\ ~BannedByName(sessions[s].user)
        /\ sockets' = sockets \cup {k}
        /\ UNCHANGED <<users, devices, sessions, lapsed, ended, bans, challenges, logins>>
    BY <1>13 DEF Connect, Authenticated, Banned
  <2>2. k \in SocketsOf
    BY <2>1 DEF SocketsOf, TypeOK, SessionRows
  <2>3. TypeOK'
    BY <2>1, <2>2 DEF TypeOK
  <2>4. SocketsHaveSessions' /\ BannedAreOffline'
    BY <2>1 DEF SocketsHaveSessions, BannedAreOffline, BannedByName
  <2>5. /\ LapsedGone' /\ SessionsKnown' /\ LoginsKnown'
        /\ SessionsOnLiveDevices' /\ OneAccountPerIdentity'
    BY <2>1 DEF LapsedGone, SessionsKnown, LoginsKnown, SessionsOnLiveDevices, OneAccountPerIdentity, Known
  <2> QED
    BY <2>3, <2>4, <2>5
<1>14. ASSUME NEW s \in Sessions, NEW n \in Names, Ban(s, n) PROVE IInv'
  <2>1. /\ EndSessions(SessionsOfUser(n)) /\ sockets' = sockets \ SocketsOfUser(n)
        /\ UNCHANGED <<users, devices, lapsed, challenges, logins>>
        /\ users[n] \in Users
    BY <1>14 DEF Ban, Silenced, TypeOK
  <2>2. bans' \subseteq bans \cup {[user |-> n, yuid |-> users[n].yuid]}
    BY <1>14 DEF Ban
  <2>3. [user |-> n, yuid |-> users[n].yuid] \in Bans
    BY <2>1 DEF Bans, Users
  <2>4. \A k \in sockets' : \A b \in bans' : b.user # k.user
    BY <2>1, <2>2 DEF SocketsOfUser, BannedAreOffline, BannedByName
  <2>5. \A k \in sockets' : k.session \notin SessionsOfUser(n)
    BY <2>1, SocketsOfSessions DEF SocketsOfUser, SessionsOfUser
  <2>6. /\ SessionsOfUser(n) \in SUBSET Sessions /\ sockets' \subseteq sockets
        /\ devices' \in [Devices -> DeviceRows \cup {None}]
        /\ bans' \subseteq Bans /\ challenges' \subseteq Nonces
    BY <2>1, <2>2, <2>3 DEF SessionsOfUser, TypeOK
  <2> QED
    BY <2>1, <2>4, <2>5, <2>6, Endings
<1>15. ASSUME NEW s \in Sessions, NEW b \in bans, Unban(s, b) PROVE IInv'
  BY <1>15, Quiet DEF Unban, TypeOK, LoginsKnown
<1>16. ASSUME NEW k \in sockets, Disconnect(k) PROVE IInv'
  BY <1>16, Quiet DEF Disconnect, TypeOK, LoginsKnown
<1>17. CASE Restart
  BY <1>17, Quiet DEF Restart
<1>18. CASE UNCHANGED vars
  BY <1>18, Quiet DEF vars, TypeOK, LoginsKnown
<1> QED
  BY <1>1, <1>2, <1>3, <1>4, <1>5, <1>6, <1>7, <1>8, <1>9, <1>10, <1>11, <1>12, <1>13,
     <1>14, <1>15, <1>16, <1>17, <1>18 DEF Next, Login, OfSession

------------------------------------------------------------------------------
LEMMA Invariance == Spec => []IInv
BY InitInv, StepInv, PTL DEF Spec

(***************************************************************************)
(* Rows, running logins and sockets have their types.                      *)
(***************************************************************************)
THEOREM AccountsTyped == Spec => []TypeOK
BY Invariance, PTL DEF IInv

(***************************************************************************)
(* A connected socket's session is there unless a lookup refused it: the   *)
(* handlers that end sessions miss no socket.                              *)
(***************************************************************************)
THEOREM SocketsEndWithSessions == Spec => []SocketsHaveSessions
BY Invariance, PTL DEF IInv

(***************************************************************************)
(* A banned account has no socket, whichever logins overlap the ban.       *)
(***************************************************************************)
THEOREM BansDisconnect == Spec => []BannedAreOffline
BY Invariance, PTL DEF IInv

(***************************************************************************)
(* No session is bound to a revoked device or to another account's.        *)
(***************************************************************************)
THEOREM RevokedHaveNoSession == Spec => []SessionsOnLiveDevices
BY Invariance, PTL DEF IInv

(***************************************************************************)
(* No YUID is bound to two accounts.                                       *)
(***************************************************************************)
THEOREM IdentitiesAreExclusive == Spec => []OneAccountPerIdentity
BY Invariance, PTL DEF IInv
=============================================================================

------------------------------ MODULE Database ------------------------------
(***************************************************************************)
(* How server/src/db.js opens a database that this or an earlier version   *)
(* of the server left (createDb), and what the server does to it before it *)
(* serves (migrateStoredYuids).  All of createDb that writes is one        *)
(* transaction: a failed or interrupted start leaves the database as it    *)
(* was, a second start begins anew, so it is a function of the database.   *)
(*                                                                         *)
(* A table that lacks a column has Absent in it, in every row; a column    *)
(* that is NULL, or empty, is None.  Of a row, only what the migration     *)
(* reads or writes is here.                                                *)
(***************************************************************************)
EXTENDS Naturals

CONSTANTS
    Version,         \* CURRENT_SCHEMA_VERSION
    Ids,             \* AUTOINCREMENT ids
    Names,           \* lower(username)
    PublicKeys, Yuids, YuidOf,    \* buildYuidFromPublicKey
    Devices, Signers,
    Seeds,           \* the channels of a new server
    Absent, None

Distinctions ==
    /\ Ids \subseteq Nat /\ Version \in Nat \ {0}
    /\ YuidOf \in [PublicKeys -> Yuids]
    /\ Absent # None
    /\ \A missing \in {Absent, None} :
         /\ missing \notin Ids /\ missing \notin Nat
         /\ missing \notin Names /\ missing \notin PublicKeys /\ missing \notin Yuids
         /\ missing \notin Devices /\ missing \notin Signers
         /\ missing \notin {"set", "member", "owner", "legacy", "e2ee"}

Missing == {Absent, None}

------------------------------------------------------------------------------
(***************************************************************************)
(* The rows of a table, by id, and the databases that any version leaves.  *)
(***************************************************************************)
Rows(S) == UNION {[D -> S] : D \in SUBSET Ids}

Users == [name : Names, key : Names \cup Missing, role : {"member", "owner", Absent},
          yuid : Yuids \cup Missing, publicKey : PublicKeys \cup Missing]
SessionRow == [expires : {"set"} \cup Missing, idle : {"set"} \cup Missing,
             device : {"set"} \cup Missing]
Channels == [mode : {"legacy", "e2ee", Absent}]
Packages == [device : Devices, signer : Signers \cup Missing,
             binding : {"set"} \cup Missing]
Messages == [by : Devices, operation : Ids \cup Missing]

Databases ==
    [version : Nat, users : Rows(Users), sessions : Rows(SessionRow),
     channels : Rows(Channels), packages : SUBSET Packages,
     credentials : SUBSET (Devices \X Signers), messages : Rows(Messages),
     retention : Nat \cup {Absent}, expiring : SUBSET Ids,
     owner : Ids \cup Missing]

SomeSeeds ==
    Seeds \in Rows(Channels) /\ DOMAIN Seeds # {}
    /\ \A c \in DOMAIN Seeds : Seeds[c].mode = "legacy"

------------------------------------------------------------------------------
(***************************************************************************)
(* runMigrations: columns that are missing, and their values where a row   *)
(* has none.                                                               *)
(***************************************************************************)
Added(value, default) == IF value = Absent THEN default ELSE value
Filled(value, default) == IF value \in Missing THEN default ELSE value

MigratedUsers(users) ==
    [u \in DOMAIN users |->
        [name |-> users[u].name,
         key |-> Filled(users[u].key, users[u].name),
         role |-> Added(users[u].role, "member"),
         yuid |-> Added(users[u].yuid, None),
         publicKey |-> Added(users[u].publicKey, None)]]

\* 30 days from its start, 7 days from its last use
MigratedSessions(sessions) ==
    [s \in DOMAIN sessions |->
        [expires |-> Filled(sessions[s].expires, "set"),
         idle |-> Filled(sessions[s].idle, "set"),
         device |-> Filled(sessions[s].device, "set")]]

MigratedChannels(channels) ==
    [c \in DOMAIN channels |-> [mode |-> Added(channels[c].mode, "legacy")]]

MigratedMessages(messages) ==
    [m \in DOMAIN messages |->
        [by |-> messages[m].by, operation |-> Added(messages[m].operation, None)]]

MigratedPackages(packages) ==
    {[device |-> p.device, signer |-> Added(p.signer, None),
      binding |-> Added(p.binding, None)] : p \in packages}

Bound(packages) ==
    {<<p.device, p.signer>> :
        p \in {q \in packages : q.signer \notin Missing /\ q.binding \notin Missing}}

Migrated(db) ==
    [db EXCEPT !.users = MigratedUsers(@),
               !.sessions = MigratedSessions(@),
               !.channels = MigratedChannels(@),
               !.messages = MigratedMessages(@),
               !.packages = MigratedPackages(@),
               !.credentials = @ \cup Bound(db.packages),
               !.retention = IF @ = Absent THEN Absent ELSE 0,
               !.expiring = {}]

\* The unique indexes, partial ones of what is not NULL.
UniqueIn(rows, field) ==
    \A i, j \in DOMAIN rows :
        rows[i][field] = rows[j][field] => i = j \/ rows[i][field] = None

UniqueIndexes(db) ==
    /\ UniqueIn(db.users, "key")
    /\ UniqueIn(db.users, "yuid") /\ UniqueIn(db.users, "publicKey")
    /\ \A i, j \in DOMAIN db.messages :
         db.messages[i] = db.messages[j] => i = j \/ db.messages[i].operation = None

------------------------------------------------------------------------------
(***************************************************************************)
(* ensureServerConfig, ensureServerSettings, seedDefaultChannels and       *)
(* ensureOwnerAssigned                                                     *)
(***************************************************************************)
Configured(db) ==
    [db EXCEPT !.owner = Added(@, None),
               !.retention = Added(@, 0),
               !.channels = IF DOMAIN @ = {} THEN Seeds ELSE @]

First(users) == CHOOSE u \in DOMAIN users : \A v \in DOMAIN users : u <= v

WithOwner(db) ==
    IF db.owner # None \/ DOMAIN db.users = {} THEN db
    ELSE [db EXCEPT !.owner = First(db.users),
                    !.users[First(db.users)].role = "owner"]

Newer(db) == db.version > Version

Opens(db) ==
    /\ ~Newer(db)
    /\ db.version < Version => UniqueIndexes(Migrated(db))

Opened(db) ==
    WithOwner(Configured(
        IF db.version < Version
        THEN [Migrated(db) EXCEPT !.version = Version] ELSE db))

(***************************************************************************)
(* migrateStoredYuids: an identity follows from its public key.  And the   *)
(* users that a ban keeps out, by their account or by their identity.      *)
(***************************************************************************)
Canonical(users) ==
    [u \in DOMAIN users |->
        IF users[u].publicKey \in Missing THEN users[u]
        ELSE [users[u] EXCEPT !.yuid = YuidOf[users[u].publicKey]]]

Banned(bans, users) ==
    {u \in DOMAIN users : \E ban \in bans :
        ban.user = u \/ (ban.yuid # None /\ ban.yuid = users[u].yuid)}

------------------------------------------------------------------------------
(***************************************************************************)
(* What the handlers of this version rely on.                              *)
(***************************************************************************)
UsersCurrent(users) ==
    /\ \A u \in DOMAIN users :
         users[u].key \in Names /\ Absent \notin {users[u].role, users[u].yuid,
                                                  users[u].publicKey}
    /\ UniqueIn(users, "key")
    /\ UniqueIn(users, "yuid") /\ UniqueIn(users, "publicKey")

OthersCurrent(db) ==
    /\ \A s \in DOMAIN db.sessions : \A f \in {"expires", "idle", "device"} :
         db.sessions[s][f] \notin Missing
    /\ DOMAIN db.channels # {}
    /\ \A c \in DOMAIN db.channels : db.channels[c].mode # Absent
    /\ Bound(db.packages) \subseteq db.credentials
    /\ db.retention # Absent /\ db.owner # Absent
    /\ DOMAIN db.users # {} => db.owner # None

IsCurrent(db) == db.version = Version /\ UsersCurrent(db.users) /\ OthersCurrent(db)

\* The accounts, sessions, channels and owner of one database are in another.
Preserves(before, after) ==
    /\ DOMAIN after.users = DOMAIN before.users
    /\ \A u \in DOMAIN before.users :
         /\ after.users[u].name = before.users[u].name
         /\ \A f \in {"key", "yuid", "publicKey"} :
              before.users[u][f] \notin Missing => after.users[u][f] = before.users[u][f]
    /\ DOMAIN after.sessions = DOMAIN before.sessions
    /\ \A c \in DOMAIN before.channels :
         /\ c \in DOMAIN after.channels
         /\ before.channels[c].mode = "e2ee" => after.channels[c].mode = "e2ee"
    /\ before.credentials \subseteq after.credentials
    /\ before.owner \notin Missing => after.owner = before.owner
=============================================================================

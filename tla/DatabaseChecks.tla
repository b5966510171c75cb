--------------------------- MODULE DatabaseChecks ---------------------------
(***************************************************************************)
(* The functions of Database on small databases of earlier versions, of    *)
(* this one and of a later one.                                            *)
(***************************************************************************)
LOCAL INSTANCE Naturals
LOCAL INSTANCE TLC

CONSTANTS Absent, Null    \* no column, and a column that is NULL

LOCAL Seeds == <<[mode |-> "legacy"]>>
LOCAL D == INSTANCE Database WITH
    Version <- 2, Ids <- 1 .. 2, Names <- {"a", "b"}, PublicKeys <- {"k", "l"},
    Yuids <- {"y", "z", "old"}, YuidOf <- "k" :> "y" @@ "l" :> "z",
    Devices <- {"d"}, Signers <- {"s", "t"}, None <- Null

(* What Database takes for granted of its constants.                      *)
ASSUME ConstantsHold == D!Distinctions /\ D!SomeSeeds

LOCAL Empty ==
    [version |-> 0, users |-> <<>>, sessions |-> <<>>, channels |-> <<>>,
     packages |-> {}, credentials |-> {}, messages |-> <<>>,
     retention |-> Absent, expiring |-> {}, owner |-> Absent]

LOCAL UserRows ==
    {r \in [name : {"a", "b"}, key : {"a", "b", Null, Absent}, role : {"member"},
            yuid : {"y", "old", Null}, publicKey : {"k", Null}] :
        r.key \in {r.name, Null, Absent}}

LOCAL Starts == [version : 0 .. 3, owner : {Absent, Null, 1}]

LOCAL WithUsers ==
    {[Empty EXCEPT !.users = users, !.owner = start.owner, !.version = start.version] :
        users \in D!Rows(UserRows), start \in Starts}

LOCAL WithSessions ==
    {[Empty EXCEPT !.sessions = sessions, !.channels = channels] :
        sessions \in D!Rows([expires : {"set", Null, Absent}, idle : {"set", Absent},
                             device : {Absent}]),
        channels \in {<<>>, <<[mode |-> Absent]>>, <<[mode |-> "e2ee"]>>}}

LOCAL WithMessages ==
    {[Empty EXCEPT !.packages = packages, !.messages = messages,
                   !.retention = 30, !.expiring = {1}] :
        packages \in SUBSET [device : {"d"}, signer : {"s", Null, Absent},
                             binding : {"set", Null}],
        messages \in D!Rows([by : {"d"}, operation : {1, Null, Absent}])}

LOCAL Reached == WithUsers \cup WithSessions \cup WithMessages

(* A database of an earlier version opens unless two accounts collide, or  *)
(* two uploads; then all that the handlers rely on is there, and nothing   *)
(* is lost.                                                                *)
ASSUME EarlierVersionsOpen ==
    \A db \in Reached :
        IF db.version < 2 /\ D!Opens(db)
        THEN /\ D!IsCurrent(D!Opened(db))
             /\ D!Opened(db).expiring = {} /\ D!Opened(db).retention = 0
             /\ D!Preserves(db, D!Opened(db))
        ELSE \/ db.version >= 2
             \/ \E i, j \in DOMAIN db.users : i # j /\
                  \/ db.users[i].name = db.users[j].name
                  \/ db.users[i].yuid = db.users[j].yuid
                  \/ db.users[i].publicKey = db.users[j].publicKey
             \/ \E i, j \in DOMAIN db.messages :
                  i # j /\ db.messages[i] = db.messages[j]

(* The next start of the server changes nothing, and an earlier server     *)
(* refuses the database.                                                   *)
ASSUME RestartIsQuiet ==
    \A db \in Reached :
        db.version < 2 /\ D!Opens(db) =>
            /\ D!Opens(D!Opened(db)) /\ D!Opened(D!Opened(db)) = D!Opened(db)
            /\ ~D!Opens([D!Opened(db) EXCEPT !.version = 3])

(* Identities that are written in a new form do not lift a ban: it names   *)
(* the account as well.                                                    *)
ASSUME BansSurvive ==
    \A db \in {x \in WithUsers : x.version = 0 /\ x.owner = Absent /\ D!Opens(x)} :
        LET users == D!Opened(db).users IN
        \A u \in DOMAIN users :
            LET ban == [user |-> u, yuid |-> users[u].yuid] IN
            u \in D!Banned({ban}, D!Canonical(users))
=============================================================================

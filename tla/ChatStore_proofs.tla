--------------------------- MODULE ChatStore_proofs ---------------------------
(***************************************************************************)
(* What holds of channels, messages and attachments for any number of      *)
(* them, and of users and uploads; and, at the end, what the handlers that *)
(* administer the channels, the storage and the server keep.               *)
(***************************************************************************)
EXTENDS ChatStore, TLAPS

USE NoneAssumption

(***************************************************************************)
(* The inductive invariant: how far a request is and what there is of it,  *)
(* and what a handler that is not through has still to do.                 *)
(***************************************************************************)
RequestsStored ==
    \A u \in Uploads : uploads[u] # None =>
        /\ uploads[u].id = None <=> uploads[u].content = None
        /\ uploads[u].at \in {"stored", "hashing"} => u \in files
        /\ uploads[u].at = "hashing" =>
             uploads[u].id # None /\ channels[uploads[u].channel] \in {"e2ee", "deleted"}

RowsKept ==
    \A u \in Uploads : rows[u] # None =>
        /\ u \in files
        /\ uploads[u] # None /\ uploads[u].at = "kept" /\ uploads[u].id = None
        /\ rows[u].channel = uploads[u].channel /\ rows[u].by = uploads[u].by

EncryptedKept ==
    \A i \in Ids : encrypted[i] # None =>
        LET u == encrypted[i].file IN
        /\ u \in files
        /\ uploads[u] # None /\ uploads[u].at = "kept" /\ uploads[u].id = i
        /\ uploads[u].content = encrypted[i].content
        /\ channels[encrypted[i].channel] = "e2ee"

KeptRecorded ==
    \A u \in Uploads : uploads[u] # None /\ uploads[u].at = "kept" =>
        IF uploads[u].id = None
        THEN channels[uploads[u].channel] = "deleted" \/ rows[u] # None
        ELSE /\ encrypted[uploads[u].id] # None
             /\ encrypted[uploads[u].id].channel = uploads[u].channel
             /\ encrypted[uploads[u].id].by = uploads[u].by
             /\ encrypted[uploads[u].id].content = uploads[u].content

LinkPending ==
    \A S \in SUBSET Uploads : ~Idle /\ busy = [link |-> S] =>
        /\ next - 1 \in MessageIds /\ messages[next - 1] # None
        /\ \A u \in S :
             /\ rows[u] # None
             /\ rows[u].channel = messages[next - 1].channel
             /\ rows[u].by = messages[next - 1].by

RemovalPending ==
    \A S \in SUBSET Uploads : ~Idle /\ busy = [remove |-> S] =>
        \A u \in S :
            /\ rows[u] = None
            /\ uploads[u] # None /\ uploads[u].at = "kept" /\ uploads[u].id = None

Inv ==
    /\ TypeOK /\ AttachmentsFollowMessages
    /\ RequestsStored /\ RowsKept /\ EncryptedKept /\ KeptRecorded
    /\ LinkPending /\ RemovalPending

------------------------------------------------------------------------------
(***************************************************************************)
(* What the records of the tables have, and what seeding does to channels. *)
(***************************************************************************)
LEMMA FieldsOK ==
    ASSUME TypeOK
    PROVE  /\ \A u \in Uploads : uploads[u] # None => 
                /\ uploads[u].channel \in Channels /\ uploads[u].by \in Users
                /\ uploads[u].id \in Ids \cup {None}
                /\ uploads[u].content \in Contents \cup {None}
                /\ uploads[u].at \in {"stored", "hashing", "kept", "refused"}
           /\ \A u \in Uploads : rows[u] # None =>
                /\ rows[u].channel \in Channels /\ rows[u].by \in Users
                /\ rows[u].message \in MessageIds \cup {None}
           /\ \A i \in Ids : encrypted[i] # None =>
                /\ encrypted[i].channel \in Channels /\ encrypted[i].by \in Users
                /\ encrypted[i].content \in Contents /\ encrypted[i].file \in Uploads
           /\ \A m \in MessageIds : messages[m] # None =>
                messages[m].channel \in Channels /\ messages[m].by \in Users
BY DEF TypeOK, Requests, Rows, EncryptedRows, Messages

LEMMA SeedingAdds ==
    ASSUME NEW modes \in [Channels -> Modes], NEW seeded \in Seeded(modes)
    PROVE  /\ seeded \in [Channels -> Modes]
           /\ \A c \in Channels : \/ seeded[c] = modes[c]
                                  \/ modes[c] = "unused" /\ seeded[c] = "legacy"
<1> DEFINE unused == {c \in Channels : modes[c] = "unused"}
<1>1. CASE seeded = modes
    BY <1>1
<1>2. ASSUME NEW seeds \in SUBSET unused,
             seeded = [c \in Channels |-> IF c \in seeds THEN "legacy" ELSE modes[c]]
      PROVE  /\ seeded \in [Channels -> Modes]
             /\ \A c \in Channels : \/ seeded[c] = modes[c]
                                    \/ modes[c] = "unused" /\ seeded[c] = "legacy"
    BY <1>2 DEF Modes
<1>3. seeded = modes \/ \E seeds \in SUBSET unused :
        seeded = [c \in Channels |-> IF c \in seeds THEN "legacy" ELSE modes[c]]
    BY DEF Seeded
<1>4. CASE seeded # modes
    <2>1. PICK seeds \in SUBSET unused :
            seeded = [c \in Channels |-> IF c \in seeds THEN "legacy" ELSE modes[c]]
        BY <1>3, <1>4
    <2> QED BY <1>2, <2>1
<1> QED BY <1>1, <1>4

LEMMA InitInv == Init => Inv
<1> SUFFICES ASSUME Init PROVE Inv
    OBVIOUS
<1>1. channels \in [Channels -> Modes]
    BY SeedingAdds DEF Init, Modes
<1>2. TypeOK
    BY <1>1, MaxAssumption DEF Init, TypeOK, MessageIds
<1> QED BY <1>2 DEF Init, Inv, AttachmentsFollowMessages, RequestsStored, RowsKept, EncryptedKept,
        KeptRecorded, LinkPending, RemovalPending, Idle

------------------------------------------------------------------------------
(***************************************************************************)
(* One lemma per action.                                                   *)
(***************************************************************************)
LEMMA CreateKeeps ==
    ASSUME Inv, NEW c \in Channels, NEW mode \in {"e2ee", "voice"}, CreateChannel(c, mode)
    PROVE  Inv'
<1> USE DEF CreateChannel
<1>1. /\ channels' \in [Channels -> Modes]
      /\ \A d \in Channels : channels[d] # "unused" => channels'[d] = channels[d]
    BY DEF Inv, TypeOK, Modes
<1>2. Live \subseteq Live'
    BY <1>1 DEF Live
<1>3. TypeOK'
    BY <1>1, <1>2 DEF Inv, TypeOK
<1>4. AttachmentsFollowMessages'
    BY DEF Inv, AttachmentsFollowMessages
<1>5. RequestsStored'
    BY <1>1, FieldsOK DEF Inv, RequestsStored
<1>6. RowsKept'
    BY DEF Inv, RowsKept
<1>7. EncryptedKept'
    BY <1>1, FieldsOK DEF Inv, EncryptedKept
<1>8. KeptRecorded'
    BY <1>1, FieldsOK DEF Inv, KeptRecorded
<1>9. LinkPending' /\ RemovalPending'
    BY DEF Inv, LinkPending, RemovalPending, Idle
<1> QED BY <1>3, <1>4, <1>5, <1>6, <1>7, <1>8, <1>9 DEF Inv

LEMMA StartLogKeeps ==
    ASSUME Inv, NEW c \in Channels, StartLog(c)
    PROVE  Inv'
<1> USE DEF StartLog
<1>1. TypeOK'
    BY DEF Inv, TypeOK, Live, EndToEnd
<1>2. AttachmentsFollowMessages' /\ RequestsStored' /\ RowsKept' /\ EncryptedKept' /\ KeptRecorded'
    BY DEF Inv, AttachmentsFollowMessages, RequestsStored, RowsKept, EncryptedKept, KeptRecorded
<1>3. LinkPending' /\ RemovalPending'
    BY DEF Inv, LinkPending, RemovalPending, Idle
<1> QED BY <1>1, <1>2, <1>3 DEF Inv

LEMMA DeleteChannelKeeps ==
    ASSUME Inv, NEW c \in Channels, DeleteChannel(c)
    PROVE  Inv'
<1> USE DEF DeleteChannel
<1>1. /\ channels' \in [Channels -> Modes]
      /\ \A d \in Channels : d # c => channels'[d] = channels[d]
      /\ channels'[c] = "deleted"
    BY DEF Inv, TypeOK, Modes
<1>2. /\ \A d \in Live : d # c => d \in Live'
      /\ channels[c] # "deleted" /\ channels[c] # "unused"
    BY <1>1 DEF Live
<1>3. /\ \A u \in Uploads : rows'[u] # None => rows'[u] = rows[u] /\ rows[u].channel # c
      /\ \A u \in Uploads : rows'[u] = None \/ rows'[u] = rows[u]
      /\ \A u \in Uploads : rows'[u] = None => rows[u] = None \/ rows[u].channel = c
      /\ \A u \in AttachedTo(c) : rows'[u] = None
      /\ rows' \in [Uploads -> Rows \cup {None}]
    BY DEF Emptied, AttachedTo, Inv, TypeOK
<1>4. /\ \A m \in MessageIds : messages'[m] # None =>
            messages'[m] = messages[m] /\ messages[m].channel # c
      /\ \A m \in MessageIds : messages[m] # None /\ messages[m].channel # c =>
            messages'[m] = messages[m]
      /\ messages' \in [MessageIds -> Messages \cup {None}]
    BY DEF Inv, TypeOK
<1>5. \A i \in Ids : encrypted[i] # None => encrypted[i].channel # c
    BY DEF Referred, EncryptedOf
<1>6. c \notin logged
    BY DEF Referred
<1>7. \A u \in Uploads : rows'[u] # None /\ rows'[u].message # None =>
        /\ messages'[rows[u].message] = messages[rows[u].message]
        /\ messages[rows[u].message] # None
        /\ messages[rows[u].message].channel = rows[u].channel
    BY <1>3, <1>4, FieldsOK DEF Inv, TypeOK, AttachmentsFollowMessages
<1>8. TypeOK'
    <2>1. /\ logged' \subseteq Live'
          /\ \A m \in MessageIds : messages'[m] # None => m < next' /\ messages'[m].channel \in Live'
        BY <1>1, <1>2, <1>4, <1>6 DEF Inv, TypeOK
    <2>2. \A u \in Uploads : rows'[u] # None =>
            /\ rows'[u].channel \in Live'
            /\ rows'[u].message # None => messages'[rows'[u].message] # None
        BY <1>2, <1>3, <1>7 DEF Inv, TypeOK
    <2>3. \A i \in Ids : encrypted'[i] # None => encrypted'[i].channel \in Live'
        BY <1>2, <1>5 DEF Inv, TypeOK
    <2>4. busy' \in [remove : SUBSET Uploads]
        BY DEF AttachedTo
    <2> QED BY <1>1, <1>3, <1>4, <2>1, <2>2, <2>3, <2>4 DEF Inv, TypeOK
<1>9. AttachmentsFollowMessages'
    BY <1>3, <1>7 DEF Inv, AttachmentsFollowMessages
<1>10. RequestsStored'
    BY <1>1, <1>2, FieldsOK DEF Inv, RequestsStored
<1>11. RowsKept'
    BY <1>3 DEF Inv, RowsKept
<1>12. EncryptedKept'
    BY <1>1, <1>5, FieldsOK DEF Inv, EncryptedKept
<1>13. KeptRecorded'
    <2> SUFFICES ASSUME NEW u \in Uploads, uploads[u] # None, uploads[u].at = "kept"
                 PROVE  IF uploads[u].id = None
                        THEN channels'[uploads[u].channel] = "deleted" \/ rows'[u] # None
                        ELSE /\ encrypted[uploads[u].id] # None
                             /\ encrypted[uploads[u].id].channel = uploads[u].channel
                             /\ encrypted[uploads[u].id].by = uploads[u].by
                             /\ encrypted[uploads[u].id].content = uploads[u].content
        BY DEF KeptRecorded
    <2>1. CASE uploads[u].id = None
        BY <2>1, <1>1, <1>3, FieldsOK DEF Inv, KeptRecorded, RowsKept
    <2>2. CASE uploads[u].id # None
        BY <2>2 DEF Inv, KeptRecorded
    <2> QED BY <2>1, <2>2
<1>14. \A S \in SUBSET Uploads : busy' # [link |-> S]
    BY DEF AttachedTo
<1>15. LinkPending'
    BY <1>14 DEF LinkPending
<1>16. RemovalPending'
    <2>1. \A u \in AttachedTo(c) :
            rows'[u] = None /\ uploads[u] # None /\ uploads[u].at = "kept" /\ uploads[u].id = None
        BY <1>3 DEF AttachedTo, Inv, RowsKept
    <2>2. \A S \in SUBSET Uploads : busy' = [remove |-> S] => S = AttachedTo(c)
        OBVIOUS
    <2> QED BY <2>1, <2>2 DEF RemovalPending
<1> QED BY <1>8, <1>9, <1>10, <1>11, <1>12, <1>13, <1>15, <1>16 DEF Inv

LEMMA RemoveFileKeeps ==
    ASSUME Inv, RemoveFile
    PROVE  Inv'
<1> USE DEF RemoveFile
<1>1. PICK S \in SUBSET Uploads : busy = [remove |-> S]
    BY DEF Inv, TypeOK, Idle
<1>2. \A u \in S : /\ rows[u] = None
                   /\ uploads[u] # None /\ uploads[u].at = "kept" /\ uploads[u].id = None
    BY <1>1 DEF Inv, RemovalPending
<1>3. /\ \E T \in SUBSET S : busy' = None \/ busy' = [remove |-> T]
      /\ files' \subseteq files
      /\ \A u \in files : u \in files' \/ u \in S
    <2>1. CASE busy.remove = {} /\ busy' = None /\ UNCHANGED files
        BY <2>1
    <2>2. ASSUME NEW u \in busy.remove, files' = files \ {u},
                 busy' = [busy EXCEPT !.remove = @ \ {u}]
          PROVE  /\ \E T \in SUBSET S : busy' = [remove |-> T]
                 /\ files' \subseteq files
                 /\ \A v \in files : v \in files' \/ v \in S
        <3>1. busy' = [remove |-> S \ {u}] /\ u \in S
            BY <1>1, <2>2
        <3> QED BY <3>1, <2>2
    <2> QED BY <2>1, <2>2
<1>4. TypeOK'
    BY <1>3 DEF Inv, TypeOK, Live
<1>5. AttachmentsFollowMessages' /\ KeptRecorded'
    BY DEF Inv, AttachmentsFollowMessages, KeptRecorded
<1>6. RequestsStored'
    BY <1>2, <1>3 DEF Inv, RequestsStored
<1>7. RowsKept'
    BY <1>2, <1>3 DEF Inv, RowsKept
<1>8. EncryptedKept'
    <2> SUFFICES ASSUME NEW i \in Ids, encrypted[i] # None
                 PROVE  encrypted[i].file \in files'
        BY DEF Inv, EncryptedKept
    <2>1. encrypted[i].file \in files /\ uploads[encrypted[i].file].id = i
        BY DEF Inv, EncryptedKept
    <2> QED BY <1>2, <1>3, <2>1
<1>9. LinkPending' /\ RemovalPending'
    BY <1>2, <1>3 DEF LinkPending, RemovalPending, Idle
<1> QED BY <1>4, <1>5, <1>6, <1>7, <1>8, <1>9 DEF Inv

LEMMA ReceiveKeeps ==
    ASSUME Inv, NEW u \in Uploads, NEW c \in Channels, NEW p \in Users,
           NEW i \in Ids \cup {None}, NEW x \in Contents \cup {None},
           Receive(u, c, p, i, x)
    PROVE  Inv'
<1> USE DEF Receive
<1>1. /\ uploads'[u] = [channel |-> c, by |-> p, id |-> i, content |-> x, at |-> "stored"]
      /\ \A v \in Uploads : v # u => uploads'[v] = uploads[v]
      /\ uploads' \in [Uploads -> Requests \cup {None}]
    BY DEF Inv, TypeOK, Requests
<1>2. /\ \A v \in Uploads : rows[v] # None => v # u
      /\ \A j \in Ids : encrypted[j] # None =>
           encrypted[j].file \in Uploads /\ encrypted[j].file # u
    BY FieldsOK DEF Inv, RowsKept, EncryptedKept
<1>3. TypeOK'
    BY <1>1 DEF Inv, TypeOK, Live
<1>4. AttachmentsFollowMessages'
    BY DEF Inv, AttachmentsFollowMessages
<1>5. RequestsStored'
    BY <1>1 DEF Inv, RequestsStored
<1>6. RowsKept'
    BY <1>1, <1>2 DEF Inv, RowsKept
<1>7. EncryptedKept'
    BY <1>1, <1>2 DEF Inv, EncryptedKept
<1>8. KeptRecorded'
    BY <1>1 DEF Inv, KeptRecorded
<1>9. LinkPending' /\ RemovalPending'
    BY <1>1 DEF Inv, LinkPending, RemovalPending, Idle
<1> QED BY <1>3, <1>4, <1>5, <1>6, <1>7, <1>8, <1>9 DEF Inv

(***************************************************************************)
(* A request without a row is refused and its file removed.                *)
(***************************************************************************)
LEMMA RefuseKeeps ==
    ASSUME Inv, Idle, NEW u \in Uploads,
           uploads[u] # None, uploads[u].at \in {"stored", "hashing"},
           Refuse(u), UNCHANGED <<channels, logged, messages, next, busy>>
    PROVE  Inv'
<1> USE DEF Refuse
<1>1. /\ uploads'[u].at = "refused"
      /\ uploads'[u].id = uploads[u].id /\ uploads'[u].content = uploads[u].content
      /\ \A v \in Uploads : v # u => uploads'[v] = uploads[v]
      /\ uploads' \in [Uploads -> Requests \cup {None}]
    BY DEF Inv, TypeOK, Requests
<1>2. /\ \A v \in Uploads : rows[v] # None => v # u
      /\ \A j \in Ids : encrypted[j] # None =>
           encrypted[j].file \in Uploads /\ encrypted[j].file # u
    BY FieldsOK DEF Inv, RowsKept, EncryptedKept
<1>3. TypeOK'
    BY <1>1 DEF Inv, TypeOK, Live
<1>4. AttachmentsFollowMessages'
    BY DEF Inv, AttachmentsFollowMessages
<1>5. RequestsStored'
    BY <1>1 DEF Inv, RequestsStored
<1>6. RowsKept'
    BY <1>1, <1>2 DEF Inv, RowsKept
<1>7. EncryptedKept'
    BY <1>1, <1>2 DEF Inv, EncryptedKept
<1>8. KeptRecorded'
    BY <1>1 DEF Inv, KeptRecorded
<1>9. LinkPending' /\ RemovalPending'
    BY DEF LinkPending, RemovalPending, Idle
<1> QED BY <1>3, <1>4, <1>5, <1>6, <1>7, <1>8, <1>9 DEF Inv

LEMMA AttachKeeps ==
    ASSUME Inv, NEW u \in Uploads, Attach(u)
    PROVE  Inv'
<1> DEFINE r == uploads[u]
           new == [channel |-> r.channel, by |-> r.by, message |-> None]
<1>1. /\ Idle /\ r # None /\ r.at = "stored" /\ r.id = None
      /\ UNCHANGED <<channels, logged, messages, next, busy>>
    BY DEF Attach
<1>2. CASE Refuse(u)
    BY <1>1, <1>2, RefuseKeeps
<1>3. CASE /\ Plaintext(r.channel)
           /\ rows' = [rows EXCEPT ![u] = new]
           /\ uploads' = [uploads EXCEPT ![u].at = "kept"]
           /\ UNCHANGED <<encrypted, files>>
    <2>1. /\ uploads'[u].at = "kept" /\ uploads'[u].id = None
          /\ uploads'[u].channel = r.channel /\ uploads'[u].by = r.by
          /\ uploads'[u].content = r.content /\ uploads'[u] # None
          /\ \A v \in Uploads : v # u => uploads'[v] = uploads[v]
          /\ uploads' \in [Uploads -> Requests \cup {None}]
        BY <1>1, <1>3 DEF Inv, TypeOK, Requests
    <2>2. /\ new \in Rows /\ new # None
          /\ rows'[u] = new
          /\ \A v \in Uploads : v # u => rows'[v] = rows[v]
          /\ rows' \in [Uploads -> Rows \cup {None}]
        BY <1>1, <1>3, FieldsOK DEF Inv, TypeOK, Rows
    <2>3. new.channel = r.channel /\ new.by = r.by /\ new.message = None
        OBVIOUS
    <2>4. r.channel \in Live
        BY <1>1, <1>3, FieldsOK DEF Inv, Plaintext, Live
    <2> HIDE DEF new
    <2>5. TypeOK'
        BY <1>1, <1>3, <2>1, <2>2, <2>3, <2>4 DEF Inv, TypeOK, Live
    <2>6. AttachmentsFollowMessages'
        BY <1>1, <2>2, <2>3 DEF Inv, AttachmentsFollowMessages
    <2>7. RequestsStored'
        BY <1>1, <1>3, <2>1 DEF Inv, RequestsStored
    <2>8. RowsKept'
        BY <1>1, <1>3, <2>1, <2>2, <2>3 DEF Inv, RowsKept, RequestsStored
    <2>9. EncryptedKept'
        BY <1>1, <1>3, <2>1, FieldsOK DEF Inv, EncryptedKept
    <2>10. KeptRecorded'
        BY <1>1, <1>3, <2>1, <2>2 DEF Inv, KeptRecorded
    <2>11. LinkPending' /\ RemovalPending'
        BY <1>1 DEF LinkPending, RemovalPending, Idle
    <2> QED BY <2>5, <2>6, <2>7, <2>8, <2>9, <2>10, <2>11 DEF Inv
<1> QED BY <1>2, <1>3 DEF Attach

LEMMA HashKeeps ==
    ASSUME Inv, NEW u \in Uploads, Hash(u)
    PROVE  Inv'
<1> DEFINE r == uploads[u]
<1>1. /\ Idle /\ r # None /\ r.at = "stored" /\ r.id # None
      /\ UNCHANGED <<channels, logged, messages, next, busy>>
    BY DEF Hash
<1>2. CASE Refuse(u)
    BY <1>1, <1>2, RefuseKeeps
<1>3. CASE /\ EndToEnd(r.channel)
           /\ uploads' = [uploads EXCEPT ![u].at = "hashing"]
           /\ UNCHANGED <<rows, encrypted, files>>
    <2>1. /\ uploads'[u].at = "hashing" /\ uploads'[u].id = r.id
          /\ uploads'[u].channel = r.channel /\ uploads'[u].content = r.content
          /\ \A v \in Uploads : v # u => uploads'[v] = uploads[v]
          /\ uploads' \in [Uploads -> Requests \cup {None}]
        BY <1>1, <1>3 DEF Inv, TypeOK, Requests
    <2>2. /\ \A v \in Uploads : rows[v] # None => v # u
          /\ \A j \in Ids : encrypted[j] # None =>
               encrypted[j].file \in Uploads /\ encrypted[j].file # u
        BY <1>1, FieldsOK DEF Inv, RowsKept, EncryptedKept
    <2>3. TypeOK'
        BY <1>1, <1>3, <2>1 DEF Inv, TypeOK, Live
    <2>4. AttachmentsFollowMessages'
        BY <1>1, <1>3 DEF Inv, AttachmentsFollowMessages
    <2>5. RequestsStored'
        BY <1>1, <1>3, <2>1 DEF Inv, RequestsStored, EndToEnd
    <2>6. RowsKept'
        BY <1>1, <1>3, <2>1, <2>2 DEF Inv, RowsKept
    <2>7. EncryptedKept'
        BY <1>1, <1>3, <2>1, <2>2 DEF Inv, EncryptedKept
    <2>8. KeptRecorded'
        BY <1>1, <1>3, <2>1 DEF Inv, KeptRecorded
    <2>9. LinkPending' /\ RemovalPending'
        BY <1>1 DEF LinkPending, RemovalPending, Idle
    <2> QED BY <2>3, <2>4, <2>5, <2>6, <2>7, <2>8, <2>9 DEF Inv
<1> QED BY <1>2, <1>3 DEF Hash

LEMMA EncryptedAttachKeeps ==
    ASSUME Inv, NEW u \in Uploads, EncryptedAttach(u)
    PROVE  Inv'
<1> DEFINE r == uploads[u]
           new == [channel |-> r.channel, by |-> r.by, content |-> r.content, file |-> u]
<1>1. /\ Idle /\ r # None /\ r.at = "hashing" /\ r.id \in Ids /\ r.content \in Contents
      /\ u \in files /\ channels[r.channel] \in {"e2ee", "deleted"}
      /\ UNCHANGED <<channels, logged, messages, next, busy>>
    BY FieldsOK DEF EncryptedAttach, Inv, RequestsStored
<1>2. /\ \A v \in Uploads : rows[v] # None => v # u
      /\ \A j \in Ids : encrypted[j] # None =>
           encrypted[j].file \in Uploads /\ encrypted[j].file # u
    BY <1>1, FieldsOK DEF Inv, RowsKept, EncryptedKept
<1>3. CASE Refuse(u)
    BY <1>1, <1>3, RefuseKeeps
<1>4. ASSUME uploads' = [uploads EXCEPT ![u].at = "kept"]
      PROVE  /\ uploads'[u].at = "kept" /\ uploads'[u].id = r.id
             /\ uploads'[u].channel = r.channel /\ uploads'[u].by = r.by
             /\ uploads'[u].content = r.content /\ uploads'[u] # None
             /\ \A v \in Uploads : v # u => uploads'[v] = uploads[v]
             /\ uploads' \in [Uploads -> Requests \cup {None}]
    BY <1>1, <1>4 DEF Inv, TypeOK, Requests
<1>5. CASE /\ encrypted[r.id] = None
           /\ r.channel \in Live
           /\ encrypted' = [encrypted EXCEPT ![r.id] = new]
           /\ uploads' = [uploads EXCEPT ![u].at = "kept"]
           /\ UNCHANGED <<rows, files>>
    <2>1. /\ new \in EncryptedRows /\ new # None
          /\ encrypted'[r.id] = new
          /\ \A j \in Ids : j # r.id => encrypted'[j] = encrypted[j]
          /\ encrypted' \in [Ids -> EncryptedRows \cup {None}]
        BY <1>1, <1>5, FieldsOK DEF Inv, TypeOK, EncryptedRows
    <2>2. new.channel = r.channel /\ new.by = r.by /\ new.content = r.content /\ new.file = u
        OBVIOUS
    <2>3. channels[r.channel] = "e2ee"
        BY <1>1, <1>5 DEF Live
    <2> HIDE DEF new
    <2>4. TypeOK'
        BY <1>1, <1>4, <1>5, <2>1, <2>2 DEF Inv, TypeOK, Live
    <2>5. AttachmentsFollowMessages'
        BY <1>1, <1>5 DEF Inv, AttachmentsFollowMessages
    <2>6. RequestsStored'
        BY <1>1, <1>4, <1>5 DEF Inv, RequestsStored
    <2>7. RowsKept'
        BY <1>2, <1>4, <1>5 DEF Inv, RowsKept
    <2>8. EncryptedKept'
        BY <1>1, <1>2, <1>4, <1>5, <2>1, <2>2, <2>3 DEF Inv, EncryptedKept
    <2>9. KeptRecorded'
        BY <1>1, <1>4, <1>5, <2>1, <2>2 DEF Inv, KeptRecorded
    <2>10. LinkPending' /\ RemovalPending'
        BY <1>1 DEF LinkPending, RemovalPending, Idle
    <2> QED BY <2>4, <2>5, <2>6, <2>7, <2>8, <2>9, <2>10 DEF Inv
<1>6. CASE /\ encrypted[r.id] # None
           /\ SameAttachment(r)
           /\ files' = files \ {u}
           /\ uploads' = [uploads EXCEPT ![u].at = "kept"]
           /\ UNCHANGED <<rows, encrypted>>
    <2>1. TypeOK'
        BY <1>1, <1>4, <1>6 DEF Inv, TypeOK, Live
    <2>2. AttachmentsFollowMessages'
        BY <1>1, <1>6 DEF Inv, AttachmentsFollowMessages
    <2>3. RequestsStored'
        BY <1>1, <1>4, <1>6 DEF Inv, RequestsStored
    <2>4. RowsKept'
        BY <1>2, <1>4, <1>6 DEF Inv, RowsKept
    <2>5. EncryptedKept'
        BY <1>1, <1>2, <1>4, <1>6 DEF Inv, EncryptedKept
    <2>6. KeptRecorded'
        BY <1>1, <1>4, <1>6 DEF Inv, KeptRecorded, SameAttachment
    <2>7. LinkPending' /\ RemovalPending'
        BY <1>1 DEF LinkPending, RemovalPending, Idle
    <2> QED BY <2>1, <2>2, <2>3, <2>4, <2>5, <2>6, <2>7 DEF Inv
<1> QED BY <1>3, <1>5, <1>6 DEF EncryptedAttach, Superfluous

LEMMA PostKeeps ==
    ASSUME Inv, NEW c \in Channels, NEW p \in Users, NEW text \in BOOLEAN,
           NEW attached \in SUBSET Uploads, Post(c, p, text, attached)
    PROVE  Inv'
<1> DEFINE new == [channel |-> c, by |-> p, text |-> text]
<1>1. /\ Idle /\ Plaintext(c) /\ next <= MaxMessages
      /\ \A u \in attached : Pending(u, c, p)
      /\ messages' = [messages EXCEPT ![next] = new]
      /\ next' = next + 1 /\ busy' = [link |-> attached]
      /\ UNCHANGED <<channels, logged, rows, encrypted, files, uploads>>
    BY DEF Post
<1>2. next \in MessageIds /\ next' - 1 = next /\ next' \in 1 .. MaxMessages + 1
    BY <1>1, MaxAssumption DEF Inv, TypeOK, MessageIds
<1>3. /\ new \in Messages /\ new # None /\ messages'[next] = new
      /\ \A m \in MessageIds : m # next => messages'[m] = messages[m]
      /\ messages' \in [MessageIds -> Messages \cup {None}]
    BY <1>1, <1>2 DEF Inv, TypeOK, Messages
<1>4. new.channel = c /\ new.by = p
    OBVIOUS
<1>5. messages[next] = None
    BY <1>2 DEF Inv, TypeOK, MessageIds
<1>6. c \in Live
    BY <1>1 DEF Plaintext, Live
<1> HIDE DEF new
<1>7. TypeOK'
    <2>1. \A m \in MessageIds : messages'[m] # None =>
            m < next' /\ messages'[m].channel \in Live'
        BY <1>1, <1>2, <1>3, <1>4, <1>6 DEF Inv, TypeOK, Live, MessageIds
    <2>2. \A u \in Uploads : rows'[u] # None =>
            /\ rows'[u].channel \in Live'
            /\ rows'[u].message # None => messages'[rows'[u].message] # None
        BY <1>1, <1>3, <1>5, FieldsOK DEF Inv, TypeOK, Live
    <2>3. busy' \in [link : SUBSET Uploads]
        BY <1>1
    <2> QED BY <1>1, <1>2, <1>3, <2>1, <2>2, <2>3 DEF Inv, TypeOK, Live
<1>8. AttachmentsFollowMessages'
    BY <1>1, <1>3, <1>5, FieldsOK DEF Inv, AttachmentsFollowMessages
<1>9. RequestsStored' /\ RowsKept' /\ EncryptedKept' /\ KeptRecorded'
    BY <1>1 DEF Inv, RequestsStored, RowsKept, EncryptedKept, KeptRecorded
<1>10. LinkPending'
    <2>1. \A S \in SUBSET Uploads : busy' = [link |-> S] => S = attached
        BY <1>1
    <2>2. \A u \in attached : rows'[u] # None /\ rows'[u].channel = c /\ rows'[u].by = p
        BY <1>1 DEF Pending
    <2> QED BY <1>2, <1>3, <1>4, <2>1, <2>2 DEF LinkPending
<1>11. RemovalPending'
    <2>1. \A S \in SUBSET Uploads : busy' # [remove |-> S]
        BY <1>1
    <2> QED BY <2>1 DEF RemovalPending
<1> QED BY <1>7, <1>8, <1>9, <1>10, <1>11 DEF Inv

LEMMA LinkKeeps ==
    ASSUME Inv, Link
    PROVE  Inv'
<1> DEFINE m == next - 1
<1>1. PICK S \in SUBSET Uploads : busy = [link |-> S]
    BY DEF Link, Inv, TypeOK, Idle
<1>2. /\ ~Idle /\ busy.link = S /\ busy' = None
      /\ UNCHANGED <<channels, logged, messages, next, encrypted, files, uploads>>
    BY <1>1 DEF Link
<1>3. /\ m \in MessageIds /\ messages[m] # None
      /\ \A u \in S : /\ rows[u] # None
                      /\ rows[u].channel = messages[m].channel
                      /\ rows[u].by = messages[m].by
    BY <1>1, <1>2 DEF Inv, LinkPending
<1>4. /\ \A u \in Uploads : u \notin S => rows'[u] = rows[u]
      /\ \A u \in S : /\ rows'[u].channel = rows[u].channel /\ rows'[u].by = rows[u].by
                      /\ rows'[u].message = m
                      /\ rows'[u] \in Rows
      /\ rows' \in [Uploads -> Rows \cup {None}]
    <2>1. \A u \in S : rows[u] \in Rows /\ rows'[u] = [rows[u] EXCEPT !.message = m]
        BY <1>2, <1>3 DEF Link, Inv, TypeOK
    <2>2. \A u \in Uploads : u \notin S => rows'[u] = rows[u]
        BY <1>2 DEF Link
    <2>3. \A u \in S : /\ rows'[u].channel = rows[u].channel /\ rows'[u].by = rows[u].by
                       /\ rows'[u].message = m
                       /\ rows'[u] \in Rows
        <3>1. ASSUME NEW row \in Rows, NEW k \in MessageIds,
                     NEW linked, linked = [row EXCEPT !.message = k]
              PROVE  /\ linked.channel = row.channel /\ linked.by = row.by
                     /\ linked.message = k /\ linked \in Rows
            <4>1. linked = [channel |-> row.channel, by |-> row.by, message |-> k]
                BY <3>1 DEF Rows
            <4> QED BY <4>1 DEF Rows
        <3> SUFFICES ASSUME NEW u \in S
                     PROVE  /\ rows'[u].channel = rows[u].channel /\ rows'[u].by = rows[u].by
                            /\ rows'[u].message = m
                            /\ rows'[u] \in Rows
            OBVIOUS
        <3>2. rows[u] \in Rows /\ m \in MessageIds /\ rows'[u] = [rows[u] EXCEPT !.message = m]
            BY <1>3, <2>1
        <3> HIDE DEF m
        <3> QED BY <3>1, <3>2
    <2>4. rows' = [u \in Uploads |-> rows'[u]]
        BY DEF Link
    <2>5. \A u \in Uploads : rows'[u] \in Rows \cup {None}
        BY <2>2, <2>3 DEF Inv, TypeOK
    <2> QED BY <2>2, <2>3, <2>4, <2>5
<1> HIDE DEF m
<1>5. TypeOK'
    BY <1>2, <1>3, <1>4 DEF Inv, TypeOK, Live
<1>6. AttachmentsFollowMessages'
    BY <1>2, <1>3, <1>4 DEF Inv, AttachmentsFollowMessages
<1>7. RequestsStored' /\ EncryptedKept'
    BY <1>2 DEF Inv, RequestsStored, EncryptedKept
<1>8. RowsKept'
    BY <1>2, <1>3, <1>4 DEF Inv, RowsKept
<1>9. KeptRecorded'
    BY <1>2, <1>4 DEF Inv, KeptRecorded
<1>10. LinkPending' /\ RemovalPending'
    BY <1>2 DEF LinkPending, RemovalPending, Idle
<1> QED BY <1>5, <1>6, <1>7, <1>8, <1>9, <1>10 DEF Inv

LEMMA EditKeeps ==
    ASSUME Inv, NEW m \in MessageIds, NEW p \in Users, NEW text \in BOOLEAN, Edit(m, p, text)
    PROVE  Inv'
<1>1. /\ Idle /\ messages[m] # None
      /\ messages' = [messages EXCEPT ![m].text = text]
      /\ UNCHANGED <<channels, logged, next, rows, encrypted, files, uploads, busy>>
    BY DEF Edit
<1>2. /\ messages'[m] \in Messages /\ messages'[m] # None
      /\ messages'[m].channel = messages[m].channel /\ messages'[m].by = messages[m].by
      /\ \A k \in MessageIds : k # m => messages'[k] = messages[k]
      /\ messages' \in [MessageIds -> Messages \cup {None}]
    BY <1>1 DEF Inv, TypeOK, Messages
<1>3. TypeOK'
    BY <1>1, <1>2 DEF Inv, TypeOK, Live
<1>4. AttachmentsFollowMessages'
    BY <1>1, <1>2, FieldsOK DEF Inv, AttachmentsFollowMessages
<1>5. RequestsStored' /\ RowsKept' /\ EncryptedKept' /\ KeptRecorded'
    BY <1>1 DEF Inv, RequestsStored, RowsKept, EncryptedKept, KeptRecorded
<1>6. LinkPending' /\ RemovalPending'
    BY <1>1 DEF LinkPending, RemovalPending, Idle
<1> QED BY <1>3, <1>4, <1>5, <1>6 DEF Inv

LEMMA DeleteMessageKeeps ==
    ASSUME Inv, NEW m \in MessageIds, NEW p \in Users, DeleteMessage(m, p)
    PROVE  Inv'
<1>1. /\ Idle /\ Of(m) = {}
      /\ messages' = [messages EXCEPT ![m] = None]
      /\ UNCHANGED <<channels, logged, next, rows, encrypted, files, uploads, busy>>
    BY DEF DeleteMessage
<1>2. \A u \in Uploads : rows[u] # None => rows[u].message # m
    BY <1>1 DEF Of
<1>3. TypeOK'
    BY <1>1, <1>2, FieldsOK DEF Inv, TypeOK, Live
<1>4. AttachmentsFollowMessages'
    BY <1>1, <1>2, FieldsOK DEF Inv, TypeOK, AttachmentsFollowMessages
<1>5. RequestsStored' /\ RowsKept' /\ EncryptedKept' /\ KeptRecorded'
    BY <1>1 DEF Inv, RequestsStored, RowsKept, EncryptedKept, KeptRecorded
<1>6. LinkPending' /\ RemovalPending'
    BY <1>1 DEF LinkPending, RemovalPending, Idle
<1> QED BY <1>3, <1>4, <1>5, <1>6 DEF Inv

LEMMA RestartKeeps ==
    ASSUME Inv, Restart
    PROVE  Inv'
<1>1. /\ busy' = None /\ channels' \in Seeded(channels)
      /\ UNCHANGED <<logged, messages, next, rows, encrypted, files>>
    BY DEF Restart
<1>2. /\ channels' \in [Channels -> Modes]
      /\ \A c \in Channels : \/ channels'[c] = channels[c]
                             \/ channels[c] = "unused" /\ channels'[c] = "legacy"
    BY <1>1, SeedingAdds DEF Inv, TypeOK
<1>3. Live \subseteq Live'
    BY <1>2 DEF Live
<1>4. /\ \A u \in Uploads :
           \/ uploads'[u] = uploads[u]
              /\ (uploads[u] = None \/ uploads[u].at \in {"kept", "refused"})
           \/ /\ uploads[u] # None /\ uploads'[u] \in Requests
              /\ uploads[u].at \in {"stored", "hashing"} /\ uploads'[u].at = "refused"
              /\ uploads'[u].id = uploads[u].id
              /\ uploads'[u].content = uploads[u].content
      /\ uploads' \in [Uploads -> Requests \cup {None}]
    BY DEF Restart, Inv, TypeOK, Requests
<1>5. TypeOK'
    BY <1>1, <1>2, <1>3, <1>4 DEF Inv, TypeOK
<1>6. AttachmentsFollowMessages'
    BY <1>1 DEF Inv, AttachmentsFollowMessages
<1>7. RequestsStored'
    BY <1>1, <1>4 DEF Inv, RequestsStored
<1>8. RowsKept'
    BY <1>1, <1>4 DEF Inv, RowsKept
<1>9. EncryptedKept'
    BY <1>1, <1>2, <1>4, FieldsOK DEF Inv, EncryptedKept
<1>10. KeptRecorded'
    BY <1>1, <1>2, <1>4, FieldsOK DEF Inv, KeptRecorded
<1>11. LinkPending' /\ RemovalPending'
    BY <1>1 DEF LinkPending, RemovalPending, Idle
<1> QED BY <1>5, <1>6, <1>7, <1>8, <1>9, <1>10, <1>11 DEF Inv

LEMMA NextInv == Inv /\ [Next]_vars => Inv'
<1> SUFFICES ASSUME Inv, [Next]_vars PROVE Inv'
    OBVIOUS
<1>1. CASE UNCHANGED vars
    BY <1>1 DEF vars, Inv, TypeOK, Live, AttachmentsFollowMessages, RequestsStored, RowsKept,
        EncryptedKept, KeptRecorded, LinkPending, RemovalPending, Idle
<1>2. CASE \E c \in Channels : (\E mode \in {"e2ee", "voice"} : CreateChannel(c, mode))
                               \/ StartLog(c) \/ DeleteChannel(c)
    BY <1>2, CreateKeeps, StartLogKeeps, DeleteChannelKeeps
<1>3. CASE RemoveFile
    BY <1>3, RemoveFileKeeps
<1>4. ASSUME NEW u \in Uploads,
             \/ \E c \in Channels, p \in Users, i \in Ids \cup {None}, x \in Contents \cup {None} :
                  channels[c] # "unused" /\ Receive(u, c, p, i, x)
             \/ Attach(u) \/ Hash(u) \/ EncryptedAttach(u)
      PROVE  Inv'
    BY <1>4, ReceiveKeeps, AttachKeeps, HashKeeps, EncryptedAttachKeeps
<1>5. CASE \E c \in Channels, p \in Users, text \in BOOLEAN, attached \in SUBSET Uploads :
             Post(c, p, text, attached)
    BY <1>5, PostKeeps
<1>6. CASE Link
    BY <1>6, LinkKeeps
<1>7. CASE \E m \in MessageIds, p \in Users :
             (\E text \in BOOLEAN : Edit(m, p, text)) \/ DeleteMessage(m, p)
    BY <1>7, EditKeeps, DeleteMessageKeeps
<1>8. CASE Restart
    BY <1>8, RestartKeeps
<1> QED BY <1>1, <1>2, <1>3, <1>4, <1>5, <1>6, <1>7, <1>8 DEF Next

------------------------------------------------------------------------------
(***************************************************************************)
(* The invariant holds of every state that a server can reach.             *)
(***************************************************************************)
THEOREM InvHolds == Spec => []Inv
<1> QED BY InitInv, NextInv, PTL DEF Spec

(***************************************************************************)
(* Every reference between the tables of channels, messages and            *)
(* attachments resolves, in the middle of a handler too.                   *)
(***************************************************************************)
THEOREM TypesHold == Spec => []TypeOK
<1>1. Inv => TypeOK
    BY DEF Inv
<1> QED BY <1>1, InvHolds, PTL

(***************************************************************************)
(* An upload answered with success stays available, row and bytes, until   *)
(* its plaintext channel is deleted: through repeated and overlapping      *)
(* uploads and through ends of the process.                                *)
(***************************************************************************)
THEOREM KeptStaysServed == Spec => []KeptIsServed
<1>1. ASSUME Inv, NEW u \in Uploads, uploads[u] # None, uploads[u].at = "kept",
             uploads[u].id = None
      PROVE  \/ channels[uploads[u].channel] = "deleted"
             \/ /\ Downloadable(u)
                /\ rows[u].channel = uploads[u].channel /\ rows[u].by = uploads[u].by
    BY <1>1 DEF Inv, TypeOK, RowsKept, KeptRecorded, Downloadable
<1>2. ASSUME Inv, NEW u \in Uploads, uploads[u] # None, uploads[u].at = "kept",
             uploads[u].id # None
      PROVE  /\ EncryptedDownloadable(uploads[u].id, uploads[u].channel)
             /\ SameAttachment(uploads[u])
             /\ uploads[encrypted[uploads[u].id].file].content = uploads[u].content
    BY <1>2, FieldsOK DEF Inv, EncryptedKept, KeptRecorded, EncryptedDownloadable,
        SameAttachment, EndToEnd
<1>3. Inv => KeptIsServed
    BY <1>1, <1>2 DEF KeptIsServed
<1> QED BY <1>3, InvHolds, PTL

(***************************************************************************)
(* An attachment belongs to a message of its own channel and uploader,     *)
(* whatever was deleted meanwhile.                                         *)
(***************************************************************************)
THEOREM AttachmentsStay == Spec => []AttachmentsFollowMessages
<1>1. Inv => AttachmentsFollowMessages
    BY DEF Inv
<1> QED BY <1>1, InvHolds, PTL
------------------------------------------------------------------------------
(***************************************************************************)
(* What the handlers of Administration keep, for all limits and requests.  *)
(* Its bounds are declared here, as the chat has none of them.             *)
(***************************************************************************)
CONSTANTS MinFile, MaxFile, MinTotal, MaxTotal, MaxTypes, MaxAvatar, MaxSafe

Admin == INSTANCE Administration

(***************************************************************************)
(* A list of types that a request sends never leaves none.                 *)
(***************************************************************************)
LEMMA AllowedTypesSome ==
    ASSUME NEW input, NEW fallback, fallback # {}
    PROVE  Admin!AllowedTypes(input, fallback) # {}
BY DEF Admin!AllowedTypes

(***************************************************************************)
(* PATCH of the settings: an accepted request leaves limits that the       *)
(* handler would accept, types to upload, and attachments that never       *)
(* expire.                                                                 *)
(***************************************************************************)
THEOREM SettingsStayInRange ==
    ASSUME NEW s, Admin!SettingsInRange(s), NEW request, Admin!AcceptsSettings(request)
    PROVE  /\ Admin!SettingsInRange(Admin!SettingsAfter(s, request))
           /\ \A now : Admin!ExpiresAt(Admin!SettingsAfter(s, request), now) = None
<1> DEFINE t == Admin!SettingsAfter(s, request)
<1>1. t.retention = 0
    BY DEF Admin!SettingsInRange, Admin!AcceptsSettings, Admin!SettingsAfter, Admin!Field
<1>2. Admin!Within(t.maxBytes, MinFile, MaxFile)
    BY DEF Admin!SettingsInRange, Admin!AcceptsSettings, Admin!SettingsAfter, Admin!Field
<1>3. Admin!Within(t.maxFile, MinFile, MaxFile)
    BY DEF Admin!SettingsInRange, Admin!AcceptsSettings, Admin!SettingsAfter, Admin!Field
<1>4. Admin!Within(t.maxTotal, MinTotal, MaxTotal)
    BY DEF Admin!SettingsInRange, Admin!AcceptsSettings, Admin!SettingsAfter, Admin!Field
<1>5. t.types # {} /\ t.fileTypes # {}
    BY AllowedTypesSome DEF Admin!SettingsInRange, Admin!SettingsAfter
<1>6. \A now : Admin!ExpiresAt(t, now) = None
    BY <1>1 DEF Admin!ExpiresAt
<1> QED BY <1>1, <1>2, <1>3, <1>4, <1>5, <1>6 DEF Admin!SettingsInRange

(***************************************************************************)
(* readStorageCapacity: a write is accepted exactly if it leaves the       *)
(* critical bytes, so no larger one is accepted where a smaller is         *)
(* refused.                                                                *)
(***************************************************************************)
THEOREM ReserveIsKept ==
    ASSUME MaxSafe \in Nat, NEW free \in 0 .. MaxSafe, NEW incoming \in 0 .. MaxSafe,
           NEW warning \in Nat, NEW critical \in Nat \ {0}
    PROVE  /\ Admin!AcceptsWrites(free, incoming, warning, critical)
                <=> free - incoming >= critical
           /\ \A less \in 0 .. incoming :
                Admin!AcceptsWrites(free, incoming, warning, critical) =>
                    Admin!AcceptsWrites(free, less, warning, critical)
<1>1. ASSUME NEW n \in 0 .. MaxSafe
      PROVE  Admin!AcceptsWrites(free, n, warning, critical) <=> free - n >= critical
    <2>1. Admin!Clamped(free) = free /\ Admin!Clamped(n) = n
        BY DEF Admin!Clamped
    <2>2. Admin!LeftAfter(free, n) = IF free - n < 0 THEN 0 ELSE free - n
        BY <2>1 DEF Admin!LeftAfter
    <2>3. Admin!AcceptsWrites(free, n, warning, critical) <=> ~(Admin!LeftAfter(free, n) < critical)
        BY DEF Admin!AcceptsWrites, Admin!Status
    <2> QED BY <2>2, <2>3
<1>2. ASSUME NEW less \in 0 .. incoming,
             Admin!AcceptsWrites(free, incoming, warning, critical)
      PROVE  Admin!AcceptsWrites(free, less, warning, critical)
    BY <1>1, <1>2
<1> QED BY <1>1, <1>2

(***************************************************************************)
(* The upload of an image for the server, whatever the owner has put in    *)
(* the slots: the new file, of a random name, is there and named; one file *)
(* at most is gone, and a slot keeps the file it names unless it names     *)
(* that one.                                                               *)
(***************************************************************************)
THEOREM BrandingStaysOnDisk ==
    ASSUME NEW branding, NEW disk, NEW slot, NEW file, file \notin disk,
           \A t \in DOMAIN branding : branding[t] # file, file # None
    PROVE  LET after == Admin!BrandingAfter(branding, slot, file)
               left == Admin!FilesAfter(disk, branding, slot, file)
               replaced == Admin!Field(branding, slot, None) IN
           /\ after[slot] = file /\ file \in left
           /\ disk \ left \subseteq {replaced}
           /\ \A t \in DOMAIN branding \ {slot} :
                /\ after[t] = branding[t] /\ after[t] # file
                /\ branding[t] \in disk =>
                     (after[t] \in left <=> branding[t] # replaced)
<1> DEFINE after == Admin!BrandingAfter(branding, slot, file)
           left == Admin!FilesAfter(disk, branding, slot, file)
           replaced == Admin!Field(branding, slot, None)
<1>1. after[slot] = file /\ \A t \in DOMAIN branding \ {slot} : after[t] = branding[t]
    BY DEF Admin!BrandingAfter, Admin!Overlaid, Admin!Field, Admin!Has
<1>2. replaced # file  BY DEF Admin!Field, Admin!Has
<1>3. left = (disk \cup {file}) \ {replaced}  BY DEF Admin!FilesAfter
<1> HIDE DEF after, left, replaced
<1>4. file \in left /\ disk \ left \subseteq {replaced}  BY <1>2, <1>3
<1>5. ASSUME NEW t \in DOMAIN branding \ {slot}
      PROVE  /\ after[t] = branding[t] /\ after[t] # file
             /\ branding[t] \in disk => (after[t] \in left <=> branding[t] # replaced)
    BY <1>1, <1>3
<1> QED BY <1>1, <1>4, <1>5 DEF after, left, replaced

(***************************************************************************)
(* Creating, renaming and deleting channels keeps their names apart, in    *)
(* lower case, and their places.                                           *)
(***************************************************************************)
LEMMA CreationKeepsDistinct ==
    ASSUME NEW list, Admin!ChannelsDistinct(list),
           NEW id, id \notin DOMAIN list, NEW name, NEW type,
           Admin!AcceptsChannel(list, name, type),
           NEW n \in Nat \ {0}, Admin!IsNextPosition(list, n)
    PROVE  Admin!ChannelsDistinct(Admin!ChannelsWith(list, id, name, type, n))
<1> DEFINE after == Admin!ChannelsWith(list, id, name, type, n)
<1>1. /\ DOMAIN after = DOMAIN list \cup {id}
      /\ after[id].name = name /\ after[id].position = n
      /\ \A c \in DOMAIN list : after[c] = list[c]
    BY DEF Admin!ChannelsWith
<1>2. \A c \in DOMAIN list :
        /\ list[c].name.key # name.key
        /\ list[c].position \in Nat /\ list[c].position # n
    BY DEF Admin!AcceptsChannel, Admin!Taken, Admin!IsNextPosition, Admin!ChannelsDistinct
<1> QED BY <1>1, <1>2 DEF Admin!ChannelsDistinct

LEMMA PatchKeepsDistinct ==
    ASSUME NEW list, Admin!ChannelsDistinct(list), NEW id, NEW request,
           Admin!AcceptsChannelPatch(list, id, request),
           list = [c \in DOMAIN list |-> list[c]]
    PROVE  Admin!ChannelsDistinct(Admin!ChannelsAfter(list, id, request))
<1> DEFINE after == Admin!ChannelsAfter(list, id, request)
<1>1. id \in DOMAIN list
    BY DEF Admin!AcceptsChannelPatch
<1>2. /\ DOMAIN after = DOMAIN list
      /\ after[id].position = list[id].position
      /\ after[id].name = Admin!Field(request, "name", list[id].name)
      /\ \A c \in DOMAIN list \ {id} : after[c] = list[c]
    BY <1>1 DEF Admin!ChannelsAfter
<1>3. \A c \in DOMAIN list \ {id} : list[c].name.key # after[id].name.key
    BY <1>1, <1>2 DEF Admin!Field, Admin!AcceptsChannelPatch, Admin!Taken, Admin!ChannelsDistinct
<1> QED BY <1>2, <1>3 DEF Admin!ChannelsDistinct

THEOREM ChannelsStayDistinct ==
    ASSUME NEW list, Admin!ChannelsDistinct(list),
           list = [c \in DOMAIN list |-> list[c]]
    PROVE  /\ \A id, name, type : \A n \in Nat \ {0} :
                /\ id \notin DOMAIN list
                /\ Admin!AcceptsChannel(list, name, type)
                /\ Admin!IsNextPosition(list, n)
                => Admin!ChannelsDistinct(Admin!ChannelsWith(list, id, name, type, n))
           /\ \A id, request : Admin!AcceptsChannelPatch(list, id, request) =>
                Admin!ChannelsDistinct(Admin!ChannelsAfter(list, id, request))
           /\ \A id : Admin!ChannelsDistinct(Admin!ChannelsWithout(list, id))
<1>1. ASSUME NEW id PROVE Admin!ChannelsDistinct(Admin!ChannelsWithout(list, id))
    BY DEF Admin!ChannelsWithout, Admin!ChannelsDistinct
<1> QED BY <1>1, CreationKeepsDistinct, PatchKeepsDistinct
=============================================================================

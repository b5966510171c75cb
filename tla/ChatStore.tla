----------------------------- MODULE ChatStore -----------------------------
(***************************************************************************)
(* The chat rows and files of server/src/server.js: channels, the messages *)
(* of a plaintext channel, and the attachments, plaintext and encrypted,   *)
(* whose rows are in SQLite and whose bytes are files beside it.           *)
(*                                                                         *)
(* A handler is one step up to an await, or up to a place where the end of *)
(* the process leaves half of its work behind: between two statements that *)
(* share no transaction, or between a transaction and the files it makes   *)
(* superfluous.  Until such a handler is through (busy) no other one runs. *)
(* What only refuses a request (its form, a taken name, a full disk, a     *)
(* rate limit) may happen at any time and changes nothing.  A row of the   *)
(* encrypted log of a channel (MlsDelivery) is external here: it only      *)
(* refers to its channel.  The retention sweep finds nothing: no row has   *)
(* an expires_at, see README.                                              *)
(***************************************************************************)
EXTENDS Naturals, FiniteSets

CONSTANTS
    Channels,        \* ids of channels, never used twice
    Users, Owner,
    Uploads,         \* upload requests; one stands for its file as well
    Ids, Contents,   \* of encrypted attachments
    MaxMessages,     \* bounds the ids of messages
    MaxStored,       \* file_storage_max_total_bytes, in files of equal size
    None

ASSUME OwnerAssumption == Owner \in Users
ASSUME MaxAssumption == MaxMessages \in Nat
VARIABLES
    channels,        \* type and encryption mode of a channel
    logged,          \* channels with rows in the tables of the MLS log
    messages, next,  \* messages by id, and the id of the next one
    rows,            \* attachments: the row of the file that an upload stored
    encrypted,       \* encrypted_attachments
    files,           \* the files under DATA_ROOT
    uploads,         \* the requests, and how far they are
    busy             \* what is left of a handler that is not through

vars == <<channels, logged, messages, next, rows, encrypted, files, uploads, busy>>

------------------------------------------------------------------------------
MessageIds == 1 .. MaxMessages
Messages == [channel : Channels, by : Users, text : BOOLEAN]
Rows == [channel : Channels, by : Users, message : MessageIds \cup {None}]
EncryptedRows == [channel : Channels, by : Users, content : Contents, file : Uploads]
Requests == [channel : Channels, by : Users, id : Ids \cup {None},
             content : Contents \cup {None}, at : {"stored", "hashing", "kept", "refused"}]

ASSUME NoneAssumption ==
    /\ None \notin Users \cup Channels \cup Uploads \cup Ids \cup Contents \cup Nat
    /\ None \notin Messages \cup Rows \cup EncryptedRows \cup Requests

Modes == {"unused", "legacy", "e2ee", "voice", "deleted"}
Live == {c \in Channels : channels[c] \notin {"unused", "deleted"}}

Of(m) == {u \in Uploads : rows[u] # None /\ rows[u].message = m}
EncryptedOf(c) == {i \in Ids : encrypted[i] # None /\ encrypted[i].channel = c}

\* getAttachmentTotalBytes does not count the encrypted attachments.
OrdinaryTotal == Cardinality({u \in Uploads : rows[u] # None})
Total == OrdinaryTotal + Cardinality({i \in Ids : encrypted[i] # None})

\* rejectPlaintextForEncryptedChannel lets these pass, and no one changes a mode.
Plaintext(c) == channels[c] = "legacy"
EndToEnd(c) == channels[c] = "e2ee"

\* What the two download handlers send.
Downloadable(u) == rows[u] # None /\ rows[u].channel \in Live /\ u \in files
EncryptedDownloadable(i, c) ==
    /\ encrypted[i] # None /\ encrypted[i].channel = c
    /\ EndToEnd(c)
    /\ encrypted[i].file \in files

Idle == busy = None

(***************************************************************************)
(* seedDefaultChannels: a server without channels gets its first ones, how *)
(* many is left open.  They are plaintext channels.  (When the ids of this *)
(* bounded model are used up it gets none.)                                *)
(***************************************************************************)
Seeded(modes) ==
    LET unused == {c \in Channels : modes[c] = "unused"} IN
    IF unused # {} /\ \A c \in Channels : modes[c] \in {"unused", "deleted"}
    THEN {[c \in Channels |-> IF c \in seeds THEN "legacy" ELSE modes[c]] :
            seeds \in (SUBSET unused) \ {{}}}
    ELSE {modes}

Init ==
    /\ channels \in Seeded([c \in Channels |-> "unused"])
    /\ logged = {}
    /\ messages = [m \in MessageIds |-> None]
    /\ next = 1
    /\ rows = [u \in Uploads |-> None]
    /\ encrypted = [i \in Ids |-> None]
    /\ files = {}
    /\ uploads = [u \in Uploads |-> None]
    /\ busy = None

------------------------------------------------------------------------------
(***************************************************************************)
(* POST and DELETE of a channel.  A text channel is encrypted from its     *)
(* creation.  The rows of the MLS log and of encrypted attachments refer   *)
(* to the channel, and its deletion does not touch them: SQLite refuses to *)
(* delete it, and the transaction is rolled back.                          *)
(***************************************************************************)
CreateChannel(c, mode) ==
    /\ Idle
    /\ channels[c] = "unused"
    /\ channels' = [channels EXCEPT ![c] = mode]
    /\ UNCHANGED <<logged, messages, next, rows, encrypted, files, uploads, busy>>

\* The first row of the MLS log that refers to a channel.
StartLog(c) ==
    /\ Idle
    /\ EndToEnd(c)
    /\ logged' = logged \cup {c}
    /\ UNCHANGED <<channels, messages, next, rows, encrypted, files, uploads, busy>>

Referred(c) == c \in logged \/ EncryptedOf(c) # {}

AttachedTo(c) == {u \in Uploads : rows[u] # None /\ rows[u].channel = c}

\* Mutant of Emptied: the attachments of messages stay behind.
EmptiedOfPending(c) ==
    [u \in Uploads |-> IF u \in AttachedTo(c) /\ rows[u].message = None
                       THEN None ELSE rows[u]]

Emptied(c) == [u \in Uploads |-> IF u \in AttachedTo(c) THEN None ELSE rows[u]]

DeleteChannel(c) ==
    /\ Idle
    /\ c \in Live
    /\ ~Referred(c)
    /\ rows' = Emptied(c)
    /\ messages' = [m \in MessageIds |->
                      IF messages[m] # None /\ messages[m].channel = c
                      THEN None ELSE messages[m]]
    /\ channels' = [channels EXCEPT ![c] = "deleted"]
    /\ busy' = [remove |-> AttachedTo(c)]
    /\ UNCHANGED <<logged, next, encrypted, files, uploads>>

\* removeAttachmentFile, one by one after the transaction
RemoveFile ==
    /\ ~Idle /\ "remove" \in DOMAIN busy
    /\ \/ /\ busy.remove = {}
          /\ busy' = None
          /\ UNCHANGED files
       \/ \E u \in busy.remove :
            /\ files' = files \ {u}
            /\ busy' = [busy EXCEPT !.remove = @ \ {u}]
    /\ UNCHANGED <<channels, logged, messages, next, rows, encrypted, uploads>>

------------------------------------------------------------------------------
(***************************************************************************)
(* The upload of a file.  multer has stored it when the handler runs.  The *)
(* content of a plaintext attachment does not matter.                      *)
(***************************************************************************)
Receive(u, c, p, i, content) ==
    /\ uploads[u] = None
    /\ (i = None) = (content = None)
    /\ uploads' = [uploads EXCEPT ![u] =
         [channel |-> c, by |-> p, id |-> i, content |-> content, at |-> "stored"]]
    /\ files' = files \cup {u}
    /\ UNCHANGED <<channels, logged, messages, next, rows, encrypted, busy>>

\* fs.unlink of the file of a refused request, and the end of the request
Refuse(u) ==
    /\ uploads' = [uploads EXCEPT ![u].at = "refused"]
    /\ files' = files \ {u}
    /\ UNCHANGED <<rows, encrypted>>

(***************************************************************************)
(* POST /api/uploads/attachments, after multer.                            *)
(***************************************************************************)
Attach(u) ==
    LET r == uploads[u] IN
    /\ Idle
    /\ r # None /\ r.at = "stored" /\ r.id = None
    /\ \/ /\ Plaintext(r.channel)
          /\ OrdinaryTotal + 1 <= MaxStored
          /\ rows' = [rows EXCEPT ![u] =
               [channel |-> r.channel, by |-> r.by, message |-> None]]
          /\ uploads' = [uploads EXCEPT ![u].at = "kept"]
          /\ UNCHANGED <<encrypted, files>>
       \/ Refuse(u)
    /\ UNCHANGED <<channels, logged, messages, next, busy>>

(***************************************************************************)
(* POST .../encrypted-attachments: the first half ends with the await of   *)
(* sha256File; the second half does not look at the channel again, but the *)
(* row of an attachment refers to it.                                      *)
(***************************************************************************)
Hash(u) ==
    LET r == uploads[u] IN
    /\ Idle
    /\ r # None /\ r.at = "stored" /\ r.id # None
    /\ \/ /\ EndToEnd(r.channel)
          /\ uploads' = [uploads EXCEPT ![u].at = "hashing"]
          /\ UNCHANGED <<rows, encrypted, files>>
       \/ Refuse(u)
    /\ UNCHANGED <<channels, logged, messages, next, busy>>

SameAttachment(r) ==
    LET known == encrypted[r.id] IN
    /\ known.channel = r.channel /\ known.by = r.by /\ known.content = r.content

\* Mutant of Superfluous: a repeated upload replaces the file of the first.
SuperfluousFirst(u) == {encrypted[uploads[u].id].file}

\* discardUpload of a repeated upload
Superfluous(u) == {u}

EncryptedAttach(u) ==
    LET r == uploads[u] IN
    /\ Idle
    /\ r # None /\ r.at = "hashing"
    /\ \/ /\ encrypted[r.id] = None
          /\ Total + 1 <= MaxStored
          /\ r.channel \in Live
          /\ encrypted' = [encrypted EXCEPT ![r.id] =
               [channel |-> r.channel, by |-> r.by, content |-> r.content, file |-> u]]
          /\ uploads' = [uploads EXCEPT ![u].at = "kept"]
          /\ UNCHANGED <<rows, files>>
       \/ /\ encrypted[r.id] # None
          /\ SameAttachment(r)
          /\ files' = files \ Superfluous(u)
          /\ uploads' = [uploads EXCEPT ![u].at = "kept"]
          /\ UNCHANGED <<rows, encrypted>>
       \/ Refuse(u)
    /\ UNCHANGED <<channels, logged, messages, next, busy>>

------------------------------------------------------------------------------
(***************************************************************************)
(* Messages of a plaintext channel.  POST inserts the message and links    *)
(* its attachments with two statements.                                    *)
(***************************************************************************)
\* Mutant of Pending: the channel of the attachment is not compared.
PendingAnywhere(u, c, p) ==
    rows[u] # None /\ rows[u].message = None /\ rows[u].by = p

Pending(u, c, p) ==
    rows[u] # None /\ rows[u].message = None /\ rows[u].by = p /\ rows[u].channel = c

Post(c, p, text, attached) ==
    /\ Idle
    /\ Plaintext(c)
    /\ text \/ attached # {}
    /\ \A u \in attached : Pending(u, c, p)
    /\ next <= MaxMessages
    /\ messages' = [messages EXCEPT ![next] = [channel |-> c, by |-> p, text |-> text]]
    /\ next' = next + 1
    /\ busy' = [link |-> attached]
    /\ UNCHANGED <<channels, logged, rows, encrypted, files, uploads>>

\* linkAttachmentsToMessage, then message:new to every socket
Link ==
    /\ ~Idle /\ "link" \in DOMAIN busy
    /\ rows' = [u \in Uploads |->
         IF u \in busy.link THEN [rows[u] EXCEPT !.message = next - 1] ELSE rows[u]]
    /\ busy' = None
    /\ UNCHANGED <<channels, logged, messages, next, encrypted, files, uploads>>

\* PATCH: the author; a message keeps text or an attachment.
Edit(m, p, text) ==
    /\ Idle
    /\ messages[m] # None
    /\ messages[m].by = p
    /\ Plaintext(messages[m].channel)
    /\ text \/ Of(m) # {}
    /\ messages' = [messages EXCEPT ![m].text = text]
    /\ UNCHANGED <<channels, logged, next, rows, encrypted, files, uploads, busy>>

(***************************************************************************)
(* DELETE: the author or the owner.  The rows of its attachments go on     *)
(* referring to the message (they are only marked), so SQLite refuses to   *)
(* delete one that has any, and no file is removed.                        *)
(***************************************************************************)
DeleteMessage(m, p) ==
    /\ Idle
    /\ messages[m] # None
    /\ p \in {messages[m].by, Owner}
    /\ Of(m) = {}
    /\ messages' = [messages EXCEPT ![m] = None]
    /\ UNCHANGED <<channels, logged, next, rows, encrypted, files, uploads, busy>>

------------------------------------------------------------------------------
(***************************************************************************)
(* The end of the process, at any point, and its next start: requests are  *)
(* lost, what they stored stays.                                           *)
(***************************************************************************)
Restart ==
    /\ uploads' = [u \in Uploads |->
         IF uploads[u] # None /\ uploads[u].at \in {"stored", "hashing"}
         THEN [uploads[u] EXCEPT !.at = "refused"] ELSE uploads[u]]
    /\ busy' = None
    /\ channels' \in Seeded(channels)
    /\ UNCHANGED <<logged, messages, next, rows, encrypted, files>>

Next ==
    \/ \E c \in Channels : (\E mode \in {"e2ee", "voice"} : CreateChannel(c, mode))
                           \/ StartLog(c) \/ DeleteChannel(c)
    \/ RemoveFile
    \/ \E u \in Uploads :
         \/ \E c \in Channels, p \in Users, i \in Ids \cup {None}, x \in Contents \cup {None} :
              channels[c] # "unused" /\ Receive(u, c, p, i, x)
         \/ Attach(u) \/ Hash(u) \/ EncryptedAttach(u)
    \/ \E c \in Channels, p \in Users, text \in BOOLEAN, attached \in SUBSET Uploads :
         Post(c, p, text, attached)
    \/ Link
    \/ \E m \in MessageIds, p \in Users :
         (\E text \in BOOLEAN : Edit(m, p, text)) \/ DeleteMessage(m, p)
    \/ Restart

Spec == Init /\ [][Next]_vars

------------------------------------------------------------------------------
(***************************************************************************)
(* Every variable keeps the shape of its table, and every reference that   *)
(* the schema declares resolves.                                           *)
(***************************************************************************)
TypeOK ==
    /\ channels \in [Channels -> Modes]
    /\ logged \subseteq Live
    /\ messages \in [MessageIds -> Messages \cup {None}]
    /\ next \in 1 .. MaxMessages + 1
    /\ rows \in [Uploads -> Rows \cup {None}]
    /\ encrypted \in [Ids -> EncryptedRows \cup {None}]
    /\ files \subseteq Uploads
    /\ uploads \in [Uploads -> Requests \cup {None}]
    /\ busy \in [remove : SUBSET Uploads] \cup [link : SUBSET Uploads] \cup {None}
    /\ \A m \in MessageIds : messages[m] # None =>
         m < next /\ messages[m].channel \in Live
    /\ \A u \in Uploads : rows[u] # None =>
         /\ rows[u].channel \in Live
         /\ rows[u].message # None => messages[rows[u].message] # None
    /\ \A i \in Ids : encrypted[i] # None => encrypted[i].channel \in Live

(***************************************************************************)
(* An upload that the server has answered with success stays available:    *)
(* its row, its bytes, its channel and its uploader are those of the       *)
(* request, until the channel of a plaintext attachment is deleted.  So it *)
(* is through repeated and overlapping uploads under one id, deletions     *)
(* that SQLite refuses, and ends of the process at any point.              *)
(***************************************************************************)
KeptIsServed ==
    \A u \in Uploads : uploads[u] # None /\ uploads[u].at = "kept" =>
      LET r == uploads[u] IN
      IF r.id = None
      THEN \/ channels[r.channel] = "deleted"
           \/ /\ Downloadable(u)
              /\ rows[u].channel = r.channel /\ rows[u].by = r.by
      ELSE /\ EncryptedDownloadable(r.id, r.channel)
           /\ SameAttachment(r)
           /\ uploads[encrypted[r.id].file].content = r.content

(***************************************************************************)
(* An attachment is shown where and by whom it was uploaded: it belongs to *)
(* a message of its own channel and of its own uploader, whatever became   *)
(* of that channel and of the messages since it was uploaded.              *)
(***************************************************************************)
AttachmentsFollowMessages ==
    \A u \in Uploads : rows[u] # None /\ rows[u].message # None =>
      LET m == messages[rows[u].message] IN
      m # None /\ m.channel = rows[u].channel /\ m.by = rows[u].by
=============================================================================

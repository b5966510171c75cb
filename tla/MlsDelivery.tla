----------------------------- MODULE MlsDelivery -----------------------------
(***************************************************************************)
(* The delivery service of one end-to-end encrypted text channel           *)
(* (server/src/server.js, /api/channels/:channelId/mls/...): creation of   *)
(* the channel's MLS state, the ordered log of opaque MLS messages, the    *)
(* routing metadata of encrypted events, the encrypted attachments those   *)
(* events bind, and the cursor the server keeps for every reading device.  *)
(*                                                                         *)
(* better-sqlite3 is synchronous and Node runs one handler at a time, so a *)
(* handler between two awaits is one atomic step: every action below is    *)
(* one HTTP request.  A request may arrive any number of times and its     *)
(* answer may be lost, so a request that is answered without a state       *)
(* change is no action: its answer is Outcome(r), which the properties     *)
(* read.                                                                   *)
(***************************************************************************)
EXTENDS Integers, FiniteSets, MlsDevices

CONSTANTS
    Users,          \* the accounts
    UserOf,         \* the account each device belongs to
    Owner,          \* the account with role 'owner'
    Enrolled,       \* the devices with a row in mls_device_credentials
    Readers,        \* the devices whose fetches and acknowledgements are explored
    Operations,     \* the client operation ids a device chooses from
    EventIds,       \* the ids of encrypted events
    Kinds,          \* the kinds of encrypted events that are explored
    Attachments,    \* the ids of encrypted attachments
    Limits,         \* the page sizes a reader asks for
    MaxEpoch,       \* bound: the epochs requests name are 0..MaxEpoch
    MaxSequence     \* bound: the log holds at most this many messages

ASSUME DeliveryAssumption ==
    /\ UserOf \in [Devices -> Users]
    /\ Enrolled \subseteq Devices
    /\ Readers \subseteq Devices
    /\ Kinds \subseteq {"message", "edit", "delete", "reaction", "attachment"}
    /\ Limits \subseteq Nat \ {0}
    /\ MaxEpoch \in Nat
    /\ MaxSequence \in Nat
    /\ None \notin Devices \cup EventIds \cup Int

VARIABLES
    founder,        \* initialized_by_device_id, or None before initialization
    epoch,          \* mls_channel_state.current_epoch
    nextSequence,   \* mls_channel_state.next_sequence
    deliveries,     \* mls_delivery_messages with their encrypted_message_events
    attachments,    \* encrypted_attachments
    cursors,        \* mls_device_cursors
    revoked,        \* the devices with revoked_at set
    banned          \* the accounts with an active row in bans

vars ==
    <<founder, epoch, nextSequence, deliveries, attachments, cursors, revoked, banned>>

------------------------------------------------------------------------------
(***************************************************************************)
(* The requests as a client forms them: a handler answers 400 to others    *)
(* before it reads any state, or mls_epoch_conflict where parentEpoch does *)
(* not go with the class.  The bytes of the wire message are one more      *)
(* field that a retry has to repeat; the fields kept here stand for it.    *)
(***************************************************************************)
Epochs == 0 .. MaxEpoch

Mutations == {"edit", "delete", "reaction"}

Event(i, k, t, f) == [id |-> i, kind |-> k, target |-> t, files |-> f]

Events ==
    {Event(i, k, t, {}) : i \in EventIds, k \in Kinds \cap Mutations, t \in EventIds}
    \cup {Event(i, k, t, {}) :
            i \in EventIds, k \in Kinds \cap {"message"}, t \in EventIds \cup {None}}
    \cup {Event(i, k, t, f) :
            i \in EventIds, k \in Kinds \cap {"attachment"}, t \in EventIds \cup {None},
            f \in (SUBSET Attachments) \ {{}}}

Request(d, o, c, p, e, t, v) ==
    [by |-> d, op |-> o, class |-> c, parent |-> p, accepted |-> e, to |-> t, event |-> v]

Requests ==
    {Request(d, o, c, p, e, None, None) :
        d \in Devices, o \in Operations, c \in {"commit", "proposal"},
        p \in Epochs, e \in Epochs}
    \cup {Request(d, o, "welcome", None, e, t, None) :
            d \in Devices, o \in Operations, e \in Epochs, t \in Devices}
    \cup {Request(d, o, "application", None, e, None, v) :
            d \in Devices, o \in Operations, e \in Epochs, v \in Events}

(***************************************************************************)
(* A row of mls_device_cursors: the last sequence handed to the device,    *)
(* and the last sequence and epoch it has acknowledged.                    *)
(***************************************************************************)
Cursors == [delivered : Nat, acked : Nat, ackedEpoch : Nat]

ASSUME NullAssumption == None \notin Events \cup Cursors

(***************************************************************************)
(* The epoch a client built a request in.  A device never reaches an epoch *)
(* before the server has accepted the commit that opens it.                *)
(***************************************************************************)
BuiltIn(r) == IF r.class \in {"commit", "proposal"} THEN r.parent ELSE r.accepted

------------------------------------------------------------------------------
Active(d) == d \notin revoked /\ UserOf[d] \notin banned

EventRows == {row \in deliveries : row.req.class = "application"}

BoundTo(e) == {a \in Attachments : attachments[a].event = e}

(***************************************************************************)
(* What a device may read: everything but the Welcomes of other devices.   *)
(***************************************************************************)
Visible(row, d) == row.req.class = "welcome" => row.req.to = d

------------------------------------------------------------------------------
(***************************************************************************)
(* The checks of POST /mls/messages, in the order of the handler.          *)
(***************************************************************************)
RecipientAllowed(r) == r.class = "welcome" => Active(r.to)

\* Mutant: the lookup of an operation is scoped to the message type.
EarlierOfClass(r) ==
    {row \in deliveries :
        row.req.by = r.by /\ row.req.op = r.op /\ row.req.class = r.class}

Earlier(r) == {row \in deliveries : row.req.by = r.by /\ row.req.op = r.op}

SameOperation(row, r) ==
    /\ row.req = r
    /\ r.event # None => BoundTo(r.event.id) = r.event.files

\* Mutant: a handshake message only has to agree with itself.
EpochConsistent(r) ==
    CASE r.class = "commit" -> r.accepted = r.parent + 1
      [] r.class = "proposal" -> r.accepted = r.parent
      [] OTHER -> r.accepted = epoch

EpochCurrent(r) ==
    CASE r.class = "commit" -> r.parent = epoch /\ r.accepted = epoch + 1
      [] r.class = "proposal" -> r.parent = epoch /\ r.accepted = epoch
      [] OTHER -> r.accepted = epoch

TargetKinds(kind) == IF kind = "edit" THEN {"message"} ELSE {"message", "attachment"}

TargetsOf(e) == {row \in EventRows : row.req.event.id = e.target}

\* Mutant: any event may be a target.
TargetKnown(e) == e.target # None => TargetsOf(e) # {}

TargetExists(e) ==
    e.target # None =>
        \E row \in TargetsOf(e) : row.req.event.kind \in TargetKinds(e.kind)

MutationAllowed(e, d) ==
    \A row \in TargetsOf(e) :
        CASE e.kind = "edit" -> UserOf[row.req.by] = UserOf[d]
          [] e.kind = "delete" -> UserOf[d] \in {UserOf[row.req.by], Owner}
          [] OTHER -> TRUE

FreshEvent(e) == \A row \in EventRows : row.req.event.id # e.id

\* Mutant: an attachment that is already bound may be bound again.
LinkableAgain(a, d) == attachments[a].by = d

Linkable(a, d) == attachments[a].by = d /\ attachments[a].event = None

(***************************************************************************)
(* The answer to request r: "accepted" appends it (201), "replayed" gives  *)
(* back the row it made before (200), every other answer is an error that  *)
(* rolls the transaction back.                                             *)
(***************************************************************************)
NewOutcome(r) ==
    IF founder = None THEN "mls_group_not_initialized"
    ELSE IF ~EpochCurrent(r) THEN "mls_epoch_conflict"
    ELSE IF r.event = None THEN "accepted"
    ELSE IF ~TargetExists(r.event) THEN "invalid_encrypted_event_reference"
    ELSE IF ~MutationAllowed(r.event, r.by) THEN "encrypted_event_mutation_forbidden"
    ELSE IF ~FreshEvent(r.event) THEN "duplicate_encrypted_event"
    ELSE IF \E a \in r.event.files : ~Linkable(a, r.by)
        THEN "invalid_encrypted_attachment_reference"
    ELSE "accepted"

\* Mutant: the state of the channel is checked before the retry is recognised.
OutcomeEpochFirst(r) ==
    IF ~RecipientAllowed(r) THEN "invalid_mls_delivery_recipient"
    ELSE IF Earlier(r) = {} \/ ~EpochCurrent(r) THEN NewOutcome(r)
    ELSE IF \A row \in Earlier(r) : SameOperation(row, r) THEN "replayed"
    ELSE "mls_operation_conflict"

Outcome(r) ==
    IF ~RecipientAllowed(r) THEN "invalid_mls_delivery_recipient"
    ELSE IF Earlier(r) = {} THEN NewOutcome(r)
    ELSE IF \A row \in Earlier(r) : SameOperation(row, r) THEN "replayed"
    ELSE "mls_operation_conflict"

------------------------------------------------------------------------------
Init ==
    /\ founder = None
    /\ epoch = 0
    /\ nextSequence = 1
    /\ deliveries = {}
    /\ attachments = [a \in Attachments |-> [by |-> None, event |-> None]]
    /\ cursors = [d \in Devices |-> None]
    /\ revoked = {}
    /\ banned = {}

\* Mutant of Initialize: the state is created again on every call.
InitializeAgain(d) ==
    /\ Active(d)
    /\ UserOf[d] = Owner
    /\ d \in Enrolled
    /\ founder' = d
    /\ epoch' = 0
    /\ nextSequence' = 1
    /\ UNCHANGED <<deliveries, attachments, cursors, revoked, banned>>

(***************************************************************************)
(* POST /mls/initialize.  Only an owner's enrolled device creates the      *)
(* state; every later call reads it back with created: false.              *)
(***************************************************************************)
Initialize(d) ==
    /\ Active(d)
    /\ founder = None
    /\ UserOf[d] = Owner
    /\ d \in Enrolled
    /\ founder' = d
    /\ epoch' = 0
    /\ nextSequence' = 1
    /\ UNCHANGED <<deliveries, attachments, cursors, revoked, banned>>

\* Mutant of EpochAfter: every handshake message writes its epoch back.
EpochAfterAny(r) == IF r.class = "commit" THEN r.accepted ELSE r.parent

EpochAfter(r) == IF r.class = "commit" THEN r.accepted ELSE epoch

(***************************************************************************)
(* POST /mls/messages, when the request is new and every check holds: one  *)
(* transaction gives it the next sequence, binds the attachments of its    *)
(* event and advances the channel's epoch for a commit.                    *)
(***************************************************************************)
Submit(r) ==
    /\ Active(r.by)
    /\ Outcome(r) = "accepted"
    /\ deliveries' = deliveries \cup {[seq |-> nextSequence, req |-> r]}
    /\ attachments' =
         IF r.event = None THEN attachments
         ELSE [a \in Attachments |->
                 IF a \in r.event.files
                 THEN [attachments[a] EXCEPT !.event = r.event.id]
                 ELSE attachments[a]]
    /\ epoch' = EpochAfter(r)
    /\ nextSequence' = nextSequence + 1
    /\ UNCHANGED <<founder, cursors, revoked, banned>>

(***************************************************************************)
(* GET /mls/messages?after=&limit=: the first limit visible rows after the *)
(* position the reader names.  A page that is not empty raises the         *)
(* reader's delivered mark, and makes the cursor row when there is none.   *)
(***************************************************************************)
Page(d, after, limit) ==
    LET waiting == {row \in deliveries : Visible(row, d) /\ row.seq > after}
    IN  {row \in waiting :
            Cardinality({q \in waiting : q.seq <= row.seq}) <= limit}

Last(page) == {row \in page : \A q \in page : q.seq <= row.seq}

Fetch(d, after, limit) ==
    LET old == IF cursors[d] = None
               THEN [delivered |-> 0, acked |-> 0, ackedEpoch |-> 0]
               ELSE cursors[d]
    IN  /\ Active(d)
        /\ founder # None
        /\ \E row \in Last(Page(d, after, limit)) :
             cursors' = [cursors EXCEPT ![d] =
               [old EXCEPT !.delivered = IF row.seq > @ THEN row.seq ELSE @]]
        /\ UNCHANGED <<founder, epoch, nextSequence, deliveries, attachments, revoked, banned>>

\* Mutant of Acceptable: what was sent counts as delivered.
AcceptableSent(d, s, e) ==
    /\ founder # None
    /\ cursors[d] # None
    /\ s \in cursors[d].acked .. nextSequence - 1
    /\ e \in cursors[d].ackedEpoch .. epoch

\* Mutant of Acceptable: the acknowledged epoch is not compared.
AcceptableAnyEpoch(d, s, e) ==
    /\ founder # None
    /\ cursors[d] # None
    /\ s \in cursors[d].acked .. cursors[d].delivered
    /\ e <= epoch

(***************************************************************************)
(* POST /mls/ack.  An acknowledgement ahead of what was delivered, behind  *)
(* what was acknowledged, or without a cursor row is refused (409).        *)
(***************************************************************************)
Acceptable(d, s, e) ==
    /\ founder # None
    /\ cursors[d] # None
    /\ s \in cursors[d].acked .. cursors[d].delivered
    /\ e \in cursors[d].ackedEpoch .. epoch

Acknowledge(d, s, e) ==
    /\ Active(d)
    /\ Acceptable(d, s, e)
    /\ cursors' = [cursors EXCEPT ![d].acked = s, ![d].ackedEpoch = e]
    /\ UNCHANGED <<founder, epoch, nextSequence, deliveries, attachments, revoked, banned>>

(***************************************************************************)
(* POST /encrypted-attachments stores a ciphertext under the id its        *)
(* uploader chose; uploading the same id again changes nothing.  The       *)
(* handler awaits the digest of the file between the check of the session  *)
(* and the insertion, so the row may appear after its uploader was revoked *)
(* or banned.  It stays: retention is indefinite (migration 4 clears every *)
(* expires_at and the settings accept no other), so the retention timer    *)
(* finds no encrypted attachment.                                          *)
(***************************************************************************)
Upload(d, a) ==
    /\ attachments[a].by = None
    /\ attachments' = [attachments EXCEPT ![a].by = d]
    /\ UNCHANGED <<founder, epoch, nextSequence, deliveries, cursors, revoked, banned>>

(***************************************************************************)
(* DELETE /api/media/devices/:deviceId by the device's account or by the   *)
(* owner: the device's sessions end, its rows stay.                        *)
(***************************************************************************)
Revoke(d) ==
    /\ Active(d)
    /\ revoked' = revoked \cup {d}
    /\ UNCHANGED <<founder, epoch, nextSequence, deliveries, attachments, cursors, banned>>

(***************************************************************************)
(* POST and DELETE /api/admin/bans.  A ban ends the sessions of the        *)
(* account, never the owner's; lifting it lets its devices sign in again.  *)
(***************************************************************************)
Ban(u) ==
    /\ u # Owner
    /\ u \notin banned
    /\ banned' = banned \cup {u}
    /\ UNCHANGED <<founder, epoch, nextSequence, deliveries, attachments, cursors, revoked>>

Unban(u) ==
    /\ u \in banned
    /\ banned' = banned \ {u}
    /\ UNCHANGED <<founder, epoch, nextSequence, deliveries, attachments, cursors, revoked>>

Next ==
    \/ \E d \in Devices : Initialize(d)
    \/ \E r \in Requests :
         BuiltIn(r) <= epoch /\ nextSequence <= MaxSequence /\ Submit(r)
    \/ \E d \in Readers, after \in 0 .. MaxSequence, limit \in Limits : Fetch(d, after, limit)
    \/ \E d \in Readers, s \in 0 .. MaxSequence, e \in Epochs : Acknowledge(d, s, e)
    \/ \E d \in Devices, a \in Attachments : Upload(d, a)
    \/ \E d \in Devices : Revoke(d)
    \/ \E u \in Users : Ban(u) \/ Unban(u)

Spec == Init /\ [][Next]_vars

------------------------------------------------------------------------------
(***************************************************************************)
(* Every variable keeps the shape its table's schema gives it.             *)
(***************************************************************************)
TypeOK ==
    /\ founder \in Devices \cup {None}
    /\ epoch \in Nat
    /\ nextSequence \in Nat \ {0}
    /\ deliveries \subseteq [seq : Nat \ {0}, req : Requests]
    /\ attachments \in [Attachments ->
         [by : Devices \cup {None}, event : EventIds \cup {None}]]
    /\ cursors \in [Devices -> Cursors \cup {None}]
    /\ revoked \subseteq Devices
    /\ banned \subseteq Users

(***************************************************************************)
(* The log has no hole and no fork, and it is exactly-once: the sequences  *)
(* of the accepted messages are 1 up to the last one issued, each once,    *)
(* and no device's operation id stands on two of them, however often a     *)
(* request is repeated after a lost answer.                                *)
(***************************************************************************)
ExactlyOnce ==
    /\ {row.seq : row \in deliveries} = 1 .. nextSequence - 1
    /\ \A p, q \in deliveries :
         p # q => p.seq # q.seq /\ <<p.req.by, p.req.op>> # <<q.req.by, q.req.op>>

CommitsUpTo(n) ==
    {row \in deliveries : row.req.class = "commit" /\ row.seq <= n}

(***************************************************************************)
(* Epochs and sequences agree: the channel's epoch counts the commits of   *)
(* the log, and a reader that replays the log in order meets every message *)
(* in the epoch the message names (a commit opens the epoch it names).     *)
(* This is what lets a client decrypt by replay alone.                     *)
(***************************************************************************)
EpochsFollowCommits ==
    /\ epoch = Cardinality(CommitsUpTo(nextSequence))
    /\ \A row \in deliveries : row.req.accepted = Cardinality(CommitsUpTo(row.seq))

(***************************************************************************)
(* A client that lost the answer sends its operation again, and one that   *)
(* is told mls_epoch_conflict or mls_operation_conflict for it throws away *)
(* an operation the other devices have (mls_send_coordinator.dart,         *)
(* mls_add_coordinator.dart).  So an accepted operation is replayed        *)
(* however much later its retry comes: after later commits, events,        *)
(* uploads, revocations and bans.  The one exception the handler makes is  *)
(* a Welcome whose recipient is no longer active, although                 *)
(* docs/security/MESSAGING_E2EE.md says "An exact retry returns the        *)
(* original accepted row without advancing sequence/epoch".                *)
(***************************************************************************)
RetriesReplay ==
    \A row \in deliveries :
        Active(row.req.by) /\ RecipientAllowed(row.req) => Outcome(row.req) = "replayed"

(***************************************************************************)
(* An operation the server has once refused as superseded is never         *)
(* accepted afterwards, so a copy of it that is still on its way cannot    *)
(* come back to life after its author discarded it.                        *)
(***************************************************************************)
RefusalsAreFinal ==
    [][\A r \in Requests :
          BuiltIn(r) <= epoch /\ ~EpochCurrent(r) => ~EpochCurrent(r)']_epoch

(***************************************************************************)
(* An edit, delete or reaction stands in the log after the message it      *)
(* targets, targets a root and never another mutation, and comes from an   *)
(* account that was allowed to make it; event ids are never reused.        *)
(***************************************************************************)
MutationsHaveRoots ==
    /\ \A p, q \in EventRows : p # q => p.req.event.id # q.req.event.id
    /\ \A row \in EventRows :
         row.req.event.target # None =>
           \E root \in EventRows :
             /\ root.req.event.id = row.req.event.target
             /\ root.seq < row.seq
             /\ root.req.event.kind \notin Mutations
             /\ row.req.event.kind = "edit" => UserOf[root.req.by] = UserOf[row.req.by]
             /\ row.req.event.kind = "delete" =>
                  UserOf[row.req.by] \in {UserOf[root.req.by], Owner}

(***************************************************************************)
(* Attachments and events bind atomically: an event's ciphertexts are the  *)
(* ones its request named, all of them and no other, uploaded by the same  *)
(* device; no attachment is bound to an event that is not in the log.      *)
(***************************************************************************)
AttachmentsBoundWhole ==
    /\ \A row \in EventRows :
         /\ BoundTo(row.req.event.id) = row.req.event.files
         /\ \A a \in row.req.event.files : attachments[a].by = row.req.by
    /\ \A a \in Attachments :
         attachments[a].event # None =>
           \E row \in EventRows : row.req.event.id = attachments[a].event

(***************************************************************************)
(* A cursor only marks what its device was handed: the delivered mark is   *)
(* the sequence of a message that device may read, and what it has         *)
(* acknowledged is neither past that mark nor past the channel's epoch.    *)
(***************************************************************************)
CursorsWithinDelivery ==
    \A d \in Devices :
        cursors[d] # None =>
          /\ \E row \in deliveries : Visible(row, d) /\ row.seq = cursors[d].delivered
          /\ cursors[d].acked <= cursors[d].delivered
          /\ cursors[d].ackedEpoch <= epoch

(***************************************************************************)
(* A cursor row is never removed and neither of its marks moves back, nor  *)
(* does the acknowledged epoch.                                            *)
(***************************************************************************)
CursorsMonotone ==
    [][\A d \in Devices :
          cursors[d] # None =>
            /\ cursors'[d] # None
            /\ cursors'[d].delivered >= cursors[d].delivered
            /\ cursors'[d].acked >= cursors[d].acked
            /\ cursors'[d].ackedEpoch >= cursors[d].ackedEpoch]_vars

------------------------------------------------------------------------------
(***************************************************************************)
(* The log implements the abstract one: message i of the server is entry i *)
(* of CommitLog, and the epoch it was built in is the entry's basis.       *)
(***************************************************************************)
RowAt(i) == CHOOSE row \in deliveries : row.seq = i

EntryOf(r) ==
    [by |-> r.by, op |-> r.op, commit |-> r.class = "commit", basis |-> BuiltIn(r)]

AbstractLog == [i \in 1 .. nextSequence - 1 |-> EntryOf(RowAt(i).req)]

Promise == INSTANCE CommitLog
    WITH Authors <- Devices, Ids <- Operations, log <- AbstractLog

(***************************************************************************)
(* Every step of the server is one Accept of the abstract log or leaves it *)
(* as it is.                                                               *)
(***************************************************************************)
ImplementsCommitLog == Promise!Spec
==============================================================================

----------------------------- MODULE MlsChannel -----------------------------
(***************************************************************************)
(* The clients of one encrypted channel (client/lib/data/mls_*.dart) on    *)
(* top of its delivery service (MlsDelivery).  Every device has            *)
(*   native   the protected OpenMLS state (yappa_mls/src/lib.rs), written  *)
(*            whole after every mutation (MlsLocalDevice.mutate),          *)
(*   cursor   the protected receive cursor,                                *)
(*   events   the encrypted local history,                                 *)
(*   outbox   the add-member operation that is being delivered,            *)
(* and two activities: run, which MlsServerRuntime._exclusive lets hold    *)
(* one of receive.synchronize and membership.reconcile at a time, and      *)
(* sending, a send or resumePending, which takes no part in that lock.     *)
(* The coordinators are modelled at their own interface: their callers may *)
(* call any of them at any time, in any order.  Each durable write and     *)
(* each request is a step of its own; a device may crash between any two,  *)
(* a request may be lost, and one whose answer was lost may reach the      *)
(* server much later.                                                      *)
(***************************************************************************)
EXTENDS Integers, Sequences, FiniteSets

CONSTANTS
    Devices,        \* the devices, ordered as their ids sort
    Users,          \* the accounts
    UserOf,         \* the account each device belongs to
    Owner,          \* the account with role 'owner'
    Founder,        \* the device that founded the channel
    BatchLimit,     \* the page size of receive.synchronize
    MaxSequence,    \* bound: the log holds at most this many messages
    Online,         \* the devices that run the client; the others only enroll
    Senders,        \* the devices whose user writes messages
    Removable,      \* the devices whose removal from their account is explored
    Faulty,         \* the devices whose failures are explored
    MaxTries,       \* bound: the operations each device starts
    MaxLate,        \* bound: the requests on their way without a sender
    None            \* null

ASSUME ChannelAssumption ==
    /\ Devices \subseteq Nat
    /\ IsFiniteSet(Devices)
    /\ UserOf \in [Devices -> Users]
    /\ Founder \in Devices
    /\ UserOf[Founder] = Owner
    /\ BatchLimit \in Nat \ {0}
    /\ MaxSequence \in Nat
    /\ Online \subseteq Devices
    /\ Senders \subseteq Devices
    /\ Removable \subseteq Devices
    /\ Faulty \subseteq Devices
    /\ MaxTries \in [Devices -> Nat]
    /\ MaxLate \in Nat
    /\ None \notin Devices \cup Int

VARIABLES
    founder, epoch, nextSequence, deliveries,   \* the server (MlsDelivery)
    attachments, cursors, revoked, banned,
    enrolled,   \* the devices with a row in mls_device_credentials
    late,       \* the requests whose sender gave up and that may still arrive
    native, cursor, events, outbox,             \* durable, one per device
    run, sending,                               \* volatile
    ready,      \* the Senders whose last reconciliation ended complete
    tries       \* the operations each device has started: its random ids

server == <<founder, epoch, nextSequence, deliveries, attachments, cursors, revoked, banned>>
durable == <<native, cursor, events, outbox>>
vars == <<server, enrolled, late, durable, run, sending, ready, tries>>

Server == INSTANCE MlsDelivery
    WITH Enrolled <- Devices, Readers <- Devices, Operations <- {}, EventIds <- {},
         Kinds <- {}, Attachments <- {}, Limits <- {}, MaxEpoch <- MaxSequence

------------------------------------------------------------------------------
(***************************************************************************)
(* A commit adds one device.  The state of an MLS group is the sequence of *)
(* the commits merged into it, its epoch their number.  The operation id   *)
(* of a submission stands for the wire message that goes with it: the tree *)
(* a commit or an application was made on, the tree a Welcome lets its     *)
(* recipient join.                                                         *)
(***************************************************************************)
Commit(d, x, n) == [by |-> d, adds |-> x, n |-> n]

Commits ==
    UNION {[by : {d}, adds : Devices, n : 1 .. MaxTries[d]] : d \in Devices}

Members(tree) == {Founder} \cup {tree[i].adds : i \in DOMAIN tree}

CommitRequest(d, tree, c) ==
    Server!Request(d, [n |-> c.n, commit |-> c, tree |-> tree], "commit",
                   Len(tree), Len(tree) + 1, None, None)

WelcomeRequest(d, tree, c) ==
    Server!Request(d, [n |-> c.n, tree |-> Append(tree, c)], "welcome",
                   None, Len(tree) + 1, c.adds, None)

MessageRequest(d, tree, n) ==
    Server!Request(d, [n |-> n, tree |-> tree], "application", None, Len(tree), None,
                   Server!Event(<<d, n>>, "message", None, {}))

\* The outbox holds the add that is being delivered.
Outboxes ==
    [stage : {"commitPending", "commitAccepted", "welcomePending"},
     tree : Seq(Commits), commit : Commits]

ASSUME NoneAssumption == None \notin Outboxes \cup Seq(Commits)

Least(S) == CHOOSE x \in S : \A y \in S : x <= y

(***************************************************************************)
(* fetchVerifiedDirectory: the enrolled devices that are active.           *)
(***************************************************************************)
Directory == {d \in enrolled : Server!Active(d)}

HasGroup(d) == native[d].tree # None

Idle == [at |-> "idle"]

\* Mutant of RowOf: the sequence of a replayed row is taken for the next one.
RowExpected(r) == [seq |-> nextSequence, req |-> r]

(***************************************************************************)
(* One submission: the server's answer, and the step it takes when it      *)
(* accepts.  RowOf is the row an accepted or replayed answer carries.      *)
(***************************************************************************)
Answered(r, outcomes) ==
    /\ Server!Active(r.by)
    /\ Server!Outcome(r) \in outcomes
    /\ IF Server!Outcome(r) = "accepted"
       THEN nextSequence <= MaxSequence /\ Server!Submit(r)
       ELSE UNCHANGED server

RowOf(r) ==
    IF Server!Earlier(r) = {} THEN [seq |-> nextSequence, req |-> r]
    ELSE CHOOSE row \in Server!Earlier(r) : TRUE

------------------------------------------------------------------------------
Init ==
    /\ founder = Founder
    /\ epoch = 0
    /\ nextSequence = 1
    /\ deliveries = {}
    /\ attachments = << >>
    /\ cursors = [d \in Devices |-> None]
    /\ revoked = {}
    /\ banned = {}
    /\ enrolled = {Founder}
    /\ late = {}
    /\ native = [d \in Devices |->
         [tree |-> IF d = Founder THEN << >> ELSE None, pending |-> None,
          staged |-> {}, used |-> {}, outgoing |-> None]]
    /\ cursor = [d \in Devices |-> [seq |-> 0, epoch |-> 0, joined |-> d = Founder]]
    /\ events = [d \in Devices |-> {}]
    /\ outbox = [d \in Devices |-> None]
    /\ run = [d \in Devices |-> Idle]
    /\ sending = [d \in Devices |-> Idle]
    /\ ready = {}
    /\ tries = [d \in Devices |-> 0]

(***************************************************************************)
(* A device registers its MLS credential.                                  *)
(***************************************************************************)
Enroll(d) ==
    /\ Server!Active(d)
    /\ d \notin enrolled
    /\ enrolled' = enrolled \cup {d}
    /\ UNCHANGED <<server, late, durable, run, sending, ready, tries>>

(***************************************************************************)
(* An administrator removes a device from its account.                     *)
(***************************************************************************)
RevokeDevice(d) ==
    /\ d \in enrolled \cap Removable
    /\ Server!Revoke(d)
    /\ UNCHANGED <<enrolled, late, durable, run, sending, ready, tries>>

------------------------------------------------------------------------------
(***************************************************************************)
(* MlsReceiveCoordinator.synchronize                                       *)
(***************************************************************************)
Goto(d, step) == run' = [run EXCEPT ![d] = step]

(***************************************************************************)
(* GET /mls/messages after the durable cursor, and the directory.  A       *)
(* device that has not joined passes over everything before its Welcome.   *)
(* The directory may be newer than the batch: what that can change is that *)
(* a check on it fails, and AbortRun is possible at every step.            *)
(***************************************************************************)
FetchBatch(d) ==
    LET page == Server!Page(d, cursor[d].seq, BatchLimit)
        welcomes == {row \in page : row.req.class = "welcome"}
    IN  /\ run[d] = Idle
        /\ d \in enrolled
        /\ page # {}
        /\ Server!Fetch(d, cursor[d].seq, BatchLimit)
        /\ Goto(d,
             IF cursor[d].joined \/ welcomes # {}
             THEN [at |-> "process", directory |-> Directory, joined |-> cursor[d].joined,
                   epoch |-> cursor[d].epoch, done |-> cursor[d].seq, next |-> {},
                   batch |-> {row \in page :
                     cursor[d].joined \/ \E w \in welcomes : w.seq <= row.seq}]
             ELSE Idle)
        /\ UNCHANGED <<enrolled, late, durable, sending, ready, tries>>

(***************************************************************************)
(* Nothing to fetch: a joined device acknowledges its cursor again.        *)
(***************************************************************************)
FetchNothing(d) ==
    /\ run[d] = Idle
    /\ Server!Page(d, cursor[d].seq, BatchLimit) = {}
    /\ cursor[d].joined
    /\ Server!Acknowledge(d, cursor[d].seq, cursor[d].epoch)
    /\ UNCHANGED <<enrolled, late, durable, run, sending, ready, tries>>

First(batch) == CHOOSE row \in batch : \A q \in batch : row.seq <= q.seq

(***************************************************************************)
(* What processing a row does to the MLS group: the tree after it, or None *)
(* when the row is refused (an exception, which restores the state).       *)
(* OpenMLS merges a commit only onto the tree it was made on and cannot    *)
(* read a message of its own device.                                       *)
(***************************************************************************)
TreeAfterWelcome(d, row) ==
    LET tree == IF HasGroup(d) THEN native[d].tree ELSE row.req.op.tree
    IN  IF Len(tree) = row.req.accepted /\ Members(tree) \subseteq run[d].directory
        THEN tree ELSE None

TreeAfterCommit(d, row) ==
    LET tree == native[d].tree
        next == IF Len(tree) = row.req.accepted THEN tree
                ELSE IF tree = row.req.op.tree /\ row.req.by # d
                THEN Append(tree, row.req.op.commit)
                ELSE None
    IN  IF next # None /\ row.req.parent = run[d].epoch
                       /\ Members(next) \subseteq run[d].directory
        THEN next ELSE None

(***************************************************************************)
(* A handshake message; merging somebody's commit drops the pending one.   *)
(***************************************************************************)
ProcessHandshake(d) ==
    LET row == First(run[d].batch)
        tree == IF row.req.class = "welcome" THEN TreeAfterWelcome(d, row)
                ELSE TreeAfterCommit(d, row)
    IN  /\ run[d].at = "process"
        /\ run[d].batch # {}
        /\ row.req.class = IF run[d].joined THEN "commit" ELSE "welcome"
        /\ tree # None
        /\ native' = [native EXCEPT ![d].tree = tree,
                        ![d].pending = IF tree = native[d].tree THEN @ ELSE None]
        /\ Goto(d, [run[d] EXCEPT !.batch = @ \ {row}, !.done = row.seq,
                                  !.joined = TRUE, !.epoch = row.req.accepted])
        /\ UNCHANGED <<server, enrolled, late, cursor, events, outbox, sending, ready, tries>>

(***************************************************************************)
(* MlsEventStore.apply leaves a row it already has; any other one it       *)
(* checks against the history in memory, awaits the write of the extended  *)
(* history and only then makes it current.                                 *)
(***************************************************************************)
Entry(row) == [seq |-> row.seq, event |-> row.req.event]

Appendable(d, row) ==
    \A e \in events[d] : e.seq < row.seq /\ e.event.id # row.req.event.id

Extended(d, row) == events[d] \cup {Entry(row)}

Readable(d, row) ==
    /\ run[d].at = "process"
    /\ run[d].batch # {}
    /\ run[d].joined
    /\ row.req.class = "application"
    /\ row.req.accepted = run[d].epoch
    /\ Members(native[d].tree) = run[d].directory

(***************************************************************************)
(* stageApplication: decrypts once and keeps the plaintext in the          *)
(* protected state.                                                        *)
(***************************************************************************)
StageRow(d) ==
    LET row == First(run[d].batch)
    IN  /\ Readable(d, row)
        /\ \A e \in events[d] : e.seq # row.seq
        /\ \/ row.seq \in native[d].staged
           \/ row.seq \notin native[d].used /\ row.req.by # d /\ native[d].tree = row.req.op.tree
        /\ native' = [native EXCEPT ![d].staged = @ \cup {row.seq}, ![d].used = @ \cup {row.seq}]
        /\ Goto(d, [run[d] EXCEPT !.at = "apply"])
        /\ UNCHANGED <<server, enrolled, late, cursor, events, outbox, sending, ready, tries>>

ApplyRow(d) ==
    LET row == First(run[d].batch)
    IN  /\ run[d].at = "apply"
        /\ \/ /\ Entry(row) \in events[d]
              /\ Goto(d, [run[d] EXCEPT !.at = "clear"])
           \/ /\ Appendable(d, row)
              /\ Goto(d, [run[d] EXCEPT !.at = "persist", !.next = Extended(d, row)])
        /\ UNCHANGED <<server, enrolled, late, durable, sending, ready, tries>>

PersistRow(d) ==
    /\ run[d].at = "persist"
    /\ events' = [events EXCEPT ![d] = run[d].next]
    /\ Goto(d, [run[d] EXCEPT !.at = "clear", !.next = {}])
    /\ UNCHANGED <<server, enrolled, late, native, cursor, outbox, sending, ready, tries>>

\* Mutant of ClearRow: the record of used keys is dropped with the plaintext's.
ClearUsed(d) ==
    LET row == First(run[d].batch)
    IN  /\ \/ run[d].at = "clear"
           \/ Readable(d, row) /\ \E e \in events[d] : e.seq = row.seq
        /\ native' = [native EXCEPT ![d].used = @ \ {row.seq}]
        /\ Goto(d, [run[d] EXCEPT !.at = "process", !.batch = @ \ {row}, !.done = row.seq])
        /\ UNCHANGED <<server, enrolled, late, cursor, events, outbox, sending, ready, tries>>

(***************************************************************************)
(* clearStagedApplication, for a row just stored and for one the history   *)
(* already holds.                                                          *)
(***************************************************************************)
ClearRow(d) ==
    LET row == First(run[d].batch)
    IN  /\ \/ run[d].at = "clear"
           \/ Readable(d, row) /\ \E e \in events[d] : e.seq = row.seq
        /\ native' = [native EXCEPT ![d].staged = @ \ {row.seq}]
        /\ Goto(d, [run[d] EXCEPT !.at = "process", !.batch = @ \ {row}, !.done = row.seq])
        /\ UNCHANGED <<server, enrolled, late, cursor, events, outbox, sending, ready, tries>>

\* Mutant of WriteCursor: only the sequence advances.
WriteSequence(d) ==
    /\ run[d].at = "process"
    /\ run[d].batch = {}
    /\ run[d].joined
    /\ cursor' = [cursor EXCEPT ![d] = [@ EXCEPT !.seq = run[d].done, !.joined = TRUE]]
    /\ Goto(d, [at |-> "acknowledge"])
    /\ UNCHANGED <<server, enrolled, late, native, events, outbox, sending, ready, tries>>

(***************************************************************************)
(* The end of the batch: the cursor is written once, then acknowledged.    *)
(***************************************************************************)
WriteCursor(d) ==
    /\ run[d].at = "process"
    /\ run[d].batch = {}
    /\ run[d].joined
    /\ cursor' = [cursor EXCEPT ![d] =
         [seq |-> run[d].done, epoch |-> run[d].epoch, joined |-> TRUE]]
    /\ Goto(d, [at |-> "acknowledge"])
    /\ UNCHANGED <<server, enrolled, late, native, events, outbox, sending, ready, tries>>

\* Mutant: the batch is acknowledged before the cursor is written.
AcknowledgeEarly(d) ==
    /\ run[d].at = "process"
    /\ run[d].batch = {}
    /\ Server!Acknowledge(d, run[d].done, run[d].epoch)
    /\ UNCHANGED <<enrolled, late, durable, run, sending, ready, tries>>

AcknowledgeBatch(d) ==
    /\ run[d].at = "acknowledge"
    /\ Server!Acknowledge(d, cursor[d].seq, cursor[d].epoch)
    /\ Goto(d, Idle)
    /\ UNCHANGED <<enrolled, late, durable, sending, ready, tries>>

------------------------------------------------------------------------------
(***************************************************************************)
(* MlsMembershipCoordinator.reconcile and MlsAddCoordinator.  The pending  *)
(* operation is resumed first; todo is None until the missing devices have *)
(* been determined, then the devices still to be added.                    *)
(***************************************************************************)
Reconcile(d) ==
    /\ run[d] = Idle
    /\ HasGroup(d)
    /\ Goto(d, [at |-> "resume", todo |-> None])
    /\ UNCHANGED <<server, enrolled, late, durable, sending, ready, tries>>

Resuming(d, stage) ==
    /\ run[d].at = "resume"
    /\ outbox[d] # None
    /\ outbox[d].stage = stage

OutboxRequest(d) ==
    IF outbox[d].stage = "commitPending" THEN CommitRequest(d, outbox[d].tree, outbox[d].commit)
    ELSE WelcomeRequest(d, outbox[d].tree, outbox[d].commit)

(***************************************************************************)
(* The commit is submitted, and the answer is written to the outbox.       *)
(***************************************************************************)
SubmitCommit(d) ==
    /\ Resuming(d, "commitPending")
    /\ Answered(OutboxRequest(d), {"accepted", "replayed"})
    /\ Goto(d, [run[d] EXCEPT !.at = "committed"])
    /\ UNCHANGED <<enrolled, late, durable, sending, ready, tries>>

CommitConflict(d) ==
    /\ Resuming(d, "commitPending")
    /\ Answered(OutboxRequest(d), {"mls_epoch_conflict"})
    /\ Goto(d, [run[d] EXCEPT !.at = IF Len(native[d].tree) = Len(outbox[d].tree)
                                     THEN "reject" ELSE "discard"])
    /\ UNCHANGED <<enrolled, late, durable, sending, ready, tries>>

(***************************************************************************)
(* rejectPendingCommit, which fails when nothing is pending; then the      *)
(* operation is thrown away and the exception passed on.                   *)
(***************************************************************************)
RejectPending(d) ==
    /\ run[d].at = "reject"
    /\ native[d].pending # None
    /\ native' = [native EXCEPT ![d].pending = None]
    /\ Goto(d, [run[d] EXCEPT !.at = "discard"])
    /\ UNCHANGED <<server, enrolled, late, cursor, events, outbox, sending, ready, tries>>

Discard(d) ==
    /\ run[d].at = "discard"
    /\ outbox' = [outbox EXCEPT ![d] = None]
    /\ Goto(d, Idle)
    /\ UNCHANGED <<server, enrolled, late, native, cursor, events, sending, ready, tries>>

WriteCommitted(d) ==
    /\ run[d].at = "committed"
    /\ outbox' = [outbox EXCEPT ![d].stage = "commitAccepted"]
    /\ Goto(d, [run[d] EXCEPT !.at = "resume"])
    /\ UNCHANGED <<server, enrolled, late, native, cursor, events, sending, ready, tries>>

\* Mutant of MergePending: the commit is merged before the server has answered.
MergeEarly(d) ==
    /\ Resuming(d, "commitPending")
    /\ native[d].pending # None
    /\ native' = [native EXCEPT ![d].tree = Append(@, native[d].pending), ![d].pending = None]
    /\ UNCHANGED <<server, enrolled, late, cursor, events, outbox, run, sending, ready, tries>>

(***************************************************************************)
(* acceptPendingCommit, unless the device is already in the epoch the      *)
(* commit opens.                                                           *)
(***************************************************************************)
MergePending(d) ==
    /\ Resuming(d, "commitAccepted")
    /\ \/ /\ Len(native[d].tree) = Len(outbox[d].tree)
          /\ native[d].pending # None
          /\ native' = [native EXCEPT ![d].tree = Append(@, native[d].pending),
                                      ![d].pending = None]
       \/ /\ Len(native[d].tree) = Len(outbox[d].tree) + 1
          /\ UNCHANGED native
    /\ Goto(d, [run[d] EXCEPT !.at = "merged"])
    /\ UNCHANGED <<server, enrolled, late, cursor, events, outbox, sending, ready, tries>>

WriteMerged(d) ==
    /\ run[d].at = "merged"
    /\ outbox' = [outbox EXCEPT ![d].stage = "welcomePending"]
    /\ Goto(d, [run[d] EXCEPT !.at = "resume"])
    /\ UNCHANGED <<server, enrolled, late, native, cursor, events, sending, ready, tries>>

SubmitWelcome(d) ==
    /\ Resuming(d, "welcomePending")
    /\ Answered(OutboxRequest(d), {"accepted", "replayed"})
    /\ Goto(d, [run[d] EXCEPT !.at = "welcomed"])
    /\ UNCHANGED <<enrolled, late, durable, sending, ready, tries>>

ClearOutbox(d) ==
    /\ run[d].at = "welcomed"
    /\ outbox' = [outbox EXCEPT ![d] = None]
    /\ Goto(d, [run[d] EXCEPT !.at = IF run[d].todo = None THEN "resume" ELSE "add"])
    /\ UNCHANGED <<server, enrolled, late, native, cursor, events, sending, ready, tries>>

(***************************************************************************)
(* With nothing to resume: the device with the least id among the owner's  *)
(* members leads, and adds every device the directory has and the tree     *)
(* lacks.                                                                  *)
(***************************************************************************)
Leaders(tree) == {x \in Members(tree) : UserOf[x] = Owner}

Survey(d) ==
    LET tree == native[d].tree
        waiting == Directory \ Members(tree)
        leads == d = Least(Leaders(tree))
    IN  /\ run[d].at = "resume"
        /\ run[d].todo = None
        /\ outbox[d] = None
        /\ Server!Active(d)
        /\ Members(tree) \subseteq Directory
        /\ IF leads /\ waiting # {}
           THEN Goto(d, [at |-> "add", todo |-> waiting]) /\ UNCHANGED ready
           ELSE Goto(d, Idle)
                /\ ready' = IF waiting = {} THEN ready \cup ({d} \cap Senders) ELSE ready \ {d}
        /\ UNCHANGED <<server, enrolled, late, durable, sending, tries>>

(***************************************************************************)
(* claimKeyPackage and prepareAdd: the commit is staged in the protected   *)
(* state before the outbox knows of it.                                    *)
(***************************************************************************)
PrepareAdd(d) ==
    LET x == Least(run[d].todo)
        c == Commit(d, x, tries[d] + 1)
    IN  /\ run[d].at = "add"
        /\ run[d].todo # {}
        /\ x \in Directory
        /\ outbox[d] = None
        /\ native[d].pending = None
        /\ tries[d] < MaxTries[d]
        /\ tries' = [tries EXCEPT ![d] = @ + 1]
        /\ native' = [native EXCEPT ![d].pending = c]
        /\ Goto(d, [at |-> "prepared", todo |-> run[d].todo \ {x}, tree |-> native[d].tree])
        /\ UNCHANGED <<server, enrolled, late, cursor, events, outbox, sending, ready>>

WriteOutbox(d) ==
    /\ run[d].at = "prepared"
    /\ outbox' = [outbox EXCEPT ![d] =
         [stage |-> "commitPending", tree |-> run[d].tree, commit |-> native[d].pending]]
    /\ Goto(d, [at |-> "resume", todo |-> run[d].todo])
    /\ UNCHANGED <<server, enrolled, late, native, cursor, events, sending, ready, tries>>

(***************************************************************************)
(* All are added: the tree has to match the directory, read once more.     *)
(***************************************************************************)
Complete(d) ==
    /\ run[d].at = "add"
    /\ run[d].todo = {}
    /\ Server!Active(d)
    /\ Members(native[d].tree) = Directory
    /\ ready' = ready \cup ({d} \cap Senders)
    /\ Goto(d, Idle)
    /\ UNCHANGED <<server, enrolled, late, durable, sending, tries>>

------------------------------------------------------------------------------
(***************************************************************************)
(* MlsSendCoordinator                                                      *)
(***************************************************************************)
Step(d, step) == sending' = [sending EXCEPT ![d] = step]

(***************************************************************************)
(* stage: the plaintext and its one ciphertext are kept in the protected   *)
(* state; a commit that is pending refuses it.                             *)
(***************************************************************************)
StageMessage(d) ==
    /\ sending[d] = Idle
    /\ d \in ready
    /\ native[d].outgoing = None
    /\ native[d].pending = None
    /\ tries[d] < MaxTries[d]
    /\ tries' = [tries EXCEPT ![d] = @ + 1]
    /\ native' = [native EXCEPT ![d].outgoing =
         MessageRequest(d, native[d].tree, tries[d] + 1)]
    /\ Step(d, [at |-> "submit"])
    /\ UNCHANGED <<server, enrolled, late, cursor, events, outbox, run, ready>>

ResumePending(d) ==
    /\ sending[d] = Idle
    /\ native[d].outgoing # None
    /\ Step(d, [at |-> "submit"])
    /\ UNCHANGED <<server, enrolled, late, durable, run, ready, tries>>

SubmitMessage(d) ==
    LET r == native[d].outgoing
    IN  /\ sending[d].at = "submit"
        /\ Answered(r, {"accepted", "replayed"})
        /\ Step(d, [at |-> "apply", row |-> RowOf(r)])
        /\ UNCHANGED <<enrolled, late, durable, run, ready, tries>>

(***************************************************************************)
(* An epoch conflict throws the message away.                              *)
(***************************************************************************)
MessageConflict(d) ==
    /\ sending[d].at = "submit"
    /\ Answered(native[d].outgoing, {"mls_epoch_conflict"})
    /\ native' = [native EXCEPT ![d].outgoing = None]
    /\ Step(d, Idle)
    /\ UNCHANGED <<enrolled, late, cursor, events, outbox, run, ready, tries>>

(***************************************************************************)
(* The sender stores its own message under the sequence it was given, with *)
(* the same apply that the receiver uses.                                  *)
(***************************************************************************)
ApplyMessage(d) ==
    LET row == sending[d].row
    IN  /\ sending[d].at = "apply"
        /\ \/ /\ Entry(row) \in events[d]
              /\ Step(d, [at |-> "clear"])
           \/ /\ Appendable(d, row)
              /\ Step(d, [at |-> "persist", next |-> Extended(d, row)])
        /\ UNCHANGED <<server, enrolled, late, durable, run, ready, tries>>

PersistMessage(d) ==
    /\ sending[d].at = "persist"
    /\ events' = [events EXCEPT ![d] = sending[d].next]
    /\ Step(d, [at |-> "clear"])
    /\ UNCHANGED <<server, enrolled, late, native, cursor, outbox, run, ready, tries>>

ClearMessage(d) ==
    /\ sending[d].at = "clear"
    /\ native' = [native EXCEPT ![d].outgoing = None]
    /\ Step(d, Idle)
    /\ UNCHANGED <<server, enrolled, late, cursor, events, outbox, run, ready, tries>>

------------------------------------------------------------------------------
(***************************************************************************)
(* Failures.  A request may be slow: its sender gives up, or sends it once *)
(* more, and the first copy arrives later, its answer reaching nobody.     *)
(***************************************************************************)
InFlight(d) ==
    (IF Resuming(d, "commitPending") \/ Resuming(d, "welcomePending")
     THEN {OutboxRequest(d)} ELSE {})
    \cup (IF sending[d].at = "submit" THEN {native[d].outgoing} ELSE {})

Delay(r) ==
    /\ Cardinality(late) < MaxLate
    /\ late' = late \cup {r}
    /\ UNCHANGED <<server, enrolled, durable, run, sending, ready, tries>>

Arrive(r) ==
    /\ Answered(r, {"accepted"})
    /\ late' = late \ {r}
    /\ UNCHANGED <<enrolled, durable, run, sending, ready, tries>>

(***************************************************************************)
(* Every await may throw, and every check that fails does: the activity    *)
(* ends where it is and what it has written stays.                         *)
(***************************************************************************)
AbortRun(d) ==
    /\ run[d] # Idle
    /\ Goto(d, Idle)
    /\ UNCHANGED <<server, enrolled, late, durable, sending, ready, tries>>

AbortSend(d) ==
    /\ sending[d] # Idle
    /\ Step(d, Idle)
    /\ UNCHANGED <<server, enrolled, late, durable, run, ready, tries>>

Crash(d) ==
    /\ <<run[d], sending[d], d \in ready>> # <<Idle, Idle, FALSE>>
    /\ run' = [run EXCEPT ![d] = Idle]
    /\ sending' = [sending EXCEPT ![d] = Idle]
    /\ ready' = ready \ {d}
    /\ UNCHANGED <<server, enrolled, late, durable, tries>>

Receive(d) ==
    \/ FetchBatch(d) \/ FetchNothing(d)
    \/ ProcessHandshake(d) \/ StageRow(d) \/ ApplyRow(d) \/ PersistRow(d) \/ ClearRow(d)
    \/ WriteCursor(d) \/ AcknowledgeBatch(d)

Membership(d) ==
    \/ Reconcile(d) \/ SubmitCommit(d) \/ CommitConflict(d) \/ RejectPending(d)
    \/ Discard(d) \/ WriteCommitted(d) \/ MergePending(d) \/ WriteMerged(d)
    \/ SubmitWelcome(d) \/ ClearOutbox(d) \/ Survey(d) \/ PrepareAdd(d) \/ WriteOutbox(d)
    \/ Complete(d)

Send(d) ==
    \/ StageMessage(d) \/ ResumePending(d) \/ SubmitMessage(d) \/ MessageConflict(d)
    \/ ApplyMessage(d) \/ PersistMessage(d) \/ ClearMessage(d)

Fail(d) == (\E r \in InFlight(d) : Delay(r)) \/ AbortRun(d) \/ AbortSend(d) \/ Crash(d)

Next ==
    \/ \E d \in Devices :
         Enroll(d) \/ RevokeDevice(d)
    \/ \E d \in Online : Receive(d) \/ Membership(d) \/ Send(d)
    \/ \E d \in Online \cap Faulty : Fail(d)
    \/ \E r \in late : Arrive(r)

Spec == Init /\ [][Next]_vars

------------------------------------------------------------------------------
Rows == {row \in deliveries : row.req.class = "application"}

(***************************************************************************)
(* The protected state, the cursor, the outbox and the activities keep the *)
(* shapes their encodings check when they are read back.                   *)
(***************************************************************************)
TypeOK ==
    /\ epoch \in 0 .. MaxSequence
    /\ nextSequence \in 1 .. MaxSequence + 1
    /\ enrolled \subseteq Devices
    /\ \A d \in Devices :
         /\ native[d].tree \in Seq(Commits) \cup {None}
         /\ native[d].pending \in Commits \cup {None}
         /\ native[d].staged \subseteq native[d].used
         /\ cursor[d].seq \in Nat /\ cursor[d].epoch \in Nat
         /\ ~cursor[d].joined => cursor[d].seq = 0 /\ cursor[d].epoch = 0
         /\ outbox[d] \in Outboxes \cup {None}
    /\ ready \subseteq enrolled \cap Senders
    /\ \A d \in Devices : tries[d] \in 0 .. MaxTries[d]

(***************************************************************************)
(* The commits of the log, in order.                                       *)
(***************************************************************************)
CommitRows(n) == {row \in deliveries : row.req.class = "commit" /\ row.seq <= n}

CommitAt(e) == CHOOSE row \in CommitRows(nextSequence) : row.req.accepted = e

(***************************************************************************)
(* No fork: whatever was lost, delayed or repeated and wherever a device   *)
(* crashed, its MLS group is the result of the first commits of the        *)
(* server's log.  Nobody merges a commit the server has refused or has not *)
(* yet accepted, nobody merges one twice.                                  *)
(***************************************************************************)
TreesFollowLog ==
    \A d \in Devices :
        HasGroup(d) =>
          /\ Len(native[d].tree) <= epoch
          /\ \A e \in DOMAIN native[d].tree : native[d].tree[e] = CommitAt(e).req.op.commit

(***************************************************************************)
(* The durable cursor names a point of the log: its epoch is the one the   *)
(* log is in after the cursor's sequence, and the MLS state, which is      *)
(* written earlier, is never behind it.                                    *)
(***************************************************************************)
CursorOnLog ==
    \A d \in Devices :
        cursor[d].joined =>
          /\ cursor[d].epoch = Cardinality(CommitRows(cursor[d].seq))
          /\ HasGroup(d)
          /\ cursor[d].epoch <= Len(native[d].tree)

(***************************************************************************)
(* A device acknowledges only what a restart will not make it fetch again. *)
(***************************************************************************)
AckedIsDurable ==
    \A d \in Devices :
        cursors[d] # None =>
            cursors[d].acked <= cursor[d].seq /\ cursors[d].ackedEpoch <= cursor[d].epoch

(***************************************************************************)
(* What a device has in its history is what the log has at that sequence,  *)
(* its own messages included, although it writes those before it receives  *)
(* them; and every message is there at most once.                          *)
(***************************************************************************)
StoredAsDelivered ==
    \A d \in Devices :
        /\ \A e \in events[d] : \E row \in Rows : Entry(row) = e
        /\ \A e, f \in events[d] : e.seq = f.seq => e = f

(***************************************************************************)
(* Once a commit is in the log, the Welcome that goes with it is in the    *)
(* log too or its author still holds it in the outbox.  The author throws  *)
(* an operation away only when the server has refused it for good, also    *)
(* when earlier copies of the request are still on their way.              *)
(***************************************************************************)
WelcomesNotLost ==
    \A row \in CommitRows(nextSequence) :
        \/ \E w \in deliveries :
             w.req.class = "welcome" /\ w.req.by = row.req.by /\ w.req.op.n = row.req.op.n
        \/ outbox[row.req.by] # None /\ outbox[row.req.by].commit = row.req.op.commit
=============================================================================

------------------------- MODULE MlsChannel_proofs -------------------------
(***************************************************************************)
(* Proofs about the clients of an encrypted channel, for any number of     *)
(* devices and messages: no device leaves the commits of the log, no       *)
(* Welcome is lost, what is acknowledged is durable, histories hold what   *)
(* the log has, cursors name places of the log.  What a device does to     *)
(* itself is proved action by action; what it does to another one is that  *)
(* the log grows (UntouchedKeeps).                                         *)
(***************************************************************************)
EXTENDS MlsChannel, FiniteSetTheorems, WellFoundedInduction, TLAPS

USE ChannelAssumption, NoneAssumption

CommitRequests ==
    [by : Devices, op : [n : Nat, commit : Commits, tree : Seq(Commits)], class : {"commit"},
     parent : Nat, accepted : Nat, to : {None}, event : {None}]

WelcomeRequests ==
    [by : Devices, op : [n : Nat, tree : Seq(Commits)], class : {"welcome"},
     parent : {None}, accepted : Nat, to : Devices, event : {None}]

MessageRequests ==
    [by : Devices, op : [n : Nat, tree : Seq(Commits)], class : {"application"},
     parent : {None}, accepted : Nat, to : {None},
     event : [id : Devices \X Nat, kind : {"message"}, target : {None}, files : {{}}]]

Logged == {row \in deliveries : row.req.class = "commit"}

(***************************************************************************)
(* A tree whose commits are those of the log, and a request as the clients *)
(* make it: on such a tree, and, if a Welcome, for a commit in the log.    *)
(***************************************************************************)
OnLog(tree) ==
    /\ tree \in Seq(Commits)
    /\ \A e \in 1 .. Len(tree) :
         \E row \in Logged : row.req.accepted = e /\ row.req.op.commit = tree[e]

Sound(r) ==
    \/ /\ r \in CommitRequests
       /\ OnLog(r.op.tree)
       /\ r.op.commit.by = r.by /\ r.op.n = r.op.commit.n
       /\ r.parent = Len(r.op.tree) /\ r.accepted = Len(r.op.tree) + 1
    \/ r \in WelcomeRequests /\ OnLog(r.op.tree)
    \/ r \in MessageRequests

LogInv ==
    /\ epoch \in Nat /\ nextSequence \in Nat /\ epoch < nextSequence
    /\ nextSequence <= MaxSequence + 1
    /\ \A row \in deliveries : row.seq \in 1 .. nextSequence - 1 /\ Sound(row.req)
    /\ \A p, q \in deliveries : p.seq = q.seq => p = q
    /\ \A row \in Logged : row.req.accepted <= epoch /\ row.req.op.n <= tries[row.req.by]
    /\ \A p, q \in Logged : p.req.accepted = q.req.accepted => p = q

(***************************************************************************)
(* The activities, and what they carry between their steps.                *)
(***************************************************************************)
Stored == {Entry(row) : row \in Rows}

Readings ==
    [at : {"process", "apply", "persist", "clear"}, directory : SUBSET Devices,
     joined : BOOLEAN, epoch : Nat, done : Nat, next : SUBSET Stored,
     batch : SUBSET deliveries]

Memberships ==
    [at : {"resume", "committed", "reject", "discard", "merged", "welcomed", "add"},
     todo : (SUBSET Devices) \cup {None}]

Preparations == [at : {"prepared"}, todo : SUBSET Devices, tree : Seq(Commits)]

RunStates == {Idle, [at |-> "acknowledge"]} \cup Readings \cup Memberships \cup Preparations

SendStates ==
    {Idle, [at |-> "submit"], [at |-> "clear"]} \cup
    [at : {"apply"}, row : Rows] \cup [at : {"persist"}, next : SUBSET Stored]

Natives ==
    [tree : Seq(Commits) \cup {None}, pending : Commits \cup {None},
     staged : SUBSET Nat, used : SUBSET Nat, outgoing : MessageRequests \cup {None}]

Shapes ==
    /\ enrolled \subseteq Devices
    /\ ready \subseteq enrolled \cap Senders
    /\ native \in [Devices -> Natives]
    /\ cursor \in [Devices -> [seq : Nat, epoch : Nat, joined : BOOLEAN]]
    /\ cursors \in [Devices -> Server!Cursors \cup {None}]
    /\ events \in [Devices -> SUBSET Stored]
    /\ outbox \in [Devices -> Outboxes \cup {None}]
    /\ run \in [Devices -> RunStates]
    /\ sending \in [Devices -> SendStates]
    /\ tries \in [Devices -> Nat]
    /\ \A d \in Devices : tries[d] <= MaxTries[d]

------------------------------------------------------------------------------
(***************************************************************************)
(* What one device holds.                                                  *)
(***************************************************************************)
Grouped(d) == OnLog(native[d].tree) /\ d \in enrolled

\* No commit of the log is commit.
Unlogged(commit) == \A row \in Logged : row.req.op.commit # commit

NativeInv(d) ==
    /\ HasGroup(d) => Grouped(d)
    /\ native[d].staged \subseteq native[d].used
    /\ cursor[d].joined => Grouped(d)
    /\ ~cursor[d].joined => cursor[d].seq = 0 /\ cursor[d].epoch = 0
    /\ cursors[d] # None =>
         cursors[d].acked <= cursor[d].seq /\ cursors[d].ackedEpoch <= cursor[d].epoch

OutboxInv(d) ==
    LET box == outbox[d] IN
    box # None =>
        /\ OnLog(box.tree)
        /\ box.commit.by = d /\ box.commit.n <= tries[d]
        /\ box.stage # "commitPending" => OnLog(Append(box.tree, box.commit))
        /\ native[d].pending # None => native[d].pending = box.commit
        /\ \A row \in Logged : row.req.op.commit = box.commit => row.req.op.tree = box.tree

ReadingInv(d) ==
    run[d].at \in {"process", "apply", "persist", "clear"} =>
        /\ d \in enrolled
        /\ cursor[d].seq <= run[d].done /\ cursor[d].epoch <= run[d].epoch
        /\ run[d].joined => Grouped(d)
        /\ ~run[d].joined => ~cursor[d].joined
        /\ \A row \in run[d].batch : row.seq > cursor[d].seq
        /\ run[d].at # "process" => run[d].batch # {} /\ run[d].joined
        /\ run[d].at = "apply" => First(run[d].batch).req.class = "application"

MemberInv(d) ==
    /\ run[d] \in Memberships \cup Preparations => Grouped(d)
    /\ run[d].at \in {"committed", "merged", "welcomed", "reject", "discard"} =>
         outbox[d] # None
    /\ run[d].at = "add" => run[d].todo \in SUBSET Devices
    /\ run[d].at \in {"committed", "merged", "welcomed"} =>
         OnLog(Append(outbox[d].tree, outbox[d].commit))
    /\ run[d].at = "welcomed" =>
         \E w \in deliveries : w.req.class = "welcome" /\ w.req.by = d
                               /\ w.req.op.n = outbox[d].commit.n
    /\ run[d].at \in {"reject", "discard"} =>
         Len(outbox[d].tree) < epoch /\ Unlogged(outbox[d].commit)
    /\ run[d].at = "prepared" =>
         /\ outbox[d] = None
         /\ native[d].pending \in Commits
         /\ native[d].pending.by = d /\ native[d].pending.n <= tries[d]
         /\ OnLog(run[d].tree)
         /\ Unlogged(native[d].pending)

SendInv(d) ==
    /\ sending[d].at = "submit" => native[d].outgoing \in MessageRequests
    /\ d \in ready => Grouped(d)

DeviceInv(d) ==
    NativeInv(d) /\ OutboxInv(d) /\ ReadingInv(d) /\ MemberInv(d) /\ SendInv(d)

(***************************************************************************)
(* A commit that is still on its way is of the add in the outbox, or its   *)
(* epoch has passed.                                                       *)
(***************************************************************************)
OfOutbox(r) ==
    /\ outbox[r.by] # None
    /\ r.op.tree = outbox[r.by].tree /\ r.op.commit = outbox[r.by].commit

LateInv ==
    \A r \in late : Sound(r) /\ (r.class = "commit" => r.parent < epoch \/ OfOutbox(r))

Inv ==
    /\ LogInv
    /\ Shapes
    /\ \A d \in Devices : DeviceInv(d)
    /\ LateInv
    /\ WelcomesNotLost

------------------------------------------------------------------------------
LEMMA CommitFields ==
    ASSUME NEW c \in Commits
    PROVE  /\ c.by \in Devices /\ c.adds \in Devices /\ c.n \in Nat
           /\ c.n \in 1 .. MaxTries[c.by]
BY DEF Commits

LEMMA CommitBy ==
    ASSUME NEW d \in Devices, NEW x \in Devices, NEW n \in 1 .. MaxTries[d]
    PROVE  Commit(d, x, n) \in Commits
BY DEF Commit, Commits

(***************************************************************************)
(* The row with the least sequence of a batch.                             *)
(***************************************************************************)
LEMMA FirstOfBatch ==
    ASSUME NEW S, S # {}, \A row \in S : row.seq \in Nat
    PROVE  First(S) \in S
<1> DEFINE seqs == {row.seq : row \in S}
<1>1. seqs \subseteq Nat /\ seqs # {}  OBVIOUS
<1>2. PICK m \in seqs : \A n \in seqs : ~ (<<n, m>> \in OpToRel(<, Nat))
  BY <1>1, NatLessThanWellFounded, WFMin
<1>3. PICK row \in S : row.seq = m  BY <1>2
<1>4. m \in Nat /\ \A n \in Nat : n < m => <<n, m>> \in OpToRel(<, Nat)
  BY <1>1 DEF OpToRel
<1>5. ASSUME NEW n \in seqs PROVE m <= n
  <2> HIDE DEF seqs
  <2>1. n \in Nat /\ ~ (n < m)  BY <1>1, <1>2, <1>4
  <2>2. m \in Nat  BY <1>1 DEF seqs
  <2> QED BY <2>1, <2>2
<1>6. \A q \in S : row.seq <= q.seq  BY <1>3, <1>5
<1> QED BY <1>3, <1>6 DEF First

(***************************************************************************)
(* What a longer log keeps.                                                *)
(***************************************************************************)
LEMMA LogGrows ==
    ASSUME deliveries \subseteq deliveries'
    PROVE  /\ Rows \subseteq Rows' /\ Logged \subseteq Logged' /\ Stored \subseteq Stored'
           /\ \A tree : OnLog(tree) => OnLog(tree)'
           /\ \A r : Sound(r) => Sound(r)'
           /\ Readings \subseteq Readings'
           /\ RunStates \subseteq RunStates' /\ SendStates \subseteq SendStates'
<1>1. Rows \subseteq Rows' /\ Logged \subseteq Logged'  BY DEF Rows, Logged
<1>2. Stored \subseteq Stored'  BY <1>1 DEF Stored, Entry
<1>3. \A tree : OnLog(tree) => OnLog(tree)'
  BY <1>1 DEF OnLog
<1>4. \A r : Sound(r) => Sound(r)'
  BY <1>3 DEF Sound, CommitRequests, WelcomeRequests, MessageRequests, Commits
<1>5. Readings \subseteq Readings'
  BY <1>2 DEF Readings
<1>6. RunStates \subseteq RunStates'
  BY <1>5 DEF RunStates, Idle, Memberships, Preparations, Commits
<1>7. SendStates \subseteq SendStates'
  <2>1. [at : {"apply"}, row : Rows] \subseteq [at : {"apply"}, row : Rows]'  BY <1>1
  <2>2. [at : {"persist"}, next : SUBSET Stored] \subseteq
        [at : {"persist"}, next : SUBSET Stored]'  BY <1>2
  <2> QED BY <2>1, <2>2 DEF SendStates, Idle
<1> QED BY <1>1, <1>2, <1>3, <1>4, <1>5, <1>6, <1>7

(***************************************************************************)
(* Two trees of the log with as many commits are the same.                 *)
(***************************************************************************)
LEMMA SameTree ==
    ASSUME LogInv, NEW s, NEW t, OnLog(s), OnLog(t), Len(s) = Len(t)
    PROVE  s = t
<1>1. s \in Seq(Commits) /\ t \in Seq(Commits)  BY DEF OnLog
<1>2. \A e \in 1 .. Len(s) : s[e] = t[e]  BY <1>1 DEF OnLog, LogInv
<1> QED BY <1>1, <1>2

LEMMA ShorterThanEpoch ==
    ASSUME LogInv, NEW t, OnLog(t)
    PROVE  t \in Seq(Commits) /\ Len(t) \in Nat /\ Len(t) <= epoch
<1>1. t \in Seq(Commits) /\ Len(t) \in Nat  BY DEF OnLog
<1>2. CASE Len(t) = 0  BY <1>1, <1>2 DEF LogInv
<1>3. CASE Len(t) # 0
  <2>1. PICK row \in Logged : row.req.accepted = Len(t)  BY <1>1, <1>3 DEF OnLog
  <2> QED BY <2>1, <1>1 DEF LogInv
<1> QED BY <1>1, <1>2, <1>3

LEMMA OneCommitMore ==
    ASSUME deliveries \subseteq deliveries', NEW t, OnLog(t), NEW row \in Logged',
           row.req.op.commit \in Commits, row.req.accepted = Len(t) + 1
    PROVE  OnLog(Append(t, row.req.op.commit))'
<1>1. t \in Seq(Commits) /\ OnLog(t)'  BY LogGrows DEF OnLog
<1>2. Append(t, row.req.op.commit) \in Seq(Commits)  BY <1>1
<1>3. ASSUME NEW e \in 1 .. Len(t) + 1
      PROVE  \E q \in Logged' : /\ q.req.accepted = e
                                /\ q.req.op.commit = Append(t, row.req.op.commit)[e]
  BY <1>1, <1>3 DEF OnLog
<1>4. Len(Append(t, row.req.op.commit)) = Len(t) + 1  BY <1>1
<1> QED BY <1>2, <1>3, <1>4 DEF OnLog

------------------------------------------------------------------------------
(***************************************************************************)
(* The answers of the server.                                              *)
(***************************************************************************)
LEMMA Answers ==
    ASSUME NEW r
    PROVE  /\ Server!Outcome(r) = "accepted" => Server!Earlier(r) = {} /\ Server!EpochCurrent(r)
           /\ Server!Outcome(r) = "replayed" =>
                Server!Earlier(r) # {} /\ \A row \in Server!Earlier(r) : row.req = r
           /\ Server!Outcome(r) = "mls_epoch_conflict" =>
                Server!Earlier(r) = {} /\ ~Server!EpochCurrent(r)
BY DEF Server!Outcome, Server!NewOutcome, Server!SameOperation

(***************************************************************************)
(* What a message adds to the log.                                         *)
(***************************************************************************)
Appended(r) ==
    /\ deliveries' = deliveries \cup {[seq |-> nextSequence, req |-> r]}
    /\ nextSequence' = nextSequence + 1
    /\ cursors' = cursors
    /\ Server!Earlier(r) = {}
    /\ IF r.class = "commit" THEN r.parent = epoch /\ epoch' = epoch + 1
       ELSE epoch' = epoch

LEMMA AnswerAppends ==
    ASSUME NEW r, NEW outcomes, Answered(r, outcomes), Sound(r)
    PROVE  \/ UNCHANGED server /\ Server!Outcome(r) # "accepted"
           \/ Server!Outcome(r) = "accepted" /\ Appended(r) /\ nextSequence <= MaxSequence
<1>1. CASE Server!Outcome(r) # "accepted"  BY <1>1 DEF Answered
<1>2. CASE Server!Outcome(r) = "accepted"
  <2>1. Server!Submit(r) /\ nextSequence <= MaxSequence  BY <1>2 DEF Answered
  <2>2. Server!Earlier(r) = {} /\ Server!EpochCurrent(r)  BY <1>2, Answers
  <2>3. r.class = "commit" => r.parent = epoch /\ r.accepted = epoch + 1
    BY <2>2 DEF Server!EpochCurrent
  <2> QED BY <1>2, <2>1, <2>2, <2>3 DEF Server!Submit, Server!EpochAfter, Appended
<1> QED BY <1>1, <1>2

LEMMA LogKeeps ==
    ASSUME LogInv, NEW r, Sound(r), Appended(r), nextSequence <= MaxSequence,
           MaxSequence \in Nat,
           \A d \in Devices : tries'[d] = tries[d], tries \in [Devices -> Nat],
           r.class = "commit" => r.op.n <= tries[r.by]
    PROVE  LogInv'
<1> DEFINE new == [seq |-> nextSequence, req |-> r]
<1>1. deliveries \subseteq deliveries' /\ new \in deliveries'  BY DEF Appended
<1>2. /\ epoch' \in Nat /\ nextSequence' \in Nat /\ epoch' < nextSequence'
      /\ nextSequence' <= MaxSequence + 1 /\ epoch <= epoch' /\ epoch \in Nat
  BY DEF LogInv, Appended
<1>3. \A row \in deliveries' : row.seq \in 1 .. nextSequence' - 1 /\ Sound(row.req)'
  BY <1>1, LogGrows DEF LogInv, Appended
<1>4. \A p, q \in deliveries' : p.seq = q.seq => p = q
  BY DEF LogInv, Appended
<1>5. r.class = "commit" => r.accepted = epoch + 1 /\ r.by \in Devices
  BY DEF Sound, Appended, CommitRequests, WelcomeRequests, MessageRequests
<1>6. \A row \in Logged' : row \in Logged \/ (row = new /\ r.class = "commit")
  BY DEF Logged, Appended
<1>7. \A row \in Logged : row.req.by \in Devices /\ row.req.accepted \in Nat
  BY DEF Logged, LogInv, Sound, CommitRequests, WelcomeRequests, MessageRequests
<1>8. ASSUME NEW row \in Logged'
      PROVE  row.req.accepted <= epoch' /\ row.req.op.n <= tries'[row.req.by]
  <2>1. CASE row \in Logged
    <3>1. row.req.accepted <= epoch /\ row.req.op.n <= tries[row.req.by]
      BY <2>1 DEF LogInv
    <3>2. tries'[row.req.by] = tries[row.req.by]  BY <2>1, <1>7
    <3> QED BY <3>1, <3>2, <2>1, <1>2, <1>7
  <2>2. CASE row = new /\ r.class = "commit"
    <3>1. row.req = r /\ epoch' = epoch + 1 /\ r.op.n <= tries[r.by]
      BY <2>2 DEF Appended
    <3>2. tries'[r.by] = tries[r.by]  BY <2>2, <1>5
    <3> QED BY <3>1, <3>2, <2>2, <1>5, <1>2
  <2> QED BY <2>1, <2>2, <1>6
<1>9. \A p, q \in Logged' : p.req.accepted = q.req.accepted => p = q
  BY <1>5, <1>6 DEF LogInv
<1> QED BY <1>2, <1>3, <1>4, <1>8, <1>9 DEF LogInv

------------------------------------------------------------------------------
(***************************************************************************)
(* What a device keeps while the log grows and it does nothing itself.     *)
(***************************************************************************)
LEMMA Phases ==
    ASSUME Shapes, NEW d \in Devices
    PROVE  /\ run[d] \in RunStates /\ sending[d] \in SendStates
           /\ run[d].at \in {"process", "apply", "persist", "clear"} => run[d] \in Readings
           /\ run[d].at \in {"resume", "committed", "reject", "discard", "merged", "welcomed", "add"}
                => run[d] \in Memberships
           /\ run[d].at = "prepared" => run[d] \in Preparations
           /\ run[d] = Idle => run[d].at = "idle"
<1>1. run[d] \in RunStates /\ sending[d] \in SendStates  BY DEF Shapes
<1> QED BY <1>1 DEF RunStates, Readings, Memberships, Preparations, Idle

LogGrown ==
    /\ deliveries \subseteq deliveries'
    /\ epoch \in Nat /\ epoch' \in Nat /\ epoch <= epoch'
    /\ enrolled \subseteq enrolled'

\* The new commits are of others, or the one d has in its outbox.
CommitsOf(d) ==
    \A row \in Logged' \ Logged :
        \/ row.req.op.commit.by # d
        \/ /\ outbox[d] # None /\ Len(outbox[d].tree) = epoch
           /\ row.req.op.commit = outbox[d].commit /\ row.req.op.tree = outbox[d].tree

LEMMA NativeKeeps ==
    ASSUME NEW d \in Devices, LogGrown, NativeInv(d),
           native'[d] = native[d], cursor'[d] = cursor[d], cursors'[d] = cursors[d]
    PROVE  NativeInv(d)'
<1>1. Grouped(d) => Grouped(d)'  BY LogGrows DEF Grouped, LogGrown
<1> QED BY <1>1 DEF NativeInv, HasGroup

LEMMA GroupedKeeps ==
    ASSUME NEW d \in Devices, LogGrown, native'[d].tree = native[d].tree
    PROVE  Grouped(d) => Grouped(d)'
BY LogGrows DEF Grouped, LogGrown

LEMMA OutboxKeeps ==
    ASSUME NEW d \in Devices, LogGrown, Shapes, OutboxInv(d), CommitsOf(d),
           native'[d].pending = native[d].pending, outbox'[d] = outbox[d],
           tries[d] <= tries'[d], tries'[d] \in Nat
    PROVE  OutboxInv(d)'
<1> DEFINE box == outbox[d]
<1> SUFFICES ASSUME box # None PROVE OutboxInv(d)'
  BY DEF OutboxInv
<1>1. box \in Outboxes  BY DEF Shapes
<1>2. box.commit.n \in Nat /\ tries[d] \in Nat  BY <1>1, CommitFields DEF Outboxes, Shapes
<1>3. OnLog(box.tree)' /\ (box.stage # "commitPending" => OnLog(Append(box.tree, box.commit))')
  BY LogGrows DEF OutboxInv, LogGrown
<1>4. \A row \in Logged' : row.req.op.commit = box.commit => row.req.op.tree = box.tree
  BY DEF OutboxInv, CommitsOf
<1>5. box.commit.n <= tries'[d]  BY <1>2 DEF OutboxInv
<1> QED BY <1>3, <1>4, <1>5 DEF OutboxInv

LEMMA ReadingKeeps ==
    ASSUME NEW d \in Devices, LogGrown, ReadingInv(d), Grouped(d) => Grouped(d)',
           run'[d] = run[d], cursor'[d] = cursor[d]
    PROVE  ReadingInv(d)'
BY DEF ReadingInv, LogGrown, First

LEMMA MemberKeeps ==
    ASSUME NEW d \in Devices, LogGrown, Shapes, OutboxInv(d), MemberInv(d), CommitsOf(d),
           Grouped(d) => Grouped(d)', run'[d] = run[d], outbox'[d] = outbox[d],
           native'[d].pending = native[d].pending, tries[d] <= tries'[d], tries'[d] \in Nat
    PROVE  MemberInv(d)'
<1>1. run[d] \in Memberships \cup Preparations => Grouped(d)'  BY DEF MemberInv
<1>2. run[d].at \in {"committed", "merged", "welcomed"} =>
        OnLog(Append(outbox[d].tree, outbox[d].commit))'
  BY LogGrows DEF MemberInv, LogGrown
<1>3. run[d].at = "welcomed" =>
        \E w \in deliveries' : w.req.class = "welcome" /\ w.req.by = d
                               /\ w.req.op.n = outbox[d].commit.n
  BY DEF MemberInv, LogGrown
<1>4. ASSUME run[d].at \in {"reject", "discard"}
      PROVE  Len(outbox[d].tree) < epoch' /\ Unlogged(outbox[d].commit)'
  <2>1. outbox[d] \in Outboxes  BY <1>4 DEF MemberInv, Shapes
  <2>2. Len(outbox[d].tree) \in Nat /\ Len(outbox[d].tree) < epoch
    BY <1>4, <2>1 DEF MemberInv, Outboxes
  <2>3. outbox[d].commit.by = d  BY <1>4 DEF MemberInv, OutboxInv
  <2>4. Unlogged(outbox[d].commit)'
    BY <1>4, <2>2, <2>3 DEF MemberInv, Unlogged, CommitsOf, LogGrown
  <2> QED BY <2>2, <2>4 DEF LogGrown
<1>5. ASSUME run[d].at = "prepared"
      PROVE  /\ native[d].pending.n <= tries'[d]
             /\ OnLog(run[d].tree)' /\ Unlogged(native[d].pending)'
  <2>1. native[d].pending \in Commits /\ outbox[d] = None /\ native[d].pending.by = d
    BY <1>5 DEF MemberInv
  <2>2. native[d].pending.n \in Nat /\ tries[d] \in Nat /\ native[d].pending.n <= tries[d]
    BY <1>5, <2>1, CommitFields DEF MemberInv, Shapes
  <2>3. OnLog(run[d].tree)'  BY <1>5, LogGrows DEF MemberInv, LogGrown
  <2>4. Unlogged(native[d].pending)'
    BY <1>5, <2>1 DEF MemberInv, Unlogged, CommitsOf
  <2> QED BY <2>2, <2>3, <2>4
<1> QED BY <1>1, <1>2, <1>3, <1>4, <1>5 DEF MemberInv, Memberships, Preparations

LEMMA SendKeeps ==
    ASSUME NEW d \in Devices, SendInv(d), sending'[d] = sending[d],
           d \in ready' => d \in ready, Grouped(d) => Grouped(d)',
           native'[d].outgoing = native[d].outgoing
    PROVE  SendInv(d)'
BY DEF SendInv, MessageRequests, Commits

Untouched(e) ==
    /\ native'[e] = native[e] /\ cursor'[e] = cursor[e] /\ cursors'[e] = cursors[e]
    /\ outbox'[e] = outbox[e] /\ run'[e] = run[e] /\ sending'[e] = sending[e]
    /\ tries'[e] = tries[e] /\ (e \in ready' => e \in ready)

OfNobodyElse(d) == \A e \in Devices \ {d} : Untouched(e)

LEMMA UntouchedKeeps ==
    ASSUME Inv, LogGrown, NEW e \in Devices, Untouched(e), CommitsOf(e)
    PROVE  DeviceInv(e)'
<1>1. DeviceInv(e) /\ Shapes  BY DEF Inv
<1>2. /\ native'[e] = native[e] /\ cursor'[e] = cursor[e] /\ cursors'[e] = cursors[e]
      /\ outbox'[e] = outbox[e] /\ run'[e] = run[e] /\ sending'[e] = sending[e]
      /\ tries'[e] = tries[e] /\ tries[e] \in Nat /\ (e \in ready' => e \in ready)
  BY <1>1 DEF Untouched, Shapes
<1>3. Grouped(e) => Grouped(e)'  BY <1>2, GroupedKeeps
<1>4. NativeInv(e)' /\ ReadingInv(e)' /\ SendInv(e)'
  BY <1>1, <1>2, <1>3, NativeKeeps, ReadingKeeps, SendKeeps DEF DeviceInv
<1>5. OutboxInv(e)'  BY <1>1, <1>2, OutboxKeeps DEF DeviceInv
<1>6. MemberInv(e)'
  <2>1. MemberInv(e) /\ OutboxInv(e) /\ native'[e].pending = native[e].pending
        /\ tries[e] <= tries'[e] /\ tries'[e] \in Nat
    BY <1>1, <1>2 DEF DeviceInv
  <2> QED BY <1>1, <1>2, <1>3, <2>1, MemberKeeps
<1> QED BY <1>4, <1>5, <1>6 DEF DeviceInv

------------------------------------------------------------------------------
(***************************************************************************)
(* A step of one device that leaves the log alone.                         *)
(***************************************************************************)
Quiet == UNCHANGED <<epoch, nextSequence, deliveries, enrolled, late>>

ShapesNext ==
    /\ ready' \subseteq enrolled \cap Senders
    /\ native' \in [Devices -> Natives]
    /\ cursor' \in [Devices -> [seq : Nat, epoch : Nat, joined : BOOLEAN]]
    /\ cursors' \in [Devices -> Server!Cursors \cup {None}]
    /\ events' \in [Devices -> SUBSET Stored]
    /\ outbox' \in [Devices -> Outboxes \cup {None}]
    /\ run' \in [Devices -> RunStates]
    /\ sending' \in [Devices -> SendStates]
    /\ tries' \in [Devices -> Nat]
    /\ \A e \in Devices : tries[e] <= tries'[e] /\ tries'[e] <= MaxTries[e]

LEMMA QuietLog ==
    ASSUME Inv, Quiet
    PROVE  /\ LogGrown /\ deliveries' = deliveries /\ Logged' = Logged /\ epoch' = epoch
           /\ \A d \in Devices : CommitsOf(d)
           /\ \A tree : OnLog(tree) <=> OnLog(tree)'
BY DEF Inv, LogInv, Quiet, LogGrown, Logged, CommitsOf, OnLog

LEMMA QuietStep ==
    ASSUME Inv, NEW d \in Devices, Quiet, OfNobodyElse(d), ShapesNext,
           DeviceInv(d)', LateInv', WelcomesNotLost'
    PROVE  Inv'
<1>1. /\ LogGrown /\ Logged' = Logged /\ deliveries' = deliveries
      /\ \A e \in Devices : CommitsOf(e)
  BY QuietLog
<1>2. LogInv'
  <2>1. \A row \in deliveries : Sound(row.req)'  BY <1>1, LogGrows DEF Inv, LogInv, LogGrown
  <2>2. \A row \in Logged : row.req.op.n <= tries'[row.req.by]
    <3> SUFFICES ASSUME NEW row \in Logged PROVE row.req.op.n <= tries'[row.req.by]
      OBVIOUS
    <3>1. row.req.op.n \in Nat /\ row.req.by \in Devices /\ row.req.op.n <= tries[row.req.by]
      BY DEF Inv, LogInv, Logged, Sound, CommitRequests, WelcomeRequests, MessageRequests
    <3>2. tries[row.req.by] \in Nat /\ tries'[row.req.by] \in Nat
          /\ tries[row.req.by] <= tries'[row.req.by]
      BY <3>1 DEF Inv, Shapes, ShapesNext
    <3> QED BY <3>1, <3>2
  <2> QED BY <1>1, <2>1, <2>2 DEF Inv, LogInv, Quiet
<1>3. Shapes'
  <2>1. Stored \subseteq Stored' /\ RunStates \subseteq RunStates' /\ SendStates \subseteq SendStates'
    BY <1>1, LogGrows
  <2>2. events' \in [Devices -> SUBSET Stored']  BY <2>1 DEF ShapesNext
  <2>3. run' \in [Devices -> RunStates'] /\ sending' \in [Devices -> SendStates']
    BY <2>1 DEF ShapesNext
  <2>4. enrolled' = enrolled /\ enrolled \subseteq Devices  BY DEF Inv, Shapes, Quiet
  <2>5. Natives' = Natives /\ Outboxes' = Outboxes /\ Server!Cursors' = Server!Cursors
    BY DEF Natives, Commits, MessageRequests, Outboxes, Server!Cursors
  <2> HIDE DEF Natives, Outboxes, RunStates, SendStates, Stored
  <2> QED BY <2>2, <2>3, <2>4, <2>5 DEF ShapesNext, Shapes
<1>4. \A e \in Devices : DeviceInv(e)'
  <2>1. ASSUME NEW e \in Devices, e # d PROVE DeviceInv(e)'
    BY <1>1, <2>1, UntouchedKeeps DEF OfNobodyElse
  <2> QED BY <2>1
<1> QED BY <1>2, <1>3, <1>4 DEF Inv

(***************************************************************************)
(* A step that also leaves the outboxes alone.                             *)
(***************************************************************************)
LEMMA QuietDelivery ==
    ASSUME Inv, Quiet, outbox' = outbox
    PROVE  LateInv' /\ WelcomesNotLost'
<1>1. LogGrown /\ deliveries' = deliveries  BY QuietLog
<1>2. \A r : Sound(r) => Sound(r)'  BY <1>1, LogGrows
<1>3. LateInv'  BY <1>2 DEF Inv, LateInv, OfOutbox, Quiet
<1>4. WelcomesNotLost'  BY <1>1 DEF Inv, WelcomesNotLost, CommitRows, Quiet
<1> QED BY <1>3, <1>4

------------------------------------------------------------------------------
(***************************************************************************)
(* Sending.  Only the staged message of the native state changes, and the  *)
(* activity that delivers it.                                              *)
(***************************************************************************)
LEMMA RequestOfMessage ==
    ASSUME NEW d \in Devices, NEW tree \in Seq(Commits), NEW n \in Nat
    PROVE  MessageRequest(d, tree, n) \in MessageRequests
BY DEF MessageRequest, MessageRequests, Server!Request, Server!Event

\* native, sending, tries and ready of d are all that changes, its tree and pending commit stay.
Sends(d) ==
    /\ Quiet
    /\ UNCHANGED <<cursor, cursors, outbox, run>>
    /\ native' \in [Devices -> Natives] /\ sending' \in [Devices -> SendStates]
    /\ events' \in [Devices -> SUBSET Stored] /\ tries' \in [Devices -> Nat]
    /\ \A e \in Devices : tries[e] <= tries'[e] /\ tries'[e] <= MaxTries[e]
    /\ \A e \in Devices \ {d} :
         native'[e] = native[e] /\ sending'[e] = sending[e] /\ tries'[e] = tries[e]
    /\ native'[d].tree = native[d].tree /\ native'[d].pending = native[d].pending
    /\ native'[d].staged = native[d].staged /\ native'[d].used = native[d].used
    /\ ready' \subseteq ready
    /\ sending'[d].at = "submit" => native'[d].outgoing \in MessageRequests

LEMMA SendsKeep ==
    ASSUME Inv, NEW d \in Devices, Sends(d)
    PROVE  Inv'
<1>1. Shapes /\ DeviceInv(d)  BY DEF Inv
<1>2. LogGrown /\ CommitsOf(d) /\ (\A tree : OnLog(tree) <=> OnLog(tree)')
  BY QuietLog DEF Sends
<1>3. Grouped(d) => Grouped(d)'  BY <1>2, GroupedKeeps DEF Sends
<1>4. NativeInv(d)'
  <2>1. HasGroup(d)' => HasGroup(d)  BY DEF HasGroup, Sends
  <2> QED BY <1>1, <1>3, <2>1 DEF DeviceInv, NativeInv, Sends
<1>5. tries[d] <= tries'[d] /\ tries'[d] \in Nat  BY DEF Sends
<1>6. OutboxInv(d)' /\ MemberInv(d)'
  BY <1>1, <1>2, <1>3, <1>5, OutboxKeeps, MemberKeeps DEF DeviceInv, Sends
<1>7. ReadingInv(d)'  BY <1>1, <1>2, <1>3, ReadingKeeps DEF DeviceInv, Sends
<1>8. SendInv(d)'
  BY <1>1, <1>3 DEF DeviceInv, SendInv, Sends, MessageRequests, Commits
<1>9. DeviceInv(d)'  BY <1>4, <1>6, <1>7, <1>8 DEF DeviceInv
<1>10. LateInv' /\ WelcomesNotLost'  BY QuietDelivery DEF Sends
<1>11. ShapesNext  BY <1>1 DEF ShapesNext, Shapes, Sends
<1>12. OfNobodyElse(d)  BY DEF OfNobodyElse, Untouched, Sends
<1> QED BY <1>9, <1>10, <1>11, <1>12, QuietStep DEF Sends

LEMMA NativeOf ==
    ASSUME Shapes, NEW d \in Devices
    PROVE  native[d] \in Natives
BY DEF Shapes

LEMMA WithOutgoing ==
    ASSUME Shapes, NEW d \in Devices, NEW m \in MessageRequests \cup {None}
    PROVE  [native EXCEPT ![d].outgoing = m] \in [Devices -> Natives]
<1>1. native[d] \in Natives  BY DEF Shapes
<1>2. [native[d] EXCEPT !.outgoing = m] \in Natives  BY <1>1 DEF Natives
<1> QED BY <1>2 DEF Shapes

LEMMA StageMessageKeeps ==
    ASSUME Inv, NEW d \in Devices, StageMessage(d)
    PROVE  Inv'
<1>1. Shapes /\ Grouped(d)  BY DEF StageMessage, Inv, DeviceInv, SendInv
<1>2. native[d].tree \in Seq(Commits) /\ tries[d] \in Nat
  BY <1>1 DEF Grouped, OnLog, Shapes
<1>3. PICK m \in MessageRequests : native' = [native EXCEPT ![d].outgoing = m]
  <2>1. MessageRequest(d, native[d].tree, tries[d] + 1) \in MessageRequests
    BY <1>2, RequestOfMessage
  <2> QED BY <2>1 DEF StageMessage
<1>4. sending' = [sending EXCEPT ![d] = [at |-> "submit"]]  BY DEF StageMessage, Step
<1>5. native' \in [Devices -> Natives]  BY <1>1, <1>3, WithOutgoing
<1>6. sending' \in [Devices -> SendStates]  BY <1>1, <1>4 DEF Shapes, SendStates
<1>7. tries' \in [Devices -> Nat] /\ \A e \in Devices : tries[e] <= tries'[e] /\ tries'[e] <= MaxTries[e]
  <2>1. tries' = [tries EXCEPT ![d] = tries[d] + 1] /\ tries[d] < MaxTries[d]
    BY DEF StageMessage
  <2>2. tries \in [Devices -> Nat] /\ MaxTries \in [Devices -> Nat]
        /\ \A e \in Devices : tries[e] <= MaxTries[e]
    BY <1>1, ChannelAssumption DEF Shapes
  <2>3. tries' \in [Devices -> Nat] /\ tries'[d] = tries[d] + 1
        /\ \A e \in Devices \ {d} : tries'[e] = tries[e]
    BY <2>1, <2>2
  <2> QED BY <2>1, <2>2, <2>3
<1>8. /\ native'[d].outgoing = m /\ native'[d].tree = native[d].tree
      /\ native'[d].pending = native[d].pending
      /\ native'[d].staged = native[d].staged /\ native'[d].used = native[d].used
  BY <1>1, <1>3 DEF Shapes, Natives
<1>9. \A e \in Devices \ {d} :
        native'[e] = native[e] /\ sending'[e] = sending[e] /\ tries'[e] = tries[e]
  BY <1>1, <1>3, <1>4 DEF Shapes, StageMessage
<1>10. UNCHANGED <<epoch, nextSequence, deliveries, enrolled, late, cursor, cursors, outbox,
                   run, events, ready>>
  BY DEF StageMessage, server, durable
<1>11. Sends(d)
  BY <1>1, <1>5, <1>6, <1>7, <1>8, <1>9, <1>10 DEF Sends, Quiet, Shapes
<1> QED BY <1>11, SendsKeep

LEMMA ResumePendingKeeps ==
    ASSUME Inv, NEW d \in Devices, ResumePending(d)
    PROVE  Inv'
<1>1. Shapes  BY DEF Inv
<1>2. native[d] \in Natives  BY <1>1, NativeOf
<1>3. native[d].outgoing \in MessageRequests  BY <1>2 DEF ResumePending, Natives
<1>4. sending' = [sending EXCEPT ![d] = [at |-> "submit"]] /\ UNCHANGED <<native, tries, events>>
  BY DEF ResumePending, Step, durable
<1>5. sending' \in [Devices -> SendStates]  BY <1>1, <1>4 DEF Shapes, SendStates
<1>6. UNCHANGED <<epoch, nextSequence, deliveries, enrolled, late, cursor, cursors, outbox,
                  run, ready>>
  BY DEF ResumePending, server, durable
<1> HIDE DEF SendStates, Natives, MessageRequests
<1>7. /\ native' \in [Devices -> Natives] /\ native[d].outgoing \in MessageRequests
      /\ events' \in [Devices -> SUBSET Stored] /\ tries' \in [Devices -> Nat]
      /\ \A e \in Devices : tries[e] <= tries'[e] /\ tries'[e] <= MaxTries[e]
  BY <1>1, <1>3, <1>4 DEF Shapes
<1>8. \A e \in Devices \ {d} :
        native'[e] = native[e] /\ sending'[e] = sending[e] /\ tries'[e] = tries[e]
  BY <1>1, <1>4 DEF Shapes
<1>9. Quiet /\ UNCHANGED <<cursor, cursors, outbox, run, ready, native>>
  BY <1>4, <1>6 DEF Quiet
<1>10. Sends(d)  BY <1>5, <1>7, <1>8, <1>9 DEF Sends
<1> QED BY <1>10, SendsKeep

(***************************************************************************)
(* The steps that end or advance a send without a request.                 *)
(***************************************************************************)
LEMMA SendMovesOn ==
    ASSUME Inv, NEW d \in Devices, NEW step \in SendStates, step.at # "submit",
           sending' = [sending EXCEPT ![d] = step],
           native' = native \/ native' = [native EXCEPT ![d].outgoing = None],
           events' \in [Devices -> SUBSET Stored], Quiet,
           UNCHANGED <<cursor, cursors, outbox, run, tries>>, ready' \subseteq ready
    PROVE  Inv'
<1>1. Shapes  BY DEF Inv
<1>2. sending' \in [Devices -> SendStates]  BY <1>1 DEF Shapes
<1>3. native' \in [Devices -> Natives]
  <2>1. native \in [Devices -> Natives]  BY <1>1 DEF Shapes
  <2>2. [native EXCEPT ![d].outgoing = None] \in [Devices -> Natives]  BY <1>1, WithOutgoing
  <2> QED BY <2>1, <2>2
<1>4. /\ native'[d].tree = native[d].tree /\ native'[d].pending = native[d].pending
      /\ native'[d].staged = native[d].staged /\ native'[d].used = native[d].used
  BY <1>1 DEF Shapes, Natives
<1>5. \A e \in Devices \ {d} : native'[e] = native[e] /\ sending'[e] = sending[e]
  BY <1>1 DEF Shapes
<1>6. sending'[d].at # "submit"  BY <1>1 DEF Shapes
<1>7. tries \in [Devices -> Nat] /\ \A e \in Devices : tries[e] <= tries[e] /\ tries[e] <= MaxTries[e]
  BY <1>1 DEF Shapes
<1> HIDE DEF SendStates, Natives
<1>8. Sends(d)  BY <1>2, <1>3, <1>4, <1>5, <1>6, <1>7 DEF Sends
<1> QED BY <1>8, SendsKeep

LEMMA ClearMessageKeeps ==
    ASSUME Inv, NEW d \in Devices, ClearMessage(d) \/ MessageConflict(d)
    PROVE  Inv'
<1>1. Idle \in SendStates /\ Idle.at # "submit"  BY DEF SendStates, Idle
<1>2. /\ sending' = [sending EXCEPT ![d] = Idle] /\ native' = [native EXCEPT ![d].outgoing = None]
      /\ UNCHANGED <<enrolled, late, cursor, events, outbox, run, ready, tries>>
  BY DEF ClearMessage, MessageConflict, Step
<1>3. UNCHANGED server
  <2>1. CASE ClearMessage(d)  BY <2>1 DEF ClearMessage
  <2>2. CASE MessageConflict(d)
    BY <2>2 DEF MessageConflict, Answered
  <2> QED BY <2>1, <2>2
<1>4. events \in [Devices -> SUBSET Stored]  BY DEF Inv, Shapes
<1>5. Quiet /\ cursors' = cursors  BY <1>2, <1>3 DEF Quiet, server
<1> QED BY <1>1, <1>2, <1>4, <1>5, SendMovesOn

LEMMA EntriesAreStored ==
    ASSUME NEW row \in Rows
    PROVE  Entry(row) \in Stored
BY DEF Stored

LEMMA ApplyMessageKeeps ==
    ASSUME Inv, NEW d \in Devices, ApplyMessage(d)
    PROVE  Inv'
<1>1. Shapes /\ sending[d] \in SendStates  BY Phases DEF Inv
<1>2. sending[d].row \in Rows
  BY <1>1 DEF ApplyMessage, SendStates, Idle
<1>3. events[d] \in SUBSET Stored  BY <1>1 DEF Shapes
<1>4. Extended(d, sending[d].row) \in SUBSET Stored
  BY <1>2, <1>3, EntriesAreStored DEF Extended
<1>5. PICK step \in SendStates :
        step.at # "submit" /\ sending' = [sending EXCEPT ![d] = step]
  <2>1. [at |-> "clear"] \in SendStates  BY DEF SendStates
  <2>2. [at |-> "persist", next |-> Extended(d, sending[d].row)] \in SendStates
    BY <1>4 DEF SendStates
  <2> QED BY <2>1, <2>2 DEF ApplyMessage, Step
<1>6. Quiet /\ UNCHANGED <<cursor, cursors, outbox, run, tries, native, ready, events>>
  BY DEF ApplyMessage, Quiet, server, durable
<1>7. events' \in [Devices -> SUBSET Stored]  BY <1>1, <1>6 DEF Shapes
<1> QED BY <1>5, <1>6, <1>7, SendMovesOn

LEMMA PersistMessageKeeps ==
    ASSUME Inv, NEW d \in Devices, PersistMessage(d)
    PROVE  Inv'
<1>1. Shapes /\ sending[d] \in SendStates  BY Phases DEF Inv
<1>2. sending[d].next \in SUBSET Stored
  BY <1>1 DEF PersistMessage, SendStates, Idle
<1>3. events' \in [Devices -> SUBSET Stored]
  BY <1>1, <1>2 DEF PersistMessage, Shapes
<1>4. [at |-> "clear"] \in SendStates  BY DEF SendStates
<1>5. Quiet /\ UNCHANGED <<cursor, cursors, outbox, run, tries, native, ready>>
      /\ sending' = [sending EXCEPT ![d] = [at |-> "clear"]]
  BY DEF PersistMessage, Step, Quiet, server
<1> QED BY <1>3, <1>4, <1>5, SendMovesOn

LEMMA AbortSendKeeps ==
    ASSUME Inv, NEW d \in Devices, AbortSend(d)
    PROVE  Inv'
<1>1. Idle \in SendStates /\ Idle.at # "submit"  BY DEF SendStates, Idle
<1>2. sending' = [sending EXCEPT ![d] = Idle] /\ Quiet
      /\ UNCHANGED <<cursor, cursors, outbox, run, tries, native, ready, events>>
  BY DEF AbortSend, Step, Quiet, server, durable
<1>3. events \in [Devices -> SUBSET Stored]  BY DEF Inv, Shapes
<1> QED BY <1>1, <1>2, <1>3, SendMovesOn

------------------------------------------------------------------------------
(***************************************************************************)
(* Requests.  The log may get one more row, of the request; a commit is    *)
(* accepted only while its author has it in the outbox.                    *)
(***************************************************************************)
LEMMA SoundCommit ==
    ASSUME NEW r, Sound(r), r.class = "commit"
    PROVE  /\ r \in CommitRequests /\ OnLog(r.op.tree)
           /\ r.op.commit.by = r.by /\ r.op.n = r.op.commit.n
           /\ r.parent = Len(r.op.tree) /\ r.accepted = Len(r.op.tree) + 1
BY DEF Sound, CommitRequests, WelcomeRequests, MessageRequests

LEMMA AnswerKeeps ==
    ASSUME Inv, NEW r, NEW outcomes, Answered(r, outcomes), Sound(r),
           r.class = "commit" => OfOutbox(r), late' \subseteq late,
           UNCHANGED <<enrolled, outbox, tries>>
    PROVE  /\ LogInv' /\ LateInv' /\ WelcomesNotLost'
           /\ LogGrown /\ cursors' = cursors
           /\ \A e \in Devices : CommitsOf(e)
<1>1. LogInv /\ Shapes  BY DEF Inv
<1>2. ASSUME UNCHANGED server, Quiet \/ late' \subseteq late
      PROVE  /\ LogInv' /\ LateInv' /\ WelcomesNotLost'
             /\ LogGrown /\ cursors' = cursors /\ \A e \in Devices : CommitsOf(e)
  <2>1. LogGrown /\ \A e \in Devices : CommitsOf(e)
    BY <1>1, <1>2 DEF LogGrown, LogInv, CommitsOf, Logged, server
  <2>2. \A q : Sound(q) => Sound(q)'  BY <2>1, LogGrows DEF LogGrown
  <2>3. LogInv'  BY <1>1, <1>2, <2>2 DEF LogInv, Logged, server
  <2>4. LateInv'  BY <1>2, <2>2 DEF Inv, LateInv, OfOutbox, server
  <2>5. WelcomesNotLost'  BY <1>2 DEF Inv, WelcomesNotLost, CommitRows, server
  <2> QED BY <1>2, <2>1, <2>3, <2>4, <2>5 DEF server
<1>3. ASSUME Appended(r), nextSequence <= MaxSequence
      PROVE  /\ LogInv' /\ LateInv' /\ WelcomesNotLost'
             /\ LogGrown /\ cursors' = cursors /\ \A e \in Devices : CommitsOf(e)
  <2>1. LogGrown
    BY <1>1, <1>3 DEF LogGrown, LogInv, Appended
  <2>2. ASSUME r.class = "commit"
        PROVE  /\ r.by \in Devices /\ outbox[r.by] # None /\ OutboxInv(r.by)
               /\ r.op.n <= tries[r.by] /\ r.op.commit.by = r.by
               /\ Len(outbox[r.by].tree) = epoch
    <3>1. OfOutbox(r) /\ r \in CommitRequests  BY <2>2, SoundCommit
    <3>2. r.by \in Devices /\ outbox[r.by] # None  BY <3>1 DEF OfOutbox, CommitRequests
    <3>3. OutboxInv(r.by)  BY <3>2 DEF Inv, DeviceInv
    <3>4. r.op.n <= tries[r.by]  BY <2>2, <3>1, <3>2, <3>3, SoundCommit DEF OutboxInv, OfOutbox
    <3>5. Len(outbox[r.by].tree) = epoch
      BY <1>3, <2>2, <3>1, SoundCommit DEF OfOutbox, Appended
    <3> QED BY <2>2, <3>2, <3>3, <3>4, <3>5, SoundCommit
  <2>3. LogInv'
    <3>1. tries \in [Devices -> Nat] /\ \A e \in Devices : tries'[e] = tries[e]
      BY <1>1 DEF Shapes
    <3> QED BY <1>1, <1>3, <2>2, <3>1, LogKeeps
  <2>4. \A e \in Devices : CommitsOf(e)
    <3> SUFFICES ASSUME NEW e \in Devices, NEW row \in Logged' \ Logged
                 PROVE  \/ row.req.op.commit.by # e
                        \/ /\ outbox[e] # None /\ Len(outbox[e].tree) = epoch
                           /\ row.req.op.commit = outbox[e].commit
                           /\ row.req.op.tree = outbox[e].tree
      BY DEF CommitsOf
    <3>1. row.req = r /\ r.class = "commit"  BY <1>3 DEF Logged, Appended
    <3> QED BY <2>2, <3>1 DEF OfOutbox
  <2>5. LateInv'
    <3> SUFFICES ASSUME NEW q \in late
                 PROVE  Sound(q)' /\ (q.class = "commit" => q.parent < epoch' \/ OfOutbox(q)')
      BY DEF LateInv
    <3>1. Sound(q)'  BY <2>1, LogGrows DEF LogGrown, Inv, LateInv
    <3>2. ASSUME q.class = "commit", q.parent < epoch PROVE q.parent < epoch'
      <4>1. q.parent \in Nat
        BY <3>2, SoundCommit DEF Inv, LateInv, CommitRequests
      <4> QED BY <2>1, <3>2, <4>1 DEF LogGrown
    <3> QED BY <3>1, <3>2 DEF Inv, LateInv, OfOutbox
  <2>6. WelcomesNotLost'
    <3> SUFFICES ASSUME NEW row \in deliveries', row.req.class = "commit"
                 PROVE  \/ \E w \in deliveries' : w.req.class = "welcome"
                             /\ w.req.by = row.req.by /\ w.req.op.n = row.req.op.n
                        \/ /\ outbox[row.req.by] # None
                           /\ outbox[row.req.by].commit = row.req.op.commit
      BY DEF WelcomesNotLost, CommitRows
    <3>1. CASE row \in deliveries
      <4>1. row \in CommitRows(nextSequence)  BY <1>1, <3>1 DEF CommitRows, LogInv
      <4> QED BY <2>1, <4>1 DEF Inv, WelcomesNotLost, LogGrown
    <3>2. CASE row.req = r  BY <2>2, <3>2 DEF OfOutbox
    <3> QED BY <1>3, <3>1, <3>2 DEF Appended
  <2> QED BY <1>3, <2>1, <2>3, <2>4, <2>5, <2>6 DEF Appended
<1> QED BY <1>2, <1>3, AnswerAppends

(***************************************************************************)
(* Such a step keeps the invariant if it keeps that of its device.         *)
(***************************************************************************)
LEMMA AnswerStep ==
    ASSUME Inv, NEW d \in Devices, NEW r, NEW outcomes, Answered(r, outcomes), Sound(r),
           r.class = "commit" => OfOutbox(r), late' \subseteq late,
           UNCHANGED <<enrolled, native, cursor, events, outbox, ready, tries>>,
           run' \in [Devices -> RunStates'], sending' \in [Devices -> SendStates'],
           \A e \in Devices \ {d} : run'[e] = run[e] /\ sending'[e] = sending[e],
           ReadingInv(d)', MemberInv(d)', sending'[d].at # "submit" \/ sending'[d] = sending[d]
    PROVE  Inv'
<1>1. Shapes /\ DeviceInv(d)  BY DEF Inv
<1>2. /\ LogInv' /\ LateInv' /\ WelcomesNotLost' /\ LogGrown /\ cursors' = cursors
      /\ \A e \in Devices : CommitsOf(e)
  BY AnswerKeeps
<1>3. Shapes'
  <2>1. Stored \subseteq Stored'  BY <1>2, LogGrows DEF LogGrown
  <2>2. events' \in [Devices -> SUBSET Stored']  BY <1>1, <2>1 DEF Shapes
  <2>3. Natives' = Natives /\ Outboxes' = Outboxes /\ Server!Cursors' = Server!Cursors
    BY DEF Natives, Commits, MessageRequests, Outboxes, Server!Cursors
  <2> QED BY <1>1, <1>2, <2>2, <2>3 DEF Shapes
<1>4. Grouped(d) => Grouped(d)'  BY <1>2, GroupedKeeps
<1>5. tries[d] <= tries'[d] /\ tries'[d] \in Nat  BY <1>1 DEF Shapes
<1>6. NativeInv(d)' /\ OutboxInv(d)'
  BY <1>1, <1>2, <1>5, NativeKeeps, OutboxKeeps DEF DeviceInv
<1>7. SendInv(d)'
  BY <1>1, <1>4 DEF DeviceInv, SendInv, MessageRequests, Commits
<1>8. OfNobodyElse(d)  BY <1>2 DEF OfNobodyElse, Untouched
<1>9. \A e \in Devices : DeviceInv(e)'
  <2>1. DeviceInv(d)'  BY <1>6, <1>7 DEF DeviceInv
  <2>2. ASSUME NEW e \in Devices, e # d PROVE DeviceInv(e)'
    BY <1>2, <1>8, <2>2, UntouchedKeeps DEF OfNobodyElse
  <2> QED BY <2>1, <2>2
<1> QED BY <1>2, <1>3, <1>9 DEF Inv

------------------------------------------------------------------------------
LEMMA SubmitMessageKeeps ==
    ASSUME Inv, NEW d \in Devices, SubmitMessage(d)
    PROVE  Inv'
<1> DEFINE r == native[d].outgoing
<1>1. Shapes /\ DeviceInv(d)  BY DEF Inv
<1>2. r \in MessageRequests  BY <1>1 DEF DeviceInv, SendInv, SubmitMessage
<1>3. Sound(r) /\ r.class = "application"  BY <1>2 DEF Sound, MessageRequests
<1>4. /\ Answered(r, {"accepted", "replayed"})
      /\ sending' = [sending EXCEPT ![d] = [at |-> "apply", row |-> RowOf(r)]]
      /\ UNCHANGED <<enrolled, native, cursor, events, outbox, run, ready, tries, late>>
  BY DEF SubmitMessage, Step, durable
<1> HIDE DEF r
<1>5. /\ LogGrown /\ \A e \in Devices : CommitsOf(e)
  BY <1>3, <1>4, AnswerKeeps
<1>6. RowOf(r) \in Rows'
  <2>1. CASE Server!Outcome(r) = "accepted"
    <3>1. Appended(r)  BY <1>3, <1>4, <2>1, AnswerAppends
    <3>2. RowOf(r) = [seq |-> nextSequence, req |-> r]  BY <3>1 DEF RowOf, Appended
    <3> QED BY <3>1, <3>2, <1>3 DEF Rows, Appended
  <2>2. CASE Server!Outcome(r) = "replayed"
    <3>1. RowOf(r) \in Server!Earlier(r) /\ RowOf(r).req = r  BY <2>2, Answers DEF RowOf
    <3> QED BY <3>1, <1>3, <1>5 DEF Rows, Server!Earlier, LogGrown
  <2> QED BY <1>4, <2>1, <2>2 DEF Answered
<1>7. run' \in [Devices -> RunStates'] /\ sending' \in [Devices -> SendStates']
  <2>1. RunStates \subseteq RunStates' /\ SendStates \subseteq SendStates'
    BY <1>5, LogGrows DEF LogGrown
  <2>2. [at |-> "apply", row |-> RowOf(r)] \in SendStates'
    BY <1>6 DEF SendStates
  <2> QED BY <1>1, <1>4, <2>1, <2>2 DEF Shapes
<1>8. Grouped(d) => Grouped(d)'  BY <1>4, <1>5, GroupedKeeps
<1>9. tries[d] <= tries'[d] /\ tries'[d] \in Nat  BY <1>1, <1>4 DEF Shapes
<1>10. ReadingInv(d)' /\ MemberInv(d)'
  BY <1>1, <1>4, <1>5, <1>8, <1>9, ReadingKeeps, MemberKeeps DEF DeviceInv
<1>11. /\ \A e \in Devices \ {d} : run'[e] = run[e] /\ sending'[e] = sending[e]
       /\ sending'[d].at # "submit"
  BY <1>1, <1>4 DEF Shapes
<1> QED BY <1>3, <1>4, <1>7, <1>10, <1>11, AnswerStep

(***************************************************************************)
(* The request for the add in the outbox.                                  *)
(***************************************************************************)
LEMMA RequestOfOutbox ==
    ASSUME Inv, NEW d \in Devices,
           Resuming(d, "commitPending") \/ Resuming(d, "welcomePending")
    PROVE  /\ outbox[d] # None /\ outbox[d] \in Outboxes /\ run[d] \in Memberships
           /\ Sound(OutboxRequest(d)) /\ OutboxRequest(d).by = d
           /\ Resuming(d, "commitPending") =>
                /\ OutboxRequest(d).class = "commit" /\ OfOutbox(OutboxRequest(d))
                /\ OutboxRequest(d).op =
                     [n |-> outbox[d].commit.n, commit |-> outbox[d].commit, tree |-> outbox[d].tree]
           /\ Resuming(d, "welcomePending") =>
                /\ OutboxRequest(d).class = "welcome"
                /\ OutboxRequest(d).op.n = outbox[d].commit.n
<1> DEFINE box == outbox[d]
<1>1. box # None /\ run[d].at = "resume"  BY DEF Resuming
<1>2. box \in Outboxes /\ OutboxInv(d) /\ run[d] \in Memberships
  BY <1>1, Phases DEF Inv, Shapes, DeviceInv
<1>3. /\ box.commit \in Commits /\ box.tree \in Seq(Commits) /\ Len(box.tree) \in Nat
      /\ box.commit.by = d /\ box.commit.adds \in Devices /\ box.commit.n \in Nat
      /\ OnLog(box.tree)
  <2>1. box.commit \in Commits /\ box.tree \in Seq(Commits)  BY <1>2 DEF Outboxes
  <2> QED BY <1>1, <1>2, <2>1, CommitFields DEF OutboxInv
<1> HIDE DEF box
<1>4. ASSUME Resuming(d, "commitPending")
      PROVE  /\ Sound(OutboxRequest(d)) /\ OutboxRequest(d).by = d
             /\ OutboxRequest(d).class = "commit" /\ OfOutbox(OutboxRequest(d))
             /\ OutboxRequest(d).op = [n |-> box.commit.n, commit |-> box.commit, tree |-> box.tree]
  <2>1. OutboxRequest(d) = CommitRequest(d, box.tree, box.commit)
    BY <1>4 DEF Resuming, OutboxRequest, box
  <2>2. CommitRequest(d, box.tree, box.commit) =
          [by |-> d, op |-> [n |-> box.commit.n, commit |-> box.commit, tree |-> box.tree],
           class |-> "commit", parent |-> Len(box.tree), accepted |-> Len(box.tree) + 1,
           to |-> None, event |-> None]
    BY DEF CommitRequest, Server!Request
  <2>3. CommitRequest(d, box.tree, box.commit) \in CommitRequests
    BY <1>3, <2>2 DEF CommitRequests
  <2>4. OfOutbox(OutboxRequest(d))  BY <1>1, <2>1, <2>2 DEF OfOutbox, box
  <2> QED BY <1>3, <2>1, <2>2, <2>3, <2>4 DEF Sound
<1>5. ASSUME Resuming(d, "welcomePending")
      PROVE  /\ Sound(OutboxRequest(d)) /\ OutboxRequest(d).by = d
             /\ OutboxRequest(d).class = "welcome" /\ OutboxRequest(d).op.n = box.commit.n
  <2> DEFINE longer == Append(box.tree, box.commit)
  <2>1. OutboxRequest(d) = WelcomeRequest(d, box.tree, box.commit)
    BY <1>5 DEF Resuming, OutboxRequest, box
  <2>2. OnLog(longer)
    BY <1>1, <1>2, <1>5 DEF OutboxInv, Resuming, box
  <2>3. longer \in Seq(Commits)  BY <2>2 DEF OnLog
  <2> HIDE DEF longer
  <2>4. WelcomeRequest(d, box.tree, box.commit) =
          [by |-> d, op |-> [n |-> box.commit.n, tree |-> longer], class |-> "welcome",
           parent |-> None, accepted |-> Len(box.tree) + 1, to |-> box.commit.adds, event |-> None]
    BY DEF WelcomeRequest, Server!Request, longer
  <2>5. WelcomeRequest(d, box.tree, box.commit) \in WelcomeRequests
    BY <1>3, <2>3, <2>4 DEF WelcomeRequests
  <2> QED BY <2>1, <2>2, <2>4, <2>5 DEF Sound
<1> QED BY <1>1, <1>2, <1>4, <1>5 DEF box

------------------------------------------------------------------------------
(***************************************************************************)
(* The activity that holds the lock.                                       *)
(***************************************************************************)
LEMMA RunStep ==
    ASSUME Inv, NEW d \in Devices, NEW step \in RunStates, Quiet,
           run' = [run EXCEPT ![d] = step], sending' = sending,
           native' \in [Devices -> Natives], outbox' \in [Devices -> Outboxes \cup {None}],
           cursor' \in [Devices -> [seq : Nat, epoch : Nat, joined : BOOLEAN]],
           cursors' \in [Devices -> Server!Cursors \cup {None}],
           events' \in [Devices -> SUBSET Stored], tries' \in [Devices -> Nat],
           \A e \in Devices : tries[e] <= tries'[e] /\ tries'[e] <= MaxTries[e],
           \A e \in Devices \ {d} :
             /\ native'[e] = native[e] /\ cursor'[e] = cursor[e] /\ cursors'[e] = cursors[e]
             /\ outbox'[e] = outbox[e] /\ tries'[e] = tries[e] /\ (e \in ready' => e \in ready),
           ready' \subseteq enrolled \cap Senders, d \in ready' => Grouped(d),
           native'[d].outgoing = native[d].outgoing, Grouped(d) => Grouped(d)',
           NativeInv(d)', OutboxInv(d)', ReadingInv(d)', MemberInv(d)',
           LateInv', WelcomesNotLost'
    PROVE  Inv'
<1>1. Shapes /\ DeviceInv(d)  BY DEF Inv
<1>2. run' \in [Devices -> RunStates] /\ sending' \in [Devices -> SendStates]
  BY <1>1 DEF Shapes
<1>3. ShapesNext  BY <1>2 DEF ShapesNext
<1>4. SendInv(d)'
  BY <1>1 DEF DeviceInv, SendInv, MessageRequests, Commits
<1>5. DeviceInv(d)'  BY <1>4 DEF DeviceInv
<1>6. OfNobodyElse(d)  BY <1>1 DEF OfNobodyElse, Untouched, Shapes
<1> QED BY <1>3, <1>5, <1>6, QuietStep

(***************************************************************************)
(* Only the activity moves on.                                             *)
(***************************************************************************)
LEMMA RunMovesOn ==
    ASSUME Inv, NEW d \in Devices, NEW step \in RunStates, Quiet,
           run' = [run EXCEPT ![d] = step],
           UNCHANGED <<native, cursor, cursors, events, outbox, sending, tries>>,
           \A e \in Devices \ {d} : e \in ready' => e \in ready,
           ready' \subseteq enrolled \cap Senders, d \in ready' => Grouped(d),
           ReadingInv(d)', MemberInv(d)'
    PROVE  Inv'
<1>1. Shapes /\ DeviceInv(d)  BY DEF Inv
<1>2. LogGrown /\ CommitsOf(d)  BY QuietLog
<1>3. Grouped(d) => Grouped(d)'  BY <1>2, GroupedKeeps
<1>4. tries[d] <= tries'[d] /\ tries'[d] \in Nat  BY <1>1 DEF Shapes
<1>5. NativeInv(d)' /\ OutboxInv(d)'
  BY <1>1, <1>2, <1>4, NativeKeeps, OutboxKeeps DEF DeviceInv
<1>6. LateInv' /\ WelcomesNotLost'  BY QuietDelivery
<1>7. \A e \in Devices : tries[e] <= tries'[e] /\ tries'[e] <= MaxTries[e]
  BY <1>1 DEF Shapes
<1> QED BY <1>1, <1>3, <1>5, <1>6, <1>7, RunStep DEF Shapes

LEMMA Resting ==
    ASSUME NEW d \in Devices, Shapes, NEW step \in {Idle, [at |-> "acknowledge"]},
           run' = [run EXCEPT ![d] = step]
    PROVE  step \in RunStates /\ ReadingInv(d)' /\ MemberInv(d)'
<1>1. run'[d] = step  BY DEF Shapes
<1>2. step.at \in {"idle", "acknowledge"}  BY DEF Idle
<1>3. step \notin Memberships \cup Preparations  BY <1>2 DEF Memberships, Preparations
<1> QED BY <1>1, <1>2, <1>3 DEF RunStates, ReadingInv, MemberInv, Memberships, Preparations

LEMMA AbortRunKeeps ==
    ASSUME Inv, NEW d \in Devices, AbortRun(d)
    PROVE  Inv'
<1>1. Shapes /\ DeviceInv(d)  BY DEF Inv
<1>2. /\ run' = [run EXCEPT ![d] = Idle] /\ Quiet
      /\ UNCHANGED <<native, cursor, cursors, events, outbox, sending, tries, ready>>
  BY DEF AbortRun, Goto, Quiet, server, durable
<1>3. Idle \in RunStates /\ ReadingInv(d)' /\ MemberInv(d)'  BY <1>1, <1>2, Resting
<1> QED BY <1>1, <1>2, <1>3, RunMovesOn DEF Shapes, DeviceInv, SendInv

(***************************************************************************)
(* A membership activity that has nothing to remember in its state.        *)
(***************************************************************************)
LEMMA Between ==
    ASSUME NEW d \in Devices, Shapes, NEW step \in Memberships, step.at \in {"resume", "add"},
           step.at = "add" => step.todo \in SUBSET Devices,
           run' = [run EXCEPT ![d] = step], Grouped(d)'
    PROVE  step \in RunStates /\ ReadingInv(d)' /\ MemberInv(d)'
<1>1. run'[d] = step  BY DEF Shapes
<1> QED BY <1>1 DEF RunStates, ReadingInv, MemberInv

LEMMA OrNone ==
    ASSUME NEW S
    PROVE  None \in S \cup {None}
OBVIOUS

LEMMA Resumed ==
    ASSUME NEW todo \in (SUBSET Devices) \cup {None}
    PROVE  [at |-> "resume", todo |-> todo] \in Memberships
BY DEF Memberships

LEMMA ReconcileKeeps ==
    ASSUME Inv, NEW d \in Devices, Reconcile(d)
    PROVE  Inv'
<1> DEFINE step == [at |-> "resume", todo |-> None]
<1>1. Shapes /\ DeviceInv(d)  BY DEF Inv
<1>2. /\ run' = [run EXCEPT ![d] = step] /\ Quiet /\ HasGroup(d)
      /\ UNCHANGED <<native, cursor, cursors, events, outbox, sending, tries, ready>>
  BY DEF Reconcile, Goto, Quiet, server, durable
<1>3. Grouped(d) /\ Grouped(d)'
  BY <1>1, <1>2, QuietLog, GroupedKeeps DEF DeviceInv, NativeInv
<1>4. step \in Memberships
  <2>1. None \in (SUBSET Devices) \cup {None}  BY ONLY OrNone
  <2> QED BY ONLY <2>1, Resumed
<1>5. step \in RunStates /\ ReadingInv(d)' /\ MemberInv(d)'
  BY <1>1, <1>2, <1>3, <1>4, Between
<1> QED BY <1>1, <1>2, <1>3, <1>5, RunMovesOn DEF Shapes

LEMMA SurveyKeeps ==
    ASSUME Inv, NEW d \in Devices, Survey(d)
    PROVE  Inv'
<1> DEFINE waiting == Directory \ Members(native[d].tree)
<1>1. Shapes /\ DeviceInv(d)  BY DEF Inv
<1>2. Grouped(d) /\ Grouped(d)'
  <2>1. run[d] \in Memberships  BY <1>1, Phases DEF Survey
  <2>2. Grouped(d) /\ Quiet /\ native' = native
    BY <1>1, <2>1 DEF DeviceInv, MemberInv, Survey, Quiet, server, durable
  <2> QED BY <2>2, QuietLog, GroupedKeeps
<1>3. Quiet /\ UNCHANGED <<native, cursor, cursors, events, outbox, sending, tries>>
  BY DEF Survey, Quiet, server, durable
<1>4. waiting \in SUBSET Devices  BY <1>1 DEF Directory, Shapes
<1>5. ready' \subseteq ready \cup ({d} \cap Senders)  BY DEF Survey
<1>6. ready' \subseteq enrolled \cap Senders  BY <1>1, <1>2, <1>5 DEF Shapes, Grouped
<1>7. PICK step \in RunStates :
        run' = [run EXCEPT ![d] = step] /\ ReadingInv(d)' /\ MemberInv(d)'
  <2>1. CASE run' = [run EXCEPT ![d] = [at |-> "add", todo |-> waiting]]
    <3>1. [at |-> "add", todo |-> waiting] \in Memberships  BY <1>4 DEF Memberships
    <3> QED BY <1>1, <1>2, <1>4, <2>1, <3>1, Between
  <2>2. CASE run' = [run EXCEPT ![d] = Idle]  BY <1>1, <2>2, Resting
  <2> QED BY <2>1, <2>2 DEF Survey, Goto
<1>8. \A e \in Devices \ {d} : e \in ready' => e \in ready  BY <1>5
<1> QED BY <1>2, <1>3, <1>6, <1>7, <1>8, RunMovesOn

LEMMA CompleteKeeps ==
    ASSUME Inv, NEW d \in Devices, Complete(d)
    PROVE  Inv'
<1>1. Shapes /\ DeviceInv(d)  BY DEF Inv
<1>2. run[d] \in Memberships /\ Grouped(d)
  BY <1>1, Phases DEF Complete, DeviceInv, MemberInv
<1>3. /\ Quiet /\ UNCHANGED <<native, cursor, cursors, events, outbox, sending, tries>>
      /\ run' = [run EXCEPT ![d] = Idle] /\ ready' = ready \cup ({d} \cap Senders)
  BY DEF Complete, Goto, Quiet, server, durable
<1>4. Idle \in RunStates /\ ReadingInv(d)' /\ MemberInv(d)'  BY <1>1, <1>3, Resting
<1>5. ready' \subseteq enrolled \cap Senders /\ \A e \in Devices \ {d} : e \in ready' => e \in ready
  BY <1>1, <1>2, <1>3 DEF Shapes, Grouped
<1> QED BY <1>2, <1>3, <1>4, <1>5, RunMovesOn

------------------------------------------------------------------------------
(***************************************************************************)
(* Adding a device: the answer to the commit and to the Welcome.           *)
(***************************************************************************)
LEMMA AnsweredRow ==
    ASSUME Inv, NEW r, Answered(r, {"accepted", "replayed"}), Sound(r)
    PROVE  \E row \in deliveries' : row.req = r
<1>1. CASE Server!Outcome(r) = "accepted"
  <2>1. Appended(r)  BY <1>1, AnswerAppends
  <2>2. [seq |-> nextSequence, req |-> r] \in deliveries'  BY <2>1 DEF Appended
  <2> QED BY <2>2
<1>2. CASE Server!Outcome(r) = "replayed"
  <2>1. Server!Earlier(r) # {} /\ \A row \in Server!Earlier(r) : row.req = r  BY <1>2, Answers
  <2>2. Server!Earlier(r) \subseteq deliveries  BY DEF Server!Earlier
  <2>3. deliveries' = deliveries  BY <1>2 DEF Answered, server
  <2> QED BY <2>1, <2>2, <2>3
<1> QED BY <1>1, <1>2 DEF Answered

LEMMA AnswerMovesOn ==
    ASSUME Inv, NEW d \in Devices, NEW r, NEW outcomes, Answered(r, outcomes), Sound(r),
           r.class = "commit" => OfOutbox(r), NEW step \in Memberships,
           run' = [run EXCEPT ![d] = step],
           UNCHANGED <<enrolled, late, native, cursor, events, outbox, sending, ready, tries>>,
           MemberInv(d)'
    PROVE  Inv'
<1>1. Shapes  BY DEF Inv
<1>2. RunStates \subseteq RunStates' /\ SendStates \subseteq SendStates'
  BY AnswerKeeps, LogGrows DEF LogGrown
<1>3. step \in RunStates  BY DEF RunStates
<1>4. run' \in [Devices -> RunStates'] /\ sending' \in [Devices -> SendStates']
  BY <1>1, <1>2, <1>3 DEF Shapes
<1>5. ReadingInv(d)'
  <2>1. run'[d] = step  BY <1>1 DEF Shapes
  <2> QED BY <2>1 DEF ReadingInv, Memberships
<1>6. \A e \in Devices \ {d} : run'[e] = run[e] /\ sending'[e] = sending[e]
  BY <1>1 DEF Shapes
<1> QED BY <1>4, <1>5, <1>6, AnswerStep

LEMMA SubmitCommitKeeps ==
    ASSUME Inv, NEW d \in Devices, SubmitCommit(d)
    PROVE  Inv'
<1> DEFINE r == OutboxRequest(d)
           box == outbox[d]
           step == [run[d] EXCEPT !.at = "committed"]
<1>1. Shapes /\ DeviceInv(d)  BY DEF Inv
<1>2. /\ Resuming(d, "commitPending") /\ Answered(r, {"accepted", "replayed"})
      /\ run' = [run EXCEPT ![d] = step]
      /\ UNCHANGED <<enrolled, late, native, cursor, events, outbox, sending, ready, tries>>
  BY DEF SubmitCommit, Goto, durable
<1>3. /\ box # None /\ box \in Outboxes /\ run[d] \in Memberships
      /\ Sound(r) /\ r.class = "commit" /\ OfOutbox(r)
      /\ r.op = [n |-> box.commit.n, commit |-> box.commit, tree |-> box.tree]
  BY <1>2, RequestOfOutbox
<1>4. step \in Memberships  BY <1>3 DEF Memberships
<1>5. run'[d] = step /\ step.at = "committed"  BY <1>1, <1>2, <1>3 DEF Shapes, Memberships
<1> HIDE DEF r, step
<1>6. LogGrown  BY <1>2, <1>3, AnswerKeeps
<1>7. OnLog(Append(box.tree, box.commit))'
  <2>1. PICK row \in deliveries' : row.req = r  BY <1>2, <1>3, AnsweredRow
  <2>2. row \in Logged'  BY <1>3, <2>1 DEF Logged
  <2>3. OnLog(r.op.tree) /\ r.accepted = Len(r.op.tree) + 1  BY <1>3, SoundCommit
  <2>4. row.req.op.commit \in Commits  BY <1>3, <2>1 DEF Outboxes
  <2>5. ASSUME NEW t, t = box.tree PROVE OnLog(Append(t, row.req.op.commit))'
    <3>1. OnLog(t) /\ row.req.accepted = Len(t) + 1  BY <1>3, <2>1, <2>3, <2>5
    <3> QED BY <1>6, <2>2, <2>4, <3>1, OneCommitMore DEF LogGrown
  <2> QED BY <1>2, <1>3, <2>1, <2>5
<1>8. Grouped(d)'
  BY <1>1, <1>2, <1>3, <1>6, GroupedKeeps DEF DeviceInv, MemberInv
<1>9. MemberInv(d)'
  BY <1>2, <1>3, <1>5, <1>7, <1>8 DEF MemberInv
<1> QED BY <1>2, <1>3, <1>4, <1>9, AnswerMovesOn

LEMMA SubmitWelcomeKeeps ==
    ASSUME Inv, NEW d \in Devices, SubmitWelcome(d)
    PROVE  Inv'
<1> DEFINE r == OutboxRequest(d)
           box == outbox[d]
           step == [run[d] EXCEPT !.at = "welcomed"]
<1>1. Shapes /\ DeviceInv(d)  BY DEF Inv
<1>2. /\ Resuming(d, "welcomePending") /\ Answered(r, {"accepted", "replayed"})
      /\ run' = [run EXCEPT ![d] = step]
      /\ UNCHANGED <<enrolled, late, native, cursor, events, outbox, sending, ready, tries>>
  BY DEF SubmitWelcome, Goto, durable
<1>3. /\ box # None /\ box \in Outboxes /\ run[d] \in Memberships
      /\ Sound(r) /\ r.by = d /\ r.class = "welcome" /\ r.op.n = box.commit.n
  BY <1>2, RequestOfOutbox
<1>4. step \in Memberships  BY <1>3 DEF Memberships
<1>5. run'[d] = step /\ step.at = "welcomed"  BY <1>1, <1>2, <1>3 DEF Shapes, Memberships
<1>6. box.stage = "welcomePending"  BY <1>2 DEF Resuming
<1> HIDE DEF r, step
<1>7. LogGrown  BY <1>2, <1>3, AnswerKeeps
<1>8. OnLog(Append(box.tree, box.commit))'
  BY <1>1, <1>2, <1>3, <1>6, <1>7, LogGrows DEF DeviceInv, OutboxInv, LogGrown
<1>9. \E w \in deliveries' : w.req.class = "welcome" /\ w.req.by = d /\ w.req.op.n = box.commit.n
  BY <1>2, <1>3, AnsweredRow
<1>10. Grouped(d)'
  BY <1>1, <1>2, <1>3, <1>7, GroupedKeeps DEF DeviceInv, MemberInv
<1>11. MemberInv(d)'
  BY <1>2, <1>3, <1>5, <1>8, <1>9, <1>10 DEF MemberInv
<1> QED BY <1>2, <1>3, <1>4, <1>11, AnswerMovesOn

(***************************************************************************)
(* A refused commit: its epoch has passed, and it is not in the log.       *)
(***************************************************************************)
LEMMA CommitConflictKeeps ==
    ASSUME Inv, NEW d \in Devices, CommitConflict(d)
    PROVE  Inv'
<1> DEFINE r == OutboxRequest(d)
           box == outbox[d]
<1>1. Shapes /\ DeviceInv(d) /\ LogInv  BY DEF Inv
<1>2. /\ Resuming(d, "commitPending") /\ Server!Outcome(r) = "mls_epoch_conflict"
      /\ UNCHANGED server
      /\ UNCHANGED <<enrolled, late, native, cursor, events, outbox, sending, ready, tries>>
  BY DEF CommitConflict, Answered, durable
<1>3. /\ box # None /\ box \in Outboxes /\ run[d] \in Memberships
      /\ Sound(r) /\ r.by = d /\ r.class = "commit"
      /\ r.op = [n |-> box.commit.n, commit |-> box.commit, tree |-> box.tree]
  BY <1>2, RequestOfOutbox
<1>4. PICK at \in {"reject", "discard"} : run' = [run EXCEPT ![d] = [run[d] EXCEPT !.at = at]]
  BY DEF CommitConflict, Goto
<1> DEFINE step == [run[d] EXCEPT !.at = at]
<1>5. step \in Memberships /\ step.at = at  BY <1>3 DEF Memberships
<1>6. run'[d] = step  BY <1>1, <1>4 DEF Shapes
<1> HIDE DEF r, step
<1>7. Server!Earlier(r) = {} /\ ~Server!EpochCurrent(r)  BY <1>2, Answers
<1>8. Len(box.tree) < epoch
  <2>1. OnLog(box.tree)  BY <1>1, <1>3 DEF DeviceInv, OutboxInv
  <2> HIDE DEF box
  <2>2. Len(box.tree) \in Nat /\ Len(box.tree) <= epoch /\ epoch \in Nat
    BY <1>1, <2>1, ShorterThanEpoch DEF LogInv
  <2>3. r.parent = Len(box.tree) /\ r.accepted = Len(box.tree) + 1
    BY <1>3, SoundCommit
  <2>4. ~(r.parent = epoch /\ r.accepted = epoch + 1)
    BY <1>3, <1>7 DEF Server!EpochCurrent
  <2> QED BY <2>2, <2>3, <2>4
<1>9. Unlogged(box.commit)
  <2> SUFFICES ASSUME NEW row \in Logged, row.req.op.commit = box.commit PROVE FALSE
    BY DEF Unlogged
  <2>1. row.req.op.tree = box.tree /\ box.commit.by = d
    BY <1>1, <1>3 DEF DeviceInv, OutboxInv
  <2>2. Sound(row.req) /\ row.req.class = "commit" /\ row \in deliveries
    BY <1>1 DEF LogInv, Logged
  <2>3. /\ row.req.op \in [n : Nat, commit : Commits, tree : Seq(Commits)]
        /\ row.req.op.n = row.req.op.commit.n /\ row.req.by = row.req.op.commit.by
    BY <2>2, SoundCommit DEF CommitRequests
  <2>4. row.req.op = r.op  BY <1>3, <2>1, <2>3
  <2> QED BY <1>3, <1>7, <2>1, <2>2, <2>3, <2>4 DEF Server!Earlier
<1>10. Quiet /\ UNCHANGED <<native, cursor, cursors, events, outbox, sending, tries, ready>>
  BY <1>2 DEF Quiet, server
<1>11. Grouped(d) /\ Grouped(d)'
  BY <1>1, <1>3, <1>10, QuietLog, GroupedKeeps DEF DeviceInv, MemberInv
<1>12. MemberInv(d)'
  <2>1. epoch' = epoch /\ Logged' = Logged  BY <1>10, QuietLog
  <2> QED BY <1>3, <1>5, <1>6, <1>8, <1>9, <1>10, <1>11, <2>1 DEF MemberInv, Unlogged, Memberships, Preparations
<1>13. ReadingInv(d)'  BY <1>5, <1>6 DEF ReadingInv
<1>14. step \in RunStates /\ run' = [run EXCEPT ![d] = step]
  BY <1>4, <1>5 DEF RunStates, step
<1>15. ready' \subseteq enrolled \cap Senders  BY <1>1, <1>10 DEF Shapes
<1> QED BY <1>10, <1>11, <1>12, <1>13, <1>14, <1>15, RunMovesOn

(***************************************************************************)
(* The steps that write the outbox.                                        *)
(***************************************************************************)
LEMMA WithOutbox ==
    ASSUME Shapes, NEW d \in Devices, NEW box \in Outboxes \cup {None},
           outbox' = [outbox EXCEPT ![d] = box]
    PROVE  /\ outbox' \in [Devices -> Outboxes \cup {None}] /\ outbox'[d] = box
           /\ \A e \in Devices \ {d} : outbox'[e] = outbox[e]
BY DEF Shapes

\* The outbox is written and the activity moves on.
LEMMA OutboxStep ==
    ASSUME Inv, NEW d \in Devices, NEW step \in RunStates, Quiet,
           run' = [run EXCEPT ![d] = step], NEW box \in Outboxes \cup {None},
           outbox' = [outbox EXCEPT ![d] = box],
           UNCHANGED <<native, cursor, cursors, events, sending, tries, ready>>,
           OutboxInv(d)', ReadingInv(d)', MemberInv(d)', LateInv', WelcomesNotLost'
    PROVE  Inv'
<1>1. Shapes /\ DeviceInv(d)  BY DEF Inv
<1>2. LogGrown  BY QuietLog
<1>3. Grouped(d) => Grouped(d)'  BY <1>2, GroupedKeeps
<1>4. NativeInv(d)'  BY <1>1, <1>2, NativeKeeps DEF DeviceInv
<1>5. /\ outbox' \in [Devices -> Outboxes \cup {None}]
      /\ \A e \in Devices \ {d} : outbox'[e] = outbox[e]
  BY <1>1, WithOutbox
<1>6. \A e \in Devices : tries[e] <= tries'[e] /\ tries'[e] <= MaxTries[e]
  BY <1>1 DEF Shapes
<1>7. d \in ready' => Grouped(d)  BY <1>1 DEF DeviceInv, SendInv
<1>8. ready' \subseteq enrolled \cap Senders  BY <1>1 DEF Shapes
<1>9. /\ native' \in [Devices -> Natives]
      /\ cursor' \in [Devices -> [seq : Nat, epoch : Nat, joined : BOOLEAN]]
      /\ cursors' \in [Devices -> Server!Cursors \cup {None}]
      /\ events' \in [Devices -> SUBSET Stored] /\ tries' \in [Devices -> Nat]
  BY <1>1 DEF Shapes
<1> QED BY <1>3, <1>4, <1>5, <1>6, <1>7, <1>8, <1>9, RunStep

\* The add stays, at another stage.
LEMMA StageStep ==
    ASSUME Inv, NEW d \in Devices, outbox[d] # None, Quiet, NEW box \in Outboxes,
           outbox' = [outbox EXCEPT ![d] = box],
           box.tree = outbox[d].tree, box.commit = outbox[d].commit
    PROVE  LateInv' /\ WelcomesNotLost'
<1>1. outbox'[d] = box /\ \A e \in Devices \ {d} : outbox'[e] = outbox[e]
  BY WithOutbox DEF Inv
<1>2. LogGrown /\ deliveries' = deliveries /\ (\A q : Sound(q) => Sound(q)')
  BY QuietLog, LogGrows DEF LogGrown
<1>3. \A q : q.by \in Devices /\ OfOutbox(q) => OfOutbox(q)'  BY <1>1 DEF OfOutbox
<1>4. LateInv'
  <2> SUFFICES ASSUME NEW q \in late
               PROVE  Sound(q)' /\ (q.class = "commit" => q.parent < epoch \/ OfOutbox(q)')
    BY DEF LateInv, Quiet
  <2>1. Sound(q) /\ (q.class = "commit" => q.parent < epoch \/ OfOutbox(q))
    BY DEF Inv, LateInv
  <2>2. q.class = "commit" => q.by \in Devices  BY <2>1, SoundCommit DEF CommitRequests
  <2> QED BY <1>2, <1>3, <2>1, <2>2
<1>5. WelcomesNotLost'
  <2> SUFFICES ASSUME NEW row \in CommitRows(nextSequence)
               PROVE  \/ \E w \in deliveries :
                           w.req.class = "welcome" /\ w.req.by = row.req.by /\ w.req.op.n = row.req.op.n
                      \/ /\ outbox'[row.req.by] # None
                         /\ outbox'[row.req.by].commit = row.req.op.commit
    BY <1>2 DEF WelcomesNotLost, CommitRows, Quiet
  <2>1. row.req.by \in Devices
    BY SoundCommit DEF Inv, LogInv, CommitRows, CommitRequests
  <2> QED BY <1>1, <2>1 DEF Inv, WelcomesNotLost
<1> QED BY <1>4, <1>5

LEMMA WriteStageKeeps ==
    ASSUME Inv, NEW d \in Devices, WriteCommitted(d) \/ WriteMerged(d)
    PROVE  Inv'
<1> DEFINE step == [run[d] EXCEPT !.at = "resume"]
<1>1. Shapes /\ DeviceInv(d)  BY DEF Inv
<1>2. /\ run[d].at \in {"committed", "merged"} /\ run' = [run EXCEPT ![d] = step]
      /\ Quiet /\ UNCHANGED <<native, cursor, cursors, events, sending, tries, ready>>
  BY DEF WriteCommitted, WriteMerged, Goto, Quiet, server
<1>3. run[d] \in Memberships  BY <1>1, <1>2, Phases
<1>4. /\ outbox[d] # None /\ outbox[d] \in Outboxes /\ Grouped(d)
      /\ OnLog(Append(outbox[d].tree, outbox[d].commit))
  BY <1>1, <1>2, <1>3 DEF Shapes, DeviceInv, MemberInv
<1>5. PICK stage \in {"commitAccepted", "welcomePending"} :
        outbox' = [outbox EXCEPT ![d] = [outbox[d] EXCEPT !.stage = stage]]
  BY DEF WriteCommitted, WriteMerged
<1> DEFINE box == [outbox[d] EXCEPT !.stage = stage]
<1>6. /\ box \in Outboxes /\ box.tree = outbox[d].tree /\ box.commit = outbox[d].commit
      /\ box.stage = stage
  BY <1>4 DEF Outboxes
<1>7. step \in Memberships /\ step.at = "resume"  BY <1>3 DEF Memberships
<1> HIDE DEF box, step
<1>8. outbox' = [outbox EXCEPT ![d] = box]  BY <1>5 DEF box
<1>9. outbox'[d] = box  BY <1>1, <1>6, <1>8, WithOutbox
<1>10. LateInv' /\ WelcomesNotLost'  BY <1>2, <1>4, <1>6, <1>8, StageStep
<1>11. LogGrown /\ Logged' = Logged /\ \A tree : OnLog(tree) <=> OnLog(tree)'
  BY <1>2, QuietLog
<1>12. Grouped(d)'  BY <1>2, <1>4, <1>11, GroupedKeeps
<1>13. OutboxInv(d)'
  BY <1>1, <1>2, <1>4, <1>6, <1>9, <1>11 DEF DeviceInv, OutboxInv
<1>14. step \in RunStates /\ ReadingInv(d)' /\ MemberInv(d)'
  BY <1>1, <1>2, <1>7, <1>12, Between
<1> QED BY <1>2, <1>6, <1>8, <1>10, <1>13, <1>14, OutboxStep

\* The add goes: its commit is not in the log, or its Welcome is.
LEMMA OutboxGoes ==
    ASSUME Inv, NEW d \in Devices, outbox[d] # None, Quiet,
           outbox' = [outbox EXCEPT ![d] = None], Len(outbox[d].tree) < epoch,
           \/ Unlogged(outbox[d].commit)
           \/ \E w \in deliveries : w.req.class = "welcome" /\ w.req.by = d
                                    /\ w.req.op.n = outbox[d].commit.n
    PROVE  OutboxInv(d)' /\ LateInv' /\ WelcomesNotLost'
<1>1. outbox'[d] = None /\ \A e \in Devices \ {d} : outbox'[e] = outbox[e]
  BY WithOutbox DEF Inv
<1>2. LogGrown /\ deliveries' = deliveries /\ (\A q : Sound(q) => Sound(q)')
  BY QuietLog, LogGrows DEF LogGrown
<1>3. LateInv'
  <2> SUFFICES ASSUME NEW q \in late
               PROVE  Sound(q)' /\ (q.class = "commit" => q.parent < epoch \/ OfOutbox(q)')
    BY DEF LateInv, Quiet
  <2>1. Sound(q) /\ (q.class = "commit" => q.parent < epoch \/ OfOutbox(q))
    BY DEF Inv, LateInv
  <2>2. q.class = "commit" => q.by \in Devices /\ q.parent = Len(q.op.tree)
    BY <2>1, SoundCommit DEF CommitRequests
  <2> QED BY <1>1, <1>2, <2>1, <2>2 DEF OfOutbox
<1>4. WelcomesNotLost'
  <2> SUFFICES ASSUME NEW row \in CommitRows(nextSequence)
               PROVE  \/ \E w \in deliveries :
                           w.req.class = "welcome" /\ w.req.by = row.req.by /\ w.req.op.n = row.req.op.n
                      \/ /\ outbox'[row.req.by] # None
                         /\ outbox'[row.req.by].commit = row.req.op.commit
    BY <1>2 DEF WelcomesNotLost, CommitRows, Quiet
  <2>1. /\ row.req.by \in Devices /\ row.req.op.n = row.req.op.commit.n /\ row \in Logged
    BY SoundCommit DEF Inv, LogInv, CommitRows, CommitRequests, Logged
  <2>2. row.req.by = d /\ outbox[d].commit = row.req.op.commit =>
          \E w \in deliveries :
            w.req.class = "welcome" /\ w.req.by = row.req.by /\ w.req.op.n = row.req.op.n
    BY <2>1 DEF Unlogged
  <2> QED BY <1>1, <2>1, <2>2 DEF Inv, WelcomesNotLost
<1> QED BY <1>1, <1>3, <1>4 DEF OutboxInv

LEMMA DiscardKeeps ==
    ASSUME Inv, NEW d \in Devices, Discard(d)
    PROVE  Inv'
<1>1. Shapes /\ DeviceInv(d)  BY DEF Inv
<1>2. /\ run[d].at = "discard" /\ run' = [run EXCEPT ![d] = Idle]
      /\ outbox' = [outbox EXCEPT ![d] = None] /\ Quiet
      /\ UNCHANGED <<native, cursor, cursors, events, sending, tries, ready>>
  BY DEF Discard, Goto, Quiet, server
<1>3. outbox[d] # None /\ Len(outbox[d].tree) < epoch /\ Unlogged(outbox[d].commit)
  BY <1>1, <1>2 DEF DeviceInv, MemberInv
<1>4. OutboxInv(d)' /\ LateInv' /\ WelcomesNotLost'  BY <1>2, <1>3, OutboxGoes
<1>5. Idle \in RunStates /\ ReadingInv(d)' /\ MemberInv(d)'  BY <1>1, <1>2, Resting
<1> QED BY <1>2, <1>4, <1>5, OutboxStep

LEMMA ClearOutboxKeeps ==
    ASSUME Inv, NEW d \in Devices, ClearOutbox(d)
    PROVE  Inv'
<1>1. Shapes /\ DeviceInv(d) /\ LogInv  BY DEF Inv
<1>2. /\ run[d].at = "welcomed" /\ outbox' = [outbox EXCEPT ![d] = None] /\ Quiet
      /\ UNCHANGED <<native, cursor, cursors, events, sending, tries, ready>>
  BY DEF ClearOutbox, Quiet, server
<1>3. run[d] \in Memberships  BY <1>1, <1>2, Phases
<1>4. /\ outbox[d] # None /\ Grouped(d) /\ OnLog(Append(outbox[d].tree, outbox[d].commit))
      /\ \E w \in deliveries : w.req.class = "welcome" /\ w.req.by = d
                               /\ w.req.op.n = outbox[d].commit.n
  BY <1>1, <1>2, <1>3 DEF DeviceInv, MemberInv
<1>5. Len(outbox[d].tree) < epoch
  <2>1. outbox[d].tree \in Seq(Commits) /\ outbox[d].commit \in Commits
    BY <1>1, <1>4 DEF Shapes, Outboxes
  <2>2. Len(Append(outbox[d].tree, outbox[d].commit)) = Len(outbox[d].tree) + 1
        /\ Len(outbox[d].tree) \in Nat
    BY <2>1
  <2>3. Len(Append(outbox[d].tree, outbox[d].commit)) <= epoch
    BY <1>1, <1>4, ShorterThanEpoch
  <2>4. epoch \in Nat  BY <1>1 DEF LogInv
  <2> QED BY <2>2, <2>3, <2>4
<1>6. OutboxInv(d)' /\ LateInv' /\ WelcomesNotLost'  BY <1>2, <1>4, <1>5, OutboxGoes
<1>7. PICK at \in {"resume", "add"} :
        /\ run' = [run EXCEPT ![d] = [run[d] EXCEPT !.at = at]]
        /\ at = "add" => run[d].todo # None
  BY DEF ClearOutbox, Goto
<1> DEFINE step == [run[d] EXCEPT !.at = at]
<1>8. /\ step \in Memberships /\ step.at = at
      /\ at = "add" => step.todo \in SUBSET Devices
  BY <1>3, <1>7 DEF Memberships
<1>9. Grouped(d)'  BY <1>2, <1>4, QuietLog, GroupedKeeps
<1> HIDE DEF step
<1>10. run' = [run EXCEPT ![d] = step]  BY <1>7 DEF step
<1>11. step \in RunStates /\ ReadingInv(d)' /\ MemberInv(d)'
  BY <1>1, <1>7, <1>8, <1>9, <1>10, Between
<1> QED BY <1>2, <1>6, <1>10, <1>11, OutboxStep

LEMMA WriteOutboxKeeps ==
    ASSUME Inv, NEW d \in Devices, WriteOutbox(d)
    PROVE  Inv'
<1> DEFINE box == [stage |-> "commitPending", tree |-> run[d].tree, commit |-> native[d].pending]
           step == [at |-> "resume", todo |-> run[d].todo]
<1>1. Shapes /\ DeviceInv(d)  BY DEF Inv
<1>2. /\ run[d].at = "prepared" /\ run' = [run EXCEPT ![d] = step]
      /\ outbox' = [outbox EXCEPT ![d] = box] /\ Quiet
      /\ UNCHANGED <<native, cursor, cursors, events, sending, tries, ready>>
  BY DEF WriteOutbox, Goto, Quiet, server
<1>3. run[d] \in Preparations  BY <1>1, <1>2, Phases
<1>4. /\ Grouped(d) /\ outbox[d] = None /\ native[d].pending \in Commits
      /\ native[d].pending.by = d /\ native[d].pending.n <= tries[d]
      /\ OnLog(run[d].tree) /\ Unlogged(native[d].pending)
  BY <1>1, <1>2, <1>3 DEF DeviceInv, MemberInv
<1>5. /\ box \in Outboxes /\ box.tree = run[d].tree /\ box.commit = native[d].pending
      /\ box.stage = "commitPending"
  BY <1>4 DEF Outboxes, OnLog
<1>6. step \in Memberships /\ step.at = "resume"
  <2>1. run[d].todo \in SUBSET Devices  BY <1>3 DEF Preparations
  <2> QED BY <2>1, Resumed
<1> HIDE DEF box, step
<1>7. /\ outbox'[d] = box /\ box # None /\ \A e \in Devices \ {d} : outbox'[e] = outbox[e]
  BY <1>1, <1>2, <1>5, WithOutbox
<1>8. LogGrown /\ deliveries' = deliveries /\ Logged' = Logged
      /\ (\A tree : OnLog(tree) <=> OnLog(tree)') /\ (\A q : Sound(q) => Sound(q)')
  BY <1>2, QuietLog, LogGrows DEF LogGrown
<1>9. OutboxInv(d)'
  <2>1. OnLog(box.tree) /\ Unlogged(box.commit) /\ box.commit.by = d /\ box.commit.n <= tries[d]
    BY <1>4, <1>5
  <2> QED BY <1>2, <1>5, <1>7, <1>8, <2>1 DEF OutboxInv, Unlogged
<1>10. \A e \in Devices : outbox[e] # None => outbox'[e] = outbox[e]  BY <1>4, <1>7
<1>11. LateInv'
  <2> SUFFICES ASSUME NEW q \in late
               PROVE  Sound(q)' /\ (q.class = "commit" => q.parent < epoch \/ OfOutbox(q)')
    BY <1>2 DEF LateInv, Quiet
  <2>1. Sound(q) /\ (q.class = "commit" => q.parent < epoch \/ OfOutbox(q))
    BY DEF Inv, LateInv
  <2>2. q.class = "commit" => q.by \in Devices
    BY <2>1, SoundCommit DEF CommitRequests
  <2> QED BY <1>8, <1>10, <2>1, <2>2 DEF OfOutbox
<1>12. WelcomesNotLost'
  <2> SUFFICES ASSUME NEW row \in CommitRows(nextSequence)
               PROVE  \/ \E w \in deliveries :
                           w.req.class = "welcome" /\ w.req.by = row.req.by /\ w.req.op.n = row.req.op.n
                      \/ /\ outbox'[row.req.by] # None
                         /\ outbox'[row.req.by].commit = row.req.op.commit
    BY <1>2, <1>8 DEF WelcomesNotLost, CommitRows, Quiet
  <2>1. row.req.by \in Devices
    BY SoundCommit DEF Inv, LogInv, CommitRows, CommitRequests
  <2> QED BY <1>10, <2>1 DEF Inv, WelcomesNotLost
<1>13. Grouped(d)'  BY <1>2, <1>4, <1>8, GroupedKeeps
<1>14. step \in RunStates /\ ReadingInv(d)' /\ MemberInv(d)'
  BY <1>1, <1>2, <1>6, <1>13, Between
<1> QED BY <1>2, <1>5, <1>9, <1>11, <1>12, <1>14, OutboxStep

(***************************************************************************)
(* The steps that write the native state.                                  *)
(***************************************************************************)
LEMMA NativeStep ==
    ASSUME Inv, NEW d \in Devices, NEW step \in RunStates, Quiet,
           run' = [run EXCEPT ![d] = step], NEW state \in Natives,
           native' = [native EXCEPT ![d] = state], state.outgoing = native[d].outgoing,
           state.staged \subseteq state.used, state.tree # None => OnLog(state.tree) /\ d \in enrolled,
           Grouped(d) => OnLog(state.tree),
           tries' \in [Devices -> Nat],
           \A e \in Devices : tries[e] <= tries'[e] /\ tries'[e] <= MaxTries[e],
           \A e \in Devices \ {d} : tries'[e] = tries[e],
           UNCHANGED <<cursor, cursors, events, outbox, sending, ready>>,
           outbox[d] = None \/ state.pending \in {native[d].pending, None},
           ReadingInv(d)', MemberInv(d)'
    PROVE  Inv'
<1>1. Shapes /\ DeviceInv(d)  BY DEF Inv
<1>2. /\ LogGrown /\ CommitsOf(d) /\ deliveries' = deliveries /\ Logged' = Logged
      /\ \A tree : OnLog(tree) <=> OnLog(tree)'
  BY QuietLog
<1>3. /\ native' \in [Devices -> Natives] /\ native'[d] = state
      /\ \A e \in Devices \ {d} : native'[e] = native[e]
  BY <1>1 DEF Shapes
<1>4. Grouped(d) => Grouped(d)'  BY <1>2, <1>3 DEF Grouped, LogGrown
<1>5. NativeInv(d)'
  <2>1. HasGroup(d)' => Grouped(d)'  BY <1>2, <1>3 DEF HasGroup, Grouped, LogGrown
  <2> QED BY <1>1, <1>3, <1>4, <2>1 DEF DeviceInv, NativeInv
<1>6. OutboxInv(d)'
  <2> DEFINE box == outbox[d]
  <2> SUFFICES ASSUME box # None PROVE OutboxInv(d)'
    BY DEF OutboxInv
  <2>1. box \in Outboxes /\ box.commit \in Commits  BY <1>1 DEF Shapes, Outboxes
  <2>2. box.commit.n \in Nat /\ tries[d] \in Nat /\ tries'[d] \in Nat /\ tries[d] <= tries'[d]
    BY <1>1, <2>1, CommitFields DEF Shapes
  <2>3. box.commit.n <= tries'[d]  BY <1>1, <2>2 DEF DeviceInv, OutboxInv
  <2>4. native'[d].pending # None => native'[d].pending = box.commit
    BY <1>1, <1>3 DEF DeviceInv, OutboxInv
  <2>5. /\ OnLog(box.tree)' /\ box.commit.by = d
        /\ box.stage # "commitPending" => OnLog(Append(box.tree, box.commit))'
        /\ \A row \in Logged' : row.req.op.commit = box.commit => row.req.op.tree = box.tree
    BY <1>1, <1>2 DEF DeviceInv, OutboxInv
  <2> QED BY <2>3, <2>4, <2>5 DEF OutboxInv
<1>7. LateInv' /\ WelcomesNotLost'  BY QuietDelivery
<1>8. d \in ready' => Grouped(d)  BY <1>1 DEF DeviceInv, SendInv
<1>9. /\ outbox' \in [Devices -> Outboxes \cup {None}]
      /\ cursor' \in [Devices -> [seq : Nat, epoch : Nat, joined : BOOLEAN]]
      /\ cursors' \in [Devices -> Server!Cursors \cup {None}]
      /\ events' \in [Devices -> SUBSET Stored] /\ ready' \subseteq enrolled \cap Senders
  BY <1>1 DEF Shapes
<1>10. native'[d].outgoing = native[d].outgoing  BY <1>3
<1> QED BY <1>3, <1>4, <1>5, <1>6, <1>7, <1>8, <1>9, <1>10, RunStep

LEMMA RejectPendingKeeps ==
    ASSUME Inv, NEW d \in Devices, RejectPending(d)
    PROVE  Inv'
<1> DEFINE state == [native[d] EXCEPT !.pending = None]
           step == [run[d] EXCEPT !.at = "discard"]
<1>1. Shapes /\ DeviceInv(d) /\ native[d] \in Natives  BY NativeOf DEF Inv
<1>2. /\ run[d].at = "reject" /\ run' = [run EXCEPT ![d] = step] /\ Quiet
      /\ native' = [native EXCEPT ![d] = state]
      /\ UNCHANGED <<cursor, cursors, events, outbox, sending, ready, tries>>
  BY DEF RejectPending, Goto, Quiet, server
<1>3. run[d] \in Memberships  BY <1>1, <1>2, Phases
<1>4. /\ outbox[d] # None /\ Grouped(d)
      /\ Len(outbox[d].tree) < epoch /\ Unlogged(outbox[d].commit)
  BY <1>1, <1>2, <1>3 DEF DeviceInv, MemberInv
<1>5. /\ state \in Natives /\ state.outgoing = native[d].outgoing /\ state.pending = None
      /\ state.tree = native[d].tree /\ state.staged = native[d].staged
      /\ state.used = native[d].used
  BY <1>1 DEF Natives
<1>6. step \in Memberships /\ step.at = "discard"  BY <1>3 DEF Memberships
<1> HIDE DEF state, step
<1>7. run'[d] = step /\ native'[d] = state  BY <1>1, <1>2 DEF Shapes
<1>8. epoch' = epoch /\ Logged' = Logged /\ LogGrown  BY <1>2, QuietLog
<1>9. Grouped(d)'  BY <1>4, <1>5, <1>7, <1>8, GroupedKeeps
<1>10. ReadingInv(d)' /\ MemberInv(d)'
  BY <1>2, <1>4, <1>6, <1>7, <1>8, <1>9 DEF ReadingInv, MemberInv, Unlogged
<1>11. tries \in [Devices -> Nat] /\ \A e \in Devices : tries[e] <= tries[e] /\ tries[e] <= MaxTries[e]
  BY <1>1 DEF Shapes
<1>12. step \in RunStates  BY <1>6 DEF RunStates
<1>13. native[d].staged \subseteq native[d].used  BY <1>1 DEF DeviceInv, NativeInv
<1> QED BY <1>2, <1>4, <1>5, <1>10, <1>11, <1>12, <1>13, NativeStep DEF Grouped

LEMMA MergePendingKeeps ==
    ASSUME Inv, NEW d \in Devices, MergePending(d)
    PROVE  Inv'
<1> DEFINE box == outbox[d]
           step == [run[d] EXCEPT !.at = "merged"]
<1>1. Shapes /\ DeviceInv(d) /\ LogInv /\ native[d] \in Natives  BY NativeOf DEF Inv
<1>2. /\ run[d].at = "resume" /\ box # None /\ box.stage = "commitAccepted"
      /\ run' = [run EXCEPT ![d] = step] /\ Quiet
      /\ UNCHANGED <<cursor, cursors, events, outbox, sending, ready, tries>>
  BY DEF MergePending, Resuming, Goto, Quiet, server
<1>3. run[d] \in Memberships  BY <1>1, <1>2, Phases
<1>4. Grouped(d) /\ OnLog(box.tree) /\ OnLog(Append(box.tree, box.commit))
  BY <1>1, <1>2, <1>3 DEF DeviceInv, MemberInv, OutboxInv
<1>5. step \in Memberships /\ step.at = "merged"  BY <1>3 DEF Memberships
<1>6. PICK state \in Natives :
        /\ native' = [native EXCEPT ![d] = state] /\ state.outgoing = native[d].outgoing
        /\ state.staged = native[d].staged /\ state.used = native[d].used
        /\ OnLog(state.tree) /\ state.pending \in {native[d].pending, None}
  <2>1. CASE Len(native[d].tree) = Len(box.tree) /\ native[d].pending # None
             /\ native' = [native EXCEPT ![d].tree = Append(@, native[d].pending),
                                         ![d].pending = None]
    <3> DEFINE state == [native[d] EXCEPT !.tree = Append(box.tree, box.commit), !.pending = None]
    <3>1. native[d].tree = box.tree  BY <1>1, <1>4, <2>1, SameTree DEF Grouped
    <3>2. native[d].pending = box.commit  BY <1>1, <1>2, <2>1 DEF DeviceInv, OutboxInv
    <3>3. Append(box.tree, box.commit) \in Seq(Commits)  BY <1>4 DEF OnLog
    <3>4. native' = [native EXCEPT ![d] = state]  BY <1>1, <2>1, <3>1, <3>2 DEF Shapes
    <3>5. /\ state \in Natives /\ state.outgoing = native[d].outgoing
          /\ state.staged = native[d].staged /\ state.used = native[d].used
          /\ state.tree = Append(box.tree, box.commit) /\ state.pending = None
      BY <1>1, <3>3 DEF Natives
    <3> QED BY <1>4, <3>4, <3>5
  <2>2. CASE native' = native
    <3>1. native' = [native EXCEPT ![d] = native[d]]  BY <1>1, <2>2 DEF Shapes
    <3> QED BY <1>1, <1>4, <3>1 DEF Grouped
  <2> QED BY <2>1, <2>2 DEF MergePending
<1> HIDE DEF step
<1>7. run'[d] = step /\ native'[d] = state  BY <1>1, <1>2, <1>6 DEF Shapes
<1>8. LogGrown /\ \A tree : OnLog(tree) <=> OnLog(tree)'  BY <1>2, QuietLog
<1>9. Grouped(d)'  BY <1>4, <1>6, <1>7, <1>8 DEF Grouped, LogGrown
<1>10. ReadingInv(d)' /\ MemberInv(d)'
  <2>1. OnLog(Append(box.tree, box.commit))'  BY <1>2, <1>4, <1>8
  <2> QED BY <1>2, <1>5, <1>7, <1>9, <2>1 DEF ReadingInv, MemberInv
<1>11. tries \in [Devices -> Nat] /\ \A e \in Devices : tries[e] <= tries[e] /\ tries[e] <= MaxTries[e]
  BY <1>1 DEF Shapes
<1>12. step \in RunStates  BY <1>5 DEF RunStates
<1>13. native[d].staged \subseteq native[d].used  BY <1>1 DEF DeviceInv, NativeInv
<1> QED BY <1>2, <1>4, <1>6, <1>10, <1>11, <1>12, <1>13, NativeStep DEF Grouped

LEMMA PrepareAddKeeps ==
    ASSUME Inv, NEW d \in Devices, PrepareAdd(d)
    PROVE  Inv'
<1> DEFINE x == Least(run[d].todo)
<1>1. Shapes /\ DeviceInv(d) /\ LogInv /\ native[d] \in Natives  BY NativeOf DEF Inv
<1> PICK c : c = Commit(d, x, tries[d] + 1)  OBVIOUS
<1> DEFINE state == [native[d] EXCEPT !.pending = c]
           step == [at |-> "prepared", todo |-> run[d].todo \ {x}, tree |-> native[d].tree]
<1>2. /\ run[d].at = "add" /\ x \in Directory /\ outbox[d] = None /\ tries[d] < MaxTries[d]
      /\ tries' = [tries EXCEPT ![d] = @ + 1] /\ run' = [run EXCEPT ![d] = step] /\ Quiet
      /\ native' = [native EXCEPT ![d] = state]
      /\ UNCHANGED <<cursor, cursors, events, outbox, sending, ready>>
  BY DEF PrepareAdd, Goto, Quiet, server
<1>3. run[d] \in Memberships  BY <1>1, <1>2, Phases
<1>4. Grouped(d) /\ run[d].todo \in SUBSET Devices
  BY <1>1, <1>2, <1>3 DEF DeviceInv, MemberInv
<1>5. x \in Devices /\ tries[d] \in Nat /\ MaxTries[d] \in Nat
  BY <1>1, <1>2 DEF Directory, Shapes
<1> HIDE DEF x
<1>6. c \in Commits /\ c.by = d /\ c.n = tries[d] + 1
  <2>1. tries[d] + 1 \in 1 .. MaxTries[d]  BY <1>2, <1>5
  <2>2. c \in Commits  BY <1>5, <2>1, CommitBy
  <2> QED BY <2>2 DEF Commit
<1>7. tries' \in [Devices -> Nat] /\ tries'[d] = tries[d] + 1
      /\ (\A e \in Devices : tries[e] <= tries'[e] /\ tries'[e] <= MaxTries[e])
      /\ \A e \in Devices \ {d} : tries'[e] = tries[e]
  <2>1. tries \in [Devices -> Nat] /\ MaxTries \in [Devices -> Nat]
        /\ \A e \in Devices : tries[e] <= MaxTries[e]
    BY <1>1, ChannelAssumption DEF Shapes
  <2>2. tries' = [tries EXCEPT ![d] = tries[d] + 1] /\ tries[d] < MaxTries[d]
    BY <1>2
  <2>3. tries' \in [Devices -> Nat] /\ tries'[d] = tries[d] + 1
        /\ \A e \in Devices \ {d} : tries'[e] = tries[e]
    BY <2>1, <2>2
  <2> QED BY <2>1, <2>2, <2>3
<1>8. /\ state \in Natives /\ state.outgoing = native[d].outgoing /\ state.pending = c
      /\ state.tree = native[d].tree /\ state.staged = native[d].staged
      /\ state.used = native[d].used
  BY <1>1, <1>6 DEF Natives
<1>9. step \in Preparations /\ step.at = "prepared" /\ step.tree = native[d].tree
  BY <1>4 DEF Preparations, Grouped, OnLog
<1> HIDE DEF state, step
<1>10. run'[d] = step /\ native'[d] = state  BY <1>1, <1>2 DEF Shapes
<1>11. LogGrown /\ Logged' = Logged /\ \A tree : OnLog(tree) <=> OnLog(tree)'
  BY <1>2, QuietLog
<1>12. Grouped(d)'  BY <1>4, <1>8, <1>10, <1>11, GroupedKeeps
<1>13. Unlogged(c)'
  <2> SUFFICES ASSUME NEW row \in Logged, row.req.op.commit = c PROVE FALSE
    BY <1>11 DEF Unlogged
  <2>1. row.req.op.n = c.n /\ row.req.by = c.by
    BY SoundCommit, <1>1 DEF LogInv, Logged
  <2>2. row.req.op.n <= tries[row.req.by]  BY <1>1 DEF LogInv
  <2> QED BY <1>5, <1>6, <2>1, <2>2
<1>14. OnLog(run[d].tree)'
  <2>1. PICK t : t = native[d].tree  OBVIOUS
  <2>2. OnLog(t)'  BY <1>4, <1>11, <2>1 DEF Grouped
  <2>3. run'[d].tree = t  BY <1>9, <1>10, <2>1
  <2> QED BY <2>2, <2>3
<1>15. MemberInv(d)'
  <2>1. outbox'[d] = None  BY <1>2
  <2>2. native'[d].pending = c /\ c.n <= tries'[d] /\ OnLog(run[d].tree)'
    BY <1>5, <1>6, <1>7, <1>8, <1>10, <1>14
  <2>3. native'[d].pending \in Commits' /\ native'[d].pending.by = d
    BY <1>6, <2>2 DEF Commits
  <2> QED BY <1>9, <1>10, <1>12, <1>13, <2>1, <2>2, <2>3 DEF MemberInv
<1>16. ReadingInv(d)'  BY <1>9, <1>10 DEF ReadingInv
<1>17. step \in RunStates  BY <1>9 DEF RunStates
<1>18. native[d].staged \subseteq native[d].used  BY <1>1 DEF DeviceInv, NativeInv
<1> QED BY <1>2, <1>4, <1>7, <1>8, <1>15, <1>16, <1>17, <1>18, NativeStep DEF Grouped

------------------------------------------------------------------------------
(***************************************************************************)
(* Receiving.  What runs is a batch of rows after the durable cursor.      *)
(***************************************************************************)
LEMMA ReadingMember ==
    ASSUME Shapes, NEW d \in Devices, NEW step \in Readings, run' = [run EXCEPT ![d] = step]
    PROVE  step \in RunStates /\ run'[d] = step /\ MemberInv(d)'
<1>1. run'[d] = step  BY DEF Shapes
<1>2. step.at \in {"process", "apply", "persist", "clear"}  BY DEF Readings
<1>3. step \notin Memberships \cup Preparations  BY <1>2 DEF Memberships, Preparations
<1>4. step \notin (Memberships \cup Preparations)'
  BY <1>3 DEF Memberships, Preparations, Commits
<1> QED BY <1>1, <1>2, <1>4 DEF RunStates, MemberInv

LEMMA BatchRows ==
    ASSUME Inv, NEW d \in Devices, run[d].at \in {"process", "apply", "persist", "clear"},
           run[d].batch # {}
    PROVE  /\ run[d] \in Readings /\ First(run[d].batch) \in run[d].batch
           /\ First(run[d].batch) \in deliveries
           /\ First(run[d].batch).seq \in Nat /\ First(run[d].batch).seq > cursor[d].seq
           /\ Sound(First(run[d].batch).req)
<1>1. run[d] \in Readings /\ ReadingInv(d) /\ LogInv  BY Phases DEF Inv, DeviceInv
<1>2. run[d].batch \subseteq deliveries  BY <1>1 DEF Readings
<1>3. \A row \in run[d].batch : row.seq \in Nat  BY <1>1, <1>2 DEF LogInv
<1>4. First(run[d].batch) \in run[d].batch  BY <1>3, FirstOfBatch
<1> QED BY <1>1, <1>2, <1>3, <1>4 DEF ReadingInv, LogInv

\* The cursor the server keeps for d changes, and what runs.
LEMMA CursorsStep ==
    ASSUME Inv, NEW d \in Devices, NEW step \in RunStates, Quiet,
           run' = [run EXCEPT ![d] = step], NEW row \in Server!Cursors,
           cursors' = [cursors EXCEPT ![d] = row],
           row.acked <= cursor[d].seq, row.ackedEpoch <= cursor[d].epoch,
           UNCHANGED <<native, cursor, events, outbox, sending, tries, ready>>,
           ReadingInv(d)', MemberInv(d)'
    PROVE  Inv'
<1>1. Shapes /\ DeviceInv(d)  BY DEF Inv
<1>2. LogGrown /\ CommitsOf(d)  BY QuietLog
<1>3. Grouped(d) => Grouped(d)'  BY <1>2, GroupedKeeps
<1>4. tries[d] <= tries'[d] /\ tries'[d] \in Nat  BY <1>1 DEF Shapes
<1>5. OutboxInv(d)'  BY <1>1, <1>2, <1>4, OutboxKeeps DEF DeviceInv
<1>6. /\ cursors' \in [Devices -> Server!Cursors \cup {None}] /\ cursors'[d] = row
      /\ \A e \in Devices \ {d} : cursors'[e] = cursors[e]
  BY <1>1 DEF Shapes
<1>7. NativeInv(d)'  BY <1>1, <1>3, <1>6 DEF DeviceInv, NativeInv, HasGroup
<1>8. LateInv' /\ WelcomesNotLost'  BY QuietDelivery
<1>9. \A e \in Devices : tries[e] <= tries'[e] /\ tries'[e] <= MaxTries[e]
  BY <1>1 DEF Shapes
<1>10. d \in ready' => Grouped(d)  BY <1>1 DEF DeviceInv, SendInv
<1>11. /\ native' \in [Devices -> Natives] /\ outbox' \in [Devices -> Outboxes \cup {None}]
       /\ cursor' \in [Devices -> [seq : Nat, epoch : Nat, joined : BOOLEAN]]
       /\ events' \in [Devices -> SUBSET Stored] /\ tries' \in [Devices -> Nat]
       /\ ready' \subseteq enrolled \cap Senders
  BY <1>1 DEF Shapes
<1> QED BY <1>3, <1>5, <1>6, <1>7, <1>8, <1>9, <1>10, <1>11, RunStep

LEMMA FetchBatchKeeps ==
    ASSUME Inv, NEW d \in Devices, FetchBatch(d)
    PROVE  Inv'
<1> DEFINE page == Server!Page(d, cursor[d].seq, BatchLimit)
<1>1. Shapes /\ DeviceInv(d) /\ LogInv  BY DEF Inv
<1>2. /\ d \in enrolled /\ Server!Fetch(d, cursor[d].seq, BatchLimit) /\ Quiet
      /\ UNCHANGED <<native, cursor, events, outbox, sending, tries, ready>>
  BY DEF FetchBatch, Server!Fetch, Quiet, durable
<1>3. \A row \in page : row \in deliveries /\ row.seq > cursor[d].seq /\ row.seq \in Nat
  BY <1>1 DEF Server!Page, LogInv
<1>4. PICK new \in Server!Cursors :
        /\ cursors' = [cursors EXCEPT ![d] = new]
        /\ new.acked <= cursor[d].seq /\ new.ackedEpoch <= cursor[d].epoch
  <2> DEFINE old == IF cursors[d] = None THEN [delivered |-> 0, acked |-> 0, ackedEpoch |-> 0]
                    ELSE cursors[d]
  <2>1. old \in Server!Cursors /\ old.acked <= cursor[d].seq /\ old.ackedEpoch <= cursor[d].epoch
    <3>1. CASE cursors[d] = None
      BY <1>1, <3>1 DEF Server!Cursors, Shapes
    <3>2. CASE cursors[d] # None
      BY <1>1, <3>2 DEF Shapes, DeviceInv, NativeInv
    <3> QED BY <3>1, <3>2
  <2>2. PICK row \in Server!Last(page) :
          cursors' = [cursors EXCEPT ![d] =
            [old EXCEPT !.delivered = IF row.seq > @ THEN row.seq ELSE @]]
    BY <1>2 DEF Server!Fetch
  <2>3. row.seq \in Nat  BY <1>3, <2>2 DEF Server!Last
  <2> HIDE DEF old
  <2> DEFINE new == [old EXCEPT !.delivered = IF row.seq > @ THEN row.seq ELSE @]
  <2>4. new \in Server!Cursors /\ new.acked = old.acked /\ new.ackedEpoch = old.ackedEpoch
    BY <2>1, <2>3 DEF Server!Cursors
  <2> QED BY <2>1, <2>2, <2>4
<1>5. PICK step \in RunStates :
        run' = [run EXCEPT ![d] = step] /\ ReadingInv(d)' /\ MemberInv(d)'
  <2> DEFINE welcomes == {row \in page : row.req.class = "welcome"}
             batch == {row \in page : cursor[d].joined \/ \E w \in welcomes : w.seq <= row.seq}
             step == [at |-> "process", directory |-> Directory, joined |-> cursor[d].joined,
                      epoch |-> cursor[d].epoch, done |-> cursor[d].seq, next |-> {},
                      batch |-> batch]
  <2>1. CASE run' = [run EXCEPT ![d] = step]
    <3>1. batch \subseteq deliveries /\ \A row \in batch : row.seq > cursor[d].seq  BY <1>3
    <3>2. /\ cursor[d].joined \in BOOLEAN /\ cursor[d].epoch \in Nat /\ cursor[d].seq \in Nat
          /\ Directory \subseteq Devices
      BY <1>1 DEF Shapes, Directory
    <3> HIDE DEF batch
    <3>3. step \in Readings  BY <3>1, <3>2 DEF Readings
    <3>4. step \in RunStates /\ run'[d] = step /\ MemberInv(d)'
      BY <1>1, <2>1, <3>3, ReadingMember
    <3>5. cursor[d].joined => Grouped(d)'
      BY <1>1, <1>2, QuietLog, GroupedKeeps DEF DeviceInv, NativeInv
    <3>6. d \in enrolled' /\ cursor' = cursor  BY <1>2 DEF Quiet
    <3>7. ReadingInv(d)'
      BY <3>1, <3>2, <3>4, <3>5, <3>6 DEF ReadingInv
    <3> QED BY <2>1, <3>4, <3>7
  <2>2. CASE run' = [run EXCEPT ![d] = Idle]  BY <1>1, <2>2, Resting
  <2> QED BY <2>1, <2>2 DEF FetchBatch, Goto
<1> QED BY <1>2, <1>4, <1>5, CursorsStep

LEMMA AcknowledgeKeeps ==
    ASSUME Inv, NEW d \in Devices, FetchNothing(d) \/ AcknowledgeBatch(d)
    PROVE  Inv'
<1>1. Shapes /\ DeviceInv(d)  BY DEF Inv
<1>2. /\ Server!Acknowledge(d, cursor[d].seq, cursor[d].epoch) /\ Quiet
      /\ UNCHANGED <<native, cursor, events, outbox, sending, tries, ready>>
  BY DEF FetchNothing, AcknowledgeBatch, Server!Acknowledge, Quiet, durable
<1>3. run' = [run EXCEPT ![d] = Idle]
  <2>1. CASE FetchNothing(d)  BY <1>1, <2>1 DEF FetchNothing, Shapes
  <2>2. CASE AcknowledgeBatch(d)  BY <2>2 DEF AcknowledgeBatch, Goto
  <2> QED BY <2>1, <2>2
<1> DEFINE row == [cursors[d] EXCEPT !.acked = cursor[d].seq, !.ackedEpoch = cursor[d].epoch]
<1>4. cursor[d].seq \in Nat /\ cursor[d].epoch \in Nat  BY <1>1 DEF Shapes
<1>5. cursors[d] \in Server!Cursors
  BY <1>1, <1>2 DEF Shapes, Server!Acknowledge, Server!Acceptable
<1>6. row \in Server!Cursors /\ row.acked = cursor[d].seq /\ row.ackedEpoch = cursor[d].epoch
  BY <1>4, <1>5 DEF Server!Cursors
<1>7. cursors' = [cursors EXCEPT ![d] = row]
  BY <1>1, <1>2 DEF Server!Acknowledge, Shapes
<1> HIDE DEF row
<1>8. Idle \in RunStates /\ ReadingInv(d)' /\ MemberInv(d)'  BY <1>1, <1>3, Resting
<1>9. row.acked <= cursor[d].seq /\ row.ackedEpoch <= cursor[d].epoch  BY <1>4, <1>6
<1> QED BY <1>2, <1>3, <1>6, <1>7, <1>8, <1>9, CursorsStep

(***************************************************************************)
(* The rows of the batch, one after the other.  row is the one processed.  *)
(***************************************************************************)
\* The activity goes on with the rows after row.
After(d, row, at) ==
    [run[d] EXCEPT !.at = "process", !.batch = @ \ {row}, !.done = row.seq,
                   !.joined = TRUE, !.epoch = at]

LEMMA NextRow ==
    ASSUME Inv, NEW d \in Devices, run[d].at \in {"process", "clear"}, run[d].batch # {},
           NEW row, row = First(run[d].batch), NEW at \in Nat,
           cursor[d].epoch <= at, run' = [run EXCEPT ![d] = After(d, row, at)],
           Quiet, cursor' = cursor, Grouped(d)'
    PROVE  After(d, row, at) \in RunStates /\ ReadingInv(d)' /\ MemberInv(d)'
<1> DEFINE step == After(d, row, at)
<1>1. Shapes /\ ReadingInv(d)  BY DEF Inv, DeviceInv
<1>2. run[d] \in Readings /\ row.seq \in Nat /\ row.seq > cursor[d].seq  BY BatchRows
<1>3. /\ step \in Readings /\ step.at = "process" /\ step.batch = run[d].batch \ {row}
      /\ step.done = row.seq /\ step.joined = TRUE /\ step.epoch = at
  BY <1>2 DEF Readings, After
<1> HIDE DEF step
<1>4. step \in RunStates /\ run'[d] = step /\ MemberInv(d)'  BY <1>1, <1>3, ReadingMember DEF step
<1>5. cursor[d].seq \in Nat  BY <1>1 DEF Shapes
<1>6. d \in enrolled'  BY <1>1 DEF ReadingInv, Quiet
<1>7. \A q \in run[d].batch : q.seq > cursor[d].seq  BY <1>1 DEF ReadingInv
<1>8. ReadingInv(d)'
  BY <1>2, <1>3, <1>4, <1>5, <1>6, <1>7 DEF ReadingInv
<1> QED BY <1>4, <1>8 DEF step

LEMMA ProcessHandshakeKeeps ==
    ASSUME Inv, NEW d \in Devices, ProcessHandshake(d)
    PROVE  Inv'
<1>1. Shapes /\ DeviceInv(d) /\ LogInv /\ native[d] \in Natives  BY NativeOf DEF Inv
<1>a. PICK row : row = First(run[d].batch)  OBVIOUS
<1>b. PICK tree : tree = IF row.req.class = "welcome" THEN TreeAfterWelcome(d, row)
                         ELSE TreeAfterCommit(d, row)
  OBVIOUS
<1>c. PICK state : state = [native[d] EXCEPT !.tree = tree,
                              !.pending = IF tree = native[d].tree THEN @ ELSE None]
  OBVIOUS
<1>2. /\ run[d].at = "process" /\ run[d].batch # {} /\ tree # None /\ Quiet
      /\ row.req.class = IF run[d].joined THEN "commit" ELSE "welcome"
      /\ run' = [run EXCEPT ![d] = [run[d] EXCEPT !.batch = @ \ {row}, !.done = row.seq,
                                                  !.joined = TRUE, !.epoch = row.req.accepted]]
      /\ UNCHANGED <<cursor, cursors, events, outbox, sending, ready, tries>>
  BY <1>a, <1>b DEF ProcessHandshake, Goto, Quiet, server
<1>3. native' = [native EXCEPT ![d] = state]
  BY <1>1, <1>a, <1>b, <1>c DEF ProcessHandshake, Shapes
<1>4. /\ run[d] \in Readings /\ row \in deliveries /\ Sound(row.req) /\ ReadingInv(d)
  BY <1>1, <1>2, <1>a, BatchRows DEF DeviceInv
<1>5. d \in enrolled /\ cursor[d].epoch <= run[d].epoch /\ run[d].epoch \in Nat
      /\ cursor[d].epoch \in Nat
      /\ (run[d].joined => Grouped(d)) /\ (~run[d].joined => cursor[d].epoch = 0)
  BY <1>1, <1>2, <1>4 DEF ReadingInv, Readings, Shapes, DeviceInv, NativeInv
<1>6. ASSUME ~run[d].joined
      PROVE  OnLog(tree) /\ row.req.accepted \in Nat /\ cursor[d].epoch <= row.req.accepted
  <2>1. row.req.class = "welcome"  BY <1>2, <1>6
  <2>2. row.req \in WelcomeRequests /\ OnLog(row.req.op.tree)
    BY <1>4, <2>1 DEF Sound, CommitRequests, MessageRequests
  <2>3. HasGroup(d) => OnLog(native[d].tree)  BY <1>1 DEF DeviceInv, NativeInv, Grouped
  <2>4. OnLog(tree)
    <3>1. tree = TreeAfterWelcome(d, row)  BY <1>b, <2>1
    <3> QED BY <1>2, <2>2, <2>3, <3>1 DEF TreeAfterWelcome
  <2>5. row.req.accepted \in Nat  BY <2>2 DEF WelcomeRequests
  <2> QED BY <1>5, <1>6, <2>4, <2>5
<1>7. ASSUME run[d].joined
      PROVE  OnLog(tree) /\ row.req.accepted \in Nat /\ cursor[d].epoch <= row.req.accepted
  <2>1. row.req.class = "commit" /\ OnLog(native[d].tree)  BY <1>2, <1>5, <1>7 DEF Grouped
  <2>2. /\ row.req \in CommitRequests /\ row.req.parent = Len(row.req.op.tree)
        /\ row.req.accepted = Len(row.req.op.tree) + 1 /\ row \in Logged
    BY <1>4, <2>1, SoundCommit DEF Logged
  <2>3. row.req.op.commit \in Commits /\ row.req.parent \in Nat /\ row.req.accepted \in Nat
    BY <2>2 DEF CommitRequests
  <2>4. row.req.parent = run[d].epoch
        /\ \/ tree = native[d].tree
           \/ native[d].tree = row.req.op.tree /\ tree = Append(native[d].tree, row.req.op.commit)
    <3>1. tree = TreeAfterCommit(d, row)  BY <1>b, <2>1
    <3> QED BY <1>2, <3>1 DEF TreeAfterCommit
  <2>5. OnLog(tree)
    <3>1. CASE tree = native[d].tree  BY <2>1, <3>1
    <3>2. CASE native[d].tree = row.req.op.tree
               /\ tree = Append(native[d].tree, row.req.op.commit)
      <4>1. OnLog(tree)'
        <5>1. PICK t : t = native[d].tree  OBVIOUS
        <5>2. deliveries \subseteq deliveries' /\ row \in Logged'
          BY <1>2, <2>2, QuietLog DEF LogGrown
        <5>3. OnLog(t) /\ row.req.accepted = Len(t) + 1  BY <2>1, <2>2, <3>2, <5>1
        <5>4. OnLog(Append(t, row.req.op.commit))'
          BY <2>3, <5>2, <5>3, OneCommitMore
        <5> QED BY <3>2, <5>1, <5>4
      <4> QED BY <1>2, <4>1, QuietLog
    <3> QED BY <2>4, <3>1, <3>2
  <2> QED BY <1>5, <2>2, <2>3, <2>4, <2>5
<1>8. OnLog(tree) /\ row.req.accepted \in Nat /\ cursor[d].epoch <= row.req.accepted
  BY <1>6, <1>7
<1>9. /\ state \in Natives /\ state.outgoing = native[d].outgoing /\ state.tree = tree
      /\ state.staged = native[d].staged /\ state.used = native[d].used
      /\ state.pending \in {native[d].pending, None}
  <2>1. tree \in Seq(Commits)  BY <1>8 DEF OnLog
  <2> QED BY <1>1, <1>c, <2>1 DEF Natives
<1>10. native'[d] = state  BY <1>1, <1>3 DEF Shapes
<1>11. Grouped(d)'
  BY <1>2, <1>5, <1>8, <1>9, <1>10, QuietLog DEF Grouped, LogGrown
<1>12. run' = [run EXCEPT ![d] = After(d, row, row.req.accepted)]
  BY <1>2, <1>4 DEF After, Readings
<1>13. /\ After(d, row, row.req.accepted) \in RunStates
       /\ ReadingInv(d)' /\ MemberInv(d)'
  BY <1>2, <1>8, <1>11, <1>12, <1>a, NextRow
<1>14. tries \in [Devices -> Nat] /\ \A e \in Devices : tries[e] <= tries[e] /\ tries[e] <= MaxTries[e]
  BY <1>1 DEF Shapes
<1>15. native[d].staged \subseteq native[d].used  BY <1>1 DEF DeviceInv, NativeInv
<1> QED BY <1>2, <1>3, <1>5, <1>8, <1>9, <1>12, <1>13, <1>14, <1>15, NativeStep

LEMMA StageRowKeeps ==
    ASSUME Inv, NEW d \in Devices, StageRow(d)
    PROVE  Inv'
<1>1. Shapes /\ DeviceInv(d) /\ native[d] \in Natives  BY NativeOf DEF Inv
<1> PICK row : row = First(run[d].batch)  OBVIOUS
<1> DEFINE state == [native[d] EXCEPT !.staged = @ \cup {row.seq}, !.used = @ \cup {row.seq}]
           step == [run[d] EXCEPT !.at = "apply"]
<1>2. /\ run[d].at = "process" /\ run[d].batch # {} /\ run[d].joined /\ Quiet
      /\ row.req.class = "application"
      /\ run' = [run EXCEPT ![d] = step]
      /\ UNCHANGED <<cursor, cursors, events, outbox, sending, ready, tries>>
  BY DEF StageRow, Readable, Goto, Quiet, server
<1>3. native' = [native EXCEPT ![d] = state]  BY <1>1 DEF StageRow, Shapes
<1>4. run[d] \in Readings /\ row.seq \in Nat /\ ReadingInv(d)
  BY <1>1, <1>2, BatchRows DEF DeviceInv
<1>5. native[d].staged \subseteq native[d].used  BY <1>1 DEF DeviceInv, NativeInv
<1>6. /\ state \in Natives /\ state.outgoing = native[d].outgoing
      /\ state.tree = native[d].tree /\ state.pending = native[d].pending
      /\ state.staged \subseteq state.used
  BY <1>1, <1>4, <1>5 DEF Natives
<1>7. /\ step \in Readings /\ step.at = "apply" /\ step.batch = run[d].batch
      /\ step.done = run[d].done /\ step.joined = run[d].joined /\ step.epoch = run[d].epoch
  BY <1>4 DEF Readings
<1> HIDE DEF state, step
<1>8. step \in RunStates /\ run'[d] = step /\ MemberInv(d)'  BY <1>1, <1>2, <1>7, ReadingMember
<1>9. Grouped(d)  BY <1>2, <1>4 DEF ReadingInv
<1>10. native'[d] = state  BY <1>1, <1>3 DEF Shapes
<1>11. Grouped(d)'  BY <1>2, <1>6, <1>9, <1>10, QuietLog, GroupedKeeps
<1>12. ReadingInv(d)'
  BY <1>2, <1>4, <1>7, <1>8, <1>11 DEF ReadingInv, Quiet
<1>13. tries \in [Devices -> Nat] /\ \A e \in Devices : tries[e] <= tries[e] /\ tries[e] <= MaxTries[e]
  BY <1>1 DEF Shapes
<1> QED BY <1>2, <1>3, <1>6, <1>8, <1>9, <1>12, <1>13, NativeStep DEF Grouped

LEMMA ClearRowKeeps ==
    ASSUME Inv, NEW d \in Devices, ClearRow(d)
    PROVE  Inv'
<1>1. Shapes /\ DeviceInv(d) /\ native[d] \in Natives  BY NativeOf DEF Inv
<1> PICK row : row = First(run[d].batch)  OBVIOUS
<1> DEFINE state == [native[d] EXCEPT !.staged = @ \ {row.seq}]
<1>2. /\ run[d].at \in {"process", "clear"} /\ Quiet
      /\ run[d].at = "process" => run[d].batch # {} /\ run[d].joined
      /\ run' = [run EXCEPT ![d] = [run[d] EXCEPT !.at = "process", !.batch = @ \ {row},
                                                  !.done = row.seq]]
      /\ UNCHANGED <<cursor, cursors, events, outbox, sending, ready, tries>>
  BY DEF ClearRow, Readable, Goto, Quiet, server
<1>3. native' = [native EXCEPT ![d] = state]  BY <1>1 DEF ClearRow, Shapes
<1>4. run[d].batch # {} /\ run[d].joined
  <2>1. CASE run[d].at = "process"  BY <1>2, <2>1
  <2>2. CASE run[d].at = "clear"  BY <1>1, <2>2 DEF DeviceInv, ReadingInv
  <2> QED BY <1>2, <2>1, <2>2
<1>5. run[d] \in Readings /\ ReadingInv(d) /\ native[d].staged \subseteq native[d].used
  BY <1>1, <1>2, Phases DEF DeviceInv, NativeInv
<1>6. /\ state \in Natives /\ state.outgoing = native[d].outgoing
      /\ state.tree = native[d].tree /\ state.pending = native[d].pending
      /\ state.staged \subseteq state.used
  BY <1>1, <1>5 DEF Natives
<1> HIDE DEF state
<1>7. run' = [run EXCEPT ![d] = After(d, row, run[d].epoch)]
  <2>1. run[d].joined = TRUE  BY <1>4, <1>5 DEF Readings
  <2> QED BY <1>2, <1>5, <2>1 DEF After, Readings
<1>8. Grouped(d)  BY <1>2, <1>4, <1>5 DEF ReadingInv
<1>9. native'[d] = state  BY <1>1, <1>3 DEF Shapes
<1>10. Grouped(d)'  BY <1>2, <1>6, <1>8, <1>9, QuietLog, GroupedKeeps
<1>11. run[d].joined \in BOOLEAN /\ run[d].epoch \in Nat /\ cursor[d].epoch <= run[d].epoch
  BY <1>2, <1>5 DEF Readings, ReadingInv
<1>12. /\ After(d, row, run[d].epoch) \in RunStates
       /\ ReadingInv(d)' /\ MemberInv(d)'
  BY <1>2, <1>4, <1>7, <1>10, <1>11, NextRow
<1>13. tries \in [Devices -> Nat] /\ \A e \in Devices : tries[e] <= tries[e] /\ tries[e] <= MaxTries[e]
  BY <1>1 DEF Shapes
<1> QED BY <1>2, <1>3, <1>6, <1>7, <1>8, <1>12, <1>13, NativeStep DEF Grouped

LEMMA ApplyRowKeeps ==
    ASSUME Inv, NEW d \in Devices, ApplyRow(d)
    PROVE  Inv'
<1>1. Shapes /\ DeviceInv(d)  BY DEF Inv
<1> PICK row : row = First(run[d].batch)  OBVIOUS
<1>2. /\ run[d].at = "apply" /\ Quiet
      /\ UNCHANGED <<native, cursor, cursors, events, outbox, sending, ready, tries>>
  BY DEF ApplyRow, Quiet, server, durable
<1>3. run[d].batch # {} /\ ReadingInv(d) /\ row.req.class = "application"
  BY <1>1, <1>2 DEF DeviceInv, ReadingInv
<1>4. run[d] \in Readings /\ row \in deliveries  BY <1>2, <1>3, BatchRows
<1>5. Extended(d, row) \in SUBSET Stored
  <2>1. row \in Rows  BY <1>3, <1>4 DEF Rows
  <2> QED BY <1>1, <2>1, EntriesAreStored DEF Extended, Shapes
<1>6. PICK step \in Readings :
        /\ run' = [run EXCEPT ![d] = step] /\ step.at \in {"clear", "persist"}
        /\ step.batch = run[d].batch /\ step.done = run[d].done
        /\ step.joined = run[d].joined /\ step.epoch = run[d].epoch
  <2> DEFINE cleared == [run[d] EXCEPT !.at = "clear"]
             written == [run[d] EXCEPT !.at = "persist", !.next = Extended(d, row)]
  <2>1. /\ cleared \in Readings /\ cleared.at = "clear" /\ cleared.batch = run[d].batch
        /\ cleared.done = run[d].done /\ cleared.joined = run[d].joined
        /\ cleared.epoch = run[d].epoch
    BY <1>4 DEF Readings
  <2>2. /\ written \in Readings /\ written.at = "persist" /\ written.batch = run[d].batch
        /\ written.done = run[d].done /\ written.joined = run[d].joined
        /\ written.epoch = run[d].epoch
    BY <1>4, <1>5 DEF Readings
  <2>3. run' = [run EXCEPT ![d] = cleared] \/ run' = [run EXCEPT ![d] = written]
    BY DEF ApplyRow, Goto
  <2> QED BY <2>1, <2>2, <2>3
<1>7. step \in RunStates /\ run'[d] = step /\ MemberInv(d)'  BY <1>1, <1>6, ReadingMember
<1>8. Grouped(d) => Grouped(d)'  BY <1>2, QuietLog, GroupedKeeps
<1>9. ReadingInv(d)'
  BY <1>2, <1>3, <1>6, <1>7, <1>8 DEF ReadingInv, Quiet
<1>10. ready' \subseteq enrolled \cap Senders /\ (d \in ready' => Grouped(d))
  BY <1>1, <1>2 DEF Shapes, DeviceInv, SendInv
<1> QED BY <1>2, <1>6, <1>7, <1>9, <1>10, RunMovesOn

LEMMA PersistRowKeeps ==
    ASSUME Inv, NEW d \in Devices, PersistRow(d)
    PROVE  Inv'
<1> DEFINE step == [run[d] EXCEPT !.at = "clear", !.next = {}]
<1>1. Shapes /\ DeviceInv(d)  BY DEF Inv
<1>2. /\ run[d].at = "persist" /\ Quiet /\ run' = [run EXCEPT ![d] = step]
      /\ events' = [events EXCEPT ![d] = run[d].next]
      /\ UNCHANGED <<native, cursor, cursors, outbox, sending, ready, tries>>
  BY DEF PersistRow, Goto, Quiet, server
<1>3. run[d] \in Readings /\ ReadingInv(d) /\ run[d].batch # {}
  BY <1>1, <1>2, Phases DEF DeviceInv, ReadingInv
<1>4. run[d].next \in SUBSET Stored  BY <1>3 DEF Readings
<1>5. events' \in [Devices -> SUBSET Stored]  BY <1>1, <1>2, <1>4 DEF Shapes
<1>6. /\ step \in Readings /\ step.at = "clear" /\ step.batch = run[d].batch
      /\ step.done = run[d].done /\ step.joined = run[d].joined /\ step.epoch = run[d].epoch
  BY <1>3 DEF Readings
<1> HIDE DEF step
<1>7. step \in RunStates /\ run'[d] = step /\ MemberInv(d)'  BY <1>1, <1>2, <1>6, ReadingMember
<1>8. LogGrown /\ CommitsOf(d) /\ (Grouped(d) => Grouped(d)')
  BY <1>2, QuietLog, GroupedKeeps
<1>9. ReadingInv(d)'
  BY <1>2, <1>3, <1>6, <1>7, <1>8 DEF ReadingInv, Quiet
<1>10. tries' \in [Devices -> Nat]
       /\ \A e \in Devices : tries[e] <= tries'[e] /\ tries'[e] <= MaxTries[e]
  BY <1>1, <1>2 DEF Shapes
<1>11. NativeInv(d)' /\ OutboxInv(d)'
  BY <1>1, <1>2, <1>8, <1>10, NativeKeeps, OutboxKeeps DEF DeviceInv
<1>12. LateInv' /\ WelcomesNotLost'  BY <1>2, QuietDelivery
<1>13. ready' \subseteq enrolled \cap Senders /\ (d \in ready' => Grouped(d))
  BY <1>1, <1>2 DEF Shapes, DeviceInv, SendInv
<1>14. /\ native' \in [Devices -> Natives] /\ outbox' \in [Devices -> Outboxes \cup {None}]
       /\ cursor' \in [Devices -> [seq : Nat, epoch : Nat, joined : BOOLEAN]]
       /\ cursors' \in [Devices -> Server!Cursors \cup {None}]
  BY <1>1, <1>2 DEF Shapes
<1> QED BY <1>2, <1>5, <1>7, <1>8, <1>9, <1>10, <1>11, <1>12, <1>13, <1>14, RunStep

LEMMA WriteCursorKeeps ==
    ASSUME Inv, NEW d \in Devices, WriteCursor(d)
    PROVE  Inv'
<1> DEFINE step == [at |-> "acknowledge"]
           new == [seq |-> run[d].done, epoch |-> run[d].epoch, joined |-> TRUE]
<1>1. Shapes /\ DeviceInv(d)  BY DEF Inv
<1>2. /\ run[d].at = "process" /\ run[d].joined /\ Quiet /\ run' = [run EXCEPT ![d] = step]
      /\ cursor' = [cursor EXCEPT ![d] = new]
      /\ UNCHANGED <<native, cursors, events, outbox, sending, ready, tries>>
  BY DEF WriteCursor, Goto, Quiet, server
<1>3. /\ run[d] \in Readings /\ Grouped(d)
      /\ cursor[d].seq <= run[d].done /\ cursor[d].epoch <= run[d].epoch
  BY <1>1, <1>2, Phases DEF DeviceInv, ReadingInv
<1>4. new \in [seq : Nat, epoch : Nat, joined : BOOLEAN]  BY <1>3 DEF Readings
<1>5. /\ cursor' \in [Devices -> [seq : Nat, epoch : Nat, joined : BOOLEAN]]
      /\ cursor'[d] = new /\ \A e \in Devices \ {d} : cursor'[e] = cursor[e]
  BY <1>1, <1>2, <1>4 DEF Shapes
<1>6. step \in RunStates /\ ReadingInv(d)' /\ MemberInv(d)'  BY <1>1, <1>2, Resting
<1>7. LogGrown /\ CommitsOf(d) /\ Grouped(d)'  BY <1>2, <1>3, QuietLog, GroupedKeeps
<1>8. NativeInv(d)'
  <2>1. cursors[d] # None => cursors[d].acked <= run[d].done /\ cursors[d].ackedEpoch <= run[d].epoch
    <3> SUFFICES ASSUME cursors[d] # None
                 PROVE  cursors[d].acked <= run[d].done /\ cursors[d].ackedEpoch <= run[d].epoch
      OBVIOUS
    <3>1. cursors[d].acked \in Nat /\ cursors[d].ackedEpoch \in Nat
      BY <1>1 DEF Shapes, Server!Cursors
    <3>2. cursor[d].seq \in Nat /\ cursor[d].epoch \in Nat  BY <1>1 DEF Shapes
    <3>3. run[d].done \in Nat /\ run[d].epoch \in Nat  BY <1>3 DEF Readings
    <3>4. cursors[d].acked <= cursor[d].seq /\ cursors[d].ackedEpoch <= cursor[d].epoch
      BY <1>1 DEF DeviceInv, NativeInv
    <3> QED BY <1>3, <3>1, <3>2, <3>3, <3>4
  <2>2. native[d].staged \subseteq native[d].used  BY <1>1 DEF DeviceInv, NativeInv
  <2> QED BY <1>2, <1>5, <1>7, <2>1, <2>2 DEF NativeInv, HasGroup
<1>9. tries' \in [Devices -> Nat]
      /\ \A e \in Devices : tries[e] <= tries'[e] /\ tries'[e] <= MaxTries[e]
  BY <1>1, <1>2 DEF Shapes
<1>10. OutboxInv(d)'  BY <1>1, <1>2, <1>7, <1>9, OutboxKeeps DEF DeviceInv
<1>11. LateInv' /\ WelcomesNotLost'  BY <1>2, QuietDelivery
<1>12. ready' \subseteq enrolled \cap Senders  BY <1>1, <1>2 DEF Shapes
<1>13. /\ native' \in [Devices -> Natives] /\ outbox' \in [Devices -> Outboxes \cup {None}]
       /\ events' \in [Devices -> SUBSET Stored]
       /\ cursors' \in [Devices -> Server!Cursors \cup {None}]
  BY <1>1, <1>2 DEF Shapes
<1> QED BY <1>2, <1>3, <1>5, <1>6, <1>7, <1>8, <1>9, <1>10, <1>11, <1>12, <1>13, RunStep

------------------------------------------------------------------------------
(***************************************************************************)
(* The server's own steps, and what is lost or late.                       *)
(***************************************************************************)
LEMMA AroundDevices ==
    ASSUME Inv, LogGrown, LogInv', LateInv', WelcomesNotLost', enrolled' \subseteq Devices,
           UNCHANGED <<native, cursor, cursors, events, outbox, run, sending, ready, tries>>,
           \A e \in Devices : CommitsOf(e)
    PROVE  Inv'
<1>1. Shapes  BY DEF Inv
<1>2. Shapes'
  <2>1. Stored \subseteq Stored' /\ RunStates \subseteq RunStates' /\ SendStates \subseteq SendStates'
    BY LogGrows DEF LogGrown
  <2>2. events' \in [Devices -> SUBSET Stored'] /\ run' \in [Devices -> RunStates']
        /\ sending' \in [Devices -> SendStates']
    BY <1>1, <2>1 DEF Shapes
  <2>3. Natives' = Natives /\ Outboxes' = Outboxes /\ Server!Cursors' = Server!Cursors
    BY DEF Natives, Commits, MessageRequests, Outboxes, Server!Cursors
  <2>4. ready' \subseteq enrolled' \cap Senders  BY <1>1 DEF Shapes, LogGrown
  <2> HIDE DEF Natives, Outboxes, RunStates, SendStates, Stored
  <2> QED BY <1>1, <2>2, <2>3, <2>4 DEF Shapes
<1>3. ASSUME NEW e \in Devices PROVE DeviceInv(e)'
  <2>1. Untouched(e)  BY DEF Untouched
  <2> QED BY <2>1, UntouchedKeeps
<1> QED BY <1>2, <1>3 DEF Inv

\* The log stays; more may be enrolled, and sound requests may be on their way.
LEMMA SameLog ==
    ASSUME Inv, UNCHANGED <<epoch, nextSequence, deliveries, outbox, tries>>,
           enrolled \subseteq enrolled',
           \A r \in late' \ late : Sound(r) /\ (r.class = "commit" => OfOutbox(r))
    PROVE  /\ LogGrown /\ LogInv' /\ LateInv' /\ WelcomesNotLost'
           /\ \A e \in Devices : CommitsOf(e)
<1>1. LogGrown /\ Logged' = Logged  BY DEF Inv, LogInv, LogGrown, Logged
<1>2. \A q : Sound(q) => Sound(q)'  BY <1>1, LogGrows DEF LogGrown
<1>3. LogInv'  BY <1>1, <1>2 DEF Inv, LogInv
<1>4. LateInv'
  <2> SUFFICES ASSUME NEW q \in late'
               PROVE  Sound(q)' /\ (q.class = "commit" => q.parent < epoch \/ OfOutbox(q)')
    BY DEF LateInv
  <2>1. Sound(q) /\ (q.class = "commit" => q.parent < epoch \/ OfOutbox(q))
    BY DEF Inv, LateInv
  <2> QED BY <1>2, <2>1 DEF OfOutbox
<1>5. WelcomesNotLost'  BY DEF Inv, WelcomesNotLost, CommitRows
<1>6. \A e \in Devices : CommitsOf(e)  BY <1>1 DEF CommitsOf
<1> QED BY <1>1, <1>3, <1>4, <1>5, <1>6

LEMMA DelayKeeps ==
    ASSUME Inv, NEW d \in Devices, NEW r \in InFlight(d), Delay(r)
    PROVE  Inv'
<1>1. /\ late' = late \cup {r}
      /\ UNCHANGED <<epoch, nextSequence, deliveries, enrolled, native, cursor, cursors, events,
                     outbox, run, sending, ready, tries>>
  BY DEF Delay, server, durable
<1>2. Sound(r) /\ (r.class = "commit" => OfOutbox(r))
  <2>1. CASE sending[d].at = "submit" /\ r = native[d].outgoing
    BY <2>1 DEF Inv, DeviceInv, SendInv, Sound, MessageRequests
  <2>2. CASE (Resuming(d, "commitPending") \/ Resuming(d, "welcomePending")) /\ r = OutboxRequest(d)
    BY <2>2, RequestOfOutbox
  <2> QED BY <2>1, <2>2 DEF InFlight
<1>3. \A q \in late' \ late : Sound(q) /\ (q.class = "commit" => OfOutbox(q))
  BY <1>1, <1>2
<1>4. /\ LogGrown /\ LogInv' /\ LateInv' /\ WelcomesNotLost' /\ \A e \in Devices : CommitsOf(e)
  BY <1>1, <1>3, SameLog
<1>5. enrolled' \subseteq Devices  BY <1>1 DEF Inv, Shapes
<1> QED BY <1>1, <1>4, <1>5, AroundDevices

LEMMA ArriveKeeps ==
    ASSUME Inv, NEW r \in late, Arrive(r)
    PROVE  Inv'
<1>1. /\ Answered(r, {"accepted"}) /\ late' \subseteq late
      /\ UNCHANGED <<enrolled, native, cursor, events, outbox, run, sending, ready, tries>>
  BY DEF Arrive, durable
<1>2. Sound(r) /\ (r.class = "commit" => r.parent < epoch \/ OfOutbox(r))  BY DEF Inv, LateInv
<1>3. r.class = "commit" => OfOutbox(r)
  <2> SUFFICES ASSUME r.class = "commit" PROVE ~ (r.parent < epoch)
    BY <1>2
  <2>1. Server!EpochCurrent(r)  BY <1>1, Answers DEF Answered
  <2>2. r.parent = epoch  BY <2>1 DEF Server!EpochCurrent
  <2> QED BY <2>2 DEF Inv, LogInv
<1>4. /\ LogInv' /\ LateInv' /\ WelcomesNotLost' /\ LogGrown /\ cursors' = cursors
      /\ \A e \in Devices : CommitsOf(e)
  BY <1>1, <1>2, <1>3, AnswerKeeps
<1>5. enrolled' \subseteq Devices  BY <1>1 DEF Inv, Shapes
<1> QED BY <1>1, <1>4, <1>5, AroundDevices

LEMMA EnrollKeeps ==
    ASSUME Inv, NEW d \in Devices, Enroll(d) \/ RevokeDevice(d) \/ UNCHANGED vars
    PROVE  Inv'
<1>1. /\ late' = late /\ enrolled \subseteq enrolled' /\ enrolled' \subseteq Devices
      /\ UNCHANGED <<epoch, nextSequence, deliveries, native, cursor, cursors, events, outbox,
                     run, sending, ready, tries>>
  <2>1. enrolled \subseteq Devices  BY DEF Inv, Shapes
  <2>2. CASE Enroll(d)  BY <2>1, <2>2 DEF Enroll, server, durable
  <2>3. CASE RevokeDevice(d)  BY <2>1, <2>3 DEF RevokeDevice, Server!Revoke, durable
  <2>4. CASE UNCHANGED vars  BY <2>1, <2>4 DEF vars, server, durable
  <2> QED BY <2>2, <2>3, <2>4
<1>2. \A r \in late' \ late : FALSE  BY <1>1
<1>3. /\ LogGrown /\ LogInv' /\ LateInv' /\ WelcomesNotLost' /\ \A e \in Devices : CommitsOf(e)
  BY <1>1, <1>2, SameLog
<1> QED BY <1>1, <1>3, AroundDevices

LEMMA CrashKeeps ==
    ASSUME Inv, NEW d \in Devices, Crash(d)
    PROVE  Inv'
<1>1. Shapes /\ DeviceInv(d)  BY DEF Inv
<1>2. /\ run' = [run EXCEPT ![d] = Idle] /\ sending' = [sending EXCEPT ![d] = Idle]
      /\ ready' = ready \ {d} /\ Quiet
      /\ UNCHANGED <<native, cursor, cursors, events, outbox, tries>>
  BY DEF Crash, Quiet, server, durable
<1>3. Idle \in RunStates /\ ReadingInv(d)' /\ MemberInv(d)'  BY <1>1, <1>2, Resting
<1>4. Idle \in SendStates /\ Idle.at # "submit"  BY DEF SendStates, Idle
<1>5. /\ run' \in [Devices -> RunStates] /\ sending' \in [Devices -> SendStates]
      /\ sending'[d] = Idle /\ ready' \subseteq enrolled \cap Senders
      /\ \A e \in Devices \ {d} : run'[e] = run[e] /\ sending'[e] = sending[e]
  BY <1>1, <1>2, <1>3, <1>4 DEF Shapes
<1>6. \A e \in Devices : tries[e] <= tries'[e] /\ tries'[e] <= MaxTries[e]
  BY <1>1, <1>2 DEF Shapes
<1>7. ShapesNext  BY <1>1, <1>2, <1>5, <1>6 DEF ShapesNext, Shapes
<1>8. LogGrown /\ CommitsOf(d) /\ tries[d] <= tries'[d] /\ tries'[d] \in Nat
  BY <1>1, <1>2, QuietLog DEF Shapes
<1>9. NativeInv(d)' /\ OutboxInv(d)'
  BY <1>1, <1>2, <1>8, NativeKeeps, OutboxKeeps DEF DeviceInv
<1>10. SendInv(d)'  BY <1>2, <1>4, <1>5 DEF SendInv
<1>11. DeviceInv(d)'  BY <1>3, <1>9, <1>10 DEF DeviceInv
<1>12. OfNobodyElse(d)  BY <1>2, <1>5 DEF OfNobodyElse, Untouched
<1>13. LateInv' /\ WelcomesNotLost'  BY <1>2, QuietDelivery
<1> QED BY <1>2, <1>7, <1>11, <1>12, <1>13, QuietStep

------------------------------------------------------------------------------
LEMMA InitInv == Init => Inv
<1> SUFFICES ASSUME Init PROVE Inv
  OBVIOUS
<1>1. deliveries = {} /\ epoch = 0 /\ nextSequence = 1 /\ late = {} /\ enrolled = {Founder}
  BY DEF Init
<1>2. Logged = {} /\ OnLog(<< >>)  BY <1>1 DEF Logged, OnLog
<1>3. LogInv  BY <1>1, <1>2 DEF LogInv
<1>4. Idle \in RunStates /\ Idle \in SendStates  BY DEF RunStates, SendStates
<1>5. Shapes
  <2>1. native \in [Devices -> Natives]
    <3>1. [tree |-> << >>, pending |-> None, staged |-> {}, used |-> {}, outgoing |-> None] \in Natives
      BY DEF Natives
    <3>2. [tree |-> None, pending |-> None, staged |-> {}, used |-> {}, outgoing |-> None] \in Natives
      BY DEF Natives
    <3>3. native = [d \in Devices |->
            IF d = Founder
            THEN [tree |-> << >>, pending |-> None, staged |-> {}, used |-> {}, outgoing |-> None]
            ELSE [tree |-> None, pending |-> None, staged |-> {}, used |-> {}, outgoing |-> None]]
      BY DEF Init
    <3> HIDE DEF Natives
    <3> QED BY <3>1, <3>2, <3>3
  <2>2. cursor \in [Devices -> [seq : Nat, epoch : Nat, joined : BOOLEAN]]  BY DEF Init
  <2>3. cursors \in [Devices -> Server!Cursors \cup {None}]  BY DEF Init
  <2>4. events \in [Devices -> SUBSET Stored] /\ outbox \in [Devices -> Outboxes \cup {None}]
    BY DEF Init
  <2>5. run \in [Devices -> RunStates] /\ sending \in [Devices -> SendStates]
    BY <1>4 DEF Init
  <2>6. tries \in [Devices -> Nat] /\ \A d \in Devices : tries[d] <= MaxTries[d]
    BY DEF Init
  <2> QED BY <1>1, <2>1, <2>2, <2>3, <2>4, <2>5, <2>6 DEF Init, Shapes
<1>6. ASSUME NEW d \in Devices PROVE DeviceInv(d)
  <2>1. /\ run[d] = Idle /\ sending[d] = Idle /\ outbox[d] = None /\ cursors[d] = None
        /\ native[d].tree = (IF d = Founder THEN << >> ELSE None)
        /\ native[d].staged = {} /\ native[d].used = {}
        /\ cursor[d].seq = 0 /\ cursor[d].epoch = 0 /\ (cursor[d].joined <=> d = Founder)
        /\ d \notin ready
    BY DEF Init
  <2>2. NativeInv(d)  BY <1>1, <1>2, <2>1 DEF NativeInv, HasGroup, Grouped
  <2>3. Idle \notin Memberships \cup Preparations /\ Idle.at = "idle"
    BY DEF Memberships, Preparations, Idle
  <2>4. OutboxInv(d) /\ ReadingInv(d) /\ MemberInv(d) /\ SendInv(d)
    BY <2>1, <2>3 DEF OutboxInv, ReadingInv, MemberInv, SendInv
  <2> QED BY <2>2, <2>4 DEF DeviceInv
<1>7. LateInv /\ WelcomesNotLost  BY <1>1 DEF LateInv, WelcomesNotLost, CommitRows
<1> QED BY <1>3, <1>5, <1>6, <1>7 DEF Inv

LEMMA NextInv == Inv /\ [Next]_vars => Inv'
<1> SUFFICES ASSUME Inv, [Next]_vars PROVE Inv'
  OBVIOUS
<1>1. ASSUME NEW d \in Devices, Receive(d) PROVE Inv'
  BY <1>1, FetchBatchKeeps, AcknowledgeKeeps, ProcessHandshakeKeeps, StageRowKeeps,
     ApplyRowKeeps, PersistRowKeeps, ClearRowKeeps, WriteCursorKeeps DEF Receive
<1>2. ASSUME NEW d \in Devices, Membership(d) PROVE Inv'
  BY <1>2, ReconcileKeeps, SubmitCommitKeeps, CommitConflictKeeps, RejectPendingKeeps,
     DiscardKeeps, WriteStageKeeps, MergePendingKeeps, SubmitWelcomeKeeps, ClearOutboxKeeps,
     SurveyKeeps, PrepareAddKeeps, WriteOutboxKeeps, CompleteKeeps DEF Membership
<1>3. ASSUME NEW d \in Devices, Send(d) PROVE Inv'
  BY <1>3, StageMessageKeeps, ResumePendingKeeps, SubmitMessageKeeps, ClearMessageKeeps,
     ApplyMessageKeeps, PersistMessageKeeps DEF Send
<1>4. ASSUME NEW d \in Devices, Fail(d) PROVE Inv'
  BY <1>4, DelayKeeps, AbortRunKeeps, AbortSendKeeps, CrashKeeps DEF Fail
<1>5. ASSUME NEW d \in Devices, Enroll(d) \/ RevokeDevice(d) PROVE Inv'
  BY <1>5, EnrollKeeps
<1>6. ASSUME NEW r \in late, Arrive(r) PROVE Inv'  BY <1>6, ArriveKeeps
<1>7. CASE UNCHANGED vars  BY <1>7, EnrollKeeps
<1> QED BY <1>1, <1>2, <1>3, <1>4, <1>5, <1>6, <1>7 DEF Next

LEMMA Invariance == Spec => []Inv
BY InitInv, NextInv, PTL DEF Spec

------------------------------------------------------------------------------
(***************************************************************************)
(* The protected state, cursor, outbox and activities of every device keep *)
(* their shapes, whatever is lost, late or interrupted (the checks         *)
(* mls_outbox.dart and mls_receive_cursor.dart make on reading them back). *)
(***************************************************************************)
THEOREM TypeCorrect == Spec => []TypeOK
<1>1. Inv => TypeOK
  <2> SUFFICES ASSUME Inv PROVE TypeOK
    OBVIOUS
  <2>1. epoch \in 0 .. MaxSequence /\ nextSequence \in 1 .. MaxSequence + 1
    BY DEF Inv, LogInv
  <2>2. ASSUME NEW d \in Devices
        PROVE  /\ native[d].tree \in Seq(Commits) \cup {None}
               /\ native[d].pending \in Commits \cup {None}
               /\ native[d].staged \subseteq native[d].used
               /\ cursor[d].seq \in Nat /\ cursor[d].epoch \in Nat
               /\ ~cursor[d].joined => cursor[d].seq = 0 /\ cursor[d].epoch = 0
               /\ outbox[d] \in Outboxes \cup {None}
    <3>1. native[d] \in Natives  BY NativeOf DEF Inv
    <3>2. cursor[d] \in [seq : Nat, epoch : Nat, joined : BOOLEAN]
          /\ outbox[d] \in Outboxes \cup {None}
      BY DEF Inv, Shapes
    <3>3. native[d].tree \in Seq(Commits) \cup {None} /\ native[d].pending \in Commits \cup {None}
      BY <3>1 DEF Natives
    <3>4. NativeInv(d)  BY DEF Inv, DeviceInv
    <3> QED BY <3>2, <3>3, <3>4 DEF NativeInv
  <2>3. enrolled \subseteq Devices /\ ready \subseteq enrolled \cap Senders
        /\ \A d \in Devices : tries[d] \in 0 .. MaxTries[d]
    BY DEF Inv, Shapes
  <2> QED BY <2>1, <2>2, <2>3 DEF TypeOK
<1> QED BY <1>1, Invariance, PTL

(***************************************************************************)
(* No device ever leaves the commits the server has put into the log: what *)
(* MlsAddCoordinator merges (acceptPendingCommit) the server has accepted  *)
(* at that place, and what MlsReceiveCoordinator merges stands there.      *)
(***************************************************************************)
THEOREM NoFork == Spec => []TreesFollowLog
<1>1. Inv => TreesFollowLog
  <2> SUFFICES ASSUME Inv, NEW d \in Devices, HasGroup(d)
               PROVE  /\ Len(native[d].tree) <= epoch
                      /\ \A e \in DOMAIN native[d].tree :
                           native[d].tree[e] = CommitAt(e).req.op.commit
    BY DEF TreesFollowLog
  <2>1. OnLog(native[d].tree) /\ LogInv  BY DEF Inv, DeviceInv, NativeInv, Grouped
  <2>2. native[d].tree \in Seq(Commits) /\ Len(native[d].tree) <= epoch
    BY <2>1, ShorterThanEpoch
  <2>3. ASSUME NEW e \in DOMAIN native[d].tree
        PROVE  native[d].tree[e] = CommitAt(e).req.op.commit
    <3>1. PICK row \in Logged : row.req.accepted = e /\ row.req.op.commit = native[d].tree[e]
      BY <2>1, <2>2, <2>3 DEF OnLog
    <3>2. CommitRows(nextSequence) = Logged
      BY <2>1 DEF CommitRows, Logged, LogInv
    <3>3. \A q \in Logged : q.req.accepted = e => q = row  BY <2>1, <3>1 DEF LogInv
    <3>4. CommitAt(e) = row  BY <3>1, <3>2, <3>3 DEF CommitAt
    <3> QED BY <3>1, <3>4
  <2> QED BY <2>2, <2>3
<1> QED BY <1>1, Invariance, PTL

(***************************************************************************)
(* The server's cursor of a device never passes the device's own durable   *)
(* one: synchronize acknowledges after it has written the cursor, and a    *)
(* restart fetches nothing that was acknowledged as processed.             *)
(***************************************************************************)
THEOREM AcknowledgedIsDurable == Spec => []AckedIsDurable
<1>1. Inv => AckedIsDurable  BY DEF Inv, DeviceInv, NativeInv, AckedIsDurable
<1> QED BY <1>1, Invariance, PTL

(***************************************************************************)
(* A device's history holds, at every sequence, the message the log has    *)
(* there and no other: MlsEventStore.apply is called with rows of the log  *)
(* by the receiver and by the sender, whatever each has written before.    *)
(***************************************************************************)
THEOREM HistoryMatchesLog == Spec => []StoredAsDelivered
<1>1. Inv => StoredAsDelivered
  <2> SUFFICES ASSUME Inv, NEW d \in Devices
               PROVE  /\ \A e \in events[d] : \E row \in Rows : Entry(row) = e
                      /\ \A e, f \in events[d] : e.seq = f.seq => e = f
    BY DEF StoredAsDelivered
  <2>1. events[d] \subseteq Stored  BY DEF Inv, Shapes
  <2>2. \A e \in events[d] : \E row \in Rows : Entry(row) = e  BY <2>1 DEF Stored
  <2>3. ASSUME NEW e \in events[d], NEW f \in events[d], e.seq = f.seq PROVE e = f
    <3>1. PICK p \in Rows : Entry(p) = e  BY <2>2
    <3>2. PICK q \in Rows : Entry(q) = f  BY <2>2
    <3>3. p.seq = q.seq  BY <2>3, <3>1, <3>2 DEF Entry
    <3>4. p = q  BY <3>3 DEF Rows, Inv, LogInv
    <3> QED BY <3>1, <3>2, <3>4
  <2> QED BY <2>2, <2>3
<1> QED BY <1>1, Invariance, PTL

(***************************************************************************)
(* An accepted commit's Welcome is in the log, or the commit's author has  *)
(* the operation in its outbox (mls_add_coordinator.dart clears it only    *)
(* after the Welcome is answered or the commit refused), also when a late  *)
(* copy of the commit is accepted after its author gave up waiting.        *)
(***************************************************************************)
THEOREM NoWelcomeLost == Spec => []WelcomesNotLost
<1>1. Inv => WelcomesNotLost  BY DEF Inv
<1> QED BY <1>1, Invariance, PTL

------------------------------------------------------------------------------
(***************************************************************************)
(* The cursors.  Epochs count the commits of the log, and what a device    *)
(* reads and writes as its cursor is a sequence with the epoch the log is  *)
(* in after it.                                                            *)
(***************************************************************************)
CountInv ==
    /\ IsFiniteSet(deliveries)
    /\ epoch = Cardinality(Logged)
    /\ \A row \in deliveries : row.req.accepted = Cardinality(CommitRows(row.seq))

At(s, e) == s < nextSequence /\ e = Cardinality(CommitRows(s))

Reading == {"process", "apply", "persist", "clear"}

PlaceInv(d) ==
    /\ cursor[d].joined =>
         At(cursor[d].seq, cursor[d].epoch) /\ cursor[d].epoch <= Len(native[d].tree)
    /\ run[d].at \in Reading =>
         /\ run[d].joined =>
              At(run[d].done, run[d].epoch) /\ run[d].epoch <= Len(native[d].tree)
         /\ run[d].at # "process" => First(run[d].batch).req.accepted = run[d].epoch

CursorInv == Inv /\ CountInv /\ \A d \in Devices : PlaceInv(d)

\* The log stays or grows by one message, made in its epoch.
LogMoves ==
    \/ UNCHANGED <<epoch, nextSequence, deliveries>>
    \/ \E r : Sound(r) /\ Appended(r) /\ (r.class # "commit" => r.accepted = epoch)

LEMMA AnsweredMoves ==
    ASSUME NEW r, NEW outcomes, Answered(r, outcomes), Sound(r)
    PROVE  LogMoves
<1>1. CASE UNCHANGED server  BY <1>1 DEF LogMoves, server
<1>2. CASE Server!Outcome(r) = "accepted" /\ Appended(r)
  <2>1. Server!EpochCurrent(r)  BY <1>2, Answers
  <2>2. r.class \in {"commit", "welcome", "application"}
    BY DEF Sound, CommitRequests, WelcomeRequests, MessageRequests
  <2>3. r.class # "commit" => r.accepted = epoch
    BY <2>1, <2>2 DEF Server!EpochCurrent
  <2> QED BY <1>2, <2>3 DEF LogMoves
<1> QED BY <1>1, <1>2, AnswerAppends

LEMMA CountKeeps ==
    ASSUME Inv, CountInv, LogMoves
    PROVE  /\ CountInv'
           /\ \A s \in Nat : \A e : At(s, e) => At(s, e)'
<1>1. LogInv  BY DEF Inv
<1>2. CASE UNCHANGED <<epoch, nextSequence, deliveries>>
  BY <1>2 DEF CountInv, At, CommitRows, Logged
<1>3. ASSUME NEW r, Sound(r), Appended(r), r.class # "commit" => r.accepted = epoch
      PROVE  CountInv' /\ \A s \in Nat : \A e : At(s, e) => At(s, e)'
  <2> DEFINE new == [seq |-> nextSequence, req |-> r]
  <2>1. /\ deliveries' = deliveries \cup {new} /\ nextSequence' = nextSequence + 1
        /\ nextSequence \in Nat /\ epoch \in Nat
        /\ \A row \in deliveries : row.seq \in 1 .. nextSequence - 1
        /\ new.seq = nextSequence /\ new.req = r
    BY <1>1, <1>3 DEF LogInv, Appended
  <2>2. r.class = "commit" => r.accepted = epoch + 1 /\ epoch' = epoch + 1
    BY <1>3 DEF Sound, Appended, CommitRequests, WelcomeRequests, MessageRequests
  <2>3. r.class # "commit" => epoch' = epoch  BY <1>3 DEF Appended
  <2> HIDE DEF new
  <2>4. ASSUME NEW s \in Nat, s < nextSequence PROVE CommitRows(s)' = CommitRows(s)
    BY <2>1, <2>4 DEF CommitRows
  <2>5. \A s \in Nat : \A e : At(s, e) => At(s, e)'
    BY <2>1, <2>4 DEF At
  <2>6. ASSUME NEW s \in Nat, s = nextSequence PROVE CommitRows(s)' = Logged'
    BY <2>1, <2>6 DEF CommitRows, Logged
  <2>7. IsFiniteSet(deliveries') /\ IsFiniteSet(Logged) /\ new \notin Logged
    <3>1. IsFiniteSet(deliveries) /\ Logged \subseteq deliveries  BY DEF CountInv, Logged
    <3> QED BY <2>1, <3>1, FS_AddElement, FS_Subset
  <2>8. Cardinality(Logged') = epoch' /\ r.accepted = epoch'
    <3>1. CASE r.class = "commit"
      <4>1. Logged' = Logged \cup {new}  BY <2>1, <3>1 DEF Logged
      <4> QED BY <2>2, <2>7, <3>1, <4>1, FS_AddElement DEF CountInv
    <3>2. CASE r.class # "commit"
      <4>1. Logged' = Logged  BY <2>1, <3>2 DEF Logged
      <4> QED BY <1>3, <2>3, <3>2, <4>1 DEF CountInv
    <3> QED BY <3>1, <3>2
  <2>9. ASSUME NEW row \in deliveries'
        PROVE  row.req.accepted = Cardinality(CommitRows(row.seq)')
    <3>1. CASE row \in deliveries
      BY <2>1, <2>4, <3>1 DEF CountInv
    <3>2. CASE row = new  BY <2>1, <2>6, <2>8, <3>2
    <3> QED BY <2>1, <3>1, <3>2
  <2> QED BY <2>5, <2>7, <2>8, <2>9 DEF CountInv
<1> QED BY <1>2, <1>3 DEF LogMoves

(***************************************************************************)
(* What a step does not read or write of a device keeps its place.         *)
(***************************************************************************)
Still(e) ==
    /\ cursor'[e] = cursor[e]
    /\ \/ native'[e].tree = native[e].tree
       \/ Grouped(e) /\ Len(native'[e].tree) = Len(native[e].tree) + 1
    /\ run'[e] = run[e] \/ run'[e].at \notin Reading

LEMMA StillPlaced ==
    ASSUME Inv, CountInv, LogMoves, NEW e \in Devices, PlaceInv(e), Still(e)
    PROVE  PlaceInv(e)'
<1>1. \A s \in Nat : \A n : At(s, n) => At(s, n)'  BY CountKeeps
<1>2. DeviceInv(e) /\ Shapes  BY DEF Inv
<1>3. cursor[e].seq \in Nat /\ cursor[e].epoch \in Nat  BY <1>2 DEF Shapes
<1>4. Grouped(e) => Len(native[e].tree) \in Nat  BY DEF Grouped, OnLog
<1>5. ASSUME cursor[e].joined
      PROVE  /\ At(cursor[e].seq, cursor[e].epoch)'
             /\ cursor[e].epoch <= Len(native'[e].tree)
  <2>1. Grouped(e)  BY <1>2, <1>5 DEF DeviceInv, NativeInv
  <2>2. cursor[e].epoch <= Len(native[e].tree) /\ At(cursor[e].seq, cursor[e].epoch)
    BY <1>5 DEF PlaceInv
  <2>3. \E s \in Nat, n \in Nat : s = cursor[e].seq /\ n = cursor[e].epoch /\ At(s, n)'
    BY <1>1, <1>3, <2>2
  <2>4. At(cursor[e].seq, cursor[e].epoch)'  BY <2>3 DEF Still
  <2> QED BY <1>3, <1>4, <2>1, <2>2, <2>4 DEF Still
<1>6. ASSUME run'[e].at \in Reading
      PROVE  /\ run'[e].joined =>
                  At(run[e].done, run[e].epoch)' /\ run'[e].epoch <= Len(native'[e].tree)
             /\ run'[e].at # "process" => First(run'[e].batch).req.accepted = run'[e].epoch
  <2>1. run'[e] = run[e] /\ run[e].at \in Reading  BY <1>6 DEF Still
  <2>2. run[e] \in Readings /\ ReadingInv(e)
    BY <1>2, <2>1, Phases DEF DeviceInv, Reading
  <2>3. run[e].done \in Nat /\ run[e].epoch \in Nat  BY <2>2 DEF Readings
  <2>4. ASSUME run[e].joined
        PROVE  At(run[e].done, run[e].epoch)' /\ run[e].epoch <= Len(native'[e].tree)
    <3>1. Grouped(e)  BY <2>1, <2>2, <2>4 DEF ReadingInv, Reading
    <3>2. run[e].epoch <= Len(native[e].tree) /\ At(run[e].done, run[e].epoch)
      BY <2>1, <2>4 DEF PlaceInv
    <3>3. \E s \in Nat, n \in Nat : s = run[e].done /\ n = run[e].epoch /\ At(s, n)'
      BY <1>1, <2>3, <3>2
    <3>4. At(run[e].done, run[e].epoch)'  BY <2>1, <3>3
    <3> QED BY <1>4, <2>3, <3>1, <3>2, <3>4 DEF Still
  <2>5. run[e].at # "process" => First(run[e].batch).req.accepted = run[e].epoch
    BY <2>1 DEF PlaceInv
  <2> QED BY <2>1, <2>4, <2>5
<1>7. cursor'[e] = cursor[e]  BY DEF Still
<1> QED BY <1>5, <1>6, <1>7 DEF PlaceInv

\* All devices but d, whose step it is, are still; and so is d in most steps.
Elsewhere(d) == LogMoves /\ \A e \in Devices \ {d} : Still(e)

LEMMA ReadingElsewhere ==
    ASSUME Inv, NEW d \in Devices, Receive(d)
    PROVE  Elsewhere(d)
<1>1. Shapes  BY DEF Inv
<1> SUFFICES /\ UNCHANGED <<epoch, nextSequence, deliveries>>
             /\ \A e \in Devices \ {d} :
                  cursor'[e] = cursor[e] /\ native'[e] = native[e] /\ run'[e] = run[e]
  BY DEF Elsewhere, Still, LogMoves
<1>2. CASE FetchBatch(d) \/ FetchNothing(d) \/ AcknowledgeBatch(d)
  <2>1. UNCHANGED <<epoch, nextSequence, deliveries, cursor, native>>
    BY <1>2 DEF FetchBatch, FetchNothing, AcknowledgeBatch, Server!Fetch, Server!Acknowledge,
                durable
  <2>2. \A e \in Devices \ {d} : run'[e] = run[e]
    BY <1>1, <1>2 DEF Shapes, FetchBatch, FetchNothing, AcknowledgeBatch, Goto
  <2> QED BY <2>1, <2>2
<1>3. CASE ProcessHandshake(d) \/ StageRow(d) \/ ClearRow(d)
  <2>1. UNCHANGED <<epoch, nextSequence, deliveries, cursor>>
    BY <1>3 DEF ProcessHandshake, StageRow, ClearRow, server
  <2>2. \A e \in Devices \ {d} : native'[e] = native[e]
    <3>1. CASE ProcessHandshake(d)  BY <1>1, <3>1 DEF Shapes, ProcessHandshake
    <3>2. CASE StageRow(d)  BY <1>1, <3>2 DEF Shapes, StageRow
    <3>3. CASE ClearRow(d)  BY <1>1, <3>3 DEF Shapes, ClearRow
    <3> QED BY <1>3, <3>1, <3>2, <3>3
  <2>3. \A e \in Devices \ {d} : run'[e] = run[e]
    <3>1. CASE ProcessHandshake(d)  BY <1>1, <3>1 DEF Shapes, ProcessHandshake, Goto
    <3>2. CASE StageRow(d)  BY <1>1, <3>2 DEF Shapes, StageRow, Goto
    <3>3. CASE ClearRow(d)  BY <1>1, <3>3 DEF Shapes, ClearRow, Goto
    <3> QED BY <1>3, <3>1, <3>2, <3>3
  <2> QED BY <2>1, <2>2, <2>3
<1>4. CASE ApplyRow(d) \/ PersistRow(d) \/ WriteCursor(d)
  <2>1. UNCHANGED <<epoch, nextSequence, deliveries, native>>
    BY <1>4 DEF ApplyRow, PersistRow, WriteCursor, server, durable
  <2>2. \A e \in Devices \ {d} : cursor'[e] = cursor[e]
    BY <1>1, <1>4 DEF Shapes, ApplyRow, PersistRow, WriteCursor, durable
  <2>3. \A e \in Devices \ {d} : run'[e] = run[e]
    <3>1. CASE ApplyRow(d)  BY <1>1, <3>1 DEF Shapes, ApplyRow, Goto
    <3>2. CASE PersistRow(d)  BY <1>1, <3>2 DEF Shapes, PersistRow, Goto
    <3>3. CASE WriteCursor(d)  BY <1>1, <3>3 DEF Shapes, WriteCursor, Goto
    <3> QED BY <1>4, <3>1, <3>2, <3>3
  <2> QED BY <2>1, <2>2, <2>3
<1> QED BY <1>2, <1>3, <1>4 DEF Receive

LEMMA SendStill ==
    ASSUME Inv, NEW d \in Devices, Send(d)
    PROVE  LogMoves /\ \A e \in Devices : Still(e)
<1>1. Shapes  BY DEF Inv
<1>2. UNCHANGED <<cursor, run>>
  BY DEF Send, StageMessage, ResumePending, SubmitMessage, MessageConflict, ApplyMessage,
         PersistMessage, ClearMessage, durable
<1>3. ASSUME NEW e \in Devices PROVE native'[e].tree = native[e].tree
  <2>1. native[d] \in Natives  BY <1>1, NativeOf
  <2>2. native' = native \/ \E m : native' = [native EXCEPT ![d].outgoing = m]
    BY DEF Send, StageMessage, ResumePending, SubmitMessage, MessageConflict, ApplyMessage,
           PersistMessage, ClearMessage, durable
  <2>3. ASSUME NEW m, native' = [native EXCEPT ![d].outgoing = m]
        PROVE  native'[e].tree = native[e].tree
    BY <1>1, <2>1, <2>3 DEF Shapes, Natives
  <2> QED BY <2>2, <2>3
<1>4. LogMoves
  <2>1. CASE SubmitMessage(d) \/ MessageConflict(d)
    <3>1. sending[d].at = "submit" /\ SendInv(d)
      BY <2>1 DEF SubmitMessage, MessageConflict, Inv, DeviceInv
    <3>2. Sound(native[d].outgoing)  BY <3>1 DEF SendInv, Sound
    <3>3. \E outcomes : Answered(native[d].outgoing, outcomes)
      BY <2>1 DEF SubmitMessage, MessageConflict
    <3> QED BY <3>2, <3>3, AnsweredMoves
  <2>2. CASE ~ (SubmitMessage(d) \/ MessageConflict(d))
    BY <2>2 DEF Send, StageMessage, ResumePending, ApplyMessage, PersistMessage, ClearMessage,
                LogMoves, server
  <2> QED BY <2>1, <2>2
<1> QED BY <1>2, <1>3, <1>4 DEF Still

LEMMA MembershipStill ==
    ASSUME Inv, NEW d \in Devices, Membership(d)
    PROVE  LogMoves /\ \A e \in Devices : Still(e)
<1>1. Shapes /\ DeviceInv(d) /\ native[d] \in Natives  BY NativeOf DEF Inv
<1>2. cursor' = cursor
  BY DEF Membership, Reconcile, SubmitCommit, CommitConflict, RejectPending, Discard,
         WriteCommitted, MergePending, WriteMerged, SubmitWelcome, ClearOutbox, Survey,
         PrepareAdd, WriteOutbox, Complete, durable
<1>3. ASSUME NEW e \in Devices
      PROVE  run'[e] = run[e] \/ run'[e].at \notin Reading
  <2>1. run' = [run EXCEPT ![d] = run'[d]]
    BY <1>1 DEF Shapes, Membership, Reconcile, SubmitCommit, CommitConflict, RejectPending,
                Discard, WriteCommitted, MergePending, WriteMerged, SubmitWelcome, ClearOutbox,
                Survey, PrepareAdd, WriteOutbox, Complete, Goto
  <2>2. run'[d].at \notin Reading
    <3>1. CASE \E todo : run' = [run EXCEPT ![d] = [at |-> "resume", todo |-> todo]]
                         \/ run' = [run EXCEPT ![d] = [at |-> "add", todo |-> todo]]
      BY <1>1, <3>1 DEF Shapes, Reading
    <3>2. CASE \E todo, tree :
                 run' = [run EXCEPT ![d] = [at |-> "prepared", todo |-> todo, tree |-> tree]]
      BY <1>1, <3>2 DEF Shapes, Reading
    <3>3. CASE run' = [run EXCEPT ![d] = Idle]
      BY <1>1, <3>3 DEF Shapes, Reading, Idle
    <3>4. CASE /\ run[d] \in Memberships
               /\ \E at \in {"resume", "committed", "reject", "discard", "merged", "welcomed", "add"} :
                    run' = [run EXCEPT ![d] = [run[d] EXCEPT !.at = at]]
      <4>1. PICK at \in {"resume", "committed", "reject", "discard", "merged", "welcomed", "add"} :
              run' = [run EXCEPT ![d] = [run[d] EXCEPT !.at = at]]
        BY <3>4
      <4>2. run'[d] = [run[d] EXCEPT !.at = at]  BY <1>1, <4>1 DEF Shapes
      <4>3. run'[d].at = at  BY <3>4, <4>2 DEF Memberships
      <4> QED BY <4>3 DEF Reading
    <3>5. \/ run[d] \in Memberships
          \/ Reconcile(d) \/ WriteOutbox(d)
      BY <1>1, Phases DEF Membership, SubmitCommit, CommitConflict, RejectPending, Discard,
                WriteCommitted, MergePending, WriteMerged, SubmitWelcome, ClearOutbox, Survey,
                PrepareAdd, Complete, Resuming
    <3> QED
      BY <3>1, <3>2, <3>3, <3>4, <3>5
      DEF Membership, Reconcile, SubmitCommit, CommitConflict, RejectPending, Discard,
          WriteCommitted, MergePending, WriteMerged, SubmitWelcome, ClearOutbox, Survey,
          PrepareAdd, WriteOutbox, Complete, Goto
  <2> QED BY <1>1, <2>1, <2>2 DEF Shapes
<1>4. ASSUME NEW e \in Devices
      PROVE  \/ native'[e].tree = native[e].tree
             \/ Grouped(e) /\ Len(native'[e].tree) = Len(native[e].tree) + 1
  <2>1. CASE native' = native  BY <2>1
  <2>2. CASE \E c : native' = [native EXCEPT ![d].pending = c]
    BY <1>1, <2>2 DEF Shapes, Natives
  <2>3. CASE /\ MergePending(d)
             /\ native' = [native EXCEPT ![d].tree = Append(@, native[d].pending),
                                         ![d].pending = None]
    <3>1. run[d] \in Memberships /\ Grouped(d)
      BY <1>1, <2>3, Phases DEF MergePending, Resuming, DeviceInv, MemberInv
    <3>2. native'[d].tree = Append(native[d].tree, native[d].pending)
      BY <1>1, <2>3 DEF Shapes, Natives
    <3>3. native[d].tree \in Seq(Commits)  BY <3>1 DEF Grouped, OnLog
    <3>4. Len(native'[d].tree) = Len(native[d].tree) + 1  BY <3>2, <3>3
    <3>5. e # d => native'[e] = native[e]  BY <1>1, <2>3 DEF Shapes
    <3> QED BY <3>1, <3>4, <3>5
  <2> QED
    BY <2>1, <2>2, <2>3
    DEF Membership, Reconcile, SubmitCommit, CommitConflict, RejectPending, Discard,
        WriteCommitted, MergePending, WriteMerged, SubmitWelcome, ClearOutbox, Survey,
        PrepareAdd, WriteOutbox, Complete, durable
<1>5. LogMoves
  <2>1. CASE SubmitCommit(d) \/ CommitConflict(d) \/ SubmitWelcome(d)
    <3>1. Sound(OutboxRequest(d))
      BY <2>1, RequestOfOutbox DEF SubmitCommit, CommitConflict, SubmitWelcome
    <3>2. \E outcomes : Answered(OutboxRequest(d), outcomes)
      BY <2>1 DEF SubmitCommit, CommitConflict, SubmitWelcome
    <3> QED BY <3>1, <3>2, AnsweredMoves
  <2>2. CASE ~ (SubmitCommit(d) \/ CommitConflict(d) \/ SubmitWelcome(d))
    BY <2>2 DEF Membership, Reconcile, RejectPending, Discard, WriteCommitted, MergePending,
                WriteMerged, ClearOutbox, Survey, PrepareAdd, WriteOutbox, Complete,
                LogMoves, server
  <2> QED BY <2>1, <2>2
<1> QED BY <1>2, <1>3, <1>4, <1>5 DEF Still

LEMMA FailStill ==
    ASSUME Inv, NEW d \in Devices, Fail(d)
    PROVE  LogMoves /\ \A e \in Devices : Still(e)
<1>1. Shapes  BY DEF Inv
<1>2. UNCHANGED <<epoch, nextSequence, deliveries, native, cursor>>
  BY DEF Fail, Delay, AbortRun, AbortSend, Crash, server, durable
<1>3. run' = run \/ run' = [run EXCEPT ![d] = Idle]
  BY DEF Fail, Delay, AbortRun, AbortSend, Crash, Goto
<1> QED BY <1>1, <1>2, <1>3 DEF Shapes, Still, LogMoves, Reading, Idle

LEMMA AroundStill ==
    ASSUME Inv,
           \/ \E d \in Devices : Enroll(d) \/ RevokeDevice(d)
           \/ \E r \in late : Arrive(r)
           \/ UNCHANGED vars
    PROVE  LogMoves /\ \A e \in Devices : Still(e)
<1>1. UNCHANGED <<native, cursor, run>>
  BY DEF Enroll, RevokeDevice, Arrive, vars, durable
<1>2. ASSUME NEW r \in late, Arrive(r) PROVE LogMoves
  BY <1>2, AnsweredMoves DEF Arrive, Inv, LateInv
<1>3. ASSUME UNCHANGED server \/ \E d \in Devices : Server!Revoke(d) PROVE LogMoves
  BY <1>3 DEF LogMoves, server, Server!Revoke
<1>4. LogMoves  BY <1>2, <1>3 DEF Enroll, RevokeDevice, vars
<1> QED BY <1>1, <1>4 DEF Still

(***************************************************************************)
(* The steps of receive.synchronize on its own device.                     *)
(***************************************************************************)
LEMMA PlaceOf ==
    ASSUME CursorInv, NEW d \in Devices
    PROVE  /\ Shapes /\ LogInv /\ DeviceInv(d) /\ PlaceInv(d)
           /\ \A row \in deliveries : At(row.seq, row.req.accepted)
           /\ run[d].at \in Reading => run[d] \in Readings
<1>1. Shapes /\ LogInv /\ DeviceInv(d) /\ PlaceInv(d)  BY DEF CursorInv, Inv
<1>2. \A row \in deliveries : At(row.seq, row.req.accepted)
  BY <1>1 DEF CursorInv, CountInv, At, LogInv
<1> QED BY <1>1, <1>2, Phases DEF Reading

\* d goes on to step, and its cursor and tree stay, in a log that stays too.
LEMMA StepPlaced ==
    ASSUME CursorInv, NEW d \in Devices, UNCHANGED <<nextSequence, deliveries>>,
           cursor'[d] = cursor[d], Len(native[d].tree) = Len(native'[d].tree),
           run'[d].joined =>
             At(run'[d].done, run'[d].epoch) /\ run'[d].epoch <= Len(native'[d].tree),
           run'[d].at # "process" => First(run'[d].batch).req.accepted = run'[d].epoch
    PROVE  PlaceInv(d)'
<1>1. PlaceInv(d)  BY PlaceOf
<1>2. \A s, e : At(s, e)' <=> At(s, e)  BY DEF At, CommitRows
<1>3. At(cursor[d].seq, cursor[d].epoch)' <=> At(cursor[d].seq, cursor[d].epoch)
  BY DEF At, CommitRows
<1>4. At(run[d].done, run[d].epoch)' <=> At(run'[d].done, run'[d].epoch)
  BY DEF At, CommitRows
<1> QED BY <1>1, <1>3, <1>4 DEF PlaceInv

LEMMA FetchPlaced ==
    ASSUME CursorInv, NEW d \in Devices, FetchBatch(d)
    PROVE  PlaceInv(d)'
<1>1. Shapes /\ PlaceInv(d)  BY PlaceOf
<1>2. UNCHANGED <<nextSequence, deliveries, native, cursor>>
  BY DEF FetchBatch, Server!Fetch, durable
<1>3. \/ run'[d] = Idle
      \/ /\ run'[d].at = "process" /\ run'[d].joined = cursor[d].joined
         /\ run'[d].epoch = cursor[d].epoch /\ run'[d].done = cursor[d].seq
  BY <1>1 DEF FetchBatch, Goto, Shapes
<1>4. CASE run'[d] = Idle
  <2>1. Still(d)  BY <1>2, <1>4 DEF Still, Idle, Reading
  <2>2. LogMoves  BY DEF FetchBatch, Server!Fetch, LogMoves
  <2> QED BY <2>1, <2>2, StillPlaced DEF CursorInv
<1>5. CASE /\ run'[d].at = "process" /\ run'[d].joined = cursor[d].joined
           /\ run'[d].epoch = cursor[d].epoch /\ run'[d].done = cursor[d].seq
  <2>1. run'[d].joined =>
          At(run'[d].done, run'[d].epoch) /\ run'[d].epoch <= Len(native'[d].tree)
    BY <1>1, <1>2, <1>5 DEF PlaceInv
  <2> QED BY <1>2, <1>5, <2>1, StepPlaced
<1> QED BY <1>3, <1>4, <1>5

LEMMA ProcessPlaced ==
    ASSUME CursorInv, NEW d \in Devices, ProcessHandshake(d)
    PROVE  PlaceInv(d)'
<1>1. /\ Shapes /\ PlaceInv(d) /\ DeviceInv(d) /\ native[d] \in Natives
      /\ \A row \in deliveries : At(row.seq, row.req.accepted)
  BY PlaceOf, NativeOf
<1>a. PICK row : row = First(run[d].batch)  OBVIOUS
<1>b. PICK tree : tree = IF row.req.class = "welcome" THEN TreeAfterWelcome(d, row)
                         ELSE TreeAfterCommit(d, row)
  OBVIOUS
<1>2. /\ run[d].at = "process" /\ run[d].batch # {} /\ tree # None
      /\ row.req.class = IF run[d].joined THEN "commit" ELSE "welcome"
      /\ UNCHANGED <<nextSequence, deliveries, cursor>>
  BY <1>a, <1>b DEF ProcessHandshake, server
<1>3. /\ run[d] \in Readings /\ row \in deliveries /\ Sound(row.req) /\ ReadingInv(d)
  BY <1>1, <1>2, <1>a, BatchRows DEF DeviceInv, CursorInv
<1>4. native'[d].tree = tree
  <2>1. \E p : native' = [native EXCEPT ![d].tree = tree, ![d].pending = p]
    BY <1>a, <1>b DEF ProcessHandshake
  <2> QED BY <1>1, <2>1 DEF Shapes, Natives
<1>5. /\ run'[d].at = "process" /\ run'[d].joined
      /\ run'[d].done = row.seq /\ run'[d].epoch = row.req.accepted
  <2>1. run' = [run EXCEPT ![d] = [run[d] EXCEPT !.batch = @ \ {row}, !.done = row.seq,
                                                 !.joined = TRUE, !.epoch = row.req.accepted]]
    BY <1>a DEF ProcessHandshake, Goto
  <2> QED BY <1>1, <1>2, <1>3, <2>1 DEF Shapes, Readings
<1>6. row.req.accepted \in Nat
  BY <1>3 DEF Sound, CommitRequests, WelcomeRequests, MessageRequests
<1>7. Grouped(d) => native[d].tree \in Seq(Commits) /\ Len(native[d].tree) \in Nat
  BY DEF Grouped, OnLog
<1>8. /\ Len(tree) \in Nat /\ row.req.accepted <= Len(tree)
      /\ cursor[d].joined => Len(native[d].tree) <= Len(tree)
  <2>1. CASE ~run[d].joined
    <3>1. tree = TreeAfterWelcome(d, row)  BY <1>2, <1>b, <2>1
    <3>2. Len(tree) = row.req.accepted  BY <1>2, <3>1 DEF TreeAfterWelcome
    <3>3. ~cursor[d].joined  BY <1>2, <1>3, <2>1 DEF ReadingInv
    <3> QED BY <1>6, <3>2, <3>3
  <2>2. CASE run[d].joined
    <3>1. row.req.class = "commit" /\ Grouped(d)  BY <1>2, <1>3, <2>2 DEF ReadingInv
    <3>2. /\ row.req.accepted = Len(row.req.op.tree) + 1 /\ row.req.op.commit \in Commits
      <4>1. row.req \in CommitRequests /\ row.req.accepted = Len(row.req.op.tree) + 1
        BY <1>3, <3>1, SoundCommit
      <4> QED BY <4>1 DEF CommitRequests
    <3>3. \/ tree = native[d].tree /\ Len(tree) = row.req.accepted
          \/ native[d].tree = row.req.op.tree /\ tree = Append(native[d].tree, row.req.op.commit)
      <4>1. tree = TreeAfterCommit(d, row)  BY <1>b, <3>1
      <4> QED BY <1>2, <4>1 DEF TreeAfterCommit
    <3>4. CASE tree = native[d].tree /\ Len(tree) = row.req.accepted
      BY <1>6, <3>4
    <3>5. CASE native[d].tree = row.req.op.tree /\ tree = Append(native[d].tree, row.req.op.commit)
      <4>1. Len(tree) = Len(native[d].tree) + 1 /\ Len(native[d].tree) \in Nat
        BY <1>7, <3>1, <3>2, <3>5
      <4>2. row.req.accepted = Len(native[d].tree) + 1
        BY <3>2, <3>5
      <4>3. Len(tree) \in Nat /\ row.req.accepted <= Len(tree) /\ Len(native[d].tree) <= Len(tree)
        BY <4>1, <4>2
      <4> QED BY <4>3
    <3> QED BY <3>3, <3>4, <3>5
  <2> QED BY <2>1, <2>2
<1>9. At(run[d].done, run[d].epoch)' /\ run'[d].epoch <= Len(native'[d].tree)
  BY <1>1, <1>2, <1>3, <1>4, <1>5, <1>8 DEF At, CommitRows
<1>10. cursor[d].joined =>
         At(cursor[d].seq, cursor[d].epoch)' /\ cursor'[d].epoch <= Len(native'[d].tree)
  <2> SUFFICES ASSUME cursor[d].joined
               PROVE  /\ At(cursor[d].seq, cursor[d].epoch)'
                      /\ cursor[d].epoch <= Len(tree)
    BY <1>2, <1>4
  <2>1. At(cursor[d].seq, cursor[d].epoch) /\ cursor[d].epoch <= Len(native[d].tree)
    BY <1>1 DEF PlaceInv
  <2>2. At(cursor[d].seq, cursor[d].epoch)'  BY <1>2, <2>1 DEF At, CommitRows
  <2>3. Grouped(d) /\ cursor[d].epoch \in Nat  BY <1>1 DEF DeviceInv, NativeInv, Shapes
  <2> QED BY <1>7, <1>8, <2>1, <2>2, <2>3
<1> QED BY <1>2, <1>5, <1>9, <1>10 DEF PlaceInv

\* A row of the batch is staged, applied, persisted: the batch and the place stay.
LEMMA RowPlaced ==
    ASSUME CursorInv, NEW d \in Devices, StageRow(d) \/ ApplyRow(d) \/ PersistRow(d)
    PROVE  PlaceInv(d)'
<1>1. Shapes /\ PlaceInv(d) /\ DeviceInv(d) /\ native[d] \in Natives  BY PlaceOf, NativeOf
<1>2. /\ run[d].at \in Reading /\ UNCHANGED <<nextSequence, deliveries, cursor>>
      /\ run[d] \in Readings
  <2>1. run[d].at \in Reading /\ UNCHANGED <<nextSequence, deliveries, cursor>>
    BY DEF StageRow, Readable, ApplyRow, PersistRow, Reading, server, durable
  <2> QED BY <2>1, PlaceOf
<1>3. native'[d].tree = native[d].tree
  BY <1>1 DEF StageRow, ApplyRow, PersistRow, durable, Shapes, Natives
<1>4. /\ run'[d].batch = run[d].batch /\ run'[d].joined = run[d].joined
      /\ run'[d].done = run[d].done /\ run'[d].epoch = run[d].epoch
  <2>1. CASE StageRow(d)  BY <1>1, <1>2, <2>1 DEF StageRow, Goto, Shapes, Readings
  <2>2. CASE ApplyRow(d)
    <3>1. CASE run' = [run EXCEPT ![d] = [run[d] EXCEPT !.at = "clear"]]
      BY <1>1, <1>2, <3>1 DEF Shapes, Readings
    <3>2. ASSUME NEW next,
                 run' = [run EXCEPT ![d] = [run[d] EXCEPT !.at = "persist", !.next = next]]
          PROVE  /\ run'[d].batch = run[d].batch /\ run'[d].joined = run[d].joined
                 /\ run'[d].done = run[d].done /\ run'[d].epoch = run[d].epoch
      BY <1>1, <1>2, <3>2 DEF Shapes, Readings
    <3> QED BY <2>2, <3>1, <3>2 DEF ApplyRow, Goto
  <2>3. CASE PersistRow(d)  BY <1>1, <1>2, <2>3 DEF PersistRow, Goto, Shapes, Readings
  <2> QED BY <2>1, <2>2, <2>3
<1>5. First(run[d].batch).req.accepted = run[d].epoch
  <2>1. CASE StageRow(d)  BY <2>1 DEF StageRow, Readable
  <2>2. CASE ApplyRow(d) \/ PersistRow(d)
    <3>1. run[d].at # "process"  BY <2>2 DEF ApplyRow, PersistRow
    <3> QED BY <1>1, <1>2, <3>1 DEF PlaceInv
  <2> QED BY <2>1, <2>2
<1> QED BY <1>1, <1>2, <1>3, <1>4, <1>5, StepPlaced DEF PlaceInv

LEMMA ClearPlaced ==
    ASSUME CursorInv, NEW d \in Devices, ClearRow(d)
    PROVE  PlaceInv(d)'
<1> PICK row : row = First(run[d].batch)  OBVIOUS
<1>1. /\ Shapes /\ PlaceInv(d) /\ DeviceInv(d) /\ native[d] \in Natives
      /\ \A q \in deliveries : At(q.seq, q.req.accepted)
  BY PlaceOf, NativeOf
<1>2. /\ run[d].at \in Reading /\ UNCHANGED <<nextSequence, deliveries, cursor>>
      /\ run[d].batch # {} /\ run[d].joined /\ row.req.accepted = run[d].epoch
  <2>1. UNCHANGED <<nextSequence, deliveries, cursor>>  BY DEF ClearRow, server
  <2>2. CASE run[d].at = "clear"
    BY <1>1, <2>1, <2>2 DEF PlaceInv, DeviceInv, ReadingInv, Reading
  <2>3. CASE Readable(d, row)  BY <2>1, <2>3 DEF Readable, Reading
  <2> QED BY <2>2, <2>3 DEF ClearRow
<1>3. row \in deliveries /\ run[d] \in Readings
  BY <1>2, BatchRows DEF Reading, CursorInv
<1>4. native'[d].tree = native[d].tree
  BY <1>1 DEF ClearRow, Shapes, Natives
<1>5. /\ run'[d].at = "process" /\ run'[d].joined = run[d].joined
      /\ run'[d].done = row.seq /\ run'[d].epoch = run[d].epoch
  BY <1>1, <1>3 DEF ClearRow, Goto, Shapes, Readings
<1>6. At(row.seq, run[d].epoch) /\ run[d].epoch <= Len(native[d].tree)
  BY <1>1, <1>2, <1>3 DEF PlaceInv
<1> QED BY <1>2, <1>4, <1>5, <1>6, StepPlaced

LEMMA CursorPlaced ==
    ASSUME CursorInv, NEW d \in Devices, WriteCursor(d)
    PROVE  PlaceInv(d)'
<1>1. Shapes /\ PlaceInv(d)  BY PlaceOf
<1>2. /\ run[d].at \in Reading /\ run[d].joined
      /\ UNCHANGED <<nextSequence, deliveries, native>>
  BY DEF WriteCursor, Reading, server
<1>3. /\ cursor'[d] = [seq |-> run[d].done, epoch |-> run[d].epoch, joined |-> TRUE]
      /\ run'[d].at \notin Reading
  BY <1>1 DEF WriteCursor, Goto, Shapes, Reading
<1>4. At(run[d].done, run[d].epoch) /\ run[d].epoch <= Len(native[d].tree)
  BY <1>1, <1>2 DEF PlaceInv
<1>5. At(cursor[d].seq, cursor[d].epoch)'  BY <1>2, <1>3, <1>4 DEF At, CommitRows
<1> QED BY <1>2, <1>3, <1>4, <1>5 DEF PlaceInv

LEMMA AcknowledgePlaced ==
    ASSUME CursorInv, NEW d \in Devices, FetchNothing(d) \/ AcknowledgeBatch(d)
    PROVE  PlaceInv(d)'
<1>1. Shapes  BY PlaceOf
<1>2. UNCHANGED <<epoch, nextSequence, deliveries, native, cursor>>
  BY DEF FetchNothing, AcknowledgeBatch, Server!Acknowledge, durable
<1>3. run'[d] = Idle \/ run'[d] = run[d]
  BY <1>1 DEF FetchNothing, AcknowledgeBatch, Goto, Shapes
<1>4. Still(d) /\ LogMoves  BY <1>2, <1>3 DEF Still, Idle, Reading, LogMoves
<1> QED BY <1>4, StillPlaced DEF CursorInv

------------------------------------------------------------------------------
LEMMA InitCursorInv == Init => CursorInv
<1> SUFFICES ASSUME Init PROVE CursorInv
  OBVIOUS
<1>1. deliveries = {} /\ epoch = 0 /\ nextSequence = 1  BY DEF Init
<1>2. CommitRows(0) = {}  BY <1>1 DEF CommitRows
<1>3. CountInv
  BY <1>1, FS_EmptySet DEF CountInv, Logged
<1>4. ASSUME NEW d \in Devices PROVE PlaceInv(d)
  <2>1. /\ run[d].at \notin Reading /\ cursor[d].seq = 0 /\ cursor[d].epoch = 0
        /\ cursor[d].joined => native[d].tree = << >>
    BY DEF Init, Idle, Reading
  <2>2. At(0, 0)
    <3>1. IsFiniteSet({}) /\ Cardinality({}) = 0  BY FS_EmptySet
    <3>2. Cardinality(CommitRows(0)) = 0  BY <1>2, <3>1, Zenon
    <3> QED BY <1>1, <3>2 DEF At
  <2>3. Len(<< >>) = 0  OBVIOUS
  <2> QED BY <2>1, <2>2, <2>3 DEF PlaceInv
<1> QED BY <1>3, <1>4, InitInv DEF CursorInv

LEMMA NextCursorInv == CursorInv /\ [Next]_vars => CursorInv'
<1> SUFFICES ASSUME CursorInv, [Next]_vars PROVE CursorInv'
  OBVIOUS
<1>1. Inv /\ CountInv /\ \A d \in Devices : PlaceInv(d)  BY DEF CursorInv
<1>2. Inv'  BY <1>1, NextInv
<1>3. ASSUME LogMoves, \A e \in Devices : Still(e) PROVE CursorInv'
  BY <1>1, <1>2, <1>3, CountKeeps, StillPlaced DEF CursorInv
<1>4. ASSUME NEW d \in Devices, Receive(d) PROVE CursorInv'
  <2>1. Elsewhere(d)  BY <1>1, <1>4, ReadingElsewhere
  <2>2. PlaceInv(d)'
    BY <1>4, FetchPlaced, AcknowledgePlaced, ProcessPlaced, RowPlaced, ClearPlaced,
       CursorPlaced DEF Receive
  <2>3. \A e \in Devices \ {d} : PlaceInv(e)'
    BY <1>1, <2>1, StillPlaced DEF Elsewhere
  <2>4. CountInv'  BY <1>1, <2>1, CountKeeps DEF Elsewhere
  <2> QED BY <1>2, <2>2, <2>3, <2>4 DEF CursorInv
<1>5. ASSUME NEW d \in Devices, Membership(d) \/ Send(d) \/ Fail(d) PROVE CursorInv'
  BY <1>1, <1>3, <1>5, MembershipStill, SendStill, FailStill
<1>6. CASE \/ \E d \in Devices : Enroll(d) \/ RevokeDevice(d)
           \/ \E r \in late : Arrive(r)
           \/ UNCHANGED vars
  BY <1>1, <1>3, <1>6, AroundStill
<1> QED BY <1>4, <1>5, <1>6 DEF Next

(***************************************************************************)
(* The cursor a device writes (mls_receive_cursor.dart) is a sequence of   *)
(* the log with the epoch the log is in there, whoever else commits in the *)
(* meantime; and its MLS state, written before, is never behind the cursor.*)
(***************************************************************************)
THEOREM CursorNamesThePlace == Spec => []CursorOnLog
<1>1. CursorInv => CursorOnLog
  <2> SUFFICES ASSUME CursorInv, NEW d \in Devices, cursor[d].joined
               PROVE  /\ cursor[d].epoch = Cardinality(CommitRows(cursor[d].seq))
                      /\ HasGroup(d)
                      /\ cursor[d].epoch <= Len(native[d].tree)
    BY DEF CursorOnLog
  <2>1. PlaceInv(d) /\ DeviceInv(d)  BY PlaceOf
  <2>2. native[d].tree \in Seq(Commits)  BY <2>1 DEF DeviceInv, NativeInv, Grouped, OnLog
  <2>3. HasGroup(d)  BY <2>2 DEF HasGroup
  <2> QED BY <2>1, <2>3 DEF PlaceInv, At
<1>2. Spec => []CursorInv  BY InitCursorInv, NextCursorInv, PTL DEF Spec
<1> QED BY <1>1, <1>2, PTL

=============================================================================

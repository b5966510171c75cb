------------------------- MODULE MlsDelivery_proofs -------------------------
(***************************************************************************)
(* Proofs about MlsDelivery, for every set of devices, accounts, operation *)
(* ids, events and attachments and for every bound; and, at the end, about *)
(* the inventory of KeyPackages, from which devices are added to a channel.*)
(***************************************************************************)
EXTENDS MlsDelivery, KeyPackages, FiniteSetTheorems, SequenceTheorems, TLAPS

(***************************************************************************)
(* The shape of an event and of a request of each class.                   *)
(***************************************************************************)
LEMMA EventShape ==
    ASSUME NEW v \in Events
    PROVE  /\ v.id \in EventIds
           /\ v.kind \in Kinds
           /\ v.target \in EventIds \cup {None}
           /\ v.kind \in Mutations => v.target \in EventIds
           /\ v.files \subseteq Attachments
BY DEF Events, Event, Mutations

LEMMA RequestShape ==
    ASSUME NEW r \in Requests
    PROVE  /\ r.by \in Devices
           /\ r.op \in Operations
           /\ r.class \in {"commit", "proposal", "welcome", "application"}
           /\ r.accepted \in Nat
           /\ BuiltIn(r) \in Nat
           /\ r.class \in {"commit", "proposal"} => r.parent \in Nat
           /\ r.class = "application" => r.event \in Events
           /\ r.class # "application" => r.event = None
<1>1. MaxEpoch \in Nat BY DeliveryAssumption
<1>2. Epochs \subseteq Nat BY <1>1 DEF Epochs
<1> QED BY <1>2 DEF Requests, Request, BuiltIn

------------------------------------------------------------------------------
(***************************************************************************)
(* Every variable keeps its type: a handler that inserts, updates or       *)
(* answers leaves every table in the shape of its schema.                  *)
(***************************************************************************)
LEMMA InitTypeOK == Init => TypeOK
BY DEF Init, TypeOK

LEMMA SubmitTypeOK ==
    ASSUME TypeOK, NEW r \in Requests, Submit(r)
    PROVE  TypeOK'
<1> USE DEF TypeOK, Submit
<1>1. (founder \in Devices \cup {None})' /\ (cursors \in [Devices -> Cursors \cup {None}])'
      /\ (revoked \subseteq Devices)' /\ (banned \subseteq Users)'
    BY DEF Cursors
<1>2. (epoch \in Nat)' /\ (nextSequence \in Nat \ {0})'
    BY RequestShape DEF EpochAfter
<1>3. (deliveries \subseteq [seq : Nat \ {0}, req : Requests])'
    BY DEF Requests
<1>4. (attachments \in [Attachments ->
         [by : Devices \cup {None}, event : EventIds \cup {None}]])'
    <2>1. CASE r.event = None BY <2>1
    <2>2. CASE r.event # None
        <3>1. r.event.id \in EventIds BY <2>2, RequestShape, EventShape
        <3> QED BY <2>2, <3>1
    <2> QED BY <2>1, <2>2
<1> QED BY <1>1, <1>2, <1>3, <1>4

LEMMA FetchTypeOK ==
    ASSUME TypeOK, NEW d \in Readers, NEW after \in Nat, NEW limit \in Limits,
           Fetch(d, after, limit)
    PROVE  TypeOK'
<1> DEFINE old == IF cursors[d] = None
                  THEN [delivered |-> 0, acked |-> 0, ackedEpoch |-> 0]
                  ELSE cursors[d]
<1>1. d \in Devices BY DeliveryAssumption
<1>2. PICK row \in deliveries :
        cursors' = [cursors EXCEPT ![d] =
          [old EXCEPT !.delivered = IF row.seq > @ THEN row.seq ELSE @]]
    BY DEF Fetch, Last, Page
<1>3. old \in Cursors BY <1>1 DEF TypeOK, Cursors
<1>4. row.seq \in Nat BY DEF TypeOK
<1>5. [old EXCEPT !.delivered = IF row.seq > @ THEN row.seq ELSE @] \in Cursors
    BY <1>3, <1>4 DEF Cursors
<1>6. cursors' \in [Devices -> Cursors \cup {None}]
    BY <1>1, <1>2, <1>5 DEF TypeOK
<1> QED BY <1>6 DEF TypeOK, Fetch

LEMMA AcknowledgeTypeOK ==
    ASSUME TypeOK, NEW d \in Readers, NEW s \in Nat, NEW e \in Nat, Acknowledge(d, s, e)
    PROVE  TypeOK'
<1>1. d \in Devices BY DeliveryAssumption
<1>2. cursors[d] \in Cursors BY <1>1 DEF TypeOK, Acknowledge, Acceptable
<1>3. [cursors[d] EXCEPT !.acked = s, !.ackedEpoch = e] \in Cursors
    BY <1>2 DEF Cursors
<1>4. cursors' = [cursors EXCEPT ![d] = [cursors[d] EXCEPT !.acked = s, !.ackedEpoch = e]]
    BY <1>1 DEF TypeOK, Acknowledge
<1>5. cursors' \in [Devices -> Cursors \cup {None}]
    BY <1>3, <1>4 DEF TypeOK
<1> QED BY <1>5 DEF TypeOK, Acknowledge

LEMMA NextTypeOK == TypeOK /\ [Next]_vars => TypeOK'
<1> SUFFICES ASSUME TypeOK, [Next]_vars PROVE TypeOK'
    OBVIOUS
<1> USE DEF TypeOK
<1>1. ASSUME NEW d \in Devices, Initialize(d) PROVE TypeOK'
    BY <1>1 DEF Initialize, Cursors
<1>2. ASSUME NEW r \in Requests, Submit(r) PROVE TypeOK'
    BY <1>2, SubmitTypeOK
<1>3. ASSUME NEW d \in Readers, NEW after \in 0 .. MaxSequence, NEW limit \in Limits,
             Fetch(d, after, limit)
      PROVE TypeOK'
    BY <1>3, FetchTypeOK, DeliveryAssumption
<1>4. ASSUME NEW d \in Readers, NEW s \in 0 .. MaxSequence, NEW e \in Epochs,
             Acknowledge(d, s, e)
      PROVE TypeOK'
    BY <1>4, AcknowledgeTypeOK, DeliveryAssumption DEF Epochs
<1>5. ASSUME NEW d \in Devices, NEW a \in Attachments, Upload(d, a) PROVE TypeOK'
    BY <1>5 DEF Upload, Cursors
<1>6. ASSUME NEW d \in Devices, Revoke(d) PROVE TypeOK'
    BY <1>6 DEF Revoke, Cursors
<1>7. ASSUME NEW u \in Users, Ban(u) \/ Unban(u) PROVE TypeOK'
    BY <1>7 DEF Ban, Unban, Cursors
<1>8. CASE UNCHANGED vars
    BY <1>8 DEF vars, Cursors
<1> QED BY <1>1, <1>2, <1>3, <1>4, <1>5, <1>6, <1>7, <1>8 DEF Next

(***************************************************************************)
(* TypeOK for every instance: no handler leaves a row its table's schema   *)
(* does not allow.                                                         *)
(***************************************************************************)
THEOREM TypeCorrect == Spec => []TypeOK
BY InitTypeOK, NextTypeOK, PTL DEF Spec

------------------------------------------------------------------------------
(***************************************************************************)
(* What an accepted request has passed.                                    *)
(***************************************************************************)
LEMMA AcceptedPassed ==
    ASSUME NEW r, Outcome(r) = "accepted"
    PROVE  /\ Earlier(r) = {}
           /\ founder # None
           /\ EpochCurrent(r)
           /\ r.event # None =>
                /\ TargetExists(r.event)
                /\ MutationAllowed(r.event, r.by)
                /\ FreshEvent(r.event)
                /\ \A a \in r.event.files : Linkable(a, r.by)
BY DEF Outcome, NewOutcome

(***************************************************************************)
(* Before the channel is initialized nothing has happened in it; this is   *)
(* what makes the reset of epoch and sequence in Initialize harmless.      *)
(***************************************************************************)
Founded == founder = None => epoch = 0 /\ nextSequence = 1 /\ deliveries = {}

LogInv == TypeOK /\ Founded /\ ExactlyOnce

LEMMA InitLogInv == Init => LogInv
<1> SUFFICES ASSUME Init PROVE Founded /\ ExactlyOnce
    BY InitTypeOK DEF LogInv
<1> QED BY DEF Init, Founded, ExactlyOnce

LEMMA SubmitLogInv ==
    ASSUME LogInv, NEW r \in Requests, Submit(r)
    PROVE  Founded' /\ ExactlyOnce'
<1> DEFINE new == [seq |-> nextSequence, req |-> r]
<1>1. /\ nextSequence \in Nat \ {0}
      /\ deliveries' = deliveries \cup {new}
      /\ nextSequence' = nextSequence + 1
      /\ founder' = founder
    BY DEF LogInv, TypeOK, Submit
<1>2. Earlier(r) = {} /\ founder # None
    BY AcceptedPassed DEF Submit
<1>3. {row.seq : row \in deliveries'} = 1 .. nextSequence' - 1
    <2>1. {row.seq : row \in deliveries'} = {row.seq : row \in deliveries} \cup {nextSequence}
        <3>1. new \in deliveries' /\ new.seq = nextSequence BY <1>1
        <3>2. \A row \in deliveries' : row \in deliveries \/ row = new BY <1>1
        <3>3. deliveries \subseteq deliveries' BY <1>1
        <3> HIDE DEF new
        <3> QED BY <3>1, <3>2, <3>3
    <2>2. {row.seq : row \in deliveries'} = 1 .. nextSequence - 1 \cup {nextSequence}
        BY <2>1 DEF LogInv, ExactlyOnce
    <2>3. nextSequence' - 1 = nextSequence BY <1>1
    <2>4. 1 .. nextSequence = 1 .. nextSequence - 1 \cup {nextSequence} BY <1>1
    <2> QED BY <2>2, <2>3, <2>4
<1>4. ASSUME NEW p \in deliveries', NEW q \in deliveries', p # q
      PROVE  p.seq # q.seq /\ <<p.req.by, p.req.op>> # <<q.req.by, q.req.op>>
    <2>1. \A row \in deliveries :
            row.seq # nextSequence /\ <<row.req.by, row.req.op>> # <<r.by, r.op>>
        BY <1>1, <1>2 DEF LogInv, ExactlyOnce, Earlier
    <2> QED BY <1>1, <1>4, <2>1 DEF LogInv, ExactlyOnce
<1> QED BY <1>1, <1>2, <1>3, <1>4 DEF Founded, ExactlyOnce

LEMMA NextLogInv == LogInv /\ [Next]_vars => LogInv'
<1> SUFFICES ASSUME LogInv, [Next]_vars PROVE Founded' /\ ExactlyOnce'
    BY NextTypeOK DEF LogInv
<1> USE DEF LogInv, Founded, ExactlyOnce
<1>1. ASSUME NEW d \in Devices, Initialize(d) PROVE Founded' /\ ExactlyOnce'
    BY <1>1, DeliveryAssumption DEF Initialize
<1>2. ASSUME NEW r \in Requests, Submit(r) PROVE Founded' /\ ExactlyOnce'
    BY <1>2, SubmitLogInv
<1>3. CASE UNCHANGED <<founder, epoch, nextSequence, deliveries>>
    BY <1>3
<1> QED
    BY <1>1, <1>2, <1>3
    DEF Next, vars, Fetch, Acknowledge, Upload, Revoke, Ban, Unban

(***************************************************************************)
(* ExactlyOnce for every instance: no hole, no fork and no operation twice *)
(* in the log of POST /mls/messages, whatever is retried.                  *)
(***************************************************************************)
THEOREM LogExactlyOnce == Spec => []ExactlyOnce
<1>1. LogInv => ExactlyOnce BY DEF LogInv
<1> QED BY InitLogInv, NextLogInv, <1>1, PTL DEF Spec

(***************************************************************************)
(* The epoch never falls, so a request that was built in an epoch that is  *)
(* over stays refused.                                                     *)
(***************************************************************************)
THEOREM RefusalsFinal == Spec => RefusalsAreFinal
<1>1. ASSUME LogInv, [Next]_vars
      PROVE  [\A r \in Requests :
                BuiltIn(r) <= epoch /\ ~EpochCurrent(r) => ~EpochCurrent(r)']_epoch
    <2>1. ASSUME NEW d \in Devices, Initialize(d) PROVE epoch' = epoch
        BY <1>1, <2>1 DEF Initialize, LogInv, Founded
    <2>2. ASSUME NEW s \in Requests, Submit(s), epoch' # epoch,
                 NEW r \in Requests, BuiltIn(r) <= epoch, ~EpochCurrent(r)
          PROVE  ~EpochCurrent(r)'
        <3>1. epoch \in Nat BY <1>1 DEF LogInv, TypeOK
        <3>2. epoch' = epoch + 1
            BY <2>2, AcceptedPassed DEF Submit, EpochCurrent, EpochAfter
        <3> QED BY <2>2, <3>1, <3>2, RequestShape DEF EpochCurrent, BuiltIn
    <2>3. CASE UNCHANGED epoch BY <2>3
    <2> QED
        BY <1>1, <2>1, <2>2, <2>3
        DEF Next, vars, Fetch, Acknowledge, Upload, Revoke, Ban, Unban
<1> QED BY InitLogInv, NextLogInv, <1>1, PTL DEF Spec, RefusalsAreFinal

------------------------------------------------------------------------------
(***************************************************************************)
(* EpochsFollowCommits.  The number of commits is a cardinality, so the    *)
(* invariant also says that the log is finite.                             *)
(***************************************************************************)
EpochInv == LogInv /\ IsFiniteSet(deliveries) /\ EpochsFollowCommits

LEMMA SequencesIssued ==
    ASSUME LogInv, NEW row \in deliveries
    PROVE  row.seq \in 1 .. nextSequence - 1
BY DEF LogInv, ExactlyOnce

LEMMA InitEpochInv == Init => EpochInv
<1> SUFFICES ASSUME Init PROVE IsFiniteSet(deliveries) /\ EpochsFollowCommits
    BY InitLogInv DEF EpochInv
<1>1. deliveries = {} /\ epoch = 0 BY DEF Init
<1>2. CommitsUpTo(nextSequence) = {} BY <1>1 DEF CommitsUpTo
<1> QED BY <1>1, <1>2, FS_EmptySet DEF EpochsFollowCommits

LEMMA SubmitEpochInv ==
    ASSUME EpochInv, NEW r \in Requests, Submit(r)
    PROVE  IsFiniteSet(deliveries)' /\ EpochsFollowCommits'
<1> DEFINE new == [seq |-> nextSequence, req |-> r]
           Commits(n) == {row \in deliveries' : row.req.class = "commit" /\ row.seq <= n}
<1>1. /\ nextSequence \in Nat \ {0}
      /\ epoch \in Nat
      /\ deliveries' = deliveries \cup {new}
      /\ nextSequence' = nextSequence + 1
      /\ epoch' = IF r.class = "commit" THEN r.accepted ELSE epoch
      /\ EpochCurrent(r)
    BY AcceptedPassed DEF EpochInv, LogInv, TypeOK, Submit, EpochAfter
<1>2. \A row \in deliveries : row.seq \in Nat /\ row.seq < nextSequence
    BY <1>1, SequencesIssued DEF EpochInv
<1>3. IsFiniteSet(deliveries)'
    BY <1>1, FS_AddElement DEF EpochInv
<1>4. /\ IsFiniteSet(CommitsUpTo(nextSequence))
      /\ epoch = Cardinality(CommitsUpTo(nextSequence))
      /\ new \notin CommitsUpTo(nextSequence)
    <2>1. CommitsUpTo(nextSequence) \subseteq deliveries BY DEF CommitsUpTo
    <2>2. new \notin deliveries BY <1>1, <1>2
    <2> QED BY <2>1, <2>2, FS_Subset DEF EpochInv, EpochsFollowCommits
<1>5. Cardinality(CommitsUpTo(nextSequence) \cup {new}) = epoch + 1
    BY <1>4, FS_AddElement
<1>6. ASSUME NEW n \in {nextSequence, nextSequence + 1}
      PROVE  Commits(n) = IF r.class = "commit" THEN CommitsUpTo(nextSequence) \cup {new}
                          ELSE CommitsUpTo(nextSequence)
    BY <1>1, <1>2 DEF CommitsUpTo
<1>7. ASSUME NEW n \in {nextSequence, nextSequence + 1}
      PROVE  Cardinality(Commits(n)) = epoch'
    <2>1. CASE r.class = "commit"
        <3>1. epoch' = epoch + 1 BY <2>1, <1>1 DEF EpochCurrent
        <3> QED BY <2>1, <3>1, <1>5, <1>6
    <2>2. CASE r.class # "commit"
        BY <2>2, <1>1, <1>4, <1>6
    <2> QED BY <2>1, <2>2
<1>8. r.accepted = epoch'
    BY <1>1 DEF EpochCurrent
<1>9. ASSUME NEW row \in deliveries PROVE row.req.accepted = Cardinality(Commits(row.seq))
    <2>1. Commits(row.seq) = CommitsUpTo(row.seq)
        BY <1>1, <1>2 DEF CommitsUpTo
    <2> QED BY <2>1 DEF EpochInv, EpochsFollowCommits
<1>10. epoch' = Cardinality(Commits(nextSequence'))
    BY <1>1, <1>7
<1>11. ASSUME NEW row \in deliveries' PROVE row.req.accepted = Cardinality(Commits(row.seq))
    <2>1. CASE row = new
        <3>1. row.seq = nextSequence /\ row.req = r BY <2>1
        <3>2. Cardinality(Commits(row.seq)) = epoch' BY <3>1, <1>7
        <3> QED BY <3>1, <3>2, <1>8
    <2>2. CASE row \in deliveries
        BY <2>2, <1>9
    <2> QED BY <2>1, <2>2, <1>1
<1> QED BY <1>3, <1>10, <1>11 DEF EpochsFollowCommits, CommitsUpTo

LEMMA NextEpochInv == EpochInv /\ [Next]_vars => EpochInv'
<1> SUFFICES ASSUME EpochInv, [Next]_vars
             PROVE  IsFiniteSet(deliveries)' /\ EpochsFollowCommits'
    BY NextLogInv DEF EpochInv
<1> USE DEF EpochInv
<1>1. ASSUME NEW r \in Requests, Submit(r)
      PROVE  IsFiniteSet(deliveries)' /\ EpochsFollowCommits'
    BY <1>1, SubmitEpochInv
<1>2. CASE UNCHANGED <<epoch, nextSequence, deliveries>>
    BY <1>2 DEF EpochsFollowCommits, CommitsUpTo
<1>3. ASSUME NEW d \in Devices, Initialize(d)
      PROVE  UNCHANGED <<epoch, nextSequence, deliveries>>
    BY <1>3 DEF Initialize, LogInv, Founded
<1> QED
    BY <1>1, <1>2, <1>3
    DEF Next, vars, Fetch, Acknowledge, Upload, Revoke, Ban, Unban

(***************************************************************************)
(* EpochsFollowCommits for every instance: the epoch the server keeps is   *)
(* the number of commits in its log, and every message stands in the epoch *)
(* it names.                                                               *)
(***************************************************************************)
THEOREM EpochsCountCommits == Spec => []EpochsFollowCommits
<1>1. EpochInv => EpochsFollowCommits BY DEF EpochInv
<1> QED BY InitEpochInv, NextEpochInv, <1>1, PTL DEF Spec

------------------------------------------------------------------------------
(***************************************************************************)
(* CursorsWithinDelivery is inductive beside LogInv: deliveries only grow  *)
(* and the epoch only rises.                                               *)
(***************************************************************************)
CursorInv == LogInv /\ CursorsWithinDelivery

WithinDelivery(d) ==
    cursors[d] # None =>
      /\ \E row \in deliveries : Visible(row, d) /\ row.seq = cursors[d].delivered
      /\ cursors[d].acked <= cursors[d].delivered
      /\ cursors[d].ackedEpoch <= epoch

LEMMA LogGrows ==
    ASSUME LogInv, [Next]_vars
    PROVE  deliveries \subseteq deliveries' /\ epoch <= epoch'
<1>1. epoch \in Nat BY DEF LogInv, TypeOK
<1>2. ASSUME NEW d \in Devices, Initialize(d)
      PROVE  deliveries \subseteq deliveries' /\ epoch <= epoch'
    BY <1>1, <1>2 DEF Initialize, LogInv, Founded
<1>3. ASSUME NEW r \in Requests, Submit(r)
      PROVE  deliveries \subseteq deliveries' /\ epoch <= epoch'
    BY <1>1, <1>3, AcceptedPassed DEF Submit, EpochCurrent, EpochAfter
<1>4. CASE UNCHANGED <<epoch, deliveries>>
    BY <1>1, <1>4
<1> QED
    BY <1>2, <1>3, <1>4
    DEF Next, vars, Fetch, Acknowledge, Upload, Revoke, Ban, Unban

(***************************************************************************)
(* A step that leaves the cursor of d alone keeps it within delivery.      *)
(***************************************************************************)
LEMMA CursorKept ==
    ASSUME CursorInv, [Next]_vars, NEW d \in Devices, cursors'[d] = cursors[d]
    PROVE  WithinDelivery(d)'
<1>1. deliveries \subseteq deliveries' /\ epoch <= epoch'
    BY LogGrows DEF CursorInv
<1>2. TypeOK /\ TypeOK' BY NextTypeOK DEF CursorInv, LogInv
<1>3. WithinDelivery(d) BY DEF CursorInv, CursorsWithinDelivery, WithinDelivery
<1>4. epoch \in Nat /\ epoch' \in Nat BY <1>2 DEF TypeOK
<1>5. cursors[d] # None => cursors[d] \in Cursors BY <1>2 DEF TypeOK
<1>6. cursors[d] # None => cursors[d].ackedEpoch <= epoch'
    BY <1>1, <1>3, <1>4, <1>5 DEF WithinDelivery, Cursors
<1> QED BY <1>1, <1>3, <1>6 DEF WithinDelivery, Visible

(***************************************************************************)
(* The cursor of d after a page was handed to it.                          *)
(***************************************************************************)
LEMMA FetchedCursor ==
    ASSUME TypeOK, NEW d \in Devices, NEW after \in Nat, NEW limit \in Limits,
           Fetch(d, after, limit)
    PROVE  \E row \in deliveries, old \in Cursors :
             /\ Visible(row, d)
             /\ cursors' = [cursors EXCEPT ![d] =
                  [old EXCEPT !.delivered = IF row.seq > @ THEN row.seq ELSE @]]
             /\ cursors[d] # None => old = cursors[d]
             /\ cursors[d] = None => old = [delivered |-> 0, acked |-> 0, ackedEpoch |-> 0]
<1> DEFINE old == IF cursors[d] = None
                  THEN [delivered |-> 0, acked |-> 0, ackedEpoch |-> 0]
                  ELSE cursors[d]
<1>1. PICK row \in Last(Page(d, after, limit)) :
        cursors' = [cursors EXCEPT ![d] =
          [old EXCEPT !.delivered = IF row.seq > @ THEN row.seq ELSE @]]
    BY DEF Fetch
<1>2. row \in deliveries /\ Visible(row, d) BY DEF Last, Page
<1>3. old \in Cursors BY DEF TypeOK, Cursors
<1> QED BY <1>1, <1>2, <1>3

LEMMA FetchWithinDelivery ==
    ASSUME CursorInv, NEW d \in Devices, NEW after \in Nat, NEW limit \in Limits,
           Fetch(d, after, limit)
    PROVE  WithinDelivery(d)'
<1>1. TypeOK BY DEF CursorInv, LogInv
<1>2. PICK row \in deliveries, old \in Cursors :
        /\ Visible(row, d)
        /\ cursors' = [cursors EXCEPT ![d] =
             [old EXCEPT !.delivered = IF row.seq > @ THEN row.seq ELSE @]]
        /\ cursors[d] # None => old = cursors[d]
        /\ cursors[d] = None => old = [delivered |-> 0, acked |-> 0, ackedEpoch |-> 0]
    BY <1>1, FetchedCursor
<1>3. cursors'[d] = [old EXCEPT !.delivered = IF row.seq > @ THEN row.seq ELSE @]
    BY <1>1, <1>2 DEF TypeOK
<1>4. /\ deliveries' = deliveries /\ epoch' = epoch
      /\ epoch \in Nat /\ row.seq \in Nat \ {0}
    BY <1>1 DEF Fetch, TypeOK
<1>5. WithinDelivery(d) BY DEF CursorInv, CursorsWithinDelivery, WithinDelivery
<1>6. old.delivered \in Nat /\ old.acked \in Nat /\ old.ackedEpoch \in Nat
    BY DEF Cursors
<1>7. old.acked <= old.delivered /\ old.ackedEpoch <= epoch
    BY <1>2, <1>4, <1>5 DEF WithinDelivery
<1>8. cursors'[d].acked = old.acked /\ cursors'[d].ackedEpoch = old.ackedEpoch
    BY <1>3 DEF Cursors
<1>9. CASE row.seq > old.delivered
    <2>1. cursors'[d].delivered = row.seq BY <1>3, <1>9 DEF Cursors
    <2> QED BY <2>1, <1>2, <1>4, <1>6, <1>7, <1>8, <1>9 DEF WithinDelivery, Visible
<1>10. CASE ~(row.seq > old.delivered)
    <2>1. cursors'[d].delivered = old.delivered BY <1>3, <1>10 DEF Cursors
    <2>2. cursors[d] # None /\ old = cursors[d] BY <1>2, <1>4, <1>10
    <2> QED BY <2>1, <2>2, <1>4, <1>5, <1>7, <1>8 DEF WithinDelivery, Visible
<1> QED BY <1>9, <1>10

LEMMA AcknowledgeWithinDelivery ==
    ASSUME CursorInv, NEW d \in Devices, NEW s \in Nat, NEW e \in Nat, Acknowledge(d, s, e)
    PROVE  WithinDelivery(d)'
<1>1. TypeOK BY DEF CursorInv, LogInv
<1>2. cursors[d] \in Cursors BY <1>1 DEF TypeOK, Acknowledge, Acceptable
<1>3. WithinDelivery(d) BY DEF CursorInv, CursorsWithinDelivery, WithinDelivery
<1>4. /\ cursors'[d] = [cursors[d] EXCEPT !.acked = s, !.ackedEpoch = e]
      /\ deliveries' = deliveries /\ epoch' = epoch
      /\ s <= cursors[d].delivered /\ e <= epoch
    BY <1>1, <1>2 DEF TypeOK, Cursors, Acknowledge, Acceptable
<1>5. /\ cursors'[d].delivered = cursors[d].delivered
      /\ cursors'[d].acked = s /\ cursors'[d].ackedEpoch = e
    BY <1>2, <1>4 DEF Cursors
<1> QED BY <1>3, <1>4, <1>5 DEF WithinDelivery, Visible, Acknowledge, Acceptable

LEMMA NextCursorInv == CursorInv /\ [Next]_vars => CursorInv'
<1> SUFFICES ASSUME CursorInv, [Next]_vars, NEW x \in Devices PROVE WithinDelivery(x)'
    BY NextLogInv DEF CursorInv, CursorsWithinDelivery, WithinDelivery
<1>1. CASE cursors'[x] = cursors[x]
    BY <1>1, CursorKept
<1>2. ASSUME NEW d \in Readers, NEW after \in 0 .. MaxSequence, NEW limit \in Limits,
             Fetch(d, after, limit)
      PROVE  WithinDelivery(x)'
    <2>1. d # x => cursors'[x] = cursors[x]
        BY <1>2 DEF Fetch, CursorInv, LogInv, TypeOK
    <2> QED BY <1>1, <1>2, <2>1, FetchWithinDelivery, DeliveryAssumption
<1>3. ASSUME NEW d \in Readers, NEW s \in 0 .. MaxSequence, NEW e \in Epochs,
             Acknowledge(d, s, e)
      PROVE  WithinDelivery(x)'
    <2>1. d # x => cursors'[x] = cursors[x]
        BY <1>3 DEF Acknowledge, CursorInv, LogInv, TypeOK
    <2> QED BY <1>1, <1>3, <2>1, AcknowledgeWithinDelivery, DeliveryAssumption DEF Epochs
<1> QED
    BY <1>1, <1>2, <1>3
    DEF Next, vars, Initialize, Submit, Upload, Revoke, Ban, Unban

(***************************************************************************)
(* CursorsWithinDelivery for every instance: no device has a cursor past   *)
(* what GET /mls/messages handed to it.                                    *)
(***************************************************************************)
THEOREM CursorsDelivered == Spec => []CursorsWithinDelivery
<1>1. Init => CursorInv
    BY InitLogInv DEF Init, CursorInv, CursorsWithinDelivery
<1>2. CursorInv => CursorsWithinDelivery BY DEF CursorInv
<1> QED BY <1>1, <1>2, NextCursorInv, PTL DEF Spec

NotBack(x) ==
    /\ cursors'[x] # None
    /\ cursors'[x].delivered >= cursors[x].delivered
    /\ cursors'[x].acked >= cursors[x].acked
    /\ cursors'[x].ackedEpoch >= cursors[x].ackedEpoch

LEMMA StepNotBack ==
    ASSUME TypeOK, [Next]_vars, NEW x \in Devices, cursors[x] # None
    PROVE  NotBack(x)
<1>1. /\ cursors[x] \in Cursors
      /\ cursors[x].delivered \in Nat /\ cursors[x].acked \in Nat
      /\ cursors[x].ackedEpoch \in Nat
    BY DEF TypeOK, Cursors
<1>2. CASE cursors'[x] = cursors[x]
    BY <1>1, <1>2 DEF NotBack
<1>3. ASSUME NEW d \in Readers, NEW after \in 0 .. MaxSequence, NEW limit \in Limits,
             Fetch(d, after, limit)
      PROVE  NotBack(x)
    <2>1. d # x => cursors'[x] = cursors[x]
        BY <1>3 DEF Fetch, TypeOK
    <2>2. CASE d = x
        <3>1. PICK row \in deliveries :
                cursors' = [cursors EXCEPT ![x] =
                  [cursors[x] EXCEPT !.delivered = IF row.seq > @ THEN row.seq ELSE @]]
            BY <1>3, <2>2, FetchedCursor, DeliveryAssumption
        <3>2. cursors'[x] =
                [cursors[x] EXCEPT !.delivered = IF row.seq > @ THEN row.seq ELSE @]
            BY <3>1 DEF TypeOK
        <3>3. row.seq \in Nat BY DEF TypeOK
        <3>4. /\ cursors'[x] \in Cursors
              /\ cursors'[x].delivered = IF row.seq > cursors[x].delivered
                                         THEN row.seq ELSE cursors[x].delivered
              /\ cursors'[x].acked = cursors[x].acked
              /\ cursors'[x].ackedEpoch = cursors[x].ackedEpoch
            BY <1>1, <3>2, <3>3 DEF Cursors
        <3>5. cursors'[x] # None BY <3>4, NullAssumption DEF Cursors
        <3> QED BY <1>1, <3>3, <3>4, <3>5 DEF NotBack
    <2> QED BY <1>2, <2>1, <2>2
<1>4. ASSUME NEW d \in Readers, NEW s \in 0 .. MaxSequence, NEW e \in Epochs,
             Acknowledge(d, s, e)
      PROVE  NotBack(x)
    <2>1. d # x => cursors'[x] = cursors[x]
        BY <1>4 DEF Acknowledge, TypeOK
    <2>2. CASE d = x
        <3>1. s \in Nat /\ e \in Nat BY DeliveryAssumption DEF Epochs
        <3>2. /\ cursors'[x] \in Cursors
              /\ cursors'[x].delivered = cursors[x].delivered
              /\ cursors'[x].acked = s
              /\ cursors'[x].ackedEpoch = e
            BY <1>1, <1>4, <2>2, <3>1 DEF Acknowledge, TypeOK, Cursors
        <3>3. cursors'[x] # None BY <3>2, NullAssumption DEF Cursors
        <3> QED BY <1>1, <1>4, <2>2, <3>2, <3>3 DEF Acknowledge, Acceptable, NotBack
    <2> QED BY <1>2, <2>1, <2>2
<1>5. CASE UNCHANGED cursors
    BY <1>2, <1>5
<1> QED
    BY <1>3, <1>4, <1>5
    DEF Next, vars, Initialize, Submit, Upload, Revoke, Ban, Unban

(***************************************************************************)
(* CursorsMonotone for every instance: a repeated or delayed page or       *)
(* acknowledgement never moves a cursor back.                              *)
(***************************************************************************)
THEOREM CursorsNeverBack == Spec => CursorsMonotone
<1>1. ASSUME TypeOK, [Next]_vars
      PROVE  [\A d \in Devices :
                cursors[d] # None =>
                  /\ cursors'[d] # None
                  /\ cursors'[d].delivered >= cursors[d].delivered
                  /\ cursors'[d].acked >= cursors[d].acked
                  /\ cursors'[d].ackedEpoch >= cursors[d].ackedEpoch]_vars
    BY <1>1, StepNotBack DEF NotBack
<1> QED BY InitTypeOK, NextTypeOK, <1>1, PTL DEF Spec, CursorsMonotone

------------------------------------------------------------------------------
(***************************************************************************)
(* MutationsHaveRoots is inductive beside LogInv: a new event is the last  *)
(* of the log, so what it targets is before it.                            *)
(***************************************************************************)
Rooted(row) ==
    row.req.event.target # None =>
      \E root \in EventRows :
        /\ root.req.event.id = row.req.event.target
        /\ root.seq < row.seq
        /\ root.req.event.kind \notin Mutations
        /\ row.req.event.kind = "edit" => UserOf[root.req.by] = UserOf[row.req.by]
        /\ row.req.event.kind = "delete" =>
             UserOf[row.req.by] \in {UserOf[root.req.by], Owner}

LEMMA SubmittedRow ==
    ASSUME LogInv, NEW r \in Requests, Submit(r)
    PROVE  /\ r.class # "application" => EventRows' = EventRows
           /\ r.class = "application" =>
                EventRows' = EventRows \cup {[seq |-> nextSequence, req |-> r]}
           /\ \A row \in deliveries : row.seq < nextSequence
<1>1. nextSequence \in Nat BY DEF LogInv, TypeOK
<1> QED BY <1>1, SequencesIssued DEF EventRows, Submit

LEMMA SubmitRoots ==
    ASSUME LogInv, MutationsHaveRoots, NEW r \in Requests, Submit(r)
    PROVE  MutationsHaveRoots'
<1> DEFINE new == [seq |-> nextSequence, req |-> r]
<1>1. CASE r.class # "application"
    BY <1>1, SubmittedRow DEF MutationsHaveRoots
<1>2. CASE r.class = "application"
    <2>1. /\ r.event \in Events
          /\ EventRows' = EventRows \cup {new}
          /\ \A row \in EventRows : row.seq < nextSequence
        BY <1>2, RequestShape, SubmittedRow DEF EventRows
    <2>2. /\ r.event # None
          /\ TargetExists(r.event)
          /\ MutationAllowed(r.event, r.by)
          /\ FreshEvent(r.event)
        BY <2>1, NullAssumption, AcceptedPassed DEF Submit
    <2>3. \A p, q \in EventRows' : p # q => p.req.event.id # q.req.event.id
        BY <2>1, <2>2 DEF MutationsHaveRoots, FreshEvent
    <2>4. ASSUME NEW row \in EventRows PROVE Rooted(row)'
        BY <2>1 DEF MutationsHaveRoots, Rooted
    <2>5. ASSUME NEW last, last = new, r.event.target # None PROVE Rooted(last)'
        <3>1. PICK root \in EventRows :
                /\ root.req.event.id = r.event.target
                /\ root.req.event.kind \in TargetKinds(r.event.kind)
            BY <2>2, <2>5 DEF TargetExists, TargetsOf
        <3>2. root.req.event.kind \notin Mutations
            BY <3>1 DEF TargetKinds, Mutations
        <3>3. /\ r.event.kind = "edit" => UserOf[root.req.by] = UserOf[r.by]
              /\ r.event.kind = "delete" => UserOf[r.by] \in {UserOf[root.req.by], Owner}
            BY <2>2, <3>1 DEF MutationAllowed, TargetsOf
        <3>4. root \in EventRows' /\ root.seq < last.seq /\ last.req = r
            BY <2>1, <2>5
        <3> QED BY <3>1, <3>2, <3>3, <3>4 DEF Rooted
    <2>6. ASSUME NEW row \in EventRows' PROVE Rooted(row)'
        <3>1. CASE row \in EventRows BY <2>4, <3>1
        <3>2. CASE row = new /\ r.event.target # None BY <2>5, <3>2
        <3>3. CASE row = new /\ r.event.target = None BY <3>3 DEF Rooted
        <3> QED BY <2>1, <3>1, <3>2, <3>3
    <2> QED BY <2>3, <2>6 DEF MutationsHaveRoots, Rooted
<1> QED BY <1>1, <1>2

LEMMA NextRoots == LogInv /\ MutationsHaveRoots /\ [Next]_vars => MutationsHaveRoots'
<1> SUFFICES ASSUME LogInv, MutationsHaveRoots, [Next]_vars PROVE MutationsHaveRoots'
    OBVIOUS
<1>1. ASSUME NEW r \in Requests, Submit(r) PROVE MutationsHaveRoots'
    BY <1>1, SubmitRoots
<1>2. CASE UNCHANGED deliveries
    BY <1>2 DEF MutationsHaveRoots, EventRows
<1> QED
    BY <1>1, <1>2
    DEF Next, vars, Initialize, Fetch, Acknowledge, Upload, Revoke, Ban, Unban

(***************************************************************************)
(* MutationsHaveRoots for every instance: no order of submissions lets an  *)
(* edit, a delete or a reaction precede its target, reach another mutation *)
(* or come from an account that may not make it.                           *)
(***************************************************************************)
THEOREM MutationsRooted == Spec => []MutationsHaveRoots
<1>1. Init => MutationsHaveRoots BY DEF Init, MutationsHaveRoots, EventRows
<1> QED BY InitLogInv, NextLogInv, <1>1, NextRoots, PTL DEF Spec

------------------------------------------------------------------------------
(***************************************************************************)
(* AttachmentsBoundWhole.  An upload makes only a row that does not exist, *)
(* and that row is bound to no event.                                      *)
(***************************************************************************)
AbsentUnbound ==
    \A a \in Attachments : attachments[a].by = None => attachments[a].event = None

BindingInv == LogInv /\ AbsentUnbound /\ AttachmentsBoundWhole

LEMMA InitBinding == Init => BindingInv
BY InitLogInv DEF Init, BindingInv, AbsentUnbound, AttachmentsBoundWhole, EventRows, BoundTo

LEMMA SubmitBinding ==
    ASSUME BindingInv, NEW r \in Requests, Submit(r)
    PROVE  AbsentUnbound' /\ AttachmentsBoundWhole'
<1> DEFINE new == [seq |-> nextSequence, req |-> r]
<1>1. CASE r.class # "application"
    <2>1. attachments' = attachments /\ EventRows' = EventRows
        BY <1>1, RequestShape, SubmittedRow DEF BindingInv, Submit
    <2> QED BY <2>1 DEF BindingInv, AbsentUnbound, AttachmentsBoundWhole, BoundTo
<1>2. CASE r.class = "application"
    <2>1. /\ r.event \in Events /\ r.event # None
          /\ r.event.id \in EventIds /\ r.event.id # None
          /\ r.event.files \subseteq Attachments
          /\ EventRows' = EventRows \cup {new}
        BY <1>2, RequestShape, EventShape, SubmittedRow, NullAssumption, DeliveryAssumption
        DEF BindingInv
    <2>2. /\ FreshEvent(r.event)
          /\ \A a \in r.event.files : Linkable(a, r.by)
        BY <2>1, AcceptedPassed DEF Submit
    <2>3. attachments \in [Attachments ->
            [by : Devices \cup {None}, event : EventIds \cup {None}]]
        BY DEF BindingInv, LogInv, TypeOK
    <2>4. \A a \in Attachments :
            /\ attachments'[a].by = attachments[a].by
            /\ attachments'[a].event =
                 IF a \in r.event.files THEN r.event.id ELSE attachments[a].event
        BY <2>1, <2>3 DEF Submit
    <2>5. AbsentUnbound'
        <3>1. r.by # None BY RequestShape, DeliveryAssumption
        <3> QED BY <2>2, <2>4, <3>1 DEF BindingInv, AbsentUnbound, Linkable
    <2>6. BoundTo(r.event.id) = {}
        BY <2>1, <2>2 DEF BindingInv, AttachmentsBoundWhole, FreshEvent, BoundTo
    <2>7. BoundTo(r.event.id)' = r.event.files
        BY <2>1, <2>4, <2>6 DEF BoundTo
    <2>8. ASSUME NEW row \in EventRows
          PROVE  /\ BoundTo(row.req.event.id)' = row.req.event.files
                 /\ \A a \in row.req.event.files : attachments'[a].by = row.req.by
        <3>1. row.req.event.id # r.event.id BY <2>2 DEF FreshEvent
        <3>2. row.req.event.id # None
            BY RequestShape, EventShape, DeliveryAssumption
            DEF EventRows, BindingInv, LogInv, TypeOK
        <3>3. BoundTo(row.req.event.id)' = BoundTo(row.req.event.id)
            BY <2>2, <2>4, <3>1, <3>2 DEF BoundTo, Linkable
        <3>4. /\ BoundTo(row.req.event.id) = row.req.event.files
              /\ \A a \in row.req.event.files : attachments[a].by = row.req.by
            BY DEF BindingInv, AttachmentsBoundWhole
        <3>5. BoundTo(row.req.event.id) \subseteq Attachments BY DEF BoundTo
        <3> QED BY <2>4, <3>3, <3>4, <3>5
    <2>9. \A a \in r.event.files : attachments'[a].by = r.by
        BY <2>1, <2>2, <2>4 DEF Linkable
    <2>10. ASSUME NEW row \in EventRows'
           PROVE  /\ BoundTo(row.req.event.id)' = row.req.event.files
                  /\ \A a \in row.req.event.files : attachments'[a].by = row.req.by
        BY <2>1, <2>7, <2>8, <2>9
    <2>11. ASSUME NEW a \in Attachments, attachments'[a].event # None
           PROVE  \E row \in EventRows' : row.req.event.id = attachments'[a].event
        <3>1. CASE a \in r.event.files
            <4>1. new \in EventRows' /\ new.req.event.id = r.event.id BY <2>1
            <4> QED BY <2>4, <3>1, <4>1
        <3>2. CASE a \notin r.event.files
            BY <2>1, <2>4, <2>11, <3>2 DEF BindingInv, AttachmentsBoundWhole
        <3> QED BY <3>1, <3>2
    <2> QED BY <2>5, <2>10, <2>11 DEF AttachmentsBoundWhole
<1> QED BY <1>1, <1>2

LEMMA NextBinding == BindingInv /\ [Next]_vars => BindingInv'
<1> SUFFICES ASSUME BindingInv, [Next]_vars PROVE AbsentUnbound' /\ AttachmentsBoundWhole'
    BY NextLogInv DEF BindingInv
<1>1. ASSUME NEW r \in Requests, Submit(r) PROVE AbsentUnbound' /\ AttachmentsBoundWhole'
    BY <1>1, SubmitBinding
<1>2. ASSUME UNCHANGED deliveries,
             \A a \in Attachments :
               \/ /\ attachments'[a].event = attachments[a].event
                  /\ attachments'[a].by = attachments[a].by
               \/ attachments[a].event = None /\ attachments'[a].event = None
      PROVE  AbsentUnbound' /\ AttachmentsBoundWhole'
    <2>1. EventRows' = EventRows BY <1>2 DEF EventRows
    <2>2. \A row \in EventRows : row.req.event.id # None
        BY RequestShape, EventShape, DeliveryAssumption
        DEF EventRows, BindingInv, LogInv, TypeOK
    <2>3. AbsentUnbound' BY <1>2 DEF BindingInv, AbsentUnbound
    <2>4. ASSUME NEW row \in EventRows
          PROVE  /\ BoundTo(row.req.event.id)' = row.req.event.files
                 /\ \A a \in row.req.event.files : attachments'[a].by = row.req.by
        <3>1. BoundTo(row.req.event.id)' = BoundTo(row.req.event.id)
            BY <1>2, <2>2 DEF BoundTo
        <3>2. /\ BoundTo(row.req.event.id) = row.req.event.files
              /\ \A a \in row.req.event.files : attachments[a].by = row.req.by
            BY DEF BindingInv, AttachmentsBoundWhole
        <3>3. \A a \in row.req.event.files : a \in Attachments /\ attachments[a].event # None
            BY <2>2, <3>2 DEF BoundTo
        <3> QED BY <1>2, <3>1, <3>2, <3>3
    <2>5. \A a \in Attachments :
            attachments'[a].event # None =>
              \E row \in EventRows : row.req.event.id = attachments'[a].event
        BY <1>2 DEF BindingInv, AttachmentsBoundWhole
    <2> QED BY <2>1, <2>3, <2>4, <2>5 DEF AttachmentsBoundWhole
<1>3. attachments \in [Attachments ->
        [by : Devices \cup {None}, event : EventIds \cup {None}]]
    BY DEF BindingInv, LogInv, TypeOK
<1>4. ASSUME NEW d \in Devices, NEW a \in Attachments, Upload(d, a)
      PROVE  AbsentUnbound' /\ AttachmentsBoundWhole'
    <2>1. attachments[a].event = None BY <1>4 DEF BindingInv, AbsentUnbound, Upload
    <2>2. attachments'[a].event = None BY <1>3, <1>4, <2>1 DEF Upload
    <2>3. \A b \in Attachments : b # a => attachments'[b] = attachments[b]
        BY <1>3, <1>4 DEF Upload
    <2> QED BY <1>2, <1>4, <2>1, <2>2, <2>3 DEF Upload
<1>5. CASE UNCHANGED <<deliveries, attachments>>
    BY <1>2, <1>5
<1> QED
    BY <1>1, <1>4, <1>5
    DEF Next, vars, Initialize, Fetch, Acknowledge, Revoke, Ban, Unban

(***************************************************************************)
(* AttachmentsBoundWhole for every instance: an event is bound to exactly  *)
(* the ciphertexts it named, whatever is uploaded or submitted in between. *)
(***************************************************************************)
THEOREM BindingsWhole == Spec => []AttachmentsBoundWhole
<1>1. BindingInv => AttachmentsBoundWhole BY DEF BindingInv
<1> QED BY InitBinding, NextBinding, <1>1, PTL DEF Spec

------------------------------------------------------------------------------
(***************************************************************************)
(* RetriesReplay for every instance: the row of an accepted operation is   *)
(* the only one with its id (ExactlyOnce), and the attachments bound to    *)
(* its event are still the ones it names (AttachmentsBoundWhole).          *)
(***************************************************************************)
THEOREM RetriesAreReplayed == Spec => []RetriesReplay
<1>1. BindingInv => RetriesReplay
    <2> SUFFICES ASSUME BindingInv, NEW row \in deliveries,
                        Active(row.req.by), RecipientAllowed(row.req)
                 PROVE  Outcome(row.req) = "replayed"
        BY DEF RetriesReplay
    <2>1. Earlier(row.req) = {row}
        BY DEF Earlier, BindingInv, LogInv, ExactlyOnce
    <2>2. ASSUME row.req.event # None
          PROVE  BoundTo(row.req.event.id) = row.req.event.files
        <3>1. row \in EventRows
            BY <2>2, RequestShape DEF EventRows, BindingInv, LogInv, TypeOK
        <3> QED BY <3>1 DEF BindingInv, AttachmentsBoundWhole
    <2>3. SameOperation(row, row.req)
        BY <2>2 DEF SameOperation
    <2> QED BY <2>1, <2>3 DEF Outcome
<1> QED BY InitBinding, NextBinding, <1>1, PTL DEF Spec
------------------------------------------------------------------------------
(***************************************************************************)
(* The log of the delivery service implements CommitLog: every step of     *)
(* MlsDelivery is one Accept of the abstract log or leaves it as it is.    *)
(***************************************************************************)

(***************************************************************************)
(* The row at a sequence: there is exactly one for each sequence issued.   *)
(***************************************************************************)
LEMMA RowAtSequence ==
    ASSUME LogInv, NEW i \in 1 .. nextSequence - 1
    PROVE  /\ RowAt(i) \in deliveries
           /\ RowAt(i).seq = i
           /\ \A row \in deliveries : row.seq = i => row = RowAt(i)
<1>1. \E row \in deliveries : row.seq = i
    BY DEF LogInv, ExactlyOnce
<1> QED BY <1>1 DEF RowAt, LogInv, ExactlyOnce

(***************************************************************************)
(* The epoch counts the commits of the abstract log.                       *)
(***************************************************************************)
AbstractEpoch == epoch = Promise!CommitsOf(AbstractLog)

RefinementInv == LogInv /\ AbstractEpoch

LEMMA AbstractLogShape ==
    /\ DOMAIN AbstractLog = 1 .. nextSequence - 1
    /\ \A i \in 1 .. nextSequence - 1 : AbstractLog[i] = EntryOf(RowAt(i).req)
BY DEF AbstractLog

LEMMA EntryShape ==
    ASSUME NEW r \in Requests
    PROVE  EntryOf(r) \in Promise!Entries
BY RequestShape DEF EntryOf, Promise!Entries

LEMMA LogShape ==
    ASSUME LogInv
    PROVE  AbstractLog \in Seq(Promise!Entries) /\ Len(AbstractLog) = nextSequence - 1
<1>1. nextSequence - 1 \in Nat BY DEF LogInv, TypeOK
<1>2. \A i \in 1 .. nextSequence - 1 : EntryOf(RowAt(i).req) \in Promise!Entries
    BY RowAtSequence, EntryShape DEF LogInv, TypeOK
<1>3. AbstractLog \in [1 .. nextSequence - 1 -> Promise!Entries]
    BY <1>2 DEF AbstractLog
<1> QED BY <1>1, <1>3

LEMMA SubmitAppends ==
    ASSUME LogInv, NEW r \in Requests, Submit(r)
    PROVE  AbstractLog' = Append(AbstractLog, EntryOf(r))
<1> DEFINE new == [seq |-> nextSequence, req |-> r]
           At(i) == CHOOSE row \in deliveries' : row.seq = i
<1>1. /\ nextSequence \in Nat \ {0}
      /\ nextSequence' = nextSequence + 1
      /\ deliveries' = deliveries \cup {new}
      /\ \A row \in deliveries : row.seq # nextSequence
    BY SequencesIssued DEF LogInv, TypeOK, Submit
<1>2. AbstractLog' = [i \in 1 .. nextSequence |-> EntryOf(At(i).req)]
    BY <1>1 DEF AbstractLog, RowAt
<1>3. At(nextSequence) = new
    BY <1>1
<1>4. ASSUME NEW i \in 1 .. nextSequence - 1
      PROVE  At(i) = RowAt(i)
    <2>1. /\ RowAt(i) \in deliveries /\ RowAt(i).seq = i
          /\ \A row \in deliveries : row.seq = i => row = RowAt(i)
        BY RowAtSequence
    <2>2. \A row \in deliveries' : row.seq = i => row = RowAt(i)
        BY <1>1, <2>1
    <2>3. RowAt(i) \in deliveries' BY <1>1, <2>1
    <2> QED BY <2>1, <2>2, <2>3
<1>5. /\ AbstractLog \in Seq(Promise!Entries)
      /\ Len(AbstractLog) = nextSequence - 1
      /\ EntryOf(r) \in Promise!Entries
    BY <1>1, LogShape, EntryShape
<1> DEFINE longer == Append(AbstractLog, EntryOf(r))
<1>6. /\ longer \in Seq(Promise!Entries)
      /\ Len(longer) = nextSequence
      /\ \A i \in 1 .. nextSequence - 1 : longer[i] = AbstractLog[i]
      /\ longer[nextSequence] = EntryOf(r)
    BY <1>1, <1>5, AppendProperties
<1>7. longer = [i \in 1 .. nextSequence |-> longer[i]]
    BY <1>6, LenProperties
<1>8. new.req = r OBVIOUS
<1> HIDE DEF longer, At, new
<1>9. ASSUME NEW i \in 1 .. nextSequence PROVE EntryOf(At(i).req) = longer[i]
    <2>1. CASE i = nextSequence BY <1>3, <1>6, <1>8, <2>1
    <2>2. CASE i \in 1 .. nextSequence - 1
        BY <1>4, <1>6, <2>2, AbstractLogShape
    <2> QED BY <1>1, <2>1, <2>2
<1>10. AbstractLog' = longer BY <1>2, <1>7, <1>9
<1> QED BY <1>10 DEF longer

(***************************************************************************)
(* A submission is one Accept: its id is not in the log yet, and it was    *)
(* built on the commits that are.                                          *)
(***************************************************************************)
LEMMA SubmitAccepts ==
    ASSUME RefinementInv, NEW r \in Requests, Submit(r)
    PROVE  Promise!Accept(r.by, r.op, r.class = "commit")
<1>1. Earlier(r) = {} /\ EpochCurrent(r)
    BY AcceptedPassed DEF Submit
<1>2. BuiltIn(r) = epoch
    BY <1>1, RequestShape DEF EpochCurrent, BuiltIn
<1>3. EntryOf(r) = [by |-> r.by, op |-> r.op, commit |-> r.class = "commit",
                    basis |-> Promise!CommitsOf(AbstractLog)]
    BY <1>2 DEF EntryOf, RefinementInv, AbstractEpoch
<1>4. ~Promise!Holds(AbstractLog, r.by, r.op)
    <2> SUFFICES ASSUME NEW i \in 1 .. nextSequence - 1,
                        AbstractLog[i].by = r.by, AbstractLog[i].op = r.op
                 PROVE  FALSE
        BY AbstractLogShape DEF Promise!Holds
    <2>1. RowAt(i) \in deliveries /\ RowAt(i).req.by = r.by /\ RowAt(i).req.op = r.op
        BY AbstractLogShape, RowAtSequence DEF EntryOf, RefinementInv
    <2> QED BY <1>1, <2>1 DEF Earlier
<1>5. AbstractLog' = Append(AbstractLog, EntryOf(r))
    BY SubmitAppends DEF RefinementInv
<1> QED BY <1>3, <1>4, <1>5 DEF Promise!Accept

(***************************************************************************)
(* CommitLog counts with its own instance of FiniteSets.                   *)
(***************************************************************************)
LEMMA SameCardinality == \A S : Promise!Cardinality(S) = Cardinality(S)
BY Zenon DEF Promise!Cardinality, Cardinality

LEMMA SubmitAbstractEpoch ==
    ASSUME RefinementInv, NEW r \in Requests, Submit(r)
    PROVE  AbstractEpoch'
<1> DEFINE n == nextSequence
           Commits == {i \in 1 .. n - 1 : AbstractLog[i].commit}
           longer == Append(AbstractLog, EntryOf(r))
<1>1. /\ n \in Nat \ {0} /\ epoch \in Nat
      /\ EpochCurrent(r)
      /\ epoch' = IF r.class = "commit" THEN r.accepted ELSE epoch
    BY AcceptedPassed DEF RefinementInv, LogInv, TypeOK, Submit, EpochAfter
<1>2. /\ AbstractLog' = longer
      /\ longer \in Seq(Promise!Entries) /\ Len(longer) = n
      /\ \A i \in 1 .. n - 1 : longer[i] = AbstractLog[i]
      /\ longer[n] = EntryOf(r)
    <2>1. AbstractLog \in Seq(Promise!Entries) /\ Len(AbstractLog) = n - 1
        BY LogShape DEF RefinementInv
    <2>2. EntryOf(r) \in Promise!Entries BY EntryShape
    <2> QED BY <1>1, <2>1, <2>2, SubmitAppends, AppendProperties DEF RefinementInv
<1>3. epoch = Cardinality(Commits)
    <2>1. {i \in DOMAIN AbstractLog : AbstractLog[i].commit} = Commits
        BY AbstractLogShape
    <2> QED BY <2>1, SameCardinality DEF RefinementInv, AbstractEpoch, Promise!CommitsOf
<1>4. IsFiniteSet(Commits) /\ n \notin Commits
    <2>1. Commits \subseteq 1 .. n - 1 OBVIOUS
    <2>2. IsFiniteSet(1 .. n - 1) BY <1>1, FS_Interval
    <2>3. n \notin 1 .. n - 1 BY <1>1
    <2> HIDE DEF Commits
    <2> QED BY <2>1, <2>2, <2>3, FS_Subset
<1>5. Promise!CommitsOf(AbstractLog)' =
        Cardinality(IF r.class = "commit" THEN Commits \cup {n} ELSE Commits)
    <2>1. DOMAIN longer = 1 .. n BY <1>2, LenProperties
    <2>2. EntryOf(r).commit = (r.class = "commit") BY DEF EntryOf
    <2>3. {i \in DOMAIN longer : longer[i].commit} =
            IF r.class = "commit" THEN Commits \cup {n} ELSE Commits
        <3>1. \A i \in 1 .. n - 1 : longer[i].commit = AbstractLog[i].commit BY <1>2
        <3>2. longer[n].commit = (r.class = "commit") BY <1>2, <2>2
        <3>3. 1 .. n = 1 .. n - 1 \cup {n} /\ n \notin 1 .. n - 1 BY <1>1
        <3> HIDE DEF longer
        <3> QED BY <2>1, <3>1, <3>2, <3>3
    <2> QED BY <1>2, <2>3, SameCardinality DEF Promise!CommitsOf
<1>6. CASE r.class = "commit"
    <2>1. epoch' = epoch + 1 BY <1>1, <1>6 DEF EpochCurrent
    <2>2. Cardinality(Commits \cup {n}) = epoch + 1
        BY <1>3, <1>4, FS_AddElement
    <2> QED BY <1>5, <1>6, <2>1, <2>2 DEF AbstractEpoch
<1>7. CASE r.class # "commit"
    BY <1>1, <1>3, <1>5, <1>7 DEF AbstractEpoch
<1> QED BY <1>6, <1>7

LEMMA InitRefinement == Init => RefinementInv /\ Promise!Init
<1> SUFFICES ASSUME Init PROVE AbstractEpoch /\ Promise!Init
    BY InitLogInv DEF RefinementInv
<1>1. AbstractLog = << >> /\ epoch = 0 BY DEF Init, AbstractLog
<1>2. {i \in DOMAIN AbstractLog : AbstractLog[i].commit} = {} BY <1>1
<1>3. Promise!CommitsOf(AbstractLog) = 0 BY <1>2, SameCardinality, FS_EmptySet DEF Promise!CommitsOf
<1> QED BY <1>1, <1>3 DEF AbstractEpoch, Promise!Init

LEMMA NextRefinement ==
    RefinementInv /\ [Next]_vars => RefinementInv' /\ [Promise!Next]_AbstractLog
<1> SUFFICES ASSUME RefinementInv, [Next]_vars
             PROVE  AbstractEpoch' /\ [Promise!Next]_AbstractLog
    BY NextLogInv DEF RefinementInv
<1>1. ASSUME NEW r \in Requests, Submit(r)
      PROVE  AbstractEpoch' /\ [Promise!Next]_AbstractLog
    <2>1. r.by \in Devices /\ r.op \in Operations /\ (r.class = "commit") \in BOOLEAN
        BY RequestShape
    <2> QED BY <1>1, <2>1, SubmitAccepts, SubmitAbstractEpoch DEF Promise!Next
<1>2. CASE UNCHANGED <<epoch, nextSequence, deliveries>>
    <2>1. AbstractLog' = AbstractLog BY <1>2 DEF AbstractLog, RowAt
    <2>2. AbstractEpoch' BY <1>2, <2>1 DEF RefinementInv, AbstractEpoch, Promise!CommitsOf
    <2> QED BY <2>1, <2>2
<1>3. ASSUME NEW d \in Devices, Initialize(d)
      PROVE  UNCHANGED <<epoch, nextSequence, deliveries>>
    BY <1>3 DEF Initialize, RefinementInv, LogInv, Founded
<1> QED
    BY <1>1, <1>2, <1>3
    DEF Next, vars, Fetch, Acknowledge, Upload, Revoke, Ban, Unban

(***************************************************************************)
(* ImplementsCommitLog for every instance: whatever is retried, delayed    *)
(* or revoked, POST /mls/messages appends to a log in which an             *)
(* operation stands once and two commits built on the same commits never   *)
(* both stand.                                                             *)
(***************************************************************************)
THEOREM DeliveryImplementsCommitLog == Spec => ImplementsCommitLog
BY InitRefinement, NextRefinement, PTL DEF Spec, ImplementsCommitLog, Promise!Spec

------------------------------------------------------------------------------
(***************************************************************************)
(* KeyPackages: what holds of the inventory for any number of devices,     *)
(* packages and runs, and any limits.                                      *)
(***************************************************************************)
USE LimitsAssumption, NoneAssumption

(***************************************************************************)
(* The inductive invariant.  What a run is about to upload is saved, has   *)
(* no row yet and is of no other run; so a row of the current key of its   *)
(* device is of a saved KeyPackage, and its credential is listed; and what *)
(* was handed out is marked.                                               *)
(***************************************************************************)
BatchesSaved ==
    \A r \in Runs : runs[r] # None =>
        /\ runs[r].batch \subseteq private[runs[r].device]
        /\ \A p \in runs[r].batch : rows[p] = None
        /\ \A s \in Runs \ {r} :
             runs[s] # None => runs[r].batch \cap runs[s].batch = {}

RowsOpenable ==
    \A p \in Packages : rows[p] # None =>
        /\ rows[p].key <= key[rows[p].device]
        /\ rows[p].key = key[rows[p].device] => p \in private[rows[p].device]
        /\ <<rows[p].device, rows[p].key>> \in credentials

HandedMarked ==
    \A p \in Packages : handed[p] # {} =>
        /\ rows[p] # None /\ rows[p].claimed
        /\ \E c \in Devices : handed[p] = {c}

InventoryInv == InventoryTypeOK /\ BatchesSaved /\ RowsOpenable /\ HandedMarked

------------------------------------------------------------------------------
(***************************************************************************)
(* Sets of KeyPackages have a number of elements; compaction keeps a row   *)
(* except for its bytes and its mark.                                      *)
(***************************************************************************)
LEMMA CountsAreNumbers == \A S \in SUBSET Packages : Cardinality(S) \in Nat
BY FS_Subset, FS_CardinalityType

LEMMA CompactionKeeps ==
    ASSUME InventoryTypeOK
    PROVE  /\ Compacted \in [Packages -> Rows \cup {None}]
           /\ \A p \in Packages :
                /\ Compacted[p] = None <=> rows[p] = None
                /\ rows[p] # None =>
                     /\ Compacted[p].device = rows[p].device
                     /\ Compacted[p].key = rows[p].key
                     /\ rows[p].claimed => Compacted[p].claimed
                     /\ Compacted[p].bytes = ~Compacted[p].claimed
<1>1. ASSUME NEW p \in Packages, rows[p] = None
      PROVE  Compacted[p] = None
    BY <1>1 DEF Compacted
<1>2. ASSUME NEW p \in Packages, rows[p] # None
      PROVE  /\ Compacted[p] \in Rows
             /\ Compacted[p].device = rows[p].device
             /\ Compacted[p].key = rows[p].key
             /\ rows[p].claimed => Compacted[p].claimed
             /\ Compacted[p].bytes = ~Compacted[p].claimed
    <2>1. rows[p] \in Rows /\ rows[p].bytes = ~rows[p].claimed
        BY <1>2 DEF InventoryTypeOK
    <2>2. CASE rows[p].expires <= now
        <3>1. Compacted[p] = [rows[p] EXCEPT !.bytes = FALSE, !.claimed = TRUE]
            BY <1>2, <2>2 DEF Compacted
        <3> QED BY <2>1, <3>1 DEF Rows
    <2>3. CASE ~(rows[p].expires <= now)
        <3>1. Compacted[p] = rows[p]
            BY <1>2, <2>3 DEF Compacted
        <3> QED BY <2>1, <3>1
    <2> QED BY <2>2, <2>3
<1>3. Compacted = [p \in Packages |-> Compacted[p]]
    BY DEF Compacted
<1> QED BY <1>1, <1>2, <1>3 DEF Rows

(***************************************************************************)
(* A step that only compacts rows keeps what is said of them.              *)
(***************************************************************************)
LEMMA CompactionKeepsInv ==
    ASSUME InventoryInv, rows' = Compacted,
           UNCHANGED <<now, credentials, inactive, key, private, handed>>,
           runs' \in [Runs -> RunStates \cup {None}],
           \A r \in Runs : runs'[r] # None =>
              \/ runs'[r].batch = {}
              \/ runs[r] # None /\ runs'[r] = runs[r]
    PROVE  InventoryInv'
<1> USE CompactionKeeps DEF InventoryInv
<1>1. InventoryTypeOK'
    BY DEF InventoryTypeOK
<1>2. BatchesSaved'
    <2>1. \A r \in Runs : runs'[r] # None /\ runs'[r].batch # {} =>
            runs[r] # None /\ runs'[r] = runs[r]
        OBVIOUS
    <2>2. \A p \in Packages : rows[p] = None => rows'[p] = None
        OBVIOUS
    <2>3. \A r \in Runs : runs[r] # None => runs[r].batch \subseteq Packages
        BY DEF InventoryTypeOK, RunStates
    <2> QED BY <2>1, <2>2, <2>3 DEF BatchesSaved
<1>3. RowsOpenable'
    BY DEF RowsOpenable
<1>4. HandedMarked'
    BY DEF HandedMarked
<1> QED BY <1>1, <1>2, <1>3, <1>4

LEMMA InitInventory == InventoryInit => InventoryInv
BY DEF InventoryInit, InventoryInv, InventoryTypeOK, BatchesSaved, RowsOpenable,
       HandedMarked, RunStates

------------------------------------------------------------------------------
(***************************************************************************)
(* A run reads the inventory, saves what it generates, and uploads it.     *)
(***************************************************************************)
LEMMA ReadInventoryKeeps ==
    ASSUME InventoryInv, NEW r \in Runs, NEW d \in Devices, ReadInventory(r, d)
    PROVE  InventoryInv'
<1> DEFINE needed == Smaller(Target - Cardinality(Available(d)), PerRun)
<1>1. needed \in Int
    <2>1. Available(d) \in SUBSET Packages
        BY DEF Available, Of
    <2> QED BY <2>1, CountsAreNumbers DEF Smaller
<1>2. /\ runs' \in [Runs -> RunStates \cup {None}]
      /\ \A s \in Runs : runs'[s] # None =>
           runs'[s].batch = {} \/ (runs[s] # None /\ runs'[s] = runs[s])
    <2>1. CASE needed > 0
        <3>1. [device |-> d, needed |-> needed, batch |-> {}] \in RunStates
            BY <1>1, <2>1 DEF RunStates
        <3>2. runs' = [runs EXCEPT ![r] = [device |-> d, needed |-> needed, batch |-> {}]]
            BY <2>1 DEF ReadInventory
        <3> HIDE DEF needed
        <3> QED BY <3>1, <3>2 DEF InventoryInv, InventoryTypeOK
    <2>2. CASE ~(needed > 0)
        BY <2>2 DEF ReadInventory, InventoryInv, InventoryTypeOK
    <2> QED BY <2>1, <2>2
<1>3. rows' = Compacted /\ UNCHANGED <<now, credentials, inactive, key, private, handed>>
    BY DEF ReadInventory
<1> QED BY <1>2, <1>3, CompactionKeepsInv

LEMMA GenerateKeeps ==
    ASSUME InventoryInv, NEW r \in Runs, Generate(r)
    PROVE  InventoryInv'
<1> USE DEF InventoryInv
<1>1. PICK B \in Batches(runs[r].needed) :
        private' = Saved(runs[r].device, B) /\ runs' = [runs EXCEPT ![r].batch = B]
    BY DEF Generate
<1>2. /\ runs[r] # None /\ runs[r] \in RunStates
      /\ UNCHANGED <<now, rows, credentials, inactive, key, handed>>
    BY DEF Generate, InventoryTypeOK
<1>3. /\ B \in SUBSET Packages
      /\ \A p \in B : rows[p] = None
                      /\ \A s \in Runs : runs[s] # None => p \notin runs[s].batch
    BY <1>1 DEF Batches, Ungenerated
<1>4. /\ runs'[r] = [runs[r] EXCEPT !.batch = B]
      /\ \A s \in Runs \ {r} : runs'[s] = runs[s]
      /\ runs'[r] \in RunStates
      /\ runs'[r].device = runs[r].device /\ runs'[r].batch = B
      /\ runs' \in [Runs -> RunStates \cup {None}]
    BY <1>1, <1>2, <1>3 DEF InventoryTypeOK, RunStates
<1>5. /\ private' \in [Devices -> SUBSET Packages]
      /\ B \subseteq private'[runs[r].device]
      /\ \A d \in Devices : private[d] \subseteq private'[d]
    BY <1>1, <1>2, <1>3 DEF Saved, InventoryTypeOK, RunStates
<1>6. InventoryTypeOK'
    BY <1>2, <1>4, <1>5 DEF InventoryTypeOK
<1>7. BatchesSaved'
    <2>1. \A s \in Runs : runs'[s] # None => runs'[s].device \in Devices
        BY <1>4 DEF RunStates, NoneAssumption
    <2>2. ASSUME NEW s \in Runs, runs'[s] # None
          PROVE  /\ runs'[s].batch \subseteq private'[runs'[s].device]
                 /\ \A p \in runs'[s].batch : rows'[p] = None
        <3>1. CASE s = r
            BY <1>2, <1>3, <1>4, <1>5, <3>1
        <3>2. CASE s # r
            BY <1>2, <1>4, <1>5, <2>1, <2>2, <3>2 DEF BatchesSaved
        <3> QED BY <3>1, <3>2
    <2>3. ASSUME NEW s \in Runs, NEW t \in Runs \ {s}, runs'[s] # None, runs'[t] # None
          PROVE  runs'[s].batch \cap runs'[t].batch = {}
        <3>1. CASE s = r
            BY <1>3, <1>4, <2>3, <3>1
        <3>2. CASE t = r
            BY <1>3, <1>4, <2>3, <3>2
        <3>3. CASE s # r /\ t # r
            BY <1>4, <2>3, <3>3 DEF BatchesSaved
        <3> QED BY <3>1, <3>2, <3>3
    <2> QED BY <2>2, <2>3 DEF BatchesSaved
<1>8. RowsOpenable'
    <2>1. \A p \in Packages : rows[p] # None => rows[p].device \in Devices
        BY DEF InventoryTypeOK, Rows
    <2> QED BY <1>2, <1>5, <2>1 DEF RowsOpenable
<1>9. HandedMarked'
    BY <1>2 DEF HandedMarked
<1> QED BY <1>6, <1>7, <1>8, <1>9

\* A run goes on with nothing to upload, or it ends.
LEMMA RunMovesOn ==
    ASSUME InventoryTypeOK, NEW r \in Runs, runs[r] # None,
           After(r) \/ runs' = [runs EXCEPT ![r] = None]
    PROVE  /\ runs' \in [Runs -> RunStates \cup {None}]
           /\ \A s \in Runs \ {r} : runs'[s] = runs[s]
           /\ runs'[r] # None => runs'[r].batch = {}
<1>1. runs[r] \in RunStates /\ runs \in [Runs -> RunStates \cup {None}]
    BY DEF InventoryTypeOK
<1>2. CASE runs' = [runs EXCEPT ![r] = None]
    BY <1>1, <1>2
<1>3. CASE After(r)
    <2> DEFINE left == runs[r].needed - Cardinality(runs[r].batch)
    <2>1. left \in Int
        BY <1>1, CountsAreNumbers DEF RunStates
    <2>2. CASE left > 0
        <3>1. runs' = [runs EXCEPT ![r] =
                        [device |-> runs[r].device, needed |-> left, batch |-> {}]]
            BY <1>3, <2>2 DEF After
        <3>2. [device |-> runs[r].device, needed |-> left, batch |-> {}] \in RunStates
            BY <1>1, <2>1, <2>2 DEF RunStates
        <3> HIDE DEF left
        <3> QED BY <1>1, <3>1, <3>2
    <2>3. CASE ~(left > 0)
        <3>1. runs' = [runs EXCEPT ![r] = None]
            BY <1>3, <2>3 DEF After
        <3> QED BY <1>1, <3>1
    <2> QED BY <2>2, <2>3
<1> QED BY <1>2, <1>3

LEMMA RegisterKeeps ==
    ASSUME InventoryInv, NEW r \in Runs, Register(r)
    PROVE  InventoryInv'
<1> USE DEF InventoryInv
<1> DEFINE d == runs[r].device
           B == runs[r].batch
<1>1. /\ runs[r] # None /\ runs[r] \in RunStates /\ d \in Devices /\ B \in SUBSET Packages
      /\ UNCHANGED <<now, inactive, key, private, handed>>
    BY DEF Register, InventoryTypeOK, RunStates
<1>2. CASE ~Registrable(d, B)
    <2>1. /\ rows' = Compacted /\ credentials' = credentials
          /\ runs' = [runs EXCEPT ![r] = None]
        BY <1>2 DEF Register
    <2>2. /\ runs' \in [Runs -> RunStates \cup {None}]
          /\ \A s \in Runs : runs'[s] # None =>
               runs'[s].batch = {} \/ (runs[s] # None /\ runs'[s] = runs[s])
        BY <1>1, <2>1, RunMovesOn
    <2> QED BY <1>1, <2>1, <2>2, CompactionKeepsInv
<1>3. CASE Registrable(d, B)
    <2>1. /\ rows' = Registered(d, B)
          /\ credentials' = credentials \cup {<<d, key[d]>>}
          /\ After(r) \/ runs' = [runs EXCEPT ![r] = None]
        BY <1>3 DEF Register
    <2>2. /\ runs' \in [Runs -> RunStates \cup {None}]
          /\ \A s \in Runs \ {r} : runs'[s] = runs[s]
          /\ runs'[r] # None => runs'[r].batch = {}
        BY <1>1, <2>1, RunMovesOn
    <2>3. ASSUME NEW p \in B
          PROVE  /\ rows'[p] \in Rows /\ rows'[p] # None
                 /\ rows'[p].bytes = ~rows'[p].claimed
                 /\ rows'[p].device = d /\ rows'[p].key = key[d]
                 /\ rows[p] = None /\ handed[p] = {} /\ p \in private[d]
        <3>1. rows'[p] = [device |-> d, key |-> key[d], expires |-> now + Life,
                          bytes |-> TRUE, claimed |-> FALSE]
            BY <1>1, <2>1, <2>3 DEF Registered
        <3>2. rows'[p] \in Rows
            BY <1>1, <3>1 DEF Rows, InventoryTypeOK
        <3>3. rows[p] = None /\ p \in private[d]
            BY <1>1, <2>3 DEF BatchesSaved
        <3>4. handed[p] = {}
            BY <1>1, <2>3, <3>3 DEF HandedMarked
        <3>5. rows'[p] # None
            BY <3>2
        <3>6. /\ rows'[p].device = d /\ rows'[p].key = key[d]
              /\ rows'[p].bytes = TRUE /\ rows'[p].claimed = FALSE
            BY <3>1
        <3> QED BY <3>2, <3>3, <3>4, <3>5, <3>6
    <2>4. \A p \in Packages \ B : rows'[p] = Compacted[p]
        BY <2>1 DEF Registered
    <2>5. rows' \in [Packages -> Rows \cup {None}]
        <3>1. rows' = [p \in Packages |-> rows'[p]]
            BY <2>1 DEF Registered
        <3> QED BY <2>3, <2>4, <3>1, CompactionKeeps
    <2>6. InventoryTypeOK'
        <3>1. \A p \in Packages : rows'[p] # None => rows'[p].bytes = ~rows'[p].claimed
            BY <2>3, <2>4, CompactionKeeps
        <3>2. credentials' \subseteq Devices \X Nat
            BY <1>1, <2>1 DEF InventoryTypeOK
        <3> QED BY <1>1, <2>2, <2>5, <3>1, <3>2 DEF InventoryTypeOK
    <2>7. BatchesSaved'
        <3>1. ASSUME NEW s \in Runs, runs'[s] # None, runs'[s].batch # {}
              PROVE  s # r /\ runs'[s] = runs[s] /\ runs[s] # None
            BY <2>2, <3>1
        <3>2. ASSUME NEW s \in Runs, runs'[s] # None, NEW p \in runs'[s].batch
              PROVE  p \in private'[runs'[s].device] /\ rows'[p] = None
            <4>1. s # r /\ runs'[s] = runs[s] /\ runs[s] # None
                BY <3>1, <3>2
            <4>2. p \in Packages /\ rows[p] = None /\ p \in private[runs[s].device]
                BY <3>2, <4>1 DEF BatchesSaved, InventoryTypeOK, RunStates
            <4>3. p \notin B
                BY <1>1, <3>2, <4>1 DEF BatchesSaved
            <4> QED BY <1>1, <2>4, <4>1, <4>2, <4>3, CompactionKeeps
        <3>3. ASSUME NEW s \in Runs, NEW t \in Runs \ {s}, runs'[s] # None, runs'[t] # None
              PROVE  runs'[s].batch \cap runs'[t].batch = {}
            BY <3>1, <3>3 DEF BatchesSaved
        <3> QED BY <3>2, <3>3 DEF BatchesSaved
    <2>8. RowsOpenable'
        <3>1. ASSUME NEW p \in B
              PROVE  /\ rows'[p].key <= key'[rows'[p].device]
                     /\ p \in private'[rows'[p].device]
                     /\ <<rows'[p].device, rows'[p].key>> \in credentials'
            BY <1>1, <2>1, <2>3 DEF InventoryTypeOK
        <3>2. ASSUME NEW p \in Packages \ B, rows'[p] # None
              PROVE  /\ rows'[p].key <= key'[rows'[p].device]
                     /\ rows'[p].key = key'[rows'[p].device] => p \in private'[rows'[p].device]
                     /\ <<rows'[p].device, rows'[p].key>> \in credentials'
            <4>1. /\ rows[p] # None
                  /\ rows'[p].device = rows[p].device /\ rows'[p].key = rows[p].key
                BY <2>4, <3>2, CompactionKeeps
            <4> QED BY <1>1, <2>1, <4>1 DEF RowsOpenable
        <3> QED BY <3>1, <3>2 DEF RowsOpenable
    <2>9. HandedMarked'
        <3>1. ASSUME NEW p \in Packages, handed[p] # {}
              PROVE  rows'[p] # None /\ rows'[p].claimed
            <4>1. p \notin B
                BY <2>3, <3>1
            <4> QED BY <2>4, <3>1, <4>1, CompactionKeeps DEF HandedMarked
        <3> QED BY <1>1, <3>1 DEF HandedMarked
    <2> QED BY <2>6, <2>7, <2>8, <2>9
<1> QED BY <1>2, <1>3

LEMMA AbandonKeeps ==
    ASSUME InventoryInv, NEW r \in Runs, Abandon(r)
    PROVE  InventoryInv'
<1>1. /\ \A s \in Runs : runs'[s] = None \/ runs'[s] = runs[s]
      /\ runs' \in [Runs -> RunStates \cup {None}]
      /\ UNCHANGED <<now, rows, credentials, inactive, key, private, handed>>
    BY DEF Abandon, InventoryInv, InventoryTypeOK
<1> QED BY <1>1 DEF InventoryInv, InventoryTypeOK, BatchesSaved, RowsOpenable, HandedMarked

(***************************************************************************)
(* A device that lost its local state: no row has its new key.             *)
(***************************************************************************)
LEMMA ResetKeeps ==
    ASSUME InventoryInv, NEW d \in Devices, Reset(d)
    PROVE  InventoryInv'
<1> USE DEF InventoryInv
<1>1. /\ key' = [key EXCEPT ![d] = key[d] + 1]
      /\ private' = [private EXCEPT ![d] = {}]
      /\ \A s \in Runs : runs'[s] # None =>
           runs'[s] = runs[s] /\ runs[s] # None /\ runs[s].device # d
      /\ runs' \in [Runs -> RunStates \cup {None}]
      /\ UNCHANGED <<now, rows, credentials, inactive, handed>>
    BY DEF Reset, InventoryTypeOK
<1>2. InventoryTypeOK'
    BY <1>1 DEF InventoryTypeOK
<1>3. BatchesSaved'
    <2>1. \A s \in Runs : runs'[s] # None =>
            private'[runs'[s].device] = private[runs[s].device]
        BY <1>1 DEF InventoryTypeOK, RunStates
    <2> QED BY <1>1, <2>1 DEF BatchesSaved
<1>4. RowsOpenable'
    <2>1. ASSUME NEW p \in Packages, rows[p] # None
          PROVE  /\ rows[p].key <= key'[rows[p].device]
                 /\ rows[p].key = key'[rows[p].device] => p \in private'[rows[p].device]
        <3>1. rows[p].device \in Devices /\ rows[p].key \in Nat /\ key \in [Devices -> Nat]
              /\ private \in [Devices -> SUBSET Packages]
            BY <2>1 DEF InventoryTypeOK, Rows
        <3>2. /\ rows[p].key <= key[rows[p].device]
              /\ rows[p].key = key[rows[p].device] => p \in private[rows[p].device]
            BY <2>1 DEF RowsOpenable
        <3>3. CASE rows[p].device = d
            BY <1>1, <3>1, <3>2, <3>3
        <3>4. CASE rows[p].device # d
            BY <1>1, <3>1, <3>2, <3>4
        <3> QED BY <3>3, <3>4
    <2> QED BY <1>1, <2>1 DEF RowsOpenable
<1>5. HandedMarked'
    BY <1>1 DEF HandedMarked
<1> QED BY <1>2, <1>3, <1>4, <1>5

(***************************************************************************)
(* A claim marks the KeyPackage it hands out, which nobody was handed.     *)
(***************************************************************************)
LEMMA ClaimKeeps ==
    ASSUME InventoryInv, NEW c \in Devices, NEW t \in Devices, Claim(c, t)
    PROVE  InventoryInv'
<1> USE DEF InventoryInv
<1>1. UNCHANGED <<now, credentials, inactive, key, private, runs>>
    BY DEF Claim
<1>2. CASE Available(t) = {} /\ rows' = Compacted /\ UNCHANGED handed
    <2>1. runs' \in [Runs -> RunStates \cup {None}]
        BY <1>1 DEF InventoryTypeOK
    <2> QED BY <1>1, <1>2, <2>1, CompactionKeepsInv
<1>3. ASSUME NEW p \in Packages, First(t, p), rows' = Claimed(p),
             handed' = [handed EXCEPT ![p] = @ \cup {c}]
      PROVE  InventoryInv'
    <2>1. rows[p] # None /\ ~rows[p].claimed /\ handed[p] = {}
        BY <1>3 DEF First, Available, Of, HandedMarked
    <2>2. /\ \A q \in Packages \ {p} : rows'[q] = Compacted[q]
          /\ rows'[p] = [Compacted[p] EXCEPT !.claimed = TRUE, !.bytes = FALSE]
        BY <1>3, CompactionKeeps DEF Claimed
    <2>3. /\ Compacted[p] \in Rows
          /\ Compacted[p].device = rows[p].device /\ Compacted[p].key = rows[p].key
        BY <2>1, CompactionKeeps
    <2>4. /\ rows'[p] \in Rows
          /\ rows'[p].device = rows[p].device /\ rows'[p].key = rows[p].key
          /\ rows'[p].claimed = TRUE /\ rows'[p].bytes = FALSE
        BY <2>2, <2>3 DEF Rows
    <2>5. rows'[p] # None
        BY <2>4
    <2>6. rows' \in [Packages -> Rows \cup {None}]
        <3>1. rows' = [q \in Packages |-> rows'[q]]
            BY <1>3, CompactionKeeps DEF Claimed
        <3> QED BY <2>2, <2>4, <3>1, CompactionKeeps
    <2>7. /\ handed' \in [Packages -> SUBSET Devices]
          /\ handed'[p] = {c}
          /\ \A q \in Packages \ {p} : handed'[q] = handed[q]
        BY <1>3, <2>1 DEF InventoryTypeOK
    <2>8. ASSUME NEW q \in Packages
          PROVE  /\ rows'[q] = None <=> rows[q] = None
                 /\ rows[q] # None =>
                      /\ rows'[q].device = rows[q].device /\ rows'[q].key = rows[q].key
                      /\ rows[q].claimed => rows'[q].claimed
                      /\ rows'[q].bytes = ~rows'[q].claimed
        <3>1. CASE q = p
            BY <2>1, <2>4, <2>5, <3>1
        <3>2. CASE q # p
            BY <2>2, <3>2, CompactionKeeps
        <3> QED BY <3>1, <3>2
    <2>9. InventoryTypeOK'
        BY <1>1, <2>6, <2>7, <2>8 DEF InventoryTypeOK
    <2>10. BatchesSaved'
        <3>1. \A r \in Runs : runs[r] # None => runs[r].batch \subseteq Packages
            BY DEF InventoryTypeOK, RunStates
        <3> QED BY <1>1, <2>8, <3>1 DEF BatchesSaved
    <2>11. RowsOpenable'
        BY <1>1, <2>8 DEF RowsOpenable
    <2>12. HandedMarked'
        <3>1. ASSUME NEW q \in Packages, handed'[q] # {}
              PROVE  /\ rows'[q] # None /\ rows'[q].claimed
                     /\ \E e \in Devices : handed'[q] = {e}
            <4>1. CASE q = p
                BY <2>4, <2>5, <2>7, <4>1
            <4>2. CASE q # p
                BY <2>7, <2>8, <3>1, <4>2 DEF HandedMarked
            <4> QED BY <4>1, <4>2
        <3> QED BY <3>1 DEF HandedMarked
    <2> QED BY <2>9, <2>10, <2>11, <2>12
<1> QED BY <1>2, <1>3 DEF Claim, First, Available, Of

LEMMA EnvironmentKeeps ==
    ASSUME InventoryInv,
           \/ \E d \in Devices : Deactivate(d) \/ Reactivate(d)
           \/ Tick
           \/ UNCHANGED inventoryVars
    PROVE  InventoryInv'
<1>1. /\ UNCHANGED <<rows, credentials, key, private, runs, handed>>
      /\ now' \in Nat /\ inactive' \subseteq Devices
    BY DEF Deactivate, Reactivate, Tick, inventoryVars, InventoryInv, InventoryTypeOK
<1> QED BY <1>1 DEF InventoryInv, InventoryTypeOK, BatchesSaved, RowsOpenable, HandedMarked

------------------------------------------------------------------------------
(***************************************************************************)
(* The invariant holds in every state.                                     *)
(***************************************************************************)
THEOREM InventoryHolds == InventorySpec => []InventoryInv
<1>1. InventoryInv /\ [InventoryNext]_inventoryVars => InventoryInv'
    <2> SUFFICES ASSUME InventoryInv, [InventoryNext]_inventoryVars PROVE InventoryInv'
        OBVIOUS
    <2>1. ASSUME NEW r \in Runs, NEW d \in Devices, ReadInventory(r, d) PROVE InventoryInv'
        BY <2>1, ReadInventoryKeeps
    <2>2. ASSUME NEW r \in Runs, Generate(r) PROVE InventoryInv'
        BY <2>2, GenerateKeeps
    <2>3. ASSUME NEW r \in Runs, Register(r) PROVE InventoryInv'
        BY <2>3, RegisterKeeps
    <2>4. ASSUME NEW r \in Runs, Abandon(r) PROVE InventoryInv'
        BY <2>4, AbandonKeeps
    <2>5. ASSUME NEW d \in Devices, Reset(d) PROVE InventoryInv'
        BY <2>5, ResetKeeps
    <2>6. ASSUME NEW c \in Devices, NEW t \in Devices, Claim(c, t) PROVE InventoryInv'
        BY <2>6, ClaimKeeps
    <2>7. ASSUME \/ \E d \in Devices : Deactivate(d) \/ Reactivate(d)
                 \/ Tick
                 \/ UNCHANGED inventoryVars
          PROVE  InventoryInv'
        BY <2>7, EnvironmentKeeps
    <2> QED BY <2>1, <2>2, <2>3, <2>4, <2>5, <2>6, <2>7 DEF InventoryNext
<1> QED BY <1>1, InitInventory, PTL DEF InventorySpec

(***************************************************************************)
(* The types, and that what is offered has its bytes.                      *)
(***************************************************************************)
THEOREM InventoryTypes == InventorySpec => []InventoryTypeOK
<1>1. InventoryInv => InventoryTypeOK
    BY DEF InventoryInv
<1> QED BY <1>1, InventoryHolds, PTL

(***************************************************************************)
(* A device can open what is sealed with a KeyPackage of its current key   *)
(* that anybody was handed: private parts are saved before the upload.     *)
(***************************************************************************)
THEOREM HandedPackagesOpen == InventorySpec => []HandedCanBeOpened
<1>1. InventoryInv => HandedCanBeOpened
    BY DEF InventoryInv, HandedCanBeOpened, HandedMarked, RowsOpenable
<1> QED BY <1>1, InventoryHolds, PTL

(***************************************************************************)
(* A KeyPackage is handed to one device, once, and belongs to a credential *)
(* that the directory lists.                                               *)
(***************************************************************************)
THEOREM PackagesHandedOnce == InventorySpec => []HandedOnce
<1>1. ASSUME InventoryInv, NEW p \in Packages, handed[p] # {}
      PROVE  \E entry \in Directory : entry.device = rows[p].device
                                      /\ entry.key = rows[p].key
    <2>1. <<rows[p].device, rows[p].key>> \in credentials
        BY <1>1 DEF InventoryInv, HandedMarked, RowsOpenable
    <2> DEFINE entry == [device |-> rows[p].device, key |-> rows[p].key,
                         active |-> rows[p].device \notin inactive]
    <2>2. entry \in Directory
        BY <2>1 DEF Directory
    <2> QED BY <2>2
<1>2. InventoryInv => HandedOnce
    BY <1>1 DEF InventoryInv, HandedOnce, HandedMarked
<1> QED BY <1>2, InventoryHolds, PTL
=============================================================================

----------------------- MODULE HistoryRecovery_proofs -----------------------
(***************************************************************************)
(* Proofs about the devices that share and recover a history, for any      *)
(* number of devices, transfers and failures: a retry is never mistaken    *)
(* for another transfer, and what the relay drops as consumed is in the    *)
(* history of its destination.                                             *)
(***************************************************************************)
EXTENDS HistoryRecovery, FiniteSetTheorems, TLAPS

USE RecoveryAssumption, NoneAssumption

(***************************************************************************)
(* The relay.  A step keeps a transfer's source, destination and manifest, *)
(* and only a request to consume it makes it consumed.                     *)
(***************************************************************************)
RelayTypes ==
    /\ transfers \in [Seals -> Relay!Rows \cup {None}]
    /\ overdue \subseteq Seals
    /\ arriving \subseteq Relay!Uploads
    /\ keyed \subseteq Devices

Follows(r, s) ==
    \/ s = r
    \/ /\ r # None /\ s # None
       /\ s.from = r.from /\ s.to = r.to /\ s.manifest = r.manifest
       /\ s.state = "consumed" => r.state = "consumed"

RelayKeeps ==
    RelayTypes' /\ \A t \in Seals : Follows(transfers[t], transfers'[t])

RelayCreates(d, e) ==
    /\ RelayTypes'
    /\ transfers[e.t] = None
    /\ transfers'[e.t] \in Relay!Rows
    /\ transfers'[e.t].from = d /\ transfers'[e.t].to = e.to
    /\ transfers'[e.t].manifest = e.manifest /\ transfers'[e.t].state = "uploading"
    /\ \A t \in Seals \ {e.t} : Follows(transfers[t], transfers'[t])

RelayConsumes(d, u) ==
    /\ RelayTypes'
    /\ transfers[u] \in Relay!Rows /\ transfers'[u] \in Relay!Rows
    /\ transfers'[u].from = transfers[u].from
    /\ transfers[u].to = d /\ transfers'[u].to = d
    /\ transfers'[u].manifest = transfers[u].manifest
    /\ \A t \in Seals \ {u} : Follows(transfers[t], transfers'[t])

LEMMA RowFacts ==
    ASSUME NEW r \in Relay!Rows
    PROVE  r # None /\ r.from \in Devices /\ r.to \in Devices /\ r.manifest \in Seals
BY DEF Relay!Rows

LEMMA RowSet ==
    ASSUME NEW r \in Relay!Rows,
           NEW s \in {"uploading", "ready", "consumed", "canceled", "expired"},
           NEW q, q = [r EXCEPT !.state = s]
    PROVE  /\ q \in Relay!Rows /\ q # None
           /\ q.from = r.from /\ q.to = r.to /\ q.manifest = r.manifest
           /\ q.state = s
<1>1. q \in Relay!Rows /\ q.from = r.from /\ q.to = r.to /\ q.manifest = r.manifest /\ q.state = s
    BY DEF Relay!Rows, Relay!InProgress, Relay!Closings
<1> QED  BY <1>1

LEMMA SweptFollows ==
    ASSUME RelayTypes
    PROVE  /\ Relay!Swept \in [Seals -> Relay!Rows \cup {None}]
           /\ \A t \in Seals :
                /\ Follows(transfers[t], Relay!Swept[t])
                /\ Relay!Swept[t] = None <=> transfers[t] = None
<1>1. ASSUME NEW t \in Seals
      PROVE  /\ Relay!Swept[t] \in Relay!Rows \cup {None}
             /\ Follows(transfers[t], Relay!Swept[t])
             /\ Relay!Swept[t] = None <=> transfers[t] = None
    <2>1. CASE t \notin Relay!Lapsed
        <3>1. Relay!Swept[t] = transfers[t]
            BY <2>1 DEF Relay!Swept, Relay!Closed
        <3> QED  BY <3>1 DEF RelayTypes, Follows
    <2>2. CASE t \in Relay!Lapsed
        <3>1. Relay!Swept[t] = [transfers[t] EXCEPT !.state = "expired"]
            BY <2>2 DEF Relay!Swept, Relay!Closed
        <3>2. transfers[t] \in Relay!Rows
            BY <2>2 DEF RelayTypes, Relay!Lapsed, Relay!Live
        <3> DEFINE q == Relay!Swept[t]
        <3> HIDE DEF q
        <3>3. /\ q \in Relay!Rows /\ q # None
              /\ q.from = transfers[t].from /\ q.to = transfers[t].to
              /\ q.manifest = transfers[t].manifest /\ q.state = "expired"
            <4>1. q = [transfers[t] EXCEPT !.state = "expired"]  BY <3>1 DEF q
            <4> QED  BY <3>2, <4>1, RowSet
        <3> QED  BY <3>2, <3>3 DEF Follows, q
    <2> QED  BY <2>1, <2>2
<1>2. Relay!Swept = [t \in Seals |-> Relay!Swept[t]]
    BY DEF Relay!Swept, Relay!Closed
<1> QED  BY <1>1, <1>2

(***************************************************************************)
(* A transfer that is in a state after the sweep is the one before, in     *)
(* what counts here, and it is not None.                                   *)
(***************************************************************************)
LEMMA InStateFacts ==
    ASSUME RelayTypes, NEW t \in Seals, NEW s, Relay!InState(t, s)
    PROVE  /\ transfers[t] \in Relay!Rows /\ Relay!Swept[t] \in Relay!Rows
           /\ Relay!Swept[t].from = transfers[t].from
           /\ Relay!Swept[t].to = transfers[t].to
           /\ Relay!Swept[t].manifest = transfers[t].manifest
<1>1. Relay!Swept[t] # None  BY DEF Relay!InState
<1> QED  BY <1>1, SweptFollows DEF RelayTypes, Follows

LEMMA SweepKeeps ==
    ASSUME RelayTypes, transfers' = Relay!Swept, overdue' \subseteq Seals,
           arriving' \subseteq Relay!Uploads, keyed' \subseteq Devices
    PROVE  RelayKeeps
BY SweptFollows DEF RelayKeeps, RelayTypes

LEMMA SameRows ==
    ASSUME RelayTypes, UNCHANGED transfers, overdue' \subseteq Seals,
           arriving' \subseteq Relay!Uploads, keyed' \subseteq Devices
    PROVE  RelayKeeps
BY DEF RelayKeeps, RelayTypes, Follows

(***************************************************************************)
(* A handler that changes one row after the sweep.                         *)
(***************************************************************************)
LEMMA SweptAndSet ==
    ASSUME RelayTypes, NEW u \in Seals, NEW r \in Relay!Rows,
           transfers' = [Relay!Swept EXCEPT ![u] = r], overdue' = {},
           UNCHANGED <<arriving, keyed>>
    PROVE  /\ RelayTypes' /\ transfers'[u] = r
           /\ \A t \in Seals \ {u} : Follows(transfers[t], transfers'[t])
BY SweptFollows DEF RelayTypes

LEMMA CreateEffect ==
    ASSUME RelayTypes, NEW d \in Devices, NEW e \in Entries,
           Relay!Create(d, e.t, Channel, e.to, e.manifest)
    PROVE  RelayCreates(d, e)
<1> DEFINE r == [channel |-> Channel, from |-> d, to |-> e.to, manifest |-> e.manifest,
                 state |-> "uploading", chunks |-> 0, bytes |-> 0]
<1>1. e.t \in Seals /\ e.to \in Devices /\ e.manifest \in Seals
    BY DEF Entries
<1>2. r \in Relay!Rows
    BY <1>1 DEF Relay!Rows, Relay!InProgress
<1>3. transfers' = [Relay!Swept EXCEPT ![e.t] = r] /\ overdue' = {}
      /\ UNCHANGED <<arriving, keyed>>
    BY DEF Relay!Create
<1>4. transfers[e.t] = None
    BY <1>1, SweptFollows DEF Relay!Create, Relay!Creatable
<1> HIDE DEF r
<1>5. /\ RelayTypes' /\ transfers'[e.t] = r
      /\ \A t \in Seals \ {e.t} : Follows(transfers[t], transfers'[t])
    BY <1>1, <1>2, <1>3, SweptAndSet
<1>6. r.from = d /\ r.to = e.to /\ r.manifest = e.manifest /\ r.state = "uploading"
    BY DEF r
<1> QED  BY <1>2, <1>4, <1>5, <1>6 DEF RelayCreates

LEMMA StateSet ==
    ASSUME RelayTypes, NEW u \in Seals, NEW was, Relay!InState(u, was),
           NEW s \in {"ready", "consumed", "canceled"},
           transfers' = [Relay!Swept EXCEPT ![u].state = s], overdue' = {},
           UNCHANGED <<arriving, keyed>>
    PROVE  /\ RelayTypes'
           /\ transfers[u] \in Relay!Rows /\ transfers'[u] \in Relay!Rows
           /\ transfers'[u].from = transfers[u].from
           /\ transfers'[u].to = transfers[u].to
           /\ transfers'[u].manifest = transfers[u].manifest
           /\ transfers'[u].state = s
           /\ \A t \in Seals \ {u} : Follows(transfers[t], transfers'[t])
<1> DEFINE r == [Relay!Swept[u] EXCEPT !.state = s]
<1>1. /\ transfers[u] \in Relay!Rows /\ Relay!Swept[u] \in Relay!Rows
      /\ Relay!Swept[u].from = transfers[u].from
      /\ Relay!Swept[u].to = transfers[u].to
      /\ Relay!Swept[u].manifest = transfers[u].manifest
    BY InStateFacts
<1>2. /\ r \in Relay!Rows /\ r.from = transfers[u].from /\ r.to = transfers[u].to
      /\ r.manifest = transfers[u].manifest /\ r.state = s
    BY <1>1, RowSet
<1>3. transfers' = [Relay!Swept EXCEPT ![u] = r]
    BY SweptFollows
<1> HIDE DEF r
<1> QED  BY <1>1, <1>2, <1>3, SweptAndSet

LEMMA FinalizeEffect ==
    ASSUME RelayTypes, NEW d \in Devices, NEW u \in Seals, Relay!Finalize(d, u)
    PROVE  RelayKeeps
<1>1. /\ Relay!InState(u, "uploading") /\ overdue' = {} /\ UNCHANGED <<arriving, keyed>>
      /\ transfers' = [Relay!Swept EXCEPT ![u].state = "ready"]
    BY DEF Relay!Finalize, Relay!Finalizable
<1>2. /\ RelayTypes' /\ transfers[u] \in Relay!Rows /\ transfers'[u] \in Relay!Rows
      /\ Follows(transfers[u], transfers'[u])
      /\ \A t \in Seals \ {u} : Follows(transfers[t], transfers'[t])
    <2>1. /\ RelayTypes' /\ transfers[u] \in Relay!Rows /\ transfers'[u] \in Relay!Rows
          /\ transfers'[u].from = transfers[u].from
          /\ transfers'[u].to = transfers[u].to
          /\ transfers'[u].manifest = transfers[u].manifest
          /\ transfers'[u].state = "ready"
          /\ \A t \in Seals \ {u} : Follows(transfers[t], transfers'[t])
        BY <1>1, StateSet
    <2>2. transfers[u] # None /\ transfers'[u] # None
        BY <2>1, RowFacts
    <2>3. Follows(transfers[u], transfers'[u])
        BY <2>1, <2>2 DEF Follows
    <2> QED  BY <2>1, <2>3
<1> QED  BY <1>2 DEF RelayKeeps

LEMMA CancelEffect ==
    ASSUME RelayTypes, NEW d \in Devices, NEW u \in Seals, Relay!Cancel(d, u)
    PROVE  RelayKeeps
<1>1. /\ Relay!InState(u, "uploading") /\ overdue' = {} /\ UNCHANGED <<arriving, keyed>>
      /\ transfers' = [Relay!Swept EXCEPT ![u].state = "canceled"]
    BY DEF Relay!Cancel, Relay!Cancelable
<1>2. /\ RelayTypes' /\ transfers[u] \in Relay!Rows /\ transfers'[u] \in Relay!Rows
      /\ Follows(transfers[u], transfers'[u])
      /\ \A t \in Seals \ {u} : Follows(transfers[t], transfers'[t])
    <2>1. /\ RelayTypes' /\ transfers[u] \in Relay!Rows /\ transfers'[u] \in Relay!Rows
          /\ transfers'[u].from = transfers[u].from
          /\ transfers'[u].to = transfers[u].to
          /\ transfers'[u].manifest = transfers[u].manifest
          /\ transfers'[u].state = "canceled"
          /\ \A t \in Seals \ {u} : Follows(transfers[t], transfers'[t])
        BY <1>1, StateSet
    <2>2. transfers[u] # None /\ transfers'[u] # None
        BY <2>1, RowFacts
    <2>3. Follows(transfers[u], transfers'[u])
        BY <2>1, <2>2 DEF Follows
    <2> QED  BY <2>1, <2>3
<1> QED  BY <1>2 DEF RelayKeeps

LEMMA ConsumeEffect ==
    ASSUME RelayTypes, NEW d \in Devices, NEW u \in Seals, Relay!Consume(d, u)
    PROVE  RelayConsumes(d, u)
<1>1. /\ Relay!InState(u, "ready") /\ overdue' = {} /\ UNCHANGED <<arriving, keyed>>
      /\ transfers' = [Relay!Swept EXCEPT ![u].state = "consumed"]
      /\ Relay!Swept[u].to = d
    BY DEF Relay!Consume, Relay!Consumable
<1>2. transfers[u].to = d
    BY <1>1, InStateFacts
<1> QED  BY <1>1, <1>2, StateSet DEF RelayConsumes

LEMMA StoreEffect ==
    ASSUME RelayTypes, NEW u \in Relay!Uploads, Relay!Store(u)
    PROVE  RelayKeeps
<1>1. /\ u.of \in Seals /\ u.body \in Bodies /\ overdue' = {}
      /\ arriving' \subseteq Relay!Uploads /\ UNCHANGED keyed
    BY DEF Relay!Store, Relay!Uploads, RelayTypes
<1>2. CASE ~Relay!Storable(u)
    <2>1. transfers' = Relay!Swept
        BY <1>2 DEF Relay!Store
    <2> QED  BY <1>1, <2>1, SweepKeeps DEF RelayTypes
<1>3. CASE Relay!Storable(u)
    <2> DEFINE was == Relay!Swept[u.of]
               r == [was EXCEPT !.chunks = @ + 1, !.bytes = @ + UnitSize[u.body]]
    <2>1. /\ transfers[u.of] \in Relay!Rows /\ was \in Relay!Rows
          /\ was.from = transfers[u.of].from /\ was.to = transfers[u.of].to
          /\ was.manifest = transfers[u.of].manifest /\ was.state = "uploading"
        BY <1>1, <1>3, InStateFacts DEF Relay!Storable, Relay!InState
    <2>2. transfers' = [Relay!Swept EXCEPT ![u.of].chunks = @ + 1,
                                           ![u.of].bytes = @ + UnitSize[u.body]]
        BY <1>3 DEF Relay!Store
    <2>3. UnitSize[u.body] \in Nat
        BY <1>1 DEF UnitSize
    <2>4. /\ r \in Relay!Rows /\ r.from = was.from /\ r.to = was.to
          /\ r.manifest = was.manifest /\ r.state = "uploading"
        <3> DEFINE c == was.chunks + 1
                   b == was.bytes + UnitSize[u.body]
        <3>1. c \in Nat /\ b \in Nat
            BY <2>1, <2>3 DEF Relay!Rows
        <3>2. r = [was EXCEPT !.chunks = c, !.bytes = b]
            OBVIOUS
        <3> HIDE DEF was, r, c, b
        <3> QED  BY <2>1, <3>1, <3>2 DEF Relay!Rows
    <2>5. transfers'[u.of] = r /\ \A t \in Seals \ {u.of} : transfers'[t] = Relay!Swept[t]
        BY <1>1, <2>1, <2>2, SweptFollows DEF Relay!Rows
    <2>6. DOMAIN transfers' = Seals /\ transfers' = [t \in Seals |-> transfers'[t]]
        BY <2>2, SweptFollows
    <2> HIDE DEF was, r
    <2>7. transfers' \in [Seals -> Relay!Rows \cup {None}]
        BY <2>4, <2>5, <2>6, SweptFollows
    <2>8. Follows(transfers[u.of], transfers'[u.of])
        BY <2>1, <2>4, <2>5, RowFacts DEF Follows
    <2>9. \A t \in Seals : Follows(transfers[t], transfers'[t])
        BY <2>5, <2>8, SweptFollows
    <2> QED  BY <1>1, <2>7, <2>9 DEF RelayKeeps, RelayTypes
<1> QED  BY <1>2, <1>3

LEMMA CancelActiveEffect ==
    ASSUME RelayTypes, NEW S \in SUBSET Seals, \A t \in S : Relay!Live(t),
           Relay!CancelActive(S), UNCHANGED <<arriving, keyed>>
    PROVE  RelayKeeps
<1>1. ASSUME NEW t \in Seals
      PROVE  transfers'[t] \in Relay!Rows \cup {None} /\ Follows(transfers[t], transfers'[t])
    <2>1. CASE t \notin S
        BY <2>1 DEF Relay!CancelActive, Relay!Closed, RelayTypes, Follows
    <2>2. CASE t \in S
        <3> DEFINE q == transfers'[t]
        <3>1. q = [transfers[t] EXCEPT !.state = "canceled"]
            BY <2>2 DEF Relay!CancelActive, Relay!Closed
        <3>2. transfers[t] \in Relay!Rows
            BY <2>2 DEF Relay!Live, RelayTypes
        <3> HIDE DEF q
        <3>3. /\ q \in Relay!Rows /\ q # None
              /\ q.from = transfers[t].from /\ q.to = transfers[t].to
              /\ q.manifest = transfers[t].manifest /\ q.state = "canceled"
            BY <3>1, <3>2, RowSet
        <3> QED  BY <3>2, <3>3, RowFacts DEF Follows, q
    <2> QED  BY <2>1, <2>2
<1>2. transfers' = [t \in Seals |-> transfers'[t]] /\ overdue' \subseteq Seals
    BY DEF Relay!CancelActive, Relay!Closed, RelayTypes
<1>3. transfers' \in [Seals -> Relay!Rows \cup {None}]
    BY <1>1, <1>2
<1> QED  BY <1>1, <1>2, <1>3 DEF RelayKeeps, RelayTypes

LEMMA GlanceEffect == RelayTypes /\ Glance => RelayKeeps
BY SweepKeeps, SameRows DEF Glance, relay, Relay!Sweep, RelayTypes

(***************************************************************************)
(* What a request to the relay does, applied or not.                       *)
(***************************************************************************)
LEMMA HandleEffect ==
    ASSUME RelayTypes, NEW kind, NEW d \in Devices, NEW e \in Entries,
           Handle(Request(kind, d, e))
    PROVE  \/ RelayKeeps
           \/ kind = "create" /\ RelayCreates(d, e)
           \/ kind = "consume" /\ RelayConsumes(d, e.t)
<1> DEFINE q == Request(kind, d, e)
<1>1. q.kind = kind /\ q.by = d /\ q.entry = e /\ e.t \in Seals
    BY DEF Request, Entries
<1> HIDE DEF q
<1>2. Handle(q)  BY DEF q
<1>3. CASE ~Applies(q)
    BY <1>2, <1>3, GlanceEffect DEF Handle
<1>4. CASE Applies(q)
    <2>1. kind \in {"create", "finalize", "cancel", "consume"}
        BY <1>1, <1>4 DEF Applies
    <2>2. CASE kind = "create"
        BY <1>1, <1>2, <1>4, <2>2, CreateEffect DEF Handle
    <2>3. CASE kind = "finalize"
        BY <1>1, <1>2, <1>4, <2>3, FinalizeEffect DEF Handle
    <2>4. CASE kind = "cancel"
        BY <1>1, <1>2, <1>4, <2>4, CancelEffect DEF Handle
    <2>5. CASE kind = "consume"
        BY <1>1, <1>2, <1>4, <2>5, ConsumeEffect DEF Handle
    <2> QED  BY <2>1, <2>2, <2>3, <2>4, <2>5
<1> QED  BY <1>3, <1>4

LEMMA KeyRegisteredEffect ==
    ASSUME RelayTypes, NEW d \in Devices, KeyRegistered(d)
    PROVE  RelayKeeps
BY SameRows DEF KeyRegistered, relay, Relay!Register, RelayTypes

LEMMA ElsewhereEffect == RelayTypes /\ Elsewhere => RelayKeeps
<1> SUFFICES ASSUME RelayTypes, Elsewhere PROVE RelayKeeps
    OBVIOUS
<1>1. ASSUME NEW t \in Seals, Relay!PassDeadline(t) PROVE RelayKeeps
    BY <1>1, SameRows DEF Relay!PassDeadline, RelayTypes
<1>2. ASSUME NEW d \in Devices, Relay!Revoke(d) PROVE RelayKeeps
    <2>1. \A t \in Relay!Involving(d) : Relay!Live(t) /\ t \in Seals
        BY DEF Relay!Involving
    <2> QED  BY <1>2, <2>1, CancelActiveEffect DEF Relay!Revoke
<1>3. CASE Relay!Ban
    BY <1>3, CancelActiveEffect DEF Relay!Ban
<1>4. CASE Relay!Unban
    BY <1>4, SameRows DEF Relay!Unban, RelayTypes
<1>5. CASE Relay!Sweep
    BY <1>5, SweepKeeps DEF Relay!Sweep, RelayTypes
<1> QED  BY <1>1, <1>2, <1>3, <1>4, <1>5 DEF Elsewhere

------------------------------------------------------------------------------
(***************************************************************************)
(* The devices.                                                            *)
(***************************************************************************)
Steps == Uploading \cup {"register", "keys", "list", "cancel", "download", "merge",
                         "save", "consume", "write", "clear", "erase"}

Jobs == {"share", "refresh", "stop", "receive"}

Plain == [job : Jobs, at : Steps]

Choosing == [job : Jobs, at : Steps, to : Devices]

Holding == [job : Jobs, at : Steps, entry : Entries]

Sending == [job : Jobs, at : Steps, entry : Entries, index : 0 .. ChunksOf - 1]

Merging == [job : Jobs, at : Steps, entry : Entries, merged : Histories]

Activities == {Idle} \cup Plain \cup Choosing \cup Holding \cup Sending \cup Merging

Views ==
    [phase : Phases, keys : SUBSET Devices, retry : Devices \cup {None},
     receive : BOOLEAN, found : Seals \cup {None}, shared : BOOLEAN]

Stores == [disk : Histories, memory : Histories]

Requests == [kind : {"create", "finalize", "cancel", "consume"}, by : Devices,
             entry : Entries]

(***************************************************************************)
(* dest says for whom each transfer was sealed.  An entry that d made:     *)
(***************************************************************************)
Made(d, e, dest) ==
    /\ e \in Entries
    /\ e.t[1] = d /\ e.t[2] \in 1 .. tries[d] /\ d \in Keepers
    /\ e.manifest = e.t
    /\ e.to = dest[e.t] /\ e.to # d

Offered(d, t) == t \in Seals /\ transfers[t] # None /\ transfers[t].to = d

\* What the device has merged, but for what the storing of a message overlapped.
Has(d) == store[d].disk.records \cup overlapped[d]

Merged(d, t) == t \in Has(d)

RowOK(t, dest) ==
    transfers[t] # None =>
        /\ transfers[t].from = t[1] /\ t[2] \in 1 .. tries[t[1]] /\ t[1] \in Keepers
        /\ transfers[t].manifest = t
        /\ transfers[t].to = dest[t] /\ dest[t] # t[1]
        /\ transfers[t].state = "consumed" => Merged(transfers[t].to, t)

OwnSteps == Uploading \cup {"clear", "cancel", "erase"}

(***************************************************************************)
(* A merge that is being written has all that the memory has, as a message *)
(* stored meanwhile adds no transfer to it, and it has its transfer.       *)
(***************************************************************************)
SaveOK(d, a) ==
    /\ a.entry.t \in a.merged.records
    /\ store[d].memory.records \subseteq a.merged.records
    /\ a.merged.records \subseteq store[d].memory.records \cup {a.entry.t} \cup overlapped[d]
    /\ store[d].memory.receipts \subseteq a.merged.receipts
    /\ a.merged.receipts \subseteq a.merged.records \cup overlapped[d]

ActivityOK(d, k, a, dest) ==
    /\ a \in Activities
    /\ a.at = "write" =>
         /\ a \in Choosing /\ a.to # d /\ d \in Keepers
         /\ k = "user" /\ tries[d] < MaxTries
    /\ a.at \in OwnSteps => a \in Holding \cup Sending /\ Made(d, a.entry, dest)
    /\ a.at \in {"chunk", "sent"} => a \in Sending
    /\ a.at \in {"download", "merge"} => a \in Sending
    /\ a.at = "save" => a \in Merging /\ SaveOK(d, a)
    /\ a.at \in {"download", "merge", "save", "consume"} =>
         /\ a \in Holding \cup Sending \cup Merging
         /\ Offered(d, a.entry.t)
         /\ k = "user"
    /\ a.at = "consume" => Merged(d, a.entry.t)

ViewOK(d, v) ==
    /\ v \in Views
    /\ v.found # None => Offered(d, v.found)
    /\ v.phase = "recovered" => Has(d) # {}

(***************************************************************************)
(* Memory and disk have the same records, and no receipt is lost.  What a  *)
(* message is being stored with lacks only merges that ended meanwhile.    *)
(***************************************************************************)
StoreOK(d) ==
    /\ store[d].disk.records = store[d].memory.records
    /\ store[d].disk.receipts \subseteq store[d].memory.receipts
    /\ store[d].memory.receipts \subseteq Has(d)
    /\ saving[d] # None =>
         /\ saving[d].receipts \subseteq store[d].memory.receipts
         /\ saving[d].records \subseteq store[d].memory.records
         /\ store[d].memory.records \subseteq saving[d].records \cup overlapped[d]

RequestOK(q, dest) ==
    /\ q.kind = "create" => Made(q.by, q.entry, dest)
    /\ q.kind = "consume" => Merged(q.by, q.entry.t)

TriesOK == tries \in [Devices -> 0 .. MaxTries]

OutboxesOK(dest) ==
    /\ outbox \in [Devices -> Entries \cup {None}]
    /\ \A d \in Devices : outbox[d] # None => Made(d, outbox[d], dest)

StoresOK ==
    /\ store \in [Devices -> Stores]
    /\ saving \in [Devices -> Histories \cup {None}]
    /\ overlapped \in [Devices -> SUBSET Seals]
    /\ \A d \in Devices : StoreOK(d)

ViewsOK == view \in [Devices -> Views] /\ \A d \in Devices : ViewOK(d, view[d])

ActivitiesOK(dest) ==
    /\ activity \in [Devices -> [Kinds -> Activities]]
    /\ \A d \in Devices, k \in Kinds : ActivityOK(d, k, activity[d][k], dest)

LateOK(dest) == late \subseteq Requests /\ \A q \in late : RequestOK(q, dest)

RowsOK(dest) == \A t \in Seals : RowOK(t, dest)

Inv(dest) ==
    /\ dest \in [Seals -> Devices]
    /\ RelayTypes
    /\ TriesOK
    /\ OutboxesOK(dest)
    /\ StoresOK
    /\ ViewsOK
    /\ ActivitiesOK(dest)
    /\ LateOK(dest)
    /\ RowsOK(dest)

(***************************************************************************)
(* What grows, and what is therefore kept.                                 *)
(***************************************************************************)
Grown ==
    /\ \A d \in Devices : tries[d] <= tries'[d]
    /\ \A t \in Seals : transfers[t] # None =>
         /\ transfers'[t] # None
         /\ transfers'[t].from = transfers[t].from
         /\ transfers'[t].to = transfers[t].to
         /\ transfers'[t].manifest = transfers[t].manifest
    /\ \A d \in Devices : Has(d) \subseteq Has(d)'

LEMMA MadeGrows ==
    ASSUME Grown, TriesOK, TriesOK', NEW d \in Devices, NEW e, NEW dest, Made(d, e, dest)
    PROVE  Made(d, e, dest)'
<1>1. tries[d] \in Nat /\ tries'[d] \in Nat /\ tries[d] <= tries'[d]
    BY DEF Grown, TriesOK
<1> QED  BY <1>1 DEF Made, Seals, Entries

LEMMA OfferedGrows ==
    ASSUME Grown, NEW d, NEW t, Offered(d, t) PROVE Offered(d, t)'
BY DEF Grown, Offered

LEMMA MergedGrows ==
    ASSUME Grown, NEW d \in Devices, NEW t, Merged(d, t) PROVE Merged(d, t)'
BY DEF Grown, Merged

LEMMA ActivityGrows ==
    ASSUME Grown, TriesOK, TriesOK', NEW d \in Devices, NEW k, NEW a, NEW dest,
           ActivityOK(d, k, a, dest), a.at = "write" => tries'[d] = tries[d],
           a.at = "save" => SaveOK(d, a)'
    PROVE  ActivityOK(d, k, a, dest)'
BY MadeGrows, OfferedGrows, MergedGrows DEF ActivityOK

LEMMA ViewGrows ==
    ASSUME Grown, NEW d \in Devices, NEW v, ViewOK(d, v)
    PROVE  ViewOK(d, v)'
BY OfferedGrows DEF ViewOK, Grown

LEMMA OutboxesGrow ==
    ASSUME NEW dest, Inv(dest), Grown, TriesOK', UNCHANGED outbox
    PROVE  OutboxesOK(dest)'
BY MadeGrows DEF Inv, OutboxesOK

LEMMA ViewsGrow ==
    ASSUME NEW dest, Inv(dest), Grown,
           \/ UNCHANGED view
           \/ \E d \in Devices, v \in Views :
                view' = [view EXCEPT ![d] = v] /\ ViewOK(d, v)'
    PROVE  ViewsOK'
<1>1. ASSUME NEW d \in Devices PROVE ViewOK(d, view[d])'
    BY ViewGrows DEF Inv, ViewsOK
<1>2. CASE UNCHANGED view
    BY <1>1, <1>2 DEF Inv, ViewsOK
<1>3. ASSUME NEW d \in Devices, NEW v \in Views,
             view' = [view EXCEPT ![d] = v], ViewOK(d, v)'
      PROVE  ViewsOK'
    BY <1>1, <1>3, ViewGrows DEF Inv, ViewsOK
<1> QED  BY <1>2, <1>3

LEMMA ActivitiesGrow ==
    ASSUME NEW dest, Inv(dest), Grown, TriesOK',
           \A d \in Devices, k \in Kinds : activity[d][k].at = "write" =>
               tries'[d] = tries[d] \/ activity'[d][k] # activity[d][k],
           \A d \in Devices, k \in Kinds : activity[d][k].at = "save" =>
               SaveOK(d, activity[d][k])' \/ activity'[d][k] # activity[d][k],
           \/ UNCHANGED activity
           \/ \E d \in Devices, k \in Kinds, a \in Activities :
                Goes(d, k, a) /\ ActivityOK(d, k, a, dest)'
    PROVE  ActivitiesOK(dest)'
<1>1. ASSUME NEW d \in Devices, NEW k \in Kinds
      PROVE  ActivityOK(d, k, activity[d][k], dest)'
               \/ activity'[d][k] # activity[d][k]
    BY ActivityGrows DEF Inv, ActivitiesOK
<1>2. CASE UNCHANGED activity
    BY <1>1, <1>2 DEF Inv, ActivitiesOK
<1>3. ASSUME NEW d \in Devices, NEW k \in Kinds, NEW a \in Activities,
             Goes(d, k, a), ActivityOK(d, k, a, dest)'
      PROVE  ActivitiesOK(dest)'
    <2>1. activity \in [Devices -> [Kinds -> Activities]]
        BY DEF Inv, ActivitiesOK
    <2>2. activity' \in [Devices -> [Kinds -> Activities]]
        BY <1>3, <2>1 DEF Goes
    <2>3. activity'[d][k] = a
        BY <1>3, <2>1 DEF Goes
    <2>4. ASSUME NEW c \in Devices, NEW j \in Kinds
          PROVE  ActivityOK(c, j, activity[c][j], dest)'
        <3>1. CASE c = d /\ j = k
            BY <1>3, <2>3, <3>1
        <3>2. CASE ~(c = d /\ j = k)
            <4>1. activity'[c][j] = activity[c][j]
                BY <1>3, <2>1, <3>2 DEF Goes
            <4> QED  BY <1>1, <4>1
        <3> QED  BY <3>1, <3>2
    <2> QED  BY <2>2, <2>4 DEF ActivitiesOK
<1> QED  BY <1>2, <1>3

LEMMA SavesStay ==
    ASSUME NEW dest, Inv(dest), UNCHANGED <<store, overlapped>>
    PROVE  \A d \in Devices, k \in Kinds : activity[d][k].at = "save" =>
               SaveOK(d, activity[d][k])' \/ activity'[d][k] # activity[d][k]
<1> SUFFICES ASSUME NEW d \in Devices, NEW k \in Kinds, activity[d][k].at = "save",
                    activity'[d][k] = activity[d][k]
             PROVE  SaveOK(d, activity[d][k])'
    OBVIOUS
<1>1. SaveOK(d, activity[d][k])
    BY DEF Inv, ActivitiesOK, ActivityOK
<1> QED  BY <1>1 DEF SaveOK

LEMMA LateGrows ==
    ASSUME NEW dest, Inv(dest), Grown, TriesOK', late' \subseteq late
    PROVE  LateOK(dest)'
<1>1. ASSUME NEW q \in late PROVE RequestOK(q, dest)'
    <2>1. q \in Requests /\ q.by \in Devices /\ RequestOK(q, dest)
        BY DEF Inv, LateOK, Requests
    <2> QED  BY <2>1, MadeGrows, MergedGrows DEF RequestOK, Inv
<1> QED  BY <1>1 DEF Inv, LateOK

(***************************************************************************)
(* The effects of the relay on the rows.                                   *)
(***************************************************************************)
Effect(dest) ==
    \/ RelayKeeps
    \/ \E d \in Devices, e \in Entries : Made(d, e, dest) /\ RelayCreates(d, e)
    \/ \E d \in Devices, t \in Seals : Merged(d, t) /\ RelayConsumes(d, t)

RowsPersist ==
    \A t \in Seals : transfers[t] # None =>
        /\ transfers'[t] # None
        /\ transfers'[t].from = transfers[t].from
        /\ transfers'[t].to = transfers[t].to
        /\ transfers'[t].manifest = transfers[t].manifest

LEMMA EffectPersists ==
    ASSUME NEW dest, Effect(dest)
    PROVE  RowsPersist /\ RelayTypes'
<1>1. CASE RelayKeeps
    BY <1>1 DEF RelayKeeps, RowsPersist, Follows
<1>2. ASSUME NEW d \in Devices, NEW e \in Entries, RelayCreates(d, e)
      PROVE  RowsPersist /\ RelayTypes'
    <2>1. \A t \in Seals \ {e.t} : Follows(transfers[t], transfers'[t])
        BY <1>2 DEF RelayCreates
    <2> QED  BY <1>2, <2>1 DEF RelayCreates, RowsPersist, Follows
<1>3. ASSUME NEW d \in Devices, NEW u \in Seals, RelayConsumes(d, u)
      PROVE  RowsPersist /\ RelayTypes'
    <2>1. \A t \in Seals \ {u} : Follows(transfers[t], transfers'[t])
        BY <1>3 DEF RelayConsumes
    <2>2. transfers'[u] # None
        BY <1>3, RowFacts DEF RelayConsumes
    <2> QED  BY <1>3, <2>1, <2>2 DEF RelayConsumes, RowsPersist, Follows
<1> QED  BY <1>1, <1>2, <1>3 DEF Effect

LEMMA FollowedRow ==
    ASSUME NEW dest, Inv(dest), Grown, TriesOK', NEW t \in Seals,
           Follows(transfers[t], transfers'[t])
    PROVE  RowOK(t, dest)'
<1>1. CASE transfers[t] = None
    BY <1>1 DEF Follows, RowOK
<1>2. CASE transfers[t] # None
    <2>1. RowOK(t, dest) /\ t[1] \in Devices /\ transfers[t].to \in Devices
        BY <1>2, RowFacts DEF Inv, RowsOK, Seals, RelayTypes
    <2>2. /\ transfers'[t].from = transfers[t].from
          /\ transfers'[t].to = transfers[t].to
          /\ transfers'[t].manifest = transfers[t].manifest
          /\ transfers'[t].state = "consumed" => transfers[t].state = "consumed"
        BY <1>2 DEF Follows
    <2>3. t[2] \in 1 .. tries'[t[1]]
        <3>1. tries[t[1]] \in Nat /\ tries'[t[1]] \in Nat /\ tries[t[1]] <= tries'[t[1]]
            BY <2>1 DEF Grown, TriesOK, Inv
        <3> QED  BY <1>2, <2>1, <3>1 DEF RowOK
    <2>4. Merged(transfers[t].to, t) => Merged(transfers[t].to, t)'
        <3>1. ASSUME NEW d \in Devices PROVE Merged(d, t) => t \in Has(d)'
            BY DEF Merged, Grown
        <3> QED  BY <2>1, <2>2, <3>1 DEF Merged
    <2>5. transfers'[t].state = "consumed" => Merged(transfers[t].to, t)'
        BY <1>2, <2>1, <2>2, <2>4 DEF RowOK
    <2> QED  BY <1>2, <2>1, <2>2, <2>3, <2>5 DEF RowOK
<1> QED  BY <1>1, <1>2

LEMMA EffectOnRows ==
    ASSUME NEW dest, Inv(dest), Grown, TriesOK', Effect(dest)
    PROVE  RowsOK(dest)'
<1>1. CASE RelayKeeps
    BY <1>1, FollowedRow DEF RelayKeeps, RowsOK
<1>2. ASSUME NEW d \in Devices, NEW e \in Entries, Made(d, e, dest), RelayCreates(d, e)
      PROVE  RowsOK(dest)'
    <2>1. \A t \in Seals \ {e.t} : RowOK(t, dest)'
        BY <1>2, FollowedRow DEF RelayCreates
    <2>2. Made(d, e, dest)'
        BY <1>2, MadeGrows DEF Inv
    <2>3. RowOK(e.t, dest)'
        BY <1>2, <2>2 DEF RelayCreates, RowOK, Made
    <2> QED  BY <2>1, <2>3 DEF RowsOK
<1>3. ASSUME NEW d \in Devices, NEW u \in Seals, Merged(d, u), RelayConsumes(d, u)
      PROVE  RowsOK(dest)'
    <2>1. \A t \in Seals \ {u} : RowOK(t, dest)'
        BY <1>3, FollowedRow DEF RelayConsumes
    <2>2. /\ transfers[u] # None /\ transfers'[u].from = transfers[u].from
          /\ transfers'[u].to = transfers[u].to /\ transfers'[u].to = d
          /\ transfers'[u].manifest = transfers[u].manifest
        BY <1>3, RowFacts DEF RelayConsumes
    <2>3. RowOK(u, dest) /\ u[1] \in Devices
        BY DEF Inv, RowsOK, Seals
    <2>4. u[2] \in 1 .. tries'[u[1]]
        <3>1. tries[u[1]] \in Nat /\ tries'[u[1]] \in Nat /\ tries[u[1]] <= tries'[u[1]]
            BY <2>3 DEF Grown, TriesOK, Inv
        <3> QED  BY <2>2, <2>3, <3>1 DEF RowOK
    <2>5. u \in Has(d)'
        BY <1>3 DEF Merged, Grown
    <2>6. Merged(transfers[u].to, u)'
        BY <2>2, <2>5 DEF Merged
    <2> HIDE <1>3
    <2>7. RowOK(u, dest)'
        BY <2>2, <2>3, <2>4, <2>6 DEF RowOK
    <2> QED  BY <2>1, <2>7 DEF RowsOK
<1> QED  BY <1>1, <1>2, <1>3 DEF Effect

(***************************************************************************)
(* Most steps are a request to the relay, if any, and what the controller  *)
(* of one device makes of the answer.                                      *)
(***************************************************************************)
LEMMA ControllerStep ==
    ASSUME NEW dest, Inv(dest), Effect(dest),
           UNCHANGED <<outbox, store, saving, overlapped, tries>>, late' \subseteq late,
           \/ UNCHANGED view
           \/ \E d \in Devices, v \in Views :
                view' = [view EXCEPT ![d] = v] /\ ViewOK(d, v),
           \/ UNCHANGED activity
           \/ \E d \in Devices, k \in Kinds, a \in Activities :
                Goes(d, k, a) /\ ActivityOK(d, k, a, dest)
    PROVE  Inv(dest)'
<1>1. TriesOK' /\ RelayTypes'
    BY EffectPersists DEF Inv, TriesOK
<1>2. Grown
    BY EffectPersists DEF Inv, TriesOK, Grown, RowsPersist, Has
<1>3. ViewsOK'
    <2>1. \A d \in Devices : \A v \in Views : ViewOK(d, v) => ViewOK(d, v)'
        BY <1>2, ViewGrows
    <2> QED  BY <1>2, <2>1, ViewsGrow
<1>4. ActivitiesOK(dest)'
    <2>1. \A d \in Devices : \A a : SaveOK(d, a) => SaveOK(d, a)'
        BY DEF SaveOK
    <2>2. \A d \in Devices, k \in Kinds : \A a \in Activities :
            ActivityOK(d, k, a, dest) => ActivityOK(d, k, a, dest)'
        <3>1. ASSUME NEW d \in Devices, NEW k \in Kinds, NEW a \in Activities,
                     ActivityOK(d, k, a, dest)
              PROVE  ActivityOK(d, k, a, dest)'
            <4>1. a.at = "save" => SaveOK(d, a)'
                BY <2>1, <3>1 DEF ActivityOK
            <4> QED  BY <1>1, <1>2, <3>1, <4>1, ActivityGrows DEF Inv
        <3> QED  BY <3>1
    <2> QED  BY <1>1, <1>2, <2>2, SavesStay, ActivitiesGrow
<1>5. StoresOK'
    BY DEF Inv, StoresOK, StoreOK, Has
<1>6. OutboxesOK(dest)' /\ LateOK(dest)' /\ RowsOK(dest)'
    BY <1>1, <1>2, OutboxesGrow, LateGrows, EffectOnRows
<1>7. dest \in [Seals -> Devices]
    BY DEF Inv
<1> QED  BY <1>1, <1>3, <1>4, <1>5, <1>6, <1>7 DEF Inv

------------------------------------------------------------------------------
(***************************************************************************)
(* Activities, step by step.                                               *)
(***************************************************************************)
LEMMA Moved ==
    ASSUME NEW a \in Activities, a # Idle, NEW at \in Steps, NEW b, b = [a EXCEPT !.at = at]
    PROVE  /\ b \in Activities /\ b.at = at /\ b.job = a.job
           /\ a \in Holding => b \in Holding /\ b.entry = a.entry
           /\ a \in Sending => b \in Sending /\ b.entry = a.entry /\ b.index = a.index
<1>1. CASE a \in Plain
    BY <1>1 DEF Activities, Plain, Holding, Sending
<1>2. CASE a \in Choosing
    BY <1>2 DEF Activities, Choosing, Holding, Sending
<1>3. CASE a \in Holding
    BY <1>3 DEF Activities, Holding, Sending
<1>4. CASE a \in Sending
    BY <1>4 DEF Activities, Holding, Sending
<1>5. CASE a \in Merging
    BY <1>5 DEF Activities, Holding, Sending, Merging
<1> QED  BY <1>1, <1>2, <1>3, <1>4, <1>5 DEF Activities

LEMMA IdleOK ==
    ASSUME NEW d, NEW k, NEW dest PROVE Idle \in Activities /\ ActivityOK(d, k, Idle, dest)
BY DEF Idle, Activities, ActivityOK, OwnSteps, Uploading

\* What is known of an activity that is not idle.
LEMMA Busy ==
    ASSUME NEW dest, Inv(dest), NEW d \in Devices, NEW k \in Kinds
    PROVE  /\ activity[d][k] \in Activities
           /\ ActivityOK(d, k, activity[d][k], dest)
           /\ activity[d][k].at # "idle" =>
                activity[d][k] # Idle /\ activity[d][k].job \in Jobs /\ activity[d][k].at \in Steps
<1>1. activity[d][k] \in Activities /\ ActivityOK(d, k, activity[d][k], dest)
    BY DEF Inv, ActivitiesOK
<1>2. ASSUME NEW a \in Activities, a.at # "idle"
      PROVE  a # Idle /\ a.job \in Jobs /\ a.at \in Steps
    BY <1>2 DEF Activities, Idle, Plain, Choosing, Holding, Sending, Merging
<1> QED  BY <1>1, <1>2

LEMMA ViewFacts ==
    ASSUME NEW dest, Inv(dest), NEW d \in Devices
    PROVE  view[d] \in Views /\ ViewOK(d, view[d])
BY DEF Inv, ViewsOK

LEMMA Shown ==
    ASSUME NEW dest, Inv(dest), NEW d \in Devices, NEW p \in Phases,
           p = "recovered" => p = view[d].phase
    PROVE  LET v == [view[d] EXCEPT !.phase = p] IN v \in Views /\ ViewOK(d, v)
<1> DEFINE v == [view[d] EXCEPT !.phase = p]
<1>1. view[d] \in Views /\ ViewOK(d, view[d])
    BY ViewFacts
<1>2. v \in Views /\ v.found = view[d].found /\ v.phase = p
    BY <1>1 DEF Views
<1> QED  BY <1>1, <1>2 DEF ViewOK

LEMMA Thrown ==
    ASSUME NEW dest, Inv(dest), NEW d \in Devices, NEW k \in Kinds,
           activity[d][k].at # "idle", Throw(d, k)
    PROVE  /\ \E v \in Views : view' = [view EXCEPT ![d] = v] /\ ViewOK(d, v)
           /\ \E a \in Activities : Goes(d, k, a) /\ ActivityOK(d, k, a, dest)
<1>1. PICK p \in PhasesAfterThrow(d, k) : Shows(d, p)
    BY DEF Throw
<1>2. view[d] \in Views  BY ViewFacts
<1>3. activity[d][k].job \in Jobs  BY Busy
<1>4. p \in Phases /\ (p = "recovered" => p = view[d].phase)
    BY <1>1, <1>2, <1>3 DEF PhasesAfterThrow, Jobs, Views, Phases
<1> DEFINE v == [view[d] EXCEPT !.phase = p]
<1>5. v \in Views /\ ViewOK(d, v)
    BY <1>4, Shown
<1>6. view' = [view EXCEPT ![d] = v]
    BY <1>1 DEF Shows
<1> QED  BY <1>5, <1>6, IdleOK DEF Throw

------------------------------------------------------------------------------
(***************************************************************************)
(* The refresh.                                                            *)
(***************************************************************************)
LEMMA RefreshKeeps ==
    ASSUME NEW dest, Inv(dest), NEW d \in Devices, Refresh(d)
    PROVE  Inv(dest)'
<1>1. RelayTypes /\ "background" \in Kinds /\ UNCHANGED <<outbox, store, saving, overlapped, tries, late>>
    BY DEF Inv, Kinds, Refresh
<1>2. CASE KeyRegistered(d) /\ UNCHANGED view
             /\ Goes(d, "background", [job |-> "refresh", at |-> "keys"])
    <2> DEFINE a == [job |-> "refresh", at |-> "keys"]
    <2>1. a \in Activities /\ ActivityOK(d, "background", a, dest)
        BY DEF ActivityOK, Activities, Plain, Jobs, Steps, OwnSteps, Uploading
    <2>2. Effect(dest)
        BY <1>1, <1>2, KeyRegisteredEffect DEF Effect
    <2> HIDE DEF a
    <2>3. Goes(d, "background", a)  BY <1>2 DEF a
    <2> QED  BY <1>1, <1>2, <2>1, <2>2, <2>3, ControllerStep
<1>3. ASSUME NEW p \in {"failed", view[d].phase}, Shows(d, p), UNCHANGED <<relay, activity>>
      PROVE  Inv(dest)'
    <2> DEFINE v == [view[d] EXCEPT !.phase = p]
    <2>1. v \in Views /\ ViewOK(d, v)
        <3>1. p \in Phases
            BY ViewFacts DEF Views, Phases
        <3> QED  BY <3>1, Shown
    <2>2. view' = [view EXCEPT ![d] = v]
        BY <1>3 DEF Shows
    <2>3. Effect(dest)
        BY <1>1, <1>3, SameRows DEF Effect, relay, RelayTypes
    <2> QED  BY <1>1, <1>3, <2>1, <2>2, <2>3, ControllerStep
<1> QED  BY <1>2, <1>3 DEF Refresh

LEMMA RegisterKeyKeeps ==
    ASSUME NEW dest, Inv(dest), NEW d \in Devices, NEW k \in Kinds, RegisterKey(d, k)
    PROVE  Inv(dest)'
<1>1. RelayTypes /\ UNCHANGED <<outbox, store, saving, overlapped, tries, late, view>>
      /\ activity[d][k].at = "register" /\ KeyRegistered(d)
    BY DEF Inv, RegisterKey, Running
<1> DEFINE a == [activity[d][k] EXCEPT !.at = "keys"]
<1>2. a \in Activities /\ ActivityOK(d, k, a, dest)
    <2>1. activity[d][k] \in Activities /\ activity[d][k] # Idle
        BY <1>1, Busy
    <2>2. a \in Activities /\ a.at = "keys"
        BY <2>1, Moved DEF Steps
    <2> QED  BY <2>2 DEF ActivityOK, OwnSteps, Uploading
<1>3. Goes(d, k, a)
    BY DEF RegisterKey, Moves
<1>4. Effect(dest)
    BY <1>1, KeyRegisteredEffect DEF Effect
<1> QED  BY <1>1, <1>2, <1>3, <1>4, ControllerStep

LEMMA FetchKeysKeeps ==
    ASSUME NEW dest, Inv(dest), NEW d \in Devices, NEW k \in Kinds, FetchKeys(d, k)
    PROVE  Inv(dest)'
<1> DEFINE keys == keyed \ revoked
           Keyed(p) == [view[d] EXCEPT !.keys = keys, !.phase = p]
<1>1. /\ RelayTypes /\ UNCHANGED <<outbox, store, saving, overlapped, tries, late>>
      /\ activity[d][k].at = "keys" /\ ResumePending(d, k, keys) /\ keys \subseteq Devices
    BY DEF Inv, FetchKeys, Running, RelayTypes
<1>2. Effect(dest)
    BY <1>1, SameRows DEF FetchKeys, Effect, relay, RelayTypes
<1>3. /\ activity[d][k] \in Activities /\ activity[d][k] # Idle
      /\ activity[d][k].job \in Jobs
    BY <1>1, Busy
<1>4. view[d] \in Views /\ ViewOK(d, view[d]) /\ view[d].phase \in Phases
    BY ViewFacts DEF Views
<1>5. ASSUME NEW p \in Phases, p = "recovered" => p = view[d].phase
      PROVE  Keyed(p) \in Views /\ ViewOK(d, Keyed(p))
    <2>1. Keyed(p) \in Views /\ Keyed(p).found = view[d].found /\ Keyed(p).phase = p
        BY <1>1, <1>4 DEF Views
    <2> HIDE DEF Keyed
    <2> QED  BY <1>4, <1>5, <2>1 DEF ViewOK
<1> HIDE DEF keys
<1>6. CASE outbox[d] = None
    <2> DEFINE a == [activity[d][k] EXCEPT !.at = "list"]
    <2>1. a \in Activities /\ ActivityOK(d, k, a, dest)
        <3>1. a \in Activities /\ a.at = "list"
            <4>1. "list" \in Steps
                BY DEF Steps
            <4>2. \A b : b = a => b \in Activities /\ b.at = "list"
                BY <1>3, <4>1, Moved
            <4> QED  BY <4>2
        <3> QED  BY <3>1 DEF ActivityOK, OwnSteps, Uploading
    <2>2. Goes(d, k, a)
        BY <1>1, <1>6 DEF ResumePending, Moves
    <2>3. Keyed(view[d].phase) \in Views /\ ViewOK(d, Keyed(view[d].phase))
        BY <1>4, <1>5
    <2>4. view' = [view EXCEPT ![d] = Keyed(view[d].phase)]
        BY <1>1, <1>4, <1>6 DEF ResumePending, Views
    <2> QED  BY <1>1, <1>2, <2>1, <2>2, <2>3, <2>4, ControllerStep
<1>7. CASE outbox[d] # None /\ outbox[d].to \in keys
    <2> DEFINE a == [job |-> activity[d][k].job, at |-> "create", entry |-> outbox[d]]
    <2>1. outbox[d] \in Entries /\ Made(d, outbox[d], dest)
        BY <1>7 DEF Inv, OutboxesOK
    <2>2. a \in Holding
        BY <1>3, <2>1 DEF Holding, Steps, Uploading
    <2>3. a \in Activities /\ ActivityOK(d, k, a, dest)
        BY <2>1, <2>2 DEF ActivityOK, Activities
    <2>4. Goes(d, k, a)
        BY <1>1, <1>7 DEF ResumePending
    <2>5. Keyed("transferring") \in Views /\ ViewOK(d, Keyed("transferring"))
        BY <1>5 DEF Phases
    <2>6. view' = [view EXCEPT ![d] = Keyed("transferring")]
        BY <1>1, <1>7 DEF ResumePending
    <2> HIDE DEF a
    <2> QED  BY <1>1, <1>2, <2>3, <2>4, <2>5, <2>6, ControllerStep
<1>8. CASE outbox[d] # None /\ outbox[d].to \notin keys
    <2>1. PICK p \in PhasesAfterThrow(d, k) :
            view' = [view EXCEPT ![d].keys = keys, ![d].phase = p]
        BY <1>1, <1>8 DEF ResumePending
    <2>2. p \in Phases /\ (p = "recovered" => p = view[d].phase)
        BY <1>3, <1>4, <2>1 DEF PhasesAfterThrow, Jobs, Phases
    <2>3. Keyed(p) \in Views /\ ViewOK(d, Keyed(p))
        BY <1>5, <2>2
    <2>4. view' = [view EXCEPT ![d] = Keyed(p)]
        BY <2>1
    <2>5. Goes(d, k, Idle)
        BY <1>1, <1>8 DEF ResumePending
    <2> QED  BY <1>1, <1>2, <2>3, <2>4, <2>5, IdleOK, ControllerStep
<1> QED  BY <1>6, <1>7, <1>8

LEMMA ListReadyKeeps ==
    ASSUME NEW dest, Inv(dest), NEW d \in Devices, NEW k \in Kinds, ListReady(d, k)
    PROVE  Inv(dest)'
<1>1. /\ RelayTypes /\ UNCHANGED <<outbox, store, saving, overlapped, tries, late>>
      /\ activity[d][k].at = "list"
    BY DEF Inv, ListReady, Running
<1>2. Effect(dest)
    BY <1>1, GlanceEffect DEF ListReady, Effect
<1>3. view[d] \in Views /\ ViewOK(d, view[d])
    BY ViewFacts
<1>4. CASE Relay!Listed(d, Channel) = {}
    <2>1. PICK p \in Settled(d) : view' = [view EXCEPT ![d].found = None, ![d].phase = p]
        BY <1>4 DEF ListReady
    <2> DEFINE v == [view[d] EXCEPT !.found = None, !.phase = p]
    <2>2. p \in {"recovered", "begins", "shared", "approve"}
        BY DEF Settled
    <2>3. v \in Views /\ v.found = None /\ v.phase = p
        BY <1>3, <2>2 DEF Views, Phases
    <2>4. p = "recovered" => Has(d) # {}
        <3>1. p = "recovered" => store[d].memory.receipts # {}
            BY <2>1 DEF Settled
        <3> QED  BY <3>1 DEF Inv, StoresOK, StoreOK
    <2>5. view' = [view EXCEPT ![d] = v]
        BY <2>1
    <2>6. Goes(d, k, Idle)
        BY <1>4 DEF ListReady
    <2> HIDE DEF v
    <2>7. ViewOK(d, v)
        BY <2>3, <2>4 DEF ViewOK
    <2> QED  BY <1>1, <1>2, <2>3, <2>5, <2>6, <2>7, IdleOK, ControllerStep
<1>5. CASE Relay!Listed(d, Channel) # {}
    <2>1. PICK t \in Relay!Listed(d, Channel) :
            IF transfers[t].from \in view[d].keys
            THEN /\ view' = [view EXCEPT ![d].found = t, ![d].receive = TRUE,
                                         ![d].phase = "ready"]
                 /\ Goes(d, k, Idle)
            ELSE Throw(d, k)
        BY <1>5 DEF ListReady
    <2>2. Offered(d, t)
        <3>1. t \in Seals /\ Relay!InState(t, "ready") /\ Relay!Swept[t].to = d
            BY DEF Relay!Listed
        <3>2. transfers[t] \in Relay!Rows /\ transfers[t].to = d
            BY <1>1, <3>1, InStateFacts
        <3> QED  BY <3>1, <3>2 DEF Offered
    <2>3. CASE transfers[t].from \in view[d].keys
        <3> DEFINE v == [view[d] EXCEPT !.found = t, !.receive = TRUE, !.phase = "ready"]
        <3>1. v \in Views /\ v.found = t /\ v.phase = "ready"
            BY <1>3, <2>2 DEF Views, Phases, Offered
        <3>2. view' = [view EXCEPT ![d] = v] /\ Goes(d, k, Idle)
            BY <2>1, <2>3
        <3> HIDE DEF v
        <3>3. ViewOK(d, v)
            BY <2>2, <3>1 DEF ViewOK
        <3> QED  BY <1>1, <1>2, <3>1, <3>2, <3>3, IdleOK, ControllerStep
    <2>4. CASE transfers[t].from \notin view[d].keys
        <3>1. Throw(d, k)
            BY <2>1, <2>4
        <3> QED  BY <1>1, <1>2, <3>1, Thrown, ControllerStep
    <2> QED  BY <2>3, <2>4
<1> QED  BY <1>4, <1>5

------------------------------------------------------------------------------
(***************************************************************************)
(* Sharing.                                                                *)
(***************************************************************************)
LEMMA ShareKeeps ==
    ASSUME NEW dest, Inv(dest), NEW d \in Devices, NEW x \in Devices, Share(d, x)
    PROVE  Inv(dest)'
<1> DEFINE a == [job |-> "share", at |-> "write", to |-> x]
           v == [view[d] EXCEPT !.retry = x, !.receive = FALSE, !.phase = "transferring"]
<1>1. /\ RelayTypes /\ UNCHANGED <<outbox, store, saving, overlapped, tries, late>> /\ UNCHANGED relay
      /\ d \in Keepers /\ x # d /\ tries[d] < MaxTries /\ "user" \in Kinds /\ Goes(d, "user", a)
    BY DEF Inv, Share, Choices, Kinds
<1>2. Effect(dest)
    BY <1>1, SameRows DEF Effect, relay, RelayTypes
<1>3. a \in Choosing
    BY DEF Choosing, Jobs, Steps
<1>4. a \in Activities /\ ActivityOK(d, "user", a, dest)
    BY <1>1, <1>3 DEF ActivityOK, Activities, OwnSteps, Uploading
<1>5. view[d] \in Views /\ ViewOK(d, view[d])
    BY ViewFacts
<1>6. v \in Views /\ v.found = view[d].found /\ v.phase = "transferring"
    BY <1>5 DEF Views, Phases
<1>7. view' = [view EXCEPT ![d] = v]
    BY DEF Share
<1> HIDE DEF a, v
<1>8. ViewOK(d, v)
    BY <1>5, <1>6 DEF ViewOK
<1> QED  BY <1>1, <1>2, <1>4, <1>6, <1>7, <1>8, ControllerStep

\* An activity that goes on with the entry it has.
LEMMA GoesOn ==
    ASSUME NEW dest, Inv(dest), NEW d \in Devices, NEW k \in Kinds,
           activity[d][k].at \in OwnSteps, NEW at \in OwnSteps \ {"chunk", "sent"}, Moves(d, k, at)
    PROVE  \E a \in Activities : Goes(d, k, a) /\ ActivityOK(d, k, a, dest)
<1> DEFINE a == [activity[d][k] EXCEPT !.at = at]
<1>1. activity[d][k].at # "idle"
    BY DEF OwnSteps, Uploading
<1>2. /\ activity[d][k] \in Activities /\ activity[d][k] # Idle
      /\ activity[d][k] \in Holding \cup Sending /\ Made(d, activity[d][k].entry, dest)
    BY <1>1, Busy DEF ActivityOK
<1>3. at \in Steps
    BY DEF OwnSteps, Steps
<1> HIDE DEF a
<1>4. /\ a \in Activities /\ a.at = at /\ a \in Holding \cup Sending
      /\ a.entry = activity[d][k].entry
    BY <1>2, <1>3, Moved DEF a
<1>5. ActivityOK(d, k, a, dest)
    BY <1>2, <1>4 DEF ActivityOK, OwnSteps, Uploading
<1>6. Goes(d, k, a)
    BY DEF Moves, a
<1> QED  BY <1>4, <1>5, <1>6

\* The entry of an activity that uploads.
LEMMA OwnEntry ==
    ASSUME NEW dest, Inv(dest), NEW d \in Devices, NEW k \in Kinds,
           activity[d][k].at \in OwnSteps
    PROVE  /\ activity[d][k].at # "idle"
           /\ activity[d][k].job \in Jobs
           /\ activity[d][k].entry \in Entries /\ activity[d][k].entry.t \in Seals
           /\ Made(d, activity[d][k].entry, dest)
<1>1. activity[d][k].at # "idle"
    BY DEF OwnSteps, Uploading
<1>2. Made(d, activity[d][k].entry, dest)
    BY Busy DEF ActivityOK
<1> QED  BY <1>1, <1>2, Busy DEF Made, Entries

\* A request of an activity with an entry of its own.
LEMMA OwnRequest ==
    ASSUME NEW dest, Inv(dest), NEW d \in Devices, NEW e \in Entries, Made(d, e, dest),
           NEW kind \in {"create", "finalize", "cancel"}, Handle(Request(kind, d, e))
    PROVE  Effect(dest)
BY HandleEffect DEF Inv, Effect

LEMMA CreateTransferKeeps ==
    ASSUME NEW dest, Inv(dest), NEW d \in Devices, NEW k \in Kinds, CreateTransfer(d, k)
    PROVE  Inv(dest)'
<1> DEFINE e == activity[d][k].entry
<1>1. /\ UNCHANGED <<outbox, store, saving, overlapped, tries, late>>
      /\ activity[d][k].at = "create" /\ Handle(Request("create", d, e))
    BY DEF CreateTransfer, Running
<1>2. activity[d][k].at \in OwnSteps
    BY <1>1 DEF OwnSteps, Uploading
<1>3. /\ activity[d][k].at # "idle" /\ activity[d][k].job \in Jobs
      /\ e \in Entries /\ e.t \in Seals /\ Made(d, e, dest)
    BY <1>2, OwnEntry
<1>4. Effect(dest)
    BY <1>1, <1>3, OwnRequest
<1> DEFINE a == [job |-> activity[d][k].job, at |-> "chunk", entry |-> e, index |-> 0]
<1>5. CASE UNCHANGED view /\ Goes(d, k, a)
    <2>1. 0 \in 0 .. ChunksOf - 1
        OBVIOUS
    <2>2. a \in Sending
        BY <1>3, <2>1 DEF Sending, Steps, Uploading
    <2>3. a \in Activities /\ ActivityOK(d, k, a, dest)
        BY <1>3, <2>2 DEF ActivityOK, Activities
    <2> HIDE DEF a
    <2> QED  BY <1>1, <1>4, <1>5, <2>3, ControllerStep
<1>6. CASE UNCHANGED view /\ Moves(d, k, "clear")
    <2>1. "clear" \in OwnSteps \ {"chunk", "sent"}
        BY DEF OwnSteps
    <2> QED  BY <1>1, <1>2, <1>4, <1>6, <2>1, GoesOn, ControllerStep
<1>7. CASE Throw(d, k)
    BY <1>1, <1>3, <1>4, <1>7, Thrown, ControllerStep
<1> QED  BY <1>5, <1>6, <1>7 DEF CreateTransfer

LEMMA UploadTyped ==
    ASSUME NEW dest, Inv(dest), NEW d \in Devices, NEW k \in Kinds,
           activity[d][k].at \in {"chunk", "sent"}
    PROVE  /\ activity[d][k] \in Sending
           /\ activity[d][k].index \in 0 .. ChunksOf - 1
           /\ Upload(d, activity[d][k].entry, activity[d][k].index) \in Relay!Uploads
<1>1. activity[d][k] \in Sending
    BY Busy DEF ActivityOK
<1>2. activity[d][k].index \in 0 .. ChunksOf - 1 /\ activity[d][k].entry \in Entries
    BY <1>1 DEF Sending
<1>3. activity[d][k].entry.t \in Seals /\ activity[d][k].entry.manifest \in Seals
    BY <1>2 DEF Entries
<1> QED  BY <1>1, <1>2, <1>3 DEF Upload, Relay!Uploads, Bodies

LEMMA SendChunkKeeps ==
    ASSUME NEW dest, Inv(dest), NEW d \in Devices, NEW k \in Kinds, SendChunk(d, k)
    PROVE  Inv(dest)'
<1> DEFINE a == [activity[d][k] EXCEPT !.at = "sent"]
           u == Upload(d, activity[d][k].entry, activity[d][k].index)
<1>1. /\ UNCHANGED <<outbox, store, saving, overlapped, tries, late, view>>
      /\ activity[d][k].at = "chunk" /\ Relay!Admit(u) /\ Goes(d, k, a)
    BY DEF SendChunk, Running, Moves
<1>2. activity[d][k] \in Sending /\ u \in Relay!Uploads
    BY <1>1, UploadTyped
<1> HIDE DEF u
<1>3. Effect(dest)
    BY <1>1, <1>2, SameRows DEF Effect, Relay!Admit, RelayTypes, Inv
<1>4. Made(d, activity[d][k].entry, dest) /\ activity[d][k] \in Activities /\ activity[d][k] # Idle
    BY <1>1, Busy, OwnEntry DEF OwnSteps, Uploading
<1> HIDE DEF a
<1>5. a \in Sending /\ a \in Activities /\ a.at = "sent" /\ a.entry = activity[d][k].entry
    BY <1>2, <1>4, Moved DEF a, Steps, Uploading
<1>6. ActivityOK(d, k, a, dest)
    BY <1>4, <1>5 DEF ActivityOK
<1> QED  BY <1>1, <1>3, <1>5, <1>6, ControllerStep

LEMMA ChunkAnsweredKeeps ==
    ASSUME NEW dest, Inv(dest), NEW d \in Devices, NEW k \in Kinds, ChunkAnswered(d, k)
    PROVE  Inv(dest)'
<1> DEFINE a == activity[d][k]
           u == Upload(d, a.entry, a.index)
           b == [a EXCEPT !.at = "chunk", !.index = @ + 1]
<1>1. /\ UNCHANGED <<outbox, store, saving, overlapped, tries, late>>
      /\ a.at = "sent" /\ Relay!Store(u)
    BY DEF ChunkAnswered, Running
<1>2. a \in Sending /\ a.index \in 0 .. ChunksOf - 1 /\ u \in Relay!Uploads
    BY <1>1, UploadTyped
<1>3. a.at \in OwnSteps /\ a.at # "idle"
    BY <1>1 DEF OwnSteps, Uploading
<1>4. Made(d, a.entry, dest)
    BY <1>3, OwnEntry
<1>5. Effect(dest)
    <2> HIDE DEF u
    <2> QED  BY <1>1, <1>2, StoreEffect DEF Effect, Inv
<1>6. CASE UNCHANGED view /\ Moves(d, k, "finalize")
    <2>1. "finalize" \in OwnSteps \ {"chunk", "sent"}
        BY DEF OwnSteps, Uploading
    <2> QED  BY <1>1, <1>3, <1>5, <1>6, <2>1, GoesOn, ControllerStep
<1>7. CASE UNCHANGED view /\ a.index + 1 # ChunksOf /\ Goes(d, k, b)
    <2> HIDE DEF a
    <2>1. a.index + 1 \in 0 .. ChunksOf - 1
        BY <1>2, <1>7
    <2>2. b \in Sending /\ b.at = "chunk" /\ b.entry = a.entry
        BY <1>2, <2>1 DEF Sending, Steps, Uploading
    <2> HIDE DEF b
    <2>3. b \in Activities /\ ActivityOK(d, k, b, dest)
        BY <1>4, <2>2 DEF ActivityOK, Activities
    <2> QED  BY <1>1, <1>5, <1>7, <2>3, ControllerStep
<1>8. CASE Throw(d, k)
    BY <1>1, <1>3, <1>5, <1>8, Thrown, ControllerStep
<1> QED  BY <1>6, <1>7, <1>8 DEF ChunkAnswered

LEMMA FinalizeTransferKeeps ==
    ASSUME NEW dest, Inv(dest), NEW d \in Devices, NEW k \in Kinds, FinalizeTransfer(d, k)
    PROVE  Inv(dest)'
<1> DEFINE e == activity[d][k].entry
<1>1. /\ UNCHANGED <<outbox, store, saving, overlapped, tries, late>>
      /\ activity[d][k].at = "finalize" /\ Handle(Request("finalize", d, e))
    BY DEF FinalizeTransfer, Running
<1>2. activity[d][k].at \in OwnSteps
    BY <1>1 DEF OwnSteps, Uploading
<1>3. activity[d][k].at # "idle" /\ e \in Entries /\ Made(d, e, dest)
    BY <1>2, OwnEntry
<1>4. Effect(dest)
    BY <1>1, <1>3, OwnRequest
<1>5. CASE UNCHANGED view /\ Moves(d, k, "clear")
    <2>1. "clear" \in OwnSteps \ {"chunk", "sent"}
        BY DEF OwnSteps
    <2> QED  BY <1>1, <1>2, <1>4, <1>5, <2>1, GoesOn, ControllerStep
<1>6. CASE Throw(d, k)
    BY <1>1, <1>3, <1>4, <1>6, Thrown, ControllerStep
<1> QED  BY <1>5, <1>6 DEF FinalizeTransfer

(***************************************************************************)
(* The steps that erase the entry of a device.                             *)
(***************************************************************************)
LEMMA ErasingStep ==
    ASSUME NEW dest, Inv(dest), NEW d \in Devices, outbox' = [outbox EXCEPT ![d] = None],
           UNCHANGED <<relay, late, store, saving, overlapped, tries>>,
           \E v \in Views : view' = [view EXCEPT ![d] = v] /\ ViewOK(d, v),
           \E k \in Kinds, a \in Activities : Goes(d, k, a) /\ ActivityOK(d, k, a, dest)
    PROVE  Inv(dest)'
<1>1. TriesOK' /\ RelayTypes' /\ dest \in [Seals -> Devices] /\ TriesOK
    BY DEF Inv, TriesOK, RelayTypes, relay
<1>2. Grown
    BY DEF Inv, TriesOK, Grown, Has, relay
<1>3. ViewsOK'
    BY <1>2, ViewGrows, ViewsGrow
<1>4. ActivitiesOK(dest)'
    <2>1. \A c \in Devices : \A a : SaveOK(c, a) => SaveOK(c, a)'
        BY DEF SaveOK
    <2>2. PICK k \in Kinds, a \in Activities : Goes(d, k, a) /\ ActivityOK(d, k, a, dest)
        OBVIOUS
    <2>3. ActivityOK(d, k, a, dest)'
        <3>1. a.at = "save" => SaveOK(d, a)'
            BY <2>1, <2>2 DEF ActivityOK
        <3> QED  BY <1>1, <1>2, <2>2, <3>1, ActivityGrows
    <2> QED  BY <1>1, <1>2, <2>2, <2>3, SavesStay, ActivitiesGrow
<1>5. StoresOK'
    BY DEF Inv, StoresOK, StoreOK, Has
<1>6. OutboxesOK(dest)'
    BY <1>1, <1>2, MadeGrows DEF Inv, OutboxesOK
<1>7. RelayKeeps
    BY SameRows DEF Inv, relay, RelayTypes
<1>8. LateOK(dest)' /\ RowsOK(dest)'
    BY <1>1, <1>2, <1>7, LateGrows, EffectOnRows DEF Effect
<1> QED  BY <1>1, <1>3, <1>4, <1>5, <1>6, <1>8 DEF Inv

LEMMA ClearUploadedKeeps ==
    ASSUME NEW dest, Inv(dest), NEW d \in Devices, NEW k \in Kinds, ClearUploaded(d, k)
    PROVE  Inv(dest)'
<1> DEFINE v == [view[d] EXCEPT !.shared = TRUE, !.phase = "shared"]
<1>1. view[d] \in Views /\ ViewOK(d, view[d])
    BY ViewFacts
<1>2. v \in Views /\ v.found = view[d].found /\ v.phase = "shared"
    BY <1>1 DEF Views, Phases
<1>3. view' = [view EXCEPT ![d] = v]
    BY DEF ClearUploaded
<1> HIDE DEF v
<1>4. ViewOK(d, v)
    BY <1>1, <1>2 DEF ViewOK
<1>5. Goes(d, k, Idle) /\ outbox' = [outbox EXCEPT ![d] = None]
      /\ UNCHANGED <<relay, late, store, saving, overlapped, tries>>
    BY DEF ClearUploaded
<1> QED  BY <1>2, <1>3, <1>4, <1>5, IdleOK, ErasingStep

LEMMA EraseStoppedKeeps ==
    ASSUME NEW dest, Inv(dest), NEW d \in Devices, NEW k \in Kinds, EraseStopped(d, k)
    PROVE  Inv(dest)'
<1> DEFINE v == [view[d] EXCEPT !.shared = FALSE]
           a == [activity[d][k] EXCEPT !.at = "register"]
<1>1. view[d] \in Views /\ ViewOK(d, view[d])
    BY ViewFacts
<1>2. v \in Views /\ v.found = view[d].found /\ v.phase = view[d].phase
    BY <1>1 DEF Views
<1>3. view' = [view EXCEPT ![d] = v]
    BY DEF EraseStopped
<1> HIDE DEF v
<1>4. ViewOK(d, v)
    BY <1>1, <1>2 DEF ViewOK
<1>5. /\ Goes(d, k, a) /\ outbox' = [outbox EXCEPT ![d] = None]
      /\ UNCHANGED <<relay, late, store, saving, overlapped, tries>>
      /\ activity[d][k].at = "erase"
    BY DEF EraseStopped, Moves, Running
<1>6. a \in Activities /\ a.at = "register"
    <2>1. activity[d][k] \in Activities /\ activity[d][k] # Idle
        BY <1>5, Busy
    <2>2. "register" \in Steps
        BY DEF Steps
    <2>3. \A b : b = a => b \in Activities /\ b.at = "register"
        BY <2>1, <2>2, Moved
    <2> QED  BY <2>3
<1> HIDE DEF a
<1>7. ActivityOK(d, k, a, dest)
    BY <1>6 DEF ActivityOK, OwnSteps, Uploading
<1> QED  BY <1>2, <1>3, <1>4, <1>5, <1>6, <1>7, ErasingStep

LEMMA StopKeeps ==
    ASSUME NEW dest, Inv(dest), NEW d \in Devices, Stop(d)
    PROVE  Inv(dest)'
<1> DEFINE a == [job |-> "stop", at |-> "cancel", entry |-> outbox[d]]
<1>1. /\ RelayTypes /\ UNCHANGED <<outbox, store, saving, overlapped, tries, late, view>> /\ UNCHANGED relay
      /\ "user" \in Kinds /\ Goes(d, "user", a) /\ outbox[d] # None
    BY DEF Inv, Stop, Kinds
<1>2. Effect(dest)
    BY <1>1, SameRows DEF Effect, relay, RelayTypes
<1>3. outbox[d] \in Entries /\ Made(d, outbox[d], dest)
    BY <1>1 DEF Inv, OutboxesOK
<1>4. a \in Holding
    BY <1>3 DEF Holding, Jobs, Steps
<1>5. a \in Activities /\ ActivityOK(d, "user", a, dest)
    BY <1>3, <1>4 DEF ActivityOK, Activities
<1> HIDE DEF a
<1> QED  BY <1>1, <1>2, <1>5, ControllerStep

LEMMA CancelTransferKeeps ==
    ASSUME NEW dest, Inv(dest), NEW d \in Devices, NEW k \in Kinds, CancelTransfer(d, k)
    PROVE  Inv(dest)'
<1> DEFINE e == activity[d][k].entry
<1>1. /\ UNCHANGED <<outbox, store, saving, overlapped, tries, late>>
      /\ activity[d][k].at = "cancel" /\ Handle(Request("cancel", d, e))
    BY DEF CancelTransfer, Running
<1>2. activity[d][k].at \in OwnSteps
    BY <1>1 DEF OwnSteps
<1>3. activity[d][k].at # "idle" /\ e \in Entries /\ Made(d, e, dest)
    BY <1>2, OwnEntry
<1>4. Effect(dest)
    BY <1>1, <1>3, OwnRequest
<1>5. CASE UNCHANGED view /\ Moves(d, k, "erase")
    <2>1. "erase" \in OwnSteps \ {"chunk", "sent"}
        BY DEF OwnSteps
    <2> QED  BY <1>1, <1>2, <1>4, <1>5, <2>1, GoesOn, ControllerStep
<1>6. CASE Throw(d, k)
    BY <1>1, <1>3, <1>4, <1>6, Thrown, ControllerStep
<1> QED  BY <1>5, <1>6 DEF CancelTransfer

------------------------------------------------------------------------------
(***************************************************************************)
(* A new transfer is sealed: its destination is now known.                 *)
(***************************************************************************)
LEMMA WriteOutboxKeeps ==
    ASSUME NEW dest, Inv(dest), NEW d \in Devices, NEW k \in Kinds, WriteOutbox(d, k)
    PROVE  \E dest2 : Inv(dest2)'
<1>1. RelayTypes /\ TriesOK /\ dest \in [Seals -> Devices]
      /\ outbox \in [Devices -> Entries \cup {None}] /\ activity[d][k].at = "write"
    BY DEF Inv, OutboxesOK, WriteOutbox, Running
<1>2. PICK x \in Devices, n \in Nat : x = activity[d][k].to /\ n = tries[d]
    BY <1>1, Busy DEF ActivityOK, Choosing, TriesOK
<1>3. x # d /\ d \in Keepers /\ k = "user" /\ n < MaxTries
    BY <1>1, <1>2, Busy DEF ActivityOK
<1>4. PICK t \in Seals : t = <<d, n + 1>> /\ t[1] = d /\ t[2] = n + 1
    <2>1. <<d, n + 1>> \in Seals
        BY <1>2, <1>3 DEF Seals
    <2> QED  BY <2>1
<1>5. PICK e \in Entries : e = Entry(t, x, t) /\ e.t = t /\ e.to = x /\ e.manifest = t
    <2>1. Entry(t, x, t) \in Entries
        BY DEF Entry, Entries
    <2> QED  BY <2>1 DEF Entry
<1>6. PICK dest2 \in [Seals -> Devices] : dest2 = [dest EXCEPT ![t] = x] /\ dest2[t] = x
    <2>1. [dest EXCEPT ![t] = x] \in [Seals -> Devices]
        BY <1>1
    <2> QED  BY <1>1, <2>1
<1>7. PICK a \in Holding :
        a = [job |-> "share", at |-> "create", entry |-> e] /\ a.at = "create" /\ a.entry = e
    <2>1. [job |-> "share", at |-> "create", entry |-> e] \in Holding
        BY DEF Holding, Jobs, Steps, Uploading
    <2> QED  BY <2>1
<1>8. /\ outbox' = [outbox EXCEPT ![d] = e]
      /\ tries' = [tries EXCEPT ![d] = n + 1] /\ Goes(d, k, a)
      /\ UNCHANGED <<relay, late, store, saving, overlapped, view>>
    BY <1>2, <1>4, <1>5, <1>7 DEF WriteOutbox, NewTransferId
<1>9. TriesOK' /\ tries'[d] = n + 1 /\ \A c \in Devices \ {d} : tries'[c] = tries[c]
    BY <1>1, <1>2, <1>3, <1>8 DEF TriesOK
<1>10. Grown
    <2>1. ASSUME NEW c \in Devices PROVE tries[c] <= tries'[c]
        BY <1>1, <1>2, <1>9 DEF TriesOK
    <2> QED  BY <1>8, <2>1 DEF Grown, Has, relay
\* An id of an earlier transfer is another one.
<1>11. ASSUME NEW s \in Seals, s[2] <= tries[s[1]] PROVE s # t /\ dest2[s] = dest[s]
    <2>1. s # t
        BY <1>2, <1>4, <1>11
    <2> QED  BY <1>1, <1>6, <2>1
<1>12. ASSUME NEW c \in Devices, NEW f, Made(c, f, dest) PROVE Made(c, f, dest2)'
    <2>1. Made(c, f, dest)'
        BY <1>1, <1>9, <1>10, <1>12, MadeGrows
    <2>2. f.t \in Seals /\ f.t[2] <= tries[f.t[1]]
        <3>1. tries[c] \in Nat
            BY <1>1 DEF TriesOK
        <3> QED  BY <1>12, <3>1 DEF Made, Entries
    <2>3. dest2[f.t] = dest[f.t]
        BY <1>11, <2>2
    <2> QED  BY <2>1, <2>3 DEF Made
<1>13. Made(d, e, dest2)'
    BY <1>2, <1>3, <1>4, <1>5, <1>6, <1>9 DEF Made
<1>14. ASSUME NEW c \in Devices, NEW j \in Kinds, NEW b, ActivityOK(c, j, b, dest),
              ~(c = d /\ j = k)
       PROVE  ActivityOK(c, j, b, dest2)'
    <2>1. b.at = "write" => tries'[c] = tries[c]
        BY <1>3, <1>9, <1>14 DEF ActivityOK
    <2>2. ActivityOK(c, j, b, dest)'
        <3>1. b.at = "save" => SaveOK(c, b)'
            BY <1>8, <1>14 DEF ActivityOK, SaveOK
        <3> QED  BY <1>1, <1>9, <1>10, <1>14, <2>1, <3>1, ActivityGrows
    <2>3. b.at \in OwnSteps => Made(c, b.entry, dest2)'
        BY <1>12, <1>14 DEF ActivityOK
    <2> QED  BY <2>2, <2>3 DEF ActivityOK
<1>15. ActivitiesOK(dest2)'
    <2>1. /\ activity \in [Devices -> [Kinds -> Activities]]
          /\ \A c \in Devices, j \in Kinds : ActivityOK(c, j, activity[c][j], dest)
        BY DEF Inv, ActivitiesOK
    <2>2. a \in Activities /\ ActivityOK(d, k, a, dest2)'
        BY <1>7, <1>13 DEF ActivityOK, Activities
    <2>3. activity' \in [Devices -> [Kinds -> Activities]] /\ activity'[d][k] = a
        BY <1>8, <2>1, <2>2 DEF Goes
    <2>4. ASSUME NEW c \in Devices, NEW j \in Kinds
          PROVE  ActivityOK(c, j, activity[c][j], dest2)'
        <3>1. CASE c = d /\ j = k
            BY <2>2, <2>3, <3>1
        <3>2. CASE ~(c = d /\ j = k)
            <4>1. activity'[c][j] = activity[c][j]
                BY <1>8, <2>1, <3>2 DEF Goes
            <4> QED  BY <1>14, <2>1, <3>2, <4>1
        <3> QED  BY <3>1, <3>2
    <2> QED  BY <2>3, <2>4 DEF ActivitiesOK
<1>16. OutboxesOK(dest2)'
    <2>1. ASSUME NEW c \in Devices, NEW f, f = outbox[c], f # None
          PROVE  Made(c, f, dest2)'
        BY <1>12, <2>1 DEF Inv, OutboxesOK
    <2>2. outbox' \in [Devices -> Entries \cup {None}] /\ outbox'[d] = e
          /\ \A c \in Devices \ {d} : outbox'[c] = outbox[c]
        BY <1>1, <1>8
    <2>3. ASSUME NEW c \in Devices, NEW f, f = outbox'[c], f # None
          PROVE  Made(c, f, dest2)'
        BY <1>13, <2>1, <2>2, <2>3
    <2> QED  BY <2>2, <2>3 DEF OutboxesOK
<1>17. LateOK(dest2)'
    <2>1. ASSUME NEW q \in late PROVE q \in Requests /\ RequestOK(q, dest2)'
        <3>1. q \in Requests /\ RequestOK(q, dest) /\ q.by \in Devices
            BY DEF Inv, LateOK, Requests
        <3>2. Merged(q.by, q.entry.t) => Merged(q.by, q.entry.t)'
            BY <1>8 DEF Merged, Has
        <3> QED  BY <1>12, <3>1, <3>2 DEF RequestOK
    <2> QED  BY <1>8, <2>1 DEF LateOK
<1>18. RowsOK(dest2)'
    <2>1. ASSUME NEW s \in Seals PROVE RowOK(s, dest2)'
        <3>1. RelayKeeps
            BY <1>1, <1>8, SameRows DEF relay, RelayTypes
        <3>2. RowOK(s, dest)'
            BY <1>9, <1>10, <3>1, FollowedRow DEF RelayKeeps
        <3>3. transfers[s] # None => dest2[s] = dest[s]
            <4>1. transfers[s] # None => s[2] <= tries[s[1]]
                BY <1>1 DEF Inv, RowsOK, RowOK, TriesOK, Seals
            <4> QED  BY <1>11, <4>1
        <3>4. transfers' = transfers
            BY <1>8 DEF relay
        <3> QED  BY <3>2, <3>3, <3>4 DEF RowOK
    <2> QED  BY <2>1 DEF RowsOK
<1>19. RelayTypes' /\ StoresOK' /\ ViewsOK'
    <2>1. RelayTypes' /\ StoresOK'
        BY <1>8 DEF Inv, RelayTypes, relay, StoresOK, StoreOK, Has
    <2>2. ViewsOK'
        BY <1>8, <1>10, ViewsGrow
    <2> QED  BY <2>1, <2>2
<1> QED  BY <1>9, <1>15, <1>16, <1>17, <1>18, <1>19 DEF Inv

------------------------------------------------------------------------------
(***************************************************************************)
(* Recovering.                                                             *)
(***************************************************************************)
LEMMA ReceiveKeeps ==
    ASSUME NEW dest, Inv(dest), NEW d \in Devices, Receive(d)
    PROVE  Inv(dest)'
<1> DEFINE t == view[d].found
           e == Entry(t, d, transfers[t].manifest)
           a == [job |-> "receive", at |-> "download", index |-> 0, entry |-> e]
           Seen(p) == [view[d] EXCEPT !.phase = p]
<1>1. /\ RelayTypes /\ UNCHANGED <<outbox, store, saving, overlapped, tries, late>> /\ UNCHANGED relay
      /\ "user" \in Kinds /\ t # None
    BY DEF Inv, Receive, Kinds
<1>2. Effect(dest)
    BY <1>1, SameRows DEF Effect, relay, RelayTypes
<1>3. Offered(d, t)
    BY <1>1, ViewFacts DEF ViewOK
<1>4. \A p \in {"transferring", "failed"} : Seen(p) \in Views /\ ViewOK(d, Seen(p))
    BY Shown DEF Phases
<1>5. CASE /\ view' = [view EXCEPT ![d] = Seen("transferring")]
           /\ Goes(d, "user", a)
    <2>1. e \in Entries /\ e.t = t
        BY <1>1, <1>3, RowFacts DEF Offered, RelayTypes, Entry, Entries
    <2> HIDE DEF e
    <2>2. a \in Sending /\ a.at = "download" /\ a.entry = e
        BY <2>1 DEF Sending, Jobs, Steps
    <2> HIDE DEF a
    <2>3. a \in Activities /\ ActivityOK(d, "user", a, dest)
        BY <1>3, <2>1, <2>2 DEF ActivityOK, Activities, OwnSteps, Uploading
    <2> QED  BY <1>1, <1>2, <1>4, <1>5, <2>3, ControllerStep
<1>6. CASE view' = [view EXCEPT ![d] = Seen("failed")] /\ UNCHANGED activity
    BY <1>1, <1>2, <1>4, <1>6, ControllerStep
<1> QED  BY <1>5, <1>6 DEF Receive, Shows

\* What an activity that recovers knows.
LEMMA Recovering ==
    ASSUME NEW dest, Inv(dest), NEW d \in Devices, NEW k \in Kinds,
           activity[d][k].at \in {"download", "merge", "save", "consume"}
    PROVE  /\ activity[d][k].at # "idle" /\ activity[d][k] # Idle
           /\ activity[d][k] \in Activities /\ activity[d][k].job \in Jobs
           /\ activity[d][k].at \in {"download", "merge"} => activity[d][k] \in Sending
           /\ activity[d][k].at = "save" => activity[d][k] \in Merging
           /\ activity[d][k].entry \in Entries /\ activity[d][k].entry.t \in Seals
           /\ Offered(d, activity[d][k].entry.t) /\ k = "user"
<1>1. /\ activity[d][k] \in Holding \cup Sending \cup Merging
      /\ Offered(d, activity[d][k].entry.t) /\ k = "user"
      /\ activity[d][k].at \in {"download", "merge"} => activity[d][k] \in Sending
      /\ activity[d][k].at = "save" => activity[d][k] \in Merging
    BY Busy DEF ActivityOK
<1> QED  BY <1>1, Busy DEF Holding, Sending, Merging, Entries

LEMMA DownloadChunkKeeps ==
    ASSUME NEW dest, Inv(dest), NEW d \in Devices, NEW k \in Kinds, DownloadChunk(d, k)
    PROVE  Inv(dest)'
<1> DEFINE a == activity[d][k]
           b == AfterDownload(a)
<1>1. /\ UNCHANGED <<outbox, store, saving, overlapped, tries, late>>
      /\ a.at = "download" /\ RelayTypes /\ Glance
    BY DEF DownloadChunk, Running, Inv
<1>2. /\ a # Idle /\ a \in Activities /\ a \in Sending /\ Offered(d, a.entry.t) /\ a.at # "idle"
      /\ k = "user"
    BY <1>1, Recovering
<1>3. Effect(dest)
    BY <1>1, GlanceEffect DEF Effect
<1>4. CASE UNCHANGED view /\ Goes(d, k, b)
    <2> HIDE DEF a
    <2>1. CASE a.index + 1 < ChunksOf
        <3>1. b = [a EXCEPT !.index = a.index + 1]
            BY <2>1 DEF AfterDownload
        <3>2. a.index + 1 \in 0 .. ChunksOf - 1
            BY <1>2, <2>1 DEF Sending
        <3> HIDE DEF b
        <3>3. b \in Sending /\ b.at = "download" /\ b.entry = a.entry
            BY <1>1, <1>2, <3>1, <3>2 DEF Sending
        <3>4. b \in Activities /\ ActivityOK(d, k, b, dest)
            BY <1>2, <3>3 DEF ActivityOK, Activities, OwnSteps, Uploading
        <3> QED  BY <1>1, <1>3, <1>4, <3>4, ControllerStep DEF b
    <2>2. CASE ~(a.index + 1 < ChunksOf)
        <3>1. b = [a EXCEPT !.at = "merge"]
            BY <2>2 DEF AfterDownload
        <3> HIDE DEF b
        <3>2. b \in Activities /\ b \in Sending /\ b.at = "merge" /\ b.entry = a.entry
            BY <1>2, <3>1, Moved DEF Steps
        <3>3. ActivityOK(d, k, b, dest)
            BY <1>2, <3>2 DEF ActivityOK, OwnSteps, Uploading
        <3> QED  BY <1>1, <1>3, <1>4, <3>2, <3>3, ControllerStep DEF b
    <2> QED  BY <2>1, <2>2
<1>5. CASE Throw(d, k)
    BY <1>1, <1>2, <1>3, <1>5, Thrown, ControllerStep
<1> QED  BY <1>4, <1>5 DEF DownloadChunk

(***************************************************************************)
(* The steps that change a history, in memory or on disk.                  *)
(***************************************************************************)
LEMMA StoreStep ==
    ASSUME NEW dest, Inv(dest), UNCHANGED <<relay, outbox, tries, late, view>>, StoresOK',
           \A d \in Devices : Has(d) \subseteq Has(d)',
           \A d \in Devices, k \in Kinds : activity[d][k].at = "save" =>
               SaveOK(d, activity[d][k])' \/ activity'[d][k] # activity[d][k],
           \/ UNCHANGED activity
           \/ \E d \in Devices, k \in Kinds, a \in Activities :
                Goes(d, k, a) /\ ActivityOK(d, k, a, dest)'
    PROVE  Inv(dest)'
<1>1. TriesOK' /\ RelayTypes' /\ dest \in [Seals -> Devices]
    BY DEF Inv, TriesOK, RelayTypes, relay
<1>2. Grown
    BY DEF Inv, TriesOK, Grown, relay
<1>3. ViewsOK'
    BY <1>2, ViewsGrow
<1>4. ActivitiesOK(dest)'
    BY <1>1, <1>2, ActivitiesGrow
<1>5. OutboxesOK(dest)'
    BY <1>1, <1>2, OutboxesGrow
<1>6. RelayKeeps
    BY SameRows DEF Inv, relay, RelayTypes
<1>7. LateOK(dest)' /\ RowsOK(dest)'
    BY <1>1, <1>2, <1>6, LateGrows, EffectOnRows DEF Effect
<1> QED  BY <1>1, <1>3, <1>4, <1>5, <1>7 DEF Inv

LEMMA BeginMergeKeeps ==
    ASSUME NEW dest, Inv(dest), NEW d \in Devices, NEW k \in Kinds, BeginMerge(d, k)
    PROVE  Inv(dest)'
<1>1. /\ activity[d][k].at = "merge" /\ RelayTypes /\ UNCHANGED view /\ UNCHANGED relay
      /\ UNCHANGED <<outbox, store, saving, overlapped, tries, late>>
    BY DEF BeginMerge, Running, Inv
<1>2. /\ activity[d][k].job \in Jobs /\ activity[d][k].entry \in Entries
      /\ Offered(d, activity[d][k].entry.t) /\ k = "user"
    BY <1>1, Recovering
<1>3. PICK e \in Entries, job \in Jobs :
        e = activity[d][k].entry /\ job = activity[d][k].job /\ Offered(d, e.t) /\ e.t \in Seals
    BY <1>2 DEF Offered
<1>4. PICK old \in Histories : old = store[d].memory
    BY DEF Inv, StoresOK, Stores
<1>5. StoreOK(d)
    BY DEF Inv, StoresOK
<1>6. Effect(dest)
    BY <1>1, SameRows DEF Effect, relay, RelayTypes
<1>7. CASE e.t \in old.receipts
    <2> DEFINE a == [job |-> job, at |-> "consume", entry |-> e]
    <2>1. Goes(d, k, a)
        BY <1>3, <1>4, <1>7 DEF BeginMerge
    <2>2. a \in Holding /\ a.at = "consume" /\ a.entry = e
        BY DEF Holding, Steps
    <2>3. Merged(d, e.t)
        BY <1>4, <1>5, <1>7 DEF StoreOK, Merged
    <2> HIDE DEF a
    <2>4. a \in Activities /\ ActivityOK(d, k, a, dest)
        BY <1>2, <1>3, <2>2, <2>3 DEF ActivityOK, Activities, OwnSteps, Uploading
    <2> QED  BY <1>1, <1>6, <2>1, <2>4, ControllerStep
<1>8. CASE e.t \notin old.receipts
    <2>1. PICK new \in Histories :
            /\ new = [records |-> old.records \cup {e.t}, receipts |-> old.receipts \cup {e.t}]
            /\ new.records = old.records \cup {e.t} /\ new.receipts = old.receipts \cup {e.t}
        <3> DEFINE n == [records |-> old.records \cup {e.t},
                         receipts |-> old.receipts \cup {e.t}]
        <3>1. n \in Histories /\ n.records = old.records \cup {e.t}
              /\ n.receipts = old.receipts \cup {e.t}
            BY <1>3, <1>4 DEF Histories
        <3> QED  BY <3>1
    <2> DEFINE a == [job |-> job, at |-> "save", entry |-> e, merged |-> new]
    <2>2. Goes(d, k, a)
        BY <1>3, <1>4, <1>8, <2>1 DEF BeginMerge
    <2>3. a \in Merging /\ a.at = "save" /\ a.entry = e /\ a.merged = new
        BY DEF Merging, Steps
    <2> HIDE DEF a
    <2>4. SaveOK(d, a)
        <3>1. old.receipts \subseteq old.records \cup overlapped[d]
            BY <1>4, <1>5 DEF StoreOK, Has
        <3> QED  BY <1>4, <2>1, <2>3, <3>1 DEF SaveOK
    <2>5. a \in Activities /\ ActivityOK(d, k, a, dest)
        BY <1>2, <1>3, <2>3, <2>4 DEF ActivityOK, Activities, OwnSteps, Uploading
    <2> QED  BY <1>1, <1>6, <2>2, <2>5, ControllerStep
<1> QED  BY <1>7, <1>8

(***************************************************************************)
(* What was in the history before the merge is still in it, and what a     *)
(* message is being stored with now lacks the merged transfer.             *)
(***************************************************************************)
LEMMA EndMergeKeeps ==
    ASSUME NEW dest, Inv(dest), NEW d \in Devices, NEW k \in Kinds, EndMerge(d, k)
    PROVE  Inv(dest)'
<1>1. /\ activity[d][k].at = "save" /\ UNCHANGED <<relay, outbox, tries, late, view>>
      /\ UNCHANGED saving
    BY DEF EndMerge, Running
<1>2. /\ activity[d][k].job \in Jobs /\ activity[d][k].entry \in Entries
      /\ Offered(d, activity[d][k].entry.t) /\ k = "user" /\ activity[d][k] \in Merging
    BY <1>1, Recovering
<1>3. PICK e \in Entries, job \in Jobs, new \in Histories :
        /\ e = activity[d][k].entry /\ job = activity[d][k].job
        /\ new = activity[d][k].merged /\ Offered(d, e.t) /\ e.t \in Seals
    BY <1>2 DEF Offered, Merging
<1>4. /\ store \in [Devices -> Stores] /\ saving \in [Devices -> Histories \cup {None}]
      /\ overlapped \in [Devices -> SUBSET Seals]
      /\ \A c \in Devices : StoreOK(c)
    BY DEF Inv, StoresOK
<1>5. /\ e.t \in new.records /\ store[d].memory.records \subseteq new.records
      /\ store[d].memory.receipts \subseteq new.receipts
      /\ new.receipts \subseteq new.records \cup overlapped[d]
    <2>1. SaveOK(d, activity[d][k])
        BY <1>1, Busy DEF ActivityOK
    <2> QED  BY <1>3, <2>1 DEF SaveOK
<1>6. /\ store' \in [Devices -> Stores]
      /\ store'[d].disk = new /\ store'[d].memory = new
      /\ \A c \in Devices \ {d} : store'[c] = store[c]
    <2>1. store' = [store EXCEPT ![d] = [disk |-> new, memory |-> new]]
        BY <1>3 DEF EndMerge
    <2> QED  BY <1>4, <2>1 DEF Stores
<1>7. /\ overlapped' \in [Devices -> SUBSET Seals]
      /\ overlapped[d] \subseteq overlapped'[d]
      /\ saving[d] # None => e.t \in overlapped'[d]
      /\ \A c \in Devices \ {d} : overlapped'[c] = overlapped[c]
    <2>1. overlapped' = IF saving[d] = None THEN overlapped
                        ELSE [overlapped EXCEPT ![d] = @ \cup {e.t}]
        BY <1>3 DEF EndMerge
    <2> QED  BY <1>3, <1>4, <2>1
<1>8. new.records \subseteq store[d].memory.records \cup {e.t} \cup overlapped[d]
    <2>1. SaveOK(d, activity[d][k])
        BY <1>1, Busy DEF ActivityOK
    <2> QED  BY <1>3, <2>1 DEF SaveOK
<1>9. StoreOK(d)'
    <2>1. saving'[d] # None =>
            /\ saving'[d].receipts \subseteq store'[d].memory.receipts
            /\ saving'[d].records \subseteq store'[d].memory.records
            /\ store'[d].memory.records \subseteq saving'[d].records \cup overlapped'[d]
        BY <1>1, <1>4, <1>5, <1>6, <1>7, <1>8 DEF StoreOK
    <2>2. store'[d].memory.receipts \subseteq store'[d].disk.records \cup overlapped'[d]
        BY <1>5, <1>6, <1>7
    <2> QED  BY <1>6, <2>1, <2>2 DEF StoreOK, Has
<1>10. \A c \in Devices \ {d} : StoreOK(c)' /\ Has(c)' = Has(c)
    BY <1>1, <1>4, <1>6, <1>7 DEF StoreOK, Has
<1>11. StoresOK'
    BY <1>1, <1>4, <1>6, <1>7, <1>9, <1>10 DEF StoresOK
<1>12. Has(d) \subseteq Has(d)' /\ Merged(d, e.t)'
    BY <1>4, <1>5, <1>6, <1>7 DEF Has, Merged, StoreOK
<1> DEFINE a == [job |-> job, at |-> "consume", entry |-> e]
<1>13. Goes(d, k, a)
    BY <1>3 DEF EndMerge
<1>14. a \in Holding /\ a.at = "consume" /\ a.entry = e
    BY DEF Holding, Steps
<1> HIDE DEF a
<1>15. Offered(d, e.t)'
    BY <1>1, <1>3 DEF Offered, relay
<1>16. a \in Activities /\ ActivityOK(d, k, a, dest)'
    BY <1>2, <1>12, <1>14, <1>15 DEF ActivityOK, Activities, OwnSteps, Uploading
<1>17. ASSUME NEW c \in Devices, NEW j \in Kinds, activity[c][j].at = "save"
       PROVE  SaveOK(c, activity[c][j])' \/ activity'[c][j] # activity[c][j]
    <2>1. SaveOK(c, activity[c][j]) /\ j = "user"
        BY <1>17, Busy, Recovering DEF ActivityOK
    <2>2. CASE c = d
        <3>1. activity'[d][k] = a
            BY <1>13 DEF Goes, Inv, ActivitiesOK
        <3> QED  BY <1>2, <1>14, <1>17, <2>1, <2>2, <3>1
    <2>3. CASE c # d
        BY <1>6, <1>7, <2>1, <2>3 DEF SaveOK
    <2> QED  BY <2>2, <2>3
<1> QED  BY <1>1, <1>10, <1>11, <1>12, <1>13, <1>16, <1>17, StoreStep

LEMMA ConsumeTransferKeeps ==
    ASSUME NEW dest, Inv(dest), NEW d \in Devices, NEW k \in Kinds, ConsumeTransfer(d, k)
    PROVE  Inv(dest)'
<1> DEFINE e == activity[d][k].entry
<1>1. /\ UNCHANGED <<outbox, store, saving, overlapped, tries, late>> /\ RelayTypes
      /\ activity[d][k].at = "consume" /\ Handle(Request("consume", d, e))
    BY DEF ConsumeTransfer, Running, Inv
<1>2. /\ activity[d][k].at # "idle" /\ e \in Entries /\ e.t \in Seals
    BY <1>1, Recovering
<1>3. Merged(d, e.t)
    BY <1>1, Busy DEF ActivityOK
<1>4. Effect(dest)
    BY <1>1, <1>2, <1>3, HandleEffect DEF Effect
<1>5. CASE /\ view' = [view EXCEPT ![d].receive = FALSE, ![d].phase = "recovered"]
           /\ Goes(d, k, Idle)
    <2> DEFINE v == [view[d] EXCEPT !.receive = FALSE, !.phase = "recovered"]
    <2>1. view[d] \in Views /\ ViewOK(d, view[d])
        BY ViewFacts
    <2>2. v \in Views /\ v.found = view[d].found /\ v.phase = "recovered"
        BY <2>1 DEF Views, Phases
    <2>3. view' = [view EXCEPT ![d] = v]
        BY <1>5
    <2> HIDE DEF v
    <2>4. ViewOK(d, v)
        BY <1>3, <2>1, <2>2 DEF ViewOK, Merged
    <2> QED  BY <1>1, <1>4, <1>5, <2>2, <2>3, <2>4, IdleOK, ControllerStep
<1>6. CASE Throw(d, k)
    BY <1>1, <1>2, <1>4, <1>6, Thrown, ControllerStep
<1> QED  BY <1>5, <1>6 DEF ConsumeTransfer

------------------------------------------------------------------------------
(***************************************************************************)
(* Messages stored meanwhile, failures, and what happens elsewhere.        *)
(***************************************************************************)
LEMMA BeginApplyKeeps ==
    ASSUME NEW dest, Inv(dest), NEW d \in Devices, BeginApply(d)
    PROVE  Inv(dest)'
<1>1. /\ saving' = [saving EXCEPT ![d] = store[d].memory]
      /\ UNCHANGED <<relay, late, outbox, store, overlapped, tries, view>> /\ UNCHANGED activity
    BY DEF BeginApply
<1>2. /\ store \in [Devices -> Stores] /\ saving \in [Devices -> Histories \cup {None}]
      /\ overlapped \in [Devices -> SUBSET Seals]
      /\ \A c \in Devices : StoreOK(c)
    BY DEF Inv, StoresOK
<1>3. store[d].memory \in Histories
    BY <1>2 DEF Stores
<1>4. /\ saving' \in [Devices -> Histories \cup {None}] /\ saving'[d] = store[d].memory
      /\ \A c \in Devices \ {d} : saving'[c] = saving[c]
    BY <1>1, <1>2, <1>3
<1>5. StoreOK(d)'
    BY <1>1, <1>2, <1>3, <1>4 DEF StoreOK, Has
<1>6. \A c \in Devices \ {d} : StoreOK(c)'
    BY <1>1, <1>2, <1>4 DEF StoreOK, Has
<1>7. StoresOK'
    BY <1>1, <1>2, <1>4, <1>5, <1>6 DEF StoresOK
<1>8. \A c \in Devices : Has(c) \subseteq Has(c)'
    BY <1>1 DEF Has
<1>9. \A c \in Devices, j \in Kinds : activity[c][j].at = "save" => SaveOK(c, activity[c][j])'
    BY <1>1, Busy DEF ActivityOK, SaveOK
<1> QED  BY <1>1, <1>7, <1>8, <1>9, StoreStep

LEMMA EndApplyKeeps ==
    ASSUME NEW dest, Inv(dest), NEW d \in Devices, EndApply(d)
    PROVE  Inv(dest)'
<1>1. /\ saving[d] # None /\ saving' = [saving EXCEPT ![d] = None]
      /\ store' = [store EXCEPT ![d] =
           [disk |-> saving[d],
            memory |-> [records |-> saving[d].records, receipts |-> store[d].memory.receipts]]]
      /\ UNCHANGED <<relay, late, outbox, overlapped, tries, view>> /\ UNCHANGED activity
    BY DEF EndApply, Inv, StoresOK
<1>2. /\ store \in [Devices -> Stores] /\ saving \in [Devices -> Histories \cup {None}]
      /\ \A c \in Devices : StoreOK(c)
    BY DEF Inv, StoresOK
<1>3. PICK s \in Histories, old \in Stores : s = saving[d] /\ old = store[d]
    BY <1>1, <1>2
<1>4. PICK m \in Histories : /\ m = [records |-> s.records, receipts |-> old.memory.receipts]
                              /\ m.records = s.records /\ m.receipts = old.memory.receipts
    <2>1. [records |-> s.records, receipts |-> old.memory.receipts] \in Histories
        BY <1>3 DEF Stores, Histories
    <2> QED  BY <2>1
<1>5. PICK new \in Stores : /\ new.disk = s /\ new.memory = m
                            /\ store' = [store EXCEPT ![d] = new]
    <2>1. [disk |-> s, memory |-> m] \in Stores
        BY DEF Stores
    <2>2. store' = [store EXCEPT ![d] = [disk |-> s, memory |-> m]]
        BY <1>1, <1>3, <1>4
    <2> QED  BY <2>1, <2>2
<1>6. /\ store' \in [Devices -> Stores] /\ store'[d] = new
      /\ \A c \in Devices \ {d} : store'[c] = store[c]
    BY <1>2, <1>5
<1>7. /\ saving' \in [Devices -> Histories \cup {None}] /\ saving'[d] = None
      /\ \A c \in Devices \ {d} : saving'[c] = saving[c]
    BY <1>1, <1>2
<1>8. StoreOK(d)
    BY <1>2
\* What is taken out of the history was merged while the message was stored.
<1>9. /\ s.receipts \subseteq old.memory.receipts
      /\ s.records \subseteq old.memory.records
      /\ old.memory.records \subseteq s.records \cup overlapped[d]
      /\ old.disk.records = old.memory.records
      /\ old.memory.receipts \subseteq old.disk.records \cup overlapped[d]
    BY <1>1, <1>3, <1>8 DEF StoreOK, Has
<1>10. StoreOK(d)'
    BY <1>1, <1>4, <1>5, <1>6, <1>7, <1>9 DEF StoreOK, Has
<1>11. \A c \in Devices \ {d} : StoreOK(c)'
    BY <1>1, <1>2, <1>6, <1>7 DEF StoreOK, Has
<1>12. StoresOK'
    BY <1>1, <1>6, <1>7, <1>10, <1>11 DEF StoresOK, Inv
<1>13. \A c \in Devices : Has(c) \subseteq Has(c)'
    BY <1>1, <1>3, <1>4, <1>5, <1>6, <1>9 DEF Has
<1>14. ASSUME NEW c \in Devices, NEW j \in Kinds, activity[c][j].at = "save"
       PROVE  SaveOK(c, activity[c][j])'
    <2>1. SaveOK(c, activity[c][j])
        BY <1>14, Busy DEF ActivityOK
    <2>2. CASE c = d
        <3>1. /\ activity[d][j].entry.t \in activity[d][j].merged.records
              /\ old.memory.records \subseteq activity[d][j].merged.records
              /\ activity[d][j].merged.records
                    \subseteq old.memory.records \cup {activity[d][j].entry.t} \cup overlapped[d]
              /\ old.memory.receipts \subseteq activity[d][j].merged.receipts
              /\ activity[d][j].merged.receipts
                    \subseteq activity[d][j].merged.records \cup overlapped[d]
            BY <1>3, <2>1, <2>2 DEF SaveOK
        <3>2. /\ store'[d].memory.records = s.records
              /\ store'[d].memory.receipts = old.memory.receipts
            BY <1>4, <1>5, <1>6
        <3> QED  BY <1>1, <1>9, <2>2, <3>1, <3>2 DEF SaveOK
    <2>3. CASE c # d
        BY <1>1, <1>6, <2>1, <2>3 DEF SaveOK
    <2> QED  BY <2>2, <2>3
<1> QED  BY <1>1, <1>12, <1>13, <1>14, StoreStep

LEMMA LoseKeeps ==
    ASSUME NEW dest, Inv(dest), NEW d \in Devices, NEW k \in Kinds, Lose(d, k)
    PROVE  Inv(dest)'
<1>1. /\ RelayTypes /\ UNCHANGED <<outbox, store, saving, overlapped, tries, late>> /\ UNCHANGED relay
      /\ Throw(d, k) /\ activity[d][k].at # "idle"
    BY DEF Inv, Lose, Requesting, Uploading
<1>2. Effect(dest)
    BY <1>1, SameRows DEF Effect, relay, RelayTypes
<1> QED  BY <1>1, <1>2, Thrown, ControllerStep

(***************************************************************************)
(* A delayed request: what its sender knew when it sent it still holds     *)
(* whenever it arrives.                                                    *)
(***************************************************************************)
LEMMA DelayKeeps ==
    ASSUME NEW dest, Inv(dest), NEW d \in Devices, NEW k \in Kinds, Delay(d, k)
    PROVE  Inv(dest)'
<1> DEFINE at == activity[d][k].at
           e == activity[d][k].entry
           q == Request(at, d, e)
<1>1. /\ RelayTypes /\ UNCHANGED <<outbox, store, saving, overlapped, tries>> /\ UNCHANGED relay
      /\ Throw(d, k) /\ at # "idle" /\ at \in {"create", "finalize", "cancel", "consume"}
      /\ late' = late \cup {q}
    BY DEF Inv, Delay
<1>2. e \in Entries /\ (at = "create" => Made(d, e, dest)) /\ (at = "consume" => Merged(d, e.t))
    <2>1. CASE at = "consume"
        BY <2>1, Recovering, Busy DEF ActivityOK
    <2>2. CASE at # "consume"
        BY <1>1, <2>2, OwnEntry DEF OwnSteps, Uploading
    <2> QED  BY <2>1, <2>2
<1>3. q \in Requests /\ q.kind = at /\ q.by = d /\ q.entry = e
    BY <1>1, <1>2 DEF Request, Requests
<1> HIDE DEF q
<1>4. RequestOK(q, dest)
    BY <1>2, <1>3 DEF RequestOK
<1>5. TriesOK' /\ RelayTypes' /\ dest \in [Seals -> Devices]
    BY <1>1 DEF Inv, TriesOK, RelayTypes, relay
<1>6. Grown
    BY <1>1 DEF Inv, TriesOK, Grown, Has, relay
<1>7. LateOK(dest)'
    <2>1. late \subseteq Requests /\ \A r \in late : RequestOK(r, dest)
        BY DEF Inv, LateOK
    <2>2. ASSUME NEW r, RequestOK(r, dest) PROVE RequestOK(r, dest)'
        BY <1>1, <2>2 DEF RequestOK, Made, Merged, Has
    <2>3. \A r \in late' : r \in Requests /\ RequestOK(r, dest)
        BY <1>1, <1>3, <1>4, <2>1
    <2> QED  BY <2>2, <2>3 DEF LateOK
<1>8. ViewsOK'
    <2>1. PICK v \in Views : view' = [view EXCEPT ![d] = v] /\ ViewOK(d, v)
        BY <1>1, Thrown
    <2> QED  BY <1>6, <2>1, ViewGrows, ViewsGrow
<1>9. ActivitiesOK(dest)'
    <2>1. PICK a \in Activities : Goes(d, k, a) /\ ActivityOK(d, k, a, dest)
        BY <1>1, Thrown
    <2>2. \A c \in Devices : \A b : SaveOK(c, b) => SaveOK(c, b)'
        BY <1>1 DEF SaveOK
    <2>3. ActivityOK(d, k, a, dest)'
        <3>1. a.at = "save" => SaveOK(d, a)'
            BY <2>1, <2>2 DEF ActivityOK
        <3>2. TriesOK /\ tries' = tries
            BY <1>1 DEF Inv
        <3> QED  BY <1>5, <1>6, <2>1, <3>1, <3>2, ActivityGrows
    <2>4. \A c \in Devices, j \in Kinds : activity[c][j].at = "save" =>
            SaveOK(c, activity[c][j])' \/ activity'[c][j] # activity[c][j]
        BY <1>1, SavesStay
    <2> QED  BY <1>1, <1>5, <1>6, <2>1, <2>3, <2>4, ActivitiesGrow
<1>10. StoresOK' /\ OutboxesOK(dest)'
    BY <1>1, <1>5, <1>6, OutboxesGrow DEF Inv, StoresOK, StoreOK, Has
<1>11. RelayKeeps
    BY <1>1, SameRows DEF relay, RelayTypes
<1>12. RowsOK(dest)'
    BY <1>5, <1>6, <1>11, EffectOnRows DEF Effect
<1> QED  BY <1>5, <1>7, <1>8, <1>9, <1>10, <1>12 DEF Inv

LEMMA ArriveKeeps ==
    ASSUME NEW dest, Inv(dest), NEW q \in late, Arrive(q)
    PROVE  Inv(dest)'
<1>1. /\ UNCHANGED <<outbox, store, saving, overlapped, tries>> /\ UNCHANGED view /\ UNCHANGED activity
      /\ late' \subseteq late /\ RelayTypes
      /\ (Handle(q) \/ UNCHANGED relay)
    BY DEF Arrive, Inv
<1>2. q \in Requests /\ RequestOK(q, dest)
    BY DEF Inv, LateOK
<1>3. /\ q.by \in Devices /\ q.entry \in Entries /\ q.entry.t \in Seals
      /\ q = Request(q.kind, q.by, q.entry)
    BY <1>2 DEF Requests, Request, Entries
<1>4. CASE Handle(q)
    <2>1. \/ RelayKeeps
          \/ q.kind = "create" /\ RelayCreates(q.by, q.entry)
          \/ q.kind = "consume" /\ RelayConsumes(q.by, q.entry.t)
        <3>1. ASSUME NEW kind, NEW d, NEW e, q = Request(kind, d, e) PROVE Handle(Request(kind, d, e))
            BY <1>4, <3>1
        <3> QED  BY <1>1, <1>3, <3>1, HandleEffect
    <2>2. Effect(dest)
        BY <1>2, <1>3, <2>1 DEF Effect, RequestOK
    <2> QED  BY <1>1, <2>2, ControllerStep
<1>5. CASE UNCHANGED relay
    <2>1. Effect(dest)
        BY <1>1, <1>5, SameRows DEF Effect, relay, RelayTypes
    <2> QED  BY <1>1, <2>1, ControllerStep
<1> QED  BY <1>1, <1>4, <1>5

LEMMA ArriveChunkKeeps ==
    ASSUME NEW dest, Inv(dest), NEW u \in arriving, ArriveChunk(u)
    PROVE  Inv(dest)'
<1>1. /\ UNCHANGED <<outbox, store, saving, overlapped, tries, late>> /\ UNCHANGED view /\ UNCHANGED activity
      /\ RelayTypes /\ u \in Relay!Uploads /\ (Relay!Store(u) \/ Relay!Discard(u))
    BY DEF ArriveChunk, Inv, RelayTypes
<1>2. RelayKeeps
    <2>1. CASE Relay!Store(u)
        BY <1>1, <2>1, StoreEffect
    <2>2. CASE Relay!Discard(u)
        BY <1>1, <2>2, SameRows DEF Relay!Discard, RelayTypes
    <2> QED  BY <1>1, <2>1, <2>2
<1>3. Effect(dest)
    BY <1>2 DEF Effect
<1> QED  BY <1>1, <1>3, ControllerStep

LEMMA ElsewhereKeeps ==
    ASSUME NEW dest, Inv(dest), Elsewhere
    PROVE  Inv(dest)'
<1>1. /\ UNCHANGED <<outbox, store, saving, overlapped, tries, late>> /\ UNCHANGED view /\ UNCHANGED activity
      /\ RelayTypes
    BY DEF Elsewhere, Inv
<1>2. Effect(dest)
    BY <1>1, ElsewhereEffect DEF Effect
<1> QED  BY <1>1, <1>2, ControllerStep

(***************************************************************************)
(* A crash leaves the history on disk, which has all that was merged.      *)
(***************************************************************************)
LEMMA CrashKeeps ==
    ASSUME NEW dest, Inv(dest), NEW d \in Devices, Crash(d)
    PROVE  Inv(dest)'
<1>1. /\ view' = [view EXCEPT ![d] = Fresh]
      /\ activity' = [activity EXCEPT ![d] = [k \in Kinds |-> Idle]]
      /\ store' = [store EXCEPT ![d].memory = store[d].disk]
      /\ saving' = [saving EXCEPT ![d] = None]
      /\ UNCHANGED <<relay, late, outbox, overlapped, tries>>
    BY DEF Crash
<1>2. /\ store \in [Devices -> Stores] /\ saving \in [Devices -> Histories \cup {None}]
      /\ overlapped \in [Devices -> SUBSET Seals]
      /\ \A c \in Devices : StoreOK(c)
    BY DEF Inv, StoresOK
<1>3. /\ store' \in [Devices -> Stores] /\ saving' \in [Devices -> Histories \cup {None}]
      /\ store'[d].disk = store[d].disk /\ store'[d].memory = store[d].disk
      /\ saving'[d] = None
      /\ \A c \in Devices \ {d} : store'[c] = store[c] /\ saving'[c] = saving[c]
    <2>1. PICK n \in Stores : /\ n = [store[d] EXCEPT !.memory = store[d].disk]
                              /\ n.disk = store[d].disk /\ n.memory = store[d].disk
        <3> DEFINE m == [store[d] EXCEPT !.memory = store[d].disk]
        <3>1. m \in Stores /\ m.disk = store[d].disk /\ m.memory = store[d].disk
            BY <1>2 DEF Stores
        <3> QED  BY <3>1
    <2>2. store' = [store EXCEPT ![d] = n]
        BY <1>1, <2>1
    <2> QED  BY <1>1, <1>2, <2>1, <2>2
<1>4. StoresOK'
    <2>1. StoreOK(d)'
        BY <1>1, <1>2, <1>3 DEF StoreOK, Has
    <2>2. \A c \in Devices \ {d} : StoreOK(c)'
        BY <1>1, <1>2, <1>3 DEF StoreOK, Has
    <2> QED  BY <1>1, <1>2, <1>3, <2>1, <2>2 DEF StoresOK
<1>5. TriesOK' /\ RelayTypes' /\ dest \in [Seals -> Devices]
    BY <1>1 DEF Inv, TriesOK, RelayTypes, relay
<1>6. Grown
    BY <1>1, <1>3 DEF Inv, TriesOK, Grown, Has, relay
<1>7. ViewsOK'
    <2>1. Fresh \in Views /\ ViewOK(d, Fresh)'
        BY DEF Fresh, Views, Phases, ViewOK
    <2> QED  BY <1>1, <1>6, <2>1, ViewsGrow
<1>8. ActivitiesOK(dest)'
    <2>1. /\ activity \in [Devices -> [Kinds -> Activities]]
          /\ \A c \in Devices, k \in Kinds : ActivityOK(c, k, activity[c][k], dest)
        BY DEF Inv, ActivitiesOK
    <2>2. Idle \in Activities /\ \A k \in Kinds : ActivityOK(d, k, Idle, dest)'
        BY DEF Idle, Activities, ActivityOK, OwnSteps, Uploading
    <2>3. activity' \in [Devices -> [Kinds -> Activities]]
        BY <1>1, <2>1, <2>2
    <2>4. ASSUME NEW k \in Kinds PROVE ActivityOK(d, k, activity[d][k], dest)'
        BY <1>1, <2>1, <2>2
    <2>5. ASSUME NEW c \in Devices \ {d}, NEW k \in Kinds
          PROVE  ActivityOK(c, k, activity[c][k], dest)'
        <3>1. activity'[c][k] = activity[c][k] /\ tries'[c] = tries[c]
            BY <1>1, <2>1
        <3>2. activity[c][k].at = "save" => SaveOK(c, activity[c][k])'
            BY <1>1, <1>3, <2>1 DEF ActivityOK, SaveOK
        <3> QED  BY <1>5, <1>6, <2>1, <3>1, <3>2, ActivityGrows DEF Inv
    <2> QED  BY <2>3, <2>4, <2>5 DEF ActivitiesOK
<1>9. OutboxesOK(dest)' /\ LateOK(dest)'
    BY <1>1, <1>5, <1>6, OutboxesGrow, LateGrows
<1>10. RelayKeeps
    BY <1>1, SameRows DEF Inv, relay, RelayTypes
<1>11. RowsOK(dest)'
    BY <1>5, <1>6, <1>10, EffectOnRows DEF Effect
<1> QED  BY <1>4, <1>5, <1>7, <1>8, <1>9, <1>11 DEF Inv

------------------------------------------------------------------------------
IInv == \E dest : Inv(dest)

LEMMA InitInv == Init => IInv
<1> SUFFICES ASSUME Init PROVE IInv
    OBVIOUS
<1>1. \E dest : dest \in [Seals -> Devices]
    <2>1. CASE Devices = {}
        <3>1. Seals = {}
            BY <2>1 DEF Seals
        <3>2. [s \in Seals |-> s] \in [Seals -> Devices]
            BY <3>1
        <3> QED  BY <3>2
    <2>2. CASE Devices # {}
        <3>1. PICK x : x \in Devices
            BY <2>2
        <3>2. [s \in Seals |-> x] \in [Seals -> Devices]
            BY <3>1
        <3> QED  BY <3>2
    <2> QED  BY <2>1, <2>2
<1>2. PICK dest : dest \in [Seals -> Devices]
    BY <1>1
<1>3. RelayTypes
    BY DEF Init, Relay!Init, RelayTypes
<1>4. RowsOK(dest)
    BY DEF Init, Relay!Init, RowsOK, RowOK
<1>5. OutboxesOK(dest) /\ LateOK(dest) /\ TriesOK
    BY DEF Init, OutboxesOK, LateOK, TriesOK
<1>6. StoresOK
    <2>1. NoHistory \in Histories /\ [disk |-> NoHistory, memory |-> NoHistory] \in Stores
        BY DEF NoHistory, Histories, Stores
    <2>2. /\ store \in [Devices -> Stores] /\ saving \in [Devices -> Histories \cup {None}]
          /\ overlapped \in [Devices -> SUBSET Seals]
        BY <2>1 DEF Init
    <2>3. ASSUME NEW d \in Devices PROVE StoreOK(d)
        BY DEF Init, StoreOK, NoHistory
    <2> QED  BY <2>2, <2>3 DEF StoresOK
<1>7. ViewsOK
    BY DEF Init, ViewsOK, ViewOK, Fresh, Views, Phases
<1>8. ActivitiesOK(dest)
    BY IdleOK DEF Init, ActivitiesOK
<1> QED  BY <1>2, <1>3, <1>4, <1>5, <1>6, <1>7, <1>8 DEF IInv, Inv

LEMMA NextInv == IInv /\ [Next]_vars => IInv'
<1> SUFFICES ASSUME NEW dest, Inv(dest), [Next]_vars PROVE \E dest2 : Inv(dest2)'
    BY DEF IInv
<1>1. CASE Next
    <2>1. ASSUME NEW d \in Devices, Refresh(d) \/ Receive(d) \/ Stop(d) \/ Crash(d)
          PROVE  Inv(dest)'
        BY <2>1, RefreshKeeps, ReceiveKeeps, StopKeeps, CrashKeeps
    <2>2. ASSUME NEW d \in Devices, BeginApply(d) \/ EndApply(d)
          PROVE  Inv(dest)'
        BY <2>2, BeginApplyKeeps, EndApplyKeeps
    <2>3. ASSUME NEW d \in Devices, NEW x \in Devices, Share(d, x)
          PROVE  Inv(dest)'
        BY <2>3, ShareKeeps
    <2>4. ASSUME NEW d \in Devices, NEW k \in Kinds, Step(d, k)
          PROVE  \E dest2 : Inv(dest2)'
        <3>1. CASE WriteOutbox(d, k)
            BY <3>1, WriteOutboxKeeps
        <3>2. CASE RegisterKey(d, k) \/ FetchKeys(d, k) \/ ListReady(d, k)
            BY <3>2, RegisterKeyKeeps, FetchKeysKeeps, ListReadyKeeps
        <3>3. CASE CreateTransfer(d, k) \/ SendChunk(d, k) \/ ChunkAnswered(d, k)
            BY <3>3, CreateTransferKeeps, SendChunkKeeps, ChunkAnsweredKeeps
        <3>4. CASE FinalizeTransfer(d, k) \/ ClearUploaded(d, k)
            BY <3>4, FinalizeTransferKeeps, ClearUploadedKeeps
        <3>5. CASE CancelTransfer(d, k) \/ EraseStopped(d, k)
            BY <3>5, CancelTransferKeeps, EraseStoppedKeeps
        <3>6. CASE \/ DownloadChunk(d, k) \/ ConsumeTransfer(d, k)
                   \/ BeginMerge(d, k) \/ EndMerge(d, k)
            BY <3>6, DownloadChunkKeeps, BeginMergeKeeps, EndMergeKeeps, ConsumeTransferKeeps
        <3>7. CASE Lose(d, k) \/ Delay(d, k)
            BY <3>7, LoseKeeps, DelayKeeps
        <3> QED  BY <2>4, <3>1, <3>2, <3>3, <3>4, <3>5, <3>6, <3>7 DEF Step
    <2>5. ASSUME NEW q \in late, Arrive(q)
          PROVE  Inv(dest)'
        BY <2>5, ArriveKeeps
    <2>6. ASSUME NEW u \in arriving, ArriveChunk(u)
          PROVE  Inv(dest)'
        BY <2>6, ArriveChunkKeeps
    <2>7. CASE Elsewhere
        BY <2>7, ElsewhereKeeps
    <2> QED  BY <1>1, <2>1, <2>2, <2>3, <2>4, <2>5, <2>6, <2>7 DEF Next
<1>2. CASE UNCHANGED vars
    <2>1. /\ UNCHANGED <<outbox, store, saving, overlapped, tries, late>> /\ UNCHANGED view
          /\ UNCHANGED activity /\ RelayTypes
        BY <1>2 DEF vars, Inv
    <2>2. Effect(dest)
        BY <1>2, <2>1, SameRows DEF Effect, vars, relay, RelayTypes
    <2> QED  BY <2>1, <2>2, ControllerStep
<1> QED  BY <1>1, <1>2

LEMMA SpecInv == Spec => []IInv
BY InitInv, NextInv, PTL DEF Spec

(***************************************************************************)
(* The controllers keep to their phases and the durable files to what      *)
(* their encodings accept, whatever fails.                                 *)
(***************************************************************************)
THEOREM TypesHold == Spec => []TypeOK
<1>1. IInv => TypeOK
    <2> SUFFICES ASSUME NEW dest, Inv(dest) PROVE TypeOK
        BY DEF IInv
    <2> SUFFICES ASSUME NEW d \in Devices
                 PROVE  /\ view[d].phase \in Phases
                        /\ view[d].keys \subseteq Devices
                        /\ view[d].found \in Seals \cup {None}
                        /\ outbox[d] # None => /\ outbox[d].t \in Seals
                                               /\ outbox[d].to \in Devices \ {d}
                        /\ store[d].memory.records \cup store[d].memory.receipts \subseteq Seals
                        /\ store[d].disk.receipts \subseteq store[d].memory.receipts
                        /\ tries[d] \in 0 .. MaxTries
        BY DEF TypeOK
    <2>1. view[d].phase \in Phases /\ view[d].keys \subseteq Devices
          /\ view[d].found \in Seals \cup {None}
        BY ViewFacts DEF Views
    <2>2. outbox[d] # None => outbox[d].t \in Seals /\ outbox[d].to \in Devices \ {d}
        BY DEF Inv, OutboxesOK, Made, Entries
    <2>3. store[d] \in Stores /\ StoreOK(d) /\ tries[d] \in 0 .. MaxTries
        BY DEF Inv, StoresOK, TriesOK
    <2>4. store[d].memory.records \cup store[d].memory.receipts \subseteq Seals
        BY <2>3 DEF Stores, Histories
    <2> QED  BY <2>1, <2>2, <2>3, <2>4 DEF StoreOK
<1> QED  BY <1>1, SpecInv, PTL

(***************************************************************************)
(* The entry in the outbox is never refused as a conflict: no id of a      *)
(* device is used for two transfers, also when a request of an upload that *)
(* was given up arrives after the next one began.                          *)
(***************************************************************************)
THEOREM RetriesAreExact == Spec => []RetryIsExact
<1>1. IInv => RetryIsExact
    <2> SUFFICES ASSUME NEW dest, Inv(dest), NEW d \in Devices, outbox[d] # None,
                        transfers[outbox[d].t] # None
                 PROVE  SameRow(d, outbox[d])
        BY DEF IInv, RetryIsExact
    <2>1. Made(d, outbox[d], dest) /\ outbox[d].t \in Seals
        BY DEF Inv, OutboxesOK, Made, Entries
    <2>2. RowOK(outbox[d].t, dest)
        BY <2>1 DEF Inv, RowsOK
    <2> QED  BY <2>1, <2>2 DEF SameRow, RowOK, Made
<1> QED  BY <1>1, SpecInv, PTL

(***************************************************************************)
(* What the relay has dropped as consumed is in the history of its         *)
(* destination on disk, and only a message whose storing overlapped the    *)
(* merge can have taken it out again.                                      *)
(***************************************************************************)
THEOREM ConsumedIsStored == Spec => []ConsumedIsMerged
<1>1. IInv => ConsumedIsMerged
    <2> SUFFICES ASSUME NEW dest, Inv(dest), NEW t \in Seals, transfers[t] # None,
                        transfers[t].state = "consumed"
                 PROVE  t \in Has(transfers[t].to)
        BY DEF IInv, ConsumedIsMerged, Has
    <2> QED  BY DEF Inv, RowsOK, RowOK, Merged
<1> QED  BY <1>1, SpecInv, PTL

(***************************************************************************)
(* "Recovered" is shown only over a history that was merged and is on      *)
(* disk, but for the same message.                                         *)
(***************************************************************************)
THEOREM RecoveredIsStored == Spec => []RecoveredIsMerged
<1>1. IInv => RecoveredIsMerged
    BY ViewFacts DEF IInv, RecoveredIsMerged, ViewOK, Has
<1> QED  BY <1>1, SpecInv, PTL
=============================================================================

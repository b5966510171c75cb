------------------------ MODULE HistoryRelay_proofs ------------------------
(***************************************************************************)
(* Proofs about the relay.  A step changes each transfer in one of five    *)
(* ways, and only a create request adds one; type correctness, the fate of *)
(* the ciphertext and the life of a transfer follow from the way of each   *)
(* transfer alone, the limit per destination and the removal of devices    *)
(* from it and the guards of Create, Revoke and Ban.                       *)
(***************************************************************************)
EXTENDS HistoryRelay, FiniteSetTheorems, TLAPS

Stays(v) == transfers'[v] = transfers[v] /\ chunks'[v] = chunks[v]

Closes(v) ==
    /\ Live(v)
    /\ \E why \in Closings : transfers'[v] = [transfers[v] EXCEPT !.state = why]
    /\ chunks'[v] = NoChunks

Grows(v) ==
    /\ Live(v)
    /\ transfers[v].state = "uploading"
    /\ \E i \in Indices, b \in Ciphertexts :
         /\ i < ChunkCount[transfers[v].manifest]
         /\ transfers'[v] = [transfers[v] EXCEPT !.chunks = @ + 1, !.bytes = @ + Size[b]]
         /\ chunks'[v] = [j \in DOMAIN chunks[v] \cup {i} |-> IF j = i THEN b ELSE chunks[v][j]]

Readies(v) ==
    /\ Live(v)
    /\ transfers[v].state = "uploading"
    /\ Whole(v)
    /\ transfers'[v] = [transfers[v] EXCEPT !.state = "ready"]
    /\ chunks'[v] = chunks[v]

Changes(v) == Stays(v) \/ Closes(v) \/ Grows(v) \/ Readies(v)

Appears(v) ==
    /\ transfers[v] = None
    /\ chunks'[v] = chunks[v]
    /\ \E d, x \in Devices, c \in Channels, m \in Manifests :
         /\ Creatable(d, v, c, x)
         /\ transfers'[v] = [channel |-> c, from |-> d, to |-> x, manifest |-> m,
                             state |-> "uploading", chunks |-> 0, bytes |-> 0]

Kept(v) == Stays(v) /\ v \notin Lapsed

Ways ==
    \/ \A v \in Transfers : Changes(v)
    \/ /\ UNCHANGED <<revoked, banned>>
       /\ \E t \in Transfers :
            Appears(t) /\ \A v \in Transfers \ {t} : Kept(v) \/ Closes(v)

------------------------------------------------------------------------------
(***************************************************************************)
(* What the sweep at the head of every handler does to one transfer.       *)
(***************************************************************************)
LEMMA SweepOfOne ==
    ASSUME TypeOK, NEW v \in Transfers
    PROVE  /\ v \notin Lapsed => Swept[v] = transfers[v] /\ Emptied(Lapsed)[v] = chunks[v]
           /\ v \in Lapsed =>
                /\ Live(v)
                /\ Swept[v] = [transfers[v] EXCEPT !.state = "expired"]
                /\ Emptied(Lapsed)[v] = NoChunks
  BY DEF Swept, Closed, Emptied, Lapsed

LEMMA SweptRows ==
    ASSUME TypeOK, NEW v \in Transfers
    PROVE  /\ Swept[v] = None <=> transfers[v] = None
           /\ Swept[v] # None /\ Swept[v].state # "expired" => v \notin Lapsed
  <1>1. CASE v \notin Lapsed
    BY <1>1, SweepOfOne
  <1>2. CASE v \in Lapsed
    <2>1. transfers[v] \in Rows /\ Swept[v] = [transfers[v] EXCEPT !.state = "expired"]
      BY <1>2, SweepOfOne DEF TypeOK, Live
    <2>2. Swept[v] \in Rows /\ Swept[v].state = "expired"
      BY <2>1 DEF Rows, Closings
    <2> QED  BY <2>1, <2>2, NoRowAssumption
  <1> QED  BY <1>1, <1>2

(***************************************************************************)
(* A transfer that is in a state of progress after the sweep was not swept.*)
(***************************************************************************)
LEMMA NotSwept ==
    ASSUME TypeOK, NEW t \in Transfers, NEW s \in InProgress, InState(t, s)
    PROVE  /\ t \notin Lapsed
           /\ Swept[t] = transfers[t]
           /\ transfers[t] \in Rows
           /\ transfers[t].state = s
           /\ Live(t)
  <1>1. Swept[t] # None /\ Swept[t].state = s
    BY DEF InState
  <1>2. s # "expired"
    BY DEF InProgress
  <1>3. t \notin Lapsed /\ Swept[t] = transfers[t]
    BY <1>1, <1>2, SweptRows, SweepOfOne
  <1> QED  BY <1>1, <1>3 DEF TypeOK, Live

(***************************************************************************)
(* The sweep closes what has lapsed and leaves the rest.                   *)
(***************************************************************************)
LEMMA SweepChanges ==
    ASSUME TypeOK, NEW v \in Transfers,
           transfers'[v] = Swept[v], chunks'[v] = Emptied(Lapsed)[v]
    PROVE  Kept(v) \/ Closes(v)
  BY SweepOfOne DEF Kept, Stays, Closes, Closings

LEMMA CancelChanges ==
    ASSUME TypeOK, NEW S \in SUBSET Transfers, \A t \in S : Live(t), CancelActive(S),
           NEW v \in Transfers
    PROVE  /\ v \in S => Closes(v) /\ transfers'[v] = [transfers[v] EXCEPT !.state = "canceled"]
           /\ v \notin S => Stays(v)
  BY DEF CancelActive, Closed, Emptied, Stays, Closes, Closings

------------------------------------------------------------------------------
(***************************************************************************)
(* The actions, one by one.                                                *)
(***************************************************************************)
LEMMA CreateChanges ==
    ASSUME TypeOK, NEW d \in Devices, NEW t \in Transfers, NEW c \in Channels,
           NEW x \in Devices, NEW m \in Manifests, Create(d, t, c, x, m)
    PROVE  Appears(t) /\ \A v \in Transfers \ {t} : Kept(v) \/ Closes(v)
  <1>1. Swept[t] = None /\ Creatable(d, t, c, x)
    BY DEF Create, Creatable
  <1>2. transfers[t] = None /\ t \notin Lapsed
    BY <1>1, SweptRows DEF Lapsed, Live
  <1>3. chunks'[t] = chunks[t]
    BY <1>2, SweepOfOne DEF Create
  <1>4. DOMAIN Swept = Transfers
    BY DEF Swept, Closed
  <1>5. transfers'[t] = [channel |-> c, from |-> d, to |-> x, manifest |-> m,
                         state |-> "uploading", chunks |-> 0, bytes |-> 0]
    BY <1>4 DEF Create
  <1>6. Appears(t)
    BY <1>1, <1>2, <1>3, <1>5 DEF Appears
  <1>7. ASSUME NEW v \in Transfers \ {t} PROVE Kept(v) \/ Closes(v)
    <2>1. transfers'[v] = Swept[v] /\ chunks'[v] = Emptied(Lapsed)[v]
      BY <1>4, <1>7 DEF Create
    <2> QED  BY <2>1, SweepChanges
  <1> QED  BY <1>6, <1>7

LEMMA StoreChanges ==
    ASSUME TypeOK, NEW u \in Uploads, Store(u), NEW v \in Transfers
    PROVE  Changes(v)
  <1> USE DEF Changes, Kept
  <1>1. CASE ~Storable(u)
    <2>1. transfers'[v] = Swept[v] /\ chunks'[v] = Emptied(Lapsed)[v]
      BY <1>1 DEF Store
    <2> QED  BY <2>1, SweepChanges
  <1>2. CASE Storable(u)
    <2>1. u.of \in Transfers /\ u.index \in Indices /\ u.body \in Ciphertexts
      BY DEF Uploads
    <2>2. DOMAIN Swept = Transfers /\ DOMAIN Emptied(Lapsed) = Transfers
      BY DEF Swept, Closed, Emptied
    <2>3. CASE v # u.of
      <3>1. transfers'[v] = Swept[v] /\ chunks'[v] = Emptied(Lapsed)[v]
        BY <1>2, <2>2, <2>3 DEF Store
      <3> QED  BY <3>1, SweepChanges
    <2>4. CASE v = u.of
      <3>1. InState(v, "uploading") /\ u.index < ChunkCount[Swept[v].manifest]
        BY <1>2, <2>4 DEF Storable
      <3>2. /\ Swept[v] = transfers[v] /\ transfers[v] \in Rows
            /\ transfers[v].state = "uploading" /\ Live(v) /\ v \notin Lapsed
        BY <3>1, NotSwept DEF InProgress
      <3>3. Emptied(Lapsed)[v] = chunks[v]
        BY <3>2, SweepOfOne
      <3>4. transfers'[v] = [transfers[v] EXCEPT !.chunks = @ + 1, !.bytes = @ + Size[u.body]]
        <4>1. transfers' = [Swept EXCEPT ![u.of].chunks = @ + 1, ![u.of].bytes = @ + Size[u.body]]
          BY <1>2 DEF Store
        <4>2. transfers'[v] = [Swept[v] EXCEPT !.chunks = @ + 1, !.bytes = @ + Size[u.body]]
          BY <4>1, <2>1, <2>2, <2>4, <3>2 DEF Rows
        <4> QED  BY <4>2, <3>2
      <3>5. chunks'[v] =
              [j \in DOMAIN chunks[v] \cup {u.index} |-> IF j = u.index THEN u.body ELSE chunks[v][j]]
        BY <1>2, <2>1, <2>2, <2>4, <3>3 DEF Store
      <3>6. Grows(v)
        BY <2>1, <3>1, <3>2, <3>4, <3>5 DEF Grows
      <3> QED  BY <3>6
    <2> QED  BY <2>3, <2>4
  <1> QED  BY <1>1, <1>2

LEMMA FinalizeChanges ==
    ASSUME TypeOK, NEW d \in Devices, NEW t \in Transfers, Finalize(d, t), NEW v \in Transfers
    PROVE  Changes(v)
  <1> USE DEF Changes, Kept
  <1>1. DOMAIN Swept = Transfers
    BY DEF Swept, Closed
  <1>2. CASE v # t
    <2>1. transfers'[v] = Swept[v] /\ chunks'[v] = Emptied(Lapsed)[v]
      BY <1>1, <1>2 DEF Finalize
    <2> QED  BY <2>1, SweepChanges
  <1>3. CASE v = t
    <2>1. InState(v, "uploading") /\ Whole(v)
      BY <1>3 DEF Finalize, Finalizable
    <2>2. Swept[v] = transfers[v] /\ transfers[v].state = "uploading" /\ Live(v) /\ v \notin Lapsed
      BY <2>1, NotSwept DEF InProgress
    <2>3. transfers'[v] = [transfers[v] EXCEPT !.state = "ready"]
      BY <1>1, <1>3, <2>2 DEF Finalize
    <2>4. chunks'[v] = chunks[v]
      BY <2>2, SweepOfOne DEF Finalize
    <2> QED  BY <2>1, <2>2, <2>3, <2>4 DEF Readies
  <1> QED  BY <1>2, <1>3

LEMMA ConsumeChanges ==
    ASSUME TypeOK, NEW d \in Devices, NEW t \in Transfers, Consume(d, t), NEW v \in Transfers
    PROVE  Changes(v)
  <1> USE DEF Changes, Kept
  <1>1. DOMAIN Swept = Transfers
    BY DEF Swept, Closed
  <1>2. CASE v # t
    <2>1. transfers'[v] = Swept[v] /\ chunks'[v] = Emptied(Lapsed)[v]
      BY <1>1, <1>2 DEF Consume, Emptied
    <2> QED  BY <2>1, SweepChanges
  <1>3. CASE v = t
    <2>1. InState(v, "ready")
      BY <1>3 DEF Consume, Consumable
    <2>2. Swept[v] = transfers[v] /\ Live(v)
      BY <2>1, NotSwept DEF InProgress
    <2>3. transfers'[v] = [transfers[v] EXCEPT !.state = "consumed"]
      BY <1>1, <1>3, <2>2 DEF Consume
    <2>4. chunks'[v] = NoChunks
      BY <1>3 DEF Consume, Emptied
    <2> QED  BY <2>2, <2>3, <2>4 DEF Closes, Closings
  <1> QED  BY <1>2, <1>3

LEMMA CancelRequestChanges ==
    ASSUME TypeOK, NEW d \in Devices, NEW t \in Transfers, Cancel(d, t), NEW v \in Transfers
    PROVE  Changes(v)
  <1> USE DEF Changes, Kept
  <1>1. DOMAIN Swept = Transfers
    BY DEF Swept, Closed
  <1>2. CASE v # t
    <2>1. transfers'[v] = Swept[v] /\ chunks'[v] = Emptied(Lapsed)[v]
      BY <1>1, <1>2 DEF Cancel, Emptied
    <2> QED  BY <2>1, SweepChanges
  <1>3. CASE v = t
    <2>1. InState(v, "uploading")
      BY <1>3 DEF Cancel, Cancelable
    <2>2. Swept[v] = transfers[v] /\ Live(v)
      BY <2>1, NotSwept DEF InProgress
    <2>3. transfers'[v] = [transfers[v] EXCEPT !.state = "canceled"]
      BY <1>1, <1>3, <2>2 DEF Cancel
    <2>4. chunks'[v] = NoChunks
      BY <1>3 DEF Cancel, Emptied
    <2> QED  BY <2>2, <2>3, <2>4 DEF Closes, Closings
  <1> QED  BY <1>2, <1>3

(***************************************************************************)
(* Every step of the relay changes its transfers in the ways above.        *)
(***************************************************************************)
LEMMA EveryStep == TypeOK /\ [Next]_vars => Ways
  <1> SUFFICES ASSUME TypeOK, [Next]_vars PROVE Ways
    OBVIOUS
  <1>0. ASSUME UNCHANGED <<transfers, chunks>> PROVE Ways
    BY <1>0 DEF Ways, Changes, Stays
  <1>1. ASSUME NEW d \in Devices, Register(d) PROVE Ways
    BY <1>0, <1>1 DEF Register
  <1>2. ASSUME NEW d \in Devices, Revoke(d) PROVE Ways
    <2>1. CancelActive(Involving(d)) /\ \A t \in Involving(d) : Live(t)
      BY <1>2 DEF Revoke, Involving
    <2> QED  BY <2>1, CancelChanges DEF Ways, Changes, Involving
  <1>3. ASSUME NEW d \in Devices, NEW t \in Transfers, NEW c \in Channels, NEW x \in Devices,
               NEW m \in Manifests, Create(d, t, c, x, m)
        PROVE  Ways
    BY <1>3, CreateChanges DEF Ways, Create
  <1>4. ASSUME NEW u \in Uploads, Admit(u) PROVE Ways
    BY <1>0, <1>4 DEF Admit
  <1>5. ASSUME NEW u \in arriving, Store(u) PROVE Ways
    BY <1>5, StoreChanges DEF Ways, TypeOK
  <1>6. ASSUME NEW u \in arriving, Discard(u) PROVE Ways
    BY <1>0, <1>6 DEF Discard
  <1>7. ASSUME NEW d \in Devices, NEW t \in Transfers, Finalize(d, t) PROVE Ways
    BY <1>7, FinalizeChanges DEF Ways
  <1>8. ASSUME NEW d \in Devices, NEW t \in Transfers, Consume(d, t) PROVE Ways
    BY <1>8, ConsumeChanges DEF Ways
  <1>9. ASSUME NEW d \in Devices, NEW t \in Transfers, Cancel(d, t) PROVE Ways
    BY <1>9, CancelRequestChanges DEF Ways
  <1>10. ASSUME NEW t \in Transfers, PassDeadline(t) PROVE Ways
    BY <1>0, <1>10 DEF PassDeadline
  <1>11. CASE Sweep
    BY <1>11, SweepChanges DEF Sweep, Ways, Changes, Kept
  <1>12. CASE Ban
    <2>1. CancelActive({t \in Transfers : Live(t)})
      BY <1>12 DEF Ban
    <2> QED  BY <2>1, CancelChanges DEF Ways, Changes
  <1>13. CASE Unban
    BY <1>0, <1>13 DEF Unban
  <1>14. CASE UNCHANGED vars
    BY <1>0, <1>14 DEF vars
  <1> QED  BY <1>1, <1>2, <1>3, <1>4, <1>5, <1>6, <1>7, <1>8, <1>9, <1>10, <1>11, <1>12,
              <1>13, <1>14 DEF Next

------------------------------------------------------------------------------
(***************************************************************************)
(* Types.  Tables says that the variables are tables over the right keys,  *)
(* RowOK that one row and its chunks fit its declaration.                  *)
(***************************************************************************)
Tables ==
    /\ transfers = [v \in Transfers |-> transfers[v]]
    /\ DOMAIN chunks = Transfers
    /\ overdue \subseteq Transfers
    /\ arriving \subseteq Uploads
    /\ keyed \subseteq Devices
    /\ revoked \subseteq Devices
    /\ banned \in BOOLEAN

RowOK(v) ==
    /\ transfers[v] \in Rows \cup {None}
    /\ transfers[v] = None => chunks[v] = NoChunks
    /\ transfers[v] # None =>
         \E S \in SUBSET (0 .. ChunkCount[transfers[v].manifest] - 1) :
           chunks[v] \in [S -> Ciphertexts]

LEMMA TypeOKParts == TypeOK <=> Tables /\ \A v \in Transfers : RowOK(v)
  BY DEF TypeOK, Tables, RowOK

LEMMA NoChunksOK == NoChunks \in [{} -> Ciphertexts]
  BY DEF NoChunks

LEMMA TablesKept == TypeOK /\ [Next]_vars => Tables'
  <1> SUFFICES ASSUME TypeOK, [Next]_vars PROVE Tables'
    OBVIOUS
  <1> USE DEF TypeOK, Tables, Swept, Closed, Emptied, CancelActive
  <1>1. ASSUME NEW d \in Devices, Register(d) PROVE Tables'
    BY <1>1 DEF Register
  <1>2. ASSUME NEW d \in Devices, Revoke(d) PROVE Tables'
    BY <1>2 DEF Revoke
  <1>3. ASSUME NEW d \in Devices, NEW t \in Transfers, NEW c \in Channels, NEW x \in Devices,
               NEW m \in Manifests, Create(d, t, c, x, m)
        PROVE  Tables'
    BY <1>3 DEF Create
  <1>4. ASSUME NEW u \in Uploads, Admit(u) PROVE Tables'
    BY <1>4 DEF Admit
  <1>5. ASSUME NEW u \in arriving, Store(u) PROVE Tables'
    BY <1>5 DEF Store
  <1>6. ASSUME NEW u \in arriving, Discard(u) PROVE Tables'
    BY <1>6 DEF Discard
  <1>7. ASSUME NEW d \in Devices, NEW t \in Transfers, Finalize(d, t) PROVE Tables'
    BY <1>7 DEF Finalize
  <1>8. ASSUME NEW d \in Devices, NEW t \in Transfers, Consume(d, t) PROVE Tables'
    BY <1>8 DEF Consume
  <1>9. ASSUME NEW d \in Devices, NEW t \in Transfers, Cancel(d, t) PROVE Tables'
    BY <1>9 DEF Cancel
  <1>10. ASSUME NEW t \in Transfers, PassDeadline(t) PROVE Tables'
    BY <1>10 DEF PassDeadline
  <1>11. CASE Sweep
    BY <1>11 DEF Sweep
  <1>12. CASE Ban
    BY <1>12 DEF Ban
  <1>13. CASE Unban
    BY <1>13 DEF Unban
  <1>14. CASE UNCHANGED vars
    BY <1>14 DEF vars
  <1> QED  BY <1>1, <1>2, <1>3, <1>4, <1>5, <1>6, <1>7, <1>8, <1>9, <1>10, <1>11, <1>12,
              <1>13, <1>14 DEF Next

LEMMA ChangedRowOK ==
    ASSUME NEW v \in Transfers, RowOK(v), Changes(v)
    PROVE  RowOK(v)'
  <1> USE DEF RowOK
  <1>1. CASE Stays(v)
    BY <1>1 DEF Stays
  <1>2. CASE Closes(v)
    <2>1. PICK why \in Closings : transfers'[v] = [transfers[v] EXCEPT !.state = why]
      BY <1>2 DEF Closes
    <2>2. transfers[v] \in Rows
      BY <1>2 DEF Closes, Live
    <2>3. transfers'[v] \in Rows
      BY <2>1, <2>2 DEF Rows
    <2>4. chunks'[v] \in [{} -> Ciphertexts]
      BY <1>2, NoChunksOK DEF Closes
    <2> QED  BY <2>3, <2>4, NoRowAssumption
  <1>3. CASE Grows(v)
    <2>1. PICK i \in Indices, b \in Ciphertexts :
            /\ i < ChunkCount[transfers[v].manifest]
            /\ transfers'[v] = [transfers[v] EXCEPT !.chunks = @ + 1, !.bytes = @ + Size[b]]
            /\ chunks'[v] = [j \in DOMAIN chunks[v] \cup {i} |-> IF j = i THEN b ELSE chunks[v][j]]
      BY <1>3 DEF Grows
    <2>2. transfers[v] \in Rows
      BY <1>3 DEF Grows, Live
    <2>3. Size[b] \in Nat /\ i \in Nat
      BY RelayAssumption
    <2>4. transfers'[v] \in Rows /\ transfers'[v].manifest = transfers[v].manifest
      <3>1. transfers[v].chunks + 1 \in Nat /\ transfers[v].bytes + Size[b] \in Nat
        BY <2>2, <2>3 DEF Rows
      <3>2. \A n, k \in Nat :
              LET r == [transfers[v] EXCEPT !.chunks = n, !.bytes = k]
              IN  r \in Rows /\ r.manifest = transfers[v].manifest
        BY <2>2 DEF Rows
      <3> QED  BY <2>1, <3>1, <3>2
    <2>5. PICK S \in SUBSET (0 .. ChunkCount[transfers[v].manifest] - 1) :
            chunks[v] \in [S -> Ciphertexts]
      BY <2>2, NoRowAssumption
    <2>6. ChunkCount[transfers[v].manifest] \in Nat
      BY <2>2, RelayAssumption DEF Rows
    <2>7. S \cup {i} \in SUBSET (0 .. ChunkCount[transfers[v].manifest] - 1)
      BY <2>1, <2>3, <2>6
    <2>8. chunks'[v] \in [S \cup {i} -> Ciphertexts]
      BY <2>1, <2>5
    <2> QED  BY <2>4, <2>7, <2>8, NoRowAssumption
  <1>4. CASE Readies(v)
    <2>1. transfers[v] \in Rows
      BY <1>4 DEF Readies, Live
    <2>2. transfers'[v] \in Rows /\ transfers'[v].manifest = transfers[v].manifest
      BY <1>4, <2>1 DEF Readies, Rows, InProgress
    <2> QED  BY <1>4, <2>1, <2>2, NoRowAssumption DEF Readies
  <1> QED  BY <1>1, <1>2, <1>3, <1>4 DEF Changes

LEMMA NewRowOK ==
    ASSUME NEW v \in Transfers, RowOK(v), Appears(v)
    PROVE  RowOK(v)'
  <1>1. transfers'[v] \in Rows
    BY DEF Appears, Rows, InProgress
  <1>2. chunks'[v] = NoChunks
    BY DEF Appears, RowOK
  <1> QED  BY <1>1, <1>2, NoChunksOK, NoRowAssumption DEF RowOK

LEMMA InitTypeOK == Init => TypeOK
  BY DEF Init, TypeOK

LEMMA NextTypeOK == TypeOK /\ [Next]_vars => TypeOK'
  <1> SUFFICES ASSUME TypeOK, [Next]_vars PROVE TypeOK'
    OBVIOUS
  <1>1. Tables' /\ \A v \in Transfers : RowOK(v)
    BY TablesKept, TypeOKParts
  <1>2. ASSUME NEW v \in Transfers PROVE RowOK(v)'
    <2>1. CASE Changes(v)
      BY <1>1, <2>1, ChangedRowOK
    <2>2. CASE Appears(v)
      BY <1>1, <2>2, NewRowOK
    <2> QED  BY <2>1, <2>2, EveryStep DEF Ways, Changes, Kept
  <1>3. (Tables /\ \A v \in Transfers : RowOK(v))'
    BY <1>1, <1>2
  <1> QED  BY <1>3, TypeOKParts DEF TypeOK, Tables, RowOK

(***************************************************************************)
(* The tables keep their shape, and every chunk an index below the         *)
(* declared count, whatever arrives in whatever order.                     *)
(***************************************************************************)
THEOREM TypesHold == Spec => []TypeOK
  BY InitTypeOK, NextTypeOK, PTL DEF Spec

------------------------------------------------------------------------------
(***************************************************************************)
(* The life of one transfer, from the ways it may change.                  *)
(***************************************************************************)
LEMMA LifeOfOne ==
    ASSUME TypeOK, [Next]_vars, NEW v \in Transfers
    PROVE  /\ RowOK(v) /\ RowOK(v)'
           /\ Changes(v) \/ Appears(v)
  <1>1. RowOK(v)
    BY TypeOKParts
  <1>2. TypeOK'
    BY NextTypeOK
  <1>3. RowOK(v)'
    BY <1>2 DEF TypeOK, RowOK
  <1>4. Changes(v) \/ Appears(v)
    BY EveryStep DEF Ways, Changes, Kept
  <1> QED  BY <1>1, <1>3, <1>4

LEMMA NextNothingLeftBehind ==
    TypeOK /\ NothingLeftBehind /\ [Next]_vars => NothingLeftBehind'
  <1> SUFFICES ASSUME TypeOK, NothingLeftBehind, [Next]_vars, NEW v \in Transfers,
                      chunks'[v] # NoChunks
               PROVE  Live(v)'
    BY DEF NothingLeftBehind
  <1>1. transfers'[v] # None
    BY LifeOfOne DEF RowOK
  <1>2. CASE Stays(v)
    BY <1>2 DEF Stays, NothingLeftBehind, Live
  <1>3. CASE Grows(v)
    <2>1. transfers[v] \in Rows
      BY <1>3, LifeOfOne DEF Grows, Live, RowOK
    <2>2. transfers'[v].state = "uploading"
      BY <1>3, <2>1 DEF Grows, Rows
    <2> QED  BY <1>1, <2>2 DEF Live, InProgress
  <1>4. CASE Readies(v)
    <2>1. transfers[v] \in Rows
      BY <1>4, LifeOfOne DEF Readies, Live, RowOK
    <2>2. transfers'[v].state = "ready"
      BY <1>4, <2>1 DEF Readies, Rows
    <2> QED  BY <1>1, <2>2 DEF Live, InProgress
  <1>5. CASE Appears(v)
    BY <1>5, LifeOfOne DEF Appears, RowOK
  <1> QED  BY <1>2, <1>3, <1>4, <1>5, LifeOfOne DEF Changes, Closes

(***************************************************************************)
(* As many distinct indices below n as n are all of them.                  *)
(***************************************************************************)
LEMMA AllIndices ==
    ASSUME NEW n \in Nat, NEW S \in SUBSET (0 .. n - 1), Cardinality(S) = n
    PROVE  S = 0 .. n - 1
  <1>1. IsFiniteSet(0 .. n - 1) /\ Cardinality(0 .. n - 1) = n
    <2>1. 0 \in Int /\ n - 1 \in Int
      OBVIOUS
    <2>2. Cardinality(0 .. n - 1) = IF 0 > n - 1 THEN 0 ELSE n - 1 - 0 + 1
      BY <2>1, FS_Interval
    <2> QED  BY <2>1, <2>2, FS_Interval
  <1>2. Cardinality(0 .. n - 1) = Cardinality(S) => 0 .. n - 1 = S
    BY <1>1, FS_Subset
  <1> QED  BY <1>1, <1>2

LEMMA NextReadyIsWhole ==
    TypeOK /\ ReadyIsWhole /\ [Next]_vars => ReadyIsWhole'
  <1> SUFFICES ASSUME TypeOK, ReadyIsWhole, [Next]_vars, NEW v \in Transfers,
                      transfers'[v] # None, transfers'[v].state = "ready"
               PROVE  /\ DOMAIN chunks'[v] = 0 .. ChunkCount[transfers'[v].manifest] - 1
                      /\ BytesIn(chunks'[v]) = TotalBytes[transfers'[v].manifest]
    BY DEF ReadyIsWhole, BytesIn
  <1>1. transfers[v] # None => transfers[v] \in Rows
    BY LifeOfOne DEF RowOK
  <1>2. CASE Stays(v)
    BY <1>2 DEF Stays, ReadyIsWhole
  <1>3. CASE Closes(v)
    BY <1>1, <1>3 DEF Closes, Closings, Live, Rows
  <1>4. CASE Grows(v)
    BY <1>1, <1>4 DEF Grows, Live, Rows
  <1>5. CASE Readies(v)
    <2>1. transfers'[v].manifest = transfers[v].manifest /\ transfers[v] # None
      BY <1>1, <1>5 DEF Readies, Live, Rows
    <2>2. chunks'[v] = chunks[v]
      BY <1>5 DEF Readies
    <2>3. PICK S \in SUBSET (0 .. ChunkCount[transfers[v].manifest] - 1) :
            chunks[v] \in [S -> Ciphertexts]
      BY <2>1, LifeOfOne DEF RowOK
    <2>4. ChunkCount[transfers[v].manifest] \in Nat
      BY <1>1, <2>1, RelayAssumption DEF Rows
    <2>5. Cardinality(S) = ChunkCount[transfers[v].manifest]
      BY <1>5, <2>3 DEF Readies, Whole
    <2>6. S = 0 .. ChunkCount[transfers[v].manifest] - 1
      BY <2>4, <2>5, AllIndices
    <2>7. BytesIn(chunks[v]) = TotalBytes[transfers[v].manifest]
      BY <1>5 DEF Readies, Whole
    <2> QED  BY <2>1, <2>2, <2>3, <2>6, <2>7
  <1>6. CASE Appears(v)
    BY <1>6 DEF Appears
  <1> QED  BY <1>2, <1>3, <1>4, <1>5, <1>6, LifeOfOne DEF Changes

(***************************************************************************)
(* A transfer that exists keeps its declaration, and is live after a step  *)
(* only if it was before.                                                  *)
(***************************************************************************)
LEMMA ChangesKeep ==
    ASSUME NEW v \in Transfers, RowOK(v), Changes(v), transfers[v] # None
    PROVE  /\ transfers'[v] # None
           /\ transfers'[v].channel = transfers[v].channel
           /\ transfers'[v].from = transfers[v].from
           /\ transfers'[v].to = transfers[v].to
           /\ transfers'[v].manifest = transfers[v].manifest
           /\ transfers[v].state \in Closings => transfers'[v] = transfers[v]
           /\ transfers[v].state = "ready" => transfers'[v].state \in Closings \cup {"ready"}
           /\ transfers[v].state = "ready" /\ transfers'[v].state = "ready" =>
                chunks'[v] = chunks[v]
           /\ Live(v)' => Live(v)
  <1>1. transfers[v] \in Rows
    BY DEF RowOK
  <1>2. CASE Stays(v)
    BY <1>2 DEF Stays, Live
  <1>3. CASE Closes(v)
    <2>1. PICK why \in Closings : transfers'[v] = [transfers[v] EXCEPT !.state = why]
      BY <1>3 DEF Closes
    <2>2. transfers'[v] \in Rows /\ transfers'[v].state = why
      BY <1>1, <2>1 DEF Rows
    <2>3. transfers[v].state \in InProgress
      BY <1>3 DEF Closes, Live
    <2> QED  BY <1>1, <1>3, <2>1, <2>2, <2>3, NoRowAssumption DEF Closings, InProgress, Rows, Closes
  <1>4. CASE Grows(v)
    <2>1. PICK b \in Ciphertexts :
            transfers'[v] = [transfers[v] EXCEPT !.chunks = @ + 1, !.bytes = @ + Size[b]]
      BY <1>4 DEF Grows
    <2>2. transfers'[v] # None
      <3>1. RowOK(v)'
        BY ChangedRowOK
      <3>2. chunks'[v] # NoChunks
        BY <1>4 DEF Grows, NoChunks
      <3> QED  BY <3>1, <3>2 DEF RowOK
    <2>3. /\ transfers'[v].channel = transfers[v].channel
          /\ transfers'[v].from = transfers[v].from
          /\ transfers'[v].to = transfers[v].to
          /\ transfers'[v].manifest = transfers[v].manifest
          /\ transfers'[v].state = transfers[v].state
      BY <1>1, <2>1 DEF Rows
    <2>4. transfers[v].state = "uploading" /\ Live(v)
      BY <1>4 DEF Grows
    <2> QED  BY <2>2, <2>3, <2>4 DEF Closings
  <1>5. CASE Readies(v)
    <2>1. transfers'[v] \in Rows
      BY <1>1, <1>5 DEF Readies, Rows, InProgress
    <2> QED  BY <1>1, <1>5, <2>1, NoRowAssumption DEF Readies, Rows, Closings
  <1> QED  BY <1>2, <1>3, <1>4, <1>5 DEF Changes

LEMMA NextOneInProgress ==
    TypeOK /\ OneInProgress /\ [Next]_vars => OneInProgress'
  <1> SUFFICES ASSUME TypeOK, OneInProgress, [Next]_vars
               PROVE  OneInProgress'
    OBVIOUS
  <1>1. CASE \A v \in Transfers : Changes(v)
    <2> SUFFICES ASSUME NEW v \in Transfers, NEW w \in Transfers, v # w, Live(v)', Live(w)',
                        transfers'[v].to = transfers'[w].to
                 PROVE  transfers'[v].channel # transfers'[w].channel
      BY DEF OneInProgress
    <2>1. ASSUME NEW t \in Transfers, Live(t)'
          PROVE  /\ Live(t) /\ transfers'[t].to = transfers[t].to
                 /\ transfers'[t].channel = transfers[t].channel
      <3>1. transfers[t] # None
        BY <1>1, <2>1, LifeOfOne DEF Changes, Stays, Closes, Grows, Readies, Live
      <3> QED  BY <1>1, <2>1, <3>1, LifeOfOne, ChangesKeep
    <2> QED  BY <2>1 DEF OneInProgress
  <1>2. ASSUME NEW t \in Transfers, Appears(t),
               \A v \in Transfers \ {t} : Kept(v) \/ Closes(v)
        PROVE  OneInProgress'
    <2>1. ASSUME NEW v \in Transfers \ {t}, Live(v)'
          PROVE  Live(v) /\ transfers'[v] = transfers[v] /\ v \notin Lapsed
      <3>1. ~Closes(v)
        BY <2>1, LifeOfOne DEF Closes, Live, Closings, InProgress, RowOK, Rows
      <3> QED  BY <1>2, <2>1, <3>1 DEF Kept, Stays, Live
    <2>2. PICK x \in Devices, c \in Channels :
            Free(x, c) /\ transfers'[t].to = x /\ transfers'[t].channel = c
      BY <1>2 DEF Appears, Creatable
    <2>3. ASSUME NEW v \in Transfers \ {t}, Live(v)', transfers'[v].to = transfers'[t].to
          PROVE  transfers'[v].channel # transfers'[t].channel
      <3>1. Swept[v] = transfers[v] /\ Live(v) /\ transfers'[v] = transfers[v]
        BY <2>1, <2>3, SweepOfOne
      <3>2. InState(v, "uploading") \/ InState(v, "ready")
        BY <3>1 DEF InState, Live, InProgress
      <3> QED  BY <2>2, <2>3, <3>1, <3>2 DEF Free
    <2>4. ASSUME NEW v \in Transfers, NEW w \in Transfers, v # w, Live(v)', Live(w)',
                 transfers'[v].to = transfers'[w].to
          PROVE  transfers'[v].channel # transfers'[w].channel
      <3>1. CASE v = t
        BY <2>3, <2>4, <3>1
      <3>2. CASE w = t
        BY <2>3, <2>4, <3>2
      <3>3. CASE v # t /\ w # t
        BY <2>1, <2>4, <3>3 DEF OneInProgress
      <3> QED  BY <3>1, <3>2, <3>3
    <2> QED  BY <2>4 DEF OneInProgress
  <1> QED  BY <1>1, <1>2, EveryStep DEF Ways

(***************************************************************************)
(* No step takes the flags of a removed device or account away but Unban,  *)
(* and while the account is banned nothing is live.                        *)
(***************************************************************************)
LEMMA NextNothingForTheRemoved ==
    TypeOK /\ NothingForTheRemoved /\ [Next]_vars => NothingForTheRemoved'
  <1> SUFFICES ASSUME TypeOK, NothingForTheRemoved, [Next]_vars, NEW v \in Transfers, Live(v)'
               PROVE  /\ ~banned'
                      /\ transfers'[v].from \notin revoked'
                      /\ transfers'[v].to \notin revoked'
    BY DEF NothingForTheRemoved
  <1>1. CASE Appears(v)
    <2>1. PICK d, x \in Devices, c \in Channels :
            /\ Reachable(d, x)
            /\ transfers'[v].from = d /\ transfers'[v].to = x
      BY <1>1 DEF Appears, Creatable
    <2>2. UNCHANGED <<revoked, banned>>
      <3>1. ~Changes(v)
        BY <1>1, <2>1 DEF Appears, Changes, Stays, Closes, Grows, Readies, Live
      <3> QED  BY <3>1, EveryStep DEF Ways
    <2> QED  BY <2>1, <2>2 DEF Reachable, Active
  <1>2. CASE Changes(v) /\ transfers[v] # None
    <2>1. /\ Live(v) /\ transfers'[v].from = transfers[v].from
          /\ transfers'[v].to = transfers[v].to
      BY <1>2, LifeOfOne, ChangesKeep
    <2>2. ~banned /\ transfers[v].from \notin revoked /\ transfers[v].to \notin revoked
      BY <2>1 DEF NothingForTheRemoved
    <2>3. ASSUME NEW d \in Devices, Revoke(d)
          PROVE  d # transfers[v].from /\ d # transfers[v].to
      <3>1. CancelActive(Involving(d)) /\ \A t \in Involving(d) : Live(t)
        BY <2>3 DEF Revoke, Involving
      <3>2. v \in Involving(d) => transfers'[v] = [transfers[v] EXCEPT !.state = "canceled"]
        BY <3>1, CancelChanges DEF Involving
      <3>3. transfers[v] \in Rows
        BY <1>2, LifeOfOne DEF RowOK
      <3>4. v \notin Involving(d)
        BY <3>2, <3>3 DEF Rows, Live, InProgress
      <3> QED  BY <2>1, <3>4 DEF Involving
    <2>4. ~Ban
      <3>1. ASSUME Ban PROVE FALSE
        <4>1. CancelActive({t \in Transfers : Live(t)})
          BY <3>1 DEF Ban
        <4>2. transfers'[v] = [transfers[v] EXCEPT !.state = "canceled"]
          BY <2>1, <4>1, CancelChanges
        <4>3. transfers[v] \in Rows
          BY <1>2, LifeOfOne DEF RowOK
        <4> QED  BY <4>2, <4>3 DEF Rows, Live, InProgress
      <3> QED  BY <3>1
    <2>5. (\E d \in Devices : Revoke(d)) \/ Ban \/ Unban \/ UNCHANGED <<revoked, banned>>
      BY DEF Next, vars, Register, Create, Admit, Store, Discard, Finalize, Consume, Cancel,
             PassDeadline, Sweep
    <2>6. ASSUME NEW d \in Devices, Revoke(d)
          PROVE  revoked' = revoked \cup {d} /\ banned' = banned
      BY <2>6 DEF Revoke
    <2>7. Unban => ~banned' /\ revoked' = revoked
      BY DEF Unban
    <2> QED  BY <2>1, <2>2, <2>3, <2>4, <2>5, <2>6, <2>7
  <1>3. CASE Changes(v) /\ transfers[v] = None
    BY <1>3 DEF Changes, Stays, Closes, Grows, Readies, Live
  <1> QED  BY <1>1, <1>2, <1>3, LifeOfOne

------------------------------------------------------------------------------
(***************************************************************************)
(* The inductive invariant: each part needs the types, none needs another. *)
(***************************************************************************)
RelayInv ==
    TypeOK /\ NothingLeftBehind /\ ReadyIsWhole /\ OneInProgress /\ NothingForTheRemoved

LEMMA RelayInvHolds == Spec => []RelayInv
  <1>1. Init => RelayInv
    BY InitTypeOK
       DEF Init, RelayInv, NothingLeftBehind, ReadyIsWhole, OneInProgress, NothingForTheRemoved,
           Live
  <1>2. RelayInv /\ [Next]_vars => RelayInv'
    BY NextTypeOK, NextNothingLeftBehind, NextReadyIsWhole, NextOneInProgress,
       NextNothingForTheRemoved DEF RelayInv
  <1> QED  BY <1>1, <1>2, PTL DEF Spec

(***************************************************************************)
(* No ciphertext outlives its transfer, also when an upload that was       *)
(* admitted before the transfer closed is handled after it.                *)
(***************************************************************************)
THEOREM NoCiphertextLeftBehind == Spec => []NothingLeftBehind
  BY RelayInvHolds, PTL DEF RelayInv

(***************************************************************************)
(* Whatever a destination is offered is there in full.                     *)
(***************************************************************************)
THEOREM OfferedIsWhole == Spec => []ReadyIsWhole
  BY RelayInvHolds, PTL DEF RelayInv

(***************************************************************************)
(* A destination has at most one transfer of a channel in progress, for    *)
(* any number of source devices that create at any time.                   *)
(***************************************************************************)
THEOREM OneTransferPerDestination == Spec => []OneInProgress
  BY RelayInvHolds, PTL DEF RelayInv

(***************************************************************************)
(* Revocations and bans leave no transfer in progress that involves what   *)
(* they removed, and none begins afterwards.                               *)
(***************************************************************************)
THEOREM RemovedDevicesAreCutOff == Spec => []NothingForTheRemoved
  BY RelayInvHolds, PTL DEF RelayInv

(***************************************************************************)
(* Declarations are immutable, closed transfers stay as they were closed,  *)
(* and what is ready is frozen until it is closed.                         *)
(***************************************************************************)
THEOREM LifecycleIsOneWay == Spec => ClosedStaysClosed
  <1> DEFINE Keeps ==
        \A t \in Transfers :
            transfers[t] # None =>
              /\ transfers'[t] # None
              /\ \A f \in {"channel", "from", "to", "manifest"} :
                   transfers'[t][f] = transfers[t][f]
              /\ transfers[t].state \in Closings => transfers'[t] = transfers[t]
              /\ transfers[t].state = "ready" =>
                   transfers'[t].state \in Closings \cup {"ready"}
              /\ transfers[t].state = "ready" /\ transfers'[t].state = "ready" =>
                   chunks'[t] = chunks[t]
  <1>1. TypeOK /\ [Next]_vars => Keeps
    <2> SUFFICES ASSUME TypeOK, [Next]_vars, NEW t \in Transfers, transfers[t] # None
                 PROVE  /\ transfers'[t] # None
                        /\ \A f \in {"channel", "from", "to", "manifest"} :
                             transfers'[t][f] = transfers[t][f]
                        /\ transfers[t].state \in Closings => transfers'[t] = transfers[t]
                        /\ transfers[t].state = "ready" =>
                             transfers'[t].state \in Closings \cup {"ready"}
                        /\ transfers[t].state = "ready" /\ transfers'[t].state = "ready" =>
                             chunks'[t] = chunks[t]
      OBVIOUS
    <2>1. Changes(t)
      BY LifeOfOne DEF Appears
    <2>2. transfers[t] \in Rows /\ transfers'[t] \in Rows \cup {None}
      BY LifeOfOne DEF RowOK
    <2> QED  BY <2>1, <2>2, LifeOfOne, ChangesKeep, NoRowAssumption DEF Rows
  <1> QED  BY <1>1, TypesHold, PTL DEF Spec, ClosedStaysClosed
==============================================================================

---------------------------- MODULE HistoryRelay ----------------------------
(***************************************************************************)
(* The relay of encrypted history (server/src/server.js,                   *)
(* .../mls/history-recovery/...): one device of an account uploads its     *)
(* sealed history in chunks, another device of the same account reads and  *)
(* consumes it.  The devices here are those of one account: every handler  *)
(* compares the account of the session with that of the transfer.          *)
(*                                                                         *)
(* A handler is one atomic step, with one exception: the upload of a chunk *)
(* passes authRequired before express.raw awaits its body, so its handler  *)
(* runs on a session that was checked earlier (Admit, then Store).  Every  *)
(* handler first closes the transfers whose expires_at has passed; what is *)
(* refused or answered without a further change is the action Sweep.       *)
(***************************************************************************)
EXTENDS Integers, FiniteSets, Functions

CONSTANTS
    Devices,        \* the media devices of the account
    Channels,       \* the encrypted text channels
    Transfers,      \* the transfer ids a source device chooses from
    Manifests,      \* the signed manifests
    ChunkCount,     \* the number of chunks a create request declares
    TotalBytes,     \* the number of bytes it declares
    Ciphertexts,    \* the chunk bodies
    Size,           \* the length of each body
    Indices,        \* the chunk indices requests name
    MaxArriving,    \* bound: uploads whose body is on its way
    None            \* SQL NULL

ASSUME RelayAssumption ==
    /\ ChunkCount \in [Manifests -> Nat \ {0}]
    /\ TotalBytes \in [Manifests -> Nat \ {0}]
    /\ Size \in [Ciphertexts -> Nat \ {0}]
    /\ Indices \subseteq Nat
    /\ MaxArriving \in Nat

VARIABLES
    transfers,      \* history_recovery_transfers
    chunks,         \* history_recovery_transfer_chunks: index -> ciphertext
    overdue,        \* the transfers in progress whose expires_at has passed
    arriving,       \* chunk uploads between authRequired and their handler
    keyed,          \* the devices with a row in history_recovery_device_keys
    revoked,        \* the devices with revoked_at set
    banned          \* whether the account has an active row in bans

vars == <<transfers, chunks, overdue, arriving, keyed, revoked, banned>>

------------------------------------------------------------------------------
InProgress == {"uploading", "ready"}

Closings == {"consumed", "canceled", "expired"}

Rows == [channel : Channels, from : Devices, to : Devices, manifest : Manifests,
         state : InProgress \cup Closings, chunks : Nat, bytes : Nat]

ASSUME NoRowAssumption == None \notin Rows

Uploads == [by : Devices, of : Transfers, index : Indices, body : Ciphertexts]

NoChunks == << >>

Active(d) == d \notin revoked /\ ~banned

Live(t) == transfers[t] # None /\ transfers[t].state \in InProgress

BytesIn(f) == SumFunction([i \in DOMAIN f |-> Size[f[i]]])

(***************************************************************************)
(* Closing a transfer sets its state and deletes its chunks.               *)
(***************************************************************************)
Closed(S, why) ==
    [t \in Transfers |-> IF t \in S THEN [transfers[t] EXCEPT !.state = why] ELSE transfers[t]]

\* Mutant of Emptied: only the row is updated.
EmptiedNever(S) == chunks

Emptied(S) == [t \in Transfers |-> IF t \in S THEN NoChunks ELSE chunks[t]]

(***************************************************************************)
(* compactExpiredHistoryRecoveryTransfers, which every handler calls first.*)
(***************************************************************************)
Lapsed == {t \in overdue : Live(t)}

Swept == Closed(Lapsed, "expired")

InState(t, state) == Swept[t] # None /\ Swept[t].state = state

------------------------------------------------------------------------------
Init ==
    /\ transfers = [t \in Transfers |-> None]
    /\ chunks = [t \in Transfers |-> NoChunks]
    /\ overdue = {}
    /\ arriving = {}
    /\ keyed = {}
    /\ revoked = {}
    /\ banned = FALSE

(***************************************************************************)
(* POST /mls/history-recovery/keys: the first binding of a device stays.   *)
(***************************************************************************)
Register(d) ==
    /\ Active(d)
    /\ d \notin keyed
    /\ keyed' = keyed \cup {d}
    /\ UNCHANGED <<transfers, chunks, overdue, arriving, revoked, banned>>

\* Mutant of Free: a transfer that is ready does not count.
FreeOfUploads(x, c) ==
    \A t \in Transfers :
        InState(t, "uploading") => Swept[t].to # x \/ Swept[t].channel # c

Free(x, c) ==
    \A t \in Transfers :
        InState(t, "uploading") \/ InState(t, "ready") =>
            Swept[t].to # x \/ Swept[t].channel # c

(***************************************************************************)
(* POST /channels/:channelId/mls/history-recovery/transfers with a new id. *)
(* A known id is answered with its row, or 409 if it names other data.     *)
(***************************************************************************)
Reachable(d, x) == Active(d) /\ x # d /\ x \in keyed \ revoked

Creatable(d, t, c, x) == Reachable(d, x) /\ Swept[t] = None /\ Free(x, c)

Create(d, t, c, x, m) ==
    /\ Creatable(d, t, c, x)
    /\ transfers' = [Swept EXCEPT ![t] =
         [channel |-> c, from |-> d, to |-> x, manifest |-> m,
          state |-> "uploading", chunks |-> 0, bytes |-> 0]]
    /\ chunks' = Emptied(Lapsed)
    /\ overdue' = {}
    /\ UNCHANGED <<arriving, keyed, revoked, banned>>

(***************************************************************************)
(* PUT .../chunks/:chunkIndex: Admit is its authRequired, Store or Discard *)
(* its handler after the body has been read.  Discard stands for a refusal *)
(* of durableStorageRequired, which comes before the transfers are swept,  *)
(* and for a connection that breaks.                                       *)
(***************************************************************************)
Admit(u) ==
    /\ Active(u.by)
    /\ u \notin arriving
    /\ Cardinality(arriving) < MaxArriving
    /\ arriving' = arriving \cup {u}
    /\ UNCHANGED <<transfers, chunks, overdue, keyed, revoked, banned>>

\* Mutant of Storable: the index may be the declared count.
StorableBeyond(u) ==
    /\ InState(u.of, "uploading")
    /\ Swept[u.of].from = u.by
    /\ u.index <= ChunkCount[Swept[u.of].manifest]
    /\ u.index \notin DOMAIN chunks[u.of]
    /\ Swept[u.of].bytes + Size[u.body] <= TotalBytes[Swept[u.of].manifest]

\* Mutant of Storable: the state of the transfer is not compared.
StorableAnytime(u) ==
    /\ Swept[u.of] # None
    /\ Swept[u.of].from = u.by
    /\ u.index < ChunkCount[Swept[u.of].manifest]
    /\ u.index \notin DOMAIN chunks[u.of]
    /\ Swept[u.of].bytes + Size[u.body] <= TotalBytes[Swept[u.of].manifest]

Storable(u) ==
    /\ InState(u.of, "uploading")
    /\ Swept[u.of].from = u.by
    /\ u.index < ChunkCount[Swept[u.of].manifest]
    /\ u.index \notin DOMAIN chunks[u.of]
    /\ Swept[u.of].bytes + Size[u.body] <= TotalBytes[Swept[u.of].manifest]

Store(u) ==
    /\ u \in arriving
    /\ arriving' = arriving \ {u}
    /\ overdue' = {}
    /\ IF Storable(u)
       THEN /\ transfers' = [Swept EXCEPT ![u.of].chunks = @ + 1,
                                          ![u.of].bytes = @ + Size[u.body]]
            /\ chunks' = [Emptied(Lapsed) EXCEPT ![u.of] =
                 [i \in DOMAIN @ \cup {u.index} |-> IF i = u.index THEN u.body ELSE @[i]]]
       ELSE transfers' = Swept /\ chunks' = Emptied(Lapsed)
    /\ UNCHANGED <<keyed, revoked, banned>>

Discard(u) ==
    /\ u \in arriving
    /\ arriving' = arriving \ {u}
    /\ UNCHANGED <<transfers, chunks, overdue, keyed, revoked, banned>>

\* Mutant of Whole: the chunks are counted and not weighed.
WholeByCount(t) == Cardinality(DOMAIN chunks[t]) = ChunkCount[transfers[t].manifest]

Whole(t) ==
    /\ Cardinality(DOMAIN chunks[t]) = ChunkCount[transfers[t].manifest]
    /\ BytesIn(chunks[t]) = TotalBytes[transfers[t].manifest]

(***************************************************************************)
(* POST .../finalize by the source; a second call is answered the same.    *)
(***************************************************************************)
Finalizable(d, t) ==
    Active(d) /\ InState(t, "uploading") /\ Swept[t].from = d /\ Whole(t)

Finalize(d, t) ==
    /\ Finalizable(d, t)
    /\ transfers' = [Swept EXCEPT ![t].state = "ready"]
    /\ chunks' = Emptied(Lapsed)
    /\ overdue' = {}
    /\ UNCHANGED <<arriving, keyed, revoked, banned>>

(***************************************************************************)
(* POST .../consume by the destination of a transfer that is ready.        *)
(***************************************************************************)
Consumable(d, t) == Active(d) /\ InState(t, "ready") /\ Swept[t].to = d

Consume(d, t) ==
    /\ Consumable(d, t)
    /\ transfers' = [Swept EXCEPT ![t].state = "consumed"]
    /\ chunks' = Emptied(Lapsed \cup {t})
    /\ overdue' = {}
    /\ UNCHANGED <<arriving, keyed, revoked, banned>>

(***************************************************************************)
(* GET .../transfers and GET .../chunks/:chunkIndex: what a destination    *)
(* may list and read.                                                      *)
(***************************************************************************)
Listed(d, c) ==
    {t \in Transfers : InState(t, "ready") /\ Swept[t].to = d /\ Swept[t].channel = c}

Readable(d, t, i) == Active(d) /\ t \in Listed(d, Swept[t].channel) /\ i \in DOMAIN chunks[t]

(***************************************************************************)
(* DELETE .../transfers/:transferId by the source of an unfinished one.    *)
(***************************************************************************)
Cancelable(d, t) == Active(d) /\ InState(t, "uploading") /\ Swept[t].from = d

Cancel(d, t) ==
    /\ Cancelable(d, t)
    /\ transfers' = [Swept EXCEPT ![t].state = "canceled"]
    /\ chunks' = Emptied(Lapsed \cup {t})
    /\ overdue' = {}
    /\ UNCHANGED <<arriving, keyed, revoked, banned>>

(***************************************************************************)
(* Any other request to the relay, of this account or of another one.      *)
(***************************************************************************)
Sweep ==
    /\ overdue # {}
    /\ transfers' = Swept
    /\ chunks' = Emptied(Lapsed)
    /\ overdue' = {}
    /\ UNCHANGED <<arriving, keyed, revoked, banned>>

(***************************************************************************)
(* Time: seven days after creation, thirty days after finalizing.          *)
(***************************************************************************)
PassDeadline(t) ==
    /\ Live(t)
    /\ t \notin overdue
    /\ overdue' = overdue \cup {t}
    /\ UNCHANGED <<transfers, chunks, arriving, keyed, revoked, banned>>

(***************************************************************************)
(* cancelActiveHistoryRecoveryTransfers, in the transaction that revokes a *)
(* device and in the handler that bans the account.                        *)
(***************************************************************************)
CancelActive(S) ==
    /\ transfers' = Closed(S, "canceled")
    /\ chunks' = Emptied(S)
    /\ overdue' = overdue \ S

\* Mutant of Involving: the transfers on their way to the device are kept.
InvolvingSource(d) == {t \in Transfers : Live(t) /\ transfers[t].from = d}

\* Mutant of Involving: the transfers that are closed are closed again.
InvolvingEver(d) ==
    {t \in Transfers : transfers[t] # None /\ d \in {transfers[t].from, transfers[t].to}}

Involving(d) == {t \in Transfers : Live(t) /\ d \in {transfers[t].from, transfers[t].to}}

Revoke(d) ==
    /\ d \notin revoked
    /\ revoked' = revoked \cup {d}
    /\ CancelActive(Involving(d))
    /\ UNCHANGED <<arriving, keyed, banned>>

Ban ==
    /\ ~banned
    /\ banned' = TRUE
    /\ CancelActive({t \in Transfers : Live(t)})
    /\ UNCHANGED <<arriving, keyed, revoked>>

Unban ==
    /\ banned
    /\ banned' = FALSE
    /\ UNCHANGED <<transfers, chunks, overdue, arriving, keyed, revoked>>

Next ==
    \/ \E d \in Devices : Register(d) \/ Revoke(d)
    \/ \E d \in Devices, t \in Transfers, c \in Channels, x \in Devices, m \in Manifests :
         Create(d, t, c, x, m)
    \/ \E u \in Uploads : Admit(u)
    \/ \E u \in arriving : Store(u) \/ Discard(u)
    \/ \E d \in Devices, t \in Transfers : Finalize(d, t) \/ Consume(d, t) \/ Cancel(d, t)
    \/ \E t \in Transfers : PassDeadline(t)
    \/ Sweep
    \/ Ban
    \/ Unban

Spec == Init /\ [][Next]_vars

------------------------------------------------------------------------------
(***************************************************************************)
(* Every variable keeps the shape its table gives it, and every chunk has  *)
(* an index below the declared count.                                      *)
(***************************************************************************)
TypeOK ==
    /\ transfers \in [Transfers -> Rows \cup {None}]
    /\ DOMAIN chunks = Transfers
    /\ \A t \in Transfers :
         /\ transfers[t] = None => chunks[t] = NoChunks
         /\ transfers[t] # None =>
              \E S \in SUBSET (0 .. ChunkCount[transfers[t].manifest] - 1) :
                chunks[t] \in [S -> Ciphertexts]
    /\ overdue \subseteq Transfers
    /\ arriving \subseteq Uploads
    /\ keyed \subseteq Devices
    /\ revoked \subseteq Devices
    /\ banned \in BOOLEAN

(***************************************************************************)
(* No ciphertext outlives its transfer: once a transfer is consumed,       *)
(* canceled or expired its chunks are gone, and no upload that was         *)
(* admitted earlier and handled later brings one back.                     *)
(***************************************************************************)
NothingLeftBehind == \A t \in Transfers : chunks[t] # NoChunks => Live(t)

(***************************************************************************)
(* What a destination can list is complete: a transfer that is ready has   *)
(* every chunk it declares, with all its bytes.                            *)
(***************************************************************************)
ReadyIsWhole ==
    \A t \in Transfers :
        transfers[t] # None /\ transfers[t].state = "ready" =>
            /\ DOMAIN chunks[t] = 0 .. ChunkCount[transfers[t].manifest] - 1
            /\ BytesIn(chunks[t]) = TotalBytes[transfers[t].manifest]

(***************************************************************************)
(* A destination has one transfer of a channel in progress at a time.      *)
(***************************************************************************)
OneInProgress ==
    \A t, u \in Transfers :
        /\ t # u /\ Live(t) /\ Live(u)
        /\ transfers[t].to = transfers[u].to
        => transfers[t].channel # transfers[u].channel

(***************************************************************************)
(* Revoking a device or banning the account ends what it was sending and   *)
(* what was on its way to it, and nothing starts afterwards.               *)
(***************************************************************************)
NothingForTheRemoved ==
    \A t \in Transfers :
        Live(t) => ~banned /\ transfers[t].from \notin revoked /\ transfers[t].to \notin revoked

(***************************************************************************)
(* A transfer's declaration never changes, what is closed stays closed the *)
(* way it was closed, and from ready to closed its chunks are frozen: a    *)
(* destination that reads them one by one reads one upload.                *)
(***************************************************************************)
ClosedStaysClosed ==
    [][\A t \in Transfers :
          transfers[t] # None =>
            /\ transfers'[t] # None
            /\ \A f \in {"channel", "from", "to", "manifest"} :
                 transfers'[t][f] = transfers[t][f]
            /\ transfers[t].state \in Closings => transfers'[t] = transfers[t]
            /\ transfers[t].state = "ready" =>
                 transfers'[t].state \in Closings \cup {"ready"}
            /\ transfers[t].state = "ready" /\ transfers'[t].state = "ready" =>
                 chunks'[t] = chunks[t]]_vars
=============================================================================

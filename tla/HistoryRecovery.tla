--------------------------- MODULE HistoryRecovery ---------------------------
(***************************************************************************)
(* The devices of one account that share and recover the history of one    *)
(* channel (client/lib/data/history_recovery_channel_controller.dart and   *)
(* _coordinator, _transfer_service) on top of the relay (HistoryRelay).    *)
(* Every device has                                                        *)
(*   outbox    the protected retry of the upload in progress,              *)
(*   store     its encrypted history, in memory and on disk: the transfers *)
(*             whose records were merged, and the receipts of the merges,  *)
(* and the controller: its UI phase, the directory of the last refresh,    *)
(* what "Try again" repeats, and two activities: what the user started     *)
(* (perform, cancelPendingUpload) and the refresh that every               *)
(* synchronization of the channel and every realtime notification starts.  *)
(* Nothing serializes these, nor the messages the channel stores in the    *)
(* same history meanwhile: each request is a step of its own, and a write  *)
(* of the history two, as the next history is made of the one in memory    *)
(* before the write is awaited.  A request may be lost, or arrive after    *)
(* its sender gave up; a device may crash between any two steps.           *)
(***************************************************************************)
EXTENDS Integers, FiniteSets

CONSTANTS
    Devices,        \* the devices of the account
    Keepers,        \* the devices that hold history of their own
    ChunksOf,       \* the number of chunks of every transfer
    MaxTries,       \* bound: the transfers each device seals
    MaxLate,        \* bound: the requests on their way without a sender
    MaxTroubles,    \* bound: messages stored meanwhile, lost requests, crashes,
                    \* expiries, revocations, bans
    None            \* null

ASSUME RecoveryAssumption ==
    /\ Keepers \subseteq Devices
    /\ ChunksOf \in Nat \ {0}
    /\ MaxTries \in Nat
    /\ MaxLate \in Nat
    /\ MaxTroubles \in Nat

VARIABLES
    transfers, chunks, overdue, arriving,       \* the relay (HistoryRelay)
    keyed, revoked, banned,
    late,           \* the other requests whose sender gave up
    outbox,         \* durable: the entry of HistoryRecoveryOutbox, or None
    store,          \* MlsEventStore: its file and what it has in memory
    tries,          \* the transfers each device has sealed: its random ids
    saving,         \* volatile: the history a message is being stored with
    overlapped,     \* the transfers whose merge the storing of a message overlapped
    view,           \* volatile: the fields of the controller
    activity,       \* volatile: its two activities
    troubles        \* the troubles so far

relay == <<transfers, chunks, overdue, arriving, keyed, revoked, banned>>
vars == <<relay, late, outbox, store, saving, overlapped, tries, view, activity, troubles>>

Channel == "channel"

\* The n-th transfer a device seals: its id, and the manifest sealed with it.
Seals == Devices \X (1 .. MaxTries)

Bodies == Seals \X (0 .. ChunksOf - 1)

\* Every body is one unit long, so a transfer of ChunksOf chunks weighs as many.
Declared == [m \in Seals |-> ChunksOf]

UnitSize == [b \in Bodies |-> 1]

Relay == INSTANCE HistoryRelay
    WITH Channels <- {Channel}, Transfers <- Seals, Manifests <- Seals,
         ChunkCount <- Declared, TotalBytes <- Declared,
         Ciphertexts <- Bodies, Size <- UnitSize,
         Indices <- 0 .. ChunksOf - 1, MaxArriving <- MaxLate + 1

------------------------------------------------------------------------------
Entries == [t : Seals, to : Devices, manifest : Seals]

Histories == [records : SUBSET Seals, receipts : SUBSET Seals]

ASSUME NoneAssumption ==
    None \notin Devices \cup Seals \cup Relay!Rows \cup Entries \cup Histories

Entry(t, x, m) == [t |-> t, to |-> x, manifest |-> m]

Request(kind, d, e) == [kind |-> kind, by |-> d, entry |-> e]

Upload(d, e, i) == [by |-> d, of |-> e.t, index |-> i, body |-> <<e.manifest, i>>]

Idle == [job |-> "none", at |-> "idle"]

Fresh ==
    [phase |-> "begins", keys |-> {}, retry |-> None, receive |-> FALSE,
     found |-> None, shared |-> FALSE]

NoHistory == [records |-> {}, receipts |-> {}]

Kinds == {"user", "background"}

Running(d, k, at) == activity[d][k].at = at

Uploading == {"create", "chunk", "sent", "finalize"}

Requesting ==
    Uploading \cup {"register", "keys", "list", "cancel", "download", "merge", "consume"}

(***************************************************************************)
(* The relay's side of a request, at whatever time it arrives: the change  *)
(* it makes, or the sweep that every request begins with.                  *)
(***************************************************************************)
Applies(q) ==
    CASE q.kind = "create" -> Relay!Creatable(q.by, q.entry.t, Channel, q.entry.to)
      [] q.kind = "finalize" -> Relay!Finalizable(q.by, q.entry.t)
      [] q.kind = "cancel" -> Relay!Cancelable(q.by, q.entry.t)
      [] q.kind = "consume" -> Relay!Consumable(q.by, q.entry.t)
      [] OTHER -> FALSE

Glance == IF overdue = {} THEN UNCHANGED relay ELSE Relay!Sweep

Handle(q) ==
    IF ~Applies(q) THEN Glance
    ELSE CASE q.kind = "create" ->
                Relay!Create(q.by, q.entry.t, Channel, q.entry.to, q.entry.manifest)
           [] q.kind = "finalize" -> Relay!Finalize(q.by, q.entry.t)
           [] q.kind = "cancel" -> Relay!Cancel(q.by, q.entry.t)
           [] q.kind = "consume" -> Relay!Consume(q.by, q.entry.t)

------------------------------------------------------------------------------
Init ==
    /\ Relay!Init
    /\ late = {}
    /\ outbox = [d \in Devices |-> None]
    /\ store = [d \in Devices |-> [disk |-> NoHistory, memory |-> NoHistory]]
    /\ saving = [d \in Devices |-> None]
    /\ overlapped = [d \in Devices |-> {}]
    /\ tries = [d \in Devices |-> 0]
    /\ view = [d \in Devices |-> Fresh]
    /\ activity = [d \in Devices |-> [k \in Kinds |-> Idle]]
    /\ troubles = 0

Goes(d, k, a) == activity' = [activity EXCEPT ![d][k] = a]

Moves(d, k, at) == Goes(d, k, [activity[d][k] EXCEPT !.at = at])

Trouble == troubles < MaxTroubles /\ troubles' = troubles + 1

\* A request fails: it is refused, as the session has ended, or it is lost.
Troubled(d) == IF Relay!Active(d) THEN Trouble ELSE UNCHANGED troubles

Shows(d, phase) == view' = [view EXCEPT ![d].phase = phase]

(***************************************************************************)
(* An activity throws.  perform and _receive end in a failed state, with   *)
(* "Stop transfer" (stoppable) for an upload; a refresh that fails does so *)
(* too while it uploads, unless the synchronization that started it        *)
(* replaces the state by a plain failed one.                               *)
(***************************************************************************)
PhasesAfterThrow(d, k) ==
    LET a == activity[d][k]
        kept == IF a.at \in Uploading THEN "stoppable" ELSE view[d].phase
    IN  CASE a.job = "share" -> {"stoppable"}
          [] a.job = "receive" -> {"failed"}
          [] a.job = "refresh" -> {"failed", kept}
          [] a.job = "stop" -> {kept}

Throw(d, k) ==
    /\ \E p \in PhasesAfterThrow(d, k) : Shows(d, p)
    /\ Goes(d, k, Idle)

(***************************************************************************)
(* refresh: the own key and the directory, then the pending upload, then   *)
(* what is ready.  Refresh is the step of its first request, which may     *)
(* fail like any other; the outbox is read in the step of the directory.   *)
(***************************************************************************)
KeyRegistered(d) ==
    Relay!Active(d) /\ IF d \in keyed THEN UNCHANGED relay ELSE Relay!Register(d)

Refresh(d) ==
    /\ activity[d]["background"] = Idle
    /\ \/ /\ KeyRegistered(d)
          /\ Goes(d, "background", [job |-> "refresh", at |-> "keys"])
          /\ UNCHANGED <<view, troubles>>
       \/ /\ Troubled(d)
          /\ \E p \in {"failed", view[d].phase} : Shows(d, p)
          /\ UNCHANGED <<relay, activity>>
    /\ UNCHANGED <<late, outbox, store, saving, overlapped, tries>>

RegisterKey(d, k) ==
    /\ Running(d, k, "register")
    /\ KeyRegistered(d)
    /\ Moves(d, k, "keys")
    /\ UNCHANGED <<late, outbox, store, saving, overlapped, tries, view, troubles>>

(***************************************************************************)
(* _resumePendingUpload, before its first request.                         *)
(***************************************************************************)
ResumePending(d, k, keys) ==
    IF outbox[d] = None
    THEN Moves(d, k, "list") /\ view' = [view EXCEPT ![d].keys = keys]
    ELSE IF outbox[d].to \in keys
    THEN /\ view' = [view EXCEPT ![d].keys = keys, ![d].phase = "transferring"]
         /\ Goes(d, k, [job |-> activity[d][k].job, at |-> "create", entry |-> outbox[d]])
    ELSE /\ \E p \in PhasesAfterThrow(d, k) :
              view' = [view EXCEPT ![d].keys = keys, ![d].phase = p]
         /\ Goes(d, k, Idle)

FetchKeys(d, k) ==
    /\ Running(d, k, "keys")
    /\ Relay!Active(d)
    /\ ResumePending(d, k, keyed \ revoked)
    /\ UNCHANGED <<relay, late, outbox, store, saving, overlapped, tries, troubles>>

\* Mutant of Choices: the device may choose itself.
ChoicesAnyone(d) == view[d].keys

(***************************************************************************)
(* The destinations a device may choose, of the last directory it read.    *)
(***************************************************************************)
Choices(d) == view[d].keys \ {d}

\* Mutant of Settled: a device that was offered a transfer has recovered it.
SettledEarly(d) ==
    IF store[d].memory.receipts # {} \/ view[d].found # None THEN {"recovered"}
    ELSE IF d \notin Keepers \/ Choices(d) = {} THEN {"begins"}
    ELSE IF view[d].shared THEN {"shared", "approve"}
    ELSE {"approve"}

(***************************************************************************)
(* What refresh shows when nothing is ready.  "shared" lasts until the     *)
(* next event of the channel, which may come at any time.                  *)
(***************************************************************************)
Settled(d) ==
    IF store[d].memory.receipts # {} THEN {"recovered"}
    ELSE IF d \notin Keepers \/ Choices(d) = {} THEN {"begins"}
    ELSE IF view[d].shared THEN {"shared", "approve"}
    ELSE {"approve"}

ListReady(d, k) ==
    LET ready == Relay!Listed(d, Channel)
    IN  /\ Running(d, k, "list")
        /\ Relay!Active(d)
        /\ Glance
        /\ IF ready = {}
           THEN /\ \E p \in Settled(d) :
                     view' = [view EXCEPT ![d].found = None, ![d].phase = p]
                /\ Goes(d, k, Idle)
           ELSE \E t \in ready :
                  IF transfers[t].from \in view[d].keys
                  THEN /\ view' = [view EXCEPT ![d].found = t, ![d].receive = TRUE,
                                               ![d].phase = "ready"]
                       /\ Goes(d, k, Idle)
                  ELSE Throw(d, k)
        /\ UNCHANGED <<late, outbox, store, saving, overlapped, tries, troubles>>

------------------------------------------------------------------------------
(***************************************************************************)
(* perform on the sharing side: "Review transfer" with a chosen            *)
(* destination, or "Try again", which repeats the last destination.        *)
(***************************************************************************)
Share(d, x) ==
    /\ activity[d]["user"] = Idle
    /\ d \in Keepers
    /\ \/ view[d].phase = "approve"
       \/ view[d].phase \in {"failed", "stoppable"} /\ ~view[d].receive /\ x = view[d].retry
    /\ x \in Choices(d)
    /\ tries[d] < MaxTries
    /\ view' = [view EXCEPT ![d].retry = x, ![d].receive = FALSE,
                            ![d].phase = "transferring"]
    /\ Goes(d, "user", [job |-> "share", at |-> "write", to |-> x])
    /\ UNCHANGED <<relay, late, outbox, store, saving, overlapped, tries, troubles>>

\* Mutant of NewTransferId: the id of the first attempt is used again.
FirstTransferId(d) == <<d, 1>>

NewTransferId(d) == <<d, tries[d] + 1>>

(***************************************************************************)
(* prepareUpload and outbox.write: the new entry replaces whatever is      *)
(* there.                                                                  *)
(***************************************************************************)
WriteOutbox(d, k) ==
    LET e == Entry(NewTransferId(d), activity[d][k].to, <<d, tries[d] + 1>>)
    IN  /\ Running(d, k, "write")
        /\ outbox' = [outbox EXCEPT ![d] = e]
        /\ tries' = [tries EXCEPT ![d] = @ + 1]
        /\ Goes(d, k, [job |-> "share", at |-> "create", entry |-> e])
        /\ UNCHANGED <<relay, late, store, saving, overlapped, view, troubles>>

(***************************************************************************)
(* transport.upload.  The create request answers with the new row or, for  *)
(* an exact retry, with the one it made before.                            *)
(***************************************************************************)
SameRow(d, e) ==
    /\ transfers[e.t].from = d
    /\ transfers[e.t].to = e.to
    /\ transfers[e.t].manifest = e.manifest

CreateTransfer(d, k) ==
    LET e == activity[d][k].entry
        known == Relay!Reachable(d, e.to) /\ Relay!Swept[e.t] # None /\ SameRow(d, e)
    IN  /\ Running(d, k, "create")
        /\ Relay!Active(d)
        /\ Handle(Request("create", d, e))
        /\ IF Applies(Request("create", d, e)) \/ (known /\ Relay!InState(e.t, "uploading"))
           THEN /\ Goes(d, k, [job |-> activity[d][k].job, at |-> "chunk",
                               entry |-> e, index |-> 0])
                /\ UNCHANGED view
           ELSE IF known /\ Relay!InState(e.t, "ready")
           THEN Moves(d, k, "clear") /\ UNCHANGED view
           ELSE Throw(d, k)
        /\ UNCHANGED <<late, outbox, store, saving, overlapped, tries, troubles>>

SendChunk(d, k) ==
    LET a == activity[d][k]
    IN  /\ Running(d, k, "chunk")
        /\ Relay!Admit(Upload(d, a.entry, a.index))
        /\ Moves(d, k, "sent")
        /\ UNCHANGED <<late, outbox, store, saving, overlapped, tries, view, troubles>>

ChunkAnswered(d, k) ==
    LET a == activity[d][k]
        u == Upload(d, a.entry, a.index)
        again == Relay!InState(u.of, "uploading") /\ u.index \in DOMAIN chunks[u.of]
    IN  /\ Running(d, k, "sent")
        /\ Relay!Store(u)
        /\ IF Relay!Storable(u) \/ again
           THEN /\ IF a.index + 1 = ChunksOf
                   THEN Moves(d, k, "finalize")
                   ELSE Goes(d, k, [a EXCEPT !.at = "chunk", !.index = @ + 1])
                /\ UNCHANGED view
           ELSE Throw(d, k)
        /\ UNCHANGED <<late, outbox, store, saving, overlapped, tries, troubles>>

FinalizeTransfer(d, k) ==
    LET e == activity[d][k].entry
        q == Request("finalize", d, e)
    IN  /\ Running(d, k, "finalize")
        /\ Relay!Active(d)
        /\ Handle(q)
        /\ IF Applies(q) \/ Relay!InState(e.t, "ready")
           THEN Moves(d, k, "clear") /\ UNCHANGED view
           ELSE Throw(d, k)
        /\ UNCHANGED <<late, outbox, store, saving, overlapped, tries, troubles>>

(***************************************************************************)
(* outbox.clear() after an upload: it deletes the file, whatever its entry.*)
(***************************************************************************)
ClearUploaded(d, k) ==
    /\ Running(d, k, "clear")
    /\ outbox' = [outbox EXCEPT ![d] = None]
    /\ view' = [view EXCEPT ![d].shared = TRUE, ![d].phase = "shared"]
    /\ Goes(d, k, Idle)
    /\ UNCHANGED <<relay, late, store, saving, overlapped, tries, troubles>>

(***************************************************************************)
(* cancelPendingUpload: the retry is erased after a cancellation or a 404, *)
(* and kept after any other answer; then it refreshes.                     *)
(***************************************************************************)
Stop(d) ==
    /\ activity[d]["user"] = Idle
    /\ view[d].phase = "stoppable"
    /\ outbox[d] # None
    /\ Goes(d, "user", [job |-> "stop", at |-> "cancel", entry |-> outbox[d]])
    /\ UNCHANGED <<relay, late, outbox, store, saving, overlapped, tries, view, troubles>>

CancelTransfer(d, k) ==
    LET e == activity[d][k].entry
        q == Request("cancel", d, e)
    IN  /\ Running(d, k, "cancel")
        /\ Relay!Active(d)
        /\ Handle(q)
        /\ IF Applies(q) \/ Relay!InState(e.t, "canceled") \/ transfers[e.t] = None
           THEN Moves(d, k, "erase") /\ UNCHANGED view
           ELSE Throw(d, k)
        /\ UNCHANGED <<late, outbox, store, saving, overlapped, tries, troubles>>

EraseStopped(d, k) ==
    /\ Running(d, k, "erase")
    /\ outbox' = [outbox EXCEPT ![d] = None]
    /\ view' = [view EXCEPT ![d].shared = FALSE]
    /\ Moves(d, k, "register")
    /\ UNCHANGED <<relay, late, store, saving, overlapped, tries, troubles>>

------------------------------------------------------------------------------
(***************************************************************************)
(* perform on the recovering side, and its "Try again": _receive.          *)
(***************************************************************************)
Receive(d) ==
    LET t == view[d].found
    IN  /\ activity[d]["user"] = Idle
        /\ \/ view[d].phase = "ready"
           \/ view[d].phase \in {"failed", "stoppable"} /\ view[d].receive
        /\ t # None
        /\ IF {d, transfers[t].from} \subseteq view[d].keys
           THEN /\ Shows(d, "transferring")
                /\ Goes(d, "user", [job |-> "receive", at |-> "download", index |-> 0,
                     entry |-> Entry(t, d, transfers[t].manifest)])
           ELSE Shows(d, "failed") /\ UNCHANGED activity
        /\ UNCHANGED <<relay, late, outbox, store, saving, overlapped, tries, troubles>>

\* Mutant of AfterDownload: the transfer is consumed and then merged.
AfterDownloadAtOnce(a) ==
    IF a.index + 1 < ChunksOf THEN [a EXCEPT !.index = @ + 1] ELSE [a EXCEPT !.at = "consume"]

AfterDownload(a) ==
    IF a.index + 1 < ChunksOf THEN [a EXCEPT !.index = @ + 1] ELSE [a EXCEPT !.at = "merge"]

(***************************************************************************)
(* transport.download: every chunk is compared with the manifest.          *)
(***************************************************************************)
DownloadChunk(d, k) ==
    LET a == activity[d][k]
    IN  /\ Running(d, k, "download")
        /\ Relay!Active(d)
        /\ Glance
        /\ IF /\ Relay!Readable(d, a.entry.t, a.index)
              /\ chunks[a.entry.t][a.index] = <<a.entry.manifest, a.index>>
           THEN Goes(d, k, AfterDownload(a)) /\ UNCHANGED view
           ELSE Throw(d, k)
        /\ UNCHANGED <<late, outbox, store, saving, overlapped, tries, troubles>>

(***************************************************************************)
(* mergeRecoveryRecords.  A receipt it has already ends the merge.  Else   *)
(* the historical credentials are fetched, and the merged history is made  *)
(* of the one in memory; when the awaited write of it has ended, it        *)
(* replaces what is in memory, whatever has been stored meanwhile.         *)
(***************************************************************************)
BeginMerge(d, k) ==
    LET a == activity[d][k]
        old == store[d].memory
        new == [records |-> old.records \cup {a.entry.t},
                receipts |-> old.receipts \cup {a.entry.t}]
    IN  /\ Running(d, k, "merge")
        /\ Relay!Active(d)
        /\ Goes(d, k, IF a.entry.t \in old.receipts
                      THEN [job |-> a.job, at |-> "consume", entry |-> a.entry]
                      ELSE [job |-> a.job, at |-> "save", entry |-> a.entry, merged |-> new])
        /\ UNCHANGED <<relay, late, outbox, store, saving, overlapped, tries, view, troubles>>

EndMerge(d, k) ==
    LET a == activity[d][k]
    IN  /\ Running(d, k, "save")
        /\ store' = [store EXCEPT ![d] = [disk |-> a.merged, memory |-> a.merged]]
        /\ overlapped' = IF saving[d] = None THEN overlapped
                         ELSE [overlapped EXCEPT ![d] = @ \cup {a.entry.t}]
        /\ Goes(d, k, [job |-> a.job, at |-> "consume", entry |-> a.entry])
        /\ UNCHANGED <<relay, late, outbox, saving, tries, view, troubles>>

ConsumeTransfer(d, k) ==
    LET e == activity[d][k].entry
        q == Request("consume", d, e)
    IN  /\ Running(d, k, "consume")
        /\ Relay!Active(d)
        /\ Handle(q)
        /\ IF Applies(q) \/ Relay!InState(e.t, "consumed")
           THEN /\ view' = [view EXCEPT ![d].receive = FALSE, ![d].phase = "recovered"]
                /\ Goes(d, k, Idle)
           ELSE Throw(d, k)
        /\ UNCHANGED <<late, outbox, store, saving, overlapped, tries, troubles>>

------------------------------------------------------------------------------
(***************************************************************************)
(* MlsEventStore.apply, for a message received or sent: the next history   *)
(* is made of the one in memory before the write is awaited; then it is    *)
(* the file, and its records replace those in memory, but not the          *)
(* receipts.                                                               *)
(***************************************************************************)
BeginApply(d) ==
    /\ saving[d] = None
    /\ saving' = [saving EXCEPT ![d] = store[d].memory]
    /\ Trouble
    /\ UNCHANGED <<relay, late, outbox, store, overlapped, tries, view, activity>>

EndApply(d) ==
    /\ saving[d] # None
    /\ store' = [store EXCEPT ![d] =
         [disk |-> saving[d],
          memory |-> [records |-> saving[d].records, receipts |-> @.memory.receipts]]]
    /\ saving' = [saving EXCEPT ![d] = None]
    /\ UNCHANGED <<relay, late, outbox, overlapped, tries, view, activity, troubles>>

(***************************************************************************)
(* A request fails for its sender: it is refused because the session has   *)
(* ended, it is lost, or it stays on its way and arrives later.            *)
(***************************************************************************)
Lose(d, k) ==
    /\ activity[d][k].at \in Requesting
    /\ Throw(d, k)
    /\ Troubled(d)
    /\ UNCHANGED <<relay, late, outbox, store, saving, overlapped, tries>>

Delay(d, k) ==
    /\ activity[d][k].at \in {"create", "finalize", "cancel", "consume"}
    /\ Cardinality(late) < MaxLate
    /\ late' = late \cup {Request(activity[d][k].at, d, activity[d][k].entry)}
    /\ Throw(d, k)
    /\ Trouble
    /\ UNCHANGED <<relay, outbox, store, saving, overlapped, tries>>

Arrive(q) ==
    /\ q \in late
    /\ late' = late \ {q}
    /\ IF Relay!Active(q.by) THEN Handle(q) ELSE UNCHANGED relay
    /\ UNCHANGED <<outbox, store, saving, overlapped, tries, view, activity, troubles>>

ArriveChunk(u) ==
    /\ Relay!Store(u) \/ Relay!Discard(u)
    /\ UNCHANGED <<late, outbox, store, saving, overlapped, tries, view, activity, troubles>>

Crash(d) ==
    /\ \/ view[d] # Fresh
       \/ activity[d] # [k \in Kinds |-> Idle]
       \/ saving[d] # None
    /\ view' = [view EXCEPT ![d] = Fresh]
    /\ activity' = [activity EXCEPT ![d] = [k \in Kinds |-> Idle]]
    /\ store' = [store EXCEPT ![d].memory = store[d].disk]
    /\ saving' = [saving EXCEPT ![d] = None]
    /\ Trouble
    /\ UNCHANGED <<relay, late, outbox, overlapped, tries>>

Elsewhere ==
    /\ \/ (\E t \in Seals : Relay!PassDeadline(t)) /\ Trouble
       \/ (\E d \in Devices : Relay!Revoke(d)) /\ Trouble
       \/ Relay!Ban /\ Trouble
       \/ Relay!Unban /\ UNCHANGED troubles
       \/ Relay!Sweep /\ UNCHANGED troubles
    /\ UNCHANGED <<late, outbox, store, saving, overlapped, tries, view, activity>>

Step(d, k) ==
    \/ RegisterKey(d, k)
    \/ FetchKeys(d, k)
    \/ ListReady(d, k)
    \/ WriteOutbox(d, k)
    \/ CreateTransfer(d, k)
    \/ SendChunk(d, k)
    \/ ChunkAnswered(d, k)
    \/ FinalizeTransfer(d, k)
    \/ ClearUploaded(d, k)
    \/ CancelTransfer(d, k)
    \/ EraseStopped(d, k)
    \/ DownloadChunk(d, k)
    \/ BeginMerge(d, k)
    \/ EndMerge(d, k)
    \/ ConsumeTransfer(d, k)
    \/ Lose(d, k)
    \/ Delay(d, k)

Next ==
    \/ \E d \in Devices : Refresh(d) \/ Receive(d) \/ Stop(d) \/ Crash(d)
    \/ \E d \in Devices : BeginApply(d) \/ EndApply(d)
    \/ \E d \in Devices, x \in Devices : Share(d, x)
    \/ \E d \in Devices, k \in Kinds : Step(d, k)
    \/ \E q \in late : Arrive(q)
    \/ \E u \in arriving : ArriveChunk(u)
    \/ Elsewhere

Spec == Init /\ [][Next]_vars

------------------------------------------------------------------------------
(***************************************************************************)
(* The controllers keep to the phases of HistoryRecoveryUiPhase, and the   *)
(* durable files to what their encodings accept.                           *)
(***************************************************************************)
Phases == {"begins", "approve", "transferring", "ready", "shared", "recovered",
           "failed", "stoppable"}

TypeOK ==
    \A d \in Devices :
        /\ view[d].phase \in Phases
        /\ view[d].keys \subseteq Devices
        /\ view[d].found \in Seals \cup {None}
        /\ outbox[d] # None => outbox[d].t \in Seals /\ outbox[d].to \in Devices \ {d}
        /\ store[d].memory.records \cup store[d].memory.receipts \subseteq Seals
        /\ store[d].disk.receipts \subseteq store[d].memory.receipts
        /\ tries[d] \in 0 .. MaxTries

(***************************************************************************)
(* docs/security/ENCRYPTED_HISTORY_RECOVERY.md: "Consumption is            *)
(* acknowledged only after the destination has authenticated, decrypted,   *)
(* merged, and durably stored the complete range."  The relay then deletes *)
(* its copy, so what is consumed is in the history of the destination,     *)
(* wherever it crashed and whichever requests were repeated or came late.  *)
(* One thing alone takes it out of the history again: a message whose      *)
(* storing began before the merge had ended and ended after it.            *)
(***************************************************************************)
ConsumedIsMerged ==
    \A t \in Seals :
        transfers[t] # None /\ transfers[t].state = "consumed" =>
            LET x == transfers[t].to IN t \in store[x].disk.records \cup overlapped[x]

(***************************************************************************)
(* The notice says "Recovered through sequence" only after a durable       *)
(* merge, also across failures, retries and restarts: the disk has the     *)
(* records of a transfer, unless the storing of a message overlapped a     *)
(* merge.                                                                  *)
(***************************************************************************)
RecoveredIsMerged ==
    \A d \in Devices :
        view[d].phase = "recovered" => store[d].disk.records \cup overlapped[d] # {}

(***************************************************************************)
(* The entry a device keeps is an exact retry of the row it made at the    *)
(* relay, if there is one: it is never refused as a conflict.              *)
(***************************************************************************)
RetryIsExact ==
    \A d \in Devices :
        outbox[d] # None /\ transfers[outbox[d].t] # None => SameRow(d, outbox[d])
=============================================================================

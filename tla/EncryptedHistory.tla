-------------------------- MODULE EncryptedHistory -------------------------
(***************************************************************************)
(* The histories that the devices of one encrypted channel keep of the     *)
(* server's log of events: what of it each of them stores                  *)
(* (client/lib/data/mls_event_store.dart), recovers from another device of *)
(* the same account, and shows (mls_message_projection.dart).              *)
(*                                                                         *)
(* An event is its place in the log; it is delivered as MlsChannel models  *)
(* it, in order and once, so here receiving is a step per event.  The      *)
(* server compares accounts, the devices compare credentials, of which     *)
(* each device has its own.                                                *)
(***************************************************************************)
EXTENDS Naturals, Sequences, FiniteSets, Functions

CONSTANTS
    Devices, UserOf,     \* the devices and the account of each
    Owner,               \* the account with role 'owner'
    Founder,             \* the owner's device that made the channel's group
    Recovering,          \* the devices that recover a history
    Kinds,               \* the kinds of events each of them sends
    Capacity,            \* how many events fit in the file of each: _maxEvents,
                         \* fewer when they do not fit in _maxFileBytes
    MaxEvents,           \* bounds the log,
    MaxOffers,           \* the recoveries,
    MaxWriting,          \* the devices that write at one time
    MaxMishaps,          \* and the failed writes and restarts
    None

EventKinds == {"message", "attachment", "edit", "delete", "reaction"}

ASSUME HistoryAssumption ==
    /\ Kinds \in [Devices -> SUBSET EventKinds]
    /\ Founder \in Devices /\ UserOf[Founder] = Owner
    /\ Recovering \subseteq Devices
    /\ Capacity \in [Devices -> Nat]
    /\ {MaxEvents, MaxOffers, MaxWriting, MaxMishaps} \subseteq Nat
    /\ None \notin Nat \cup Seq(Nat)

VARIABLES
    log,         \* encrypted_message_events in the order of their sequences
    joined,      \* where in the log the device's Welcome is, or None
    cursor,      \* how far the device has received the log
    history,     \* MlsEventStore._events
    receipts,    \* MlsEventStore._recoveries: the recoveries it has merged
    disk,        \* its file: both
    writes,      \* what its receive run, send and recovery are writing there
    outgoing,    \* the device's own event that it has not stored yet, or None
    screen,      \* the messages its user can act on
    offers,      \* the number of recoveries
    offered,     \* the one on its way to the device, or None
    (***********************************************************************)
    (* History variables, for the properties only.                         *)
    (***********************************************************************)
    lost,        \* what was in the device's history and was dropped from it
    overlapped,  \* the devices of which two writes have overlapped
    mishaps      \* the number of failed writes and restarts

stores == <<history, receipts, disk, writes, lost, overlapped, mishaps>>
vars == <<log, joined, cursor, stores, outgoing, screen, offers, offered>>

------------------------------------------------------------------------------
Roots == {"message", "attachment"}

Events == [by : Devices, kind : EventKinds, target : Nat]

Targets(n, kinds) == log[n].target \in DOMAIN log /\ log[log[n].target].kind \in kinds

Stored(d) == Range(history[d])

(***************************************************************************)
(* POST /mls/messages.  A mutation needs a target of the right kind; who   *)
(* sent it is looked up by account, and whether it is deleted is not.      *)
(***************************************************************************)
TargetKinds(k) == IF k = "edit" THEN {"message"} ELSE Roots

Permitted(d, k, t) ==
    LET own == UserOf[d] = UserOf[log[t].by] IN
    /\ log[t].kind \in TargetKinds(k)
    /\ k = "edit" => own
    /\ k = "delete" => own \/ UserOf[d] = Owner

------------------------------------------------------------------------------
(***************************************************************************)
(* MlsMessageProjection.project.  It goes through the list and throws at   *)
(* an event whose message is not there (any more); otherwise it leaves the *)
(* messages nobody deleted, each with its own text or that of its last     *)
(* edit.  Who reacted is left out.                                         *)
(***************************************************************************)
Changes(h, r, kind) == {n \in Range(h) : log[n].kind = kind /\ log[n].target = r}

Projects(h) ==
    \A i \in DOMAIN h :
        LET t == log[h[i]].target
            earlier == {h[j] : j \in 1 .. i - 1} IN
        t # 0 =>
            /\ t \in earlier /\ log[t].kind \in Roots
            /\ Changes(h, t, "delete") \cap earlier = {}

\* Mutant of Shown: a deletion is forgotten at the next event.
ShownAfterNext(h) ==
    {r \in Range(h) :
        /\ log[r].kind \in Roots
        /\ \A n \in Changes(h, r, "delete") : \E m \in Range(h) : m > n}

Shown(h) == {r \in Range(h) : log[r].kind \in Roots /\ Changes(h, r, "delete") = {}}

Texts(h, r) ==
    LET edits == Changes(h, r, "edit") IN
    {n \in edits \cup {r} : \A m \in edits : m <= n}

(***************************************************************************)
(* A projection that throws leaves what was on the screen.                 *)
(***************************************************************************)
Show(d) ==
    screen' = [screen EXCEPT ![d] =
        IF Projects(history[d])' THEN Shown(history[d])' ELSE @]

------------------------------------------------------------------------------
(***************************************************************************)
(* _validateMutationAuthorization and MlsEventStore.apply, for an event    *)
(* that is not stored yet.                                                 *)
(***************************************************************************)
\* Mutant: an edit may come from any device of the author's account.
SameAccount(n) == UserOf[log[n].by] = UserOf[log[log[n].target].by]

SameSender(n) == log[n].by = log[log[n].target].by

\* Mutant: only the sender's own device deletes.
SenderDeletes(n) == SameSender(n)

MayDelete(n) == SameSender(n) \/ UserOf[log[n].by] = Owner

Authorized(n) ==
    log[n].target # 0 =>
        /\ Targets(n, TargetKinds(log[n].kind))
        /\ log[n].kind = "edit" => SameSender(n)
        /\ log[n].kind = "delete" => MayDelete(n)

Storable(d, n) ==
    /\ Len(history[d]) < Capacity[d]
    /\ \A m \in Stored(d) : m < n
    /\ log[n].target \in Stored(d) \cup {0}
    /\ Authorized(n)

------------------------------------------------------------------------------
Writers == {"receive", "send", "merge"}

Idle(d) == \A w \in Writers : writes[d][w] = None

Init ==
    /\ log = <<>>
    /\ joined = [d \in Devices |-> IF d = Founder THEN 0 ELSE None]
    /\ cursor = [d \in Devices |-> 0]
    /\ history = [d \in Devices |-> <<>>]
    /\ receipts = [d \in Devices |-> {}]
    /\ disk = [d \in Devices |-> [list |-> <<>>, receipts |-> {}]]
    /\ writes = [d \in Devices |-> [w \in Writers |-> None]]
    /\ outgoing = [d \in Devices |-> None]
    /\ screen = [d \in Devices |-> {}]
    /\ offers = 0
    /\ offered = [d \in Devices |-> None]
    /\ lost = [d \in Devices |-> {}]
    /\ overlapped = {}
    /\ mishaps = 0

(***************************************************************************)
(* A write: apply and mergeRecoveryRecords make the new list of what is in *)
(* memory,                                                                 *)
(***************************************************************************)
Begin(d, w, list, done) ==
    /\ writes[d][w] = None
    /\ Cardinality({c \in Devices \ {d} : ~Idle(c)}) < MaxWriting
    /\ writes' = [writes EXCEPT ![d] = [v \in Writers |->
          IF v = w
          THEN [list |-> list, receipts |-> done, written |-> FALSE, raced |-> ~Idle(d)]
          ELSE IF @[v] = None THEN None ELSE [@[v] EXCEPT !.raced = TRUE]]]
    /\ overlapped' = IF Idle(d) THEN overlapped ELSE overlapped \cup {d}
    /\ UNCHANGED <<log, joined, cursor, history, receipts, disk, outgoing,
                   screen, offers, offered, lost, mishaps>>

(***************************************************************************)
(* await _persist, in which it gets to the file,                           *)
(***************************************************************************)
Persist(d, w) ==
    LET it == writes[d][w] IN
    /\ it # None /\ ~it.written
    /\ disk' = [disk EXCEPT ![d] = [list |-> it.list, receipts |-> it.receipts]]
    /\ writes' = [writes EXCEPT ![d][w].written = TRUE]
    /\ UNCHANGED <<log, joined, cursor, history, receipts, outgoing, screen,
                   offers, offered, lost, overlapped, mishaps>>

(***************************************************************************)
(* and then put it in the place of what is in memory by now.  The send or  *)
(* the recovery it was for is done.                                        *)
(***************************************************************************)
Finish(d, w) ==
    LET it == writes[d][w] IN
    /\ it # None /\ it.written
    /\ history' = [history EXCEPT ![d] = it.list]
    /\ receipts' = IF w = "merge" THEN [receipts EXCEPT ![d] = it.receipts]
                                  ELSE receipts
    /\ lost' = [lost EXCEPT ![d] = @ \cup (Stored(d) \ Range(it.list))]
    /\ writes' = [writes EXCEPT ![d][w] = None]
    /\ outgoing' = IF w = "send" THEN [outgoing EXCEPT ![d] = None] ELSE outgoing
    /\ offered' = IF w = "merge" THEN [offered EXCEPT ![d] = None] ELSE offered
    /\ UNCHANGED <<log, joined, cursor, disk, offers, overlapped, mishaps>>
    /\ Show(d)

(***************************************************************************)
(* A write fails, before or after it got to the file: memory stays.  All   *)
(* writes use one pending file.  When another one has renamed it, this one *)
(* deletes the file and then has nothing to put in its place.              *)
(***************************************************************************)
NoFile == [list |-> <<>>, receipts |-> {}]

FailWrite(d, w) ==
    /\ writes[d][w] # None
    /\ mishaps < MaxMishaps
    /\ \/ UNCHANGED disk
       \/ writes[d][w].raced /\ disk' = [disk EXCEPT ![d] = NoFile]
    /\ writes' = [writes EXCEPT ![d][w] = None]
    /\ mishaps' = mishaps + 1
    /\ UNCHANGED <<log, joined, cursor, history, receipts, outgoing, screen,
                   offers, offered, lost, overlapped>>

(***************************************************************************)
(* The application ends and starts again with what is in the file.  Only   *)
(* a restart that makes a difference counts.                               *)
(***************************************************************************)
Restart(d) ==
    /\ mishaps < MaxMishaps
    /\ \/ ~Idle(d)
       \/ disk[d] # [list |-> history[d], receipts |-> receipts[d]]
       \/ ~Projects(history[d])
    /\ history' = [history EXCEPT ![d] = disk[d].list]
    /\ receipts' = [receipts EXCEPT ![d] = disk[d].receipts]
    /\ lost' = [lost EXCEPT ![d] = @ \cup (Stored(d) \ Range(disk[d].list))]
    /\ writes' = [writes EXCEPT ![d] = [w \in Writers |-> None]]
    /\ mishaps' = mishaps + 1
    /\ UNCHANGED <<log, joined, cursor, disk, outgoing, offers, offered, overlapped>>
    /\ screen' = [screen EXCEPT ![d] =
          IF Projects(history[d])' THEN Shown(history[d])' ELSE {}]

------------------------------------------------------------------------------
(***************************************************************************)
(* A device is added to the group; what was sent before it cannot read.    *)
(***************************************************************************)
Join(d) ==
    /\ joined[d] = None
    /\ joined' = [joined EXCEPT ![d] = Len(log)]
    /\ cursor' = [cursor EXCEPT ![d] = Len(log)]
    /\ UNCHANGED <<log, stores, outgoing, screen, offers, offered>>

(***************************************************************************)
(* The user acts on what is on the screen, which may lag behind the log,   *)
(* and the server accepts the event.                                       *)
(***************************************************************************)
Send(d, k) ==
    /\ joined[d] # None
    /\ outgoing[d] = None
    /\ Len(log) < MaxEvents
    /\ \E t \in IF k \in Roots THEN {0} ELSE screen[d] :
         /\ t # 0 => Permitted(d, k, t)
         /\ log' = Append(log, [by |-> d, kind |-> k, target |-> t])
    /\ outgoing' = [outgoing EXCEPT ![d] = Len(log) + 1]
    /\ UNCHANGED <<joined, cursor, stores, screen, offers, offered>>

(***************************************************************************)
(* The rest of the send, at once or when it is resumed: the sender stores  *)
(* its own event, at the place the server gave it.                         *)
(***************************************************************************)
StoreOwn(d) ==
    LET n == outgoing[d] IN
    /\ n # None
    /\ n \notin Stored(d)
    /\ Storable(d, n)
    /\ Begin(d, "send", Append(history[d], n), receipts[d])

\* It is stored already.
SkipOwn(d) ==
    /\ outgoing[d] \in Stored(d)
    /\ writes[d]["send"] = None
    /\ outgoing' = [outgoing EXCEPT ![d] = None]
    /\ UNCHANGED <<log, joined, cursor, stores, screen, offers, offered>>

Receiving(d) == joined[d] # None /\ cursor[d] < Len(log)

(***************************************************************************)
(* The next event is stored; a device cannot decrypt its own.  Then, or    *)
(* when it is stored already, the cursor moves on.  What is refused stays  *)
(* next.                                                                   *)
(***************************************************************************)
Receive(d) ==
    LET n == cursor[d] + 1 IN
    /\ Receiving(d)
    /\ log[n].by # d
    /\ n \notin Stored(d)
    /\ Storable(d, n)
    /\ Begin(d, "receive", Append(history[d], n), receipts[d])

\* Mutant of Advance: the cursor does not wait for the write.
AdvanceAtOnce(d) ==
    /\ Receiving(d)
    /\ cursor[d] + 1 \in Stored(d) \/ writes[d]["receive"] # None
    /\ cursor' = [cursor EXCEPT ![d] = @ + 1]
    /\ UNCHANGED <<log, joined, stores, outgoing, screen, offers, offered>>

Advance(d) ==
    /\ Receiving(d)
    /\ cursor[d] + 1 \in Stored(d)
    /\ writes[d]["receive"] = None
    /\ cursor' = [cursor EXCEPT ![d] = @ + 1]
    /\ UNCHANGED <<log, joined, stores, outgoing, screen, offers, offered>>

------------------------------------------------------------------------------
(***************************************************************************)
(* exportRecoveryRecords: a device offers another one of its account all   *)
(* it has, unless it has recovered history itself.                         *)
(***************************************************************************)
Offer(s, d) ==
    /\ d \in Recovering \ {s}
    /\ UserOf[s] = UserOf[d]
    /\ history[s] # <<>>
    /\ receipts[s] = {}
    /\ joined[d] # None
    /\ offered[d] = None
    /\ offers < MaxOffers
    /\ offers' = offers + 1
    /\ offered' = [offered EXCEPT ![d] = [id |-> offers + 1, list |-> history[s]]]
    /\ UNCHANGED <<log, joined, cursor, stores, outgoing, screen>>

Increasing(h) == \A i, j \in DOMAIN h : i < j => h[i] < h[j]

\* Mutant of Merged: what is new comes behind what was there.
Appended(d) ==
    {history[d] \o SelectSeq(offered[d].list, LAMBDA n : n \notin Stored(d))}

Merged(d) ==
    LET all == Stored(d) \cup Range(offered[d].list) IN
    {h \in [1 .. Cardinality(all) -> all] : Increasing(h) /\ Range(h) = all}

(***************************************************************************)
(* mergeRecoveryRecords: all of it or nothing, and once.  Every mutation   *)
(* needs its target before it, and the recovered ones are authorized       *)
(* again.                                                                  *)
(***************************************************************************)
Merge(d) ==
    /\ offered[d] # None
    /\ offered[d].id \notin receipts[d]
    /\ \E merged \in Merged(d) :
         /\ \A i \in DOMAIN merged :
              LET n == merged[i] IN
              /\ log[n].target # 0 => \E j \in 1 .. i - 1 : merged[j] = log[n].target
              /\ n \in Range(offered[d].list) => Authorized(n)
         /\ Len(merged) <= Capacity[d]
         /\ Begin(d, "merge", merged, receipts[d] \cup {offered[d].id})

\* The receipt is there: the recovery only has to be consumed.
SkipMerge(d) ==
    /\ offered[d] # None
    /\ offered[d].id \in receipts[d]
    /\ offered' = [offered EXCEPT ![d] = None]
    /\ UNCHANGED <<log, joined, cursor, stores, outgoing, screen, offers>>

Next ==
    \E d \in Devices :
        \/ Join(d)
        \/ \E k \in Kinds[d] : Send(d, k)
        \/ StoreOwn(d) \/ SkipOwn(d)
        \/ Receive(d) \/ Advance(d)
        \/ \E s \in Devices : Offer(s, d)
        \/ Merge(d) \/ SkipMerge(d)
        \/ \E w \in Writers : Persist(d, w) \/ Finish(d, w) \/ FailWrite(d, w)
        \/ Restart(d)

Spec == Init /\ [][Next]_vars

------------------------------------------------------------------------------
(***************************************************************************)
(* Whatever a device keeps, writes, shows or has on its way is of the log. *)
(***************************************************************************)
Contents == [list : Seq(DOMAIN log), receipts : SUBSET (1 .. offers)]

Written ==
    [list : Seq(DOMAIN log), receipts : SUBSET (1 .. offers),
     written : BOOLEAN, raced : BOOLEAN]

TypeOK ==
    /\ log \in Seq(Events)
    /\ joined \in [Devices -> 0 .. Len(log) \cup {None}]
    /\ cursor \in [Devices -> 0 .. Len(log)]
    /\ history \in [Devices -> Seq(DOMAIN log)]
    /\ offers \in Nat
    /\ receipts \in [Devices -> SUBSET (1 .. offers)]
    /\ disk \in [Devices -> Contents]
    /\ writes \in [Devices -> [Writers -> Written \cup {None}]]
    /\ outgoing \in [Devices -> DOMAIN log \cup {None}]
    /\ screen \in [Devices -> SUBSET DOMAIN log]
    /\ offered \in [Devices ->
                       [id : 1 .. offers, list : Seq(DOMAIN log)] \cup {None}]
    /\ lost \in [Devices -> SUBSET DOMAIN log]
    /\ overlapped \subseteq Devices
    /\ mishaps \in Nat

(***************************************************************************)
(* Whatever was sent, received and recovered, and in which order, and      *)
(* whichever of its writes came last: the file can be opened again, for    *)
(* which _decode requires increasing sequences; and no event in it, or in  *)
(* memory, changes one that is not in it before it.                        *)
(***************************************************************************)
Reopens ==
    \A d \in Devices : \A h \in {history[d], disk[d].list} :
        /\ Increasing(h)
        /\ \A i \in DOMAIN h : log[h[i]].target \in {0} \cup {h[j] : j \in 1 .. i - 1}

(***************************************************************************)
(* On no device does a message have a text that the device it came from    *)
(* has not written, and what is stored and gone was deleted by that device *)
(* or by the owner, although the server lets other devices of the account  *)
(* pass.                                                                   *)
(***************************************************************************)
OnlyAuthorsChange ==
    \A d \in Devices :
        \A r \in Stored(d) :
            log[r].kind \in Roots =>
                /\ \A n \in Texts(history[d], r) : log[n].by = log[r].by
                /\ r \notin Shown(history[d]) =>
                     \E n \in Changes(history[d], r, "delete") :
                         log[n].by = log[r].by \/ UserOf[log[n].by] = Owner

(***************************************************************************)
(* A device that was there when a message was sent has every change of it  *)
(* up to its cursor: none is passed over, whatever else was stored ahead   *)
(* of the cursor or recovered.  What is missing was there and was dropped  *)
(* by a later write, or by a restart from its file; and that happens to no *)
(* device that never had two writes under way at once.                     *)
(***************************************************************************)
ReceivedInFull ==
    \A d \in Devices :
        /\ joined[d] # None =>
             \A n \in joined[d] + 1 .. cursor[d] : n \in Stored(d) \cup lost[d]
        /\ lost[d] # {} => d \in overlapped

(***************************************************************************)
(* A device stops in these cases only: at an event that a stale write took *)
(* out, or whose target one did; at an event whose target was sent before  *)
(* it joined; at a change that another device of the author made; behind   *)
(* an event it stored ahead of its cursor; at an own event that its send   *)
(* has not stored yet; and when its history is full.  Nothing else that    *)
(* the server accepts stops it, if it can write its file.                  *)
(***************************************************************************)
StopsOnlyWhere ==
    \A d \in Devices :
        Receiving(d) =>
            LET n == cursor[d] + 1
                t == log[n].target IN
            \/ n \in Stored(d)
            \/ Storable(d, n) /\ (log[n].by = d => outgoing[d] = n)
            \/ {n, t} \cap lost[d] # {}
            \/ t \in 1 .. joined[d] \ Stored(d)
            \/ t # 0 /\ log[n].by # log[t].by /\ UserOf[log[n].by] = UserOf[log[t].by]
            \/ \E m \in Stored(d) : m > n
            \/ Len(history[d]) >= Capacity[d]

(***************************************************************************)
(* What the device has and its user no longer sees does not come back: not *)
(* with a late edit, not with a recovered history in which it was not      *)
(* deleted yet, and not when a projection that threw is followed by one    *)
(* that does not; unless in that very step a stale write, or a restart,    *)
(* drops its deletion, or a change at which the projection threw.          *)
(***************************************************************************)
DeletedStaysDeleted ==
    [][\A d \in Devices : \A r \in (screen'[d] \cap Stored(d)) \ screen[d] :
          \E n \in Stored(d) \ Stored(d)' :
              /\ log[n].target # 0
              /\ Projects(history[d]) => log[n].kind = "delete" /\ log[n].target = r]_vars
=============================================================================

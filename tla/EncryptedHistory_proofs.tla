---------------------- MODULE EncryptedHistory_proofs ----------------------
(***************************************************************************)
(* Proofs about the histories of an encrypted channel's devices, for any   *)
(* number of devices, accounts, events, overlapping writes and restarts:   *)
(* files can be opened again, histories are authentic and without          *)
(* omissions but those of a stale write, only these bring back what was    *)
(* deleted, and a device stops receiving in the listed cases only.         *)
(***************************************************************************)
EXTENDS EncryptedHistory, FiniteSetTheorems, SequenceTheorems, TLAPS

(***************************************************************************)
(* What the server lets into the log: a change names an earlier event of   *)
(* the right kind that its sender's account may change.                    *)
(***************************************************************************)
Placed(n) ==
    LET e == log[n] IN
    /\ e.kind \in Roots <=> e.target = 0
    /\ e.target # 0 => e.target \in 1 .. n - 1 /\ Permitted(e.by, e.kind, e.target)

LogInv == \A n \in DOMAIN log : Placed(n)

\* A history that can be opened again: the part of Reopens about one list.
Closed(h) ==
    /\ Increasing(h)
    /\ \A i \in DOMAIN h : log[h[i]].target \in {0} \cup {h[j] : j \in 1 .. i - 1}

(***************************************************************************)
(* What a device stores can be opened again, and it or the device it       *)
(* recovered from has authorized it.  That is so of the list in memory, of *)
(* the file, and of every list that is being written.                      *)
(***************************************************************************)
Sound(h) ==
    /\ h \in Seq(DOMAIN log)
    /\ Closed(h)
    /\ \A n \in Range(h) : Authorized(n)

Lists(d) ==
    {history[d], disk[d].list} \cup
    {writes[d][w].list : w \in {v \in Writers : writes[d][v] # None}}

AllSound == \A d \in Devices : \A h \in Lists(d) : Sound(h)

\* The first part of ReceivedInFull.
ReceivedUpTo ==
    \A d \in Devices :
        joined[d] # None =>
            \A n \in joined[d] + 1 .. cursor[d] : n \in Stored(d) \cup lost[d]

\* An own event is stored, or was, or is still being sent;
OwnKept ==
    \A n \in DOMAIN log :
        LET d == log[n].by IN n \in Stored(d) \cup lost[d] \/ outgoing[d] = n

\* a send that is writing writes it.
SendHeld ==
    \A d \in Devices :
        writes[d]["send"] # None =>
            outgoing[d] \in Range(writes[d]["send"].list)

(***************************************************************************)
(* Where no two writes have overlapped nothing is lost: the file and the   *)
(* list that is being written have all that is in memory, and what has     *)
(* been written is in the file.                                            *)
(***************************************************************************)
Steady ==
    \A d \in Devices \ overlapped :
        /\ lost[d] = {}
        /\ Stored(d) \subseteq Range(disk[d].list)
        /\ \A w \in Writers :
             writes[d][w] # None =>
                 /\ Stored(d) \subseteq Range(writes[d][w].list)
                 /\ ~writes[d][w].raced
                 /\ writes[d][w].written => disk[d].list = writes[d][w].list
                 /\ \A v \in Writers \ {w} : writes[d][v] = None

\* The screen is that of the last history that could be projected.
ScreenCurrent ==
    \A d \in Devices : Projects(history[d]) => screen[d] = Shown(history[d])

Inv ==
    /\ TypeOK
    /\ LogInv
    /\ AllSound
    /\ ReceivedUpTo
    /\ OwnKept
    /\ SendHeld
    /\ Steady
    /\ ScreenCurrent

------------------------------------------------------------------------------
LEMMA RangeFacts ==
    ASSUME NEW S, NEW h \in Seq(S)
    PROVE  /\ DOMAIN h = 1 .. Len(h) /\ Len(h) \in Nat
           /\ Range(h) \subseteq S
           /\ \A i \in DOMAIN h : h[i] \in Range(h)
           /\ \A n \in Range(h) : \E i \in DOMAIN h : h[i] = n
<1>1. DOMAIN h = 1 .. Len(h) /\ Len(h) \in Nat /\ \A i \in DOMAIN h : h[i] \in S
    OBVIOUS
<1>2. \A i \in DOMAIN h : h[i] \in Range(h)  BY DEF Range
<1>3. \A n \in Range(h) : \E i \in DOMAIN h : h[i] = n  BY Zenon DEF Range
<1>4. Range(h) \subseteq S
    <2> SUFFICES ASSUME NEW n \in Range(h) PROVE n \in S  OBVIOUS
    <2>1. PICK i \in DOMAIN h : h[i] = n  BY <1>3
    <2> QED BY <1>1, <2>1
<1> QED BY <1>1, <1>2, <1>3, <1>4

LEMMA RangeOfAppend ==
    ASSUME NEW S, NEW h \in Seq(S), NEW n
    PROVE  /\ Len(Append(h, n)) = Len(h) + 1
           /\ \A i \in 1 .. Len(h) : Append(h, n)[i] = h[i]
           /\ Append(h, n)[Len(h) + 1] = n
           /\ Range(Append(h, n)) = Range(h) \cup {n}
<1>1. /\ Len(Append(h, n)) = Len(h) + 1 /\ DOMAIN Append(h, n) = 1 .. Len(h) + 1
      /\ \A i \in 1 .. Len(h) : Append(h, n)[i] = h[i]
      /\ Append(h, n)[Len(h) + 1] = n /\ Len(h) \in Nat /\ DOMAIN h = 1 .. Len(h)
    OBVIOUS
<1>2. 1 .. Len(h) + 1 = 1 .. Len(h) \cup {Len(h) + 1}  BY <1>1
<1> QED BY <1>1, <1>2 DEF Range

(***************************************************************************)
(* In an increasing list, what comes before an event is what is less.      *)
(***************************************************************************)
LEMMA EarlierIsLess ==
    ASSUME NEW h \in Seq(Nat), Increasing(h), NEW i \in DOMAIN h
    PROVE  {h[j] : j \in 1 .. i - 1} = {m \in Range(h) : m < h[i]}
<1>1. DOMAIN h = 1 .. Len(h) /\ Len(h) \in Nat  OBVIOUS
<1>2. \A j \in DOMAIN h : h[j] \in Nat  BY <1>1
<1>3. ASSUME NEW j \in 1 .. i - 1 PROVE h[j] \in Range(h) /\ h[j] < h[i]
    <2>1. j \in DOMAIN h /\ j < i  BY <1>1
    <2>2. h[j] < h[i]  BY <2>1 DEF Increasing
    <2>3. h[j] \in Range(h)  BY <2>1 DEF Range
    <2> QED BY <2>2, <2>3
<1>4. ASSUME NEW j \in DOMAIN h, h[j] < h[i] PROVE j \in 1 .. i - 1
    <2>1. ~(i < j)  BY <1>2, <1>4 DEF Increasing
    <2>2. i # j  BY <1>2, <1>4
    <2> QED BY <1>1, <2>1, <2>2
<1> QED BY <1>3, <1>4 DEF Range

(***************************************************************************)
(* An event stored behind the others, after its target, leaves the history *)
(* one that can be opened again.                                           *)
(***************************************************************************)
LEMMA ClosedAppend ==
    ASSUME NEW h \in Seq(Nat), Closed(h), NEW n \in Nat,
           \A m \in Range(h) : m < n, log[n].target \in Range(h) \cup {0}
    PROVE  Closed(Append(h, n))
<1> DEFINE g == Append(h, n)
<1>1. /\ Len(g) = Len(h) + 1 /\ DOMAIN g = 1 .. Len(h) + 1
      /\ \A i \in 1 .. Len(h) : g[i] = h[i]
      /\ g[Len(h) + 1] = n /\ Len(h) \in Nat /\ DOMAIN h = 1 .. Len(h)
    OBVIOUS
<1>2. \A i \in 1 .. Len(h) : h[i] \in Range(h)  BY <1>1 DEF Range
<1> HIDE DEF g
<1>3. Increasing(g)
    <2> SUFFICES ASSUME NEW i \in DOMAIN g, NEW j \in DOMAIN g, i < j
                 PROVE  g[i] < g[j]
        BY DEF Increasing
    <2>1. CASE j \in 1 .. Len(h)  BY <1>1, <2>1 DEF Closed, Increasing
    <2>2. CASE j = Len(h) + 1  BY <1>1, <1>2, <2>2
    <2> QED BY <1>1, <2>1, <2>2
<1>4. ASSUME NEW i \in DOMAIN g
      PROVE  log[g[i]].target \in {0} \cup {g[j] : j \in 1 .. i - 1}
    <2>1. CASE i \in 1 .. Len(h)
        <3>1. \A j \in 1 .. i - 1 : h[j] = g[j]  BY <1>1, <2>1
        <3>2. log[h[i]].target \in {0} \cup {h[j] : j \in 1 .. i - 1}
            <4>1. i \in DOMAIN h  BY <1>1, <2>1
            <4> QED BY <4>1, Zenon DEF Closed
        <3>3. {h[j] : j \in 1 .. i - 1} = {g[j] : j \in 1 .. i - 1}
            BY <3>1, Zenon
        <3>4. g[i] = h[i]  BY <1>1, <2>1
        <3> QED BY <3>2, <3>3, <3>4, Zenon
    <2>2. CASE i = Len(h) + 1
        <3>1. log[n].target = 0 \/ \E j \in DOMAIN h : h[j] = log[n].target
            BY RangeFacts
        <3>2. \A j \in DOMAIN h : j \in 1 .. i - 1 /\ g[j] = h[j]  BY <1>1, <2>2
        <3>3. g[i] = n  BY <1>1, <2>2
        <3>4. CASE \E j \in DOMAIN h : h[j] = log[n].target
            <4>1. PICK j \in DOMAIN h : h[j] = log[n].target  BY <3>4
            <4>2. j \in 1 .. i - 1 /\ g[j] = log[g[i]].target  BY <3>2, <3>3, <4>1
            <4> QED BY <4>2
        <3> QED BY <3>1, <3>3, <3>4
    <2> QED BY <1>1, <2>1, <2>2
<1> QED BY <1>3, <1>4 DEF Closed, g

(***************************************************************************)
(* What could be projected with more changes in it can be projected        *)
(* without: a history that throws goes on throwing while it keeps its      *)
(* changes.                                                                *)
(***************************************************************************)
LEMMA ProjectsShorter ==
    ASSUME NEW h \in Seq(Nat), NEW g \in Seq(Nat), Closed(h), Increasing(g),
           \A n \in Range(h) : log[n].target # 0 => n \in Range(g),
           Projects(g)
    PROVE  Projects(h)
<1> DEFINE Before(f, i) == {f[j] : j \in 1 .. i - 1}
<1> SUFFICES ASSUME NEW i \in DOMAIN h, log[h[i]].target # 0
             PROVE  LET t == log[h[i]].target IN
                    /\ t \in Before(h, i) /\ log[t].kind \in Roots
                    /\ Changes(h, t, "delete") \cap Before(h, i) = {}
    BY DEF Projects
<1> DEFINE t == log[h[i]].target
<1>1. t \in Before(h, i)  BY DEF Closed
<1>2. h[i] \in Range(h)  BY RangeFacts
<1>3. PICK k \in DOMAIN g : g[k] = h[i]  BY <1>2, RangeFacts
<1>4. /\ log[t].kind \in Roots
      /\ Changes(g, t, "delete") \cap Before(g, k) = {}
    BY <1>3 DEF Projects
<1>5. Before(h, i) = {m \in Range(h) : m < h[i]}  BY EarlierIsLess DEF Closed
<1>6. Before(g, k) = {m \in Range(g) : m < g[k]}  BY EarlierIsLess
<1>7. Changes(h, t, "delete") \subseteq Changes(g, t, "delete")  BY DEF Changes
<1>8. Changes(h, t, "delete") \cap Before(h, i) \subseteq Before(g, k)
    BY <1>3, <1>5, <1>6, <1>7 DEF Changes
<1> QED BY <1>1, <1>4, <1>7, <1>8

------------------------------------------------------------------------------
USE HistoryAssumption

LEMMA StoredInLog ==
    ASSUME TypeOK
    PROVE  /\ DOMAIN log = 1 .. Len(log) /\ Len(log) \in Nat
           /\ \A n \in DOMAIN log : log[n] \in Events
           /\ \A d \in Devices : /\ history[d] \in Seq(Nat)
                                 /\ history[d] \in Seq(DOMAIN log)
                                 /\ Stored(d) \subseteq DOMAIN log
<1>1. /\ DOMAIN log = 1 .. Len(log) /\ Len(log) \in Nat
      /\ \A n \in DOMAIN log : log[n] \in Events
    BY DEF TypeOK
<1>2. ASSUME NEW d \in Devices
      PROVE  /\ history[d] \in Seq(Nat) /\ history[d] \in Seq(DOMAIN log)
             /\ Stored(d) \subseteq DOMAIN log
    <2>1. history[d] \in Seq(DOMAIN log)  BY DEF TypeOK
    <2>2. Stored(d) \subseteq DOMAIN log  BY <2>1, RangeFacts DEF Stored
    <2>3. DOMAIN log \subseteq Nat  BY <1>1
    <2> QED BY <2>1, <2>2, <2>3
<1> QED BY <1>1, <1>2

LEMMA SoundEmpty == Sound(<<>>)
BY DEF Sound, Closed, Increasing, Range

LEMMA InitInv == Init => Inv
<1> SUFFICES ASSUME Init PROVE Inv  OBVIOUS
<1>1. log = <<>> /\ log \in Seq(Events) /\ Len(log) = 0 /\ DOMAIN log = {}
    BY DEF Init
<1>2. \A d \in Devices : /\ history[d] = <<>> /\ Range(history[d]) = {}
                         /\ disk[d].list = <<>> /\ lost[d] = {}
                         /\ \A w \in Writers : writes[d][w] = None
    BY DEF Init, Range
<1>3. TypeOK  BY <1>1 DEF Init, TypeOK, Contents
<1>4. LogInv /\ OwnKept  BY <1>1 DEF LogInv, OwnKept
<1>5. AllSound
    <2>1. \A d \in Devices : Lists(d) = {<<>>}  BY <1>2 DEF Lists
    <2> QED BY <2>1, SoundEmpty DEF AllSound
<1>6. ReceivedUpTo  BY DEF Init, ReceivedUpTo
<1>7. SendHeld /\ Steady  BY <1>2 DEF SendHeld, Steady, Writers, Stored
<1>8. ScreenCurrent  BY <1>2 DEF Init, ScreenCurrent, Shown
<1> QED BY <1>3, <1>4, <1>5, <1>6, <1>7, <1>8 DEF Inv

------------------------------------------------------------------------------
(***************************************************************************)
(* Steps that leave the log alone.                                         *)
(***************************************************************************)
LEMMA SoundSame ==
    ASSUME NEW h, Sound(h), log' = log
    PROVE  Sound(h)'
BY DEF Sound, Closed, Increasing, Authorized, Targets, SameSender, MayDelete

\* At most one new list, and a sound one, comes to those a device has.
LEMMA ListsKept ==
    ASSUME Inv, log' = log, NEW list, Sound(list),
           \A d \in Devices : Lists(d)' \subseteq Lists(d) \cup {list}
    PROVE  LogInv' /\ AllSound'
<1>1. LogInv'  BY DEF Inv, LogInv, Placed, Permitted
<1>2. ASSUME NEW d \in Devices, NEW h \in Lists(d)' PROVE Sound(h)'
    <2>1. Sound(h)  BY <1>2 DEF Inv, AllSound
    <2> QED BY <2>1, SoundSame
<1>3. AllSound'  BY <1>2 DEF AllSound
<1> QED BY <1>1, <1>3

LEMMA SameSteady ==
    ASSUME Inv, UNCHANGED stores
    PROVE  Steady'
<1>1. /\ history' = history /\ disk' = disk /\ writes' = writes
      /\ lost' = lost /\ overlapped' = overlapped
    BY DEF stores
<1>2. ASSUME NEW d \in Devices \ overlapped'
      PROVE  /\ lost'[d] = {}
             /\ Range(history'[d]) \subseteq Range(disk'[d].list)
    BY <1>1 DEF Inv, Steady, Stored
<1>3. ASSUME NEW d \in Devices \ overlapped', NEW w \in Writers, writes'[d][w] # None
      PROVE  /\ Range(history'[d]) \subseteq Range(writes'[d][w].list)
             /\ ~writes'[d][w].raced
             /\ writes'[d][w].written => disk'[d].list = writes'[d][w].list
             /\ \A v \in Writers \ {w} : writes'[d][v] = None
    BY <1>1, <1>3 DEF Inv, Steady, Stored
<1> QED BY <1>2, <1>3 DEF Steady, Stored

LEMMA SameStores ==
    ASSUME TypeOK, UNCHANGED stores, log' = log, offers' = offers
    PROVE  /\ history' \in [Devices -> Seq(DOMAIN log')]
           /\ receipts' \in [Devices -> SUBSET (1 .. offers')]
           /\ disk' \in [Devices -> Contents']
           /\ writes' \in [Devices -> [Writers -> Written' \cup {None}]]
           /\ lost' \in [Devices -> SUBSET DOMAIN log']
           /\ overlapped' \subseteq Devices /\ mishaps' \in Nat
BY DEF TypeOK, Contents, Written, stores

LEMMA SameLists ==
    ASSUME Inv, log' = log, UNCHANGED stores
    PROVE  LogInv' /\ AllSound' /\ Steady'
<1>1. \A d \in Devices : Lists(d)' \subseteq Lists(d) \cup {<<>>}
    BY DEF Lists, stores
<1>2. LogInv' /\ AllSound'  BY <1>1, SoundEmpty, ListsKept
<1>3. Steady'  BY SameSteady
<1> QED BY <1>2, <1>3

LEMMA SameScreen ==
    ASSUME Inv, log' = log, history' = history, screen' = screen
    PROVE  ScreenCurrent'
BY DEF Inv, ScreenCurrent, Projects, Shown, Changes

LEMMA SameOwn ==
    ASSUME Inv, log' = log, history' = history, lost' = lost, outgoing' = outgoing
    PROVE  OwnKept'
BY DEF Inv, OwnKept, Stored

LEMMA SameReceived ==
    ASSUME Inv, history' = history, lost' = lost, joined' = joined, cursor' = cursor
    PROVE  ReceivedUpTo'
BY DEF Inv, ReceivedUpTo, Stored

LEMMA JoinKeeps ==
    ASSUME Inv, NEW d \in Devices, Join(d)
    PROVE  Inv'
<1>1. /\ log' = log /\ outgoing' = outgoing /\ screen' = screen
      /\ offers' = offers /\ offered' = offered /\ UNCHANGED stores
      /\ joined' = [joined EXCEPT ![d] = Len(log)]
      /\ cursor' = [cursor EXCEPT ![d] = Len(log)]
    BY DEF Join
<1>2. TypeOK'
    <2>1. /\ joined' \in [Devices -> 0 .. Len(log) \cup {None}]
          /\ cursor' \in [Devices -> 0 .. Len(log)]
        BY <1>1, StoredInLog DEF Inv, TypeOK
    <2> QED BY <1>1, <2>1, SameStores DEF Inv, TypeOK
<1>3. ReceivedUpTo'
    <2> SUFFICES ASSUME NEW c \in Devices, joined'[c] # None,
                        NEW n \in joined'[c] + 1 .. cursor'[c]
                 PROVE  n \in Range(history'[c]) \cup lost'[c]
        BY DEF ReceivedUpTo, Stored
    <2>1. CASE c = d
        BY <1>1, <2>1, StoredInLog DEF Inv, TypeOK
    <2>2. CASE c # d
        <3>1. joined'[c] = joined[c] /\ cursor'[c] = cursor[c]
            BY <1>1, <2>2 DEF Inv, TypeOK
        <3> QED BY <1>1, <3>1 DEF Inv, ReceivedUpTo, Stored, stores
    <2> QED BY <2>1, <2>2
<1>4. OwnKept' /\ SendHeld' /\ ScreenCurrent'
    BY <1>1, SameOwn, SameScreen DEF Inv, SendHeld, stores
<1> QED BY <1>1, <1>2, <1>3, <1>4, SameLists DEF Inv

LEMMA AdvanceKeeps ==
    ASSUME Inv, NEW d \in Devices, Advance(d)
    PROVE  Inv'
<1>1. /\ log' = log /\ outgoing' = outgoing /\ screen' = screen
      /\ offers' = offers /\ offered' = offered /\ UNCHANGED stores
      /\ joined' = joined /\ joined[d] # None /\ cursor[d] < Len(log)
      /\ cursor' = [cursor EXCEPT ![d] = @ + 1]
      /\ cursor[d] + 1 \in Stored(d)
    BY DEF Advance, Receiving
<1>2. TypeOK'
    <2>1. /\ joined' \in [Devices -> 0 .. Len(log) \cup {None}]
          /\ cursor' \in [Devices -> 0 .. Len(log)]
        <3>1. /\ joined \in [Devices -> 0 .. Len(log) \cup {None}]
              /\ cursor \in [Devices -> 0 .. Len(log)] /\ Len(log) \in Nat
            BY StoredInLog DEF Inv, TypeOK
        <3>2. cursor[d] + 1 \in 0 .. Len(log)  BY <1>1, <3>1
        <3> QED BY <1>1, <3>1, <3>2
    <2> QED BY <1>1, <2>1, SameStores DEF Inv, TypeOK
<1>3. ReceivedUpTo'
    <2> SUFFICES ASSUME NEW c \in Devices, joined'[c] # None,
                        NEW n \in joined'[c] + 1 .. cursor'[c]
                 PROVE  n \in Range(history'[c]) \cup lost'[c]
        BY DEF ReceivedUpTo, Stored
    <2>1. joined[c] \in Nat /\ cursor[c] \in Nat
        BY <1>1, StoredInLog DEF Inv, TypeOK
    <2>2. CASE n \in joined[c] + 1 .. cursor[c]
        BY <1>1, <2>2 DEF Inv, ReceivedUpTo, Stored, stores
    <2>3. CASE n \notin joined[c] + 1 .. cursor[c]
        <3>1. cursor'[c] = IF c = d THEN cursor[d] + 1 ELSE cursor[c]
            BY <1>1 DEF Inv, TypeOK
        <3>2. c = d /\ n = cursor[d] + 1
            BY <1>1, <2>1, <2>3, <3>1
        <3>3. Range(history'[c]) = Stored(d)  BY <1>1, <3>2 DEF Stored, stores
        <3> QED BY <1>1, <3>2, <3>3
    <2> QED BY <2>2, <2>3
<1>4. OwnKept' /\ SendHeld' /\ ScreenCurrent'
    BY <1>1, SameOwn, SameScreen DEF Inv, SendHeld, stores
<1> QED BY <1>1, <1>2, <1>3, <1>4, SameLists DEF Inv

LEMMA SkipOwnKeeps ==
    ASSUME Inv, NEW d \in Devices, SkipOwn(d)
    PROVE  Inv'
<1>1. /\ log' = log /\ screen' = screen /\ joined' = joined /\ cursor' = cursor
      /\ offers' = offers /\ offered' = offered /\ UNCHANGED stores
      /\ outgoing[d] \in Stored(d) /\ writes[d]["send"] = None
      /\ outgoing' = [outgoing EXCEPT ![d] = None]
    BY DEF SkipOwn
<1>2. TypeOK'  BY <1>1, SameStores DEF Inv, TypeOK
<1>3. \A c \in Devices : outgoing'[c] = IF c = d THEN None ELSE outgoing[c]
    BY <1>1 DEF Inv, TypeOK
<1>4. OwnKept'
    <2> SUFFICES ASSUME NEW n \in DOMAIN log, NEW c, c = log[n].by
                 PROVE  n \in Range(history'[c]) \cup lost'[c] \/ outgoing'[c] = n
        BY <1>1 DEF OwnKept, Stored
    <2>1. n \in Stored(c) \cup lost[c] \/ outgoing[c] = n  BY DEF Inv, OwnKept
    <2>2. c \in Devices  BY StoredInLog DEF Inv, Events
    <2> QED BY <1>1, <1>3, <2>1, <2>2 DEF Stored, stores
<1>5. SendHeld'  BY <1>1, <1>3 DEF Inv, SendHeld, stores
<1> QED BY <1>1, <1>2, <1>4, <1>5, SameLists, SameScreen, SameReceived DEF Inv, stores

LEMMA OfferKeeps ==
    ASSUME Inv, NEW d \in Devices, NEW s \in Devices, Offer(s, d)
    PROVE  Inv'
<1>1. /\ log' = log /\ screen' = screen /\ joined' = joined /\ cursor' = cursor
      /\ outgoing' = outgoing /\ UNCHANGED stores /\ offers' = offers + 1
      /\ offered' = [offered EXCEPT ![d] = [id |-> offers + 1, list |-> history[s]]]
    BY DEF Offer
<1>2. TypeOK'
    <2>1. offers \in Nat /\ 1 .. offers \subseteq 1 .. offers' /\ offers' \in 1 .. offers'
        BY <1>1 DEF Inv, TypeOK
    <2>2. receipts' \in [Devices -> SUBSET (1 .. offers')]
        BY <1>1, <2>1 DEF Inv, TypeOK, stores
    <2>3. disk' \in [Devices -> [list : Seq(DOMAIN log), receipts : SUBSET (1 .. offers')]]
        BY <1>1, <2>1 DEF Inv, TypeOK, Contents, stores
    <2>4. writes' \in [Devices -> [Writers -> Written' \cup {None}]]
        <3>1. Written \subseteq Written'  BY <1>1, <2>1 DEF Written
        <3>2. writes' = writes /\ writes \in [Devices -> [Writers -> Written \cup {None}]]
            BY <1>1 DEF Inv, TypeOK, stores
        <3> QED BY <3>1, <3>2
    <2>5. offered' \in [Devices ->
              [id : 1 .. offers', list : Seq(DOMAIN log)] \cup {None}]
        BY <1>1, <2>1 DEF Inv, TypeOK
    <2>6. /\ history' = history /\ lost' = lost /\ overlapped' = overlapped
          /\ mishaps' = mishaps
        BY <1>1 DEF stores
    <2>7. disk' \in [Devices -> Contents']  BY <1>1, <2>3 DEF Contents
    <2> QED BY <1>1, <2>1, <2>2, <2>4, <2>5, <2>6, <2>7 DEF Inv, TypeOK
<1>3. OwnKept' /\ SendHeld' /\ ReceivedUpTo'
    BY <1>1, SameOwn, SameReceived DEF Inv, SendHeld, stores
<1> QED BY <1>1, <1>2, <1>3, SameLists, SameScreen DEF Inv, stores

LEMMA SkipMergeKeeps ==
    ASSUME Inv, NEW d \in Devices, SkipMerge(d)
    PROVE  Inv'
<1>1. /\ log' = log /\ screen' = screen /\ joined' = joined /\ cursor' = cursor
      /\ outgoing' = outgoing /\ UNCHANGED stores /\ offers' = offers
      /\ offered' = [offered EXCEPT ![d] = None]
    BY DEF SkipMerge
<1>2. TypeOK'  BY <1>1, SameStores DEF Inv, TypeOK
<1>3. OwnKept' /\ SendHeld' /\ ReceivedUpTo'
    BY <1>1, SameOwn, SameReceived DEF Inv, SendHeld, stores
<1> QED BY <1>1, <1>2, <1>3, SameLists, SameScreen DEF Inv, stores

(***************************************************************************)
(* A new event of the log changes nothing about those that are stored.     *)
(***************************************************************************)
LEMMA LogGrows ==
    ASSUME TypeOK, NEW d \in Devices, NEW k \in Kinds[d], Send(d, k)
    PROVE  \E t \in DOMAIN log \cup {0} :
             /\ k \in Roots <=> t = 0
             /\ t # 0 => Permitted(d, k, t)
             /\ log' = Append(log, [by |-> d, kind |-> k, target |-> t])
             /\ log' \in Seq(Events) /\ Len(log') = Len(log) + 1
             /\ DOMAIN log' = 1 .. Len(log) + 1
             /\ log'[Len(log) + 1] = [by |-> d, kind |-> k, target |-> t]
             /\ \A n \in DOMAIN log : log'[n] = log[n]
<1>1. PICK t \in IF k \in Roots THEN {0} ELSE screen[d] :
        /\ t # 0 => Permitted(d, k, t)
        /\ log' = Append(log, [by |-> d, kind |-> k, target |-> t])
    BY DEF Send
<1>2. screen[d] \subseteq 1 .. Len(log) /\ DOMAIN log = 1 .. Len(log)
      /\ log \in Seq(Events) /\ Len(log) \in Nat
    BY StoredInLog DEF TypeOK
<1>3. t \in DOMAIN log \cup {0} /\ (k \in Roots <=> t = 0)  BY <1>1, <1>2
<1>4. [by |-> d, kind |-> k, target |-> t] \in Events
    BY <1>2, <1>3 DEF Events, EventKinds
<1>5. /\ log' \in Seq(Events) /\ Len(log') = Len(log) + 1
      /\ DOMAIN log' = 1 .. Len(log) + 1
      /\ log'[Len(log) + 1] = [by |-> d, kind |-> k, target |-> t]
      /\ \A n \in DOMAIN log : log'[n] = log[n]
    BY <1>1, <1>2, <1>4
<1> QED BY <1>1, <1>3, <1>5

LEMMA SendKeeps ==
    ASSUME Inv, NEW d \in Devices, NEW k \in Kinds[d], Send(d, k)
    PROVE  Inv'
<1> DEFINE n == Len(log) + 1
<1>1. PICK t \in DOMAIN log \cup {0} :
        /\ k \in Roots <=> t = 0
        /\ t # 0 => Permitted(d, k, t)
        /\ log' \in Seq(Events) /\ Len(log') = n /\ DOMAIN log' = 1 .. n
        /\ log'[n] = [by |-> d, kind |-> k, target |-> t]
        /\ \A m \in DOMAIN log : log'[m] = log[m]
    BY LogGrows DEF Inv
<1>2. /\ joined' = joined /\ cursor' = cursor /\ screen' = screen
      /\ UNCHANGED stores /\ offers' = offers /\ offered' = offered
      /\ outgoing[d] = None /\ outgoing' = [outgoing EXCEPT ![d] = n]
    BY DEF Send
<1>3. /\ DOMAIN log = 1 .. Len(log) /\ Len(log) \in Nat
      /\ \A m \in DOMAIN log : log[m] \in Events
      /\ \A c \in Devices : /\ history[c] \in Seq(DOMAIN log)
                            /\ Stored(c) \subseteq DOMAIN log
    BY StoredInLog DEF Inv
<1>4. \A c \in Devices : \A m \in Range(history[c]) : m \in DOMAIN log /\ log'[m] = log[m]
    BY <1>1, <1>3 DEF Stored
<1>5. TypeOK'
    <2>1. DOMAIN log \subseteq DOMAIN log' /\ n \in DOMAIN log'  BY <1>1, <1>3
    <2>2. Seq(DOMAIN log) \subseteq Seq(DOMAIN log')  BY <2>1
    <2>3. 0 .. Len(log) \subseteq 0 .. Len(log')  BY <1>1, <1>3
    <2>4. disk' \in [Devices -> [list : Seq(DOMAIN log'), receipts : SUBSET (1 .. offers)]]
        BY <1>2, <2>2 DEF Inv, TypeOK, Contents, stores
    <2>5. writes' \in [Devices -> [Writers -> Written' \cup {None}]]
        <3>1. Written \subseteq Written'  BY <1>2, <2>2 DEF Written
        <3>2. writes' = writes /\ writes \in [Devices -> [Writers -> Written \cup {None}]]
            BY <1>2 DEF Inv, TypeOK, stores
        <3> QED BY <3>1, <3>2
    <2>6. offered' \in [Devices ->
              [id : 1 .. offers, list : Seq(DOMAIN log')] \cup {None}]
        BY <1>2, <2>2 DEF Inv, TypeOK
    <2>7. outgoing' \in [Devices -> DOMAIN log' \cup {None}]
        BY <1>2, <2>1 DEF Inv, TypeOK
    <2>8. /\ joined' \in [Devices -> 0 .. Len(log') \cup {None}]
          /\ cursor' \in [Devices -> 0 .. Len(log')]
        BY <1>2, <2>3 DEF Inv, TypeOK
    <2>9. /\ history' \in [Devices -> Seq(DOMAIN log')]
          /\ screen' \in [Devices -> SUBSET DOMAIN log']
          /\ lost' \in [Devices -> SUBSET DOMAIN log']
        BY <1>2, <2>1, <2>2 DEF Inv, TypeOK, stores
    <2>10. disk' \in [Devices -> Contents']  BY <1>2, <2>4 DEF Contents
    <2>11. /\ receipts' = receipts /\ overlapped' = overlapped /\ mishaps' = mishaps
        BY <1>2 DEF stores
    <2> QED BY <1>1, <1>2, <2>5, <2>6, <2>7, <2>8, <2>9, <2>10, <2>11
        DEF Inv, TypeOK
<1>6. LogInv'
    <2> SUFFICES ASSUME NEW m \in DOMAIN log' PROVE Placed(m)'  BY DEF LogInv
    <2>1. CASE m \in DOMAIN log
        <3>1. Placed(m)  BY <2>1 DEF Inv, LogInv
        <3>2. log'[m] = log[m] /\ log[m].target \in Nat  BY <1>1, <1>3, <2>1 DEF Events
        <3>3. log[m].target # 0 =>
                /\ log[m].target \in 1 .. m - 1
                /\ log'[log[m].target] = log[log[m].target]
            BY <1>1, <1>3, <2>1, <3>1 DEF Placed
        <3> QED BY <3>1, <3>2, <3>3 DEF Placed, Permitted
    <2>2. CASE m = n
        <3>1. t # 0 => log'[t] = log[t] /\ t \in 1 .. n - 1  BY <1>1, <1>3
        <3> QED BY <1>1, <2>2, <3>1 DEF Placed, Permitted
    <2> QED BY <1>1, <1>3, <2>1, <2>2
<1>7. AllSound'
    <2> SUFFICES ASSUME NEW c \in Devices, NEW h \in Lists(c)' PROVE Sound(h)'
        BY DEF AllSound
    <2>1. Sound(h)
        <3>1. h \in Lists(c)  BY <1>2 DEF Lists, stores
        <3> QED BY <3>1 DEF Inv, AllSound
    <2>2. h \in Seq(DOMAIN log)  BY <2>1 DEF Sound
    <2>3. \A m \in Range(h) : m \in DOMAIN log /\ log'[m] = log[m]
        BY <1>1, <2>2, RangeFacts
    <2>4. \A i \in DOMAIN h : log'[h[i]] = log[h[i]]  BY <2>2, <2>3, RangeFacts
    <2>5. Closed(h)'  BY <2>1, <2>4 DEF Sound, Closed, Increasing
    <2>6. ASSUME NEW m \in Range(h) PROVE Authorized(m)'
        <3>1. Authorized(m)  BY <2>1 DEF Sound
        <3>2. log'[m] = log[m] /\ m \in DOMAIN log  BY <2>3
        <3>3. log[m].target # 0 =>
                /\ log[m].target \in DOMAIN log /\ log[m].target \in DOMAIN log'
                /\ log'[log[m].target] = log[log[m].target]
            BY <1>1, <1>3, <3>1 DEF Authorized, Targets
        <3> QED BY <3>1, <3>2, <3>3
            DEF Authorized, Targets, SameSender, MayDelete
    <2>7. h \in Seq(DOMAIN log')
        <3>1. DOMAIN log \subseteq DOMAIN log'  BY <1>1, <1>3
        <3> QED BY <2>2, <3>1
    <2> QED BY <2>5, <2>6, <2>7 DEF Sound
<1>8. ReceivedUpTo' /\ Steady'
    BY <1>2, SameReceived, SameSteady DEF Inv, stores
<1>9. OwnKept' /\ SendHeld'
    <2>1. \A c \in Devices : outgoing'[c] = IF c = d THEN n ELSE outgoing[c]
        BY <1>2 DEF Inv, TypeOK
    <2>2. ASSUME NEW m \in DOMAIN log', NEW c, c = log'[m].by
          PROVE  m \in Range(history'[c]) \cup lost'[c] \/ outgoing'[c] = m
        <3>1. CASE m = n  BY <1>1, <2>1, <2>2, <3>1
        <3>2. CASE m # n
            <4>1. m \in DOMAIN log /\ c = log[m].by  BY <1>1, <1>3, <2>2, <3>2
            <4>2. m \in Stored(c) \cup lost[c] \/ outgoing[c] = m
                BY <4>1 DEF Inv, OwnKept
            <4>3. c \in Devices /\ m \in Nat  BY <1>3, <4>1 DEF Events
            <4> QED BY <1>2, <2>1, <4>2, <4>3 DEF stores, Stored
        <3> QED BY <3>1, <3>2
    <2>3. OwnKept'  BY <2>2 DEF OwnKept, Stored
    <2>4. SendHeld'
        <3> SUFFICES ASSUME NEW c \in Devices, writes[c]["send"] # None
                     PROVE  outgoing'[c] \in Range(writes[c]["send"].list)
            BY <1>2 DEF SendHeld, stores
        <3>1. outgoing[c] \in Range(writes[c]["send"].list)  BY DEF Inv, SendHeld
        <3>2. writes[c]["send"].list \in Seq(DOMAIN log)
            BY DEF Inv, TypeOK, Written, Writers
        <3>3. outgoing[c] \in Nat  BY <1>3, <3>1, <3>2, RangeFacts
        <3> QED BY <1>2, <2>1, <3>1, <3>3
    <2> QED BY <2>3, <2>4
<1>10. ScreenCurrent'
    <2> SUFFICES ASSUME NEW c \in Devices, Projects(history[c])'
                 PROVE  screen'[c] = Shown(history[c])'
        BY DEF ScreenCurrent
    <2>1. history'[c] = history[c] /\ screen'[c] = screen[c]  BY <1>2 DEF stores
    <2>2. ASSUME NEW r, NEW kind
          PROVE  Changes(history[c], r, kind)' = Changes(history[c], r, kind)
        BY <1>4, <2>1 DEF Changes
    <2>3. Shown(history[c])' = Shown(history[c])
        BY <1>4, <2>1, <2>2 DEF Shown
    <2>4. Projects(history[c])
        <3> DEFINE earlier(i) == {history[c][j] : j \in 1 .. i - 1}
                   deleting(u) == {m \in Range(history[c]) :
                                     log[m].kind = "delete" /\ log[m].target = u}
        <3> SUFFICES ASSUME NEW i \in DOMAIN history[c],
                            NEW u, u = log[history[c][i]].target, u # 0
                     PROVE  /\ u \in earlier(i) /\ log[u].kind \in Roots
                            /\ deleting(u) \cap earlier(i) = {}
            BY DEF Projects, Changes
        <3>1. log'[history'[c][i]].target = u /\ i \in DOMAIN history'[c]
            BY <1>3, <1>4, <2>1, RangeFacts
        <3>2. /\ u \in {history'[c][j] : j \in 1 .. i - 1}
              /\ log'[u].kind \in Roots
              /\ {m \in Range(history'[c]) :
                    log'[m].kind = "delete" /\ log'[m].target = u}
                 \cap {history'[c][j] : j \in 1 .. i - 1} = {}
            BY <3>1 DEF Projects, Changes
        <3>3. PICK j \in 1 .. i - 1 : u = history[c][j]  BY <2>1, <3>2
        <3>4. j \in DOMAIN history[c]  BY <1>3, <3>3
        <3>5. u \in Range(history[c])  BY <1>3, <3>3, <3>4, RangeFacts
        <3>6. log'[u] = log[u]  BY <1>4, <3>5
        <3>7. deleting(u) = {m \in Range(history'[c]) :
                               log'[m].kind = "delete" /\ log'[m].target = u}
            BY <1>4, <2>1
        <3> QED BY <2>1, <3>2, <3>6, <3>7
    <2> QED BY <2>1, <2>3, <2>4 DEF Inv, ScreenCurrent
<1> QED BY <1>5, <1>6, <1>7, <1>8, <1>9, <1>10 DEF Inv

------------------------------------------------------------------------------
LEMMA SteadyNext ==
    ASSUME history' = history, lost' = lost,
           \A c \in Devices \ overlapped' :
               /\ lost[c] = {}
               /\ Stored(c) \subseteq Range(disk'[c].list)
               /\ \A w \in Writers :
                    writes'[c][w] # None =>
                        /\ Stored(c) \subseteq Range(writes'[c][w].list)
                        /\ ~writes'[c][w].raced
                        /\ writes'[c][w].written => disk'[c].list = writes'[c][w].list
                        /\ \A v \in Writers \ {w} : writes'[c][v] = None
    PROVE  Steady'
<1>1. \A c \in Devices : Range(history'[c]) = Stored(c)  BY DEF Stored
<1>2. ASSUME NEW c \in Devices \ overlapped'
      PROVE  lost'[c] = {} /\ Range(history'[c]) \subseteq Range(disk'[c].list)
    BY <1>1
<1>3. ASSUME NEW c \in Devices \ overlapped', NEW w \in Writers, writes'[c][w] # None
      PROVE  /\ Range(history'[c]) \subseteq Range(writes'[c][w].list)
             /\ ~writes'[c][w].raced
             /\ writes'[c][w].written => disk'[c].list = writes'[c][w].list
             /\ \A v \in Writers \ {w} : writes'[c][v] = None
    BY <1>1, <1>3
<1> QED BY <1>2, <1>3 DEF Steady, Stored

(***************************************************************************)
(* A write begins with a sound list that has all that is in memory.        *)
(***************************************************************************)
LEMMA BeginKeeps ==
    ASSUME Inv, NEW d \in Devices, NEW w \in Writers,
           NEW list, Sound(list), Stored(d) \subseteq Range(list),
           NEW done \in SUBSET (1 .. offers), Begin(d, w, list, done),
           w = "send" => outgoing[d] \in Range(list)
    PROVE  Inv'
<1> DEFINE new == [v \in Writers |->
              IF v = w
              THEN [list |-> list, receipts |-> done, written |-> FALSE, raced |-> ~Idle(d)]
              ELSE IF writes[d][v] = None THEN None
                   ELSE [writes[d][v] EXCEPT !.raced = TRUE]]
<1>1. /\ log' = log /\ joined' = joined /\ cursor' = cursor /\ history' = history
      /\ receipts' = receipts /\ disk' = disk /\ outgoing' = outgoing
      /\ screen' = screen /\ offers' = offers /\ offered' = offered
      /\ lost' = lost /\ mishaps' = mishaps
      /\ writes' = [writes EXCEPT ![d] = new]
      /\ overlapped' = IF Idle(d) THEN overlapped ELSE overlapped \cup {d}
      /\ writes[d][w] = None
    BY DEF Begin
<1>2. writes \in [Devices -> [Writers -> Written \cup {None}]]  BY DEF Inv, TypeOK
<1>3. new \in [Writers -> Written \cup {None}]
    <2>1. [list |-> list, receipts |-> done, written |-> FALSE, raced |-> ~Idle(d)]
              \in Written
        BY DEF Sound, Written, Idle
    <2>2. ASSUME NEW v \in Writers, writes[d][v] # None
          PROVE  [writes[d][v] EXCEPT !.raced = TRUE] \in Written
        <3>1. writes[d][v] \in Written  BY <1>2, <2>2
        <3> QED BY <3>1 DEF Written
    <2> QED BY <2>1, <2>2
<1>4. \A c \in Devices : writes'[c] = IF c = d THEN new ELSE writes[c]  BY <1>1, <1>2
<1>5. TypeOK'
    <2>1. writes' \in [Devices -> [Writers -> Written \cup {None}]]
        BY <1>1, <1>2, <1>3
    <2>2. overlapped' \subseteq Devices  BY <1>1 DEF Inv, TypeOK
    <2> QED BY <1>1, <2>1, <2>2 DEF Inv, TypeOK, Contents, Written
<1>6. \A v \in Writers : new[v] # None =>
        /\ new[v].list = IF v = w THEN list ELSE writes[d][v].list
        /\ v # w => writes[d][v] # None
    <2> SUFFICES ASSUME NEW v \in Writers, new[v] # None
                 PROVE  /\ new[v].list = IF v = w THEN list ELSE writes[d][v].list
                        /\ v # w => writes[d][v] # None
        OBVIOUS
    <2>1. CASE v = w  BY <2>1
    <2>2. CASE v # w
        <3>1. writes[d][v] # None  BY <2>2
        <3>2. writes[d][v] \in Written  BY <1>2, <3>1
        <3> QED BY <2>2, <3>1, <3>2 DEF Written
    <2> QED BY <2>1, <2>2
<1> HIDE DEF new
<1>7. LogInv' /\ AllSound'
    <2>1. ASSUME NEW c \in Devices, NEW h \in Lists(c)'
          PROVE  h \in Lists(c) \cup {list}
        <3>1. CASE h = history[c] \/ h = disk[c].list  BY <3>1 DEF Lists
        <3>2. CASE ~(h = history[c] \/ h = disk[c].list)
            <4>1. PICK v \in Writers : writes'[c][v] # None /\ h = writes'[c][v].list
                BY <1>1, <2>1, <3>2 DEF Lists
            <4>2. h = list \/ (writes[c][v] # None /\ h = writes[c][v].list)
                BY <1>4, <1>6, <4>1
            <4> QED BY <4>2 DEF Lists
        <3> QED BY <3>1, <3>2
    <2>2. \A c \in Devices : Lists(c)' \subseteq Lists(c) \cup {list}  BY <2>1
    <2> QED BY <1>1, <2>2, ListsKept
<1>8. SendHeld'
    <2> SUFFICES ASSUME NEW c \in Devices, writes'[c]["send"] # None
                 PROVE  outgoing[c] \in Range(writes'[c]["send"].list)
        BY <1>1 DEF SendHeld
    <2>1. CASE c # d  BY <1>4, <2>1 DEF Inv, SendHeld
    <2>2. CASE c = d /\ w = "send"  BY <1>4, <1>6, <2>2
    <2>3. CASE c = d /\ w # "send"
        <3>1. "send" \in Writers  BY DEF Writers
        <3>2. writes[d]["send"] # None
              /\ writes'[d]["send"].list = writes[d]["send"].list
            BY <1>4, <1>6, <2>3, <3>1
        <3> QED BY <2>3, <3>2 DEF Inv, SendHeld
    <2> QED BY <2>1, <2>2, <2>3
<1>9. Steady'
    <2>1. ASSUME NEW c \in Devices \ overlapped'
          PROVE  /\ lost[c] = {}
                 /\ Stored(c) \subseteq Range(disk[c].list)
                 /\ \A u \in Writers :
                      writes'[c][u] # None =>
                          /\ Stored(c) \subseteq Range(writes'[c][u].list)
                          /\ ~writes'[c][u].raced
                          /\ writes'[c][u].written => disk[c].list = writes'[c][u].list
                          /\ \A v \in Writers \ {u} : writes'[c][v] = None
        <3>1. c \notin overlapped  BY <1>1
        <3>2. CASE c # d  BY <1>4, <3>1, <3>2 DEF Inv, Steady
        <3>3. CASE c = d
            <4>1. Idle(d) /\ \A v \in Writers : writes[d][v] = None
                BY <1>1, <3>3 DEF Idle
            <4>2. \A v \in Writers \ {w} : new[v] = None  BY <1>6, <4>1
            <4>3. new[w].raced = FALSE /\ new[w].written = FALSE  BY <4>1 DEF new
            <4> QED BY <1>4, <1>6, <3>1, <3>3, <4>2, <4>3 DEF Inv, Steady
        <3> QED BY <3>2, <3>3
    <2> QED BY <1>1, <2>1, SteadyNext
<1> QED BY <1>1, <1>5, <1>7, <1>8, <1>9, SameOwn, SameReceived, SameScreen DEF Inv

LEMMA StoreIsSound ==
    ASSUME Inv, NEW d \in Devices, NEW n \in DOMAIN log, Storable(d, n)
    PROVE  /\ Sound(Append(history[d], n))
           /\ Range(Append(history[d], n)) = Stored(d) \cup {n}
<1>1. history[d] \in Seq(Nat) /\ history[d] \in Seq(DOMAIN log) /\ n \in Nat
    BY StoredInLog DEF Inv
<1>2. Range(Append(history[d], n)) = Stored(d) \cup {n}
    BY <1>1, RangeOfAppend DEF Stored
<1>3. Sound(history[d])  BY DEF Inv, AllSound, Lists
<1>4. Append(history[d], n) \in Seq(DOMAIN log)  BY <1>1
<1>5. Closed(Append(history[d], n))
    <2>1. /\ Closed(history[d]) /\ \A m \in Range(history[d]) : m < n
          /\ log[n].target \in Range(history[d]) \cup {0}
        BY <1>3 DEF Sound, Storable, Stored
    <2> QED BY <1>1, <2>1, ClosedAppend
<1>6. \A m \in Stored(d) \cup {n} : Authorized(m)
    BY <1>3 DEF Sound, Storable, Stored
<1> QED BY <1>2, <1>4, <1>5, <1>6 DEF Sound

LEMMA StoreOwnKeeps ==
    ASSUME Inv, NEW d \in Devices, StoreOwn(d)
    PROVE  Inv'
<1> DEFINE list == Append(history[d], outgoing[d])
<1>1. /\ Begin(d, "send", list, receipts[d]) /\ Storable(d, outgoing[d])
      /\ outgoing[d] \in DOMAIN log /\ receipts[d] \in SUBSET (1 .. offers)
    BY DEF StoreOwn, Inv, TypeOK
<1>2. Sound(list) /\ Range(list) = Stored(d) \cup {outgoing[d]}
    BY <1>1, StoreIsSound
<1>3. "send" \in Writers  BY DEF Writers
<1> HIDE DEF list
<1> QED BY <1>1, <1>2, <1>3, BeginKeeps

LEMMA ReceiveKeeps ==
    ASSUME Inv, NEW d \in Devices, Receive(d)
    PROVE  Inv'
<1> DEFINE list == Append(history[d], cursor[d] + 1)
<1>1. /\ Begin(d, "receive", list, receipts[d]) /\ Storable(d, cursor[d] + 1)
      /\ receipts[d] \in SUBSET (1 .. offers)
    BY DEF Receive, Inv, TypeOK
<1>2. cursor[d] + 1 \in DOMAIN log
    BY StoredInLog DEF Receive, Receiving, Inv, TypeOK
<1>3. Sound(list) /\ Range(list) = Stored(d) \cup {cursor[d] + 1}
    BY <1>1, <1>2, StoreIsSound
<1>4. "receive" \in Writers  BY DEF Writers
<1> HIDE DEF list
<1> QED BY <1>1, <1>3, <1>4, BeginKeeps

LEMMA MergeKeeps ==
    ASSUME Inv, NEW d \in Devices, Merge(d)
    PROVE  Inv'
<1>1. /\ offered[d].id \in 1 .. offers /\ offered[d].list \in Seq(DOMAIN log)
      /\ receipts[d] \in SUBSET (1 .. offers)
    BY DEF Merge, Inv, TypeOK
<1> DEFINE all == Stored(d) \cup Range(offered[d].list)
           done == receipts[d] \cup {offered[d].id}
<1>2. PICK merged \in Merged(d) :
        /\ \A i \in DOMAIN merged :
             LET n == merged[i] IN
             /\ log[n].target # 0 => \E j \in 1 .. i - 1 : merged[j] = log[n].target
             /\ n \in Range(offered[d].list) => Authorized(n)
        /\ Begin(d, "merge", merged, done)
    BY DEF Merge
<1>3. /\ merged \in [1 .. Cardinality(all) -> all]
      /\ Increasing(merged) /\ Range(merged) = all
    BY DEF Merged
<1>4. /\ DOMAIN log = 1 .. Len(log) /\ Len(log) \in Nat /\ Stored(d) \subseteq DOMAIN log
      /\ Range(offered[d].list) \subseteq DOMAIN log
    BY <1>1, StoredInLog, RangeFacts DEF Inv
<1>5. merged \in Seq(DOMAIN log)
    <2>1. IsFiniteSet(DOMAIN log)  BY <1>4, FS_Interval
    <2>2. IsFiniteSet(all)  BY <1>4, <2>1, FS_Subset
    <2>3. Cardinality(all) \in Nat  BY <2>2, FS_CardinalityType
    <2>4. all \subseteq DOMAIN log  BY <1>4
    <2> HIDE DEF all
    <2> QED BY <1>3, <2>3, <2>4
<1>6. Closed(merged)
    <2> SUFFICES ASSUME NEW i \in DOMAIN merged
                 PROVE  log[merged[i]].target \in {0} \cup {merged[j] : j \in 1 .. i - 1}
        BY <1>3 DEF Closed
    <2> QED BY <1>2
<1>7. ASSUME NEW m \in Range(merged) PROVE Authorized(m)
    <2>1. CASE m \in Stored(d)
        <3>1. Sound(history[d])  BY DEF Inv, AllSound, Lists
        <3> QED BY <2>1, <3>1 DEF Sound, Stored
    <2>2. CASE m \in Range(offered[d].list)
        <3>1. PICK i \in DOMAIN merged : merged[i] = m  BY <1>5, RangeFacts
        <3> QED BY <1>2, <2>2, <3>1
    <2> QED BY <1>3, <2>1, <2>2
<1>8. Sound(merged) /\ Stored(d) \subseteq Range(merged)
    BY <1>3, <1>5, <1>6, <1>7 DEF Sound
<1>9. "merge" \in Writers /\ done \in SUBSET (1 .. offers)  BY <1>1 DEF Writers
<1> HIDE DEF done
<1> QED BY <1>2, <1>8, <1>9, BeginKeeps

LEMMA PersistKeeps ==
    ASSUME Inv, NEW d \in Devices, NEW w \in Writers, Persist(d, w)
    PROVE  Inv'
<1>1. /\ log' = log /\ joined' = joined /\ cursor' = cursor /\ history' = history
      /\ receipts' = receipts /\ outgoing' = outgoing /\ screen' = screen
      /\ offers' = offers /\ offered' = offered /\ lost' = lost
      /\ overlapped' = overlapped /\ mishaps' = mishaps /\ writes[d][w] # None
      /\ disk' = [disk EXCEPT ![d] =
                    [list |-> writes[d][w].list, receipts |-> writes[d][w].receipts]]
      /\ writes' = [writes EXCEPT ![d][w].written = TRUE]
    BY DEF Persist
<1>2. /\ writes \in [Devices -> [Writers -> Written \cup {None}]]
      /\ writes[d][w] \in Written /\ disk \in [Devices -> Contents]
    BY <1>1 DEF Inv, TypeOK
<1>3. [writes[d][w] EXCEPT !.written = TRUE] \in Written
      /\ [writes[d][w] EXCEPT !.written = TRUE].list = writes[d][w].list
      /\ [writes[d][w] EXCEPT !.written = TRUE].raced = writes[d][w].raced
    BY <1>2 DEF Written
<1>4. \A c \in Devices, v \in Writers :
        writes'[c][v] = IF c = d /\ v = w THEN [writes[d][w] EXCEPT !.written = TRUE]
                                          ELSE writes[c][v]
    BY <1>1, <1>2
<1>5. \A c \in Devices, v \in Writers : writes'[c][v] # None =>
        /\ writes[c][v] # None
        /\ writes'[c][v].list = writes[c][v].list
        /\ writes'[c][v].raced = writes[c][v].raced
    BY <1>1, <1>3, <1>4
<1>6. \A c \in Devices :
        disk'[c] = IF c = d THEN [list |-> writes[d][w].list, receipts |-> writes[d][w].receipts]
                            ELSE disk[c]
    BY <1>1, <1>2
<1>7. TypeOK'
    <2>1. writes' \in [Devices -> [Writers -> Written \cup {None}]]
        BY <1>1, <1>2, <1>3
    <2>2. disk' \in [Devices -> Contents]
        <3>1. [list |-> writes[d][w].list, receipts |-> writes[d][w].receipts] \in Contents
            BY <1>2 DEF Written, Contents
        <3> QED BY <1>1, <1>2, <3>1
    <2> QED BY <1>1, <2>1, <2>2 DEF Inv, TypeOK, Contents, Written
<1>8. LogInv' /\ AllSound'
    <2>1. ASSUME NEW c \in Devices, NEW h \in Lists(c)'
          PROVE  h \in Lists(c)
        <3>1. CASE h = history[c]  BY <3>1 DEF Lists
        <3>2. CASE h = disk'[c].list  BY <1>1, <1>6, <3>2 DEF Lists
        <3>3. CASE ~(h = history[c] \/ h = disk'[c].list)
            <4>1. PICK v \in Writers : writes'[c][v] # None /\ h = writes'[c][v].list
                BY <1>1, <2>1, <3>3 DEF Lists
            <4>2. writes[c][v] # None /\ h = writes[c][v].list  BY <1>5, <4>1
            <4> QED BY <4>2 DEF Lists
        <3> QED BY <3>1, <3>2, <3>3
    <2>2. \A c \in Devices : Lists(c)' \subseteq Lists(c) \cup {<<>>}  BY <2>1
    <2> QED BY <1>1, <2>2, ListsKept, SoundEmpty
<1>9. SendHeld'
    <2>1. "send" \in Writers  BY DEF Writers
    <2> QED BY <1>1, <1>5, <2>1 DEF Inv, SendHeld
<1>10. Steady'
    <2>1. ASSUME NEW c \in Devices \ overlapped
          PROVE  /\ lost[c] = {}
                 /\ Stored(c) \subseteq Range(disk'[c].list)
                 /\ \A u \in Writers :
                      writes'[c][u] # None =>
                          /\ Stored(c) \subseteq Range(writes'[c][u].list)
                          /\ ~writes'[c][u].raced
                          /\ writes'[c][u].written => disk'[c].list = writes'[c][u].list
                          /\ \A v \in Writers \ {u} : writes'[c][v] = None
        <3>1. /\ lost[c] = {} /\ Stored(c) \subseteq Range(disk[c].list)
              /\ \A u \in Writers :
                   writes[c][u] # None =>
                       /\ Stored(c) \subseteq Range(writes[c][u].list)
                       /\ ~writes[c][u].raced
                       /\ writes[c][u].written => disk[c].list = writes[c][u].list
                       /\ \A v \in Writers \ {u} : writes[c][v] = None
            BY DEF Inv, Steady
        <3>2. Stored(c) \subseteq Range(disk'[c].list)  BY <1>1, <1>6, <3>1
        <3>3. ASSUME NEW u \in Writers, writes'[c][u] # None
              PROVE  /\ Stored(c) \subseteq Range(writes'[c][u].list)
                     /\ ~writes'[c][u].raced
                     /\ \A v \in Writers \ {u} : writes'[c][v] = None
                     /\ writes'[c][u].written => disk'[c].list = writes'[c][u].list
            <4>1. /\ writes[c][u] # None /\ writes'[c][u].list = writes[c][u].list
                  /\ writes'[c][u].raced = writes[c][u].raced
                BY <1>5, <3>3
            <4>2. \A v \in Writers \ {u} : writes'[c][v] = None
                BY <1>5, <3>1, <4>1
            <4>3. CASE c = d
                <5>1. u = w  BY <1>1, <3>1, <4>1, <4>3
                <5> QED BY <1>6, <3>1, <4>1, <4>2, <4>3, <5>1
            <4>4. CASE c # d
                BY <1>4, <1>6, <3>1, <4>1, <4>2, <4>4
            <4> QED BY <4>3, <4>4
        <3> QED BY <3>1, <3>2, <3>3
    <2> QED BY <1>1, <2>1, SteadyNext
<1> QED BY <1>1, <1>7, <1>8, <1>9, <1>10, SameOwn, SameReceived, SameScreen DEF Inv

LEMMA FailWriteKeeps ==
    ASSUME Inv, NEW d \in Devices, NEW w \in Writers, FailWrite(d, w)
    PROVE  Inv'
<1>1. /\ log' = log /\ joined' = joined /\ cursor' = cursor /\ history' = history
      /\ receipts' = receipts /\ outgoing' = outgoing /\ screen' = screen
      /\ offers' = offers /\ offered' = offered /\ lost' = lost
      /\ overlapped' = overlapped /\ mishaps' = mishaps + 1 /\ writes[d][w] # None
      /\ \/ disk' = disk
         \/ writes[d][w].raced /\ disk' = [disk EXCEPT ![d] = NoFile]
      /\ writes' = [writes EXCEPT ![d][w] = None]
    BY DEF FailWrite
<1>2. /\ writes \in [Devices -> [Writers -> Written \cup {None}]]
      /\ disk \in [Devices -> Contents] /\ NoFile \in Contents /\ mishaps \in Nat
      /\ NoFile.list = <<>>
    BY DEF Inv, TypeOK, NoFile, Contents
<1>3. \A c \in Devices, v \in Writers :
        writes'[c][v] = IF c = d /\ v = w THEN None ELSE writes[c][v]
    BY <1>1, <1>2
<1>4. \A c \in Devices : disk'[c] = disk[c] \/ (c = d /\ writes[d][w].raced /\ disk'[c] = NoFile)
    BY <1>1, <1>2
<1>5. TypeOK'
    <2>1. writes' \in [Devices -> [Writers -> Written \cup {None}]]  BY <1>1, <1>2
    <2>2. disk' \in [Devices -> Contents]
        <3>1. CASE disk' = disk  BY <1>2, <3>1
        <3>2. CASE disk' = [disk EXCEPT ![d] = NoFile]  BY <1>2, <3>2
        <3> QED BY <1>1, <3>1, <3>2
    <2>3. mishaps' \in Nat  BY <1>1, <1>2
    <2> QED BY <1>1, <2>1, <2>2, <2>3 DEF Inv, TypeOK, Contents, Written
<1>6. LogInv' /\ AllSound'
    <2>1. ASSUME NEW c \in Devices, NEW h \in Lists(c)'
          PROVE  h \in Lists(c) \cup {<<>>}
        <3>1. CASE h = history[c]  BY <3>1 DEF Lists
        <3>2. CASE h = disk'[c].list  BY <1>2, <1>4, <3>2 DEF Lists
        <3>3. CASE ~(h = history[c] \/ h = disk'[c].list)
            <4>1. PICK v \in Writers : writes'[c][v] # None /\ h = writes'[c][v].list
                BY <1>1, <2>1, <3>3 DEF Lists
            <4>2. writes[c][v] # None /\ h = writes[c][v].list  BY <1>3, <4>1
            <4> QED BY <4>2 DEF Lists
        <3> QED BY <3>1, <3>2, <3>3
    <2>2. \A c \in Devices : Lists(c)' \subseteq Lists(c) \cup {<<>>}  BY <2>1
    <2> QED BY <1>1, <2>2, ListsKept, SoundEmpty
<1>7. SendHeld'
    <2>1. "send" \in Writers  BY DEF Writers
    <2> QED BY <1>1, <1>3, <2>1 DEF Inv, SendHeld
<1>8. Steady'
    <2>1. ASSUME NEW c \in Devices \ overlapped
          PROVE  /\ lost[c] = {}
                 /\ Stored(c) \subseteq Range(disk'[c].list)
                 /\ \A u \in Writers :
                      writes'[c][u] # None =>
                          /\ Stored(c) \subseteq Range(writes'[c][u].list)
                          /\ ~writes'[c][u].raced
                          /\ writes'[c][u].written => disk'[c].list = writes'[c][u].list
                          /\ \A v \in Writers \ {u} : writes'[c][v] = None
        <3>1. /\ lost[c] = {} /\ Stored(c) \subseteq Range(disk[c].list)
              /\ \A u \in Writers :
                   writes[c][u] # None =>
                       /\ Stored(c) \subseteq Range(writes[c][u].list)
                       /\ ~writes[c][u].raced
                       /\ writes[c][u].written => disk[c].list = writes[c][u].list
                       /\ \A v \in Writers \ {u} : writes[c][v] = None
            BY DEF Inv, Steady
        <3>2. disk'[c] = disk[c]  BY <1>1, <1>4, <3>1
        <3>3. ASSUME NEW u \in Writers, writes'[c][u] # None
              PROVE  /\ Stored(c) \subseteq Range(writes'[c][u].list)
                     /\ ~writes'[c][u].raced
                     /\ writes'[c][u].written => disk'[c].list = writes'[c][u].list
                     /\ \A v \in Writers \ {u} : writes'[c][v] = None
            <4>1. writes'[c][u] = writes[c][u] /\ writes[c][u] # None  BY <1>3, <3>3
            <4>2. \A v \in Writers \ {u} : writes'[c][v] = None  BY <1>3, <3>1, <4>1
            <4> QED BY <3>1, <3>2, <4>1, <4>2
        <3> QED BY <3>1, <3>2, <3>3
    <2> QED BY <1>1, <2>1, SteadyNext
<1> QED BY <1>1, <1>5, <1>6, <1>7, <1>8, SameOwn, SameReceived, SameScreen DEF Inv

(***************************************************************************)
(* Another list takes the place of what is in memory: what it lacks is     *)
(* lost.                                                                   *)
(***************************************************************************)
LEMMA Replaced ==
    ASSUME Inv, NEW d \in Devices, NEW list \in Seq(DOMAIN log), log' = log,
           history' = [history EXCEPT ![d] = list],
           lost' = [lost EXCEPT ![d] = @ \cup (Stored(d) \ Range(list))]
    PROVE  /\ history' \in [Devices -> Seq(DOMAIN log)]
           /\ lost' \in [Devices -> SUBSET DOMAIN log]
           /\ \A c \in Devices :
                /\ history'[c] = IF c = d THEN list ELSE history[c]
                /\ lost'[c] = IF c = d THEN lost[d] \cup (Stored(d) \ Range(list))
                                       ELSE lost[c]
                /\ Stored(c) \cup lost[c] \subseteq Range(history'[c]) \cup lost'[c]
<1>1. /\ history \in [Devices -> Seq(DOMAIN log)]
      /\ lost \in [Devices -> SUBSET DOMAIN log] /\ Stored(d) \subseteq DOMAIN log
    BY StoredInLog DEF Inv, TypeOK
<1>2. ASSUME NEW c \in Devices
      PROVE  /\ history'[c] = IF c = d THEN list ELSE history[c]
             /\ lost'[c] = IF c = d THEN lost[d] \cup (Stored(d) \ Range(list))
                                    ELSE lost[c]
    BY <1>1
<1>3. ASSUME NEW c \in Devices
      PROVE  Stored(c) \cup lost[c] \subseteq Range(history'[c]) \cup lost'[c]
    <2>1. CASE c = d  BY <1>2, <2>1 DEF Stored
    <2>2. CASE c # d  BY <1>2, <2>2 DEF Stored
    <2> QED BY <2>1, <2>2
<1>4. lost[d] \cup (Stored(d) \ Range(list)) \in SUBSET DOMAIN log  BY <1>1
<1>5. lost' \in [Devices -> SUBSET DOMAIN log]  BY <1>1, <1>4
<1>6. history' \in [Devices -> Seq(DOMAIN log)]  BY <1>1
<1> QED BY <1>2, <1>3, <1>5, <1>6

LEMMA ReceivedReplaced ==
    ASSUME Inv, joined' = joined, cursor' = cursor,
           \A c \in Devices :
               Stored(c) \cup lost[c] \subseteq Range(history'[c]) \cup lost'[c]
    PROVE  ReceivedUpTo'
<1>1. ASSUME NEW c \in Devices, joined'[c] # None,
             NEW n \in joined'[c] + 1 .. cursor'[c]
      PROVE  n \in Range(history'[c]) \cup lost'[c]
    BY <1>1 DEF Inv, ReceivedUpTo
<1> QED BY <1>1 DEF ReceivedUpTo, Stored

(***************************************************************************)
(* The screen shows the new list when it can be projected.                 *)
(***************************************************************************)
LEMMA ScreenReplaced ==
    ASSUME Inv, log' = log, NEW d \in Devices, NEW list \in Seq(DOMAIN log),
           history' = [history EXCEPT ![d] = list],
           NEW before \in SUBSET DOMAIN log,
           screen' = [screen EXCEPT ![d] =
               IF Projects(history[d])' THEN Shown(history[d])' ELSE before]
    PROVE  ScreenCurrent' /\ screen' \in [Devices -> SUBSET DOMAIN log]
<1>1. /\ history \in [Devices -> Seq(DOMAIN log)]
      /\ screen \in [Devices -> SUBSET DOMAIN log]
    BY DEF Inv, TypeOK
<1>2. \A c \in Devices :
        /\ history'[c] = IF c = d THEN list ELSE history[c]
        /\ screen'[c] = IF c = d THEN IF Projects(history[d])' THEN Shown(history[d])'
                                                               ELSE before
                        ELSE screen[c]
    BY <1>1
<1>3. ASSUME NEW c \in Devices, Projects(history[c])'
      PROVE  screen'[c] = Shown(history[c])'
    <2>1. CASE c = d  BY <1>2, <1>3, <2>1
    <2>2. CASE c # d
        <3>1. history'[c] = history[c] /\ screen'[c] = screen[c]  BY <1>2, <2>2
        <3>2. Projects(history[c])
            <4> SUFFICES ASSUME NEW i \in DOMAIN history[c],
                                NEW u, u = log[history[c][i]].target, u # 0
                         PROVE  /\ u \in {history[c][j] : j \in 1 .. i - 1}
                                /\ log[u].kind \in Roots
                                /\ Changes(history[c], u, "delete")
                                   \cap {history[c][j] : j \in 1 .. i - 1} = {}
                BY DEF Projects
            <4>1. Changes(history[c], u, "delete") = Changes(history[c], u, "delete")'
                BY <3>1 DEF Changes
            <4>2. i \in DOMAIN history'[c] /\ log'[history'[c][i]].target = u
                BY <3>1
            <4>3. /\ u \in {history'[c][j] : j \in 1 .. i - 1}
                  /\ log'[u].kind \in Roots
                  /\ Changes(history[c], u, "delete")'
                     \cap {history'[c][j] : j \in 1 .. i - 1} = {}
                BY <1>3, <4>2 DEF Projects
            <4> QED BY <3>1, <4>1, <4>3
        <3>3. Shown(history[c])' = Shown(history[c])  BY <3>1 DEF Shown, Changes
        <3> QED BY <3>1, <3>2, <3>3 DEF Inv, ScreenCurrent
    <2> QED BY <2>1, <2>2
<1>4. Shown(history[d])' \subseteq DOMAIN log
    <2>1. Shown(history[d])' \subseteq Range(history'[d])  BY DEF Shown
    <2>2. history'[d] = list  BY <1>2
    <2>3. Range(list) \subseteq DOMAIN log  BY RangeFacts
    <2> QED BY <2>1, <2>2, <2>3
<1>5. screen' \in [Devices -> SUBSET DOMAIN log]  BY <1>1, <1>4
<1>6. ScreenCurrent'  BY <1>3 DEF ScreenCurrent
<1> QED BY <1>5, <1>6

LEMMA FinishKeeps ==
    ASSUME Inv, NEW d \in Devices, NEW w \in Writers, Finish(d, w)
    PROVE  Inv'
<1> DEFINE list == writes[d][w].list
<1>1. /\ log' = log /\ joined' = joined /\ cursor' = cursor /\ disk' = disk
      /\ offers' = offers /\ overlapped' = overlapped /\ mishaps' = mishaps
      /\ writes[d][w] # None /\ writes[d][w].written
      /\ history' = [history EXCEPT ![d] = list]
      /\ lost' = [lost EXCEPT ![d] = @ \cup (Stored(d) \ Range(list))]
      /\ receipts' = IF w = "merge" THEN [receipts EXCEPT ![d] = writes[d][w].receipts]
                                    ELSE receipts
      /\ writes' = [writes EXCEPT ![d][w] = None]
      /\ outgoing' = IF w = "send" THEN [outgoing EXCEPT ![d] = None] ELSE outgoing
      /\ offered' = IF w = "merge" THEN [offered EXCEPT ![d] = None] ELSE offered
      /\ screen' = [screen EXCEPT ![d] =
             IF Projects(history[d])' THEN Shown(history[d])' ELSE screen[d]]
    BY DEF Finish, Show
<1>2. /\ writes \in [Devices -> [Writers -> Written \cup {None}]]
      /\ writes[d][w] \in Written /\ list \in Seq(DOMAIN log)
      /\ writes[d][w].receipts \in SUBSET (1 .. offers)
      /\ screen[d] \in SUBSET DOMAIN log
    <2>1. writes[d][w] \in Written  BY <1>1 DEF Inv, TypeOK
    <2> QED BY <2>1 DEF Inv, TypeOK, Written
<1>3. \A c \in Devices, v \in Writers :
        writes'[c][v] = IF c = d /\ v = w THEN None ELSE writes[c][v]
    BY <1>1, <1>2
<1>4. list \in Lists(d)  BY <1>1 DEF Lists
<1> HIDE DEF list
<1>5. /\ history' \in [Devices -> Seq(DOMAIN log)]
      /\ lost' \in [Devices -> SUBSET DOMAIN log]
      /\ \A c \in Devices :
           /\ history'[c] = IF c = d THEN list ELSE history[c]
           /\ lost'[c] = IF c = d THEN lost[d] \cup (Stored(d) \ Range(list))
                                  ELSE lost[c]
           /\ Stored(c) \cup lost[c] \subseteq Range(history'[c]) \cup lost'[c]
    BY <1>1, <1>2, Replaced
<1>6. ScreenCurrent' /\ screen' \in [Devices -> SUBSET DOMAIN log]
    BY <1>1, <1>2, ScreenReplaced
<1>7. TypeOK'
    <2>1. writes' \in [Devices -> [Writers -> Written \cup {None}]]  BY <1>1, <1>2
    <2>2. receipts' \in [Devices -> SUBSET (1 .. offers)]
        BY <1>1, <1>2 DEF Inv, TypeOK
    <2>3. outgoing' \in [Devices -> DOMAIN log \cup {None}]  BY <1>1 DEF Inv, TypeOK
    <2>4. offered' \in [Devices ->
              [id : 1 .. offers, list : Seq(DOMAIN log)] \cup {None}]
        BY <1>1 DEF Inv, TypeOK
    <2> QED BY <1>1, <1>5, <1>6, <2>1, <2>2, <2>3, <2>4
        DEF Inv, TypeOK, Contents, Written
<1>8. LogInv' /\ AllSound'
    <2>1. ASSUME NEW c \in Devices, NEW h \in Lists(c)'
          PROVE  h \in Lists(c)
        <3>1. CASE h = history'[c]  BY <1>4, <1>5, <3>1 DEF Lists
        <3>2. CASE h = disk[c].list  BY <3>2 DEF Lists
        <3>3. CASE ~(h = history'[c] \/ h = disk[c].list)
            <4>1. PICK v \in Writers : writes'[c][v] # None /\ h = writes'[c][v].list
                BY <1>1, <2>1, <3>3 DEF Lists
            <4>2. writes[c][v] # None /\ h = writes[c][v].list  BY <1>3, <4>1
            <4> QED BY <4>2 DEF Lists
        <3> QED BY <3>1, <3>2, <3>3
    <2>2. \A c \in Devices : Lists(c)' \subseteq Lists(c) \cup {<<>>}  BY <2>1
    <2> QED BY <1>1, <2>2, ListsKept, SoundEmpty
<1>9. ReceivedUpTo'  BY <1>1, <1>5, ReceivedReplaced
<1>10. OwnKept'
    <2>1. ASSUME NEW n \in DOMAIN log, NEW c, c = log[n].by
          PROVE  n \in Range(history'[c]) \cup lost'[c] \/ outgoing'[c] = n
        <3>1. n \in Stored(c) \cup lost[c] \/ outgoing[c] = n
            BY <2>1 DEF Inv, OwnKept
        <3>2. c \in Devices  BY <2>1, StoredInLog DEF Inv, Events
        <3>3. CASE n \in Stored(c) \cup lost[c]  BY <1>5, <3>2, <3>3
        <3>4. CASE outgoing[c] = n /\ c = d /\ w = "send"
            <4>1. n \in Range(list)  BY <1>1, <3>4 DEF Inv, SendHeld, list
            <4> QED BY <1>5, <3>4, <4>1
        <3>5. CASE outgoing[c] = n /\ ~(c = d /\ w = "send")
            BY <1>1, <3>2, <3>5 DEF Inv, TypeOK
        <3> QED BY <3>1, <3>3, <3>4, <3>5
    <2> QED BY <1>1, <2>1 DEF OwnKept, Stored
<1>11. SendHeld'
    <2>1. ASSUME NEW c \in Devices, writes'[c]["send"] # None
          PROVE  outgoing'[c] \in Range(writes'[c]["send"].list)
        <3>1. "send" \in Writers  BY DEF Writers
        <3>2. writes'[c]["send"] = writes[c]["send"] /\ ~(c = d /\ w = "send")
            BY <1>3, <2>1, <3>1
        <3>3. outgoing'[c] = outgoing[c]  BY <1>1, <3>2 DEF Inv, TypeOK
        <3> QED BY <2>1, <3>2, <3>3 DEF Inv, SendHeld
    <2> QED BY <2>1 DEF SendHeld
<1>12. Steady'
    <2>1. ASSUME NEW c \in Devices \ overlapped
          PROVE  /\ lost'[c] = {}
                 /\ Range(history'[c]) \subseteq Range(disk'[c].list)
                 /\ \A u \in Writers :
                      writes'[c][u] # None =>
                          /\ Range(history'[c]) \subseteq Range(writes'[c][u].list)
                          /\ ~writes'[c][u].raced
                          /\ writes'[c][u].written => disk'[c].list = writes'[c][u].list
                          /\ \A v \in Writers \ {u} : writes'[c][v] = None
        <3>1. /\ lost[c] = {} /\ Stored(c) \subseteq Range(disk[c].list)
              /\ \A u \in Writers :
                   writes[c][u] # None =>
                       /\ Stored(c) \subseteq Range(writes[c][u].list)
                       /\ ~writes[c][u].raced
                       /\ writes[c][u].written => disk[c].list = writes[c][u].list
                       /\ \A v \in Writers \ {u} : writes[c][v] = None
            BY DEF Inv, Steady
        <3>2. CASE c # d
            <4>1. /\ history'[c] = history[c] /\ lost'[c] = lost[c]
                  /\ \A u \in Writers : writes'[c][u] = writes[c][u]
                BY <1>3, <1>5, <3>2
            <4> QED BY <1>1, <3>1, <4>1 DEF Stored
        <3>3. CASE c = d
            <4>1. \A u \in Writers : writes'[c][u] = None  BY <1>1, <1>3, <3>1, <3>3
            <4>2. disk[c].list = list /\ Stored(c) \subseteq Range(list)
                BY <1>1, <3>1, <3>3 DEF list
            <4>3. history'[c] = list /\ lost'[c] = {}  BY <1>5, <3>1, <3>3, <4>2
            <4> QED BY <1>1, <4>1, <4>2, <4>3
        <3> QED BY <3>2, <3>3
    <2> QED BY <1>1, <2>1 DEF Steady, Stored
<1> QED BY <1>6, <1>7, <1>8, <1>9, <1>10, <1>11, <1>12 DEF Inv

LEMMA RestartKeeps ==
    ASSUME Inv, NEW d \in Devices, Restart(d)
    PROVE  Inv'
<1> DEFINE list == disk[d].list
<1>1. /\ log' = log /\ joined' = joined /\ cursor' = cursor /\ disk' = disk
      /\ offers' = offers /\ overlapped' = overlapped /\ mishaps' = mishaps + 1
      /\ outgoing' = outgoing /\ offered' = offered
      /\ history' = [history EXCEPT ![d] = list]
      /\ lost' = [lost EXCEPT ![d] = @ \cup (Stored(d) \ Range(list))]
      /\ receipts' = [receipts EXCEPT ![d] = disk[d].receipts]
      /\ writes' = [writes EXCEPT ![d] = [w \in Writers |-> None]]
      /\ screen' = [screen EXCEPT ![d] =
             IF Projects(history[d])' THEN Shown(history[d])' ELSE {}]
    BY DEF Restart
<1>2. /\ writes \in [Devices -> [Writers -> Written \cup {None}]]
      /\ list \in Seq(DOMAIN log) /\ disk[d].receipts \in SUBSET (1 .. offers)
      /\ mishaps \in Nat
    <2>1. disk[d] \in Contents  BY DEF Inv, TypeOK
    <2> QED BY <2>1 DEF Inv, TypeOK, Contents
<1>3. \A c \in Devices, v \in Writers :
        writes'[c][v] = IF c = d THEN None ELSE writes[c][v]
    BY <1>1, <1>2
<1>4. list \in Lists(d)  BY DEF Lists
<1> HIDE DEF list
<1>5. /\ history' \in [Devices -> Seq(DOMAIN log)]
      /\ lost' \in [Devices -> SUBSET DOMAIN log]
      /\ \A c \in Devices :
           /\ history'[c] = IF c = d THEN list ELSE history[c]
           /\ lost'[c] = IF c = d THEN lost[d] \cup (Stored(d) \ Range(list))
                                  ELSE lost[c]
           /\ Stored(c) \cup lost[c] \subseteq Range(history'[c]) \cup lost'[c]
    BY <1>1, <1>2, Replaced
<1>6. ScreenCurrent' /\ screen' \in [Devices -> SUBSET DOMAIN log]
    <2>1. {} \in SUBSET DOMAIN log  OBVIOUS
    <2> QED BY <1>1, <1>2, <2>1, ScreenReplaced
<1>7. TypeOK'
    <2>1. writes' \in [Devices -> [Writers -> Written \cup {None}]]  BY <1>1, <1>2
    <2>2. receipts' \in [Devices -> SUBSET (1 .. offers)]
        BY <1>1, <1>2 DEF Inv, TypeOK
    <2>3. mishaps' \in Nat  BY <1>1, <1>2
    <2> QED BY <1>1, <1>5, <1>6, <2>1, <2>2, <2>3 DEF Inv, TypeOK, Contents, Written
<1>8. LogInv' /\ AllSound'
    <2>1. ASSUME NEW c \in Devices, NEW h \in Lists(c)'
          PROVE  h \in Lists(c)
        <3>1. CASE h = history'[c]  BY <1>4, <1>5, <3>1 DEF Lists
        <3>2. CASE h = disk[c].list  BY <3>2 DEF Lists
        <3>3. CASE ~(h = history'[c] \/ h = disk[c].list)
            <4>1. PICK v \in Writers : writes'[c][v] # None /\ h = writes'[c][v].list
                BY <1>1, <2>1, <3>3 DEF Lists
            <4>2. writes[c][v] # None /\ h = writes[c][v].list  BY <1>3, <4>1
            <4> QED BY <4>2 DEF Lists
        <3> QED BY <3>1, <3>2, <3>3
    <2>2. \A c \in Devices : Lists(c)' \subseteq Lists(c) \cup {<<>>}  BY <2>1
    <2> QED BY <1>1, <2>2, ListsKept, SoundEmpty
<1>9. ReceivedUpTo'  BY <1>1, <1>5, ReceivedReplaced
<1>10. OwnKept'
    <2>1. ASSUME NEW n \in DOMAIN log, NEW c, c = log[n].by
          PROVE  n \in Range(history'[c]) \cup lost'[c] \/ outgoing'[c] = n
        <3>1. n \in Stored(c) \cup lost[c] \/ outgoing[c] = n
            BY <2>1 DEF Inv, OwnKept
        <3>2. c \in Devices  BY <2>1, StoredInLog DEF Inv, Events
        <3> QED BY <1>1, <1>5, <3>1, <3>2
    <2> QED BY <1>1, <2>1 DEF OwnKept, Stored
<1>11. SendHeld'
    <2>1. ASSUME NEW c \in Devices, writes'[c]["send"] # None
          PROVE  outgoing'[c] \in Range(writes'[c]["send"].list)
        <3>1. "send" \in Writers  BY DEF Writers
        <3>2. writes'[c]["send"] = writes[c]["send"]  BY <1>3, <2>1, <3>1
        <3> QED BY <1>1, <2>1, <3>2 DEF Inv, SendHeld
    <2> QED BY <2>1 DEF SendHeld
<1>12. Steady'
    <2>1. ASSUME NEW c \in Devices \ overlapped
          PROVE  /\ lost'[c] = {}
                 /\ Range(history'[c]) \subseteq Range(disk'[c].list)
                 /\ \A u \in Writers :
                      writes'[c][u] # None =>
                          /\ Range(history'[c]) \subseteq Range(writes'[c][u].list)
                          /\ ~writes'[c][u].raced
                          /\ writes'[c][u].written => disk'[c].list = writes'[c][u].list
                          /\ \A v \in Writers \ {u} : writes'[c][v] = None
        <3>1. /\ lost[c] = {} /\ Stored(c) \subseteq Range(disk[c].list)
              /\ \A u \in Writers :
                   writes[c][u] # None =>
                       /\ Stored(c) \subseteq Range(writes[c][u].list)
                       /\ ~writes[c][u].raced
                       /\ writes[c][u].written => disk[c].list = writes[c][u].list
                       /\ \A v \in Writers \ {u} : writes[c][v] = None
            BY DEF Inv, Steady
        <3>2. CASE c # d
            <4>1. /\ history'[c] = history[c] /\ lost'[c] = lost[c]
                  /\ \A u \in Writers : writes'[c][u] = writes[c][u]
                BY <1>3, <1>5, <3>2
            <4> QED BY <1>1, <3>1, <4>1 DEF Stored
        <3>3. CASE c = d
            <4>1. \A u \in Writers : writes'[c][u] = None  BY <1>3, <3>3
            <4>2. disk[c].list = list /\ Stored(c) \subseteq Range(list)
                BY <3>1, <3>3 DEF list
            <4>3. history'[c] = list /\ lost'[c] = {}  BY <1>5, <3>1, <3>3, <4>2
            <4> QED BY <1>1, <4>1, <4>2, <4>3
        <3> QED BY <3>2, <3>3
    <2> QED BY <1>1, <2>1 DEF Steady, Stored
<1> QED BY <1>6, <1>7, <1>8, <1>9, <1>10, <1>11, <1>12 DEF Inv

LEMMA NextInv == Inv /\ [Next]_vars => Inv'
<1> SUFFICES ASSUME Inv, [Next]_vars PROVE Inv'  OBVIOUS
<1>1. ASSUME NEW d \in Devices, Join(d) PROVE Inv'  BY <1>1, JoinKeeps
<1>2. ASSUME NEW d \in Devices, NEW k \in Kinds[d], Send(d, k) PROVE Inv'
    BY <1>2, SendKeeps
<1>3. ASSUME NEW d \in Devices, StoreOwn(d) \/ SkipOwn(d) PROVE Inv'
    BY <1>3, StoreOwnKeeps, SkipOwnKeeps
<1>4. ASSUME NEW d \in Devices, Receive(d) \/ Advance(d) PROVE Inv'
    BY <1>4, ReceiveKeeps, AdvanceKeeps
<1>5. ASSUME NEW d \in Devices, NEW s \in Devices, Offer(s, d) PROVE Inv'
    BY <1>5, OfferKeeps
<1>6. ASSUME NEW d \in Devices, Merge(d) \/ SkipMerge(d) PROVE Inv'
    BY <1>6, MergeKeeps, SkipMergeKeeps
<1>7. ASSUME NEW d \in Devices, NEW w \in Writers,
             Persist(d, w) \/ Finish(d, w) \/ FailWrite(d, w)
      PROVE  Inv'
    BY <1>7, PersistKeeps, FinishKeeps, FailWriteKeeps
<1>8. ASSUME NEW d \in Devices, Restart(d) PROVE Inv'  BY <1>8, RestartKeeps
<1>9. CASE UNCHANGED vars
    <2>1. /\ log' = log /\ joined' = joined /\ cursor' = cursor /\ UNCHANGED stores
          /\ outgoing' = outgoing /\ screen' = screen /\ offers' = offers
          /\ offered' = offered
        BY <1>9 DEF vars
    <2>2. TypeOK'  BY <2>1, SameStores DEF Inv, TypeOK
    <2>3. OwnKept' /\ SendHeld' /\ ReceivedUpTo'
        BY <2>1, SameOwn, SameReceived DEF Inv, SendHeld, stores
    <2> QED BY <2>1, <2>2, <2>3, SameLists, SameScreen DEF Inv, stores
<1> QED BY <1>1, <1>2, <1>3, <1>4, <1>5, <1>6, <1>7, <1>8, <1>9 DEF Next

LEMMA SpecInv == Spec => []Inv
BY InitInv, NextInv, PTL DEF Spec

------------------------------------------------------------------------------
(***************************************************************************)
(* The log, the histories, files and writes of it, and what is shown and   *)
(* offered of them: every index is one of the log's.                       *)
(***************************************************************************)
THEOREM TypeCorrect == Spec => []TypeOK
<1>1. Inv => TypeOK  BY DEF Inv
<1> QED BY <1>1, SpecInv, PTL

(***************************************************************************)
(* MlsEventStore: what a device stored, received and merged, in whatever   *)
(* order and with whichever write last, it can open again.                 *)
(***************************************************************************)
THEOREM HistoriesReopen == Spec => []Reopens
<1>1. Inv => Reopens
    <2> SUFFICES ASSUME Inv, NEW d \in Devices, NEW h \in {history[d], disk[d].list}
                 PROVE  Closed(h)
        BY DEF Reopens, Closed
    <2>1. h \in Lists(d)  BY DEF Lists
    <2> QED BY <2>1 DEF Inv, AllSound, Sound
<1> QED BY <1>1, SpecInv, PTL

(***************************************************************************)
(* _validateMutationAuthorization: a message has no text its sender did    *)
(* not write, and only the sender or the owner has deleted it.             *)
(***************************************************************************)
THEOREM Authenticity == Spec => []OnlyAuthorsChange
<1>1. Inv => OnlyAuthorsChange
    <2> SUFFICES ASSUME Inv, NEW d \in Devices, NEW r \in Stored(d),
                        log[r].kind \in Roots
                 PROVE  /\ \A n \in Texts(history[d], r) : log[n].by = log[r].by
                        /\ r \notin Shown(history[d]) =>
                             \E n \in Changes(history[d], r, "delete") :
                                 log[n].by = log[r].by \/ UserOf[log[n].by] = Owner
        BY DEF OnlyAuthorsChange
    <2>1. r # 0  BY StoredInLog DEF Inv
    <2>2. ASSUME NEW kind, NEW n \in Changes(history[d], r, kind)
          PROVE  Authorized(n) /\ log[n].target = r /\ log[n].kind = kind
        <3>1. Sound(history[d])  BY DEF Inv, AllSound, Lists
        <3> QED BY <2>2, <3>1 DEF Sound, Changes
    <2>3. ASSUME NEW n \in Texts(history[d], r) PROVE log[n].by = log[r].by
        <3>1. CASE n = r  BY <3>1
        <3>2. CASE n \in Changes(history[d], r, "edit")
            BY <2>1, <2>2, <3>2 DEF Authorized, SameSender
        <3> QED BY <2>3, <3>1, <3>2 DEF Texts
    <2>4. ASSUME r \notin Shown(history[d])
          PROVE  \E n \in Changes(history[d], r, "delete") :
                     log[n].by = log[r].by \/ UserOf[log[n].by] = Owner
        <3>1. PICK n \in Changes(history[d], r, "delete") : TRUE
            BY <2>4 DEF Shown, Stored
        <3> QED BY <2>1, <2>2, <3>1 DEF Authorized, MayDelete, SameSender
    <2> QED BY <2>3, <2>4
<1> QED BY <1>1, SpecInv, PTL

(***************************************************************************)
(* The receive cursor moves over stored events only: since it joined, a    *)
(* device has had everything up to there, and what it has no more was      *)
(* dropped where two of its writes have overlapped.                        *)
(***************************************************************************)
THEOREM Completeness == Spec => []ReceivedInFull
<1>1. Inv => ReceivedInFull
    BY DEF Inv, ReceivedUpTo, Steady, ReceivedInFull
<1> QED BY <1>1, SpecInv, PTL

(***************************************************************************)
(* Of what the server accepts, the device refuses a change of what it      *)
(* cannot have or was dropped, a change of another device of the author's  *)
(* account, what is behind something it has stored already, and what does  *)
(* not fit; nothing else.                                                  *)
(***************************************************************************)
THEOREM StopsExplained == Spec => []StopsOnlyWhere
<1>1. Inv => StopsOnlyWhere
    <2> SUFFICES ASSUME Inv, NEW d \in Devices, Receiving(d),
                        NEW n, n = cursor[d] + 1, NEW t, t = log[n].target,
                        n \notin Stored(d), {n, t} \cap lost[d] = {},
                        ~ \E m \in Stored(d) : m > n,
                        ~ (t \in 1 .. joined[d] \ Stored(d)),
                        ~ (/\ t # 0 /\ log[n].by # log[t].by
                           /\ UserOf[log[n].by] = UserOf[log[t].by]),
                        ~ (Len(history[d]) >= Capacity[d])
                 PROVE  Storable(d, n) /\ (log[n].by = d => outgoing[d] = n)
        BY DEF StopsOnlyWhere
    <2>1. /\ DOMAIN log = 1 .. Len(log) /\ Len(log) \in Nat
          /\ Stored(d) \subseteq DOMAIN log
          /\ cursor[d] \in Nat /\ joined[d] \in Nat /\ n \in DOMAIN log
          /\ log[n] \in Events /\ t \in Nat
        <3>1. /\ DOMAIN log = 1 .. Len(log) /\ Len(log) \in Nat
              /\ Stored(d) \subseteq DOMAIN log
            BY StoredInLog DEF Inv
        <3>2. /\ cursor[d] \in 0 .. Len(log) /\ cursor[d] < Len(log)
              /\ joined[d] \in 0 .. Len(log)
            BY DEF Inv, TypeOK, Receiving
        <3>3. cursor[d] \in Nat /\ joined[d] \in Nat /\ n \in DOMAIN log
            BY <3>1, <3>2
        <3>4. log[n] \in Events  BY <3>3, StoredInLog DEF Inv
        <3>5. t \in Nat  BY <3>4 DEF Events
        <3> QED BY <3>1, <3>3, <3>4, <3>5
    <2>2. \A m \in Stored(d) : m < n  BY <2>1
    <2>3. Placed(n)  BY <2>1 DEF Inv, LogInv
    <2>4. t # 0 => t \in 1 .. cursor[d]  BY <2>1, <2>3 DEF Placed
    <2>5. t \in Stored(d) \cup {0}
        <3>1. CASE t # 0 /\ t > joined[d]
            <4>1. t \in joined[d] + 1 .. cursor[d]  BY <2>1, <2>4, <3>1
            <4>2. joined[d] # None  BY DEF Receiving
            <4>3. t \in Stored(d) \cup lost[d]
                BY <4>1, <4>2 DEF Inv, ReceivedUpTo
            <4> QED BY <4>3
        <3> QED BY <2>1, <2>4, <3>1
    <2>6. Authorized(n)
        <3> SUFFICES ASSUME t # 0
                     PROVE  /\ Targets(n, TargetKinds(log[n].kind))
                            /\ log[n].kind = "edit" => SameSender(n)
                            /\ log[n].kind = "delete" => MayDelete(n)
            BY DEF Authorized
        <3>1. Permitted(log[n].by, log[n].kind, t)  BY <2>3 DEF Placed
        <3>2. t \in DOMAIN log  BY <2>1, <2>4
        <3> QED BY <3>1, <3>2 DEF Permitted, Targets, SameSender, MayDelete
    <2>7. Len(history[d]) < Capacity[d]
        <3>1. Len(history[d]) \in Nat /\ Capacity[d] \in Nat
            BY StoredInLog, RangeFacts DEF Inv
        <3> QED BY <3>1
    <2>8. log[n].by = d => outgoing[d] = n  BY <2>1 DEF Inv, OwnKept
    <2> QED BY <2>2, <2>5, <2>6, <2>7, <2>8 DEF Storable
<1> QED BY <1>1, SpecInv, PTL

(***************************************************************************)
(* What comes back to the screen when a list takes the place of another:   *)
(* its deletion is gone with the old one, or, when that could not be       *)
(* projected, some change is.                                              *)
(***************************************************************************)
LEMMA ComesBack ==
    ASSUME Inv, log' = log, NEW d \in Devices, NEW list \in Lists(d),
           history' = [history EXCEPT ![d] = list],
           NEW before \in SUBSET screen[d],
           screen' = [screen EXCEPT ![d] =
               IF Projects(history[d])' THEN Shown(history[d])' ELSE before],
           NEW c \in Devices, NEW r \in (screen'[c] \cap Stored(c)) \ screen[c]
    PROVE  \E n \in Stored(c) \ Range(history'[c]) :
             /\ log[n].target # 0
             /\ Projects(history[c]) => log[n].kind = "delete" /\ log[n].target = r
<1>1. /\ history \in [Devices -> Seq(DOMAIN log)]
      /\ screen \in [Devices -> SUBSET DOMAIN log]
    BY DEF Inv, TypeOK
<1>2. c = d /\ history'[d] = list /\ Projects(history[d])' /\ r \in Shown(history[d])'
    BY <1>1
<1>3. Projects(list)
    <2> SUFFICES ASSUME NEW i \in DOMAIN list,
                        NEW u, u = log[list[i]].target, u # 0
                 PROVE  /\ u \in {list[j] : j \in 1 .. i - 1}
                        /\ log[u].kind \in Roots
                        /\ Changes(list, u, "delete")
                           \cap {list[j] : j \in 1 .. i - 1} = {}
        BY DEF Projects
    <2>1. Changes(history[d], u, "delete")' = Changes(list, u, "delete")
        BY <1>2 DEF Changes
    <2>2. i \in DOMAIN history'[d] /\ log'[history'[d][i]].target = u  BY <1>2
    <2>3. /\ u \in {history'[d][j] : j \in 1 .. i - 1}
          /\ log'[u].kind \in Roots
          /\ Changes(history[d], u, "delete")'
             \cap {history'[d][j] : j \in 1 .. i - 1} = {}
        BY <1>2, <2>2 DEF Projects
    <2> QED BY <1>2, <2>1, <2>3
<1>4. /\ r \in Range(list) /\ log[r].kind \in Roots
      /\ Changes(list, r, "delete") = {}
    BY <1>2 DEF Shown, Changes
<1>5. Sound(list) /\ Sound(history[d])  BY DEF Inv, AllSound, Lists
<1>6. CASE Projects(history[d])
    <2>1. r \notin Shown(history[d]) /\ r \in Range(history[d]) /\ r # 0
        BY <1>2, <1>6, StoredInLog DEF Inv, ScreenCurrent, Stored
    <2>2. PICK n \in Changes(history[d], r, "delete") : TRUE
        BY <1>4, <2>1 DEF Shown
    <2>3. n \in Stored(d) /\ n \notin Range(list) /\ log[n].kind = "delete"
          /\ log[n].target = r
        BY <1>4, <2>2 DEF Changes, Stored
    <2> QED BY <1>2, <2>1, <2>3
<1>7. CASE ~Projects(history[d])
    <2>1. /\ history[d] \in Seq(Nat) /\ list \in Seq(Nat) /\ Closed(history[d])
          /\ Increasing(list)
        <3>1. DOMAIN log \subseteq Nat  BY StoredInLog DEF Inv
        <3>2. list \in Seq(DOMAIN log) /\ history[d] \in Seq(DOMAIN log)
              /\ Closed(list) /\ Closed(history[d])
            BY <1>5 DEF Sound
        <3> QED BY <3>1, <3>2 DEF Closed
    <2>2. PICK n \in Range(history[d]) : log[n].target # 0 /\ n \notin Range(list)
        BY <1>3, <1>7, <2>1, ProjectsShorter
    <2> QED BY <1>2, <1>7, <2>2 DEF Stored
<1> QED BY <1>6, <1>7

(***************************************************************************)
(* MlsMessageProjection: what the device has and no longer shows is gone   *)
(* for good, unless its deletion is lost.                                  *)
(***************************************************************************)
THEOREM DeletionIsFinal == Spec => DeletedStaysDeleted
<1> DEFINE NoneComesBack ==
        \A d \in Devices : \A r \in (screen'[d] \cap Stored(d)) \ screen[d] :
            \E n \in Stored(d) \ Stored(d)' :
                /\ log[n].target # 0
                /\ Projects(history[d]) => log[n].kind = "delete" /\ log[n].target = r
<1>1. ASSUME Inv, Next PROVE NoneComesBack
    <2>1. ASSUME screen' = screen PROVE NoneComesBack  BY <2>1
    <2>2. ASSUME NEW d \in Devices, NEW list \in Lists(d), log' = log,
                 history' = [history EXCEPT ![d] = list],
                 NEW before \in SUBSET screen[d],
                 screen' = [screen EXCEPT ![d] =
                     IF Projects(history[d])' THEN Shown(history[d])' ELSE before]
          PROVE  NoneComesBack
        <3>1. ASSUME NEW c \in Devices, NEW r \in (screen'[c] \cap Stored(c)) \ screen[c]
              PROVE  \E n \in Stored(c) \ Range(history'[c]) :
                       /\ log[n].target # 0
                       /\ Projects(history[c]) =>
                            log[n].kind = "delete" /\ log[n].target = r
            BY <1>1, <2>2, ComesBack
        <3> QED BY <3>1 DEF Stored
    <2>3. ASSUME NEW d \in Devices, NEW w \in Writers, Finish(d, w)
          PROVE  NoneComesBack
        <3>1. /\ writes[d][w].list \in Lists(d) /\ log' = log
              /\ history' = [history EXCEPT ![d] = writes[d][w].list]
              /\ screen' = [screen EXCEPT ![d] =
                     IF Projects(history[d])' THEN Shown(history[d])' ELSE screen[d]]
            BY <2>3 DEF Finish, Show, Lists
        <3> QED BY <2>2, <3>1
    <2>4. ASSUME NEW d \in Devices, Restart(d) PROVE NoneComesBack
        <3>1. /\ disk[d].list \in Lists(d) /\ log' = log
              /\ history' = [history EXCEPT ![d] = disk[d].list]
              /\ screen' = [screen EXCEPT ![d] =
                     IF Projects(history[d])' THEN Shown(history[d])' ELSE {}]
              /\ {} \in SUBSET screen[d]
            BY <2>4 DEF Restart, Lists
        <3> QED BY <2>2, <3>1
    <2>5. ASSUME NEW d \in Devices, NEW w, NEW list, NEW done, Begin(d, w, list, done)
          PROVE  screen' = screen
        BY <2>5 DEF Begin
    <2> HIDE DEF NoneComesBack
    <2>6. PICK d \in Devices :
            \/ Join(d) \/ (\E k \in Kinds[d] : Send(d, k)) \/ StoreOwn(d) \/ SkipOwn(d)
            \/ Receive(d) \/ Advance(d) \/ (\E s \in Devices : Offer(s, d))
            \/ Merge(d) \/ SkipMerge(d)
            \/ (\E w \in Writers : Persist(d, w) \/ Finish(d, w) \/ FailWrite(d, w))
            \/ Restart(d)
        BY <1>1 DEF Next
    <2>7. CASE Join(d) \/ (\E k \in Kinds[d] : Send(d, k)) \/ SkipOwn(d) \/ Advance(d)
               \/ (\E s \in Devices : Offer(s, d)) \/ SkipMerge(d)
        BY <2>1, <2>7 DEF Join, Send, SkipOwn, Advance, Offer, SkipMerge
    <2>8. CASE StoreOwn(d) \/ Receive(d) \/ Merge(d)
        BY <2>1, <2>5, <2>8 DEF StoreOwn, Receive, Merge
    <2>9. CASE \E w \in Writers : Persist(d, w) \/ Finish(d, w) \/ FailWrite(d, w)
        BY <2>1, <2>3, <2>9 DEF Persist, FailWrite
    <2> QED BY <2>4, <2>6, <2>7, <2>8, <2>9
<1>2. Inv /\ [Next]_vars => [NoneComesBack]_vars  BY <1>1
<1> QED BY <1>2, SpecInv, PTL DEF Spec, DeletedStaysDeleted
=============================================================================

--------------------------- MODULE ProtectedFile ---------------------------
(***************************************************************************)
(* How the client replaces a protected file: the outbox of add-member      *)
(* operations, the event stores and the outbox of history transfers do it  *)
(* in one way (mls_outbox.dart, mls_event_store.dart,                      *)
(* history_recovery_outbox.dart), the state of the native MLS device in    *)
(* another (mls_local_state.dart).  The operations are sequences of what   *)
(* is on the disk after each step; the client may end after any of them,   *)
(* and while the pending file is being written.                            *)
(*                                                                         *)
(* A disk has the key, which the operating system keeps, the file, the     *)
(* pending file beside it and the previous one.                            *)
(***************************************************************************)
EXTENDS Naturals, Sequences

CONSTANTS Torn, None

Empty == [key |-> FALSE, file |-> None, pending |-> None, previous |-> None]

Exists(disk) == disk.file # None \/ disk.pending # None \/ disk.previous # None

\* writeAsBytes truncates the file first.
Written(disk, value) == <<[disk EXCEPT !.pending = Torn], [disk EXCEPT !.pending = value]>>

Finish(disk, steps) == IF steps = <<>> THEN disk ELSE steps[Len(steps)]

------------------------------------------------------------------------------
(***************************************************************************)
(* The outboxes and the event store.                                       *)
(***************************************************************************)
\* Of the pending file, or of a file that is to make way for it.
Renamed(disk) ==
    LET without == [disk EXCEPT !.file = None] IN
    <<without, [without EXCEPT !.file = disk.pending, !.pending = None]>>

Replace(disk, value) ==
    LET written == Written(disk, value) IN written \o Renamed(written[2])

Clear(disk) ==
    LET without == [disk EXCEPT !.pending = None] IN <<without, [without EXCEPT !.file = None]>>

\* A key without files is deleted, and a new one made.
WithKey(disk) ==
    CASE disk.key /\ Exists(disk) -> <<>>
      [] disk.key /\ ~Exists(disk) -> <<Empty, [Empty EXCEPT !.key = TRUE]>>
      [] OTHER -> <<[disk EXCEPT !.key = TRUE]>>

Opens(disk) ==
    /\ disk.key \/ ~Exists(disk)
    /\ disk.pending # Torn

Open(disk) ==
    WithKey(disk) \o IF disk.pending # None THEN Renamed(disk) ELSE <<>>

Content(disk) == IF disk.pending # None THEN disk.pending ELSE disk.file

------------------------------------------------------------------------------
(***************************************************************************)
(* MlsLocalDevice: the first file is written before its key, and a file    *)
(* that is replaced is kept as the previous one until the new one is       *)
(* there.                                                                  *)
(***************************************************************************)
Create(value) ==
    LET written == Written(Empty, value)
        keyed == [written[2] EXCEPT !.key = TRUE] IN
    written \o <<keyed, [keyed EXCEPT !.file = value, !.pending = None]>>

Persist(disk, value) ==
    LET written == Written(disk, value)
        single == [written[2] EXCEPT !.previous = None]
        moved == [single EXCEPT !.previous = disk.file, !.file = None]
        renamed == [moved EXCEPT !.file = value, !.pending = None] IN
    written \o IF disk.file # None
               THEN <<single, moved, renamed, [renamed EXCEPT !.previous = None]>>
               ELSE <<[written[2] EXCEPT !.file = value, !.pending = None]>>

\* A rename of the pending file that fails: the previous one takes its place again.
PersistFails(disk, value) ==
    LET written == Written(disk, value) IN
    SubSeq(Persist(disk, value), 1, 4) \o <<[written[2] EXCEPT !.previous = None]>>

StateContent(disk) ==
    CASE disk.pending # None -> disk.pending
      [] disk.pending = None /\ disk.file # None -> disk.file
      [] OTHER -> disk.previous

StateOpens(disk) ==
    IF disk.key THEN StateContent(disk) \notin {None, Torn} ELSE ~Exists(disk)

Restore(disk) ==
    LET without == [disk EXCEPT !.file = None]
        renamed == [disk EXCEPT !.file = StateContent(disk), !.pending = None,
                                !.previous = IF disk.pending # None THEN @ ELSE None]
        source == IF disk.pending = None /\ disk.file # None THEN <<>>
                  ELSE <<without, renamed>> IN
    Append(source, [Finish(disk, source) EXCEPT !.previous = None])
=============================================================================

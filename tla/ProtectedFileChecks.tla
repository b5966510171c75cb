------------------------ MODULE ProtectedFileChecks ------------------------
(***************************************************************************)
(* The operations of ProtectedFile, each of them interrupted anywhere, up  *)
(* to three one after another.                                             *)
(***************************************************************************)
LOCAL INSTANCE Naturals
LOCAL INSTANCE Sequences
LOCAL INSTANCE Functions

CONSTANT Half       \* what a file is while it is being written

LOCAL Nothing == "nothing"
LOCAL F == INSTANCE ProtectedFile WITH Torn <- Half, None <- Nothing

LOCAL Values == {"v", "w"}

LOCAL After(disk, steps) == {disk} \cup Range(steps)

LOCAL StoreDisks[n \in 0 .. 3] ==
    IF n = 0 THEN {F!Empty}
    ELSE UNION {LET open == F!Finish(disk, F!Open(disk)) IN
                After(disk, F!Open(disk)) \cup After(open, F!Clear(open)) \cup
                UNION {After(open, F!Replace(open, value)) : value \in Values} :
                disk \in {d \in StoreDisks[n - 1] : F!Opens(d)}}

LOCAL StateDisks[n \in 0 .. 3] ==
    IF n = 0 THEN {F!Empty} \cup Range(F!Create("v"))
    ELSE UNION {LET open == F!Finish(disk, F!Restore(disk)) IN
                After(disk, F!Restore(disk)) \cup
                UNION {After(open, F!Persist(open, value)) \cup
                       After(open, F!PersistFails(open, value)) : value \in Values} :
                disk \in {d \in StateDisks[n - 1] : d.key /\ F!StateOpens(d)}}

(* Wherever a replacement of a store ends, the next opening finds the old  *)
(* or the new content, unless it ended within the write of the pending     *)
(* file.  A clear leaves the old content or none, and an interrupted       *)
(* opening changes nothing: the other modules take it for one step.        *)
ASSUME StoresAreAtomic ==
    \A disk \in {d \in StoreDisks[2] : F!Opens(d)} :
        LET open == F!Finish(disk, F!Open(disk)) IN
        /\ \A after \in Range(F!Open(disk)) :
             F!Opens(after) /\ F!Content(after) = F!Content(disk)
        /\ open.key /\ open.pending = Nothing
        /\ \A value \in Values : \A after \in Range(F!Replace(open, value)) :
             after.pending # Half =>
               F!Opens(after) /\ F!Content(after) \in {F!Content(open), value}
        /\ \A after \in Range(F!Clear(open)) :
             F!Opens(after) /\ F!Content(after) \in {F!Content(open), Nothing}

(* The same of the state of the native device, whose key comes last: also  *)
(* when the new file could not be put in its place, where the next opening *)
(* finds the state of a mutation that was reported as failed.              *)
ASSUME StateIsAtomic ==
    \A disk \in {d \in StateDisks[2] : d.key /\ F!StateOpens(d)} :
        LET open == F!Finish(disk, F!Restore(disk)) IN
        /\ \A after \in Range(F!Restore(disk)) :
             F!StateOpens(after) /\ F!StateContent(after) = F!StateContent(disk)
        /\ open.pending = Nothing /\ open.previous = Nothing
        /\ \A value \in Values :
             \A after \in Range(F!Persist(open, value)) \cup Range(F!PersistFails(open, value)) :
               after.pending # Half =>
                 F!StateOpens(after) /\ F!StateContent(after) \in {F!StateContent(open), value}

(* What does not open again is a store or a state whose pending file is    *)
(* torn, though the file beside it is whole, and a state that was never    *)
(* used: its first file was there before its key.                          *)
ASSUME OnlyTheseAreLost ==
    \A n \in 0 .. 3 :
        /\ \A disk \in StoreDisks[n] : ~F!Opens(disk) => disk.key /\ disk.pending = Half
        /\ \A disk \in StateDisks[n] :
             ~F!StateOpens(disk) =>
                \/ disk.key /\ disk.pending = Half /\ disk.file # Nothing
                \/ ~disk.key /\ disk.pending # Nothing /\ disk.file = Nothing
=============================================================================

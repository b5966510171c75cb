------------------------------ MODULE CommitLog ------------------------------
(***************************************************************************)
(* What the delivery service of one encrypted channel promises, without    *)
(* sequence numbers, retries or cursors: a log that only grows, in which   *)
(* an operation stands at most once and every entry was built on exactly   *)
(* the commits that precede it.  Two commits built on the same commits     *)
(* never both enter the log: the first one wins, and the author of the     *)
(* other has to catch up and build a new one.                              *)
(***************************************************************************)
EXTENDS Naturals, Sequences, FiniteSets

CONSTANTS
    Authors,    \* the devices that submit operations
    Ids         \* the operation ids a device chooses from

VARIABLE log    \* the accepted entries, oldest first

(***************************************************************************)
(* basis counts the commits the author had applied when it built the       *)
(* operation: the MLS epoch it was in.                                     *)
(***************************************************************************)
Entries == [by : Authors, op : Ids, commit : BOOLEAN, basis : Nat]

CommitsOf(entries) ==
    Cardinality({i \in DOMAIN entries : entries[i].commit})

Holds(entries, d, o) ==
    \E i \in DOMAIN entries : entries[i].by = d /\ entries[i].op = o

Init == log = << >>

Accept(d, o, isCommit) ==
    /\ ~Holds(log, d, o)
    /\ log' = Append(log, [by |-> d, op |-> o, commit |-> isCommit,
                           basis |-> CommitsOf(log)])

Next == \E d \in Authors, o \in Ids, isCommit \in BOOLEAN : Accept(d, o, isCommit)

Spec == Init /\ [][Next]_log
==============================================================================

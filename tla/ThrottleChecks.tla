--------------------------- MODULE ThrottleChecks ---------------------------
(***************************************************************************)
(* The functions of Throttle over short histories of requests and of wrong *)
(* passwords, with entries that are removed early and late.                *)
(***************************************************************************)
LOCAL INSTANCE Integers
LOCAL INSTANCE Sequences
LOCAL INSTANCE FiniteSets
LOCAL INSTANCE SequencesExt

CONSTANT Never    \* no time to wait

LOCAL Limits(sweep) ==
    INSTANCE Throttle WITH Window <- 3, MaxCount <- 2, Sweep <- sweep, Second <- 2,
        FreeFailures <- 1, Base <- 1, Longest <- 4, Forgotten <- 6, None <- Never

LOCAL NoEntries == [k \in {} |-> Never]

\* Requests in the order of their times
LOCAL Histories(keys, length, last) ==
    {h \in [1 .. length -> [key : keys, at : 0 .. last]] :
        \A i \in 1 .. length - 1 : h[i].at <= h[i + 1].at}

\* The entries before the request i, of a route or of a socket
LOCAL Before(h, i, sweep, route) ==
    FoldLeft(LAMBDA entries, request :
                IF route THEN Limits(sweep)!RouteAfter(entries, request.key, request.at)
                ELSE Limits(sweep)!SocketAfter(entries, request.key, request.at),
             NoEntries, SubSeq(h, 1, i - 1))

LOCAL IsAdmitted(h, i, sweep, route) ==
    Limits(sweep)!Admits(Before(h, i, sweep, route), h[i].key, h[i].at)

(* Of one key, any stretch as long as a window has at most two windows'    *)
(* worth of requests admitted; one that is refused is told a time at which *)
(* the next would be admitted.                                             *)
ASSUME WindowsLimit ==
    \A h \in Histories({"a"}, 6, 5) :
        LET admitted == {i \in 1 .. 6 : IsAdmitted(h, i, 9, TRUE)} IN
        /\ \A from \in 0 .. 5 :
             Cardinality({i \in admitted : h[i].at \in from .. from + 2}) <= 4
        /\ \A i \in 1 .. 6 \ admitted :
             LET entries == Before(h, i + 1, 9, TRUE)
                 wait == Limits(9)!RetryAfter(entries, "a", h[i].at) IN
             Limits(9)!Admits(entries, "a", h[i].at + 2 * wait)

(* Removing expired entries does not change who is admitted, and one key   *)
(* does not use up what another may.                                       *)
ASSUME SweepIsUnseen ==
    \A h \in Histories({"a", "b"}, 5, 4), route \in BOOLEAN :
        \A i \in 1 .. 5 :
            LET own == SelectSeq(SubSeq(h, 1, i), LAMBDA r : r.key = h[i].key) IN
            IsAdmitted(h, i, 0, route) = IsAdmitted(own, Len(own), 9, route)

\* The failures after a history of them
LOCAL Recorded(h, sweep) ==
    FoldLeft(LAMBDA failures, f : Limits(sweep)!Failed(failures, f.key, f.at),
             NoEntries, h)

(* The wait after a wrong password is none for the first ones, then grows  *)
(* up to the longest; it is over before the failures are forgotten, and a  *)
(* correct password ends it.                                               *)
ASSUME WaitsGrow ==
    LET Delay(n) == Limits(9)!Delay(n) IN
    /\ \A n \in 1 .. 8 : Delay(n) <= Delay(n + 1) /\ Delay(n) \in 0 .. 4
    /\ Delay(1) = 0 /\ Delay(2) = 1 /\ Delay(8) = 4
    /\ \A h \in Histories({"a", "b"}, 5, 3), sweep \in {0, 9} :
         LET failures == Recorded(h, sweep)
             now == h[5].at
             mine == SelectSeq(h, LAMBDA f : f.key = h[5].key) IN
         /\ failures[h[5].key].count = Len(mine)
         /\ Limits(9)!Backoff(failures, h[5].key, now) = Never <=> Len(mine) = 1
         /\ Limits(9)!Backoff(failures, h[5].key, now + 4) = Never
         /\ Limits(9)!Looked(failures, h[5].key, now + 5) = failures
         /\ h[5].key \notin DOMAIN Limits(9)!Looked(failures, h[5].key, now + 6)
         /\ Limits(9)!Backoff(Limits(9)!Cleared(failures, h[5].key), h[5].key, now) = Never
=============================================================================

------------------------------ MODULE Throttle ------------------------------
(***************************************************************************)
(* The limits on how often a request may come in server/src/server.js:     *)
(* createRateLimiter for HTTP routes, allowSocketConnection and            *)
(* allowSocketEvent for sockets, and the waiting time after wrong          *)
(* passwords.  Each is a function of the entries it keeps in memory, by    *)
(* address or by user, and of the time in milliseconds.                    *)
(***************************************************************************)
EXTENDS Integers, FiniteSets

CONSTANTS
    Window, MaxCount,     \* windowMs and max of one limiter
    Sweep,                \* entries from which expired ones are removed: 10000
    Second,               \* 1000
    FreeFailures, Base, Longest, Forgotten,  \* AUTH_BACKOFF_*
    None

\* 1000 milliseconds to a second, upwards; at least a second
Seconds(milliseconds) ==
    LET whole == (milliseconds + Second - 1) \div Second IN
    IF whole < 1 THEN 1 ELSE whole

Without(entries, gone) == [k \in DOMAIN entries \ gone |-> entries[k]]

------------------------------------------------------------------------------
(***************************************************************************)
(* Counting in windows that begin with the first request after the last.   *)
(***************************************************************************)
Current(entries, key, now) ==
    IF key \in DOMAIN entries /\ entries[key].resetAt > now
    THEN entries[key] ELSE [count |-> 0, resetAt |-> now + Window]

Counted(entries, key, now) ==
    [k \in DOMAIN entries \cup {key} |->
        IF k = key THEN [Current(entries, key, now) EXCEPT !.count = @ + 1]
        ELSE entries[k]]

Admits(entries, key, now) == Counted(entries, key, now)[key].count <= MaxCount

RetryAfter(entries, key, now) == Seconds(entries[key].resetAt - now)

Swept(entries, now) ==
    IF Cardinality(DOMAIN entries) <= Sweep THEN entries
    ELSE Without(entries, {k \in DOMAIN entries : entries[k].resetAt <= now})

\* A route removes expired entries as it admits, a socket as it refuses.
RouteAfter(entries, key, now) ==
    IF Admits(entries, key, now)
    THEN Swept(Counted(entries, key, now), now) ELSE Counted(entries, key, now)

SocketAfter(entries, key, now) ==
    IF Admits(entries, key, now)
    THEN Counted(entries, key, now) ELSE Swept(Counted(entries, key, now), now)

------------------------------------------------------------------------------
(***************************************************************************)
(* Wrong passwords, by user.                                               *)
(***************************************************************************)
IsForgotten(entry, now) == entry.last + Forgotten <= now

\* getAuthBackoff: the seconds to wait, or None; and what it removes
Backoff(failures, user, now) ==
    IF /\ user \in DOMAIN failures
       /\ ~IsForgotten(failures[user], now)
       /\ failures[user].blockedUntil > now
    THEN Seconds(failures[user].blockedUntil - now) ELSE None

Looked(failures, user, now) ==
    IF user \in DOMAIN failures /\ IsForgotten(failures[user], now)
    THEN Without(failures, {user}) ELSE failures

Delay(count) ==
    IF count <= FreeFailures THEN 0
    ELSE LET delay == Base * 2 ^ (count - FreeFailures - 1) IN
         IF delay < Longest THEN delay ELSE Longest

\* recordAuthFailure
Failed(failures, user, now) ==
    LET count == IF user \notin DOMAIN failures \/ IsForgotten(failures[user], now)
                 THEN 1 ELSE failures[user].count + 1
        recorded == [u \in DOMAIN failures \cup {user} |->
                        IF u = user
                        THEN [count |-> count, last |-> now,
                              blockedUntil |-> now + Delay(count)]
                        ELSE failures[u]] IN
    IF Cardinality(DOMAIN recorded) <= Sweep THEN recorded
    ELSE Without(recorded, {u \in DOMAIN recorded : IsForgotten(recorded[u], now)})

\* clearAuthFailures
Cleared(failures, user) == Without(failures, {user})
=============================================================================

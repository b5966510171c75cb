----------------------------- MODULE ChatWindow ----------------------------
(***************************************************************************)
(* How a client shows the history of one plaintext channel: the pages that *)
(* server/src/server.js cuts from its messages, and the bounded window and *)
(* the cursors that client/lib/app/app_state.dart keeps of them.           *)
(*                                                                         *)
(* A message is its id; ids are issued in the order of sending.  A cursor  *)
(* is the id it is anchored at, the direction is that of the variable that *)
(* holds it.  A request and its answer are two steps.  Events of the       *)
(* socket arrive between them, or are lost while it reconnects.            *)
(***************************************************************************)
EXTENDS Naturals, FiniteSets, FiniteSetsExt

CONSTANTS
    Active, Persisted,   \* _activeMessagesPerChannel, _persistedMessagesPerChannel
    First, Limit,        \* messages of a first page and of any other page
    MaxMessages,         \* bounds the ids of messages
    None

VARIABLES
    next, deleted,       \* the channel at the server
    window,              \* _messagesByChannel
    older, newer, forward,    \* the cursors at both edges, and that of the catch-up
    hasOlder,
    stored,              \* what SharedPreferences holds of these
    refresh, loadOlder, loadNewer    \* the operations that await an answer

client == <<window, older, newer, forward, hasOlder>>
loads == <<refresh, loadOlder, loadNewer>>
vars == <<next, deleted, client, stored, loads>>

------------------------------------------------------------------------------
Ids == 1 .. MaxMessages
Cursors == Ids \cup {None}
Existing == (1 .. next - 1) \ deleted

Newest(n, S) == {m \in S : Cardinality({k \in S : k > m}) < n}
Oldest(n, S) == {m \in S : Cardinality({k \in S : k < m}) < n}

(***************************************************************************)
(* GET /api/channels/:channelId/messages, without a cursor or with one.    *)
(***************************************************************************)
Before(anchor, n) ==
    LET found == {m \in Existing : anchor = None \/ m < anchor}
        page == Newest(n, found) IN
    [rows |-> page, more |-> page # found]

After(anchor, n) ==
    LET found == {m \in Existing : m > anchor}
        page == Oldest(n, found) IN
    [rows |-> page, more |-> page # found]

------------------------------------------------------------------------------
(***************************************************************************)
(* _persist: the newest messages of the window, and the cursors.           *)
(***************************************************************************)
Persist ==
    stored' = [window |-> Newest(Persisted, window'), older |-> older',
               newer |-> newer', forward |-> forward']

Init ==
    /\ next = 1 /\ deleted = {}
    /\ window = {} /\ older = None /\ newer = None /\ forward = None
    /\ hasOlder = FALSE
    /\ stored = [window |-> {}, older |-> None, newer |-> None, forward |-> None]
    /\ refresh = None /\ loadOlder = None /\ loadNewer = None

(***************************************************************************)
(* A message is sent; message:new arrives, and _upsertMessage adds it      *)
(* unless an older part of the history is shown.                           *)
(***************************************************************************)
Send(arrives) ==
    /\ next <= MaxMessages
    /\ next' = next + 1
    /\ window' = IF arrives /\ newer = None THEN window \cup {next} ELSE window
    /\ UNCHANGED <<deleted, older, newer, forward, hasOlder, loads>>
    /\ Persist

Delete(m, arrives) ==
    /\ m \in Existing
    /\ deleted' = deleted \cup {m}
    /\ window' = IF arrives THEN window \ {m} ELSE window
    /\ UNCHANGED <<next, older, newer, forward, hasOlder, loads>>
    /\ Persist

------------------------------------------------------------------------------
(***************************************************************************)
(* _refreshPlaintextMessageHistory: a first page, or every page after the  *)
(* forward cursor, merged into the window at the end.                      *)
(***************************************************************************)
BeginRefresh ==
    /\ refresh = None
    /\ refresh' =
         IF window = {} \/ forward = None
         THEN [first |-> TRUE, page |-> Before(None, First), cached |-> {},
               active |-> {}, viewing |-> FALSE]
         ELSE [first |-> FALSE, page |-> After(forward, Limit), cached |-> window,
               active |-> window, viewing |-> newer # None]
    /\ UNCHANGED <<next, deleted, client, stored, loadOlder, loadNewer>>

\* The window becomes a new list: a load under way keeps the one it began with.
Detached(load) ==
    IF load = None \/ load.current # None THEN load
    ELSE [load EXCEPT !.current = window]

\* _replaceMessageHistoryPage
FirstPage ==
    /\ refresh # None /\ refresh.first
    /\ window' = refresh.page.rows
    /\ newer' = None
    /\ hasOlder' = refresh.page.more
    /\ older' = IF refresh.page.more THEN Min(refresh.page.rows) ELSE None
    /\ forward' = IF refresh.page.rows = {} THEN None ELSE Max(refresh.page.rows)
    /\ refresh' = None
    /\ loadOlder' = Detached(loadOlder) /\ loadNewer' = Detached(loadNewer)
    /\ UNCHANGED <<next, deleted>>
    /\ Persist

Merged(page) ==
    LET all == refresh.active \cup page.rows IN
    IF page.rows # {} /\ ~refresh.viewing
    THEN Newest(Active, all) ELSE refresh.active

Trims(page) ==
    page.rows # {} /\ ~refresh.viewing
    /\ Cardinality(refresh.active \cup page.rows) > Active

NextPage ==
    /\ refresh # None /\ ~refresh.first
    /\ LET page == refresh.page
           active == Merged(page)
           top == IF page.rows = {} THEN forward ELSE Max(page.rows) IN
       /\ older' = IF Trims(page) THEN Min(page.rows) ELSE older
       /\ hasOlder' = (hasOlder \/ Trims(page))
       /\ forward' = top
       /\ IF page.more
          THEN /\ refresh' = [refresh EXCEPT !.active = active, !.page = After(top, Limit)]
               /\ UNCHANGED <<window, stored, loadOlder, loadNewer>>
          ELSE /\ window' = IF refresh.viewing THEN window
                            ELSE Newest(Active,
                                   (active \ (refresh.cached \ window)) \cup window)
               /\ refresh' = None
               /\ IF refresh.viewing
                  THEN UNCHANGED <<loadOlder, loadNewer>>
                  ELSE /\ loadOlder' = Detached(loadOlder)
                       /\ loadNewer' = Detached(loadNewer)
               /\ stored' = [window |-> Newest(Persisted, window'), older |-> older',
                             newer |-> newer, forward |-> forward']
    /\ UNCHANGED <<next, deleted, newer>>

(***************************************************************************)
(* The request fails.  When the server refuses the cursor (its signing     *)
(* secret changed), the cursors are dropped and a first page is fetched.   *)
(***************************************************************************)
RefreshFails ==
    /\ refresh # None
    /\ refresh' = None
    /\ UNCHANGED <<next, deleted, client, stored, loadOlder, loadNewer>>

CursorRefused ==
    /\ refresh # None /\ ~refresh.first
    /\ older' = None /\ newer' = None /\ forward' = None /\ hasOlder' = FALSE
    /\ refresh' = [refresh EXCEPT !.first = TRUE, !.page = Before(None, First)]
    /\ UNCHANGED <<next, deleted, window, stored, loadOlder, loadNewer>>

------------------------------------------------------------------------------
(***************************************************************************)
(* loadOlderSelectedMessages and loadNewerSelectedMessages: when the       *)
(* window grows past its limit, its other edge is cut off, and a second    *)
(* request makes the cursor that leads back there.                         *)
(***************************************************************************)
Clamped(n) == IF n > Limit THEN Limit ELSE n

\* The list an operation began with: the window, until another operation
\* has put a new list in its place.
Current(load) == IF load.current = None THEN window ELSE load.current

BeginLoadOlder ==
    /\ loadOlder = None
    /\ hasOlder /\ older # None
    /\ LET room == IF Cardinality(window) < Active
                   THEN Active - Cardinality(window) ELSE Limit IN
       loadOlder' = [page |-> Before(older, Clamped(room)), merged |-> {},
                     current |-> None]
    /\ UNCHANGED <<next, deleted, client, stored, refresh, loadNewer>>

OlderShown(merged) ==
    /\ window' = merged
    /\ hasOlder' = loadOlder.page.more
    /\ older' = IF loadOlder.page.more THEN Min(loadOlder.page.rows) ELSE None
    /\ loadOlder' = None
    /\ loadNewer' = Detached(loadNewer)
    /\ UNCHANGED <<next, deleted, forward, refresh>>
    /\ Persist

OlderPage ==
    /\ loadOlder # None /\ loadOlder.merged = {}
    /\ LET all == loadOlder.page.rows \cup Current(loadOlder) IN
       IF Cardinality(all) > Active
       THEN /\ loadOlder' = [loadOlder EXCEPT !.merged = Oldest(Active, all)]
            /\ UNCHANGED <<next, deleted, client, stored, refresh, loadNewer>>
       ELSE OlderShown(all) /\ UNCHANGED newer

\* The anchor of the new cursor must still exist.
OlderTrimmed ==
    /\ loadOlder # None /\ loadOlder.merged # {}
    /\ Max(loadOlder.merged) \in Existing
    /\ newer' = Max(loadOlder.merged)
    /\ OlderShown(loadOlder.merged)

LoadOlderFails ==
    /\ loadOlder # None
    /\ loadOlder' = None
    /\ UNCHANGED <<next, deleted, client, stored, refresh, loadNewer>>

BeginLoadNewer ==
    /\ loadNewer = None
    /\ newer # None
    /\ loadNewer' = [page |-> After(newer, Limit), anchor |-> newer, merged |-> {},
                     current |-> None]
    /\ UNCHANGED <<next, deleted, client, stored, refresh, loadOlder>>

NewerShown(merged) ==
    LET page == loadNewer.page
        top == IF page.rows = {} THEN loadNewer.anchor ELSE Max(page.rows) IN
    /\ window' = merged
    /\ newer' = IF page.more THEN top ELSE None
    /\ forward' = IF page.more THEN forward ELSE top
    /\ loadNewer' = None
    /\ loadOlder' = Detached(loadOlder)
    /\ UNCHANGED <<next, deleted, refresh>>
    /\ Persist

NewerPage ==
    /\ loadNewer # None /\ loadNewer.merged = {}
    /\ LET all == loadNewer.page.rows \cup Current(loadNewer) IN
       IF Cardinality(all) > Active
       THEN /\ loadNewer' = [loadNewer EXCEPT !.merged = Newest(Active, all)]
            /\ hasOlder' = TRUE
            /\ UNCHANGED <<next, deleted, window, older, newer, forward, stored,
                           refresh, loadOlder>>
       ELSE NewerShown(all) /\ UNCHANGED <<older, hasOlder>>

NewerTrimmed ==
    /\ loadNewer # None /\ loadNewer.merged # {}
    /\ Min(loadNewer.merged) \in Existing
    /\ older' = Min(loadNewer.merged)
    /\ NewerShown(loadNewer.merged)
    /\ UNCHANGED hasOlder

LoadNewerFails ==
    /\ loadNewer # None
    /\ loadNewer' = None
    /\ UNCHANGED <<next, deleted, client, stored, refresh, loadOlder>>

------------------------------------------------------------------------------
(***************************************************************************)
(* The client ends and starts again: _restoreFromPrefs.                    *)
(***************************************************************************)
Restart ==
    /\ window' = stored.window
    /\ older' = stored.older /\ newer' = stored.newer /\ forward' = stored.forward
    /\ hasOlder' = (stored.older # None)
    /\ refresh' = None /\ loadOlder' = None /\ loadNewer' = None
    /\ UNCHANGED <<next, deleted, stored>>

Next ==
    \/ \E arrives \in BOOLEAN : Send(arrives) \/ \E m \in Ids : Delete(m, arrives)
    \/ BeginRefresh \/ FirstPage \/ NextPage \/ RefreshFails \/ CursorRefused
    \/ BeginLoadOlder \/ OlderPage \/ OlderTrimmed \/ LoadOlderFails
    \/ BeginLoadNewer \/ NewerPage \/ NewerTrimmed \/ LoadNewerFails
    \/ Restart

Spec == Init /\ [][Next]_vars

------------------------------------------------------------------------------
(***************************************************************************)
(* What leaves the window can be reached again: while nothing is being     *)
(* loaded, each message of the channel is shown, or lies beyond a cursor   *)
(* at an edge of the window, or in what the next catch-up fetches.         *)
(***************************************************************************)
EvictedAreRecoverable ==
    refresh = None /\ loadOlder = None /\ loadNewer = None =>
      \A m \in Existing :
        \/ m \in window
        \/ hasOlder /\ older # None /\ m < older
        \/ newer # None /\ m > newer
        \/ window = {} \/ forward = None \/ m > forward
=============================================================================

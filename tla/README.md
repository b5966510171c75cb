# A TLA+ model of Yappa

Yappa is a self-hosted chat server (Node, `server/src`) with a Flutter client
(`client/lib`) and a native MLS library (`client/native/yappa_mls`). This
project models its core logic: who may use the server (accounts, devices,
sessions, bans); how a text channel with end-to-end encryption (E2EE version 1)
orders MLS messages, adds devices, and keeps every device's cryptographic
state, cursor and history in step through lost answers, retries and crashes;
how a device hands its history to another device of the same account; how the
encrypted voice rooms agree on a key; how plaintext channels, their files and
the client's view of them are kept; and what opening an old database does. TLC
checks the models on small instances; TLAPS proves for all instances the
properties of the server's services and of the clients of encrypted channels
and of history recovery.

## 1. The system

| part | state | operations | talks to |
|---|---|---|---|
| MLS delivery service (`server.js` 5500-6194, tables in `db.js`) | per channel: epoch, next sequence, the messages, their events, encrypted attachments, one cursor per device | initialize, submit, fetch, acknowledge, upload | every client, over HTTP; announces new messages over a socket |
| receive coordinator (`mls_receive_coordinator.dart`) | the protected cursor (sequence, epoch, joined) | `synchronize`, `markLocalFounder` | delivery service, native device, event store |
| membership and add coordinators (`mls_membership_coordinator.dart`, `mls_add_coordinator.dart`) | the outbox: one add-member operation and its stage | `reconcile`, `add`, `resume` | delivery service, KeyPackage service, native device |
| send coordinator (`mls_send_coordinator.dart`) | none of its own; the staged message is in the native state | `send`, `resumePending` | delivery service, native device, event store |
| event store (`mls_event_store.dart`, `mls_message_projection.dart`) | the encrypted local history | `apply`, export, merge, projection | receive and send coordinators, history recovery |
| native device (`yappa_mls/src/lib.rs`, `mls_local_state.dart`) | MLS groups, pending commit, receipts of staged and outgoing messages | one mutation at a time, written whole | all coordinators |
| channel runtime (`mls_channel_runtime.dart`) | a lock per server connection | `synchronize` | all of the above |
| KeyPackages (`server.js` 4810-5187, `mls_key_package_service.dart`) | inventory per device, each used once | upload, claim, expiry, directory | membership coordinator |
| history relay (`server.js` 3950-4808, `db.js` 127-184) | a row per transfer, its chunks, the devices' recovery keys | register, create, upload a chunk, finalize, list, read, consume, cancel, expire | two devices of one account; announces a ready transfer over a socket |
| history recovery clients (`history_recovery_*.dart`) | the protected retry (outbox), the receipts in the event store, the controller's fields | `refresh`, `perform`, `cancelPendingUpload` | relay, event store |
| media rooms (`server.js` 1165-1285, 7546-7796, `media_*.dart`) | room membership, key epoch, envelopes, the inbox of every connection | join, leave, rotate, relay | voice transport |
| accounts, devices, sessions, bans (`auth.js`, `server.js` 3390-3950) | users with their YUID, media devices, sessions, challenges, bans, sockets | register, log in, log out, register a device, rebind, revoke, ban | every request |
| plaintext chat and files (`server.js` 6194-7330) | channels, messages, attachments and their files | upload, post, delete | browsers of history; the encrypted attachments |
| client window (`app_state.dart`) | a bounded window per channel, its cursors, a shorter copy on disk | first page, load older and newer, catch up, live events | plaintext chat |
| administration and storage capacity (`server.js`, `storage-capacity.js`) | settings, branding, channel names and order, the reserve of the disk | one handler each | every upload |
| database (`db.js`) | the schema and its version | open, migrate, seed | everything on the server |
| rate limits, presence (`server.js`) | windows per address or user; who is connected and in which deck | one function each | every request; every socket |
| protected files (`mls_outbox.dart`, `mls_event_store.dart`, `history_recovery_outbox.dart`, `mls_local_state.dart`) | a file, a pending and a previous one, a key | open, replace, clear | the coordinators |
| link previews, LAN discovery, scripts, UI, vendored code | | | |

What makes each hard:

* **Delivery service.** better-sqlite3 is synchronous and Node runs one
  handler at a time, so handlers are atomic between awaits; the hazards are in
  their *sequences*: a request repeated after its answer was lost, two commits
  in the same epoch, a late acknowledgement, a page fetched from an old
  position, attachments and events named in any combination, revocations in
  between. Correct means: exactly once, in epoch order, replayed on retry,
  cursors that only go forward.
* **Coordinators.** Every one is a chain of durable writes and requests, and
  the process may stop between any two. Correct means: the MLS tree follows
  the log, a Welcome is not forgotten, the cursor names a point of the log,
  nothing is acknowledged before it is durable, the history is the log's.
* **Concurrency on a device.** The runtime's lock holds one `synchronize` at
  a time; a send takes no part in it, and shares the native state and the
  event store with it.
* **Histories.** Devices join at different points, change the same messages
  before they hear of each other, and pass their histories on. The server and
  the devices each decide which changes are permitted. Correct means: nobody
  shows what its author did not write, nothing is passed over, and what one
  side accepts the other does too.
* **Startup.** Each step needs state another step makes.
* **History recovery.** The relay drops its only copy of a transfer when the
  destination says it has it. The upload of a chunk is authorized before its
  body is read; the clients' refreshes and the user's own actions overlap, and
  both stop at every await. Correct means: nothing is consumed that was not
  merged, nothing stays at the relay for a removed device or a closed
  transfer, a retry is never taken for something else.

* **Accounts.** `POST /api/auth/session` awaits bcrypt, up to three times, with
  rows it read before; bans, revocations, rebindings and other logins come in
  between. Correct means: nobody is online who was banned or whose session
  ended, and no identity belongs to two accounts.
* **KeyPackages.** Several runs of one device replenish the same inventory while
  others claim from it and rows expire. Correct means: a package is handed out
  once, and whoever seals something with it can be answered.
* **Media rooms.** The server announces room states, the leader's envelopes
  follow with awaits in between, and connections are half-open for a while.
  Correct means: the key stays among the members and they agree on it.
* **Chat and files.** Rows and files are not written in one transaction, and the
  process may end between them. Correct means: an answered upload is kept, an
  attachment belongs to a message of its channel and uploader.
* **Client window.** Three cursors, a window that is cut at either edge, pages
  under way while events arrive, and a copy on disk that is shorter.
* **Pure functions** (settings, limits, capacity, presence, migrations, file
  replacement): boundaries, and what the sequence of them leaves.

`PROJECT.json` lists the hazards one by one, each at its line.

## 2. The modules

| module | what it is |
|---|---|
| `CommitLog` | the abstract promise: an append-only log, each operation once, each entry built on exactly the commits before it |
| `MlsDelivery` | the delivery service of one channel; one action per handler |
| `MlsChannel` | the clients of one channel on top of `MlsDelivery` (by INSTANCE: every server step of a client is an action of `MlsDelivery`) |
| `EncryptedHistory` | what the devices of one channel store, recover and show of the log of events |
| `MlsStartup` | `MlsChannelRuntime.synchronize` on a channel that was just created |
| `HistoryRelay` | the relay of encrypted history, for the devices of one account |
| `HistoryRecovery` | those devices' clients on top of `HistoryRelay` (by INSTANCE) |
| `Accounts` | accounts, identities, devices, sessions, bans and sockets; every await of a login |
| `KeyPackages` | the inventory of KeyPackages and the runs of clients that replenish it |
| `MlsDevices` | the constants `MlsDelivery` and `KeyPackages` share |
| `MediaRoom` | the encrypted voice rooms: the server's rooms composed with every client's key coordinator |
| `ChatStore` | channels, messages, attachments and their files, with the end of the process between their steps |
| `ChatWindow` | the pages of a plaintext channel and the window, cursors and cache a client keeps of it |
| `Administration`, `Throttle`, `Presence`, `Database`, `ProtectedFile` | handlers without an await, as functions of the state and the request |
| `*Checks` | what is checked of those functions, over all small arguments |
| `MC*` | constants and symmetry for TLC |
| `*_proofs` | the theorems; those of `KeyPackages` are in `MlsDelivery_proofs`, those of `Administration` in `ChatStore_proofs` |

A handler that runs from its first read to its last write without an await
needs no state machine: `Administration`, `Throttle`, `Presence` and `Database`
say what it leaves, as operators, and `ProtectedFile` gives what is on the disk
after every step of an operation. Their `*Checks` modules compare them, over
all arguments up to a size, with a second definition or with what they have to
keep; every check is an `ASSUME`, which TLC evaluates at the start of the run
whose MC module extends it (`MCAccounts`: `DatabaseChecks`, `MCMediaRoom`:
`PresenceChecks`, `MCKeyPackages`: `ThrottleChecks`, `MCChatStore`:
`AdministrationChecks`, `MCHistoryRecovery`: `ProtectedFileChecks`).

### MlsDelivery

The variables are the tables: `founder`, `epoch`, `nextSequence`
(`mls_channel_state`), `deliveries` (a row and its event), `attachments`,
`cursors`, and, of the rest of the server, `revoked` devices and `banned`
accounts. A request is a record of the fields a retry has to repeat. `Outcome`
is the answer to a submission, in the order of the handler's checks:
recipient, earlier operation, state, epoch, target of the event, permission,
duplicate event, attachments. A request that changes nothing is no action; the
properties read its `Outcome` instead, so "any request, any number of times"
is covered without a network variable.

Left out: the wire bytes (they stand with the other compared fields), page
limits above the ones in the configuration, rate limits, the storage quota, and
the fields a handler rejects before it reads state. Retention is indefinite:
migration 4 clears every `expires_at` and the settings accept only 0, so
attachments never expire and the retention timer is no action.

### MlsChannel

The MLS group is abstracted to the sequence of commits merged into it; its
epoch is their number, its members the founder and the devices they add. That
is what the properties tell apart: two groups are the same iff they merged the
same commits. OpenMLS is modelled by how the bridge uses it: it merges a commit
only onto the tree it was made on, cannot read its own messages, decrypts a
ciphertext once, and drops a pending commit when another one is merged.

Every durable write (native state, cursor, history, outbox) and every request
is a step. `run` is the activity that holds the runtime's lock, `sending` the
one that does not. `Crash` clears both; `AbortRun` and `AbortSend` are an
exception at any await; `Delay` and `Arrive` are a request whose sender gave
up and that reaches the server later; a lost answer is an `Abort` after the
step. `MlsEventStore.apply` is three steps, because it builds the new history,
awaits its write, and only then makes it current.

The initial state is a founded channel whose founder has its group and cursor,
as the coordinators' own tests start; the callers of the coordinators are
arbitrary. The runtime's own way to that state is the subject of `MlsStartup`,
which shows that it does not get there at present (section 4). Revoked devices
never come back; bans are in `MlsDelivery` only, as for the clients a ban is a
revocation that can be lifted.

### EncryptedHistory

`log` is the events the server has accepted, `history` what each device has in
its `MlsEventStore`, in the order of the list, `cursor` how far it has received.
`Send` is a user's action on what is on the `screen` and its acceptance by the
server (`Permitted`: the account of the target's sender, and its kind);
`StoreOwn` is the rest of the send, which may come much later. `Receive` and
`Advance` are the two halves of receiving one event, so that a restart between
them repeats the second one. `Storable` are the checks of `apply`. `Offer` and
`Merge` are a recovery: what the source exports may be old when it is merged.

Sends, the receive run and a recovery write the same file, and nothing keeps
them apart. Each of them makes the next list of what is in memory (`Begin`),
awaits `_persist`, in which the list gets to the file (`Persist`), and only then
assigns it (`Finish`): the last assignment wins, and what an overlapping write
had stored is gone from memory, from the file, or from both. `FailWrite` is a
`_persist` that throws. As all of them write one pending file and rename it, a
write that finds it renamed has deleted the file already, and nothing is left
(`NoFile`; the code gets there only when two writes cross in the last lines of
`_persist`, the model whenever they have overlapped). What two writes of the
pending file at one time leave in it byte by byte is not modelled. `Restart`
reads the file. `Capacity` is the 50000 events, or the 64 MiB if they are fewer,
that fit in a file. The variables `lost` and `overlapped` are for the properties
only: what a device had in memory and dropped, and which devices have had two
writes at one time.

`Projects` says of a history whether the projection gets through it without
throwing, `Shown` and `Texts` what it then shows. `Merged(d)` is the one list of
everything that is stored and offered, in the order of the sequences.

How events get from the log to a device is left to `MlsChannel`: here they come
in order, one by one. Bodies are left out but for the event a text is from, and
so are the accounts of a reaction; the client sends no message that answers
another one, so only changes have a target.

### HistoryRelay

The variables are the tables: `transfers` (a row or `None`), `chunks` (by
transfer, a function from index to body), `keyed`, `revoked`, `banned`. Every
handler begins with `compactExpiredHistoryRecoveryTransfers`; here it works on
`Swept`, the rows after that, and a request that does nothing else is `Sweep`.
Time is `overdue`: `PassDeadline` lets the `expires_at` of a live transfer
pass at any moment, a handler then closes it, and `Finalize` sets it anew.

Handlers are atomic, but for the upload of a chunk: `authRequired` checks the
session, then `express.raw` awaits the body, then the handler runs. `Admit` and
`Store` are its two halves, and between them the device can be revoked, the
account banned, the transfer closed. `Revoke` and `Ban` contain
`cancelActiveHistoryRecoveryTransfers`, which runs in their transaction or
handler.

Left out: digests and signatures, which are compared with what was declared;
other accounts, whose requests every handler refuses and which can only
`Sweep`; the page of 20 transfers in the list, which `OneInProgress` keeps at
one per channel.

### HistoryRecovery

A device has the durable `outbox` and `store` (the event store: which transfers
are merged, and the receipts) and the controller's volatile fields `view`
(`_keys`, `_pendingTransfer`, `_retryDestinationId`, `_retryReceive`, the
phase). It has two activities: what the user started, and the refresh started
by a synchronization or a socket event. Nothing in the code serializes them, so
their steps interleave; each is one request or one durable write (a read of the
outbox belongs to the request before it). `Lose` is a
request that fails or whose answer is lost (the step itself may have
happened before), `Delay` and `Arrive` one that its sender gave up and that
reaches the relay later, `ArriveChunk` the same for a chunk, `Crash` a restart.

`MlsEventStore.apply`, which the rest of the channel calls on the same store,
is `BeginApply` and `EndApply`, as in `MlsChannel`, and `mergeRecoveryRecords` is
`BeginMerge` and `EndMerge`: each makes the next history of the one in memory,
awaits the write of it, and then takes it for the history, whatever the other has
written meanwhile. Any device stores messages at any time, one at a time here (two
at once are in `EncryptedHistory`). The history variable `overlapped` has the
transfers whose merge ended while a message was being stored.
Events themselves are not counted: what is shared stands for the history of the
source at that time, and `Keepers` are the devices that have one. Keys never
change (the first registration stays), so the comparisons of keys hold and
only the presence of a device in the directory is modelled.

### Accounts

The variables are the tables `users`, `devices` (`media_devices`), `sessions`
and `bans`, and what the process keeps in memory: `challenges`, `logins` (the
handlers of `POST /api/auth/session` that are awaiting bcrypt, each with the
row it read) and `sockets`. `BeginRegister`, `BeginCompare` and `LoginOfBanned`
run up to the first await, `FinishRegister`, `FinishCompare` and `FinishRehash`
from one await to the next; `Restart` is the end of the process, also by the
unhandled rejection that an exception after an await is. A session the server
looks up and finds expired or of a banned account is deleted without its
sockets (`Expire`, `RefuseBanned`): `lapsed` are these. Users are never deleted
and a username stands for its account. `Legacy` is an account of a database
older than YUIDs.

### KeyPackages

`rows` is `mls_key_packages`, `credentials` the credentials of the directory.
`Compacted` is what every handler does first. A run of `replenish` is
`ReadInventory`, `Generate` (which saves the private parts before anything is
uploaded) and one `Register` per package; `Abandon` is an exception or the end
of the application at any of them, `After` what a run does after an answer,
lost ones included. `Reset` is a device that lost its local state and makes new
keys, `Tick` the time in which packages expire. `handed` records to whom a
package was handed, and exists for the properties only.

### MediaRoom

`presence` and `rooms` are `socketPresence` and `mediaRoomStates`; `inbox` is
what the server emitted to a connection, in order, and the client behind it has
not handled; a client is the fields of `MediaE2eeCoordinator`. `Drop` is what a
disconnection, a ban, a revocation and the deletion of a channel have in
common: membership ends and the rooms that had it are announced again. The
leader's delivery of a key is one `Send` per member (`todo` are those still to
serve), other events come between, and it may fail at any of them. A connection
that is lost stays in `presence` until the server notices (`Lose`,
`Disconnect`), and its device may connect again before. A client that joins
another room has taken what had arrived before, and what is still on its way
belongs to the earlier room, which the client ignores, unless it is of an earlier
stay in the same room (`OfEarlierStay`): then the client takes it for the new
one. Two variables are for the properties only: `known` are the devices a key was
handed to, `confused` the rooms that somebody joined with events of an earlier
stay there on their way; a room that everybody has left begins anew.

### ChatStore and ChatWindow

`ChatStore` has the rows (`channels`, `messages`, `rows` of attachments,
`encrypted` ones, `logged` for channels with MLS rows), the `files` on disk, and
`uploads`, how far each upload request is: an upload stores its file first and
inserts its row after an await, an encrypted one also hashes the file in
between. `busy` is a handler between two statements that share no transaction
(the message and its links, the rows of a deleted channel and their files):
nothing else runs, but the process may end (`Restart`).

`ChatWindow` has the channel (`next`, `deleted`) and, of one client, the
window, its three cursors and what is stored of them. A page and the request
for it are two steps (`refresh`, `loadOlder`, `loadNewer`), events of the socket
arrive in between or are lost. `stored` is what a restart finds.

### The functions

`Administration` has the PATCH of the settings, the reserve of the disk, the
branding of the server, profiles, and the names and places of channels;
`Throttle` the limiters of routes and sockets with the removal of expired
entries and the waiting time after wrong passwords; `Presence` the handlers that
keep `socketPresence`, and the member list and deck activity made from it;
`Database` the transaction of `createDb` with every migration, the seeds, the
choice of the owner, and `migrateStoredYuids`; `ProtectedFile` the disk after
every step of replacing, clearing and reopening a file, in both protocols. The
other modules take the writing of a protected file as one step, and
`StoresAreAtomic` and `StateIsAtomic` say how far that is right: whatever step
the client ends after, reopening yields the old value, the new one or, in the
cases of `OnlyTheseAreLost`, an error.

## 3. What the runs check

| run | bounds | properties |
|---|---|---|
| `delivery_events` | 2 devices of 2 accounts, 2 operation ids, 3 event ids, all 5 kinds, 2 attachments, 3 messages, epochs to 2 | `ExactlyOnce`, `EpochsFollowCommits`, `RetriesReplay`, `MutationsHaveRoots`, `AttachmentsBoundWhole` |
| `delivery_cursors` | 2 devices, one of which reads with pages of 1 or 2, 3 messages | `CursorsWithinDelivery`, `CursorsMonotone`, `RefusalsAreFinal`, `ImplementsCommitLog` |
| `channel` | the owner's two devices and one to add, all but the second may be revoked, 6 messages, 2 delayed requests, device 1 writes and may crash | `TypeOK`, `TreesFollowLog`, `WelcomesNotLost`, `CursorOnLog`, `AckedIsDurable`, `StoredAsDelivered` |
| `encrypted_history` | the owner's device, which founded the channel, and two of a member, one of which recovers, sends messages, edits and deletions; 3 events, 1 recovery, 1 device that writes at a time, 1 failed write or restart, 2 or 3 events to a file | `Reopens`, `OnlyAuthorsChange`, `ReceivedInFull`, `StopsOnlyWhere`, `DeletedStaysDeleted` |
| `history_relay` | 3 devices, any of them source or destination, 2 transfers of 2 chunks in 1 channel, bodies of 2 sizes, chunk indices one past the end, 1 upload in flight | `NothingLeftBehind`, `ReadyIsWhole`, `OneInProgress`, `NothingForTheRemoved`, `ClosedStaysClosed` |
| `history_recovery` | a device with history and one without, 2 transfers of 1 chunk, 1 delayed request, 1 trouble (a lost or late request, a crash, a deadline, a revocation, a ban, a message being stored) | `TypeOK`, `ConsumedIsMerged`, `RecoveredIsMerged`, `RetryIsExact` |
| `accounts` | 2 usernames (one may be the legacy account), 2 YUIDs, 2 devices, 2 sessions ever, 2 challenges, so 2 logins at a time | `SocketsHaveSessions`, `BannedAreOffline`, `SessionsOnLiveDevices`, `OneAccountPerIdentity` |
| `key_packages` | 2 devices, 2 runs at a time, 4 packages, every limit of the server at 1 to 4, 1 loss of a device's keys, time to 2 | `HandedCanBeOpened`, `HandedOnce` |
| `media_rooms` | 2 devices of 2 accounts, 3 connections, 1 room, 3 keys, room epochs to 2, 1 envelope number, 2 events per inbox | `TypeOK`, `KeysStayInRoom`, `HoldersAgree` |
| `chat_store` | 2 channels, 2 users, 2 uploads, 1 encrypted id, 2 contents, 2 messages, a quota of 2 files | `KeptIsServed`, `AttachmentsFollowMessages` |

Three messages with three event ids are a root, a mutation and a mutation of
that mutation, or events that compete for an id or an attachment, or two
commits and what was built in either epoch; with one more message no new pair of interfering requests appears. Two
operation ids per device are enough for a retry and a different operation
under the same id. In `channel` six messages hold three complete adds, or adds
and what the added device writes: a second leader joins while the first one
still adds, both commit in the same epoch, and the epoch moves on before a
Welcome is submitted; two delayed requests are a commit and its Welcome, or a
commit and a message, each of which may overtake its retry. The founder has no
failures, as those of one device at a time are enough to tear every step apart,
and as the properties of this run are proved without bounds, the run is there
to keep the proofs company, not to carry the weight.

In `encrypted_history` three events are a message and two changes that cross, or
two messages and a change of either; the first device of the member sends
messages, its other device edits, the owner's device deletes, before and after
either of the first two joined, and the recovered history may be older or newer
than what the device has. All three writes of a device overlap in every order,
one of them may fail or be cut off; two devices that write at the same time
would only add orders of steps that do not touch each other. The owner's file
holds two events, so that it is full at the third. A reaction is an event like an edit, but for what it leaves, and an
attachment one like a message that cannot be edited; the run leaves both out.

In `history_relay` two chunks are the least for which an upload can be half
done, and two sizes the least for which the count and the bytes can disagree;
two transfers compete for a destination, and a third device is the one that is
neither source nor destination of one of them. In `history_recovery` two
transfers are a first attempt and its replacement or a second share; the two
activities of both devices interleave freely, and the one trouble may strike at
any step, so every pair of a failure and a retry occurs (that requests of a
revoked or banned device are refused counts as part of the trouble). A second
trouble would only add failures of the retry of a retry, which starts from the
states the first one leaves; a message stored during a merge and a crash after it are
two troubles, which only the proofs cover. One chunk leaves a half done upload (created, or
stored and not finalized); more chunks repeat its steps.

In `accounts` two logins are the least that overlap; with two usernames, two
YUIDs and the legacy account they register the same name, bind the same YUID,
or exchange theirs, while the third party, the owner's ban or revocation, needs
no login of its own. In `key_packages` both runs may be of one device, and the
limits are so small that a run meets each of them with packages of the other
run in between. In `media_rooms` the third connection is a device that
reconnects while its old connection is half-open; the history variable `known`
is cut to the keys that somebody carries (`View`), since nothing reads the
others. The two properties except the rooms in `confused`. Within these bounds
they hold there too: the violation that makes the exception necessary (section 4)
takes three devices and three events in an inbox, more than can be explored
whole. In `chat_store` two uploads compete for an id, a message or the quota,
and one of them may be encrypted and one not.

A run lists `TypeOK` where it says most, in `channel`, `history_recovery` and
`media_rooms`; every type invariant is a theorem (section 5).

`MaxTries` bounds the operations a device starts, `MaxSequence` the log,
`MaxLate` the delayed requests, `Faulty` the devices whose failures are
explored, `Removable` those that may be revoked, `Online` those that run the
client. Deadlock is not checked where these bounds stop the system.

Each property of these runs has a mutant of the code (defined next to the
definition it changes, marked `Mutant`) under which TLC finds it violated.

**Fairness** is assumed in `MlsStartup` only: each device takes its enabled
steps, no request fails and the user opens the channel again and again. This
is more than the code promises, and it is used only to say that something does
not happen even so. No liveness is claimed of the channel: what starts a
synchronization is a user's selection of a channel or a socket event, and
neither is guaranteed to recur.

## 4. Where the code and its documents disagree

Two runs must be found violated by TLC:

* `startup` (`StartupReconciles`, `docs/security/MESSAGING_E2EE.md`): on a new
  channel `synchronize` fetches before it initializes; the server answers 409
  and the call ends. A founder that got further would be refused (409) the
  acknowledgement of a cursor row that only a batch that is not empty makes.
* `chat_window` (`EvictedAreRecoverable`,
  `docs/architecture/PERSISTENT_CHAT.md`): the stored copy has the newest
  messages of the window but the older cursor of the whole window; after a
  restart the messages between are in no page the client asks for.

Observed while modelling, without a run of their own. Encrypted channels and
history recovery:

* The author and the owner delete the same message before they hear of each
  other. Neither the server (`server.js` 5817) nor the event store
  (`mls_event_store.dart` 843) looks whether a target is deleted, the projection
  throws at the second deletion (`mls_message_projection.dart` 63), and as it
  always starts from the first event it throws on every device from then on. An
  edit or a reaction that crosses a deletion does the same, though
  `SECURITY_PLAN.md` 749-755 says that the checks of mutation targets prevent
  "an accepted but unprojectable nested mutation that would fail-close history
  for every client".
* For the server (`server.js` 5840) and the message menu (`message_list.dart`
  217) the author is an account, for the event store (`mls_event_store.dart`
  867) a credential, which names a device (`mls_local_state.dart` 311). An edit
  (or deletion, unless the owner's) from the author's other device is accepted
  by the server and refused by every device, which can then receive nothing
  more (`SECURITY_PLAN.md` 742-744, `ENCRYPTED_HISTORY_RECOVERY.md` 237). It is
  a case of `StopsOnlyWhere`.
* A leader that merges the commits of two adds before it receives the first
  cannot replay them: its replay accepts being one epoch ahead of the cursor,
  not two (`mls_receive_coordinator.dart` 182; `MESSAGING_E2EE.md` 138).
* A send stores the own message at its sequence before earlier messages of
  others were received; `apply` then refuses those as out of order
  (`mls_event_store.dart` 590; `MESSAGING_E2EE.md` 381).
* A send, a receive and a recovery extend the same history and await its write;
  the later assignment drops the other's event, and the cursor passes it
  (`mls_event_store.dart` 605, 566; `MESSAGING_E2EE.md` 148). The message is in
  no list any more, a later change of it stops the device, and if it was a
  deletion, the deleted message is back. `ReceivedInFull`, `StopsOnlyWhere` and
  `DeletedStaysDeleted` hold with this as the exception (`lost`), and say that
  there is no other. Two writes that cross in the last lines of `_persist` can
  also leave no file at all.
* A change of a message that was sent before a device joined stops that device
  (`mls_event_store.dart` 853), unless a recovery brought it that message
  before; the changes between the end of a recovered history and the device's
  own Welcome are in neither, unless a later recovery brings them, and what
  they changed shows as it was before.
  `StopsOnlyWhere` lists all cases in which a device stops, these, the ones
  above, and a file that is full (`mls_event_store.dart` 588, 642).
* A device that recovers from one that joined later, while it is behind itself,
  has events ahead of its cursor, and the ones between are then refused as out
  of order (`mls_event_store.dart` 590).
* When a share fails half way, "Try again" makes a transfer with a new id whose
  outbox entry replaces that of the first one, which is still uploading at the
  relay and blocks the destination until it expires
  (`history_recovery_channel_controller.dart` 204;
  `ENCRYPTED_HISTORY_RECOVERY.md` 41).
* What a destination merged may be taken out again (`ENCRYPTED_HISTORY_RECOVERY.md`
  219: consumption "only after the destination has [...] durably stored the complete
  range"): `apply` holds a history from before the merge, and its write, when it ends
  last, is without the recovered range, while the transfer is consumed. The receipt
  stays in memory, the next message writes it to disk, and the device shows that it
  recovered. `ConsumedIsMerged` and `RecoveredIsMerged` except the transfers whose
  merge a message overlapped in this way (`overlapped`), and nothing else.
* An exact retry of a Welcome whose recipient was revoked or banned since is
  refused (`server.js` 5675 comes before 5742), although "an exact retry
  returns the original accepted row"; `RetriesReplay` holds with this exception.
* When the answer to `finalize` is lost and the destination consumes the
  transfer (or it expires) before the source retries, the entry in the outbox
  can be neither resumed nor canceled (409), and every later refresh fails on
  it. A cancellation that overtakes the create request of the same transfer is
  answered 404, which `cancelPendingUpload` takes as proof that the transfer
  never reached the relay.
* `_synchronizeEncryptedChannel` (`app_state.dart` 2992-3021) awaits
  `HistoryRecoveryOutbox.open` between looking for a controller and storing the
  new one, so two of them for one channel may make two controllers.
* A torn pending file makes `open` fail though the old file beside it is whole;
  a crash between the first pending file of the native state and its key makes
  the state unopenable; a failed rename leaves on disk the state of a mutation
  that was reported as failed (`ProtectedFile`).

Accounts:

* A session that registers another media device keeps its sockets as the old
  device (`server.js` 3801, 3877; `SECURITY_PLAN.md` 406-407).
* Two first registrations that overlap both become owners; a registration
  that loses the race for its name after the await throws, and the unhandled
  rejection ends the process.
* Rebinding a YUID leaves the other devices of the account with authorisations
  that the key in the directory does not verify. With three YUIDs, overlapping
  logins can leave an account with a banned YUID (its next request is refused).
* A session that expired or whose account is banned is deleted at its next
  request, but its sockets stay connected.

Voice rooms and presence:

* A leader that joins the same room again within an epoch counts its envelopes
  from the start (`media_e2ee_coordinator.dart` 364-382) and the server refuses
  them as replayed (`server.js` 7770; `MEDIA_E2EE.md` 155).
* The epoch starts at 1 again when a room was empty or the server restarted,
  although `MEDIA_E2EE.md` 143 has it increase monotonically. A deleted channel
  keeps its entry in `mediaRoomStates`.
* A client that leaves a room and joins it again does not tell the events of its
  earlier stay from those of the new one: `_queueEvent` gives an event the
  generation in which it arrives, and the event names the room only. It happens
  after a double tap on a deck (`shell_screen.dart` 343), or when the answer to
  the leave timed out and the client joins again. With the epoch that starts again at 1, the state of
  its earlier stay and the new one can have the same epoch, and it goes on with
  a key of devices that have left. This is what `confused` excepts; without the
  exception TLC finds `KeysStayInRoom` violated in 16 steps with 3 devices and
  `MaxInbox` 3.
* A session moved to another device stays in its room as the old, revoked device
  until the next announcement. While an older connection of a device is
  half-open, it gets the states meant for the newer one. A leader whose
  delivery failed has no key until the next state.
* A user with two connections in voice counts twice in the occupancy of decks,
  and may be shown in one with the flags of the other.

Plaintext chat:

* A message with attachments can never be deleted, nor an encrypted channel
  with MLS rows or attachments: the foreign keys have no action and the delete
  answers 500 (`server.js` 6935, 7315-7318; `PERSISTENT_CHAT.md` 25-26).
* The end of the process, or a full disk, between the two statements of a post
  leaves a message without its attachments; repeating it makes a second one.
* The quota of plaintext uploads ignores encrypted bytes. The retention sweep
  finds no row with an `expires_at`, and files without rows are never removed.
* In the client, a catch-up that fails after its first page has already moved
  its cursor (`app_state.dart` 2697), and the page is lost; a delete that
  arrives while a page is under way reappears with the page; a reconnection
  does not refresh the history (3196).

Administration and database:

* The settings of allowed types, largest file and whether storage is on are
  stored, and no upload handler reads them.
* `PATCH /api/admin/server` stores whatever it is sent as branding (`server.js`
  6993-6999), so two slots may name one file; the upload of a new image for one
  of them removes it (2286) though the other one still names it.
* Two old accounts that differ only in case make every start fail, as
  `test/messaging_e2ee_schema_integration.js` 470-500 expects. Expiries that
  the migration writes with `datetime()` have no zone, and `Date.parse` reads
  them as local time. `migrateStoredYuids` leaves the YUID of bans as it was
  (a ban still matches by user).

## 5. What is proved

### The delivery service

`MlsDelivery_proofs` proves for every value of the constants, including
unbounded `MaxEpoch` and `MaxSequence`, all of the properties of `MlsDelivery`
that the passing runs check, and that it implements `CommitLog`. The assumptions are `DeliveryAssumption` (the constants have their
types, NULL is no device, event id or number) and `NullAssumption` (NULL is no
event and no cursor row).

* `LogInv` = `TypeOK`, the log is empty before initialization, `ExactlyOnce`.
  `ExactlyOnce` alone is not inductive: `Initialize` resets `nextSequence`, and
  only an empty log keeps it right. `Submit` keeps it since an accepted
  operation has no earlier row and takes the next sequence.
* `EpochInv` = `LogInv` and `EpochsFollowCommits`. The step of `Submit` counts
  the commits before the new row, which needs that sequences are those issued.
* `CursorInv` = `LogInv` and `CursorsWithinDelivery`; fetches take the greatest
  sequence of a page of visible rows, acknowledgements stay within it.
* `MutationsHaveRoots` is inductive with `LogInv`: rows are only added, and an
  accepted event id is fresh, so a root stays unique.
* `BindingInv` = `LogInv`, `AttachmentsBoundWhole`, and that an id not yet
  uploaded is bound to nothing; without it an upload could complete the
  attachments of an event after the fact.
* `RetriesReplay` follows from `BindingInv`: the only row with an operation's
  id is its own, and its event is bound to the attachments it named.
* The refinement maps message *i* of the server to entry *i* of `CommitLog`:
  `Submit` is an `Accept`, every other action stutters. It needs `EpochInv` for
  the number of commits an entry was built on.

### The clients of a channel

`MlsChannel_proofs` proves every property of the `channel` run, for any number
of devices, messages, failures and late requests. Assumed are
`ChannelAssumption` (the types of the constants) and `NoneAssumption` (null is
no entry of an outbox). The inductive invariant `Inv` (TLC has checked it, too,
on the instance of the run) has five parts:

* `LogInv`: every row was made by a client as the code makes them (`Sound`): on
  a tree whose commits are those of the log (`OnLog`), and if it is a Welcome,
  after its commit. Commits of the log have distinct epochs, at most the
  current one, and operation numbers their author has used.
* `Shapes`: the types of the clients' state, of what an activity carries from
  step to step included.
* `DeviceInv(d)`: the group, cursor, outbox and activities of one device agree
  with the log. Two trees on the log with as many commits are equal, so
  `MergePending` may compare lengths, as the code compares epochs; an outbox
  past `commitPending` names a commit of the log; a refused commit is in no
  row and its epoch has passed, which is why `Discard` loses nothing; a fresh
  commit bears a number no row has.
* `LateInv`: a commit still on its way is the one in its author's outbox, or
  its epoch has passed, so that `Arrive` can only append what its author can
  still complete.
* `WelcomesNotLost` itself.

What a step does to its own device is proved action by action; for all others
one lemma (`UntouchedKeeps`) is enough: the log has grown, and a new commit
is not theirs.

`CursorOnLog` needs two invariants more, on top of `Inv`. `CountInv`: the epoch
of the server is the number of commits in the log, and every row was accepted in
the epoch that the rows before it count up to. `PlaceInv(d)`: what a device has
written as its cursor, and what its run of `synchronize` carries on to write
next, is a sequence of the log with the number of commits up to it, and its
group has merged at least as many. Every row that a device goes past names the
epoch it was accepted in; the coordinator takes that epoch from a Welcome or a
commit and compares it with the one it has reached for a message, and by
`CountInv` it is the number of commits up to that row, also when the page leaves
out rows the device may not see.

### The histories of a channel

`EncryptedHistory_proofs` proves every property of `encrypted_history`, the
action property `DeletedStaysDeleted` included, for any number of devices,
accounts, events of all five kinds, overlapping writes, failures and restarts.
Assumed is `HistoryAssumption`: the founder's device is the owner's, and null is
neither a number nor a list. The inductive invariant is `TypeOK` with

* `LogInv`: a change in the log names an earlier event that its sender's account
  may change, which is what the server has checked;
* `AllSound`: every list in memory, in the file and in a write under way is
  `Closed`, that is in the order of the sequences with every target before its
  changes, and what is in it was authorized by a device, this one or the one it
  was recovered from. A write that comes last thus replaces a good list by a
  good one, and `Reopens` and `OnlyAuthorsChange` need no exception;
* `ReceivedUpTo`, the first part of `ReceivedInFull`: between joining and the
  cursor nothing is missing but what is in `lost`;
* `Steady`, which gives the second part: where no two writes have overlapped,
  the file and the write under way have all that is in memory;
* `OwnKept` and `SendHeld`: an own event is stored, lost, or still outgoing, and
  a send that writes writes it;
* `ScreenCurrent`: the screen is the projection of the stored history, if there
  is one, so that a user's action, which the screen offers, has its target in
  the history.

`StopsOnlyWhere` follows from the conjunction without being part of it.
`DeletedStaysDeleted` needs that a history that can be projected could be
projected with fewer events in it (`ProjectsShorter`): a projection that throws
goes on throwing as long as no change is dropped. Two lemmas about lists in the
order of the sequences carry all of it: what stands before an event is what is
less (`EarlierIsLess`), and an event appended behind all others after its
target keeps a list closed (`ClosedAppend`).

### The relay

`HistoryRelay_proofs` proves, for any number of devices, channels, transfers
and chunks and any sizes, every property of `history_relay`.
The assumptions are `RelayAssumption` (the constants have their types, and a
declaration has at least one chunk and one byte) and `NoRowAssumption` (NULL is
no row).

* Every handler does one of five things to a transfer: it stays, closes (a
  final state, no chunks), grows (a chunk more), becomes ready, or appears.
  A lemma per action says which, for which transfers; the rest of the proof
  speaks of the five ways only.
* `RelayInv` is the conjunction of `TypeOK`, `NothingLeftBehind`,
  `ReadyIsWhole`, `OneInProgress` and `NothingForTheRemoved`. Each part is
  inductive together with `TypeOK`, which is where the work is: that a late
  chunk never lands on a closed transfer, and that every index is below the
  declared count, so that as many chunks as declared are all of them. For
  `NothingForTheRemoved` no case of `Store` has to look at the session: what a
  removed device was sending is closed, and a closed transfer does not grow.
* `ClosedStaysClosed` is an action property proved from `TypeOK`: a closed
  transfer has no way but to stay.

### The clients of history recovery

`HistoryRecovery_proofs` proves every property of `history_recovery`, for any
number of devices, transfers, chunks, late requests, crashes and messages stored
meanwhile, from the assumptions on the constants alone (`RecoveryAssumption`;
`NoneAssumption`: null is no device, transfer, row, entry or history).

The inductive invariant is `\E dest : Inv(dest)`, where `dest` says for whom every
transfer was sealed. It is bound by a quantifier as no variable remembers it: an
id that was given up may be in the outbox no longer, and still be in a request
on its way. Only `WriteOutbox` extends it, at an id that is new since ids count
the transfers a device has sealed. The parts:

* `Made`: an entry, wherever it is (outbox, an activity, a late request), is of
  its device, has an id the device has used, and names the destination and the
  manifest that were sealed with it;
* `RowsOK`: the same of every row of the relay. `RetryIsExact` is these two;
* `Offered`: what a device has found, downloads, merges or consumes is a
  transfer to it;
* `Merged`: what a device asks the relay to consume, now or in a request that is
  late, is in `Has`: its history on disk, or `overlapped`. So is what a row says was
  consumed;
* `StoresOK`: disk and memory have the same records, a receipt on disk is in memory,
  and what has a receipt is in `Has`. What a message is being stored with lacks no
  record of the memory but one in `overlapped`, so its end takes nothing else out;
* `SaveOK`: a merge that is being written has all the memory has, its transfer, and
  beyond these only what is in `overlapped`. So its end takes nothing out, and a
  message that is being stored at that time lacks only its transfer and what is in
  `overlapped`. A merge is always the user's activity, so there is one at a time;
* the types of the controllers' fields and of their activities, where an
  activity at `write` is the user's, so that no other one takes its id.

The relay enters by one lemma per handler, which say only this: rows persist
with their source, destination and manifest, a row is made by `create`, and a
row becomes consumed by `consume` alone. One lemma (`ControllerStep`) is then
enough for all steps that are a request and what the controller makes of the
answer.

### Accounts

`Accounts_proofs` proves every property of the `accounts` run, for any number
of names, YUIDs, devices, sessions and overlapping logins. Assumed are the types
of the constants (`LegacyAssumption`, `NoneAssumption`). `IInv` adds to them
that sessions and logins belong to accounts that exist and that a session
found lapsed has no row any more. The work is in the steps after an await:
`Registrable`, `Bindable` and the ban are looked at again there, and it is these
second looks that the proofs of `SessionsOnLiveDevices`,
`OneAccountPerIdentity` and `BannedAreOffline` use.

### KeyPackages

The end of `MlsDelivery_proofs`, which extends `KeyPackages` too, proves
`InventoryTypeOK`, `HandedCanBeOpened` and `HandedOnce` for any limits and any
number of devices, packages and runs. Assumed are that the limits are numbers,
that there are finitely many packages (`LimitsAssumption`), and that NULL is no
row and no run (`NoneAssumption`). The invariant says three
things more: what a run is about to upload is saved, has no row and is of
no other run (`BatchesSaved`); a row of the current key of its device is of a
saved package and a listed credential (`RowsOpenable`); what was handed out is
marked (`HandedMarked`).

### Voice rooms

`MediaRoom_proofs` proves the three properties of `media_rooms` for any number of
devices, accounts, connections, rooms, keys and events on their way. The
assumptions on the constants are those of the module; that devices and
connections are numbers gives every room a least device, its leader.
Nothing is assumed of the order in which a client leaves and joins: what the code
gets wrong there is the exception the properties themselves state (`confused`).

The difficulty is that a client's key, its view of the room and its inbox lag
behind the room by any number of events, and that a key known to a device that
left must have fallen out of use everywhere at once. The invariant `Inv` says of
every event on its way and every client what it will be worth when it is
handled, relative to the room as it is now:

* `SocketsInv`: who is connected is authorised, a device has one client, and
  the server has a client's connection in the room the client asked for or in
  none;
* `RoomsInv`: a room's state names the devices that are in it;
* `ClientsInv`: a client works with the room it asked for, and its key and the
  delivery in progress are of its view;
* `Members`: where the room is not confused, a state that a member has, or that
  is on its way to one, is of an earlier epoch or of this one with fewer devices and the same leader (`Fits`);
  a key of the room's epoch, held or on its way, is known to members only
  (`Confined`); and the server writes to the connection of a device it has told
  something (`ToldInv`), which is why no half-open one is in the way;
* `OneRoom`: nobody holds a key of one room while it is held or on its way in
  another, confused or not, so what is sent in a confused room concerns no other;
* `HeldInv`: where the room is not confused, whoever the leader has served has no other key of this epoch, or
  the leader's comes in its inbox after every other.

`KeysStayInRoom` is `Members` where the epochs agree, and `HoldersAgree` is
`HeldInv` where the inbox is empty. What the server's handlers do to rooms is
said once (`RoomStep`): an epoch goes on with more devices and the same leader,
or a new one begins, and every member is told; and a room stays confused as long
as there is somebody in it, so whoever is in a room that is not confused now was
not in a confused one before. So joining, leaving,
disconnecting, revoking, banning and deleting need one proof, and so do the ways
in which a client handles an event (`Takes`). Sending splits in the answer that
was lost, the envelope the server refused, and the one it relayed.

### Chat rows and files

`ChatStore_proofs` proves `TypeOK`, `KeptIsServed` and
`AttachmentsFollowMessages` for any number of channels, messages and uploads.
The invariant says how far every request is and what there is of it, and what a
handler that is not through has still to do: the rows it will link or the
files it will remove are of a request that is done, so neither `Restart` nor a
deletion in between takes something away that another request was promised.

### Administration

The end of `ChatStore_proofs` (with `Admin == INSTANCE Administration`) proves of
the handlers, for all limits and requests, that accepted settings are in their
ranges, that a write is accepted exactly if it leaves the reserve, that replacing an image removes no file in use, and that
channel names and places stay distinct.

### Model-checked only

Every property of the passing runs has a theorem. The functions of `Throttle`,
`Presence`, `Database` and `ProtectedFile` are only checked by TLC: their checks
are over all small arguments, and several compare folds, which is induction over
data. Liveness under fairness (`MlsStartup`) is out of the
prover's reach, as is what a fold computes: the totals of the relay's chunks.
`ChatWindow` and `MlsStartup` have no theorem, as TLC finds their property
violated.

## 6. Not modelled

* **Cryptography and encodings.** OpenMLS, HPKE, the attachment cipher, frame
  encryption and signatures are taken at their interface; the vendored
  libraries are other projects' code.
* **Two sends at once** on one device, and a runtime closed during a
  synchronization, are left out of `MlsChannel`. No caller removes a device from
  an MLS group, so after a revocation every check of the group against the
  directory fails, and the safety properties hold because nothing moves.
* **Search and the bodies of events** (reactions' accounts, attachments'
  metadata): reads of one device's own list.
* **WebRTC signals and voice tokens**: the server forwards or signs them without
  keeping state.
* **The client's identity files and password rules**, link previews, LAN
  discovery, deployment scripts, the UI: I/O, forms and layout without a
  state of their own that a property could be about. The limits on their
  requests are in `Throttle`.
* **Liveness** of the channel: what starts a synchronization is a user's
  selection of a channel or a socket event, and neither is guaranteed to recur,
  so no fairness is justified beyond `MlsStartup`, which assumes it only to say
  that something does not happen even so.

# A verification development for radix-relay

radix-relay is a messenger: Signal Protocol sessions carried over Nostr relays. A C++
program (Boost.Asio, one `io_context` thread plus the thread of the user interface)
drives a Rust bridge to libsignal that keeps its state in SQLite. This directory holds
TLA+ models of its stateful parts, the configurations with which TLC checks them, and
proofs that TLAPS checks. `PROJECT.json` lists components, runs, the source lines behind
every definition, the hazards of the code and the theorems.

Paths below are relative to the repository root.

## 1. The system

### Scheduling

All processors (event handler, session orchestrator, transport, presentation handler,
display filter, connection monitor) are coroutines spawned on one io thread
(`src/radix_relay.cpp:117-133`). A handler runs without interruption up to its next
`co_await`; handlers of different processors, callbacks of sockets and timers interleave
in any order at those points. Calls of the Rust bridge block. Inside the bridge every SQL
statement is a transaction of its own, so the process may end between any two.
The user-interface thread only pushes commands and pops events.

### Inventory

| part | state | operations | what is hard about it |
|---|---|---|---|
| request tracker (`nostr/request_tracker.hpp`) | `pending_`, timers | track, async_track, resolve, cancel_all_pending, handle_timeout | timer expiry against a late answer, two requests under one id, callbacks that refer to a suspended coroutine |
| keys (`lib.rs`, `key_rotation.rs`, `keys.rs`, `sqlite_storage.rs`) | three pre-key tables, identity, `bundle_metadata` | ensure_keys_exist, perform_key_maintenance, generate bundle, use of a one-time key | crash between statements, reuse of ids, keys that bundles in flight name |
| bundle publication (`session_orchestrator.hpp`) | the coroutine, the relay's copy | publish, unpublish, republication after use or rotation | lost or refused publications, two announcements in one second |
| transport (`nostr/transport.hpp`, `websocket_stream.cpp`) | `connected_`, the stream | connect, send, disconnect, read loop | callbacks in every order, connects that overlap, silent loss |
| connection monitor (`connection_monitor.cpp`) | `states_` | five handlers | a copy of the transport's state that lags behind |
| session orchestrator | discovered bundles, queues | connect, connected, requests, bytes_received, trust, announcements | exceptions that end the processor, answers out of order |
| contacts (`contact_manager.rs`) | contacts table | add from bundle, add from identity key, assign alias, lookup | alias clashes, contacts without a session |
| message history (`message_history.rs`) | conversations, messages | store, list, mark read, delete | counters kept in separate statements |
| chat mode (`command_parser.hpp`, `display_filter.hpp`, user interfaces) | three copies of the active chat | /chat, /leave, filtering | copies updated at different times |
| storage (`storage_trait.rs`, `sqlite_storage.rs`, `memory_storage.rs`) | five stores and the local identity, as tables or as maps | every method of the traits, initialize, close | two implementations of one promise, failing statements, rows written in two statements |
| life of the bridge (`lib.rs`, `db_encryption.rs`, `sqlite_storage.rs`) | key file, encrypted database, schema version, identity, keys, sessions | start, migration, ensure_keys_exist, clear_peer_session, clear_all_sessions, reset_identity | calls of many statements cut short anywhere, read errors taken for absence |
| shutdown (`src/radix_relay.cpp`, `processor_runner.hpp`) | coroutine states, queues | cancel, close, wait, join | a cancellation slot that six processors share |
| async queue (`async_queue.hpp`) | channel, element count | push, pop, try_pop, close | a full channel |
| BLE stream (`ble_stream.cpp`) | buffer, pending handler | connect, read, write, close, notification | notifications on another thread |
| protocol codec, identity derivation, logging, parsing of words | none | conversions | nothing that interleaves |

The hazards, each at its line, are in `PROJECT.json`.

## 2. Plan

Order of work, with the module each step adds:

1. `RequestTracker`, abstract `Requests`, `RequestTrackerProofs` (done).
2. `KeyMaintenance` with publication and peers, `KeyMaintenanceProofs` (done).
3. `RelayLink`: transport, orchestrator requests, monitor, commands; uses `Requests` for
   the tracker; `RelayLinkProofs` (done).
4. `MessageHistory`, proved about in `MessagingProofs` (done).
5. `ContactBook` and `Messaging`: contacts, /trust, receiving and sending, shown to implement
   `MessageHistory`; `MessagingProofs` (done).
6. `ChatMode`: the three copies of the active chat; `ChatModeProofs` (done).
7. `Storage`, the promise of the traits, with `SqliteStorage` and `MemoryStorage` shown to
   implement it; `SqliteStorageProofs`, `MemoryStorageProofs` (done).
8. `SignalBridge`: what the starts, the clears and the reset of the bridge do to the two files;
   `SignalBridgeProofs` (done).

Section 7 says what is left out and why.

Modules that are proved about contain no RECURSIVE operator. Every bound and threshold is a
CONSTANT with a named assumption. Invariants are conjunctions of named parts.

## 3. Modules

### Requests, RequestTracker

`RequestTracker` models `nostr::request_tracker`. One action per handler the io thread
runs: `Track`, `AsyncTrack`, `ResolveMatch`, `ResolveMiss`, `ResolveMismatch`,
`CancelAllPending`, `HandleTimeout`, `Resume`, and `Expire`, which only queues the
completion of a wait. The gap between `Expire` and `Resume` or `HandleTimeout` is where
the races are. Responses are abstracted to accepted, rejected and eose. `IdOf` gives the id
of every request and need not be injective: events signed within one second with equal
content have equal ids.

`Requests` is what a coroutine may rely on: an open request ends once, answered with the
response matched to it, or timed out when none was.

Fairness: the io thread runs every ready handler, and timers expire.

### KeyMaintenance

The keys of a node. `pc` names the statement the process is at; `Crash` is possible between
any two, and a loop over rows may stop after any row (`Prefixes`). Signed and Kyber pre-keys
follow the same code twice and are one function of the kind. Key material is abstracted to
how often a key was generated under an id, which is what tells a message built for an old
key from one built for a new key under the same id. Time is in milliseconds, divided down
to seconds exactly where the code does it. The relay keeps the newest announcement, either
one of two in the same second. Peers take the bundle, send one pre-key message, and the
message may arrive at any later time.

Assumption about libsignal: storing a session and removing its one-time pre-key is one step
(`process_prekey` does both inside one call; a crash inside it is not modelled). The clock
does not go back. `metadata` is written and read by nobody else, and is kept because two
coroutines may record out of order.

### RelayLink

Transport, stream, the connection handlers of the orchestrator, the monitor and the commands
that drive them, joined by three bounded queues. `HandleConnected` starts two or three
requests; each request is a coroutine that sends once and awaits the tracker, represented by
`Requests` (which `RequestTracker` implements). The stream is external: resolving,
connecting, closing and writing end or fail; a new TCP connect closes the previous socket.
`told` is a history variable, the fold of every event the transport emitted.

Fairness: ready handlers run; resolving, connecting, writing and closing end. Nothing is
assumed of the user, the relay, reads or the network.

### Nodes, MessageHistory

`Nodes` declares the peers. `MessageHistory` is `message_history.rs`: `conversations[c]` and
`messages` are the two tables, `call` is what remains of the call under way. A store is
`GetOrCreate`, `InsertMessage`, `UpdateConversation`; a deletion of a conversation is
`DeleteMessages`, `DeleteRow`; the process may end, or a statement may fail, between any two
(`Crash`). `fresh` is a history variable: the incoming messages no mark has covered. `drift`
names the contacts whose counter a crash or a deletion left wrong. The text and the flags of a
message are left out, since no operation decides by them. The clock does not go back.

### ContactBook, Messaging

`ContactBook` is the contacts table, the sessions, the discovered announcements and /trust. A
/trust of a discovered peer is two statements (`TrustDiscovered`, then `Establish` or
`EstablishFails`). An alias that is taken, and a bundle libsignal refuses, are exceptions that
end the run loop of the orchestrator (`orchestrator = "ended"`); a restart is the only way back.

`Messaging` EXTENDS both and adds the handlers that use them. `Subscribe` asks the relay from
`last_message_timestamp` on; `Receive`, `Decrypt`, `StoreIncoming`, `StoreStep`, `Stamp` are the
statements of one incoming message; `Send`, `StoreStep`, `SendStored` of an outgoing one.
`StoreFails` is a failing statement of a store, which the bridge only warns about. `Restart` ends
the process anywhere. The relay (external) keeps every message and serves it on every
subscription that admits it, in any order. libsignal (external) refuses a message whose key was
used. `Cascade` is the effect of the foreign keys when a row of contacts is replaced.
Sends and marks use `MessageHistory`'s own actions, so that `ImplementsHistory` compares the
composition with the component.

### ChatMode

The path of a typed line: `cmdQ`, parser and command handler, `dispQ`, display filter, `uiQ`, user
interface; and of messages, through `presQ`. `parser`, `filter` and `ui` are the three copies of
the active chat. A queue loses what is pushed when it is full, and `overflow` records that this
happened; the properties speak of executions in which it has not. A text line remembers the
prompt it was typed under and whether that prompt had caught up. Feedback of commands and system
messages pass every stage in every state and are left out; `Capacity` is the room they leave.

Fairness: the run loops of the event handler and of the display filter take what waits for them,
and so does the GUI, with its 16 ms timer. The terminal interface waits at most 100 ms after a
line and then blocks for input, so `PromptFollows` is a promise of the GUI; for the terminal it
holds from the next line on. Nothing is assumed of the user, the relay or the orchestrator.

### StorageTypes, Storage, SqliteStorage, MemoryStorage, Storages

`Storage` is what `storage_trait.rs` lets the bridge rely on: five maps, the local identity, and
the answer of every call (`called`, `answer`). It is as wide as its two implementations differ: a
key of the very second asked for may or may not count as older (SQLite compares seconds, the maps
milliseconds), and an identity without a registration id answers 0 or an error.

`SqliteStorage` has the tables as sets of rows and the methods as statements; every one may fail,
and then the counts answer 0 and the maxima None (`unwrap_or(0)`, `ok()`). The local identity is a
row whose two columns are set by two statements that each keep the other column. `New` is a
restart at any point. `MemoryStorage` has maps and two separate options and loses everything in
`New`. Records are opaque but for their time stamp. `Storages` runs the one or the other; its bound
`MaxWrites` is on calls that change something.

### SignalBridge

The key file, the database and the process. `todo` is the sequence of file operations and
statements the call under way has yet to run: a start opens the key file, the schema, the tables,
the migration and the four steps of `ensure_keys_exist`; a reset clears sessions, keys and
identity, and ensures keys again. `Fail` ends the call with an error after any statement and
`End` ends the process. Identities, registration ids and database keys are numbered as they are
drawn; a pre-key or a session is known by the identity that signed or made it, which is what the
properties tell apart (ids and ages are in `KeyMaintenance`).

With `Misreads` a read may fail although what it reads is there: the key file
(`get_or_create_db_key` then makes a new key over it), the identity (`ensure_keys_exist` then makes
a new one) and the counts before a reset (nothing is then cleared). The code does not tell these
from absence. `misread` is a history variable that records it, and the properties that such a
failure defeats are stated for executions without it; `SchemaComplete`, `RegistrationStable` and
the first half of `SessionsUsable` hold with it too.

Fairness: the program is started again when it is down, and a call under way runs its next
statement. `Fail` and `End` may interrupt any start but the last that `MaxStarts` allows, so
`ComesUp` says that no combination of interrupted starts leaves files from which an uninterrupted
start cannot come up.

## 4. Runs

| run | what it shows | bounds |
|---|---|---|
| tracker | async_track implements `Requests` with its fairness and always ends; no callback outlives its coroutine or runs twice; an answer in time reaches a request with its own id | three coroutines and a callback request; two coroutines and the callback share an id |
| keys | ids of signed and Kyber keys are used once, the current key is never deleted, a one-time pre-key opens one session and is kept until used | three key ids, five pre-key ids, two peers, three publications, two starts, time up to eight half-seconds with intervals of one second: two rotations, rounding in both directions |
| keys_grace (violation) | the key a rotation supersedes is deleted by the same call | three key ids, one start |
| keys_relay (violation) | the relay can serve a bundle whose keys are gone, for good | two key ids, two publications, two starts |
| link_requests | requests are sent once, success is reported only for what the relay answered, the monitor is where the transport's events lead, every request ends and the monitor catches up (liveness) | one /connect with good and bad urls, one /disconnect, two requests, answers that accept and refuse, faults and exceptions |
| link_sequential | with commands that wait for each other and no faults, status and link agree when settled, /disconnect is honoured, a command's request is sent once too | two /connect, one /disconnect, one /status, four requests, one of them a command's |
| link_lost (violation) | a lost connection leaves the status Connected | as link_sequential with faults |
| history | the unread counter is the number of unread messages except where a crash or a deletion left it off; listing by time is listing in the order of storing | two contacts, three messages, two conversation rows (so one can be deleted and created again), three clock values, so that messages share a millisecond |
| messaging | messages are stored once, missed only for the two reasons `MissedOnlyBehind` names, aliases name one contact, contacts and sessions go together, every step is a step of `MessageHistory` | two peers, two incoming messages with two sender times, one sent, one alias, three commands, one fault (a restart or a failing statement) |
| chat | the copies of the active chat agree up to the queues, text goes where a settled prompt says, no message of another contact is shown in a chat, what is marked read was shown or older than the limit, the prompt follows (liveness) | two contacts (one with an alias) and an unknown name, three lines, one received message, queues of three, history limit one |
| storages | the tables and the maps both refine `Storage` | two addresses, two ids, two records of different seconds and a time within the second of the later, two key pairs, three writes |
| bridge | announced bundles verify, a reset leaves nothing of the old identity, sessions stay usable, an announced registration id never changes, the key file opens the database, no bridge runs without all tables, and the bridge always comes up again (liveness) | one peer, three starts (one interrupted in the migration or a reset, one in the recovery, one that completes), five random draws (two identities and their registration ids, and one more), failing reads |

Bounds: the behaviours that matter need two of each thing that can collide (two requests
under an id, two rotations so that a superseded key has a successor with a successor, two
starts so that a crash is followed by a recovery, two peers with one bundle). Two runs check a
part of their bounded state space that `InScope` of the MC module states: `keys` lets peers and
more than one publication act only in behaviours whose clock has not moved (one-time keys have no
age, and rotation needs no peer), `link_sequential` lets the second /connect
and /status be asked only when no request was issued by a command. `storages` uses a VIEW
without the last call and its answer, which no step reads. The runs with
`CHECK_DEADLOCK FALSE` stop when the bounded user has no command left.

## 5. Proofs

`RequestTrackerProofs`, for every set of requests and every assignment of ids:

* `CallbacksLive`, `CallbacksOnce` and `ReturnsWithResponse`: `LiveCallback`, `InvokedOnce` and
  `ReturnsResponse`, from the lemma `Inductive`. The invariants are not inductive by themselves; `IInv` adds how status, timer and callback
  of one request go together (`AwaitStates`, `CallStates`) and that a stored callback has
  not run (`PendingNotInvoked`).
* `AnswersReported`: from `IInv` and `HeardStates`, which says that a request with its own id
  keeps its entry while its timer runs and that hearing a response aborts the wait.
* `RefinesRequests`: the initial states map to initial states and every step to a step or a
  stutter of `Requests` under the mapping of `RequestTracker`.

`KeyMaintenanceProofs`, for every interval, threshold and bound (assumption `KeysAssumption`):

* `UsedOnce` and `KeepsCurrent`: `KeyInv` says that an id above every stored id was never
  used and that creation times increase with ids. Cleanup spares the current key because it
  is the youngest, or the last one left. `MaxIdFact` gives the maximum of a bounded set by
  well-foundedness.
* `OneSession`: `PreInv` says bundles in flight are no newer than the store and a used key is
  not stored in the generation in which it was used.
* `KeepsUnused`: an action property, from the type invariant.

`RelayLinkProofs`, for every number of requests, commands and queue places, with overlapping
connections, faults and exceptions unless said otherwise (`LinkAssumption`):

* `RequestsSentOnce`: `SendOf(r)` says that the send of a request is in one place at a time, queued
  for the transport, being written, or reported to the orchestrator, and nowhere before the request
  is open. `At` gives the positions of an event in a queue; the lemmas about pushing and taking say
  how they move. What a full queue loses is in no place at all.
* `AcceptedRelayed`: `AnswerInv` says that an answer, queued or matched, is of a request the relay
  received and replied to.
* `StatusFollows`: `StatusFollowsEvents` under the hypothesis `[]Room`, that no queue is full. What
  the monitor shows, with the events still queued applied in order (`Replay`), is `told`. Without
  Room it is false: an event that finds no room is lost and the status stays as it was. With the
  bounds of the runs no queue gets full, so there the hypothesis holds in every state.
* `DisconnectsHonoured`, under `[]Room` for the same reason: a settled system in which a
  /disconnect overtook no /connect has no connection.
* `StatusTracks`: `StatusTracksLink` where `~Overlap` and `~Faults`, the constants with which the
  commands wait for each other and connections do not break, and `[]Room`. `DialInv` says that at
  most one dial is on its way (queued for the orchestrator or the transport, resolving, or
  connecting), `ToldInv` that there is none beside a connection or its closing and that
  `connected_`, the read loop and the last event told go together. With faults the property is
  refuted by `link_lost`.

`MessagingProofs`, first for the history alone, for every set of contacts and any bounds
(`HistoryAssumption`):

* `UnreadCounted` and `StoreOrder`: `HistoryIInv` says that ids of rows lie below the counters,
  that two contacts never share a conversation id, that `fresh` names incoming rows of its own
  conversation, and where the counter stands in every stage of a call. Without the unshared ids a
  mark of one contact could count rows of another.
* `NoOrphans`: every message belongs to a conversation row, also when the process ends between
  the two statements of a deletion.

`MessagingProofs`, then for every set of peers, aliases and times (`ContactsAssumption`,
`MessagingAssumption`, which also say that `None` is not a record: it stands for the empty optional):

* `SessionsHaveContacts`: `RowFirst` says that a peer being trusted, or whose message is being
  decrypted, already has its row.
* `AliasesNameOne`: inductive beside the two; `Assign` looks before it writes, and the aliases the
  program makes up are not the user's.
* `MessagingImplementsHistory`: the initial states are initial states of `HistorySpec` and every
  step is one of its steps or a stutter. The heart is that `Cascade` is only reached without a row.
* `UnreadInProgram`: `UnreadCounts` carried over from the component through the refinement.
* `MessagesStoredOnce`, `MissedOnlyIfBehind` and `ContactsHaveSessions`, from `MessagingIInv`.
  `OneAtATime` says which stages of the orchestrator, the job and the call of the history go
  together. `StoreInv` says that a message with a row has used its key, and that one that has used
  its key has its row, was lost in between, or is the message under way whose row is to come
  (`RowToCome`). `ServedInv` says that what the relay has delivered was decrypted, and that the
  subscription starts no later than the latest time stamp handled. `CutInv` says that a contact
  without a session failed, was cut off, or is being set up. `PeersInv` says that a peer answers
  without a pre-key only when there is a session.

`ChatModeProofs`, for any contacts, capacity and number of lines (`ChatAssumption`):

* `ChatsAgree` and `PromptTells`: `IInv` joins the types, `ChatAgreement` and `Kept`, which says
  that text typed under a settled prompt has no change of chat before it in the queue and that the
  parser has the chat its prompt showed. The lemmas `AfterAppend` and `AfterTail` say how pushing and taking an element changes
  the chat at the end of a queue (`After`); the last change of chat in a queue exists by
  well-foundedness (`LastExists`).
* `ForeignsFiltered` and `ReadsSeen`: from `IInv` and `Flow`. `Flow` says of every queued message what
  the properties say at the end of the queue: a message in `uiQ` is of the chat that the last
  change of chat before it opens (`Open`), and a message marked read has been shown or skipped, or
  waits in `uiQ`, or waits in `dispQ` where the filter will let it pass. The last part is needed
  because the filter discards what is of another chat; it holds because /chat pushes the change of
  chat before the rows it marks (`ChatFlow`), and later elements do not change what is read before
  them (`OpenPrefix`).

`MemoryStorageProofs` and `SqliteStorageProofs`, for any addresses, ids, records and registration
ids (`StorageAssumption`):

* `MemoryRefines` and `SqliteRefines`: the storage implements `Storage`, the initial states and
  every operation. For the maps the invariant is their type (`MapsTyped`). For the tables it is
  `TablesInv`: one row per primary key (`KeyedOnce`) and at most one local row, without which
  `INSERT OR REPLACE` and `query_row` would not be the update and the lookup of a function, nor
  `COUNT(*)` the number of keys in use (`RowsOccupied`, a bijection).

`SignalBridgeProofs`, for any peers and any bounds (`BridgeAssumption`):

* `KeyFileOpens`, `TablesThere`, `AnnouncedVerify`, `SessionsStayUsable`, `RegistrationKept` and
  `ResetReplaces`, all from `BridgeInvariant`. No property of the bridge is inductive, because
  what is true between two statements depends on the statements to come. Each part of `BridgeInv`
  relates the files to the set of pending statements: for example, while the local identity is to
  be cleared the signed pre-keys are gone or are to be cleared. That a call clears in the right
  order enters through `Stage` and `Programs`: of the statements to come the first has the lowest
  stage (`TailOf`), so at the deletion of the identity no deletion of its keys can be pending. A
  call that is interrupted or fails leaves nothing pending, and every part then says what the next
  start may rely on.

Every safety invariant and action property of a passing run is a theorem. Model-checked only:
liveness, since fairness and ENABLED are out of the prover's reach (`AwaitEnds`, `RequestEnds`,
`StatusCatchesUp`, `PromptFollows`, `ComesUp`, and the fairness in `ImplementsRequests`, of which
`RefinesRequests` proves the safety part). The two storages are proved one by one; `Storages`, which
runs the one or the other within a bound on writes, is only there for TLC.

## 6. Findings

* `keys_grace`: `GRACE_PERIOD_SECS` is measured from the creation of a key and equals the
  rotation interval, so there is no grace (`key_rotation.rs:91`).
* `keys_relay`: a republication that fails is not repeated (`session_orchestrator.hpp:592`).
* `link_lost`: a read error clears `connected_` and tells nobody (`transport.hpp:190`).

## 7. Not modelled

* The content of messages, JSON, signatures and the hash of key derivation: messages, records and
  identities are model values. Drawing of the user interfaces and logging. Conversion of types
  between C++ and Rust. The BLE half of the monitor's state, which nothing writes.
* Shutdown. One signal cancels six processors, the queues are closed, two seconds are waited for
  and the process ends whatever came of it; every module with stored data lets the process end at
  any point, so the order of these steps cannot produce a stored state the models lack.
* The BLE stream: nothing in the program calls it, so there is no order of operations to model.
* The element count of the queues, which only tests read.
* A clock that is set back. `key_rotation.rs:76` subtracts unsigned times, so a key from the future
  counts as expired, and a key made while the clock was behind may later be the only expired one
  although it is the current one. `CurrentKeyKept`, `KeyIdsUsedOnce` and `ListedInStoreOrder` hold
  for a clock that does not go back.
* Failing reads of contacts and of key counts in `Messaging` and `KeyMaintenance`; a crash inside one
  libsignal call in `KeyMaintenance` (`SignalBridge` has it); the content of discovered bundles
  beyond whether they are refused. `PROJECT.json` has the hazards with a note.
* `clear_all_sessions`, `clear_peer_session` and `reset_identity` have no caller in the C++ program;
  they are part of the interface of the bridge and are modelled as calls that may come at any time.

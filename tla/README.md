# A verification development of metaText

metaText is a terminal chat program for two people and small groups. One
process, the daemon, keeps a TCP transport, an optional Tox transport, the
contacts, the message store and the session, and serves any number of front-ends
over a local socket. This directory models it in TLA+, checks the models with TLC
and proves part of what they say with TLAPS. Paths are relative to `src/crates/`.

## 1. The system

```
 a front-end: presenter.rs, its loop, and for the full screen tui.rs
      |  requests, replies, events: framed JSON over one TCP stream each
 IPC server (core/ipc/server.rs)       IPC client (core/ipc/client.rs)
      |  mpsc of commands, broadcast of events
 core actor (core/ipc/core.rs): contacts, requests, groups, active chat, session
      |  direct calls, one at a time          ^ bounded inbox of AppEvents
 NetworkManager (network.rs)  ToxTransport (transport.rs)  PinStore (trust.rs)
      |  tokio tasks: supervisor, acceptor,   |  toxcore's own thread (tox.rs),
      |  a reader and a writer per peer       |  a bridge task, a state file
```

| component | state it keeps | operations | what is hard in it |
|---|---|---|---|
| TCP connections (`network.rs`) | registry by remote address, desired addresses, task list, event inbox | connect, supervise, accept, register, read, write, shutdown | four kinds of tasks write the registry between awaits; a bounded inbox; deadlines for peers that never greet or go silent |
| TCP outbox (`network.rs`) | queue per nickname, writer queue per connection | send, broadcast, queue, flush, put back, expire | look-up and enqueue are two lock scopes; a flush holds a batch outside any lock; writer queues fill and close |
| TCP pair keys (`network.rs`, `identity.rs`) | identity and ephemeral heard per connection | announce, derive, seal, open | both ends greet at once; a key is chosen in one step and used in a later one |
| Identity pins (`trust.rs`) | pinned key per nickname, its file | observe, persist, load | several readers pin at once; two locks; a bounded table; a write that fails |
| Start of the daemon (`main.rs`, `config.rs`, `identity.rs`, `database.rs`, `core.rs`) | configuration, identity, pins, schema, session: files | load, create, migrate, bind, announce, stop | the process may be killed after any step; the next start meets what it left |
| Tox worker (`tox.rs`, `transport.rs`) | toxcore's memory, savedata, command channel, callback hand-off | start, iterate, serve a command, hand a callback over, save, shut down, join | three threads wait for each other; callbacks must not wait |
| Tox queue, requests, file (`transport.rs`, `tox_store.rs`) | outbox per friend, unanswered requests, next id, a state file | send, enqueue, flush, accept, reject, persist, restore | the worker, the bridge and the actor interleave; a crash between a change and its write; two files written at different times |
| Tox conferences (`tox.rs`, `transport.rs`) | conferences, pending invitations, titles | create, join, decline, rename, invite, send, leave, list | a cookie is used once; answers, callbacks and lists arrive in any order |
| Core actor (`core.rs`) | contacts, groups, active chat, session | one handler per request and per event | single task, but it awaits transports while their events wait; what it answered must outlive it |
| Message store (`database.rs`) | rows, schema | migrate, store, query | interrupted migrations; a row is written before its message is published |
| IPC server (`server.rs`) | budgets per address, per-connection queues | handshake, dispatch, attach, detach | bounded queues between three tasks per client; a lagging client; budgets in a bounded table |
| IPC client (`client.rs`) | table of pending requests | request, pump, close | a reply races its deadline and the end of the connection |
| Front-end (`presenter.rs`, `commands.rs`, `ui/tui.rs`, `cli/ui.rs`) | a snapshot of the session | lines, events, signals | the snapshot ages; a lagging event stream |
| Terminal interface (`tui.rs`, `ui/tui.rs`) | modes of the terminal, draft and history, scrollback | set up, draw, read keys, capture, restore | three threads own the terminal between them; a set-up that fails half way |
| Wire protocol (`proto/ipc`), ciphers (`crypto.rs`), command line, logging | none, or one log file | encode, decode, validate, seal | boundaries only |

What makes each correct, in one line:

* connections: the registry never keeps an entry nobody serves, the limit
  holds, what is desired is dialled until it is up;
* outbox: a message its sender was told is queued is delivered or given up for
  a counted reason, never lost and never kept twice;
* keys: what the sender seals the receiver opens, whatever has been exchanged;
* pins: what is pinned reaches its file whatever the order of the writers, in a
  bounded table and a bounded number of writes;
* start: one identity for the life of the data directory, a schema that is
  complete or refused, whatever was interrupted;
* Tox worker: every call returns, a loss is counted, an orderly end is saved;
* Tox queue: delivery order, at most one offer per delivered payload, and a
  file that says what memory says;
* conferences: an invitation survives a failed join, a name is not lost;
* core actor: what a front-end was told is what a restart reads back; limits;
  the active chat names something that exists;
* IPC: every request is answered once or fails once, nobody waits for ever,
  one client cannot starve another;
* front-end and terminal: what is shown is true and catches up, and the user
  gets the terminal back.

## 2. Modules

| module | models | composes with |
|---|---|---|
| `PeerConnections` | connections, supervisor, acceptor, readers, inbox | the core only as the consumer of the inbox and as a dialler |
| `Mailbox` | abstract: what a sender is promised about each message | |
| `PeerOutbox` | sends, outbox, flush, writer queues, expiry | implements `Mailbox` |
| `PairKeys` | greetings and keys at both ends of the connections of one pair | two instances of the transport |
| `Pins` | the pin table, its file and the readers that race for both | |
| `Daemon` | a run of the process from its command line to its end, over its files | extends `Pins`, and refines it |
| `ToxWorker` | the thread that owns toxcore and everybody who waits for it | actor, bridge, inbox, savedata |
| `FriendMail` | abstract: the line of payloads for a friend and what its file may say | |
| `ToxQueue` | outbox, requests and state file over runs of the process | toxcore, bridge, actor and disk; implements `FriendMail` |
| `ToxGroups` | conferences as toxcore, the bridge and the core know them, invitations | toxcore, bridge and actor |
| `CoreActor` | requests of front-ends, contacts, friend requests, session file, shutdown, restart | front-ends, bridge, toxcore's friend list and disk |
| `Conversation` | the core between one front-end and one transport: what each request and event does, filing, the broadcast channel | transport, store |
| `FrontEnd` | the front-end's loop and its cached panel | extends `Conversation` |
| `IpcSession` | requests, replies, events and budgets over one socket, from handshake to detach | callers, the client's pump, the server's loop and dispatcher |
| `InputLine`, `ScrollPane` | the line editor with its history; the scrolled pane | |
| `Terminal` | the front-end's task, the engine and the reader of standard input | extends `InputLine` and `ScrollPane` |
| `*Proofs` | theorems about `PeerConnections` and `PairKeys` (`TcpProofs`), `PeerOutbox`, `Pins` with `Daemon`, `ToxWorker` and `ToxQueue` (`ToxProofs`), `CoreActor`, `IpcSession`, `ToxGroups`, `FrontEnd` with `Conversation` and `Terminal` with `InputLine` (`InterfaceProofs`) | |
| `MC*` | names for TLC; no definition of the system | |

### How state and actions correspond to the code

`PROJECT.json` maps every definition to the lines it stands for. What follows is
what the mapping does not say: the grain of the steps, and what each variable is.

**PeerConnections.** `peers` is `NetworkManager::peers`, keyed by remote
address; `desired` is `desired_peers`; a `conn` record is a socket with its
reader task, whose `stage` is the await the reader stands in; `at`, `addr` and
`held` are the program counters and locals of the actor, the supervisor and the
acceptor; `inbox` counts events in the bounded channel to the core. An action is
a mutex guard's scope or a completed await. `Connect`/`DialOk`/`DialFails`/
`Insert`/`Announced` are the stretches of `connect` and `register` between
awaits; `Tick` copies the unresolved addresses and `Redial` dials one of the
copy; `Accept` compares the limit with the registry; `Hello`, `Traffic`,
`Keepalive`, `Delivered` and `ReaderEnds`, `ClearResolved`, `ReportGone` are
`read_loop`. Frames are abstracted to what they change here.

**PeerOutbox.** A message is its id. `name` is the registry seen by nickname,
`queue` the bounded queue of each writer, `outbox` the map by nickname, `batch`
what a reader holds between taking a queue and putting the rest back, `call` the
senders a send has cloned. `LookUp` and `Dispatch`/`Enqueue` are separate because
the registry lock is released in between; `Hello`, `Take`, `HandOver`, `PutBack`
are the flush; `Prune` is the expiry. Both kinds of queue are sets, so order
between messages is abstracted away here.

**PairKeys.** A key is who can compute it: every member (`"session"`), an end
that heard the other's identity (`"static"`), or an end that heard identity and
ephemeral on one connection (that connection). `said` counts the frames of a
greeting `announce` has queued, `heard` what the registry entry has recorded,
`sealed` is the payload between `contact_key` and `send_payload`.

**Pins and Daemon.** A reader calls `observe` under the table's lock, then takes
the write lock, copies the table (`snap`) and publishes the copy; `at` is where each
reader stands. `failed` is the last write's outcome, `changes` and `writes` are
history. `Daemon` puts the process around it: `phase` walks through `main`,
`CoreService::new` and `CoreService::start` (configuration, pins, identity, database, bind), each
file operation a step of its own, the migration one statement at a time; `Crash` is
possible everywhere and leaves the files. `schema` is the set of tables, late columns
and indexes; a start begins from any schema a release or an interrupted migration
left. `heard` is what peers were ever told.

**ToxWorker.** `worker` is the thread with what toxcore's memory knows (an identity
and a number of changes), `commands` the channel, `reply` each caller's one-shot
channel, `events` and `dropped` the hand-off of callbacks, `inbox` the core's. `Ask`
sends or finds the receiver gone (`round_trip`); `Change`, `Read`, `Save` and
`Shutdown` are `Worker::handle` by what they do to the savedata; `Leaves` drops the
receiver, which answers whoever still waits. The bridge polls, asks, forwards, and at
its end stops and joins the worker (`ToxClient::drop`). `Load` is `run_worker` up to its
loop: the file is used, absent or not readable (then toxcore makes a new identity), refused,
or toxcore fails for want of something else. History: `outcome` says how the run stands or
how the last one ended, `latest` what toxcore held last in it, `blind` that it could not read
a file that is there, `unwritten` that its last attempt to write failed; each start begins them anew.

**ToxQueue.** `known`, `online`, `callbacks` are toxcore's worker; `table`,
`requests`, `outbox`, `nextId` the transport's memory; `disk` and `saved` the two
files; `lock` the store's write lock with the snapshot it protects; `task` the
program counters of the actor and the bridge. `Snapshot`, `Publish` and
`WriteFails` are `ToxStore::update`; `HearRequest`, `HearConnection`, `Pop`,
`HandOver`, `PutBack`, `FlushEnds` are the bridge; `ProcessDies`, `StopBridge`,
`Stopped`, `Restart` the ends of a run and `restore_state`. `Fresh` is `retain`: the
entries that are young enough, by their places in increasing order. `QueueSpec`,
`QueueInit` and the like carry the prefix so that `ToxProofs` can extend this module
and `ToxWorker` together; so do the names of `PairKeys` (`KeysInit`) and of `Terminal`
(`ScreenInit`). The variables marked
"history" record what a property talks about; no guard of the code reads them
except as the name of the next payload.
`FriendMail` is what all this promises, without tasks, locks and positions: each friend has a
set of payloads in line, numbered as they were sent. Under the mapping (`Mail`) the line is
the queue and the payload the bridge offers just then (`Offered`), so that taking a payload
out and putting it back are stutters and `HandOver` is `Take`; `Push` is `Keep`, `PruneOnline`
is `Expire`, `Snapshot` is `Copy`, and `Publish` and `WriteFails` are both `Copied`. What the code does
not keep the promise names: a copy may lack the payload that was being offered, and the
friends the table did not have.

**ToxGroups.** `live` and `handshakes` are the worker's (`ConnectedConferences` is the
second), `events` the callback hand-off, `names` and `invites` the transport's locked
tables, `groups` and `active` the core's. A request is two actions, what the worker
does and what the actor does with the answer, because the bridge and the worker run
in between; so is a list (`AsksForGroups`, `Listed`) and the bridge's look-up of a
title (`AskWorker`, `CacheAnswer`). `copy` is a snapshot on its way. `GoesAway` is a conference
that disappears without being left; the next `Snapshot` drops its handshake. History: `owed`
(invitations kept), `confirmed` (handshakes that completed in this membership) and `vanished` (a
conference that went away with a handshake on record, until a snapshot finds it gone).
An invitation sent and a message sent go to the worker and change none of this
(`ToxTells`).

**CoreActor.** A front-end's request is `Call` (it waits for room in the command
queue), `Enqueue`, and an answer or `Refused`; `GiveUp` drops the future, and the
queued request is served all the same. Each handler of `CoreService::handle` that
changes contacts, friend requests or the active conversation is one action, up to
the write of the session if it ends with one (`actor.at = "save"`, then `Written` or
`WriteFails`): the actor awaits nothing else that its own state depends on, and what
the bridge does meanwhile commutes with it. A contact is its author and what names
it, the address it was added with or the key of an accepted request. `Shutdown` and
`LastHandleDropped` are the two ways out of `run`; both drop the inbox first
(`Close`). `Exit` is `main` returning, `Crash` anything else that ends the process,
`Restart` is `load_session` and what the transport reads back. `word` and `failed` are
history. The friend requests' own file and the outbox are in `ToxQueue`; here that
file is written with each change.

**Conversation and FrontEnd.** `Conversation` takes over where `CoreActor` stops: every
request of the protocol (`Request`) with the reply it gets, every event of a
transport (`AppEvent`), the store (`rows`), and the broadcast channel that forgets its
oldest event (`events`, `lagged`). `File` is the write of a message, a step before the
one that publishes it (`OnAppEvent`). It has one front-end, which is `FrontEnd`: `loop`
is its `select!`, `doing` the requests that follow the one that was asked (a command
is a list of requests, refreshes at its end), `panel` the presenter's cache.
`TakeReply` and `HandleEvent` are the only writers of the panel. The cut to one
client is what `IpcSession` and `CoreActor` make up for: there are several callers.

**IpcSession.** `call`, `table`, `outbox` and `pump` are `RemoteClient::request`, its
`pending` table, its command channel and `pump`; the pump writes before it reads again
(`Take`, `Write`, `Receive`), and its end is three steps: it leaves the loop, clears the
table, and returns (`PumpEnds`, `Clear`, `PumpReturns`). `loop`, `pending`, `dispatcher`,
`news` and `strikes` are `serve_connection`: `Admit` charges a request to the address's
budget, `Pass` waits for room in the dispatcher's queue, a request that was shed takes
the same way, and `Notice`/`Tell` forward an event. Reader tasks, writer tasks and the
buffers of the socket only relay, so each direction is one bounded queue (`up`, `down`).
`Acquire` is `PeerBudgets::try_acquire` with its sweep, its eviction and the token
bucket, in whole tokens; `Elsewhere` is what other connections take. `Attach` is the
accepted handshake of the two ends (`Connects`, `Welcomes`); one that is refused leaves
no state. `Detach` is the end of `serve_connection`, which aborts its tasks. `order`,
`replied`, `served` and `evicted` are history.

**Terminal, InputLine, ScrollPane.** `front`, `engine` and `reader` are the three
threads; `modes` what the terminal has been switched to (raw, alternate screen,
mouse), set one by one and undone by one function, as `setup_terminal` and `restore_terminal` do;
`queue` the input queue. `Draw` makes a `frame` of the log, `Page` scrolls it and
`CountArrivals` moves a pane that does not follow by the rows that arrived, which is after
the frame they are first drawn in. The editor
works on characters of one, two or (a combining mark) no columns; `InputView` is what the input row shows of
it and where the caret is.

## 3. Runs

| run | question | bounds |
|---|---|---|
| `ConnRegistry` | do the registry and the tasks that serve it agree, and does the inbound limit count exactly the connections there are | two inbound peers, one desired at startup, one the user dials; two connections at a time; limit 1; inbox 1 |
| `ConnReconnect` | is what is desired dialled until it is up, and are dead and silent connections given back | one peer that does not fail, one that refuses, drops, falls silent or sends without greeting; two connections; inbox 1 |
| `OutboxTasks` | is a queued message stored once until it is delivered or given up, is every step one `Mailbox` allows, does waiting end | one nickname, a connection that may break and one that does not, two messages, capacities 1 |
| `KeysGreeted` | is what is sealed opened, but for two races the property names; do both ends come to hold the agreed key | two successive connections, one message, one repeated greeting |
| `ToxRuns` | order, no second offer, one id per payload, request list and file agree, is every step one `FriendMail` allows | one friend, two payloads, two runs, one request, callback queue 1, disk may fail |
| `CoreRuns` | is what was answered what a restart reads, do limit and names hold, does every request end | one front-end whose requests may be given up, three requests, two friends, limit 2, queue and inbox 1, two runs, disk may fail |
| `GroupTasks` | do invitations, handshakes, names and the active group stay what they should while three tasks change them | a conference that is left, goes away by itself, is created and joined again, an audio/video invitation, one title, two callbacks, inbox 1, one invitation |
| `IpcSession` | are replies in order, is every caller told of the end, does an address stay within its budget over all its connections, is the place of a client that is gone given back | two requests, one event, two sessions, one other address, every queue of capacity 1, burst 1, rate 1, a table of one budget, two strikes |
| `DaemonRuns` | is one identity announced, is the schema complete or refused, do pins reach their file | two runs, each killed anywhere; three nicknames, two keys, two readers, a table of two, two late columns; every write may fail |
| `WorkerRuns` | does every call return, is every lost callback counted, is an orderly end saved, does the identity stay | two starts, each killed anywhere, two changes, three callbacks, hand-off and inbox 1, a savedata that may be unreadable, refused or not written |
| `TerminalRuns` | does the user get the terminal back, is the pane steady, does the draft come back, does who asks to leave leave | one wide and one combining character, a paste with a line break, history 1, scrollback 2, a pane of 2 rows, an input row of 3 columns, lines of 1 or 2 rows, five inputs; mouse and following on or off; the set-up may fail at each step |
| `FrontEndRuns` | does the panel come to show what the core holds, has what is shown happened, is the end of the core noticed | over TCP one friend, nickname, status and peer, over Tox one group and one friend request; three lines, two arrivals, a channel of one event |

Why these bounds are enough to be interesting: each hazard in `PROJECT.json` needs at most
two tasks of a kind, a queue that can be full (a capacity of one, with a message more than
that), and one restart. The outbox of `ToxRuns` alone holds as many payloads as there are:
with a smaller one the second would be refused, and there would be no order to keep.
`MCTyped` splits the commands a user types into those of a session over TCP and those of one
over Tox, because the core refuses the others without changing anything. Every property is
falsified under the configuration of its run by a plausible fault of the code, written next
to the definition it replaces and introduced by "Fault:"; those operators are not part of
any specification. Properties that ask one question of several parts are one conjunction
(`ContactsAgree`, `FileAgrees`, `RepliesMatch`, ...), the type invariant among them.

The runs are few on purpose: properties of a composed module are checked in the run of the module
that extends it (`Pins` in `DaemonRuns`, `Conversation` in `FrontEndRuns`,
`InputLine` and `ScrollPane` in `TerminalRuns`). `CHECK_DEADLOCK FALSE` stands where
the program may stop: a process that has ended, a user who types nothing more, a
bound that is used up. `GroupTasks` checks for deadlock.

**Fairness.** Safety runs assume none.

* `PeerConnections`: weak fairness of tokio's runnable tasks; strong fairness of handing an
  event to the inbox, because the semaphore of a tokio channel serves waiters in order; of
  `Consume`, because `select!` picks among ready branches at random; of `DialOk`, which only
  says that a desired peer that is dialled for ever is there some day; of the greeting
  deadline, which is one moment (`timeout_at`) that no frame puts off. Faults, user actions
  and remote ends are never fair, except that a far side reads our end of stream, and a peer
  that does not fail greets.
* `PeerOutbox`: the tasks run; that a peer returns is the premise of `WaitingEnds` and
  stands in that property.
* `PairKeys`: the tasks of both ends run.
* `CoreActor`: the actor's writes, its stop and the bridge's end are weakly fair; serving
  the queue is strongly fair because `select!` picks among ready sources at random; so is
  `Enqueue`, because the channel's semaphore serves waiters in order.
* `IpcSession`: the pump, the loop, the dispatcher and the callers run; no deadline is
  fair, so what ends there ends without one. A client that stays and does not read may
  block the server's tasks for ever.
* `ToxWorker`: the worker serves what is queued between two iterations, each of which is
  bounded; bridge and actor go on when what they wait for is there; the actor takes
  events between requests, as its `select!` does (strong).
* `Terminal`: the threads go on. The user owes nothing, neither a key nor an end.
* `FrontEnd`: the loop, the core and the reply run. Neither a line nor an arrival need
  come.

## 4. Proofs

TLAPS proves the following for every value of the constants, from the named assumptions
of the modules only (capacities and bounds are numbers, "none" values are not names, what
is typed is a command, no character is the name of a key). A burst, a rate and an idle
time are any positive numbers: `config.rs` bounds them, and a rate of 0 turns the budgets off.

* `TcpProofs`, of `PeerConnections`: `ConnectionsTypeCorrect` (`TypeOK`), `NoOrphanEntry`
  (`EntryHasReader`) and `SlotsStayCounted` (`SlotsAreCounted`: the types, the entry of what is
  served, and the inbound limit). `EntryHasReader` is not inductive: that `Insert` points an
  entry at a connection needs `HoldsStream` (a task that is registering holds a
  socket nobody reads), that two registrations do not share one needs `HoldsApart`,
  that the entry is filed under the right remote needs `OpenHasRemote`, and that
  `mark_resolved` has an address needs `DiallerHasAddress`. `IInv` is their
  conjunction with `TypeOK` and `EntryHasReader`.
  For the slots `SlotInv` adds to it: a remote that only the supervisor dials, for
  one address, has one connection at a time (`SoleStream`); that rests on the supervisor
  dialling only what nobody is connected to (`Undialled`) and on every such connection
  being marked or about to be (`KnownUp`); and the limit counts the socket that was let
  in and is not registered yet (`SlotsLimited`). The proof corrected `ReaderHasEntry`: one
  remote can be reached by two addresses (a name and a number), the supervisor dials each, and the
  second connection takes the entry of the first, so the property leaves such a remote out.
* `PeerOutboxProofs`: `OutboxTypeCorrect` (`TypeOK`), `QueuedIsNeverLost`
  (`NothingIsLost`), `QueuedIsStoredOnce` (`StoredOnce`) and `OutboxKeepsPromise`
  (`KeepsPromise`: the outbox implements `Mailbox`). `IInv` says where a waiting message
  is: in the outbox of its own addressee or in the batch of a reader in a flush for that
  addressee (`InOutbox`, `InBatch`), in no two of these places (`BatchesApart`), and
  in one of them (`IsStored`); that ids not given out have no trace (`IdsFresh`) and
  that a flush has a nickname (`FlushHasName`). The implementation proof takes each
  action to an action of `Mailbox` or to a stutter.
* `PinsProofs`: `PinsPublished` and `PinsBounded` of the pins alone, `DaemonKeepsPins`
  (every step of the daemon is one of the pins or leaves them alone), and through it
  `DaemonPublishes`, `DaemonWritesTwice`, `DaemonIsBounded` of the whole process.
  `Published` speaks of quiet states only; what is inductive is `CoveredInv`: a pin is in
  the file, in the copy that is being published, or a reader that has not copied yet will
  publish it, with `LockInv` (the reader that publishes holds the lock) and `BudgetInv`
  (what was written is recorded in the pin). The bound needs that every copy on its way to
  the file is small (`BoundInv`), since a start reads the file back.
  Of the daemon itself: `OneIdentityKept` (`OneIdentity`) and `StoreStaysUsable`
  (`StoreIsUsable`). `IdentityInv` says of each phase of a start which identity the run
  took, and that whatever was announced to anybody is in the file: an identity that is not
  stored yet belongs to a run that has announced nothing. `SchemaInv` says that the statements
  of a migration are done in order, so that each phase has what the ones before it made,
  from whichever schema the start found.
* `ToxProofs`, of `ToxWorker`: `WorkerTypeCorrect`, `LossIsAlwaysCounted`,
  `OrderlyEndIsSaved`, `IdentityIsKept`. `Recorded` says that the worker holds what the run has
  seen of it last, `Follows` that it goes on from the savedata unless the run could not read it,
  and `Left` that a worker which is gone before its actor has written what it held, or failed
  to. None of them needs to know what happened in an earlier run, so crashes, failed saves and failed
  starts do not disturb them: a start begins from whatever is there. `Owned` says that nobody
  is left when the actor is done.
* `ToxProofs`, of `ToxQueue`: `QueueLeavesInOrder` (`FlushedInOrder`) and
  `FileStaysInAgreement` (`FileAgrees`: the types, one id per payload, the requests of the
  file, nothing delivered left in it), from one invariant, `StoreInv`. The order is not inductive by
  itself: what toxcore took is before what the bridge holds in its hand, that is before
  what waits, and every file that was or will be written is in order too (`QueueInv`),
  because a restart makes it the queue. That the file agrees is broken by every change
  and mended by the write that follows, so `RequestInv` and `DeliverInv` say who
  still owes that write: a task that stands before it, or the one that holds the lock
  with an older snapshot while another waits. Ids are distinct over memory, the file and the snapshot
  on its way (`IdInv`), and between two runs there are only the files (`DownInv`). What
  is kept of a queue by age or by capacity is in order whatever its length: `Smallest` and
  `OrderExists` argue by the smallest counterexample, since `<` on numbers is well founded.
* `ToxProofs`, of `ToxQueue`: `QueueKeepsMail` (`KeepsMail`: the queue implements `FriendMail`).
  Each action maps to an action of `FriendMail` or to a stutter, in the states of `MailInv`, which
  adds two things to `StoreInv`: no payload has an id before it is sent, and an actor that reports one as
  queued has queued it (`ToldInv`); a run forgets no friend the savedata had, and an orderly stop
  interrupts neither the actor nor a write, which whoever holds the lock stands before
  (`EndInv`). That toxcore takes the first of a line is `OfferedFirst`, from the
  order in `QueueInv`: the hand is before the queue. What a restart begins with is a start of
  what is young in the file (`RestoredStarts`); since places are numbers in rising order
  (`RisingCounts`), what is kept of a queue has as many payloads as the set it stands for.
* `IpcSessionProofs`: `BudgetsAreKept` (`ServedWithinBudget`), `RepliesAreAwaited`
  (`TableIsLive`, a part of `RepliesMatch`) and `RepliesStayMatched` (all of
  `RepliesMatch`). The bound of what an address was served is inductive only together with
  what is left in its budget: `Allowance` adds the two, and an address without a budget must
  leave room for a whole burst. A budget that expires had refilled while it was idle, but
  for the `Shortfall`, which is 0 when the rate refills the burst within the idle time;
  `Due` counts the budgets that expired, and time has room for as many as there are idle
  times in it (`DueBounded`). For the replies `OrderInv` gives every request of the session
  its place in the line: the first ones are answered, the next replies are on their way,
  then come the request in the dispatcher, its queue, what the loop passes on, the stream,
  what the pump writes, and the client's queue. A reply may be given up or cut off at any
  place, so there is only some number of replies of which the rest follows, while the stream
  is open; `EndInv` says which tasks are left once an end is closed, and that a session
  begins with nothing of the one before.
* `CoreActorProofs`: `ContactListAgrees` (`ContactsAgree`), `AnswersOutlive`
  (`AnswersLast`), `EndSavesAll` (`AnsweredEndIsSaved`), `RequestsGoAnswered`
  (`RequestsAreAnswered`). The list in the file must fit like the one in memory, since a
  restart begins with it (`ListInv`); an answer that is being saved is true in memory
  (`SavingInv`, `WordInv`) and an accepted contact is in the file or being saved into it
  (`FileInv`); the end of a run writes the session, then the savedata, then answers
  (`EndInv`).

* `ToxGroupsProofs`: `SessionsAgree` (`GroupsAgree`), `InvitationsWait`
  (`InvitationsSurvive`), `NamesAreKept` (`NamesStay`). A handshake on record is of this membership
  or of a conference nobody has found gone only if the command that ends or renames one names a
  conference, and the event in the bridge is a real one (`HoldsGroup`); the invitation list is
  finite, so that one more entry takes it at most to its limit.
* `TcpProofs`, of `PairKeys`: `KeysTypeCorrect` (`KeysTypeOK`) and `SealedOpens` (`SealedIsOpened`).
  What the receiver holds when it reads a message follows from what is still in front of
  it on the stream: `GreetingInv` says that each frame of the greeting the sender has
  queued is recorded at the receiver or ahead of whatever is queued next, and that the
  identity and the ephemeral are recorded or ahead of a message that did not overtake
  the greeting. `LinkInv` (a connection that is not up carries nothing) keeps a reader
  from reading what was queued before a failure.

* `InterfaceProofs`, of `FrontEnd` with `Conversation`: `NothingIsShownEarly` (`ShownIsTrue`)
  and `PanelShowsTheSession` (`PanelSettles`), from one invariant, `PanelIInv`. That the
  panel is right when nothing is under way says nothing of the states in between, so
  `PanelInv` says of each field who will still tell it: a snapshot that is asked for or on
  its way, an event in the inbox or in the channel that makes the loop ask for one, a reply
  or an event that carries the new value, or an event the channel dropped (`missed`). It
  rests on `PipeInv`, which requests stand before which others, so that a change made by a
  command has its refresh behind it; and on `NewestInv`, since of two events about the
  nickname only the later one is true. `ReceiptInv` follows a message's number from the
  transport through both queues to the screen, with the reply that reports it still on its
  way (`Reported`), and `FiledInv` says that whatever is published is filed.
* `InterfaceProofs`, of `Terminal` with `InputLine`: `TerminalIsGivenBack` (`ScreenIsKept`)
  and `DraftIsNotLost` (`DraftComesBack`). `EngineInv` says which modes are set at each step of
  the engine, unless its set-up failed half way, and `OwnerInv` that the capture holds as
  long as the engine has the screen and the front-end still waits for it, that is, is not
  `late`. The draft is what the user composed, or is kept aside while the place in the
  history is a line of it (`DraftInv`).
* `InterfaceProofs`, of `Terminal` with `ScrollPane` and `InputLine`: `PaneKeepsItsPlace`
  (`PaneIsSteady`). The pane remembers an offset from the end, not a row; `HeldInv` says
  that the row it was moved to is the one that offset stands for in the lines of the last
  frame, as long as no line was lost. A frame keeps it because the next log begins with the
  lines of the last (`GrownInv`, for a capture that the engine still owns), so that its rows
  are the rows of the last frame and then the ones that were counted (`ArrivalsAre`), and
  because the offset grows by just as many until the window meets the oldest row
  (`DrawKeepsTop`). `FrameInv` says of every frame that it was drawn at the offset of
  before, to which the arrivals were added afterwards: its window is full of consecutive
  rows (`WindowIsFull`), and its top is no more than the arrivals below the row that is held
  (`OffsetsAgree`). The caret needs only that the cursor is within the draft (`CursorInv`),
  the columns of a longer part of it being no fewer (`ColumnsGrow`). What `FlattenSeq`
  returns is a recursive function of the community modules; that it exists for every
  sequence, and that it joins two logs in a row into their rows in a row, is shown by the
  least length at which it would not (`LeastOf`, from the well-foundedness of the naturals:
  `JoinsExist`, `JoinsFrom`), since the induction theorems cannot be used.
  `TerminalAssumption` says that `Unbounded` exceeds every offset: a pane of a scrollback of
  `OutputCapacity` lines, each of two rows at most, and twice that, for the sum of an offset
  and what arrives.

Every safety property of a run is a theorem. Only model-checked: the liveness properties,
`GreetingCompletes` and `WaitingEnds` among them: fairness and ENABLED are outside the
prover's reach. No module declares a RECURSIVE operator.

## 5. Where code and documentation part

Found while modelling; none is a run of its own. The models follow the code, and
the properties say what holds of it.

Connections and outbox:

* README: "a dropped connection is re-established without user action". `register`
  (`network.rs:1261`) spawns the reader before its caller marks the address resolved. A
  connection that ends in between clears a mark that is not there yet; the mark that is
  set afterwards is never cleared, and the supervisor does not dial the address again.
* `network.rs:970`: queued frames are "flushed by the transport as soon as a peer
  announcing that nickname connects". The nickname is looked up and the message enqueued
  under different locks (`network.rs:1007`): a greeting in between flushes an empty
  outbox, and nothing flushes again while that connection lasts.
* A flush that puts its batch back can exceed the outbox capacity; two spellings of one
  remote replace each other's registration; a registration in progress survives
  `shutdown` and its reader goes on serving (`network.rs:609`); the core inside `connect`
  waits for room in an inbox only it empties (`network.rs:831`): with the inbox full
  neither goes on.
* A payload may be sealed under a key of a connection that has ended, or before the
  sender's own ephemeral is announced: the two exceptions `SealedIsOpened` names.

Pins:

* `trust.rs` says a stale file "costs a repeated warning, not a missed one". The second
  change of a nickname in a run stays in memory; a restart that meets the key the file
  still holds reports nothing.

Tox:

* `transport.rs:2203`: `persist` is "called after every mutation of either, which is what makes
  the file a durability guarantee". A payload is outside the queue while toxcore answers
  (`transport.rs:1017`); the write of a send, even of the same payload, that runs meanwhile leaves
  it out, and a put-back with nothing sent or expired is not written (`transport.rs:2536`). Nothing is
  under way then, no write has failed, and the payload that was reported as queued is in no file:
  a crash loses it (`FriendMail` allows it: a copy may lack what is being offered).
* A payload enqueued after the flush its refusal raced waits for the next connection; a
  payload for a friend made in this run cannot be addressed after a crash, because the
  friend list is saved only by a clean shutdown.
* `tox.rs:2905`: "a later conference must never inherit" the handshake of one that is gone. One
  that went away without being left keeps its handshake until a snapshot (`tox.rs:2987`): if it
  is joined again before, the new membership has it at once (`vanished` in `GroupsAgree`).
* `README.md:817`: the group count "is the transport's own list, taken when the command
  runs". A callback about a conference waits in the hand-off or the inbox while the
  conference is left; `remember_group` (`core.rs:1209`) makes a group of it again,
  `refresh_group_cache` only adds, and toxcore refuses to leave what it is not in: the list
  reports a group nobody is in until the process ends.
* A title callback raised before a rename puts the old name back into the cache; the
  bridge caches the title of a group that was left; a message in a group sets its number
  of members to zero.

Core and IPC:

* `add_contact` is answered without a save; a contact that is removed stays toxcore's
  friend, and adding its address again is refused; after a crash a contact may be no
  friend of toxcore, and its repeated request makes a second contact under another name.
* `send_message` counts and stores a message that was dropped; `/group list` leaves the
  session's group count behind; `CoreEvent::ConversationChanged` is never published.
* `CoreHandle::request` waits when the queue is full, where its comment (`core.rs:117`)
  names an error; a caller that waits for room in the client's queue has no deadline,
  where `client.rs:15` promises "Per-request deadlines".
* The pump writes without reading and the server's loop forwards without reading
  (`client.rs:345`): with every queue between them full they wait for each other. Events
  published between the welcome and the subscription are not seen (`server.rs:522`).
* `server.rs:62` says of the idle time that "a reconnect loop gains nothing". That holds of a
  loop; an address that waits the idle time out begins with a whole burst again, and where the
  configuration sets a burst the rate does not refill in ten minutes (`config.rs:716`) that
  is more than it would have had: the shortfall `ServedWithinBudget` grants.

Front-end and terminal:

* A lagging receiver only warns, and the panel may stay behind until the next refresh;
  `/group send` and an undecodable message refresh nothing, so counts are stale.
* `presenter.rs:69` and 300 say of `active_group` that the two never disagree and that a
  bare `/group send` uses it; it only marks a line of the list, and a bare `/group send`
  goes to the core's active group (`core.rs:1173`).
* If the full screen cannot be set up, the front-end has read `is_active` once and may
  have found it true: nobody then reads the keyboard. `setup_terminal` returns after
  raw mode is on when entering the alternate screen fails, and leaves it on (`broken` in
  `Terminal`).
* `tui.rs:138` and `README.md:458`: with `auto_scroll` off the pane "keeps showing the rows".
  The frame in which rows arrive is drawn at the offset of the one before (`tui.rs:1043`) and shows
  as many rows further down; the count it makes moves the next frame back. With rows
  arriving between any two frames the pane never shows the row it was left at.
* With following off the pane does move once the scrollback is full, and the limit of
  scrolling is off at the exact boundary. `input_view` says its offset is below its width
  "by construction", which fails in a row of one column; `draw_input` shows no caret there.

## 6. Not modelled, and the plan

Left out:

* ciphers and key derivation: library calls without state (`PairKeys` says which key is
  used when);
* framing, serialisation and the validation of strings: pure functions of one frame, no
  state; the types they carry are in `Conversation`;
* the command line and the log file: one writer, no step of another actor is visible;
* counters and statistics, `Ping`, the `online` state of a friend, the copy of what was
  sent in the store, the queries that read it: nothing decides by them;
* a handshake that is refused: it leaves no trace;
* in `FrontEnd`, a Tox receipt for a payload that an earlier run had stored: `accepted`
  starts empty, as in a run whose outbox file was;
* the wording of what is printed, and the drawing of header and side panels.

Next, in this order: a composition of `IpcSession`
with two clients of one core, whose state space is out of reach in the present form of the
queues; and `Conversation` with two front-ends, so that a change by one is seen in the
panel of the other.

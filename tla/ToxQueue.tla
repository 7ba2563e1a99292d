------------------------------ MODULE ToxQueue ------------------------------
(***************************************************************************)
(* The durable half of the Tox transport (transport.rs, tox_store.rs): the *)
(* outbox of each offline friend, the unanswered friend requests, and the  *)
(* file both are written to, over several runs of the process.             *)
(*                                                                         *)
(*   worker   toxcore's thread: knows who is a friend and who is online,   *)
(*            answers one command at a time, raises callbacks              *)
(*   bridge   takes one callback after the other: refreshes the friend     *)
(*            table, keeps a request, flushes the outbox                   *)
(*   actor    the core, one operation after the other                      *)
(*                                                                         *)
(* Each action is one lock's scope or one answered toxcore command. The    *)
(* friend list is in toxcore's savedata, the rest in tox-state.json. A     *)
(* payload is a number; friend numbers do not change within a run, so a    *)
(* friend stands for its number there and for its public key in the file.  *)
(***************************************************************************)
EXTENDS Naturals, FiniteSets, Sequences, SequencesExt, FiniteSetsExt

CONSTANTS
  Friends,        \* the other Tox users
  Saved,          \* who is a friend in the savedata at first
  MaxMsg,         \* bound: payloads sent
  MaxStarts,      \* bound: runs of the process
  OutboxCapacity, \* TOX_OUTBOX_CAPACITY
  RequestCapacity,\* PENDING_REQUESTS_CAPACITY
  CallbackCapacity, \* EVENT_QUEUE_CAPACITY
  Requesters,     \* who sends friend requests
  DiskMayFail,    \* may a write of the file fail
  Nobody          \* a task that is not working on a friend

ASSUME ToxQueueAssumption ==
  /\ Saved \subseteq Friends /\ Requesters \subseteq Friends /\ Nobody \notin Friends
  /\ MaxMsg \in Nat /\ MaxStarts \in Nat \ {0} /\ DiskMayFail \in BOOLEAN
  /\ OutboxCapacity \in Nat /\ RequestCapacity \in Nat /\ CallbackCapacity \in Nat

Payloads == 1..MaxMsg
Tasks == {"actor", "bridge"}

VARIABLES
  process,  \* the runs so far, and is one in progress
  saved,    \* the friend list in the savedata
  disk,     \* tox-state.json
  known,    \* toxcore's friend list
  online,   \* the friends toxcore is connected to
  callbacks, \* callbacks the bridge has not taken
  table,    \* the transport's friend table
  requests, \* unanswered friend requests
  outbox,   \* payloads for each friend, in delivery order
  nextId,   \* next_message_id
  lock,     \* who holds the store's write lock, and its snapshot
  task,     \* where the actor and the bridge stand
  aged,     \* payloads up to this one are older than TOX_OUTBOX_TTL
  next,     \* history: the next payload
  told,     \* history: what the sender was told of each payload
  idOf,     \* history: the id each payload was given
  sent,     \* history: what toxcore took from the outbox in this run
  settled,  \* history: the payloads toxcore took or that expired
  failed    \* history: has a write of the file failed

tox == <<known, online, callbacks>>
memory == <<table, requests, outbox, nextId>>
history == <<aged, next, told, idOf, sent, settled, failed>>
queueVars == <<process, saved, disk, tox, memory, lock, task, history>>

Idle == [at |-> "idle", friend |-> Nobody, op |-> "none", seen |-> {}, hand |-> 0, changed |-> FALSE]
EmptyFile == [requests |-> {}, outbox |-> [f \in Friends |-> <<>>], nextId |-> 1]
File == [requests : SUBSET Friends, outbox : [Friends -> Seq(Payloads)], nextId : 1..MaxMsg + 1]
Unlocked == [by |-> "nobody", file |-> EmptyFile]

(* The places a retain keeps, in their order.                              *)
InOrder(places) ==
  CHOOSE p \in [1..Cardinality(places) -> places] :
    \A i, j \in 1..Cardinality(places) : i < j => p[i] < p[j]

(* retain: the entries younger than the time to live.                      *)
Fresh(queue) ==
  LET young == {i \in 1..Len(queue) : queue[i] > aged} IN
  [i \in 1..Cardinality(young) |-> queue[InOrder(young)[i]]]
Contents(queues) == UNION {ToSet(queues[f]) : f \in Friends}
Held == Contents(outbox) \cup ({task["bridge"].hand} \ {0})

QueueTypeOK ==
  /\ process \in [count : 1..MaxStarts, up : BOOLEAN, stopping : BOOLEAN]
  /\ saved \subseteq Friends /\ known \subseteq Friends /\ online \subseteq known
  /\ disk \in File /\ nextId \in 1..MaxMsg + 1
  /\ callbacks \in Seq([kind : {"request", "online", "offline"}, friend : Friends])
  /\ Len(callbacks) <= CallbackCapacity
  /\ table \subseteq Friends /\ requests \subseteq Friends
  /\ outbox \in [Friends -> Seq(Payloads)]
  /\ lock \in [by : Tasks \cup {"nobody"}, file : File]
  /\ task \in [Tasks -> [at : {"idle", "seed", "store", "prune", "flush", "send", "refused",
                              "push", "spend", "persist", "write"},
                        friend : Friends \cup {Nobody},
                        op : {"none", "start", "send", "reject", "request", "accept", "tick",
                              "online", "offline"},
                        seen : SUBSET Friends,
                        hand : Payloads \cup {0}, changed : BOOLEAN]]
  /\ aged \in 0..MaxMsg /\ next \in 1..MaxMsg + 1
  /\ told \in [Payloads -> {"nothing", "sent", "queued", "dropped"}]
  /\ idOf \in [Payloads -> 0..MaxMsg]
  /\ sent \in [Friends -> Seq(Payloads)]
  /\ settled \subseteq Payloads /\ failed \in BOOLEAN

(* The state ToxTransport::new leaves on the first run: there is no file,  *)
(* and the bridge was spawned and is about to seed the friend table.       *)
QueueInit ==
  /\ process = [count |-> 1, up |-> TRUE, stopping |-> FALSE]
  /\ saved = Saved /\ known = Saved /\ online = {} /\ callbacks = <<>>
  /\ disk = EmptyFile
  /\ table = {} /\ requests = {} /\ outbox = [f \in Friends |-> <<>>] /\ nextId = 1
  /\ lock = Unlocked
  /\ task = [actor |-> Idle, bridge |-> [Idle EXCEPT !.at = "seed", !.op = "start"]]
  /\ aged = 0 /\ next = 1
  /\ told = [b \in Payloads |-> "nothing"] /\ idOf = [b \in Payloads |-> 0]
  /\ sent = [f \in Friends |-> <<>>] /\ settled = {} /\ failed = FALSE

At(t, stage) == process.up /\ task[t].at = stage
Goes(t, stage) == task' = [task EXCEPT ![t].at = stage]
Ends(t) == task' = [task EXCEPT ![t] = Idle]

-----------------------------------------------------------------------------
(* toxcore, on its worker thread                                           *)

(* send_event: a full hand-off loses the newest callback.                  *)
Raise(kind, f) == callbacks' =
  IF Len(callbacks) < CallbackCapacity
  THEN Append(callbacks, [kind |-> kind, friend |-> f]) ELSE callbacks

ComesOnline(f) ==
  /\ process.up /\ f \in known \ online
  /\ online' = online \cup {f}
  /\ Raise("online", f)
  /\ UNCHANGED <<process, saved, disk, known, memory, lock, task, history>>

GoesOffline(f) ==
  /\ process.up /\ f \in online
  /\ online' = online \ {f}
  /\ Raise("offline", f)
  /\ UNCHANGED <<process, saved, disk, known, memory, lock, task, history>>

(* A friend request arrives; toxcore keeps no record of it.                *)
Requested(f) ==
  /\ process.up /\ f \in Requesters \ known
  /\ Raise("request", f)
  /\ UNCHANGED <<process, saved, disk, known, online, memory, lock, task, history>>

-----------------------------------------------------------------------------
(* The file                                                                *)

(* ToxStore::update, to its snapshot: the write lock is taken first. The   *)
(* two tables are read one after the other; no operation changes both, so  *)
(* the other task cannot be caught between them. A queue whose friend is   *)
(* not in the friend table is skipped.                                     *)
Snapshot(t) ==
  /\ At(t, "persist") /\ lock.by = "nobody"
  /\ lock' = [by |-> t, file |->
       [requests |-> requests, nextId |-> nextId,
        outbox |-> [f \in Friends |-> IF f \in table THEN outbox[f] ELSE <<>>]]]
  /\ Goes(t, "write")
  /\ UNCHANGED <<process, saved, disk, tox, memory, history>>

(* What follows a persist: accept_request refreshes the friend table, a    *)
(* send reports Queued, everything else is over.                           *)
AfterPersist(t) ==
  /\ IF task[t].op = "accept" THEN Goes(t, "seed") ELSE Ends(t)
  /\ told' = IF task[t].op = "send" THEN [told EXCEPT ![next - 1] = "queued"] ELSE told

(* The temporary file replaces the old one, or any step of it fails, which *)
(* is only logged.                                                         *)
Publish(t) ==
  /\ At(t, "write")
  /\ disk' = lock.file
  /\ lock' = Unlocked
  /\ AfterPersist(t)
  /\ UNCHANGED <<process, saved, tox, memory, aged, next, idOf, sent, settled, failed>>

WriteFails(t) ==
  /\ At(t, "write") /\ DiskMayFail
  /\ failed' = TRUE
  /\ lock' = Unlocked
  /\ AfterPersist(t)
  /\ UNCHANGED <<process, saved, disk, tox, memory, aged, next, idOf, sent, settled>>

-----------------------------------------------------------------------------
(* The friend table: a snapshot is asked of the worker, then stored        *)

Seed(t) ==
  /\ At(t, "seed")
  /\ task' = [task EXCEPT ![t].seen = known, ![t].at = "store"]
  /\ UNCHANGED <<process, saved, disk, tox, memory, lock, history>>

Store(t) ==
  /\ At(t, "store")
  /\ table' = task[t].seen
  /\ IF task[t].op = "online" THEN Goes(t, "prune") ELSE Ends(t)
  /\ UNCHANGED <<process, saved, disk, tox, requests, outbox, nextId, lock, history>>

(* prune_outbox: every friend's queue.                                     *)
PruneAll ==
  /\ outbox' = [f \in Friends |-> Fresh(outbox[f])]
  /\ settled' = settled \cup {b \in Contents(outbox) : b <= aged}
HasExpired == \E b \in Contents(outbox) : b <= aged

-----------------------------------------------------------------------------
(* The actor                                                               *)

(* send_payload, to toxcore's answer. The friend must be in the table; who *)
(* is online is sent to at once, for who is not the payload is kept.       *)
SendPayload(f) ==
  /\ At("actor", "idle") /\ ~process.stopping /\ next <= MaxMsg
  /\ f \in table
  /\ IF f \in online
     THEN next' = next + 1 /\ told' = [told EXCEPT ![next] = "sent"] /\ UNCHANGED task
     ELSE /\ task' = [task EXCEPT !["actor"].at = "refused", !["actor"].friend = f,
                                  !["actor"].op = "send"]
          /\ UNCHANGED <<next, told>>
  /\ UNCHANGED <<process, saved, disk, tox, memory, lock, aged, idOf, sent, settled, failed>>

(* enqueue: what is too old goes first                                     *)
PruneFirst ==
  /\ At("actor", "refused")
  /\ PruneAll
  /\ Goes("actor", "push")
  /\ UNCHANGED <<process, saved, disk, tox, table, requests, nextId, lock, aged, next, told,
                 idOf, sent, failed>>

(* ... then the payload takes an id and its place, or there is none left.  *)
Push ==
  LET f == task["actor"].friend IN
  /\ At("actor", "push")
  /\ nextId' = nextId + 1
  /\ next' = next + 1
  /\ IF Len(outbox[f]) >= OutboxCapacity
     THEN told' = [told EXCEPT ![next] = "dropped"] /\ Ends("actor") /\ UNCHANGED <<outbox, idOf>>
     ELSE /\ outbox' = [outbox EXCEPT ![f] = Append(@, next)]
          /\ idOf' = [idOf EXCEPT ![next] = nextId]
          /\ Goes("actor", "persist") /\ UNCHANGED told
  /\ UNCHANGED <<process, saved, disk, tox, table, requests, lock, aged, sent, settled, failed>>

(* Fault: a rejected request stays in the file.                            *)
RejectUnwritten(f) ==
  /\ At("actor", "idle") /\ ~process.stopping /\ f \in requests
  /\ requests' = requests \ {f}
  /\ UNCHANGED <<process, saved, disk, tox, table, outbox, nextId, lock, task, history>>

(* reject_request                                                          *)
Reject(f) ==
  /\ At("actor", "idle") /\ ~process.stopping /\ f \in requests
  /\ requests' = requests \ {f}
  /\ task' = [task EXCEPT !["actor"].at = "persist", !["actor"].op = "reject"]
  /\ UNCHANGED <<process, saved, disk, tox, table, outbox, nextId, lock, history>>

(* request_peer: toxcore makes a friend of who is none yet; like every     *)
(* change of its friend list this is written only when the worker ends.    *)
RequestPeer(f) ==
  /\ At("actor", "idle") /\ ~process.stopping /\ f \in Friends \ known
  /\ known' = known \cup {f}
  /\ task' = [task EXCEPT !["actor"].at = "seed", !["actor"].op = "request"]
  /\ UNCHANGED <<process, saved, disk, online, callbacks, memory, lock, history>>

(* accept_request: toxcore makes the requester a friend, unless it is one  *)
Accept(f) ==
  /\ At("actor", "idle") /\ ~process.stopping /\ f \in requests \ known
  /\ known' = known \cup {f}
  /\ task' = [task EXCEPT !["actor"].at = "spend", !["actor"].friend = f,
                          !["actor"].op = "accept"]
  /\ UNCHANGED <<process, saved, disk, online, callbacks, memory, lock, history>>

(* ... and only then is the request spent.                                 *)
Spend ==
  /\ At("actor", "spend")
  /\ requests' = requests \ {task["actor"].friend}
  /\ Goes("actor", "persist")
  /\ UNCHANGED <<process, saved, disk, tox, table, outbox, nextId, lock, history>>

(* queued_messages, once per tick of the core.                             *)
Tick ==
  /\ At("actor", "idle") /\ ~process.stopping /\ HasExpired
  /\ PruneAll
  /\ task' = [task EXCEPT !["actor"].at = "persist", !["actor"].op = "tick"]
  /\ UNCHANGED <<process, saved, disk, tox, table, requests, nextId, lock, aged, next, told,
                 idOf, sent, failed>>

-----------------------------------------------------------------------------
(* The bridge                                                              *)

(* forward_event of a friend request: kept unless it is, or there is no    *)
(* room; only a kept one is written.                                       *)
HearRequest ==
  LET f == Head(callbacks).friend
      kept == f \notin requests /\ Cardinality(requests) < RequestCapacity IN
  /\ At("bridge", "idle") /\ ~process.stopping
  /\ callbacks # <<>> /\ Head(callbacks).kind = "request"
  /\ callbacks' = Tail(callbacks)
  /\ requests' = IF kept THEN requests \cup {f} ELSE requests
  /\ task' = [task EXCEPT !["bridge"].at = IF kept THEN "persist" ELSE "idle"]
  /\ UNCHANGED <<process, saved, disk, known, online, table, outbox, nextId, lock, history>>

(* ... of a friend's connection: the friend table is refreshed first       *)
HearConnection ==
  /\ At("bridge", "idle") /\ ~process.stopping
  /\ callbacks # <<>> /\ Head(callbacks).kind # "request"
  /\ callbacks' = Tail(callbacks)
  /\ task' = [task EXCEPT !["bridge"].at = "seed", !["bridge"].op = Head(callbacks).kind,
                          !["bridge"].friend = Head(callbacks).friend]
  /\ UNCHANGED <<process, saved, disk, known, online, memory, lock, history>>

(* ... then what is too old goes                                           *)
PruneOnline ==
  /\ At("bridge", "prune")
  /\ PruneAll
  /\ task' = [task EXCEPT !["bridge"].at = "flush", !["bridge"].changed = HasExpired]
  /\ UNCHANGED <<process, saved, disk, tox, table, requests, nextId, lock, aged, next, told,
                 idOf, sent, failed>>

(* ... then flush_outbox takes one payload after the other                 *)
Pop ==
  LET f == task["bridge"].friend IN
  /\ At("bridge", "flush") /\ outbox[f] # <<>>
  /\ outbox' = [outbox EXCEPT ![f] = Tail(@)]
  /\ task' = [task EXCEPT !["bridge"].at = "send", !["bridge"].hand = Head(outbox[f])]
  /\ UNCHANGED <<process, saved, disk, tox, table, requests, nextId, lock, history>>

(* Fault: a delivery is not counted as a change.                           *)
HandOverUncounted ==
  LET f == task["bridge"].friend
      b == task["bridge"].hand IN
  /\ At("bridge", "send") /\ f \in online
  /\ sent' = [sent EXCEPT ![f] = Append(@, b)]
  /\ settled' = settled \cup {b}
  /\ task' = [task EXCEPT !["bridge"].at = "flush", !["bridge"].hand = 0]
  /\ UNCHANGED <<process, saved, disk, tox, memory, lock, aged, next, told, idOf, failed>>

(* ... and hands it to toxcore                                             *)
HandOver ==
  LET f == task["bridge"].friend
      b == task["bridge"].hand IN
  /\ At("bridge", "send") /\ f \in online
  /\ sent' = [sent EXCEPT ![f] = Append(@, b)]
  /\ settled' = settled \cup {b}
  /\ task' = [task EXCEPT !["bridge"].at = "flush", !["bridge"].hand = 0,
                          !["bridge"].changed = TRUE]
  /\ UNCHANGED <<process, saved, disk, tox, memory, lock, aged, next, told, idOf, failed>>

(* Fault: a payload that was refused goes to the end of the queue.         *)
PutBackLast ==
  LET f == task["bridge"].friend IN
  /\ At("bridge", "send") /\ f \notin online
  /\ outbox' = [outbox EXCEPT ![f] = Append(@, task["bridge"].hand)]
  /\ task' = [task EXCEPT !["bridge"] = IF task["bridge"].changed
       THEN [Idle EXCEPT !.at = "persist"] ELSE Idle]
  /\ UNCHANGED <<process, saved, disk, tox, table, requests, nextId, lock, history>>

(* Fault: a payload that was refused is not put back.                      *)
PutBackForgotten ==
  /\ At("bridge", "send") /\ task["bridge"].friend \notin online
  /\ task' = [task EXCEPT !["bridge"] = IF task["bridge"].changed
       THEN [Idle EXCEPT !.at = "persist"] ELSE Idle]
  /\ UNCHANGED <<process, saved, disk, tox, memory, lock, history>>

(* ... or puts it back in front, which ends the flush.                     *)
PutBack ==
  LET f == task["bridge"].friend IN
  /\ At("bridge", "send") /\ f \notin online
  /\ outbox' = [outbox EXCEPT ![f] = <<task["bridge"].hand>> \o @]
  /\ task' = [task EXCEPT !["bridge"] = IF task["bridge"].changed
       THEN [Idle EXCEPT !.at = "persist"] ELSE Idle]
  /\ UNCHANGED <<process, saved, disk, tox, table, requests, nextId, lock, history>>

FlushEnds ==
  /\ At("bridge", "flush") /\ outbox[task["bridge"].friend] = <<>>
  /\ task' = [task EXCEPT !["bridge"] = IF task["bridge"].changed
       THEN [Idle EXCEPT !.at = "persist"] ELSE Idle]
  /\ UNCHANGED <<process, saved, disk, tox, memory, lock, history>>

-----------------------------------------------------------------------------
(* The process                                                             *)

(* All that is left of a run is the two files.                             *)
Gone ==
  /\ process' = [process EXCEPT !.up = FALSE, !.stopping = FALSE]
  /\ online' = {} /\ callbacks' = <<>>
  /\ table' = {} /\ requests' = {} /\ outbox' = [f \in Friends |-> <<>>]
  /\ lock' = Unlocked
  /\ task' = [t \in Tasks |-> Idle]
  /\ sent' = [f \in Friends |-> <<>>]

ProcessDies ==
  /\ process.up
  /\ Gone
  /\ UNCHANGED <<saved, disk, known, nextId, aged, next, told, idOf, settled, failed>>

(* shutdown: the bridge is told to stop and finishes its callback          *)
StopBridge ==
  /\ At("actor", "idle") /\ ~process.stopping
  /\ process' = [process EXCEPT !.stopping = TRUE]
  /\ UNCHANGED <<saved, disk, tox, memory, lock, task, history>>

(* ... and the worker writes the savedata before it ends.                  *)
Stopped ==
  /\ process.stopping /\ At("bridge", "idle")
  /\ saved' = known
  /\ Gone
  /\ UNCHANGED <<disk, known, nextId, aged, next, told, idOf, settled, failed>>

(* restore_state: what is still addressable and young, up to the capacity. *)
Restored(f) == IF f \notin saved THEN <<>> ELSE
  SubSeq(Fresh(disk.outbox[f]), 1,
         Min({OutboxCapacity, Len(Fresh(disk.outbox[f]))}))

(* Fault: the ids begin again at one.                                      *)
RestartFromOne ==
  /\ ~process.up /\ process.count < MaxStarts
  /\ process' = [count |-> process.count + 1, up |-> TRUE, stopping |-> FALSE]
  /\ known' = saved
  /\ table' = IF disk.requests = {} /\ Contents(disk.outbox) = {} THEN {} ELSE saved
  /\ requests' = disk.requests
  /\ outbox' = [f \in Friends |-> Restored(f)]
  /\ nextId' = 1
  /\ task' = [task EXCEPT !["bridge"].at = "seed", !["bridge"].op = "start"]
  /\ settled' = settled \cup {b \in Contents(disk.outbox) : b <= aged}
  /\ UNCHANGED <<saved, disk, online, callbacks, lock, aged, next, told, idOf, sent, failed>>

(* ToxTransport::new. The next id is past every stored one. Only a file    *)
(* with something in it seeds the friend table at once.                    *)
Restart ==
  /\ ~process.up /\ process.count < MaxStarts
  /\ process' = [count |-> process.count + 1, up |-> TRUE, stopping |-> FALSE]
  /\ known' = saved
  /\ table' = IF disk.requests = {} /\ Contents(disk.outbox) = {} THEN {} ELSE saved
  /\ requests' = disk.requests
  /\ outbox' = [f \in Friends |-> Restored(f)]
  /\ nextId' = Max({disk.nextId} \cup {idOf[b] + 1 : b \in Contents(disk.outbox)})
  /\ task' = [task EXCEPT !["bridge"].at = "seed", !["bridge"].op = "start"]
  /\ settled' = settled \cup {b \in Contents(disk.outbox) : b <= aged}
  /\ UNCHANGED <<saved, disk, online, callbacks, lock, aged, next, told, idOf, sent, failed>>

(* Time passes for what was queued.                                        *)
Age ==
  /\ \E t \in Payloads : aged < t /\ t < next /\ aged' = t
  /\ UNCHANGED <<process, saved, disk, tox, memory, lock, task, next, told, idOf, sent,
                 settled, failed>>

QueueNext ==
  \/ \E f \in Friends : ComesOnline(f) \/ GoesOffline(f) \/ Requested(f)
  \/ \E f \in Friends : SendPayload(f) \/ RequestPeer(f) \/ Reject(f) \/ Accept(f)
  \/ \E t \in Tasks : Snapshot(t) \/ Publish(t) \/ WriteFails(t) \/ Seed(t) \/ Store(t)
  \/ PruneFirst \/ Push \/ Spend \/ Tick
  \/ HearRequest \/ HearConnection \/ PruneOnline \/ Pop \/ HandOver \/ PutBack \/ FlushEnds
  \/ ProcessDies \/ StopBridge \/ Stopped \/ Restart \/ Age

QueueSpec == QueueInit /\ [][QueueNext]_queueVars

-----------------------------------------------------------------------------
(* Properties                                                              *)

Waiting == {b \in Payloads : told[b] = "queued"} \ settled
(* Nobody is between a change and its write.                               *)
Quiet == process.up /\ \A t \in Tasks : task[t].at \in {"idle", "seed", "store"}

(* The payloads for one friend leave in the order they were queued, each   *)
(* once in a run: "The flush stops at the first failure so ordering is     *)
(* preserved and the remainder stays queued", whatever is enqueued while   *)
(* the bridge holds one, and across a restart.                             *)
FlushedInOrder == \A f \in Friends :
  LET holding == IF task["bridge"].friend = f /\ task["bridge"].hand # 0
                 THEN <<task["bridge"].hand>> ELSE <<>>
      queue == sent[f] \o holding \o outbox[f] IN
  \A i, j \in 1..Len(queue) : i < j => queue[i] < queue[j]

(* A request that was answered is not offered again after a restart, and   *)
(* one that was not still is: at rest the file has exactly the live list.  *)
RequestsAgree == Quiet /\ ~failed => disk.requests = requests

(* A payload toxcore took is not offered again after a restart: "or a      *)
(* restart would offer a delivered payload again".                         *)
DeliveredIsForgotten == Quiet /\ ~failed =>
  \A f \in Friends : ToSet(disk.outbox[f]) \cap ToSet(sent[f]) = {}

(* A delivery id "names one payload for the lifetime of the queue": no two *)
(* payloads that wait, in memory or in the file, share one.                *)
IdNamesOne ==
  \A b, d \in Held \cup Contents(disk.outbox) : idOf[b] = idOf[d] => b = d

(* The state is well-typed, and what the file says at rest is what the      *)
(* session knows: nothing delivered or answered is offered again, and ids   *)
(* stay apart.                                                              *)
FileAgrees == QueueTypeOK /\ DeliveredIsForgotten /\ RequestsAgree /\ IdNamesOne

-----------------------------------------------------------------------------
(* The promise this implements: who is in line, and what the file keeps.   *)

Offered(f) == IF task["bridge"].friend = f THEN {task["bridge"].hand} \ {0} ELSE {}

Mail == INSTANCE FriendMail WITH
  Capacity <- OutboxCapacity, up <- process.up, friends <- saved,
  status <- [b \in Payloads |-> IF idOf[b] # 0 THEN "kept" ELSE told[b]],
  line <- [f \in Friends |-> Offered(f) \cup ToSet(outbox[f])],
  took <- [f \in Friends |-> ToSet(sent[f])],
  copying <- (lock.by # "nobody"),
  copy <- [f \in Friends |-> ToSet(lock.file.outbox[f])],
  file <- [f \in Friends |-> ToSet(disk.outbox[f])]

(* A payload for a friend who is away is refused only when 32 wait, leaves  *)
(* only to toxcore, in order, or for its age; the file holds the line of    *)
(* one moment but for the payload being offered, and a run begins with it.  *)
KeepsMail == Mail!Spec
=============================================================================

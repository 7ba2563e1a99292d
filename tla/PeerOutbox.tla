----------------------------- MODULE PeerOutbox -----------------------------
(***************************************************************************)
(* The message half of the TCP transport (network.rs): how a message finds *)
(* the connections of its addressee, and the outbox that keeps it while    *)
(* there are none.                                                         *)
(*                                                                         *)
(*   actor       the core: looks a nickname up under the registry lock,    *)
(*               then, after releasing it, sends to what it found or       *)
(*               appends to the outbox under the outbox lock               *)
(*   readers     a greeting names the connection under the registry lock,  *)
(*               then takes the whole queue of that nickname under the     *)
(*               outbox lock, then hands it over entry by entry, then puts *)
(*               back what it could not hand over                          *)
(*   writers     drain each connection's bounded queue into its socket     *)
(*   supervisor  prunes what is too old                                    *)
(*                                                                         *)
(* A message is its id. Nicknames are equal when they are equal ignoring   *)
(* case. The order inside a queue is not modelled: both kinds of queue are *)
(* sets. Frames other than messages take room in a connection's queue as   *)
(* a smaller QueueCapacity does. A remote has one connection at a time     *)
(* here; PeerConnections has the exceptions.                               *)
(***************************************************************************)
EXTENDS Naturals, FiniteSets

CONSTANTS
  Names,          \* the nicknames peers announce
  Conns,          \* connections
  Faulty,         \* connections whose socket may fail under the writer
  MaxMsg,         \* bound: messages sent in one behaviour
  OutboxCapacity, \* OUTBOX_CAPACITY
  QueueCapacity,  \* PEER_QUEUE_CAPACITY
  NoName,         \* `None` of Peer::nickname, and the addressee of a broadcast
  Absent          \* a connection that is not in the registry

ASSUME OutboxAssumption ==
  /\ MaxMsg \in Nat /\ OutboxCapacity \in Nat /\ QueueCapacity \in Nat
  /\ Faulty \subseteq Conns
  /\ NoName \notin Names /\ Absent \notin Names /\ NoName # Absent

Ids == 1..MaxMsg

VARIABLES
  down,    \* has shutdown run
  nextId,  \* next_message_id
  name,    \* the registry: each connection's nickname, NoName, or Absent
  reader,  \* where each connection's reader stands
  open,    \* does the connection's writer still receive
  queue,   \* the messages in each connection's bounded queue
  outbox,  \* the messages waiting for each nickname
  batch,   \* what a reader took out of the outbox and still holds
  call,    \* the send in progress: its addressee and the senders it cloned
  aged,    \* messages up to this one are older than OUTBOX_TTL
  told,    \* what the caller was told of each message
  to,      \* history: each message's addressee
  handed,  \* history: the connections whose queue each message entered
  expired, \* the messages outbox_expired counts
  cleared  \* history: what shutdown cleared out of the outbox

vars == <<down, nextId, name, reader, open, queue, outbox, batch, call, aged,
          told, to, handed, expired, cleared>>

NoCall == [busy |-> FALSE, to |-> NoName, senders |-> {}]

TypeOK ==
  /\ down \in BOOLEAN
  /\ nextId \in 1..MaxMsg + 1
  /\ name \in [Conns -> Names \cup {NoName, Absent}]
  /\ reader \in [Conns -> {"gone", "reading", "named", "handing"}]
  /\ open \in [Conns -> BOOLEAN]
  /\ queue \in [Conns -> SUBSET Ids]
  /\ outbox \in [Names -> SUBSET Ids]
  /\ batch \in [Conns -> SUBSET Ids]
  /\ call \in [busy : BOOLEAN, to : Names \cup {NoName}, senders : SUBSET Conns]
  /\ aged \in 0..MaxMsg
  /\ told \in [Ids -> {"nothing", "sent", "queued", "dropped"}]
  /\ to \in [Ids -> Names \cup {NoName}]
  /\ handed \in [Ids -> SUBSET Conns]
  /\ expired \subseteq Ids /\ cleared \subseteq Ids

Init ==
  /\ down = FALSE
  /\ nextId = 1
  /\ name = [c \in Conns |-> Absent]
  /\ reader = [c \in Conns |-> "gone"]
  /\ open = [c \in Conns |-> FALSE]
  /\ queue = [c \in Conns |-> {}]
  /\ outbox = [n \in Names |-> {}]
  /\ batch = [c \in Conns |-> {}]
  /\ call = NoCall
  /\ aged = 0
  /\ told = [m \in Ids |-> "nothing"]
  /\ to = [m \in Ids |-> NoName]
  /\ handed = [m \in Ids |-> {}]
  /\ expired = {} /\ cleared = {}

(* try_send on a connection's queue succeeds.                              *)
HasRoom(c) == open[c] /\ Cardinality(queue[c]) < QueueCapacity

-----------------------------------------------------------------------------
(* The actor                                                               *)

(* send_ciphertext_to_peer and broadcast_ciphertext up to peer_senders:    *)
(* the queues of the matching peers are cloned, the registry is released.  *)
Look(n, matching) ==
  /\ ~call.busy /\ nextId <= MaxMsg
  /\ call' = [busy |-> TRUE, to |-> n, senders |-> matching]
  /\ UNCHANGED <<down, nextId, name, reader, open, queue, outbox, batch, aged,
                 told, to, handed, expired, cleared>>

LookUp(n) == Look(n, {c \in Conns : name[c] = n})
LookUpAll == Look(NoName, {c \in Conns : name[c] # Absent})

(* The end of a send: its id is taken, its caller told.                    *)
Return(outcome) ==
  /\ nextId' = nextId + 1
  /\ told' = [told EXCEPT ![nextId] = outcome]
  /\ to' = [to EXCEPT ![nextId] = call.to]
  /\ call' = NoCall

(* dispatch_to: every cloned queue is tried. What a full or closed queue   *)
(* does not take is shed: nothing keeps a copy.                            *)
Dispatch ==
  /\ call.busy /\ (call.senders # {} \/ call.to = NoName)
  /\ LET took == {c \in call.senders : HasRoom(c)} IN
       /\ queue' = [c \in Conns |-> IF c \in took THEN queue[c] \cup {nextId} ELSE queue[c]]
       /\ handed' = [handed EXCEPT ![nextId] = took]
  /\ Return("sent")
  /\ UNCHANGED <<down, name, reader, open, outbox, batch, aged, expired, cleared>>

(* enqueue: nobody announced the name when it was looked up.               *)
Enqueue ==
  /\ call.busy /\ call.senders = {} /\ call.to \in Names
  /\ LET full == Cardinality(outbox[call.to]) >= OutboxCapacity IN
       /\ outbox' = [outbox EXCEPT ![call.to] = IF full THEN @ ELSE @ \cup {nextId}]
       /\ Return(IF full THEN "dropped" ELSE "queued")
  /\ UNCHANGED <<down, name, reader, open, queue, batch, aged, handed, expired, cleared>>

-----------------------------------------------------------------------------
(* A connection's reader and writer                                        *)

(* register. The name of a connection is used again once its last one is   *)
(* drained and no send holds a clone of its queue.                         *)
Register(c) ==
  /\ reader[c] = "gone" /\ queue[c] = {} /\ c \notin call.senders
  /\ name' = [name EXCEPT ![c] = NoName]
  /\ reader' = [reader EXCEPT ![c] = "reading"]
  /\ open' = [open EXCEPT ![c] = TRUE]
  /\ UNCHANGED <<down, nextId, queue, outbox, batch, call, aged, told, to,
                 handed, expired, cleared>>

(* Fault: a greeting that repeats the name does not flush.                 *)
HelloOnce(c, n) ==
  /\ reader[c] = "reading"
  /\ name' = [name EXCEPT ![c] = n]
  /\ reader' = [reader EXCEPT ![c] = IF name[c] = n THEN "reading" ELSE "named"]
  /\ UNCHANGED <<down, nextId, open, queue, outbox, batch, call, aged, told, to,
                 handed, expired, cleared>>

(* dispatch of FRAME_HELLO: the entry is named. A peer may greet again,    *)
(* under the same name or another.                                         *)
Hello(c, n) ==
  /\ reader[c] = "reading"
  /\ name' = [name EXCEPT ![c] = n]
  /\ reader' = [reader EXCEPT ![c] = "named"]
  /\ UNCHANGED <<down, nextId, open, queue, outbox, batch, call, aged, told, to,
                 handed, expired, cleared>>

(* Fault: the queue is copied and left in the outbox.                      *)
TakeCopy(c) ==
  LET n == name[c]
      old == {m \in outbox[n] : m <= aged} IN
  /\ reader[c] = "named"
  /\ batch' = [batch EXCEPT ![c] = outbox[n] \ old]
  /\ expired' = expired \cup old
  /\ reader' = [reader EXCEPT ![c] = "handing"]
  /\ UNCHANGED <<down, nextId, name, open, queue, outbox, call, aged, told, to, handed, cleared>>

(* flush_outbox, first section: the queue is removed and partitioned.      *)
Take(c) ==
  LET n == name[c]
      old == {m \in outbox[n] : m <= aged} IN
  /\ reader[c] = "named"
  /\ outbox' = [outbox EXCEPT ![n] = {}]
  /\ batch' = [batch EXCEPT ![c] = outbox[n] \ old]
  /\ expired' = expired \cup old
  /\ reader' = [reader EXCEPT ![c] = "handing"]
  /\ UNCHANGED <<down, nextId, name, open, queue, call, aged, told, to, handed, cleared>>

(* ... then queue_to for one entry after the other                         *)
HandOver(c, m) ==
  /\ reader[c] = "handing" /\ m \in batch[c] /\ HasRoom(c)
  /\ queue' = [queue EXCEPT ![c] = @ \cup {m}]
  /\ batch' = [batch EXCEPT ![c] = @ \ {m}]
  /\ handed' = [handed EXCEPT ![m] = @ \cup {c}]
  /\ UNCHANGED <<down, nextId, name, reader, open, outbox, call, aged, told, to,
                 expired, cleared>>

(* Fault: what does not fit is not put back.                               *)
PutBackNothing(c) ==
  /\ reader[c] = "handing" /\ (batch[c] = {} \/ ~HasRoom(c))
  /\ batch' = [batch EXCEPT ![c] = {}]
  /\ reader' = [reader EXCEPT ![c] = "reading"]
  /\ UNCHANGED <<down, nextId, name, open, queue, outbox, call, aged, told, to, handed,
                 expired, cleared>>

(* ... until none is left, or one does not fit: the rest goes back.        *)
PutBack(c) ==
  /\ reader[c] = "handing" /\ (batch[c] = {} \/ ~HasRoom(c))
  /\ outbox' = [outbox EXCEPT ![name[c]] = @ \cup batch[c]]
  /\ batch' = [batch EXCEPT ![c] = {}]
  /\ reader' = [reader EXCEPT ![c] = "reading"]
  /\ UNCHANGED <<down, nextId, name, open, queue, call, aged, told, to, handed,
                 expired, cleared>>

(* write_loop: one frame into the socket; what is left in the queue of a   *)
(* connection that is gone is still received.                              *)
Write(c) ==
  /\ open[c]
  /\ \E m \in queue[c] : queue' = [queue EXCEPT ![c] = @ \ {m}]
  /\ UNCHANGED <<down, nextId, name, reader, open, outbox, batch, call, aged, told,
                 to, handed, expired, cleared>>

(* ... or the write fails: the writer ends and its queue with it.          *)
WriteFails(c) ==
  /\ c \in Faulty /\ open[c] /\ queue[c] # {}
  /\ open' = [open EXCEPT ![c] = FALSE]
  /\ queue' = [queue EXCEPT ![c] = {}]
  /\ UNCHANGED <<down, nextId, name, reader, outbox, batch, call, aged, told, to,
                 handed, expired, cleared>>

(* read_loop ends: the entry is removed. The reader is not in dispatch.    *)
Leave(c) ==
  /\ reader[c] = "reading"
  /\ name' = [name EXCEPT ![c] = Absent]
  /\ reader' = [reader EXCEPT ![c] = "gone"]
  /\ UNCHANGED <<down, nextId, open, queue, outbox, batch, call, aged, told, to,
                 handed, expired, cleared>>

-----------------------------------------------------------------------------
(* Time passes: queued_at follows the order of the ids, one caller sends.  *)
Age ==
  /\ \E t \in Ids : aged < t /\ t < nextId /\ aged' = t
  /\ UNCHANGED <<down, nextId, name, reader, open, queue, outbox, batch, call, told,
                 to, handed, expired, cleared>>

(* Fault: a message is pruned before its time to live is over.             *)
PruneEarly ==
  LET old == {m \in UNION {outbox[n] : n \in Names} : m <= aged + 1} IN
  /\ old # {}
  /\ outbox' = [n \in Names |-> outbox[n] \ old]
  /\ expired' = expired \cup old
  /\ UNCHANGED <<down, nextId, name, reader, open, queue, batch, call, aged, told,
                 to, handed, cleared>>

(* Fault: only the queues of announced nicknames are pruned.               *)
PruneAnnounced ==
  LET here == {n \in Names : \E c \in Conns : name[c] = n}
      old == {m \in UNION {outbox[n] : n \in here} : m <= aged} IN
  /\ old # {}
  /\ outbox' = [n \in Names |-> outbox[n] \ old]
  /\ expired' = expired \cup old
  /\ UNCHANGED <<down, nextId, name, reader, open, queue, batch, call, aged, told,
                 to, handed, cleared>>

(* prune_outbox, at every tick of the supervisor.                          *)
Prune ==
  LET old == {m \in UNION {outbox[n] : n \in Names} : m <= aged} IN
  /\ old # {}
  /\ outbox' = [n \in Names |-> outbox[n] \ old]
  /\ expired' = expired \cup old
  /\ UNCHANGED <<down, nextId, name, reader, open, queue, batch, call, aged, told,
                 to, handed, cleared>>

(* shutdown, which the core calls between two sends: the tasks are aborted *)
(* and the registry and the outbox cleared. A flush that is past its       *)
(* await finds no entry and puts back into an outbox nobody reads again.   *)
Shutdown ==
  /\ ~call.busy
  /\ down' = TRUE
  /\ cleared' = cleared \cup (UNION {outbox[n] : n \in Names}) \cup (UNION {batch[c] : c \in Conns})
  /\ outbox' = [n \in Names |-> {}]
  /\ batch' = [c \in Conns |-> {}]
  /\ name' = [c \in Conns |-> Absent]
  /\ reader' = [c \in Conns |-> "gone"]
  /\ open' = [c \in Conns |-> FALSE]
  /\ queue' = [c \in Conns |-> {}]
  /\ UNCHANGED <<nextId, call, aged, told, to, handed, expired>>

Next ==
  /\ ~down
  /\ \/ \E n \in Names : LookUp(n)
     \/ LookUpAll \/ Dispatch \/ Enqueue \/ Age \/ Prune \/ Shutdown
     \/ \E c \in Conns, n \in Names : Hello(c, n)
     \/ \E c \in Conns, m \in Ids : HandOver(c, m)
     \/ \E c \in Conns : Register(c) \/ Take(c) \/ PutBack(c) \/ Leave(c)
     \/ \E c \in Conns : Write(c) \/ WriteFails(c)

Spec == Init /\ [][Next]_vars

(* The tasks run: each step of a reader, of a writer, of the actor's send  *)
(* and of the supervisor's tick is taken if it stays possible. Nobody has  *)
(* to send, connect, greet or leave, and no message has to grow old.       *)
TasksRun ==
  /\ WF_vars(~down /\ Dispatch) /\ WF_vars(~down /\ Enqueue) /\ WF_vars(~down /\ Prune)
  /\ \A c \in Conns :
       /\ WF_vars(~down /\ Take(c)) /\ WF_vars(~down /\ PutBack(c))
       /\ WF_vars(~down /\ Write(c))
       /\ \A m \in Ids : WF_vars(~down /\ HandOver(c, m))

(* Every peer keeps greeting over a connection that does not fail.         *)
PeersReturn == \A n \in Names : \E c \in Conns \ Faulty :
  WF_vars(~down /\ Register(c)) /\ SF_vars(~down /\ Hello(c, n))

RunningSpec == Spec /\ TasksRun

-----------------------------------------------------------------------------
(* Properties                                                              *)

Stored == (UNION {outbox[n] : n \in Names}) \cup (UNION {batch[c] : c \in Conns})
Queued == {m \in Ids : told[m] = "queued"}
HandedOver == {m \in Ids : handed[m] # {}}
Waiting == Queued \ (HandedOver \cup expired \cup cleared)

(* A message its sender was told is Queued is still stored, or it was      *)
(* handed to a connection, or outbox_expired counts it, or shutdown        *)
(* discarded it: no interleaving of lookup, flush, put-back and prune      *)
(* drops one without a trace ("a message sent while the other side is      *)
(* offline is not lost").                                                  *)
NothingIsLost == Waiting \subseteq Stored

(* What is stored is only what still has to be delivered, in one place: a  *)
(* message handed over, counted as expired or never accepted is not kept,  *)
(* and no two flushes hold the same message, so none is delivered twice.   *)
StoredOnce ==
  /\ Stored \subseteq Waiting
  /\ \A c, d \in Conns : c # d => batch[c] \cap batch[d] = {}
  /\ \A n \in Names, c \in Conns : outbox[n] \cap batch[c] = {}
  /\ \A n, k \in Names : n # k => outbox[n] \cap outbox[k] = {}

(* Whatever waits is handed over or expires when its addressee keeps       *)
(* coming back and connections break no more, however often a flush met a  *)
(* full or a broken queue.                                                 *)
WaitingEnds == PeersReturn /\ <>[](\A c \in Conns : open[c])
  => \A m \in Ids : m \in Waiting ~> m \notin Waiting

(* A message older than OUTBOX_TTL does not stay in the outbox.            *)
OldIsPruned == \A m \in Ids :
  (m \in Waiting /\ m <= aged) ~> m \notin Waiting

(* A message waits for its addressee or for its age, and for nothing else.  *)
WaitingIsShort == WaitingEnds /\ OldIsPruned

-----------------------------------------------------------------------------
(* The promise this implements: where each message is, seen by its sender. *)

StatusOf(m) ==
  CASE told[m] = "nothing" -> "new"
    [] told[m] = "sent"    -> "sent"
    [] told[m] = "dropped" -> "refused"
    [] OTHER -> IF handed[m] # {} THEN "handed"
                ELSE IF m \in expired THEN "expired"
                ELSE IF m \in cleared THEN "discarded" ELSE "waiting"

Promise == INSTANCE Mailbox WITH
  status <- [m \in Ids |-> StatusOf(m)], carrier <- handed

(* A queued message is delivered at most once, to a connection announcing  *)
(* its addressee, or given up only when it is older than OUTBOX_TTL or the *)
(* transport is shut down; one that was refused is never delivered.        *)
KeepsPromise == Promise!Spec
=============================================================================

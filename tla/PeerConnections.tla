--------------------------- MODULE PeerConnections ---------------------------
(***************************************************************************)
(* The connection half of the TCP transport (meta-text-backend,            *)
(* network.rs): the peer registry, the desired peers and the four kinds of *)
(* task that write them.                                                   *)
(*                                                                         *)
(*   actor       the core, which dials on behalf of the user and is the    *)
(*               only consumer of the bounded event inbox                  *)
(*   supervisor  redials every desired address that is not resolved        *)
(*   acceptor    admits inbound sockets up to max_connections              *)
(*   readers     one per connection; it forgets the connection at its end  *)
(*                                                                         *)
(* Each action is one critical section of the code (a mutex guard's scope) *)
(* or one completed await; two tasks interleave between any two of them.   *)
(* Frames are abstracted to what they change here: a greeting names the    *)
(* entry, a keepalive arms the idle deadline, anything else is an event.   *)
(***************************************************************************)
EXTENDS Naturals, FiniteSets

CONSTANTS
  Addresses,      \* the configured "host:port" strings
  RemoteOf,       \* RemoteOf[a]: the socket address a resolves to
  Callers,        \* socket addresses of inbound peers
  Unreliable,     \* remotes that may refuse, drop, or fall silent
  Chatty,         \* remotes that keep sending after their greeting
  Boot,           \* --peer addresses still to be dialled by connect_all
  Wanted,         \* --peer addresses whose startup dial has already failed
  UserDials,      \* addresses a front-end may /connect to
  MaxConnections, \* max_connections
  InboxCapacity,  \* EVENT_INBOX_CAPACITY
  ConnBound,      \* bound: connections in existence at one time
  NoRemote,       \* `None` of DesiredPeer::resolved
  NoAddress       \* a task that is not working on an address

Remotes == Callers \cup {RemoteOf[a] : a \in Addresses}
Conns == 1..ConnBound
Tasks == {"actor", "supervisor", "acceptor"}
Background == {"supervisor", "acceptor"}
Dialers == {"actor", "supervisor"}

ASSUME ConstantsOK ==
  /\ RemoteOf \in [Addresses -> Remotes]
  /\ \A a \in Addresses : RemoteOf[a] \notin Callers
  /\ Unreliable \subseteq Remotes /\ Chatty \subseteq Remotes
  /\ Boot \subseteq Addresses /\ Wanted \subseteq Addresses
  /\ UserDials \subseteq Addresses
  /\ MaxConnections \in Nat /\ InboxCapacity \in Nat \ {0} /\ ConnBound \in Nat
  /\ NoRemote \notin Remotes /\ NoAddress \notin Addresses

VARIABLES
  mode,     \* "running", "closing" (inbox dropped), "closed" (after shutdown)
  boot,     \* the startup addresses connect_all has not dialled yet
  desired,  \* desired_peers: what is wanted and what it is resolved to
  peers,    \* the registry, keyed by remote address; conn = 0 is "no entry"
  conn,     \* one record per socket: remote, is the far side up, its reader
  at,       \* where each dialling or accepting task stands
  addr,     \* the address a dialler works on
  held,     \* the connection a task is registering, 0 for none
  pending,  \* the supervisor's snapshot of unresolved addresses
  inbox     \* events waiting for the core

vars == <<mode, boot, desired, peers, conn, at, addr, held, pending, inbox>>

Stages == {"free", "held", "reading", "delivering", "clearing", "reporting"}
Serving == {"reading", "delivering"}
NoEntry == [conn |-> 0, named |-> FALSE, keepalive |-> FALSE]
NoConn ==
  [remote |-> NoRemote, up |-> FALSE, stage |-> "free",
   hello |-> FALSE, greeted |-> FALSE, armed |-> FALSE]

TypeOK ==
  /\ mode \in {"running", "closing", "closed"}
  /\ boot \subseteq Addresses
  /\ desired \in [Addresses -> [wanted : BOOLEAN, resolved : Remotes \cup {NoRemote}]]
  /\ peers \in [Remotes -> [conn : Conns \cup {0}, named : BOOLEAN, keepalive : BOOLEAN]]
  /\ conn \in [Conns -> [remote : Remotes \cup {NoRemote}, up : BOOLEAN, stage : Stages,
                         hello : BOOLEAN, greeted : BOOLEAN, armed : BOOLEAN]]
  /\ at \in [Tasks -> {"waiting", "dialing", "connected", "announcing", "off"}]
  /\ addr \in [Tasks -> Addresses \cup {NoAddress}]
  /\ held \in [Tasks -> Conns \cup {0}]
  /\ pending \subseteq Addresses
  /\ inbox \in 0..InboxCapacity

(* The state after NetworkManager::start: both background tasks are       *)
(* spawned. Wanted addresses are those whose dial at startup failed.       *)
Init ==
  /\ mode = "running"
  /\ boot = Boot
  /\ desired = [a \in Addresses |-> [wanted |-> a \in Wanted, resolved |-> NoRemote]]
  /\ peers = [r \in Remotes |-> NoEntry]
  /\ conn = [c \in Conns |-> NoConn]
  /\ at = [t \in Tasks |-> "waiting"]
  /\ addr = [t \in Tasks |-> NoAddress]
  /\ held = [t \in Tasks |-> 0]
  /\ pending = {}
  /\ inbox = 0

Registered(c) == \E r \in Remotes : peers[r].conn = c
Free(c) == conn[c].stage = "free"
(* A new socket takes the least free number: the number is only a name.    *)
NextFree(c) == Free(c) /\ \A d \in Conns : Free(d) => c <= d
Open(r) == [NoConn EXCEPT !.remote = r, !.up = TRUE, !.stage = "held"]

(* Fault: an event is sent without waiting for room in the inbox.          *)
SendEventUnbounded == inbox' = IF mode = "running" THEN inbox + 1 ELSE inbox

(* event_sender.send(..).await: waits for room, and returns at once with   *)
(* an error when the core has dropped the receiver.                        *)
SendEvent ==
  \/ mode = "running" /\ inbox < InboxCapacity /\ inbox' = inbox + 1
  \/ mode # "running" /\ inbox' = inbox

-----------------------------------------------------------------------------
(* The actor                                                               *)

(* NetworkManager::connect up to its dial: the address becomes desired     *)
(* first. connect_all dials the startup addresses before the actor loop,   *)
(* a /connect runs inside it; nothing is consumed meanwhile either way.    *)
Connect(a) ==
  /\ mode = "running" /\ at["actor"] = "waiting"
  /\ IF boot # {} THEN a \in boot ELSE a \in UserDials
  /\ boot' = boot \ {a}
  /\ desired' = [desired EXCEPT ![a].wanted = TRUE]
  /\ at' = [at EXCEPT !["actor"] = "dialing"]
  /\ addr' = [addr EXCEPT !["actor"] = a]
  /\ UNCHANGED <<mode, peers, conn, held, pending, inbox>>

(* The actor loop takes one event.                                         *)
Consume ==
  /\ mode = "running" /\ at["actor"] = "waiting" /\ boot = {}
  /\ inbox > 0
  /\ inbox' = inbox - 1
  /\ UNCHANGED <<mode, boot, desired, peers, conn, at, addr, held, pending>>

(* Request::Shutdown, first half: the receiver is dropped, which releases  *)
(* every task that waits to hand over an event.                            *)
DropInbox ==
  /\ mode = "running" /\ at["actor"] = "waiting" /\ boot = {}
  /\ mode' = "closing"
  /\ inbox' = 0
  /\ UNCHANGED <<boot, desired, peers, conn, at, addr, held, pending>>

(* NetworkManager::shutdown: every tracked task is aborted and the three   *)
(* tables are cleared. abort() takes effect at the task's next await that  *)
(* is pending, so a background task that is running the synchronous part   *)
(* of register on another thread survives until then.                      *)
Shutdown ==
  /\ mode = "closing"
  /\ \E survivors \in SUBSET {t \in Background : at[t] \in {"connected", "announcing"}} :
       /\ at' = [t \in Tasks |-> IF t \in survivors THEN at[t] ELSE "off"]
       /\ conn' = [c \in Conns |->
            IF \E t \in survivors : at[t] = "connected" /\ held[t] = c
            THEN conn[c] ELSE NoConn]
  /\ mode' = "closed"
  /\ peers' = [r \in Remotes |-> NoEntry]
  /\ desired' = [a \in Addresses |-> [wanted |-> FALSE, resolved |-> NoRemote]]
  /\ pending' = {}
  /\ UNCHANGED <<boot, addr, held, inbox>>

-----------------------------------------------------------------------------
(* The supervisor                                                          *)

(* Fault: every desired address is copied, resolved ones too.              *)
TickAll ==
  /\ mode # "closed" /\ at["supervisor"] = "waiting" /\ pending = {}
  /\ pending' = {a \in Addresses : desired[a].wanted}
  /\ UNCHANGED <<mode, boot, desired, peers, conn, at, addr, held, inbox>>

(* Fault: the filter is inverted, only resolved addresses are copied.      *)
TickResolved ==
  /\ mode # "closed" /\ at["supervisor"] = "waiting" /\ pending = {}
  /\ pending' = {a \in Addresses : desired[a].wanted /\ desired[a].resolved # NoRemote}
  /\ UNCHANGED <<mode, boot, desired, peers, conn, at, addr, held, inbox>>

(* One tick: the unresolved desired addresses are copied under the lock.   *)
Tick ==
  /\ mode # "closed" /\ at["supervisor"] = "waiting" /\ pending = {}
  /\ pending' = {a \in Addresses : desired[a].wanted /\ desired[a].resolved = NoRemote}
  /\ UNCHANGED <<mode, boot, desired, peers, conn, at, addr, held, inbox>>

(* The next address of the copy is dialled; it is not looked up again.     *)
Redial(a) ==
  /\ mode # "closed" /\ at["supervisor"] = "waiting" /\ a \in pending
  /\ pending' = pending \ {a}
  /\ at' = [at EXCEPT !["supervisor"] = "dialing"]
  /\ addr' = [addr EXCEPT !["supervisor"] = a]
  /\ UNCHANGED <<mode, boot, desired, peers, conn, held, inbox>>

-----------------------------------------------------------------------------
(* Dialling, accepting and registering                                     *)

(* dial succeeded: the task holds a stream to the resolved remote.         *)
DialOk(t) ==
  /\ at[t] = "dialing"
  /\ \E c \in Conns :
       /\ NextFree(c)
       /\ conn' = [conn EXCEPT ![c] = Open(RemoteOf[addr[t]])]
       /\ held' = [held EXCEPT ![t] = c]
  /\ at' = [at EXCEPT ![t] = "connected"]
  /\ UNCHANGED <<mode, boot, desired, peers, addr, pending, inbox>>

(* dial failed or timed out; the attempt counter only words the log line.  *)
DialFails(t) ==
  /\ at[t] = "dialing"
  /\ RemoteOf[addr[t]] \in Unreliable
  /\ at' = [at EXCEPT ![t] = "waiting"]
  /\ addr' = [addr EXCEPT ![t] = NoAddress]
  /\ UNCHANGED <<mode, boot, desired, peers, conn, held, pending, inbox>>

Connected == {r \in Remotes : peers[r].conn # 0}

(* Fault: the limit admits one connection too many.                        *)
AcceptOneMore(r) ==
  /\ mode # "closed" /\ at["acceptor"] = "waiting"
  /\ Cardinality(Connected) <= MaxConnections
  /\ \A c \in Conns : conn[c].remote # r
  /\ \E c \in Conns :
       /\ NextFree(c)
       /\ conn' = [conn EXCEPT ![c] = Open(r)]
       /\ held' = [held EXCEPT !["acceptor"] = c]
  /\ at' = [at EXCEPT !["acceptor"] = "connected"]
  /\ UNCHANGED <<mode, boot, desired, peers, addr, pending, inbox>>

(* accept_loop: the limit is compared with the registry before register;   *)
(* a refused socket is dropped and leaves no trace. A caller's socket      *)
(* address is not reused while its last connection is still open here.     *)
Accept(r) ==
  /\ mode # "closed" /\ at["acceptor"] = "waiting"
  /\ Cardinality(Connected) < MaxConnections
  /\ \A c \in Conns : conn[c].remote # r
  /\ \E c \in Conns :
       /\ NextFree(c)
       /\ conn' = [conn EXCEPT ![c] = Open(r)]
       /\ held' = [held EXCEPT !["acceptor"] = c]
  /\ at' = [at EXCEPT !["acceptor"] = "connected"]
  /\ UNCHANGED <<mode, boot, desired, peers, addr, pending, inbox>>

(* register, the part before its first await: the entry is written over    *)
(* whatever that remote had, and the reader and the writer are spawned.    *)
Insert(t) ==
  /\ at[t] = "connected"
  /\ peers' = [peers EXCEPT ![conn[held[t]].remote] =
                 [conn |-> held[t], named |-> FALSE, keepalive |-> FALSE]]
  /\ conn' = [conn EXCEPT ![held[t]].stage = "reading"]
  /\ at' = [at EXCEPT ![t] = "announcing"]
  /\ UNCHANGED <<mode, boot, desired, addr, held, pending, inbox>>

(* mark_resolved: entry(address).or_default(), then the remote.            *)
MarkResolved(a, r) == [desired EXCEPT ![a] = [wanted |-> TRUE, resolved |-> r]]

(* register, from its announcement to its PeerConnected event, and the     *)
(* mark_resolved that follows without another await.                       *)
Announced(t) ==
  /\ at[t] = "announcing"
  /\ SendEvent
  /\ desired' = IF t \in Dialers THEN MarkResolved(addr[t], RemoteOf[addr[t]]) ELSE desired
  /\ at' = [at EXCEPT ![t] = IF mode = "closed" THEN "off" ELSE "waiting"]
  /\ addr' = [addr EXCEPT ![t] = NoAddress]
  /\ held' = [held EXCEPT ![t] = 0]
  /\ UNCHANGED <<mode, boot, peers, conn, pending>>

-----------------------------------------------------------------------------
(* The peer at the other end                                               *)

(* The writer of c ends once no sender is left: the registry no longer     *)
(* holds one and register has returned.                                    *)
WriterEnded(c) ==
  /\ ~Registered(c)
  /\ \A t \in Tasks : at[t] \in {"connected", "announcing"} => held[t] # c

(* The far side goes away by itself, or because it read our end of stream. *)
PeerCloses(c) ==
  /\ conn[c].up
  /\ conn[c].remote \in Unreliable \/ WriterEnded(c)
  /\ conn' = [conn EXCEPT ![c].up = FALSE]
  /\ UNCHANGED <<mode, boot, desired, peers, at, addr, held, pending, inbox>>

-----------------------------------------------------------------------------
(* The reader of one connection                                            *)

(* FRAME_HELLO with a displayable nickname: the entry at this remote, if   *)
(* there is one, is named; then the event is awaited. A greeting that is   *)
(* refused changes nothing, as if the peer had stayed silent.              *)
Hello(c) ==
  LET r == conn[c].remote IN
  /\ conn[c].stage = "reading" /\ conn[c].up
  /\ ~conn[c].hello \/ r \in Chatty
  /\ peers' = [peers EXCEPT ![r].named = @ \/ peers[r].conn # 0]
  /\ conn' = [conn EXCEPT ![c].stage = "delivering", ![c].hello = TRUE]
  /\ UNCHANGED <<mode, boot, desired, at, addr, held, pending, inbox>>

(* A message or an acknowledgement: one event for the core.                *)
Traffic(c) ==
  /\ conn[c].stage = "reading" /\ conn[c].up
  /\ conn[c].remote \in Chatty
  /\ conn' = [conn EXCEPT ![c].stage = "delivering"]
  /\ UNCHANGED <<mode, boot, desired, peers, at, addr, held, pending, inbox>>

(* dispatch returned. The reader re-reads the entry at its remote: a name  *)
(* ends the greeting deadline, a keepalive arms the idle one.              *)
Delivered(c) ==
  LET r == conn[c].remote IN
  /\ conn[c].stage = "delivering"
  /\ SendEvent
  /\ conn' = [conn EXCEPT ![c].stage = "reading",
                          ![c].greeted = @ \/ peers[r].named,
                          ![c].armed = @ \/ peers[r].keepalive]
  /\ UNCHANGED <<mode, boot, desired, peers, at, addr, held, pending>>

(* FRAME_KEEPALIVE: no event, so one step.                                 *)
Keepalive(c) ==
  LET r == conn[c].remote IN
  /\ conn[c].stage = "reading" /\ conn[c].up
  /\ r \in Chatty /\ ~conn[c].armed
  /\ peers' = [peers EXCEPT ![r].keepalive = @ \/ peers[r].conn # 0]
  /\ conn' = [conn EXCEPT ![c].armed = peers[r].conn # 0]
  /\ UNCHANGED <<mode, boot, desired, at, addr, held, pending, inbox>>

(* Fault: there is no greeting deadline, only the idle one.                *)
SilentIdle(c) == conn[c].remote \in Unreliable /\ conn[c].armed

(* A silent peer runs into the greeting deadline, or into the idle one     *)
(* once it has greeted and shown that it sends keepalives. A peer that did *)
(* greet runs into the former if no entry was there to take its name.      *)
Silent(c) ==
  \/ conn[c].remote \in Unreliable /\ (conn[c].greeted => conn[c].armed)
  \/ conn[c].hello /\ ~conn[c].greeted

(* Fault: the reader ends without removing its entry.                      *)
ReaderEndsOnly(c) ==
  /\ conn[c].stage = "reading"
  /\ ~conn[c].up \/ Silent(c)
  /\ conn' = [conn EXCEPT ![c].stage = "clearing", ![c].up = FALSE]
  /\ UNCHANGED <<mode, boot, desired, peers, at, addr, held, pending, inbox>>

(* Fault: the end of the stream is not noticed, only a deadline is.        *)
ReaderEndsLate(c) ==
  /\ conn[c].stage = "reading" /\ Silent(c)
  /\ peers' = [peers EXCEPT ![conn[c].remote] = NoEntry]
  /\ conn' = [conn EXCEPT ![c].stage = "clearing", ![c].up = FALSE]
  /\ UNCHANGED <<mode, boot, desired, at, addr, held, pending, inbox>>

(* read_loop leaves its loop and removes the entry at its remote.          *)
ReaderEnds(c) ==
  /\ conn[c].stage = "reading"
  /\ ~conn[c].up \/ Silent(c)
  /\ peers' = [peers EXCEPT ![conn[c].remote] = NoEntry]
  /\ conn' = [conn EXCEPT ![c].stage = "clearing", ![c].up = FALSE]
  /\ UNCHANGED <<mode, boot, desired, at, addr, held, pending, inbox>>

(* ... then every desired address resolved to that remote is unresolved    *)
ClearResolved(c) ==
  /\ conn[c].stage = "clearing"
  /\ desired' = [a \in Addresses |->
       IF desired[a].resolved = conn[c].remote
       THEN [desired[a] EXCEPT !.resolved = NoRemote] ELSE desired[a]]
  /\ conn' = [conn EXCEPT ![c].stage = "reporting"]
  /\ UNCHANGED <<mode, boot, peers, at, addr, held, pending, inbox>>

(* ... and the PeerDisconnected event is awaited.                          *)
ReportGone(c) ==
  /\ conn[c].stage = "reporting"
  /\ SendEvent
  /\ conn' = [conn EXCEPT ![c] = NoConn]
  /\ held' = [t \in Tasks |-> IF held[t] = c THEN 0 ELSE held[t]]
  /\ UNCHANGED <<mode, boot, desired, peers, at, addr, pending>>

-----------------------------------------------------------------------------
Next ==
  \/ \E a \in Addresses : Connect(a) \/ Redial(a)
  \/ Consume \/ DropInbox \/ Shutdown \/ Tick
  \/ \E t \in Dialers : DialOk(t) \/ DialFails(t)
  \/ \E r \in Callers : Accept(r)
  \/ \E t \in Tasks : Insert(t) \/ Announced(t)
  \/ \E c \in Conns : Hello(c) \/ Traffic(c) \/ Delivered(c) \/ Keepalive(c)
  \/ \E c \in Conns : PeerCloses(c) \/ ReaderEnds(c) \/ ClearResolved(c) \/ ReportGone(c)

Spec == Init /\ [][Next]_vars

(* Weak fairness: tokio polls every runnable task. Strong fairness of the  *)
(* sends: the inbox's semaphore serves its waiters in order; of Consume:   *)
(* select! chooses among its ready branches at random; of DialOk: a desired*)
(* peer that is dialled for ever is some day there; of the greeting        *)
(* deadline: no frame puts it off. The far side reads our end of stream,   *)
(* but need not go away by itself.                                         *)
Fairness ==
  /\ WF_vars(boot # {} /\ \E a \in Addresses : Connect(a))
  /\ SF_vars(Consume)
  /\ WF_vars(Tick)
  /\ \A a \in Addresses : WF_vars(Redial(a))
  /\ \A t \in Dialers : SF_vars(DialOk(t))
  /\ \A t \in Tasks : WF_vars(Insert(t)) /\ SF_vars(Announced(t))
  /\ \A c \in Conns :
       /\ WF_vars(conn[c].remote \notin Unreliable /\ ~conn[c].hello /\ Hello(c))
       /\ WF_vars(WriterEnded(c) /\ PeerCloses(c))
       /\ WF_vars(ReaderEnds(c)) /\ SF_vars(~conn[c].greeted /\ ReaderEnds(c))
       /\ WF_vars(ClearResolved(c))
       /\ SF_vars(Delivered(c)) /\ SF_vars(ReportGone(c))

FairSpec == Spec /\ Fairness

-----------------------------------------------------------------------------
(* Properties                                                              *)

(* Every registry entry is served by the live reader of the connection it  *)
(* names, under that connection's own address: read_loop is the only code  *)
(* that removes an entry, so one without a reader would hold one of        *)
(* max_connections, and be counted by /peers, for ever.                    *)
EntryHasReader ==
  \A r \in Remotes : peers[r].conn # 0 =>
    /\ conn[peers[r].conn].stage \in Serving
    /\ conn[peers[r].conn].remote = r

(* The inbound connections being served never exceed max_connections,      *)
(* although accept_loop compares the limit with the registry in one        *)
(* critical section and registers the socket in a later one.               *)
InboundLimited ==
  Cardinality({c \in Conns : conn[c].remote \in Callers /\ conn[c].stage \in Serving})
    <= MaxConnections

(* A reader that is serving a connection has its entry in the registry     *)
(* ("Registry of connected peers"): without one its peer cannot be named,  *)
(* addressed or acknowledged, and its slot is not counted. A remote the    *)
(* user dials is left out: connect never asks whether it is connected, and *)
(* the entry of a connection it replaces is gone while its reader drains.  *)
(* So is a remote of two addresses, which the supervisor dials for each.   *)
ReaderHasEntry ==
  \A c \in Conns :
    /\ conn[c].stage \in Serving
    /\ \A a \in Boot \cup UserDials : conn[c].remote # RemoteOf[a]
    /\ \A a, b \in Addresses : conn[c].remote = RemoteOf[a] /\ conn[c].remote = RemoteOf[b] => a = b
    => Registered(c)

Up(a) == \E c \in Conns :
  conn[c].remote = RemoteOf[a] /\ conn[c].stage \in Serving /\ Registered(c)

(* A connection whose far side is gone leaves the registry: the slot and   *)
(* the name it holds are given back.                                       *)
DeadIsForgotten ==
  \A c \in Conns : (conn[c].stage \in Serving /\ ~conn[c].up) ~> conn[c].stage = "free"

(* A connection that never becomes useful (its peer never greets) does not *)
(* keep its slot.                                                          *)
UngreetedIsReclaimed ==
  \A c \in Conns : (conn[c].stage \in Serving /\ ~conn[c].greeted)
    ~> (conn[c].greeted \/ conn[c].stage \notin Serving)

(* The desired connection of a peer that does not fail comes up and stays  *)
(* up, whatever the other peers do: the supervisor reaches every desired   *)
(* address, and never tears down what it established.                      *)
DesiredStaysUp ==
  <>[](mode # "running" \/ \A a \in Addresses :
         desired[a].wanted /\ RemoteOf[a] \notin Unreliable => Up(a))

(* The state is well-typed, the inbox within its capacity; every connection *)
(* being served has its entry, and callers hold no more than               *)
(* max_connections of them.                                                *)
SlotsAreCounted == TypeOK /\ ReaderHasEntry /\ InboundLimited

(* A slot is given back when its far side is gone, and when it never greets.*)
SlotsComeBack == DeadIsForgotten /\ UngreetedIsReclaimed
=============================================================================

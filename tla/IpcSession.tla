----------------------------- MODULE IpcSession -----------------------------
(***************************************************************************)
(* The core protocol over a socket (client.rs, server.rs): a front-end     *)
(* attaches, makes requests that may be many at once, receives replies and *)
(* events, is cut off or leaves, and attaches again from its address.      *)
(*                                                                         *)
(*   callers     tasks inside RemoteClient::request                        *)
(*   pump        the client's task: writes requests, routes what arrives   *)
(*   loop        serve_connection's select: budgets requests, passes       *)
(*               them on, forwards events                                  *)
(*   dispatcher  executes the requests of the connection one by one        *)
(*                                                                         *)
(* A chain of tasks and queues that only relays (reader task, socket       *)
(* buffers, writer task) is one bounded queue: up to the loop, down to the *)
(* pump. Sessions of one front-end do not overlap; what other connections  *)
(* take from the table of budgets is Elsewhere.                            *)
(***************************************************************************)
EXTENDS Naturals, FiniteSets, Sequences, SequencesExt

CONSTANTS
  MaxRequests,    \* bound: the requests callers make, over all sessions
  Addresses,      \* client addresses
  Home,           \* the one of this front-end
  OutboxCapacity, \* DEFAULT_COMMAND_CAPACITY, of the client's queue
  UpCapacity,     \* frames between the pump and the loop
  RequestCapacity,\* CLIENT_OUTBOX_CAPACITY, of the dispatcher's queue
  DownCapacity,   \* frames between the server's tasks and the pump
  EventCapacity,  \* events a subscriber may lag behind
  Rate, Burst,    \* requests_per_second, request_burst
  IdleTime,       \* BUDGET_IDLE_TTL, in units of the clock
  TableCapacity,  \* MAX_TRACKED_PEERS
  Strikes,        \* RATE_LIMIT_STRIKES
  MaxEvents,      \* bound: events raised
  MaxClock,       \* bound: time that passes
  MaxSessions,    \* bound: sessions
  MaxElsewhere,   \* bound: requests on other connections
  None            \* no budget

(* A rate of 0 turns the budgets off; what the burst is to the rate and to  *)
(* the idle time is free.                                                  *)
ASSUME IpcAssumption ==
  /\ Home \in Addresses /\ MaxRequests \in Nat
  /\ OutboxCapacity \in Nat \ {0} /\ UpCapacity \in Nat \ {0}
  /\ RequestCapacity \in Nat \ {0} /\ DownCapacity \in Nat \ {0} /\ EventCapacity \in Nat \ {0}
  /\ Rate \in Nat \ {0} /\ Burst \in Nat \ {0} /\ IdleTime \in Nat \ {0}
  /\ TableCapacity \in Nat \ {0} /\ Strikes \in Nat \ {0}
  /\ MaxEvents \in Nat /\ MaxClock \in Nat /\ MaxSessions \in Nat /\ MaxElsewhere \in Nat
  /\ None \notin Addresses /\ None \notin [tokens : Nat, seen : Nat]

VARIABLES
  call,       \* where each request is in its caller
  table,      \* pending: whose reply is awaited
  outbox,     \* requests the pump has not taken
  pump,       \* the step the pump is in, and the request it writes
  wire,       \* is the client's end open, is the server's end
  up, down,   \* the relays
  loop,       \* the step the select loop is in, and what it passes on
  pending,    \* what the dispatcher has not taken
  dispatcher, \* the step the dispatcher is in, and its request
  news,       \* events this subscriber has not received
  strikes,    \* requests shed on this connection
  budgets,    \* tokens and time last seen, by address
  clock,      \* time
  count,      \* bounds: sessions, events and requests elsewhere so far
  order,      \* history: requests queued in this session
  replied,    \* history: requests whose reply has arrived in this session
  served,     \* history: requests an address was granted
  evicted     \* history: how often its budget was dropped for room

caller == <<call, table, outbox>>
server == <<loop, pending, dispatcher, news, strikes>>
limiter == <<budgets, served, evicted>>
history == <<order, replied>>
vars == <<caller, pump, wire, up, down, server, limiter, clock, count, history>>

(* next_id: a request is its correlation id. No request is 0, and so is an *)
(* event among the frames.                                                 *)
Requests == 1..MaxRequests
Held == [of : 0..MaxRequests, shed : BOOLEAN]
Hold(r, shed) == [of |-> r, shed |-> shed]
Nothing == Hold(0, FALSE)
Open == [client |-> TRUE, server |-> TRUE]
Shut == [client |-> FALSE, server |-> FALSE]
Tracked(b) == {a \in Addresses : b[a] # None}

TypeOK ==
  /\ call \in [Requests -> {"new", "inserted", "awaiting", "done"}]
  /\ table \subseteq Requests
  /\ outbox \in Seq(Requests) /\ Len(outbox) <= OutboxCapacity
  /\ pump \in [at : {"off", "select", "write", "closed", "cleared", "ended"}, of : 0..MaxRequests]
  /\ wire \in [client : BOOLEAN, server : BOOLEAN]
  /\ up \in Seq(Requests) /\ Len(up) <= UpCapacity
  /\ down \in Seq(0..MaxRequests) /\ Len(down) <= DownCapacity
  /\ loop \in [at : {"off", "welcomed", "select", "pass", "tell", "detach"}, held : Held]
  /\ pending \in Seq(Held) /\ Len(pending) <= RequestCapacity
  /\ dispatcher \in [at : {"off", "idle", "ask", "reply"}, of : 0..MaxRequests]
  /\ news \in 0..EventCapacity /\ strikes \in 0..Strikes
  /\ budgets \in [Addresses -> [tokens : 0..Burst, seen : 0..MaxClock] \cup {None}]
  /\ Cardinality(Tracked(budgets)) <= TableCapacity
  /\ clock \in 0..MaxClock
  /\ count \in [sessions : 0..MaxSessions, events : 0..MaxEvents, elsewhere : 0..MaxElsewhere]
  /\ order \in Seq(Requests) /\ replied \in Seq(Requests)
  /\ served \in [Addresses -> Nat] /\ evicted \in [Addresses -> Nat]

Init ==
  /\ call = [r \in Requests |-> "new"] /\ table = {} /\ outbox = <<>>
  /\ pump = [at |-> "off", of |-> 0] /\ wire = Shut /\ up = <<>> /\ down = <<>>
  /\ loop = [at |-> "off", held |-> Nothing] /\ pending = <<>>
  /\ dispatcher = [at |-> "off", of |-> 0] /\ news = 0 /\ strikes = 0
  /\ budgets = [a \in Addresses |-> None] /\ clock = 0
  /\ count = [sessions |-> 0, events |-> 0, elsewhere |-> 0]
  /\ order = <<>> /\ replied = <<>>
  /\ served = [a \in Addresses |-> 0] /\ evicted = [a \in Addresses |-> 0]

-----------------------------------------------------------------------------
(* The budgets                                                             *)

(* TokenBucket::try_acquire, after sweep, and evict_oldest if a new        *)
(* address finds the table full: what becomes of the table.                *)
Swept == [a \in Addresses |->
  IF budgets[a] # None /\ clock - budgets[a].seen < IdleTime THEN budgets[a] ELSE None]
Oldest(b) == {a \in Tracked(b) : \A o \in Tracked(b) : b[a].seen <= b[o].seen}
NeedsRoom(a) == Swept[a] = None /\ Cardinality(Tracked(Swept)) >= TableCapacity
Victims(a) == IF NeedsRoom(a) THEN Oldest(Swept) ELSE {None}
Least(m, n) == IF m < n THEN m ELSE n
Tokens(a) == IF Swept[a] = None THEN Burst
             ELSE Least(Burst, Swept[a].tokens + Rate * (clock - Swept[a].seen))
Granted(a) == Tokens(a) >= 1

Acquire(a) ==
  \E victim \in Victims(a) :
    /\ budgets' = [o \in Addresses |->
         IF o = a THEN [tokens |-> Tokens(a) - (IF Granted(a) THEN 1 ELSE 0), seen |-> clock]
         ELSE IF o = victim THEN None ELSE Swept[o]]
    /\ evicted' = [o \in Addresses |-> IF o = victim THEN evicted[o] + 1 ELSE evicted[o]]
    /\ served' = [served EXCEPT ![a] = @ + (IF Granted(a) THEN 1 ELSE 0)]

(* Another connection, from this address or another one.                   *)
Elsewhere(a) ==
  /\ count.elsewhere < MaxElsewhere
  /\ count' = [count EXCEPT !.elsewhere = @ + 1]
  /\ Acquire(a)
  /\ UNCHANGED <<caller, pump, wire, up, down, server, clock, history>>

TimePasses ==
  /\ clock < MaxClock
  /\ clock' = clock + 1
  /\ UNCHANGED <<caller, pump, wire, up, down, server, limiter, count, history>>

-----------------------------------------------------------------------------
(* The session begins and ends                                             *)

(* RemoteClient::connect and the handshake of serve_connection, which may  *)
(* be refused without a trace. The loop does not listen to events yet.     *)
Connects ==
  /\ pump.at = "off"
  /\ pump' = [at |-> "select", of |-> 0]
  /\ order' = <<>> /\ replied' = <<>>

(* The server's half: its two queues, its dispatcher, and no strikes.      *)
Welcomes ==
  /\ loop.at = "off"
  /\ loop' = [at |-> "welcomed", held |-> Nothing]
  /\ pending' = <<>> /\ dispatcher' = [at |-> "idle", of |-> 0] /\ news' = 0 /\ strikes' = 0

Attach ==
  /\ count.sessions < MaxSessions
  /\ count' = [count EXCEPT !.sessions = @ + 1]
  /\ wire' = Open /\ up' = <<>> /\ down' = <<>>
  /\ Connects /\ Welcomes
  /\ UNCHANGED <<caller, limiter, clock>>

(* What has been written may arrive, a part of it, or not.                 *)
Some(frames) == {SubSeq(frames, 1, n) : n \in 0..Len(frames)}

(* The connection breaks.                                                  *)
Cut ==
  /\ wire = Open
  /\ wire' = Shut
  /\ up' \in Some(up) /\ down' \in Some(down)
  /\ UNCHANGED <<caller, pump, server, limiter, clock, count, history>>

(* The front-end's process ends, with its callers.                         *)
Leave ==
  /\ pump.at # "off"
  /\ pump' = [at |-> "off", of |-> 0]
  /\ wire' = [wire EXCEPT !.client = FALSE]
  /\ call' = [r \in Requests |-> IF call[r] = "new" THEN "new" ELSE "done"]
  /\ table' = {} /\ outbox' = <<>>
  /\ UNCHANGED <<up, down, server, limiter, clock, count, history>>

-----------------------------------------------------------------------------
(* A caller: RemoteClient::request                                         *)

IsNext(r) == call[r] = "new" /\ \A q \in Requests : q < r => call[q] # "new"

(* The reply is awaited before the request is queued.                      *)
Call(r) ==
  /\ IsNext(r) /\ pump.at \in {"select", "write"}
  /\ call' = [call EXCEPT ![r] = "inserted"]
  /\ table' = table \cup {r}
  /\ UNCHANGED <<outbox, pump, wire, up, down, server, limiter, clock, count, history>>

(* Another caller saw the connection open and inserts after it was closed. *)
CallLate(r) ==
  /\ IsNext(r) /\ pump.at \in {"closed", "cleared", "ended"}
  /\ call' = [call EXCEPT ![r] = "inserted"]
  /\ table' = table \cup {r}
  /\ UNCHANGED <<outbox, pump, wire, up, down, server, limiter, clock, count, history>>

Queue(r) ==
  /\ call[r] = "inserted" /\ pump.at \notin {"off", "ended"} /\ Len(outbox) < OutboxCapacity
  /\ call' = [call EXCEPT ![r] = "awaiting"]
  /\ outbox' = Append(outbox, r)
  /\ order' = Append(order, r)
  /\ UNCHANGED <<table, pump, wire, up, down, server, limiter, clock, count, replied>>

(* The pump's end of the queue is gone.                                    *)
QueueFails(r) ==
  /\ call[r] = "inserted" /\ pump.at = "ended"
  /\ call' = [call EXCEPT ![r] = "done"]
  /\ table' = table \ {r}
  /\ UNCHANGED <<outbox, pump, wire, up, down, server, limiter, clock, count, history>>

(* Fault: what is given up is still awaited.                               *)
DeadlineKeeps(r) ==
  /\ call[r] = "awaiting"
  /\ call' = [call EXCEPT ![r] = "done"]
  /\ UNCHANGED <<table, outbox, pump, wire, up, down, server, limiter, clock, count, history>>

Deadline(r) ==
  /\ call[r] = "awaiting"
  /\ call' = [call EXCEPT ![r] = "done"]
  /\ table' = table \ {r}
  /\ UNCHANGED <<outbox, pump, wire, up, down, server, limiter, clock, count, history>>

(* Its reply channel was dropped with the table's entry.                   *)
Dropped(r) ==
  /\ call[r] = "awaiting" /\ r \notin table
  /\ call' = [call EXCEPT ![r] = "done"]
  /\ UNCHANGED <<table, outbox, pump, wire, up, down, server, limiter, clock, count, history>>

-----------------------------------------------------------------------------
(* The pump                                                                *)

Take ==
  /\ pump.at = "select" /\ outbox # <<>>
  /\ pump' = [at |-> "write", of |-> Head(outbox)]
  /\ outbox' = Tail(outbox)
  /\ UNCHANGED <<call, table, wire, up, down, server, limiter, clock, count, history>>

(* The write ends when there is room; what nobody reads any more is lost.  *)
Write ==
  /\ pump.at = "write"
  /\ IF wire.server THEN Len(up) < UpCapacity /\ up' = Append(up, pump.of) ELSE UNCHANGED up
  /\ pump' = [at |-> "select", of |-> 0]
  /\ UNCHANGED <<caller, wire, down, server, limiter, clock, count, history>>

(* A reply ends its request if that still waits; an event goes on.         *)
Receive ==
  LET frame == Head(down) IN
  /\ pump.at = "select" /\ down # <<>>
  /\ down' = Tail(down)
  /\ IF frame = 0 THEN UNCHANGED <<call, table, replied>>
     ELSE /\ table' = table \ {frame}
          /\ call' = IF frame \in table THEN [call EXCEPT ![frame] = "done"] ELSE call
          /\ replied' = Append(replied, frame)
  /\ UNCHANGED <<outbox, pump, wire, up, server, limiter, clock, count, order>>

(* The end of the stream, or a write that fails.                           *)
PumpEnds ==
  /\ \/ pump.at = "select" /\ down = <<>> /\ ~wire.server
     \/ pump.at = "write" /\ ~wire.server
  /\ pump' = [at |-> "closed", of |-> 0]
  /\ UNCHANGED <<caller, wire, up, down, server, limiter, clock, count, history>>

(* Fault: the callers that wait are left to their deadlines.               *)
ClearNothing ==
  /\ pump.at = "closed"
  /\ pump' = [at |-> "cleared", of |-> 0]
  /\ UNCHANGED <<caller, wire, up, down, server, limiter, clock, count, history>>

(* Every request in flight fails ...                                       *)
Clear ==
  /\ pump.at = "closed"
  /\ pump' = [at |-> "cleared", of |-> 0]
  /\ table' = {}
  /\ UNCHANGED <<call, outbox, wire, up, down, server, limiter, clock, count, history>>

(* ... then the pump returns: the queue and the socket go with it.         *)
PumpReturns ==
  /\ pump.at = "cleared"
  /\ pump' = [at |-> "ended", of |-> 0]
  /\ wire' = [wire EXCEPT !.client = FALSE]
  /\ outbox' = <<>>
  /\ UNCHANGED <<call, table, up, down, server, limiter, clock, count, history>>

-----------------------------------------------------------------------------
(* The server                                                              *)

Subscribe ==
  /\ loop.at = "welcomed"
  /\ loop' = [loop EXCEPT !.at = "select"]
  /\ UNCHANGED <<caller, pump, wire, up, down, pending, dispatcher, news, strikes, limiter, clock,
                 count, history>>

(* The core publishes: a subscriber that lags loses its oldest event, and  *)
(* what is published before it subscribes is none of its.                  *)
Publish ==
  /\ count.events < MaxEvents
  /\ count' = [count EXCEPT !.events = @ + 1]
  /\ news' = IF loop.at \in {"off", "welcomed"} THEN news ELSE Least(news + 1, EventCapacity)
  /\ UNCHANGED <<caller, pump, wire, up, down, loop, pending, dispatcher, strikes, limiter, clock,
                 history>>

(* Fault: a request that is shed is answered at once.                      *)
ShedAtOnce ==
  /\ loop.at = "select" /\ up # <<>> /\ strikes < Strikes
  /\ up' = Tail(up)
  /\ Acquire(Home)
  /\ IF Granted(Home)
     THEN loop' = [at |-> "pass", held |-> Hold(Head(up), FALSE)] /\ UNCHANGED <<down, strikes>>
     ELSE /\ Len(down) < DownCapacity
          /\ down' = Append(down, Head(up))
          /\ strikes' = strikes + 1
          /\ UNCHANGED loop
  /\ UNCHANGED <<caller, pump, wire, pending, dispatcher, news, clock, count, history>>

(* A request arrives: it is counted against the address's budget, and one  *)
(* that is shed takes the same way.                                        *)
Admit ==
  /\ loop.at = "select" /\ up # <<>>
  /\ up' = Tail(up)
  /\ Acquire(Home)
  /\ loop' = [at |-> "pass", held |-> Hold(Head(up), ~Granted(Home))]
  /\ strikes' = strikes + (IF Granted(Home) THEN 0 ELSE 1)
  /\ UNCHANGED <<caller, pump, wire, down, pending, dispatcher, news, clock, count, history>>

(* The loop waits for room in the dispatcher's queue.                      *)
Pass ==
  /\ loop.at = "pass" /\ Len(pending) < RequestCapacity
  /\ pending' = Append(pending, loop.held)
  /\ loop' = [at |-> IF loop.held.shed /\ strikes >= Strikes THEN "detach" ELSE "select",
              held |-> Nothing]
  /\ UNCHANGED <<caller, pump, wire, up, down, dispatcher, news, strikes, limiter, clock, count,
                 history>>

(* A frame is queued when there is room; for a client that is gone it is   *)
(* lost.                                                                   *)
Sent(frame) == IF wire.client THEN Len(down) < DownCapacity /\ down' = Append(down, frame)
               ELSE UNCHANGED down

(* An event is forwarded.                                                  *)
Notice ==
  /\ loop.at = "select" /\ news > 0
  /\ news' = news - 1
  /\ loop' = [loop EXCEPT !.at = "tell"]
  /\ UNCHANGED <<caller, pump, wire, up, down, pending, dispatcher, strikes, limiter, clock, count,
                 history>>
Tell ==
  /\ loop.at = "tell"
  /\ Sent(0)
  /\ loop' = [loop EXCEPT !.at = "select"]
  /\ UNCHANGED <<caller, pump, wire, up, pending, dispatcher, news, strikes, limiter, clock, count,
                 history>>

(* The dispatcher: one request after the other is asked of the core, or    *)
(* refused, and its reply is queued before the next.                       *)
Dispatch ==
  /\ dispatcher.at = "idle" /\ pending # <<>>
  /\ dispatcher' = [at |-> IF Head(pending).shed THEN "reply" ELSE "ask", of |-> Head(pending).of]
  /\ pending' = Tail(pending)
  /\ UNCHANGED <<caller, pump, wire, up, down, loop, news, strikes, limiter, clock, count, history>>

CoreReplies ==
  /\ dispatcher.at = "ask"
  /\ dispatcher' = [dispatcher EXCEPT !.at = "reply"]
  /\ UNCHANGED <<caller, pump, wire, up, down, loop, pending, news, strikes, limiter, clock, count,
                 history>>

Reply ==
  /\ dispatcher.at = "reply"
  /\ Sent(dispatcher.of)
  /\ dispatcher' = [at |-> "idle", of |-> 0]
  /\ UNCHANGED <<caller, pump, wire, up, loop, pending, news, strikes, limiter, clock, count,
                 history>>

(* ... or the writer has failed, and the queue to it is closed.            *)
ReplyFails ==
  /\ dispatcher.at = "reply" /\ ~wire.client
  /\ dispatcher' = [at |-> "off", of |-> 0]
  /\ UNCHANGED <<caller, pump, wire, up, down, loop, pending, news, strikes, limiter, clock, count,
                 history>>

Ends ==
  /\ loop' = [at |-> "detach", held |-> Nothing]
  /\ UNCHANGED <<caller, pump, wire, up, down, pending, dispatcher, news, strikes, limiter, clock,
                 count, history>>

(* Fault: the end of the stream is not the end of the session.             *)
NoticesFailure ==
  /\ ~wire.client
  /\ loop.at = "tell" \/ (loop.at = "pass" /\ dispatcher.at = "off")
  /\ Ends

(* The client is gone: the loop reads the end of the stream, or a queue it *)
(* sends to is closed, the writer's or the dispatcher's.                   *)
NoticesEnd ==
  /\ ~wire.client
  /\ \/ loop.at = "select" /\ up = <<>>
     \/ loop.at = "tell"
     \/ loop.at = "pass" /\ dispatcher.at = "off"
  /\ Ends

(* Fault: the allowance goes with the connection.                          *)
DetachForgets ==
  /\ loop.at = "detach"
  /\ loop' = [at |-> "off", held |-> Nothing]
  /\ pending' = <<>> /\ dispatcher' = [at |-> "off", of |-> 0] /\ news' = 0 /\ strikes' = 0
  /\ up' = <<>> /\ down' \in Some(down)
  /\ wire' = [wire EXCEPT !.server = FALSE]
  /\ budgets' = [budgets EXCEPT ![Home] = None]
  /\ UNCHANGED <<caller, pump, served, evicted, clock, count, history>>

(* The tasks of the connection are aborted, with the replies they hold.    *)
Detach ==
  /\ loop.at = "detach"
  /\ loop' = [at |-> "off", held |-> Nothing]
  /\ pending' = <<>> /\ dispatcher' = [at |-> "off", of |-> 0] /\ news' = 0 /\ strikes' = 0
  /\ up' = <<>> /\ down' \in Some(down)
  /\ wire' = [wire EXCEPT !.server = FALSE]
  /\ UNCHANGED <<caller, pump, limiter, clock, count, history>>

-----------------------------------------------------------------------------
PumpStep == Take \/ Write \/ Receive \/ PumpEnds \/ Clear \/ PumpReturns
ServerStep == Subscribe \/ Admit \/ Pass \/ Notice \/ Tell \/ NoticesEnd \/ Detach
DispatcherStep == Dispatch \/ CoreReplies \/ Reply \/ ReplyFails
CallerStep(r) == Queue(r) \/ QueueFails(r) \/ Dropped(r)

Next ==
  \/ \E a \in Addresses : Elsewhere(a)
  \/ TimePasses \/ Attach \/ Cut \/ Leave \/ Publish
  \/ \E r \in Requests : Call(r) \/ CallLate(r) \/ Deadline(r) \/ CallerStep(r)
  \/ PumpStep \/ ServerStep \/ DispatcherStep

(* The tasks run; nobody's deadline is needed.                             *)
Fairness ==
  /\ WF_vars(PumpStep) /\ WF_vars(ServerStep) /\ WF_vars(DispatcherStep)
  /\ WF_vars(\E r \in Requests : CallerStep(r))

Spec == Init /\ [][Next]_vars /\ Fairness

-----------------------------------------------------------------------------
(* Properties                                                              *)

(* "Replies arrive in request order": what the client has received answers *)
(* the first of the requests it queued, in their order, once each, those   *)
(* that were shed among them.                                              *)
RepliesInOrder == IsPrefix(replied, order)

(* "So the table cannot grow": a reply is awaited for a caller that waits. *)
TableIsLive == \A r \in table : call[r] \in {"inserted", "awaiting"}

(* What a budget that expires leaves to the next one, beyond what time      *)
(* would have brought it while it was idle.                                *)
Shortfall == IF Burst > Rate * IdleTime THEN Burst - Rate * IdleTime ELSE 0

(* "Reconnecting does not reset it": over all its connections an address   *)
(* is granted no more than its burst and what time brings, but for a       *)
(* budget that was dropped to make room, and for the shortfall of one that *)
(* stayed idle long enough to expire.                                      *)
ServedWithinBudget ==
  \A a \in Addresses :
    served[a] <= Burst * (1 + evicted[a]) + Shortfall * (clock \div IdleTime) + Rate * clock

(* "Fail every in-flight request instead of letting callers hang": when    *)
(* the server has ended the session, a caller that waits is told without   *)
(* its deadline, unless it came in after the table was cleared.            *)
EndedFailsPromptly ==
  \A r \in Requests :
    (r \in table /\ ~wire.server /\ pump.at \notin {"cleared", "ended"}) ~> call[r] = "done"

(* A front-end that is gone gives its place back, whatever the tasks of    *)
(* its connection were waiting for.                                        *)
GoneIsDetached == (loop.at # "off" /\ ~wire.client) ~> loop.at = "off"

(* The state is well-typed, and replies are matched with callers that still *)
(* wait, in the order of the requests.                                      *)
RepliesMatch == TypeOK /\ RepliesInOrder /\ TableIsLive

(* Either end going away is noticed by what waited for it on the other.     *)
EndsAreNoticed == EndedFailsPromptly /\ GoneIsDetached
=============================================================================

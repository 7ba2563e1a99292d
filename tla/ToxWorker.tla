----------------------------- MODULE ToxWorker ------------------------------
(***************************************************************************)
(* The thread that owns toxcore (tox.rs), and everybody who waits for it:  *)
(*                                                                         *)
(*   worker   iterates toxcore, whose callbacks it hands over without       *)
(*            waiting, and serves one command between two iterations        *)
(*   bridge   owns the ToxClient: takes one callback after the other, asks   *)
(*            the worker about it, hands an event to the core, and stops     *)
(*            and joins the worker when it ends (spawn_bridge)              *)
(*   actor    the core: starts the client, sends commands (call_tox), takes  *)
(*            events, shuts the transport down                              *)
(*                                                                         *)
(* What a command does to toxcore is a number of changes here: module       *)
(* ToxQueue has friends and payloads, ToxGroups the conferences.            *)
(***************************************************************************)
EXTENDS Naturals, Sequences

CONSTANTS
  EventCapacity,  \* EVENT_QUEUE_CAPACITY
  InboxCapacity,  \* events the core's inbox holds
  MaxRuns,        \* bound: starts of the client
  MaxChanges,     \* bound: changes toxcore accepts, over all runs
  MaxRaised       \* bound: callbacks toxcore raises, over all runs

ASSUME ToxWorkerAssumption ==
  /\ EventCapacity \in Nat \ {0} /\ InboxCapacity \in Nat \ {0}
  /\ MaxRuns \in Nat /\ MaxChanges \in Nat /\ MaxRaised \in Nat

VARIABLES
  run,       \* starts so far
  savedata,  \* tox_save.tox: an identity and how many changes it knows of
  worker,    \* where the worker stands, its identity and its changes
  commands,  \* the channel of commands
  open,      \* is its receiver alive
  reply,     \* what each asker's reply channel holds
  events,    \* callbacks handed over and not taken
  dropped,   \* the counter of callbacks lost to a full hand-off
  bridge,    \* where the bridge stands
  actor,     \* where the actor stands
  inbox,     \* events in the core's inbox
  listens,   \* the core has not dropped its inbox
  stop,      \* the transport's stop flag
  changes,   \* history: changes toxcore accepted, over all runs
  raised,    \* history: callbacks raised in this run
  taken,     \* history: callbacks the bridge took in this run
  outcome,   \* history: how the run stands, or how the last one ended
  latest,    \* history: the identity and the changes toxcore held last in this run
  blind,     \* history: a savedata is there which this run could not read
  unwritten  \* history: this run's last attempt to write the savedata failed

toxcore == <<savedata, worker, commands, open, reply>>
handoff == <<events, dropped, raised, taken>>
core == <<actor, inbox, listens, stop>>
past == <<changes, outcome, latest, blind, unwritten>>
vars == <<run, toxcore, handoff, bridge, core, past>>

Askers == {"actor", "bridge"}

(* ToxCommand: what can change what the savedata holds - the name, the      *)
(* friends, the conferences - and what cannot; and the two that write it.   *)
Changing == {"set_name", "add_friend", "conference"}
Reading == {"send_message", "snapshot"}
Kinds == Changing \union Reading \union {"save", "shutdown"}

(* A file of no use: absent or cut off by a crash of another program, or    *)
(* refused by toxcore.                                                      *)
None == [id |-> 0, changes |-> 0]
Refused == [id |-> 0, changes |-> 1]

NoWorker == [at |-> "gone", id |-> 0, changes |-> 0]

Savedata == [id : 0..MaxRuns, changes : 0..MaxChanges + 1]
Thread == [at : {"gone", "load", "failed", "iterate", "receive"},
           id : 0..MaxRuns, changes : 0..MaxChanges]
Command == [by : Askers, kind : Kinds]
Replies == [Askers -> {"none", "ok", "error", "stopped"}]

TypeOK ==
  /\ run \in 0..MaxRuns
  /\ savedata \in Savedata /\ worker \in Thread
  /\ commands \in Seq(Command) /\ open \in BOOLEAN /\ reply \in Replies
  /\ events \in 0..EventCapacity /\ inbox \in 0..InboxCapacity
  /\ bridge \in {"gone", "poll", "ask", "asked", "forward", "stopping", "joining"}
  /\ actor \in {"off", "starting", "idle", "asked", "closing"}
  /\ listens \in BOOLEAN /\ stop \in BOOLEAN
  /\ raised \in 0..MaxRaised /\ taken \in 0..MaxRaised /\ dropped \in 0..MaxRaised
  /\ changes \in 0..MaxChanges
  /\ outcome \in {"none", "running", "ended", "failed", "killed"}
  /\ latest \in Savedata /\ blind \in BOOLEAN /\ unwritten \in BOOLEAN

Init ==
  /\ run = 0 /\ savedata \in {None, Refused} /\ worker = NoWorker
  /\ commands = <<>> /\ open = FALSE /\ reply = [a \in Askers |-> "none"]
  /\ events = 0 /\ dropped = 0 /\ raised = 0 /\ taken = 0
  /\ bridge = "gone" /\ actor = "off" /\ inbox = 0 /\ listens = TRUE /\ stop = FALSE
  /\ changes = 0 /\ outcome = "none" /\ latest = None /\ blind = FALSE /\ unwritten = FALSE

----------------------------------------------------------------------------
(* ToxClient::start and run_worker up to its loop *)

(* The worker is spawned, and its ready channel waited for. *)
Start ==
  /\ actor = "off" /\ bridge = "gone" /\ worker.at = "gone" /\ run < MaxRuns
  /\ run' = run + 1
  /\ worker' = [NoWorker EXCEPT !.at = "load"]
  /\ commands' = <<>> /\ open' = TRUE /\ reply' = [a \in Askers |-> "none"]
  /\ events' = 0 /\ dropped' = 0 /\ raised' = 0 /\ taken' = 0
  /\ actor' = "starting" /\ inbox' = 0 /\ listens' = TRUE /\ stop' = FALSE
  /\ outcome' = "running" /\ latest' = None /\ blind' = FALSE /\ unwritten' = FALSE
  /\ UNCHANGED <<savedata, bridge, changes>>

Loads(id, counted) ==
  /\ worker' = [at |-> "iterate", id |-> id, changes |-> counted]
  /\ latest' = [id |-> id, changes |-> counted]

(* Fault: a savedata toxcore refuses is replaced by a new identity. *)
LoadReplaces ==
  /\ worker.at = "load"
  /\ IF savedata.id # 0 THEN Loads(savedata.id, savedata.changes) ELSE Loads(run, 0)
  /\ UNCHANGED <<run, savedata, commands, open, reply, handoff, bridge, core, changes, outcome,
                 blind, unwritten>>

(* The savedata is read and toxcore created from it.  Without savedata, or  *)
(* with an empty file, or when the file cannot be read, toxcore makes a new  *)
(* identity.  What toxcore refuses is an error and stays; and tox_new may    *)
(* fail whatever was read, for want of a port or of memory.                 *)
Load ==
  /\ worker.at = "load"
  /\ \/ savedata.id # 0 /\ Loads(savedata.id, savedata.changes) /\ UNCHANGED blind
     \/ savedata = None /\ Loads(run, 0) /\ UNCHANGED blind
     \/ savedata # None /\ Loads(run, 0) /\ blind' = TRUE
     \/ worker' = [worker EXCEPT !.at = "failed"] /\ UNCHANGED <<latest, blind>>
  /\ UNCHANGED <<run, savedata, commands, open, reply, handoff, bridge, core, changes, outcome,
                 unwritten>>

(* The identity is back: the bridge is spawned with the client. *)
Ready ==
  /\ actor = "starting" /\ worker.at \in {"iterate", "receive"}
  /\ actor' = "idle" /\ bridge' = "poll"
  /\ UNCHANGED <<run, toxcore, handoff, inbox, listens, stop, past>>

(* The error is back, and the thread joined: there is no transport. *)
StartFails ==
  /\ actor = "starting" /\ worker.at = "failed"
  /\ actor' = "off" /\ worker' = NoWorker /\ open' = FALSE
  /\ outcome' = "failed"
  /\ UNCHANGED <<run, savedata, commands, reply, handoff, bridge, inbox, listens, stop,
                 changes, latest, blind, unwritten>>

----------------------------------------------------------------------------
(* The worker's loop *)

(* Fault: a callback that finds no room is forgotten. *)
CallbackForgotten ==
  /\ worker.at = "iterate" /\ raised < MaxRaised
  /\ raised' = raised + 1
  /\ events' = IF events < EventCapacity THEN events + 1 ELSE events
  /\ UNCHANGED <<run, toxcore, dropped, taken, bridge, core, past>>

(* A callback of the iteration is handed over, or counted (send_event). *)
Callback ==
  /\ worker.at = "iterate" /\ raised < MaxRaised
  /\ raised' = raised + 1
  /\ IF events < EventCapacity THEN events' = events + 1 /\ UNCHANGED dropped
                               ELSE dropped' = dropped + 1 /\ UNCHANGED events
  /\ UNCHANGED <<run, toxcore, taken, bridge, core, past>>

(* Fault: the iteration waits until its callbacks are taken. *)
IteratedWaits ==
  /\ worker.at = "iterate" /\ events < EventCapacity
  /\ worker' = [worker EXCEPT !.at = "receive"]
  /\ UNCHANGED <<run, savedata, commands, open, reply, handoff, bridge, core, past>>

(* tox_iterate has returned, and the worker waits for a command. *)
Iterated ==
  /\ worker.at = "iterate"
  /\ worker' = [worker EXCEPT !.at = "receive"]
  /\ UNCHANGED <<run, savedata, commands, open, reply, handoff, bridge, core, past>>

(* The interval has passed without one. *)
Waited ==
  /\ worker.at = "receive" /\ commands = <<>>
  /\ worker' = [worker EXCEPT !.at = "iterate"]
  /\ UNCHANGED <<run, savedata, commands, open, reply, handoff, bridge, core, past>>

Serving(kinds) == worker.at = "receive" /\ commands # <<>> /\ Head(commands).kind \in kinds
Answers(answer) == /\ commands' = Tail(commands)
                   /\ reply' = [reply EXCEPT ![Head(commands).by] = answer]
Saves == savedata' = [id |-> worker.id, changes |-> worker.changes]

(* A command that toxcore answers, or refuses; a change is in memory only.  *)
Change ==
  /\ Serving(Changing)
  /\ \/ /\ changes < MaxChanges
        /\ changes' = changes + 1
        /\ worker' = [worker EXCEPT !.at = "iterate", !.changes = changes + 1]
        /\ latest' = [latest EXCEPT !.changes = changes + 1]
        /\ Answers("ok")
     \/ /\ worker' = [worker EXCEPT !.at = "iterate"]
        /\ Answers("error")
        /\ UNCHANGED <<changes, latest>>
  /\ UNCHANGED <<run, savedata, open, handoff, bridge, core, outcome, blind, unwritten>>

Read ==
  /\ Serving(Reading)
  /\ worker' = [worker EXCEPT !.at = "iterate"]
  /\ Answers("ok") \/ (Head(commands).kind # "snapshot" /\ Answers("error"))
  /\ UNCHANGED <<run, savedata, open, handoff, bridge, core, past>>

(* ToxCommand::Save: the file is replaced by a rename, or stays. *)
Save ==
  /\ Serving({"save"})
  /\ worker' = [worker EXCEPT !.at = "iterate"]
  /\ \/ Saves /\ Answers("ok") /\ unwritten' = FALSE
     \/ Answers("error") /\ unwritten' = TRUE /\ UNCHANGED savedata
  /\ UNCHANGED <<run, open, handoff, bridge, core, changes, outcome, latest, blind>>

(* The receiver is dropped with the commands in it: their askers are told.  *)
Leaves(answered) ==
  /\ worker' = NoWorker
  /\ open' = FALSE
  /\ commands' = <<>>
  /\ reply' = [a \in Askers |->
                 IF \E i \in 2..Len(commands) : commands[i].by = a THEN "stopped"
                 ELSE IF commands # <<>> /\ Head(commands).by = a THEN answered ELSE reply[a]]

(* Fault: the worker leaves without saving. *)
ShutdownUnsaved ==
  /\ Serving({"shutdown"})
  /\ Leaves("ok")
  /\ UNCHANGED <<run, savedata, handoff, bridge, core, past>>

(* ToxCommand::Shutdown: save, answer, and leave the loop. *)
Shutdown ==
  /\ Serving({"shutdown"})
  /\ \/ Saves /\ Leaves("ok") /\ unwritten' = FALSE
     \/ Leaves("error") /\ unwritten' = TRUE /\ UNCHANGED savedata
  /\ UNCHANGED <<run, handoff, bridge, core, changes, outcome, latest, blind>>

----------------------------------------------------------------------------
(* Requests: round_trip sends a command and waits for its reply channel. *)

Ask(asker, kind) ==
  IF open THEN /\ commands' = Append(commands, [by |-> asker, kind |-> kind])
               /\ UNCHANGED reply
          ELSE /\ reply' = [reply EXCEPT ![asker] = "stopped"]
               /\ UNCHANGED commands

Forget(asker) == reply' = [reply EXCEPT ![asker] = "none"]

(* The actor serves a request of a front-end that needs toxcore. *)
ActorAsks ==
  /\ actor = "idle"
  /\ \E kind \in Kinds \ {"shutdown"} : Ask("actor", kind)
  /\ actor' = "asked"
  /\ UNCHANGED <<run, savedata, worker, open, handoff, bridge, inbox, listens, stop, past>>

ActorAnswered ==
  /\ actor = "asked" /\ reply["actor"] # "none"
  /\ Forget("actor")
  /\ actor' = "idle"
  /\ UNCHANGED <<run, savedata, worker, commands, open, handoff, bridge, inbox, listens, stop,
                 past>>

(* The actor takes an event. *)
ActorTakes ==
  /\ actor = "idle" /\ inbox > 0
  /\ inbox' = inbox - 1
  /\ UNCHANGED <<run, toxcore, handoff, bridge, actor, listens, stop, past>>

(* ToxTransport::shutdown, after the core dropped its inbox, and its return. *)
ActorStops ==
  /\ actor = "idle"
  /\ listens' = FALSE /\ inbox' = 0 /\ stop' = TRUE
  /\ actor' = "closing"
  /\ UNCHANGED <<run, toxcore, handoff, bridge, past>>

ActorEnds ==
  /\ actor = "closing" /\ bridge = "gone"
  /\ actor' = "off"
  /\ outcome' = "ended"
  /\ UNCHANGED <<run, toxcore, handoff, bridge, inbox, listens, stop, changes, latest, blind,
                 unwritten>>

----------------------------------------------------------------------------
(* The bridge *)

(* A callback is taken before the poll times out. *)
Poll ==
  /\ bridge = "poll" /\ ~stop /\ events > 0
  /\ events' = events - 1 /\ taken' = taken + 1
  /\ bridge' \in {"ask", "forward"}
  /\ UNCHANGED <<run, toxcore, dropped, raised, core, past>>

(* forward_event asks the worker for what the callback does not say, or has *)
(* it send what waits for a friend.                                         *)
BridgeAsks ==
  /\ bridge = "ask"
  /\ \E kind \in Reading : Ask("bridge", kind)
  /\ bridge' = "asked"
  /\ UNCHANGED <<run, savedata, worker, open, handoff, core, past>>

BridgeAnswered ==
  /\ bridge = "asked" /\ reply["bridge"] # "none"
  /\ Forget("bridge")
  /\ bridge' = "forward"
  /\ UNCHANGED <<run, savedata, worker, commands, open, handoff, core, past>>

(* It waits for room in the core's inbox, unless that is dropped. *)
Forward ==
  /\ bridge = "forward" /\ listens /\ inbox < InboxCapacity
  /\ inbox' = inbox + 1
  /\ bridge' = "poll"
  /\ UNCHANGED <<run, toxcore, handoff, actor, listens, stop, past>>

(* Fault: only the stop flag ends the bridge. *)
BridgeStopsOnFlag ==
  /\ bridge = "poll" /\ stop
  /\ Ask("bridge", "shutdown")
  /\ bridge' = "stopping"
  /\ UNCHANGED <<run, savedata, worker, open, handoff, core, past>>

(* The stop flag or a dropped inbox ends its loop: ToxClient::shutdown, or   *)
(* the client's Drop when the task never ran, sends the last command.        *)
BridgeStops ==
  /\ \/ bridge = "poll" /\ stop
     \/ bridge = "forward" /\ ~listens
  /\ Ask("bridge", "shutdown")
  /\ bridge' = "stopping"
  /\ UNCHANGED <<run, savedata, worker, open, handoff, core, past>>

(* The answer is in; the thread is joined. *)
BridgeJoins ==
  /\ bridge = "stopping" /\ reply["bridge"] # "none"
  /\ Forget("bridge")
  /\ bridge' = "joining"
  /\ UNCHANGED <<run, savedata, worker, commands, open, handoff, core, past>>

BridgeEnds ==
  /\ bridge = "joining" /\ worker.at = "gone"
  /\ bridge' = "gone"
  /\ UNCHANGED <<run, toxcore, handoff, core, past>>

----------------------------------------------------------------------------
(* The process is killed. *)
Crash ==
  /\ actor # "off"
  /\ worker' = NoWorker /\ open' = FALSE /\ commands' = <<>>
  /\ reply' = [a \in Askers |-> "none"]
  /\ bridge' = "gone" /\ actor' = "off" /\ inbox' = 0 /\ listens' = FALSE
  /\ outcome' = "killed"
  /\ UNCHANGED <<run, savedata, handoff, stop, changes, latest, blind, unwritten>>

Worker == Load \/ Callback \/ Iterated \/ Waited \/ Change \/ Read \/ Save \/ Shutdown
Bridge == Poll \/ BridgeAsks \/ BridgeAnswered \/ Forward \/ BridgeStops \/ BridgeJoins
            \/ BridgeEnds
Actor == Ready \/ StartFails \/ ActorAsks \/ ActorAnswered \/ ActorTakes \/ ActorStops
            \/ ActorEnds
Next == Start \/ Worker \/ Bridge \/ Actor \/ Crash

Spec == Init /\ [][Next]_vars

(* The threads run: what the worker can do it does, commands before another *)
(* iteration (the interval of an iteration is bounded, and so are its        *)
(* callbacks); the bridge and the actor go on when what they wait for is     *)
(* there.  The actor takes events between requests, as its select does.      *)
Fairness ==
  /\ WF_vars(Load) /\ WF_vars(Iterated) /\ WF_vars(Change \/ Read \/ Save \/ Shutdown)
  /\ WF_vars(Ready) /\ WF_vars(StartFails) /\ WF_vars(ActorAnswered) /\ WF_vars(ActorEnds)
  /\ SF_vars(ActorTakes)
  /\ WF_vars(Bridge)

FairSpec == Spec /\ Fairness

----------------------------------------------------------------------------
(* Properties *)

(* Whoever waits for the worker is answered, or told that it has stopped,    *)
(* whatever waits elsewhere: a hand-off nobody empties, a bridge that waits  *)
(* for room in the inbox of the actor that waits (send_event, round_trip).   *)
EveryRequestEnds == /\ actor = "asked" ~> actor # "asked"
                    /\ bridge = "asked" ~> bridge # "asked"

(* A shutdown of the transport returns, wherever worker and bridge stood.    *)
ShutdownReturns == actor = "closing" ~> actor = "off"

(* When a transport has been shut down in order, the savedata is what toxcore *)
(* held last: its identity, and every change it accepted, those of earlier    *)
(* runs included that this one loaded.  So it is after any crash or failed    *)
(* save before, and in a first run, whose savedata nobody has written yet;    *)
(* only the run whose last write itself failed is excepted.  A command that   *)
(* reached the worker before the last one is served before it, and one after  *)
(* it is refused (Worker::handle, run_worker).                               *)
EndIsSaved == outcome = "ended" /\ ~unwritten => savedata = latest

(* A savedata is never replaced by another identity, nor by an older state of *)
(* the same one, and what toxcore refuses to load stays: through crashes,     *)
(* failed saves and failed starts, except in a run that could not read the    *)
(* file it found, which goes on with a new identity (run_worker).            *)
IdentityStays ==
  [][~blind /\ savedata # None =>
       savedata'.id = savedata.id /\ savedata'.changes >= savedata.changes]_vars

(* Every callback toxcore raised is in the hand-off, was taken, or is counted *)
(* as dropped (dropped_events).                                              *)
LossIsCounted == raised = taken + events + dropped

(* Every call on the transport returns, the last one included.              *)
CallsReturn == EveryRequestEnds /\ ShutdownReturns
=============================================================================

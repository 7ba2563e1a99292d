------------------------------ MODULE ToxProofs ------------------------------
(***************************************************************************)
(* Theorems about the Tox transport.                                       *)
(*                                                                         *)
(* ToxWorker, the thread that owns toxcore: for every capacity and any      *)
(* number of starts, changes and callbacks, what an orderly end leaves on   *)
(* disk is what toxcore knew, under the identity it was started with, and   *)
(* no callback disappears without being counted (inductive invariant IInv). *)
(*                                                                         *)
(* ToxQueue, the offline queue and its file: for every set of friends, any  *)
(* number of payloads and runs and every capacity, the payloads for a       *)
(* friend leave in order, the file agrees with the session once nobody is   *)
(* about to write it (inductive invariant StoreInv), and the queue          *)
(* implements FriendMail (StoreInv and what MailInv adds to it).            *)
(***************************************************************************)
EXTENDS ToxWorker, ToxQueue, SequenceTheorems, FiniteSetTheorems, WellFoundedInduction, TLAPS

-----------------------------------------------------------------------------
(* The worker                                                                  *)

Running == worker.at \in {"iterate", "receive"}

(* The savedata knows no change that toxcore has not accepted. *)
SavedFits == savedata.id # 0 => savedata.changes <= changes

(* The bridge owns the client from its start to the join of the worker, so     *)
(* nobody is left when the actor is done.                                    *)
Owned ==
  /\ actor \in {"off", "starting"} => bridge = "gone"
  /\ bridge = "gone" /\ actor # "starting" => worker.at = "gone"
  /\ worker.at \in {"load", "failed"} => actor = "starting"
  /\ worker.at # "gone" => run > 0
  /\ outcome = "ended" => actor = "off"

(* What toxcore holds while it runs is what the run has seen of it last. *)
Recorded ==
  Running => /\ worker.id # 0 /\ worker.changes <= changes
             /\ latest = [id |-> worker.id, changes |-> worker.changes]

(* It goes on from the savedata, once there is one this run could read. *)
Follows ==
  Running /\ ~blind /\ savedata # None =>
    savedata.id = worker.id /\ savedata.changes <= worker.changes

(* A worker that left before its actor has written what it held, or failed to. *)
Left ==
  worker.at = "gone" /\ (actor \in {"idle", "asked", "closing"} \/ outcome = "ended") =>
    (~unwritten => savedata = latest)

IInv == /\ TypeOK /\ LossIsCounted /\ SavedFits /\ Owned
        /\ Recorded /\ Follows /\ Left

(* Whoever asks, its command joins the queue or its reply says that there is    *)
(* no worker.                                                                *)
LEMMA AskTyped ==
  ASSUME NEW a \in Askers, NEW k \in Kinds, TypeOK, Ask(a, k)
  PROVE  /\ commands' \in Seq(Command)
         /\ reply' \in Replies
  <1>1. [by |-> a, kind |-> k] \in Command
    BY DEF Command
  <1>2. commands \in Seq(Command)
    BY DEF TypeOK
  <1>3. Append(commands, [by |-> a, kind |-> k]) \in Seq(Command)
    BY <1>1, <1>2, AppendProperties
  <1> QED BY <1>2, <1>3 DEF Ask, TypeOK, Replies

(* A command that is answered leaves the queue. *)
LEMMA AnswersTyped ==
  ASSUME NEW answer \in {"ok", "error"}, TypeOK, commands # <<>>, Answers(answer)
  PROVE  /\ commands' \in Seq(Command)
         /\ reply' \in Replies
  <1>1. commands' \in Seq(Command)
    BY DEF Answers, TypeOK
  <1>2. reply' \in Replies
    BY DEF Answers, TypeOK, Replies
  <1> QED BY <1>1, <1>2

(* The worker ends: its queue is gone, and every asker is told. *)
LEMMA LeavesTyped ==
  ASSUME NEW answer \in {"ok", "error"}, TypeOK, Leaves(answer)
  PROVE  /\ commands' \in Seq(Command)
         /\ reply' \in Replies
         /\ worker' = NoWorker /\ open' = FALSE
  BY DEF Leaves, TypeOK, Replies

(* Every step keeps the types: what each changes is of its kind. *)
LEMMA TypeStep ==
  ASSUME TypeOK, LossIsCounted, SavedFits, [Next]_vars
  PROVE  TypeOK'
  <1> USE ToxWorkerAssumption DEF TypeOK, past
  <1>1. CASE Start
    <2>1. worker' \in Thread
      BY SMTT(30), <1>1 DEF Start, NoWorker, Thread
    <2>2. commands' \in Seq(Command)
      BY <1>1 DEF Start
    <2>3. reply' \in Replies
      BY <1>1 DEF Start, Replies, Askers
    <2>4. open' \in BOOLEAN /\ listens' \in BOOLEAN /\ stop' \in BOOLEAN
      BY <1>1 DEF Start
    <2>5. latest' \in Savedata
      BY <1>1 DEF Start, None, Savedata
    <2>6. /\ outcome' \in {"none", "running", "ended", "failed", "killed"}
          /\ blind' \in BOOLEAN /\ unwritten' \in BOOLEAN
      BY <1>1 DEF Start
    <2>7. /\ run' \in 0..MaxRuns /\ savedata' \in Savedata
          /\ events' \in 0..EventCapacity /\ inbox' \in 0..InboxCapacity
          /\ raised' \in 0..MaxRaised /\ taken' \in 0..MaxRaised /\ dropped' \in 0..MaxRaised
          /\ changes' \in 0..MaxChanges
      BY <1>1 DEF Start
    <2>8. /\ bridge' \in {"gone", "poll", "ask", "asked", "forward", "stopping", "joining"}
          /\ actor' \in {"off", "starting", "idle", "asked", "closing"}
      BY <1>1 DEF Start
    <2> QED BY ONLY <2>1, <2>2, <2>3, <2>4, <2>5, <2>6, <2>7, <2>8 DEF TypeOK
  <1>2. CASE Load
    <2>1. savedata.id \in 0..MaxRuns
      BY DEF Savedata
    <2>2. savedata.id # 0 => savedata.changes \in 0..MaxChanges
      BY DEF Savedata, SavedFits
    <2>3. \A id \in 0..MaxRuns, counted \in 0..MaxChanges :
            Loads(id, counted) => worker' \in Thread /\ latest' \in Savedata
      BY DEF Loads, Thread, Savedata
    <2>4. worker' = [worker EXCEPT !.at = "failed"] => worker' \in Thread
      BY DEF Thread
    <2>5. worker' \in Thread /\ latest' \in Savedata
      BY SMTT(30), <1>2, <2>1, <2>2, <2>3, <2>4 DEF Load
    <2>6. blind' \in BOOLEAN
      BY <1>2 DEF Load
    <2> HIDE DEF TypeOK
    <2>7. UNCHANGED <<run, savedata, commands, open, reply, handoff, bridge, core, changes,
                      outcome, unwritten>>
      BY <1>2 DEF Load
    <2> QED BY <2>5, <2>6, <2>7 DEF handoff, core, TypeOK
  <1>3. CASE Callback
    BY <1>3 DEF Callback, toxcore, core, LossIsCounted
  <1>4. CASE Iterated
    <2>1. worker' \in Thread
      BY <1>4 DEF Iterated, Thread
    <2> QED BY <1>4, <2>1 DEF Iterated, handoff, core
  <1>5. CASE Waited
    <2>1. worker' \in Thread
      BY <1>5 DEF Waited, Thread
    <2> QED BY <1>5, <2>1 DEF Waited, handoff, core
  <1>6. CASE Change
    <2>1. changes' \in 0..MaxChanges
      BY <1>6 DEF Change
    <2>2. worker' \in Thread
      BY <1>6, <2>1 DEF Change, Thread, Serving
    <2>4. latest' \in Savedata
      BY <1>6, <2>1 DEF Change, Savedata
    <2>3. commands' \in Seq(Command) /\ reply' \in Replies
      BY <1>6, AnswersTyped DEF Change, Serving
    <2> QED BY <1>6, <2>1, <2>2, <2>3, <2>4 DEF Change, handoff, core
  <1>7. CASE Read
    <2>1. worker' \in Thread
      BY <1>7 DEF Read, Thread
    <2>2. commands' \in Seq(Command) /\ reply' \in Replies
      BY <1>7, AnswersTyped DEF Read, Serving
    <2> QED BY <1>7, <2>1, <2>2 DEF Read, handoff, core
  <1>8. CASE Save
    <2>1. worker' \in Thread
      BY <1>8 DEF Save, Thread
    <2>2. savedata' \in Savedata
      BY SMTT(30), <1>8 DEF Save, Saves, Thread, Savedata, core
    <2>3. commands' \in Seq(Command) /\ reply' \in Replies
      BY <1>8, AnswersTyped DEF Save, Serving
    <2> QED BY <1>8, <2>1, <2>2, <2>3 DEF Save, handoff, core
  <1>9. CASE Shutdown
    <2>1. worker' \in Thread
      BY <1>9 DEF Shutdown, Leaves, NoWorker, Thread
    <2>2. savedata' \in Savedata
      BY <1>9 DEF Shutdown, Saves, Thread, Savedata, core
    <2>3. commands' \in Seq(Command) /\ reply' \in Replies /\ open' \in BOOLEAN
      BY <1>9, LeavesTyped DEF Shutdown
    <2> QED BY <1>9, <2>1, <2>2, <2>3 DEF Shutdown, handoff, core
  <1>10. CASE Ready
    BY <1>10 DEF Ready, toxcore, handoff
  <1>11. CASE StartFails
    <2>1. worker' \in Thread
      BY <1>11 DEF StartFails, NoWorker, Thread
    <2> QED BY <1>11, <2>1 DEF StartFails, handoff
  <1>12. CASE ActorAsks
    <2>1. commands' \in Seq(Command) /\ reply' \in Replies
      BY <1>12, AskTyped DEF ActorAsks, Askers
    <2> QED BY <1>12, <2>1 DEF ActorAsks, handoff
  <1>13. CASE ActorAnswered
    <2>1. reply' \in Replies
      BY <1>13 DEF ActorAnswered, Forget, Replies
    <2> QED BY <1>13, <2>1 DEF ActorAnswered, handoff
  <1>14. CASE ActorTakes
    BY <1>14 DEF ActorTakes, toxcore, handoff
  <1>15. CASE ActorStops
    <2>1. open' \in BOOLEAN /\ listens' \in BOOLEAN /\ stop' \in BOOLEAN
      BY <1>15 DEF ActorStops, toxcore
    <2> QED BY <1>15, <2>1 DEF ActorStops, toxcore, handoff
  <1>16. CASE ActorEnds
    BY <1>16 DEF ActorEnds, toxcore, handoff
  <1>17. CASE Poll
    BY <1>17 DEF Poll, toxcore, core, LossIsCounted
  <1>18. CASE BridgeAsks
    <2>1. commands' \in Seq(Command) /\ reply' \in Replies
      BY <1>18, AskTyped DEF BridgeAsks, Askers, Kinds
    <2> QED BY <1>18, <2>1 DEF BridgeAsks, handoff, core
  <1>19. CASE BridgeAnswered
    <2>1. reply' \in Replies
      BY <1>19 DEF BridgeAnswered, Forget, Replies
    <2> QED BY <1>19, <2>1 DEF BridgeAnswered, handoff, core
  <1>20. CASE Forward
    BY <1>20 DEF Forward, toxcore, handoff
  <1>21. CASE BridgeStops
    <2>1. commands' \in Seq(Command) /\ reply' \in Replies
      BY <1>21, AskTyped DEF BridgeStops, Askers, Kinds
    <2> QED BY <1>21, <2>1 DEF BridgeStops, handoff, core
  <1>22. CASE BridgeJoins
    <2>1. reply' \in Replies
      BY <1>22 DEF BridgeJoins, Forget, Replies
    <2> QED BY <1>22, <2>1 DEF BridgeJoins, handoff, core
  <1>23. CASE BridgeEnds
    BY <1>23 DEF BridgeEnds, toxcore, handoff, core
  <1>24. CASE Crash
    <2>1. worker' \in Thread
      BY <1>24 DEF Crash, NoWorker, Thread
    <2>2. commands' \in Seq(Command)
      BY <1>24 DEF Crash
    <2>3. reply' \in Replies
      BY <1>24 DEF Crash, Replies, Askers
    <2>4. open' \in BOOLEAN /\ listens' \in BOOLEAN /\ stop' \in BOOLEAN
      BY <1>24 DEF Crash
    <2> QED BY <1>24, <2>1, <2>2, <2>3, <2>4 DEF Crash, handoff
  <1>25. CASE UNCHANGED vars
    BY <1>25 DEF vars, toxcore, handoff, core
  <1> QED BY <1>1, <1>2, <1>3, <1>4, <1>5, <1>6, <1>7, <1>8, <1>9, <1>10, <1>11, <1>12,
      <1>13, <1>14, <1>15, <1>16, <1>17, <1>18, <1>19, <1>20, <1>21, <1>22, <1>23,
      <1>24, <1>25
      DEF Next, Worker, Bridge, Actor

(* Nobody is left when the actor is done, and the savedata fits. *)
LEMMA OwnedStep ==
  ASSUME TypeOK, Owned, SavedFits, Recorded, [Next]_vars
  PROVE  Owned' /\ SavedFits'
  <1> USE ToxWorkerAssumption
      DEF TypeOK, Savedata, Thread, Owned, SavedFits, Recorded, Running, past
  <1>1. CASE Start
    BY SMTT(30), <1>1 DEF Start, NoWorker
  <1>2. CASE Load
    BY <1>2 DEF Load, handoff, core, Loads, NoWorker, None, Refused
  <1>3. CASE Callback
    BY <1>3 DEF Callback, toxcore, core
  <1>4. CASE Iterated
    BY <1>4 DEF Iterated, handoff, core
  <1>5. CASE Waited
    BY <1>5 DEF Waited, handoff, core
  <1>6. CASE Change
    <2>1. worker'.at = "iterate" /\ worker.at = "receive"
      BY <1>6 DEF Change, Serving
    <2>2. UNCHANGED <<run, savedata, actor, bridge, outcome>>
      BY <1>6 DEF Change, core
    <2>3. changes' = changes + 1 \/ changes' = changes
      BY <1>6 DEF Change
    <2>4. changes <= changes'
      BY ONLY <2>3, ToxWorkerAssumption, TypeOK DEF TypeOK
    <2>5. Owned'
      BY <2>1, <2>2
    <2>6. SavedFits'
      <3> HIDE DEF Owned, Recorded
      <3> QED BY <2>2, <2>3, <2>4
    <2> QED BY <2>5, <2>6
  <1>7. CASE Read
    BY <1>7 DEF Read, handoff, core, Serving
  <1>8. CASE Save
    BY SMTT(30), <1>8 DEF Save, handoff, core, Saves, Serving
  <1>9. CASE Shutdown
    BY SMTT(30), <1>9 DEF Shutdown, handoff, core, Saves, Serving, Leaves, NoWorker
  <1>10. CASE Ready
    BY <1>10 DEF Ready, toxcore, handoff
  <1>11. CASE StartFails
    BY <1>11 DEF StartFails, handoff, NoWorker
  <1>12. CASE ActorAsks
    BY <1>12 DEF ActorAsks, handoff
  <1>13. CASE ActorAnswered
    BY <1>13 DEF ActorAnswered, handoff
  <1>14. CASE ActorTakes
    BY <1>14 DEF ActorTakes, toxcore, handoff
  <1>15. CASE ActorStops
    BY <1>15 DEF ActorStops, toxcore, handoff
  <1>16. CASE ActorEnds
    BY <1>16 DEF ActorEnds, toxcore, handoff
  <1>17. CASE Poll
    BY <1>17 DEF Poll, toxcore, core
  <1>18. CASE BridgeAsks
    BY <1>18 DEF BridgeAsks, handoff, core
  <1>19. CASE BridgeAnswered
    BY <1>19 DEF BridgeAnswered, handoff, core
  <1>20. CASE Forward
    BY <1>20 DEF Forward, toxcore, handoff
  <1>21. CASE BridgeStops
    BY <1>21 DEF BridgeStops, handoff, core
  <1>22. CASE BridgeJoins
    BY <1>22 DEF BridgeJoins, handoff, core
  <1>23. CASE BridgeEnds
    BY <1>23 DEF BridgeEnds, toxcore, handoff, core
  <1>24. CASE Crash
    BY <1>24 DEF Crash, handoff, NoWorker
  <1>25. CASE UNCHANGED vars
    BY <1>25 DEF vars, toxcore, handoff, core
  <1> QED BY <1>1, <1>2, <1>3, <1>4, <1>5, <1>6, <1>7, <1>8, <1>9, <1>10, <1>11, <1>12,
      <1>13, <1>14, <1>15, <1>16, <1>17, <1>18, <1>19, <1>20, <1>21, <1>22, <1>23,
      <1>24, <1>25
      DEF Next, Worker, Bridge, Actor
(* A change is in the memory of the worker, and a save or the end carries it    *)
(* to the disk: what is there is never ahead of the worker, nor of another.     *)
LEMMA KnownStep ==
  ASSUME TypeOK, Owned, SavedFits, Recorded, Follows, Left, [Next]_vars
  PROVE  Recorded' /\ Follows' /\ Left'
  <1> USE ToxWorkerAssumption
      DEF TypeOK, Savedata, Thread, Owned, SavedFits, Recorded, Follows, Left, Running, None, past
  <1>1. CASE Start
    BY <1>1 DEF Start, NoWorker
  <1>2. CASE Load
    BY SMTT(30), <1>2 DEF Load, handoff, core, Loads, NoWorker, None, Refused
  <1>3. CASE Callback
    BY <1>3 DEF Callback, toxcore, core
  <1>4. CASE Iterated
    BY <1>4 DEF Iterated, handoff, core
  <1>5. CASE Waited
    BY <1>5 DEF Waited, handoff, core
  <1>6. CASE Change
    <2>1. worker.at = "receive" /\ worker'.at = "iterate" /\ worker'.id = worker.id
      BY <1>6 DEF Change, Serving
    <2>2. UNCHANGED <<savedata, blind>>
      BY <1>6 DEF Change
    <2>3. CASE /\ changes' = changes + 1
               /\ worker' = [worker EXCEPT !.at = "iterate", !.changes = changes + 1]
               /\ latest' = [latest EXCEPT !.changes = changes + 1]
      BY <2>1, <2>2, <2>3
    <2>4. CASE worker' = [worker EXCEPT !.at = "iterate"] /\ UNCHANGED <<changes, latest>>
      BY <2>1, <2>2, <2>4
    <2> QED BY <1>6, <2>3, <2>4 DEF Change
  <1>7. CASE Read
    BY <1>7 DEF Read, handoff, core, Serving
  <1>8. CASE Save
    BY <1>8 DEF Save, handoff, core, Saves, Serving
  <1>9. CASE Shutdown
    BY <1>9 DEF Shutdown, handoff, core, Saves, Serving, Leaves, NoWorker
  <1>10. CASE Ready
    BY <1>10 DEF Ready, toxcore, handoff
  <1>11. CASE StartFails
    BY <1>11 DEF StartFails, handoff, NoWorker
  <1>12. CASE ActorAsks
    BY <1>12 DEF ActorAsks, handoff
  <1>13. CASE ActorAnswered
    BY <1>13 DEF ActorAnswered, handoff
  <1>14. CASE ActorTakes
    BY <1>14 DEF ActorTakes, toxcore, handoff
  <1>15. CASE ActorStops
    BY <1>15 DEF ActorStops, toxcore, handoff
  <1>16. CASE ActorEnds
    BY <1>16 DEF ActorEnds, toxcore, handoff
  <1>17. CASE Poll
    BY <1>17 DEF Poll, toxcore, core
  <1>18. CASE BridgeAsks
    BY <1>18 DEF BridgeAsks, handoff, core
  <1>19. CASE BridgeAnswered
    BY <1>19 DEF BridgeAnswered, handoff, core
  <1>20. CASE Forward
    BY <1>20 DEF Forward, toxcore, handoff
  <1>21. CASE BridgeStops
    BY <1>21 DEF BridgeStops, handoff, core
  <1>22. CASE BridgeJoins
    BY <1>22 DEF BridgeJoins, handoff, core
  <1>23. CASE BridgeEnds
    BY <1>23 DEF BridgeEnds, toxcore, handoff, core
  <1>24. CASE Crash
    BY <1>24 DEF Crash, handoff, NoWorker
  <1>25. CASE UNCHANGED vars
    BY <1>25 DEF vars, toxcore, handoff, core
  <1> QED BY <1>1, <1>2, <1>3, <1>4, <1>5, <1>6, <1>7, <1>8, <1>9, <1>10, <1>11, <1>12,
      <1>13, <1>14, <1>15, <1>16, <1>17, <1>18, <1>19, <1>20, <1>21, <1>22, <1>23,
      <1>24, <1>25
      DEF Next, Worker, Bridge, Actor
(* A callback is counted wherever it goes. *)
LEMMA CountStep ==
  ASSUME TypeOK, LossIsCounted, [Next]_vars
  PROVE  LossIsCounted'
  <1> USE ToxWorkerAssumption DEF TypeOK, LossIsCounted, past
  <1>1. CASE Start
    BY <1>1 DEF Start
  <1>2. CASE Load
    BY <1>2 DEF Load, handoff, core, Loads, NoWorker, None, Refused
  <1>3. CASE Callback
    BY <1>3 DEF Callback, toxcore, core
  <1>4. CASE Iterated
    BY <1>4 DEF Iterated, handoff, core
  <1>5. CASE Waited
    BY <1>5 DEF Waited, handoff, core
  <1>6. CASE Change
    BY <1>6 DEF Change, handoff, core, Serving
  <1>7. CASE Read
    BY <1>7 DEF Read, handoff, core, Serving
  <1>8. CASE Save
    BY <1>8 DEF Save, handoff, core, Saves, Serving
  <1>9. CASE Shutdown
    BY <1>9 DEF Shutdown, handoff, core, Saves, Serving
  <1>10. CASE Ready
    BY <1>10 DEF Ready, toxcore, handoff
  <1>11. CASE StartFails
    BY <1>11 DEF StartFails, handoff
  <1>12. CASE ActorAsks
    BY <1>12 DEF ActorAsks, handoff
  <1>13. CASE ActorAnswered
    BY <1>13 DEF ActorAnswered, handoff
  <1>14. CASE ActorTakes
    BY <1>14 DEF ActorTakes, toxcore, handoff
  <1>15. CASE ActorStops
    BY <1>15 DEF ActorStops, toxcore, handoff
  <1>16. CASE ActorEnds
    BY <1>16 DEF ActorEnds, toxcore, handoff
  <1>17. CASE Poll
    BY <1>17 DEF Poll, toxcore, core
  <1>18. CASE BridgeAsks
    BY <1>18 DEF BridgeAsks, handoff, core
  <1>19. CASE BridgeAnswered
    BY <1>19 DEF BridgeAnswered, handoff, core
  <1>20. CASE Forward
    BY <1>20 DEF Forward, toxcore, handoff
  <1>21. CASE BridgeStops
    BY <1>21 DEF BridgeStops, handoff, core
  <1>22. CASE BridgeJoins
    BY <1>22 DEF BridgeJoins, handoff, core
  <1>23. CASE BridgeEnds
    BY <1>23 DEF BridgeEnds, toxcore, handoff, core
  <1>24. CASE Crash
    BY <1>24 DEF Crash, handoff
  <1>25. CASE UNCHANGED vars
    BY <1>25 DEF vars, toxcore, handoff, core
  <1> QED BY <1>1, <1>2, <1>3, <1>4, <1>5, <1>6, <1>7, <1>8, <1>9, <1>10, <1>11, <1>12,
      <1>13, <1>14, <1>15, <1>16, <1>17, <1>18, <1>19, <1>20, <1>21, <1>22, <1>23,
      <1>24, <1>25
      DEF Next, Worker, Bridge, Actor

(* The initial states satisfy the invariant. *)
LEMMA InitInv == Init => IInv
  <1> SUFFICES ASSUME Init PROVE IInv
    OBVIOUS
  <1> USE ToxWorkerAssumption DEF Init
  <1>1. savedata \in Savedata /\ worker \in Thread
    BY DEF Savedata, Thread, None, Refused, NoWorker
  <1>2. commands \in Seq(Command) /\ reply \in Replies
    BY DEF Replies
  <1>3. open \in BOOLEAN /\ listens \in BOOLEAN /\ stop \in BOOLEAN
    OBVIOUS
  <1>7. latest \in Savedata
    BY DEF None, Savedata
  <1>8. /\ run \in 0..MaxRuns /\ events \in 0..EventCapacity /\ inbox \in 0..InboxCapacity
        /\ raised \in 0..MaxRaised /\ taken \in 0..MaxRaised /\ dropped \in 0..MaxRaised
        /\ changes \in 0..MaxChanges
    OBVIOUS
  <1>9. /\ bridge \in {"gone", "poll", "ask", "asked", "forward", "stopping", "joining"}
        /\ actor \in {"off", "starting", "idle", "asked", "closing"}
        /\ outcome \in {"none", "running", "ended", "failed", "killed"}
        /\ blind \in BOOLEAN /\ unwritten \in BOOLEAN
    OBVIOUS
  <1>4. TypeOK
    BY ONLY <1>1, <1>2, <1>3, <1>7, <1>8, <1>9 DEF TypeOK
  <1>5. LossIsCounted /\ SavedFits /\ Owned
    BY DEF LossIsCounted, SavedFits, Owned, None, Refused, NoWorker
  <1>6. Recorded /\ Follows /\ Left
    BY DEF Recorded, Follows, Left, Running, NoWorker
  <1> QED BY <1>4, <1>5, <1>6 DEF IInv

(* The invariant holds of every behaviour. *)
LEMMA Invariant == Spec => []IInv
  <1>1. IInv /\ [Next]_vars => IInv'
    BY TypeStep, OwnedStep, KnownStep, CountStep DEF IInv
  <1> QED BY InitInv, <1>1, PTL DEF Spec

(* The type invariant, of every step of the worker, its bridge and the actor. *)
THEOREM WorkerTypeCorrect == Spec => []TypeOK
  BY Invariant, PTL DEF IInv

(* Every callback is in the hand-off, was taken, or is counted as dropped       *)
(* (send_event).                                                             *)
THEOREM LossIsAlwaysCounted == Spec => []LossIsCounted
  BY Invariant, PTL DEF IInv

(* After every orderly end whose last write succeeded the savedata is what       *)
(* toxcore held last, whatever crashes, failed saves and failed starts came      *)
(* before (Worker::handle, run_worker, ToxTransport::shutdown).                  *)
THEOREM OrderlyEndIsSaved == Spec => []EndIsSaved
  <1>1. IInv => EndIsSaved
    BY DEF IInv, Owned, Left, EndIsSaved
  <1> QED BY <1>1, Invariant, PTL

(* A savedata is never replaced by another identity nor by an older state of     *)
(* its own, in any run that could read it or found none (run_worker).            *)
THEOREM IdentityIsKept == Spec => IdentityStays
  <1>1. IInv /\ [Next]_vars =>
          [~blind /\ savedata # None =>
             savedata'.id = savedata.id /\ savedata'.changes >= savedata.changes]_vars
    <2> SUFFICES ASSUME IInv, Next, ~blind, savedata # None
                 PROVE  savedata'.id = savedata.id /\ savedata'.changes >= savedata.changes
      OBVIOUS
    <2>1. CASE Save
      BY <2>1 DEF Save, Saves, Serving, IInv, TypeOK, Savedata, Follows, Running
    <2>2. CASE Shutdown
      BY <2>2 DEF Shutdown, Saves, Serving, IInv, TypeOK, Savedata, Follows, Running
    <2>3. CASE ~Save /\ ~Shutdown
      <3>1. savedata' = savedata
        BY <2>3 DEF Next, Worker, Bridge, Actor, Start, Load, Callback, Iterated, Waited, Change,
                    Read, Poll, BridgeAsks, BridgeAnswered, Forward, BridgeStops, BridgeJoins,
                    BridgeEnds, Ready, StartFails, ActorAsks, ActorAnswered, ActorTakes,
                    ActorStops, ActorEnds, Crash, toxcore
      <3> QED BY <3>1 DEF IInv, TypeOK, Savedata
    <2> QED BY <2>1, <2>2, <2>3
  <1> QED BY <1>1, Invariant, PTL DEF Spec, IdentityStays

-----------------------------------------------------------------------------
(* The offline queue                                                           *)
(* The elements of a queue are in the order they were taken in. *)
Rising(q) == \A i, j \in 1..Len(q) : i < j => q[i] < q[j]
Below(A, B) == \A a \in A, b \in B : a < b

(* A task at rest is idle, who writes holds the lock, and the payload the      *)
(* bridge holds is for the friend it flushes.                                  *)
TasksInv ==
  /\ \A t \in Tasks : task[t].at = "write" => lock.by = t
  /\ task["bridge"].hand # 0 <=> task["bridge"].at = "send"
  /\ task["bridge"].op = "online" => task["bridge"].friend \in Friends
  /\ task["bridge"].at \in {"prune", "flush", "send"} => task["bridge"].friend \in Friends
  /\ task["actor"].at \in {"refused", "push"} =>
       task["actor"].friend \in Friends /\ next <= MaxMsg
  /\ \A t \in Tasks : task[t].at = "idle" => task[t] = Idle

(* Between two runs there are only the files. *)
DownInv == ~process.up =>
  /\ online = {} /\ requests = {} /\ lock = Unlocked
  /\ outbox = [f \in Friends |-> <<>>] /\ sent = [f \in Friends |-> <<>>]
  /\ \A t \in Tasks : task[t] = Idle

(* What toxcore took is before what the bridge holds, and that before what     *)
(* waits; every file that was or will be written is in order.                  *)
InLine(s, h, o, n) ==
  /\ Rising(s) /\ Rising(o)
  /\ Below(ToSet(s), h) /\ Below(h, ToSet(o)) /\ Below(ToSet(s), ToSet(o))
  /\ Below(ToSet(s) \cup h \cup ToSet(o), {n})
Written(q, n) == Rising(q) /\ Below(ToSet(q), {n})
QueueInv == \A f \in Friends :
  /\ InLine(sent[f], Offered(f), outbox[f], next)
  /\ Written(disk.outbox[f], next) /\ Written(lock.file.outbox[f], next)

(* A change of the requests is written, or a task is about to write it.        *)
Persists == \E t \in Tasks : task[t].at = "persist"
RequestInv == process.up =>
  /\ \A t \in Tasks : task[t].at = "write" =>
       lock.file.requests = requests \/ \E o \in Tasks : o # t /\ task[o].at = "persist"
  /\ ~failed => disk.requests = requests \/ Persists \/ \E t \in Tasks : task[t].at = "write"

(* A delivery is written, or the bridge will write it.                         *)
Counted ==
  \/ task["bridge"].at = "persist"
  \/ task["bridge"].at \in {"flush", "send"} /\ task["bridge"].changed
DeliverInv == process.up =>
  \A f \in Friends :
    /\ (\E t \in Tasks : task[t].at = "write") =>
         Counted \/ ToSet(lock.file.outbox[f]) \cap ToSet(sent[f]) = {}
    /\ ~failed => \/ Counted \/ task["bridge"].at = "write"
                  \/ ToSet(disk.outbox[f]) \cap ToSet(sent[f]) = {}

(* No two payloads anywhere share an id, and the next one is past them all.    *)
Named == Held \cup Contents(disk.outbox) \cup Contents(lock.file.outbox)
IdInv ==
  /\ \A b, d \in Named : idOf[b] = idOf[d] => b = d
  /\ \A b \in Named : b < next /\ idOf[b] < next
  /\ process.up => \A b \in Named : idOf[b] < nextId
  /\ nextId <= next /\ disk.nextId <= next /\ lock.file.nextId <= next

StoreInv == QueueTypeOK /\ TasksInv /\ DownInv /\ QueueInv /\ RequestInv /\ DeliverInv /\ IdInv
-----------------------------------------------------------------------------
(* Queues in order                                                             *)

LEMMA Smallest ==
  ASSUME NEW T, T \subseteq Nat, T # {}
  PROVE  \E x \in T : \A y \in T : x <= y
  <1> DEFINE R == OpToRel(<, Nat)
  <1>1. IsWellFoundedOn(R, Nat)
    BY NatLessThanWellFounded
  <1>2. \A x, y \in Nat : <<y, x>> \in R <=> y < x
    BY DEF OpToRel
  <1> HIDE DEF R
  <1>3. PICK x \in T : \A y \in T : <<y, x>> \notin R
    BY ONLY <1>1, T \subseteq Nat, T # {}, WFMin
  <1>4. ASSUME NEW y \in T PROVE x <= y
    <2>1. x \in Nat /\ y \in Nat /\ <<y, x>> \notin R
      BY <1>3
    <2>2. ~(y < x)
      BY <1>2, <2>1
    <2> QED BY <2>1, <2>2
  <1> QED BY <1>4

(* A set of places can be gone through in their order: there is no smallest    *)
(* bound under which one cannot.                                               *)
Increases(p, n, K) == p \in [1..n -> K] /\ \A i, j \in 1..n : i < j => p[i] < p[j]

LEMMA PlacesFinite ==
  ASSUME NEW n \in Nat, NEW K \in SUBSET (1..n)
  PROVE  IsFiniteSet(K) /\ Cardinality(K) \in Nat
  <1>1. IsFiniteSet(1..n)
    BY FS_Interval
  <1> QED BY <1>1, FS_Subset, FS_CardinalityType

LEMMA OrderExists ==
  ASSUME NEW n \in Nat, NEW K \in SUBSET (1..n)
  PROVE  \E p : Increases(p, Cardinality(K), K)
  <1> DEFINE Bad == {m \in Nat : \E L \in SUBSET (1..m) :
                       ~ \E p : Increases(p, Cardinality(L), L)}
  <1>1. SUFFICES ASSUME Bad # {} PROVE FALSE
    OBVIOUS
  <1>2. PICK m \in Bad : \A k \in Bad : m <= k
    <2>1. Bad \subseteq Nat
      OBVIOUS
    <2> HIDE DEF Bad
    <2> QED BY <1>1, <2>1, Smallest
  <1>3. PICK L \in SUBSET (1..m) : ~ \E p : Increases(p, Cardinality(L), L)
    OBVIOUS
  <1>4. m \in Nat
    OBVIOUS
  <1>5. m # 0
    <2> SUFFICES ASSUME m = 0 PROVE FALSE
      OBVIOUS
    <2>1. L = {}
      BY <1>3
    <2>2. Cardinality(L) = 0
      BY ONLY <2>1, FS_EmptySet
    <2>3. Increases([i \in 1..0 |-> 0], Cardinality(L), L)
      BY <2>1, <2>2 DEF Increases
    <2> QED BY <1>3, <2>3
  <1>6. ASSUME NEW M \in SUBSET (1..(m - 1))
        PROVE  \E p : Increases(p, Cardinality(M), M)
    <2>1. m - 1 \in Nat /\ ~(m <= m - 1)
      BY <1>4, <1>5
    <2>2. m - 1 \notin Bad
      BY <1>2, <2>1
    <2> QED BY <2>1, <2>2
  <1> HIDE DEF Bad
  <1>7. CASE m \notin L
    <2>1. L \in SUBSET (1..(m - 1))
      BY <1>3, <1>4, <1>7
    <2> QED BY <1>3, <1>6, <2>1
  <1>8. CASE m \in L
    <2> DEFINE M == L \ {m}
               c == Cardinality(M)
    <2>1. M \in SUBSET (1..(m - 1))
      BY <1>3, <1>4
    <2>2. PICK p : Increases(p, c, M)
      BY <1>6, <2>1
    <2>3. c \in Nat /\ Cardinality(L) = c + 1
      <3>1. IsFiniteSet(L) /\ Cardinality(L) \in Nat
        BY <1>3, <1>4, PlacesFinite
      <3>2. IsFiniteSet(M) /\ Cardinality(M) = Cardinality(L) - 1
        BY <1>8, <3>1, FS_RemoveElement
      <3>3. Cardinality(M) \in Nat
        BY <3>2, FS_CardinalityType
      <3> QED BY <3>1, <3>2, <3>3
    <2> DEFINE q == [i \in 1..c + 1 |-> IF i = c + 1 THEN m ELSE p[i]]
    <2> HIDE DEF c
    <2>4. q \in [1..c + 1 -> L]
      BY <1>8, <2>2, <2>3 DEF Increases
    <2>5. \A i \in 1..c : q[i] = p[i] /\ p[i] \in M
      BY <2>2, <2>3 DEF Increases
    <2>6. q[c + 1] = m
      BY <2>3
    <2> HIDE DEF q
    <2>7. ASSUME NEW i \in 1..c + 1, NEW j \in 1..c + 1, i < j PROVE q[i] < q[j]
      <3>1. i \in 1..c
        BY <2>3, <2>7
      <3>2. CASE j \in 1..c
        BY <2>2, <2>5, <2>7, <3>1, <3>2 DEF Increases
      <3>3. CASE j = c + 1
        <4>1. q[i] \in 1..(m - 1)
          BY <2>1, <2>5, <3>1
        <4> QED BY <1>4, <2>6, <3>3, <4>1
      <3> QED BY <2>3, <3>2, <3>3
    <2>8. Increases(q, Cardinality(L), L)
      BY <2>3, <2>4, <2>7 DEF Increases
    <2> QED BY <1>3, <2>8
  <1> QED BY <1>7, <1>8

LEMMA InOrderIncreases ==
  ASSUME NEW n \in Nat, NEW K \in SUBSET (1..n)
  PROVE  Increases(InOrder(K), Cardinality(K), K)
  <1>1. \E p \in [1..Cardinality(K) -> K] :
          \A i, j \in 1..Cardinality(K) : i < j => p[i] < p[j]
    BY OrderExists DEF Increases
  <1> QED BY <1>1 DEF InOrder, Increases

LEMMA Elements ==
  ASSUME NEW S, NEW q \in Seq(S)
  PROVE  /\ Len(q) \in Nat /\ ToSet(q) \subseteq S
         /\ \A i \in 1..Len(q) : q[i] \in ToSet(q) /\ q[i] \in S
         /\ \A x \in ToSet(q) : \E i \in 1..Len(q) : x = q[i]
  BY LenProperties DEF ToSet

(* What is left of a queue in order is in order. *)
Part(s, q) == /\ s \in Seq(Payloads) /\ ToSet(s) \subseteq ToSet(q)
              /\ Rising(q) => Rising(s)

LEMMA EmptyPart ==
  ASSUME NEW q
  PROVE  Part(<<>>, q) /\ ToSet(<<>>) = {} /\ Rising(<<>>) /\ <<>> \in Seq(Payloads)
  <1>1. <<>> \in Seq(Payloads) /\ Len(<<>>) = 0
    BY EmptySeq
  <1>2. ToSet(<<>>) = {}
    <2>1. \A x \in ToSet(<<>>) : \E i \in 1..Len(<<>>) : x = <<>>[i]
      BY ONLY <1>1, Elements
    <2> QED BY <1>1, <2>1
  <1> QED BY <1>1, <1>2 DEF Part, Rising

LEMMA FreshPart ==
  ASSUME NEW q \in Seq(Payloads)
  PROVE  Part(Fresh(q), q)
  <1> DEFINE young == {i \in 1..Len(q) : q[i] > aged}
             n == Cardinality(young)
             p == InOrder(young)
  <1>1. Len(q) \in Nat /\ young \in SUBSET (1..Len(q))
    BY LenProperties
  <1>2. n \in Nat /\ Increases(p, n, young)
    BY <1>1, PlacesFinite, InOrderIncreases
  <1>3. Fresh(q) = [i \in 1..n |-> q[p[i]]]
    BY DEF Fresh
  <1>4. \A i \in 1..n : p[i] \in 1..Len(q)
    BY <1>1, <1>2 DEF Increases
  <1> HIDE DEF n, p
  <1>5. \A i \in 1..Len(q) : q[i] \in Payloads /\ q[i] \in ToSet(q)
    BY Elements
  <1>6. Fresh(q) \in Seq(Payloads) /\ Len(Fresh(q)) = n /\ \A i \in 1..n : Fresh(q)[i] = q[p[i]]
    <2>1. Fresh(q) \in [1..n -> Payloads]
      BY <1>3, <1>4, <1>5
    <2>2. Fresh(q) \in Seq(Payloads) /\ DOMAIN Fresh(q) = 1..n
      BY <1>2, <2>1, SeqDef
    <2>3. Len(Fresh(q)) = n
      BY <1>2, <2>2, LenProperties
    <2> QED BY <1>3, <2>2, <2>3
  <1>7. ToSet(Fresh(q)) \subseteq ToSet(q)
    BY <1>4, <1>5, <1>6, Elements
  <1>8. ASSUME Rising(q) PROVE Rising(Fresh(q))
    BY <1>2, <1>4, <1>6, <1>8 DEF Rising, Increases
  <1> QED BY <1>6, <1>7, <1>8 DEF Part

LEMMA PayloadsAreNumbers == Payloads \subseteq Nat \ {0} /\ MaxMsg \in Nat
  BY ToxQueueAssumption DEF Payloads

LEMMA FirstTaken ==
  ASSUME NEW q \in Seq(Payloads), q # <<>>
  PROVE  /\ Head(q) \in Payloads /\ Tail(q) \in Seq(Payloads)
         /\ ToSet(q) = {Head(q)} \cup ToSet(Tail(q))
         /\ Rising(q) => Rising(Tail(q)) /\ Below({Head(q)}, ToSet(Tail(q)))
  <1>1. Len(q) \in Nat \ {0}
    BY EmptySeq
  <1>2. /\ Head(q) \in Payloads /\ Tail(q) \in Seq(Payloads) /\ Head(q) = q[1]
        /\ Len(Tail(q)) = Len(q) - 1 /\ \A i \in 1..Len(q) - 1 : Tail(q)[i] = q[i + 1]
    BY <1>1, HeadTailProperties
  <1>3. /\ \A i \in 1..Len(q) : q[i] \in ToSet(q)
        /\ \A x \in ToSet(q) : \E i \in 1..Len(q) : x = q[i]
        /\ \A i \in 1..Len(Tail(q)) : Tail(q)[i] \in ToSet(Tail(q))
        /\ \A x \in ToSet(Tail(q)) : \E i \in 1..Len(Tail(q)) : x = Tail(q)[i]
    BY <1>2, Elements
  <1>4. ToSet(q) \subseteq {Head(q)} \cup ToSet(Tail(q))
    <2> SUFFICES ASSUME NEW i \in 1..Len(q) PROVE q[i] \in {Head(q)} \cup ToSet(Tail(q))
      BY <1>3
    <2>1. CASE i = 1
      BY <1>2, <2>1
    <2>2. CASE i # 1
      <3>1. i - 1 \in 1..Len(Tail(q)) /\ (i - 1) + 1 = i
        BY <1>1, <1>2, <2>2
      <3> QED BY <1>2, <1>3, <3>1
    <2> QED BY <2>1, <2>2
  <1>5. {Head(q)} \cup ToSet(Tail(q)) \subseteq ToSet(q)
    <2>1. 1 \in 1..Len(q) /\ \A i \in 1..Len(Tail(q)) : i + 1 \in 1..Len(q)
      BY <1>1, <1>2
    <2> QED BY <1>2, <1>3, <2>1
  <1>6. ASSUME Rising(q) PROVE Rising(Tail(q)) /\ Below({Head(q)}, ToSet(Tail(q)))
    <2>1. \A i \in 1..Len(Tail(q)) : i + 1 \in 1..Len(q) /\ 1 \in 1..Len(q) /\ 1 < i + 1
      BY <1>1, <1>2
    <2>2. Rising(Tail(q))
      BY <1>2, <1>6, <2>1 DEF Rising
    <2>3. Below({Head(q)}, ToSet(Tail(q)))
      BY <1>2, <1>3, <1>6, <2>1 DEF Rising, Below
    <2> QED BY <2>2, <2>3
  <1> QED BY <1>2, <1>4, <1>5, <1>6

LEMMA LastAdded ==
  ASSUME NEW q \in Seq(Payloads), NEW b \in Payloads
  PROVE  /\ Append(q, b) \in Seq(Payloads)
         /\ ToSet(Append(q, b)) = ToSet(q) \cup {b}
         /\ Rising(q) /\ Below(ToSet(q), {b}) => Rising(Append(q, b))
  <1> DEFINE r == Append(q, b)
  <1>1. /\ r \in Seq(Payloads) /\ Len(q) \in Nat /\ Len(r) = Len(q) + 1
        /\ \A i \in 1..Len(q) : r[i] = q[i]
        /\ r[Len(q) + 1] = b
    BY LenProperties, AppendProperties
  <1> HIDE DEF r
  <1>2. /\ \A i \in 1..Len(q) : q[i] \in ToSet(q)
        /\ \A x \in ToSet(q) : \E i \in 1..Len(q) : x = q[i]
        /\ \A i \in 1..Len(r) : r[i] \in ToSet(r)
        /\ \A x \in ToSet(r) : \E i \in 1..Len(r) : x = r[i]
    BY <1>1, Elements
  <1>3. \A i \in 1..Len(r) : i \in 1..Len(q) \/ i = Len(q) + 1
    BY <1>1
  <1>4. \A i \in 1..Len(q) + 1 : i \in 1..Len(r)
    BY <1>1
  <1>5. ToSet(r) = ToSet(q) \cup {b}
    <2>1. ToSet(r) \subseteq ToSet(q) \cup {b}
      BY <1>1, <1>2, <1>3
    <2>2. \A i \in 1..Len(q) : i \in 1..Len(r)
      BY <1>1
    <2>3. Len(q) + 1 \in 1..Len(r)
      BY <1>1
    <2>4. b \in ToSet(r)
      BY <1>1, <1>2, <2>3
    <2>5. ToSet(q) \subseteq ToSet(r)
      BY <1>1, <1>2, <2>2
    <2> QED BY <2>1, <2>4, <2>5
  <1>6. ASSUME Rising(q), Below(ToSet(q), {b}) PROVE Rising(r)
    <2> SUFFICES ASSUME NEW i \in 1..Len(r), NEW j \in 1..Len(r), i < j PROVE r[i] < r[j]
      BY DEF Rising
    <2>1. i \in 1..Len(q)
      BY <1>1
    <2>2. CASE j \in 1..Len(q)
      BY <1>1, <1>6, <2>1, <2>2 DEF Rising
    <2>3. CASE j = Len(q) + 1
      BY <1>1, <1>2, <1>6, <2>1, <2>3 DEF Below
    <2> QED BY <1>3, <2>2, <2>3
  <1> QED BY <1>1, <1>5, <1>6 DEF r

LEMMA Joined ==
  ASSUME NEW p \in Seq(Payloads), NEW q \in Seq(Payloads)
  PROVE  /\ p \o q \in Seq(Payloads)
         /\ ToSet(p \o q) = ToSet(p) \cup ToSet(q)
         /\ Rising(p) /\ Rising(q) /\ Below(ToSet(p), ToSet(q)) => Rising(p \o q)
  <1> DEFINE r == p \o q
  <1>1. /\ r \in Seq(Payloads) /\ Len(p) \in Nat /\ Len(q) \in Nat /\ Len(r) = Len(p) + Len(q)
        /\ \A i \in 1..Len(r) : r[i] = IF i <= Len(p) THEN p[i] ELSE q[i - Len(p)]
    BY LenProperties, ConcatProperties
  <1> HIDE DEF r
  <1>2. /\ \A i \in 1..Len(p) : p[i] \in ToSet(p)
        /\ \A x \in ToSet(p) : \E i \in 1..Len(p) : x = p[i]
        /\ \A i \in 1..Len(q) : q[i] \in ToSet(q)
        /\ \A x \in ToSet(q) : \E i \in 1..Len(q) : x = q[i]
        /\ \A i \in 1..Len(r) : r[i] \in ToSet(r)
        /\ \A x \in ToSet(r) : \E i \in 1..Len(r) : x = r[i]
    BY <1>1, Elements
  <1>3. ASSUME NEW i \in 1..Len(r)
        PROVE  \/ i \in 1..Len(p) /\ r[i] = p[i]
               \/ i > Len(p) /\ i - Len(p) \in 1..Len(q) /\ r[i] = q[i - Len(p)]
    BY <1>1
  <1>4. ASSUME NEW i \in 1..Len(p) PROVE i \in 1..Len(r) /\ r[i] = p[i]
    BY <1>1
  <1>5. ASSUME NEW i \in 1..Len(q) PROVE Len(p) + i \in 1..Len(r) /\ r[Len(p) + i] = q[i]
    <2>1. Len(p) + i \in 1..Len(r) /\ ~(Len(p) + i <= Len(p)) /\ (Len(p) + i) - Len(p) = i
      BY <1>1
    <2> QED BY <1>1, <2>1
  <1>6. ToSet(r) = ToSet(p) \cup ToSet(q)
    <2>1. ToSet(r) \subseteq ToSet(p) \cup ToSet(q)
      BY <1>2, <1>3
    <2>2. ToSet(p) \subseteq ToSet(r)
      BY <1>2, <1>4
    <2>3. ToSet(q) \subseteq ToSet(r)
      BY <1>2, <1>5
    <2> QED BY <2>1, <2>2, <2>3
  <1>7. ASSUME Rising(p), Rising(q), Below(ToSet(p), ToSet(q)) PROVE Rising(r)
    <2> SUFFICES ASSUME NEW i \in 1..Len(r), NEW j \in 1..Len(r), i < j PROVE r[i] < r[j]
      BY DEF Rising
    <2>1. CASE i \in 1..Len(p) /\ j \in 1..Len(p)
      BY <1>4, <1>7, <2>1 DEF Rising
    <2>2. CASE i \in 1..Len(p) /\ j > Len(p)
      <3>1. r[i] \in ToSet(p) /\ r[j] \in ToSet(q)
        BY SMTT(30), <1>1, <1>2, <1>3, <2>2
      <3> QED BY <1>7, <3>1 DEF Below
    <2>3. CASE i > Len(p) /\ j > Len(p)
      <3>1. /\ i - Len(p) \in 1..Len(q) /\ j - Len(p) \in 1..Len(q)
            /\ i - Len(p) < j - Len(p)
            /\ r[i] = q[i - Len(p)] /\ r[j] = q[j - Len(p)]
        BY <1>1, <2>3
      <3> QED BY <1>7, <3>1 DEF Rising
    <2> QED BY <1>1, <2>1, <2>2, <2>3
  <1> QED BY <1>1, <1>6, <1>7 DEF r

LEMMA OneOnly ==
  ASSUME NEW b \in Payloads
  PROVE  <<b>> \in Seq(Payloads) /\ ToSet(<<b>>) = {b} /\ Rising(<<b>>)
  <1>1. <<b>> \in Seq(Payloads) /\ Len(<<b>>) = 1 /\ <<b>>[1] = b
    OBVIOUS
  <1>2. /\ \A i \in 1..1 : <<b>>[i] \in ToSet(<<b>>)
        /\ \A x \in ToSet(<<b>>) : \E i \in 1..1 : x = <<b>>[i]
    BY ONLY <1>1, Elements
  <1> QED BY <1>1, <1>2 DEF Rising

LEMMA RestoredPart ==
  ASSUME NEW f \in Friends, disk.outbox[f] \in Seq(Payloads)
  PROVE  Part(Restored(f), disk.outbox[f])
  <1> DEFINE q == disk.outbox[f]
             s == Fresh(q)
             n == Min({OutboxCapacity, Len(s)})
  <1>1. Part(s, q) /\ s \in Seq(Payloads)
    BY FreshPart DEF Part
  <1>2. CASE f \in saved
    <2>1. Len(s) \in Nat /\ OutboxCapacity \in Nat
      BY <1>1, LenProperties, ToxQueueAssumption
    <2>2. n \in Nat /\ n <= Len(s)
      <3> HIDE DEF s
      <3>1. n \in {OutboxCapacity, Len(s)} /\ \A y \in {OutboxCapacity, Len(s)} : n <= y
        <4>1. \E x \in {OutboxCapacity, Len(s)} : \A y \in {OutboxCapacity, Len(s)} : x <= y
          BY <2>1
        <4> QED BY <4>1 DEF Min
      <3> QED BY <2>1, <3>1
    <2>3. Restored(f) = SubSeq(s, 1, n)
      BY <1>2 DEF Restored
    <2> HIDE DEF s, n, q
    <2>4. \A i \in 1..n : s[i] \in Payloads
      BY <1>1, <2>1, <2>2, Elements
    <2>5. /\ Restored(f) \in Seq(Payloads) /\ Len(Restored(f)) = n
          /\ \A i \in 1..n : Restored(f)[i] = s[i]
      BY <2>1, <2>2, <2>3, <2>4, SubSeqProperties
    <2>6. ToSet(Restored(f)) \subseteq ToSet(s)
      BY <1>1, <2>1, <2>2, <2>5, Elements
    <2>7. Rising(s) => Rising(Restored(f))
      BY <2>1, <2>2, <2>5 DEF Rising
    <2> QED BY <1>1, <2>5, <2>6, <2>7 DEF Part, q
  <1>3. CASE f \notin saved
    BY <1>3, EmptyPart DEF Restored
  <1> QED BY <1>2, <1>3

-----------------------------------------------------------------------------
(* What the steps of the two tasks and the end of a run do                     *)

Standing == [at : {"idle", "seed", "store", "prune", "flush", "send", "refused",
                   "push", "spend", "persist", "write"},
             friend : Friends \cup {Nobody},
             op : {"none", "start", "send", "reject", "request", "accept", "tick",
                   "online", "offline"},
             seen : SUBSET Friends, hand : Payloads \cup {0}, changed : BOOLEAN]

LEMMA IdleStands == Idle \in Standing
  BY DEF Idle, Standing

(* A task that goes on changes its place only, and the other stays. *)
LEMMA Moved ==
  ASSUME task \in [Tasks -> Standing], NEW t \in Tasks, NEW stage, Goes(t, stage)
  PROVE  /\ task'[t].at = stage
         /\ task'[t].friend = task[t].friend /\ task'[t].op = task[t].op
         /\ task'[t].seen = task[t].seen /\ task'[t].hand = task[t].hand
         /\ task'[t].changed = task[t].changed
         /\ \A o \in Tasks \ {t} : task'[o] = task[o]
         /\ stage \in {"prune", "write", "seed", "flush", "push", "persist"} =>
              task' \in [Tasks -> Standing]
  BY DEF Goes, Standing

(* What is over leaves its task idle. *)
LEMMA Rested ==
  ASSUME task \in [Tasks -> Standing], NEW t \in Tasks, Ends(t)
  PROVE  /\ task'[t] = Idle
         /\ \A o \in Tasks \ {t} : task'[o] = task[o]
         /\ task' \in [Tasks -> Standing]
  BY IdleStands DEF Ends

(* The next id after a restart is past every stored one, and no further than   *)
(* the next payload.                                                           *)
LEMMA NextIdRestored ==
  ASSUME StoreInv, Restart
  PROVE  /\ nextId' \in 1..next /\ disk.nextId <= nextId'
         /\ \A b \in Contents(disk.outbox) : idOf[b] < nextId'
  <1> DEFINE ids == {disk.nextId} \cup {idOf[b] + 1 : b \in Contents(disk.outbox)}
             gaps == {next - x : x \in ids}
  <1>1. next \in Nat /\ disk.nextId \in Nat /\ disk.nextId <= next /\ disk.nextId >= 1
    BY PayloadsAreNumbers DEF StoreInv, QueueTypeOK, File, IdInv
  <1>2. ASSUME NEW b \in Contents(disk.outbox) PROVE idOf[b] \in Nat /\ idOf[b] < next
    <2>1. b \in Named
      BY DEF Named
    <2>2. b \in Payloads
      <3>1. PICK f \in Friends : b \in ToSet(disk.outbox[f])
        BY DEF Contents
      <3>2. disk.outbox[f] \in Seq(Payloads)
        BY DEF StoreInv, QueueTypeOK, File
      <3> QED BY <3>1, <3>2, Elements
    <2>3. idOf[b] \in 0..MaxMsg
      BY <2>2 DEF StoreInv, QueueTypeOK
    <2> QED BY <2>1, <2>3, PayloadsAreNumbers DEF StoreInv, IdInv
  <1>3. \A x \in ids : x \in Nat /\ x <= next
    BY <1>1, <1>2
  <1>4. gaps \subseteq Nat /\ gaps # {}
    BY <1>1, <1>3
  <1>5. disk.nextId \in ids /\ \A b \in Contents(disk.outbox) : idOf[b] + 1 \in ids
    OBVIOUS
  <1>6. nextId' = Max(ids)
    BY DEF Restart
  <1> HIDE DEF ids
  <1>7. PICK g \in gaps : \A h \in gaps : g <= h
    <2> HIDE DEF gaps
    <2> QED BY <1>4, Smallest
  <1>8. PICK x \in ids : g = next - x
    OBVIOUS
  <1>9. \A y \in ids : x >= y
    <2> SUFFICES ASSUME NEW y \in ids PROVE x >= y
      OBVIOUS
    <2>1. g <= next - y
      BY <1>7
    <2> QED BY <1>1, <1>3, <1>8, <2>1
  <1>10. Max(ids) \in ids /\ \A y \in ids : Max(ids) >= y
    BY <1>8, <1>9 DEF Max
  <1>11. nextId' \in Nat /\ nextId' <= next /\ nextId' >= disk.nextId
    BY <1>3, <1>5, <1>6, <1>10
  <1>12. \A b \in Contents(disk.outbox) : idOf[b] < nextId'
    BY <1>2, <1>5, <1>6, <1>10, <1>11
  <1> QED BY <1>1, <1>11, <1>12

(* What follows a write: the task seeds the friend table or rests. *)
LEMMA Followed ==
  ASSUME StoreInv, NEW t \in Tasks, task[t].at = "write", AfterPersist(t)
  PROVE  /\ task' \in [Tasks -> Standing]
         /\ task'[t].at \in {"seed", "idle"} /\ (task'[t].at = "idle" => task'[t] = Idle)
         /\ task'[t].op \in {"accept", "none"}
         /\ task'[t].hand = task[t].hand \/ task'[t].hand = 0
         /\ \A o \in Tasks \ {t} : task'[o] = task[o]
         /\ told' \in [Payloads -> {"nothing", "sent", "queued", "dropped"}]
  <1>1. task \in [Tasks -> Standing]
    BY DEF StoreInv, QueueTypeOK, Standing
  <1>2. told' \in [Payloads -> {"nothing", "sent", "queued", "dropped"}]
    BY DEF StoreInv, QueueTypeOK, AfterPersist
  <1>3. CASE task[t].op = "accept"
    <2>1. Goes(t, "seed")
      BY <1>3 DEF AfterPersist
    <2> QED BY <1>1, <1>2, <1>3, <2>1, Moved
  <1>4. CASE task[t].op # "accept"
    <2>1. Ends(t)
      BY <1>4 DEF AfterPersist
    <2>2. Idle.at = "idle" /\ Idle.op = "none" /\ Idle.hand = 0
      BY DEF Idle
    <2> QED BY <1>1, <1>2, <2>1, <2>2, Rested
  <1> QED BY <1>3, <1>4

(* A flush that ends leaves the bridge at rest, or about to write. *)
FlushOver == task' = [task EXCEPT !["bridge"] = IF task["bridge"].changed
                        THEN [Idle EXCEPT !.at = "persist"] ELSE Idle]

LEMMA FlushLeaves ==
  ASSUME task \in [Tasks -> Standing], FlushOver
  PROVE  /\ task' \in [Tasks -> Standing] /\ task'["actor"] = task["actor"]
         /\ task'["bridge"].hand = 0 /\ task'["bridge"].friend = Nobody
         /\ task'["bridge"].op = "none"
         /\ task'["bridge"].at \in {"persist", "idle"}
         /\ task'["bridge"].at = "idle" => task'["bridge"] = Idle
         /\ task["bridge"].changed => task'["bridge"].at = "persist"
  <1>1. Idle \in Standing /\ [Idle EXCEPT !.at = "persist"] \in Standing
    BY IdleStands DEF Idle, Standing
  <1> QED BY <1>1 DEF FlushOver, Idle, Tasks

(* All queues pruned: each keeps a part of what it was. *)
LEMMA Pruned ==
  ASSUME QueueTypeOK, PruneAll
  PROVE  /\ outbox' \in [Friends -> Seq(Payloads)] /\ settled' \subseteq Payloads
         /\ \A f \in Friends : Part(outbox'[f], outbox[f])
  <1>1. \A f \in Friends : outbox[f] \in Seq(Payloads)
    BY DEF QueueTypeOK
  <1>2. \A f \in Friends : outbox'[f] = Fresh(outbox[f])
    BY DEF PruneAll
  <1>3. \A f \in Friends : Part(outbox'[f], outbox[f])
    BY <1>1, <1>2, FreshPart
  <1>4. Contents(outbox) \subseteq Payloads
    BY <1>1, Elements DEF Contents
  <1>5. outbox' \in [Friends -> Seq(Payloads)]
    BY <1>2, <1>3 DEF PruneAll, Part
  <1>6. settled' \subseteq Payloads
    BY <1>4 DEF PruneAll, QueueTypeOK
  <1> QED BY <1>3, <1>5, <1>6

(* A task that starts an operation or a part of it: what it is then. *)
LEMMA Turned ==
  ASSUME task \in [Tasks -> Standing], NEW t \in Tasks, NEW r \in Standing,
         task' = [task EXCEPT ![t] = r]
  PROVE  task' \in [Tasks -> Standing] /\ task'[t] = r /\ \A o \in Tasks \ {t} : task'[o] = task[o]
  OBVIOUS

(* The groups of actions: the actor's operations, the friend table, the bridge's   *)
(* work, and the file.                                                           *)
Chosen(f) == SendPayload(f) \/ RequestPeer(f) \/ Reject(f) \/ Accept(f)
ActorActs == (\E f \in Friends : Chosen(f)) \/ PruneFirst \/ Push \/ Spend \/ Tick
Refreshes(t) == Seed(t) \/ Store(t)
Flushes == PruneOnline \/ Pop \/ HandOver \/ PutBack \/ FlushEnds
Hears == HearRequest \/ HearConnection

(* An operation of the actor leaves the bridge alone, and writes nothing. *)
ActorTurned ==
  /\ task' \in [Tasks -> Standing] /\ task'["bridge"] = task["bridge"]
  /\ task["actor"].at \notin {"persist", "write"} /\ task'["actor"].at # "write"
  /\ task'["actor"].at = "idle" => task'["actor"] = Idle
  /\ task'["actor"].at \in {"refused", "push"} =>
       task'["actor"].friend \in Friends /\ next' <= MaxMsg
  /\ next \in Nat /\ next <= next'

LEMMA ActorTurns ==
  ASSUME StoreInv, ActorActs
  PROVE  /\ ActorTurned
         /\ (\E f \in Friends : Reject(f)) \/ Spend \/ Tick => task'["actor"].at = "persist"
  <1> USE DEF history, At
  <1>t. task \in [Tasks -> Standing]
    BY DEF StoreInv, QueueTypeOK, Standing
  <1>i. /\ next \in Nat
        /\ task["actor"].at \in {"refused", "push"} =>
             task["actor"].friend \in Friends /\ next <= MaxMsg
        /\ task["actor"].at = "idle" => task["actor"] = Idle
    BY PayloadsAreNumbers DEF StoreInv, QueueTypeOK, TasksInv, Tasks
  <1>b. "actor" \in Tasks /\ "bridge" \in Tasks \ {"actor"}
    BY DEF Tasks
  <1>c. Idle.at = "idle"
    BY DEF Idle
  <1>1. ASSUME NEW f \in Friends, SendPayload(f) PROVE ActorTurned
    <2>1. CASE f \in online
      BY <1>1, <1>t, <1>i, <1>b, <2>1 DEF SendPayload, ActorTurned
    <2>2. CASE f \notin online
      <3> DEFINE was == task["actor"]
                 r == [was EXCEPT !.at = "refused", !.friend = f, !.op = "send"]
      <3>1. task' = [task EXCEPT !["actor"] = r]
        BY ONLY <1>1, <2>2, <1>t, <1>b DEF SendPayload
      <3>2. was \in Standing
        BY <1>t, <1>b
      <3> HIDE DEF was
      <3>3. r \in Standing /\ r.at = "refused" /\ r.friend = f
        BY ONLY <3>2, f \in Friends DEF Standing
      <3> HIDE DEF r
      <3>4. /\ task' \in [Tasks -> Standing] /\ task'["actor"] = r
            /\ \A o \in Tasks \ {"actor"} : task'[o] = task[o]
        BY <1>t, <1>b, <3>1, <3>3, Turned
      <3> QED BY <1>1, <1>i, <1>b, <2>2, <3>3, <3>4 DEF SendPayload, ActorTurned
    <2> QED BY <2>1, <2>2
  <1>2. ASSUME NEW f \in Friends, RequestPeer(f) PROVE ActorTurned
    <2> DEFINE was == task["actor"]
               r == [was EXCEPT !.at = "seed", !.op = "request"]
    <2>1. task' = [task EXCEPT !["actor"] = r]
      BY ONLY <1>2, <1>t, <1>b DEF RequestPeer
    <2>2. was \in Standing
      BY <1>t, <1>b
    <2> HIDE DEF was
    <2>3. r \in Standing /\ r.at = "seed"
      BY ONLY <2>2 DEF Standing
    <2> HIDE DEF r
    <2>4. /\ task' \in [Tasks -> Standing] /\ task'["actor"] = r
          /\ \A o \in Tasks \ {"actor"} : task'[o] = task[o]
      BY <1>t, <1>b, <2>1, <2>3, Turned
    <2> QED BY <1>2, <1>i, <1>b, <2>3, <2>4 DEF RequestPeer, ActorTurned
  <1>3. ASSUME NEW f \in Friends, Reject(f) PROVE ActorTurned /\ task'["actor"].at = "persist"
    <2> DEFINE was == task["actor"]
               r == [was EXCEPT !.at = "persist", !.op = "reject"]
    <2>1. task' = [task EXCEPT !["actor"] = r]
      BY ONLY <1>3, <1>t, <1>b DEF Reject
    <2>2. was \in Standing
      BY <1>t, <1>b
    <2> HIDE DEF was
    <2>3. r \in Standing /\ r.at = "persist"
      BY ONLY <2>2 DEF Standing
    <2> HIDE DEF r
    <2>4. /\ task' \in [Tasks -> Standing] /\ task'["actor"] = r
          /\ \A o \in Tasks \ {"actor"} : task'[o] = task[o]
      BY <1>t, <1>b, <2>1, <2>3, Turned
    <2> QED BY <1>3, <1>i, <1>b, <2>3, <2>4 DEF Reject, ActorTurned
  <1>4. ASSUME NEW f \in Friends, Accept(f) PROVE ActorTurned
    <2> DEFINE was == task["actor"]
               r == [was EXCEPT !.at = "spend", !.friend = f, !.op = "accept"]
    <2>1. task' = [task EXCEPT !["actor"] = r]
      BY ONLY <1>4, <1>t, <1>b DEF Accept
    <2>2. was \in Standing
      BY <1>t, <1>b
    <2> HIDE DEF was
    <2>3. r \in Standing /\ r.at = "spend"
      BY ONLY <2>2, f \in Friends DEF Standing
    <2> HIDE DEF r
    <2>4. /\ task' \in [Tasks -> Standing] /\ task'["actor"] = r
          /\ \A o \in Tasks \ {"actor"} : task'[o] = task[o]
      BY <1>t, <1>b, <2>1, <2>3, Turned
    <2> QED BY <1>4, <1>i, <1>b, <2>3, <2>4 DEF Accept, ActorTurned
  <1>5. ASSUME Tick PROVE ActorTurned /\ task'["actor"].at = "persist"
    <2> DEFINE was == task["actor"]
               r == [was EXCEPT !.at = "persist", !.op = "tick"]
    <2>1. task' = [task EXCEPT !["actor"] = r]
      BY ONLY <1>5, <1>t, <1>b DEF Tick
    <2>2. was \in Standing
      BY <1>t, <1>b
    <2> HIDE DEF was
    <2>3. r \in Standing /\ r.at = "persist"
      BY ONLY <2>2 DEF Standing
    <2> HIDE DEF r
    <2>4. /\ task' \in [Tasks -> Standing] /\ task'["actor"] = r
          /\ \A o \in Tasks \ {"actor"} : task'[o] = task[o]
      BY <1>t, <1>b, <2>1, <2>3, Turned
    <2> QED BY <1>5, <1>i, <1>b, <2>3, <2>4 DEF Tick, ActorTurned
  <1>6. ASSUME PruneFirst PROVE ActorTurned
    BY <1>6, <1>t, <1>i, <1>b, Moved DEF PruneFirst, ActorTurned
  <1>7. ASSUME Spend PROVE ActorTurned /\ task'["actor"].at = "persist"
    BY <1>7, <1>t, <1>i, <1>b, Moved DEF Spend, ActorTurned
  <1>8. ASSUME Push PROVE ActorTurned
    <2>1. CASE Len(outbox[task["actor"].friend]) >= OutboxCapacity
      BY <1>8, <1>t, <1>i, <1>b, <1>c, <2>1, Rested DEF Push, ActorTurned
    <2>2. CASE ~(Len(outbox[task["actor"].friend]) >= OutboxCapacity)
      BY <1>8, <1>t, <1>i, <1>b, <2>2, Moved DEF Push, ActorTurned
    <2> QED BY <2>1, <2>2
  <1> QED BY <1>1, <1>2, <1>3, <1>4, <1>5, <1>6, <1>7, <1>8 DEF ActorActs, Chosen

(* A task that refreshes the friend table works on nothing else. *)
RefreshTurned(t) ==
  /\ task' \in [Tasks -> Standing] /\ \A o \in Tasks \ {t} : task'[o] = task[o]
  /\ task[t].at \in {"seed", "store"} /\ task'[t].at \in {"store", "prune", "idle"}
  /\ task'[t].at = "idle" => task'[t] = Idle
  /\ task'[t].at # "idle" => task'[t].friend = task[t].friend /\ task'[t].op = task[t].op
                             /\ task'[t].hand = task[t].hand
  /\ task'[t].at = "prune" => task[t].op = "online"

LEMMA RefreshTurns ==
  ASSUME StoreInv, NEW t \in Tasks, Refreshes(t)
  PROVE  RefreshTurned(t)
  <1> USE DEF At
  <1>t. task \in [Tasks -> Standing]
    BY DEF StoreInv, QueueTypeOK, Standing
  <1>c. Idle.at = "idle"
    BY DEF Idle
  <1>1. CASE Seed(t)
    <2>k. known \subseteq Friends
      BY DEF StoreInv, QueueTypeOK
    <2> DEFINE was == task[t]
               r == [was EXCEPT !.seen = known, !.at = "store"]
    <2>1. task' = [task EXCEPT ![t] = r]
      BY ONLY <1>1, <1>t, t \in Tasks DEF Seed
    <2>2. was \in Standing
      BY <1>t
    <2> HIDE DEF was
    <2>3. r \in Standing /\ r.at = "store" /\ r.hand = was.hand /\ r.op = was.op
          /\ r.friend = was.friend
      BY ONLY <2>2, <2>k DEF Standing
    <2> HIDE DEF r
    <2>4. /\ task' \in [Tasks -> Standing] /\ task'[t] = r
          /\ \A o \in Tasks \ {t} : task'[o] = task[o]
      BY <1>t, <2>1, <2>3, Turned
    <2> QED BY <1>1, <2>3, <2>4 DEF Seed, was, RefreshTurned
  <1>2. CASE Store(t)
    <2>1. CASE task[t].op = "online"
      BY <1>2, <1>t, <2>1, Moved DEF Store, RefreshTurned
    <2>2. CASE task[t].op # "online"
      BY <1>2, <1>t, <1>c, <2>2, Rested DEF Store, RefreshTurned
    <2> QED BY <1>2, <2>1, <2>2
  <1> QED BY <1>1, <1>2 DEF Refreshes

(* The bridge takes a callback: it keeps a request, or refreshes the table. *)
HearTurned ==
  /\ task' \in [Tasks -> Standing] /\ task'["actor"] = task["actor"]
  /\ task["bridge"].at = "idle" /\ task'["bridge"].at \in {"persist", "seed", "idle"}
  /\ task'["bridge"].at = "idle" => task'["bridge"] = Idle
  /\ task'["bridge"].hand = 0
  /\ task'["bridge"].at = "persist" => task'["bridge"].op # "online"
  /\ task'["bridge"].at = "seed" => task'["bridge"].friend \in Friends
  /\ requests' # requests => task'["bridge"].at = "persist"

LEMMA HearTurns ==
  ASSUME StoreInv, Hears
  PROVE  HearTurned
  <1> USE DEF At
  <1>t. task \in [Tasks -> Standing] /\ "bridge" \in Tasks /\ "actor" \in Tasks \ {"bridge"}
    BY DEF StoreInv, QueueTypeOK, Standing, Tasks
  <1>c. Idle.at = "idle" /\ Idle.hand = 0 /\ Idle.op = "none" /\ Idle \in Standing
    BY IdleStands DEF Idle
  <1>i. task["bridge"].at = "idle" /\ task["bridge"] = Idle
    BY <1>t DEF StoreInv, TasksInv, Hears, HearRequest, HearConnection
  <1>1. CASE HearRequest
    <2> DEFINE f == Head(callbacks).friend
               kept == f \notin requests /\ Cardinality(requests) < RequestCapacity
               stage == IF kept THEN "persist" ELSE "idle"
    <2>1. Goes("bridge", stage) /\ (~kept => requests' = requests)
      BY ONLY <1>1 DEF HearRequest, Goes
    <2>2. CASE kept
      BY <1>t, <1>c, <1>i, <2>1, <2>2, Moved DEF HearTurned
    <2>3. CASE ~kept
      <3>1. task' = [task EXCEPT !["bridge"] = Idle]
        BY ONLY <1>t, <1>i, <2>1, <2>3 DEF Goes, Idle
      <3> QED BY <1>t, <1>c, <1>i, <2>1, <2>3, <3>1 DEF HearTurned
    <2> QED BY <2>2, <2>3
  <1>2. CASE HearConnection
    <2>k. Head(callbacks).kind \in {"online", "offline"} /\ Head(callbacks).friend \in Friends
      <3>1. callbacks # <<>> /\ Head(callbacks).kind # "request"
        BY <1>2 DEF HearConnection
      <3>2. callbacks \in Seq([kind : {"request", "online", "offline"}, friend : Friends])
        BY DEF StoreInv, QueueTypeOK
      <3>3. Head(callbacks) \in [kind : {"request", "online", "offline"}, friend : Friends]
        BY ONLY <3>1, <3>2, HeadTailProperties, EmptySeq
      <3> QED BY <3>1, <3>3
    <2> DEFINE was == task["bridge"]
               r == [was EXCEPT !.at = "seed", !.op = Head(callbacks).kind,
                                !.friend = Head(callbacks).friend]
    <2>1. task' = [task EXCEPT !["bridge"] = r]
      BY ONLY <1>2, <1>t DEF HearConnection
    <2>2. was \in Standing
      BY <1>t
    <2> HIDE DEF was
    <2>3. r \in Standing /\ r.at = "seed" /\ r.hand = was.hand /\ r.friend \in Friends
      BY ONLY <2>2, <2>k DEF Standing
    <2> HIDE DEF r
    <2>4. /\ task' \in [Tasks -> Standing] /\ task'["bridge"] = r
          /\ \A o \in Tasks \ {"bridge"} : task'[o] = task[o]
      BY <1>t, <2>1, <2>3, Turned
    <2>5. requests' = requests
      BY <1>2 DEF HearConnection, memory
    <2> QED BY <1>t, <1>c, <1>i, <2>3, <2>4, <2>5 DEF was, HearTurned
  <1> QED BY <1>1, <1>2 DEF Hears

(* A flush prunes, takes, hands over and ends; what it has to write is not lost. *)
FlushTurned ==
  /\ task' \in [Tasks -> Standing] /\ task'["actor"] = task["actor"]
  /\ task["bridge"].at \in {"prune", "flush", "send"} /\ task["bridge"].friend \in Friends
  /\ task'["bridge"].at \in {"flush", "send", "persist", "idle"}
  /\ task'["bridge"].at = "idle" => task'["bridge"] = Idle
  /\ task'["bridge"].at \in {"flush", "send"} => task'["bridge"].friend = task["bridge"].friend
  /\ task'["bridge"].at \in {"persist", "idle"} => task'["bridge"].op = "none"
  /\ task'["bridge"].hand # 0 <=> task'["bridge"].at = "send"
  /\ task["bridge"].at \in {"flush", "send"} /\ task["bridge"].changed =>
       task'["bridge"].at = "persist" \/ (task'["bridge"].at # "idle" /\ task'["bridge"].changed)

LEMMA FlushTurns ==
  ASSUME StoreInv, Flushes
  PROVE  /\ FlushTurned
         /\ PruneOnline => task["bridge"].at = "prune" /\ task'["bridge"].at = "flush"
         /\ Pop => /\ task["bridge"].at = "flush" /\ task'["bridge"].at = "send"
                   /\ task'["bridge"].hand = Head(outbox[task["bridge"].friend])
         /\ HandOver => /\ task["bridge"].at = "send" /\ task'["bridge"].at = "flush"
                        /\ task'["bridge"].changed
         /\ PutBack \/ FlushEnds => task'["bridge"].hand = 0
         /\ PutBack => task["bridge"].at = "send"
  <1> USE DEF At, history
  <1>t. task \in [Tasks -> Standing] /\ "bridge" \in Tasks /\ "actor" \in Tasks \ {"bridge"}
    BY DEF StoreInv, QueueTypeOK, Standing, Tasks
  <1>i. /\ task["bridge"].hand # 0 <=> task["bridge"].at = "send"
        /\ task["bridge"].at \in {"prune", "flush", "send"} => task["bridge"].friend \in Friends
    BY DEF StoreInv, TasksInv
  <1> DEFINE was == task["bridge"]
  <1>w. was \in Standing
    BY <1>t
  <1>1. ASSUME PruneOnline
        PROVE  /\ FlushTurned
               /\ task["bridge"].at = "prune" /\ task'["bridge"].at = "flush"
    <2>k. HasExpired \in BOOLEAN
      BY DEF HasExpired
    <2> DEFINE r == [was EXCEPT !.at = "flush", !.changed = HasExpired]
    <2>1. task' = [task EXCEPT !["bridge"] = r]
      BY ONLY <1>1, <1>t DEF PruneOnline
    <2> HIDE DEF was
    <2>2. r \in Standing /\ r.at = "flush" /\ r.hand = was.hand /\ r.friend = was.friend
      BY ONLY <1>w, <2>k DEF Standing
    <2> HIDE DEF r
    <2>3. /\ task' \in [Tasks -> Standing] /\ task'["bridge"] = r
          /\ \A o \in Tasks \ {"bridge"} : task'[o] = task[o]
      BY <1>t, <2>1, <2>2, Turned
    <2> QED BY <1>1, <1>t, <1>i, <2>2, <2>3 DEF PruneOnline, was, FlushTurned
  <1>2. ASSUME Pop
        PROVE  /\ FlushTurned
               /\ task["bridge"].at = "flush" /\ task'["bridge"].at = "send"
               /\ task'["bridge"].hand = Head(outbox[task["bridge"].friend])
    <2> DEFINE b == Head(outbox[task["bridge"].friend])
               r == [was EXCEPT !.at = "send", !.hand = b]
    <2>k. b \in Payloads /\ b # 0
      <3>1. outbox[task["bridge"].friend] \in Seq(Payloads)
        BY <1>2, <1>i DEF Pop, StoreInv, QueueTypeOK
      <3> QED BY <1>2, <3>1, FirstTaken, PayloadsAreNumbers DEF Pop
    <2>1. task' = [task EXCEPT !["bridge"] = r]
      BY ONLY <1>2, <1>t DEF Pop
    <2> HIDE DEF was, b
    <2>2. r \in Standing /\ r.at = "send" /\ r.hand = b /\ r.friend = was.friend
          /\ r.changed = was.changed
      BY ONLY <1>w, <2>k DEF Standing
    <2> HIDE DEF r
    <2>3. /\ task' \in [Tasks -> Standing] /\ task'["bridge"] = r
          /\ \A o \in Tasks \ {"bridge"} : task'[o] = task[o]
      BY <1>t, <2>1, <2>2, Turned
    <2>4. task["bridge"].at = "flush"
      BY <1>2 DEF Pop
    <2> QED BY <1>t, <1>i, <2>k, <2>2, <2>3, <2>4 DEF was, b, FlushTurned
  <1>3. ASSUME HandOver
        PROVE  /\ FlushTurned
               /\ task["bridge"].at = "send" /\ task'["bridge"].at = "flush"
               /\ task'["bridge"].changed
    <2> DEFINE r == [was EXCEPT !.at = "flush", !.hand = 0, !.changed = TRUE]
    <2>1. task' = [task EXCEPT !["bridge"] = r]
      BY ONLY <1>3, <1>t DEF HandOver
    <2> HIDE DEF was
    <2>2. r \in Standing /\ r.at = "flush" /\ r.hand = 0 /\ r.friend = was.friend /\ r.changed
      BY ONLY <1>w DEF Standing
    <2> HIDE DEF r
    <2>3. /\ task' \in [Tasks -> Standing] /\ task'["bridge"] = r
          /\ \A o \in Tasks \ {"bridge"} : task'[o] = task[o]
      BY <1>t, <2>1, <2>2, Turned
    <2>4. task["bridge"].at = "send"
      BY <1>3 DEF HandOver
    <2> QED BY <1>t, <1>i, <2>2, <2>3, <2>4 DEF was, FlushTurned
  <1>4. ASSUME PutBack \/ FlushEnds
        PROVE  FlushTurned /\ task'["bridge"].hand = 0 /\ (PutBack => task["bridge"].at = "send")
    <2>1. FlushOver /\ task["bridge"].at \in {"send", "flush"}
          /\ (PutBack => task["bridge"].at = "send")
      BY <1>4 DEF PutBack, FlushEnds, FlushOver
    <2>2. /\ task' \in [Tasks -> Standing] /\ task'["actor"] = task["actor"]
          /\ task'["bridge"].hand = 0 /\ task'["bridge"].op = "none"
          /\ task'["bridge"].at \in {"persist", "idle"}
          /\ task'["bridge"].at = "idle" => task'["bridge"] = Idle
          /\ task["bridge"].changed => task'["bridge"].at = "persist"
      BY ONLY <1>t, <2>1, FlushLeaves
    <2> HIDE DEF was
    <2> QED BY ONLY <1>i, <2>1, <2>2 DEF FlushTurned
  <1> QED BY <1>1, <1>2, <1>3, <1>4 DEF Flushes

(* Every step is one of these. *)
LEMMA Groups ==
  ASSUME [QueueNext]_queueVars
  PROVE  \/ UNCHANGED queueVars
         \/ \E f \in Friends : ComesOnline(f) \/ GoesOffline(f) \/ Requested(f)
         \/ ActorActs \/ Hears \/ Flushes
         \/ \E t \in Tasks : Refreshes(t)
         \/ \E t \in Tasks : Snapshot(t)
         \/ \E t \in Tasks : Publish(t)
         \/ \E t \in Tasks : WriteFails(t)
         \/ ProcessDies \/ Stopped \/ StopBridge \/ Restart \/ Age
  BY DEF QueueNext, ActorActs, Chosen, Hears, Flushes, Refreshes

(* A bridge that starts has nothing in its hand. *)
LEMMA RestartTurns ==
  ASSUME StoreInv, Restart
  PROVE  /\ task' \in [Tasks -> Standing] /\ task'["actor"] = Idle
         /\ task'["bridge"].at = "seed" /\ task'["bridge"].op = "start"
         /\ task'["bridge"].hand = 0
  <1>1. task["actor"] = Idle /\ task["bridge"] = Idle
    BY DEF StoreInv, DownInv, Restart, Tasks
  <1>2. task \in [Tasks -> Standing] /\ "bridge" \in Tasks /\ "actor" \in Tasks \ {"bridge"}
    BY DEF StoreInv, QueueTypeOK, Standing, Tasks
  <1> DEFINE was == task["bridge"]
             r == [was EXCEPT !.at = "seed", !.op = "start"]
  <1>3. task' = [task EXCEPT !["bridge"] = r]
    <2>1. task' = [task EXCEPT !["bridge"].at = "seed", !["bridge"].op = "start"]
      BY DEF Restart
    <2> QED BY ONLY <1>2, <2>1
  <1>4. was \in Standing /\ was.hand = 0
    BY <1>1, IdleStands DEF Idle
  <1> HIDE DEF was
  <1>5. r \in Standing /\ r.at = "seed" /\ r.op = "start" /\ r.hand = 0
    BY ONLY <1>4 DEF Standing
  <1> HIDE DEF r
  <1>6. /\ task' \in [Tasks -> Standing] /\ task'["bridge"] = r
        /\ \A o \in Tasks \ {"bridge"} : task'[o] = task[o]
    BY <1>2, <1>3, <1>5, Turned
  <1> QED BY <1>1, <1>2, <1>5, <1>6

(* What a group of actions does not touch. *)
ActorLeft ==
  /\ process.up /\ UNCHANGED <<process, lock, disk, failed, sent>>
  /\ requests' # requests => (\E f \in Friends : Reject(f)) \/ Spend
  /\ Push \/ ((PruneAll \/ outbox' = outbox) /\ UNCHANGED <<idOf, nextId>>)

LEMMA ActorLeaves ==
  ASSUME ActorActs
  PROVE  ActorLeft
  <1> USE DEF ActorLeft, tox, memory, history, At
  <1>1. ASSUME NEW f \in Friends, SendPayload(f) PROVE ActorLeft
    BY <1>1 DEF SendPayload
  <1>2. ASSUME NEW f \in Friends, RequestPeer(f) PROVE ActorLeft
    BY <1>2 DEF RequestPeer
  <1>3. ASSUME NEW f \in Friends, Reject(f) PROVE ActorLeft
    BY <1>3 DEF Reject
  <1>4. ASSUME NEW f \in Friends, Accept(f) PROVE ActorLeft
    BY <1>4 DEF Accept
  <1>5. ASSUME PruneFirst PROVE ActorLeft
    BY <1>5 DEF PruneFirst
  <1>6. ASSUME Push PROVE ActorLeft
    BY <1>6 DEF Push
  <1>7. ASSUME Spend PROVE ActorLeft
    BY <1>7 DEF Spend
  <1>8. ASSUME Tick PROVE ActorLeft
    BY <1>8 DEF Tick
  <1> QED BY <1>1, <1>2, <1>3, <1>4, <1>5, <1>6, <1>7, <1>8 DEF ActorActs, Chosen

HearLeft ==
  /\ process.up
  /\ UNCHANGED <<process, lock, disk, failed, sent, outbox, next, idOf, nextId>>

LEMMA HearLeaves ==
  ASSUME Hears
  PROVE  HearLeft
  <1> USE DEF HearLeft, tox, memory, history, At
  <1>1. CASE HearRequest
    BY <1>1 DEF HearRequest
  <1>2. CASE HearConnection
    BY <1>2 DEF HearConnection
  <1> QED BY <1>1, <1>2 DEF Hears

RefreshLeft == HearLeft /\ UNCHANGED requests

LEMMA RefreshLeaves ==
  ASSUME NEW t \in Tasks, Refreshes(t)
  PROVE  RefreshLeft
  <1> USE DEF RefreshLeft, HearLeft, tox, memory, history, At
  <1>1. CASE Seed(t)
    BY <1>1 DEF Seed
  <1>2. CASE Store(t)
    BY <1>2 DEF Store
  <1> QED BY <1>1, <1>2 DEF Refreshes

FlushLeft ==
  /\ process.up
  /\ UNCHANGED <<process, lock, disk, failed, requests, next, idOf, nextId>>
  /\ HandOver \/ sent' = sent

LEMMA FlushLeavesRest ==
  ASSUME Flushes
  PROVE  FlushLeft
  <1> USE DEF FlushLeft, tox, memory, history, At
  <1>1. CASE PruneOnline
    BY <1>1 DEF PruneOnline
  <1>2. CASE Pop
    BY <1>2 DEF Pop
  <1>3. CASE HandOver
    BY <1>3 DEF HandOver
  <1>4. CASE PutBack
    BY <1>4 DEF PutBack
  <1>5. CASE FlushEnds
    BY <1>5 DEF FlushEnds
  <1> QED BY <1>1, <1>2, <1>3, <1>4, <1>5 DEF Flushes

(* The task in front of each operation is in its place, and so is what follows. *)
LEMMA TasksStep ==
  ASSUME StoreInv, [QueueNext]_queueVars
  PROVE  task' \in [Tasks -> Standing] /\ TasksInv'
  <1> USE DEF TasksInv, history, At
  <1>t. task \in [Tasks -> Standing]
    BY DEF StoreInv, QueueTypeOK, Standing
  <1>i. TasksInv
    BY DEF StoreInv
  <1>b. "actor" \in Tasks /\ "bridge" \in Tasks /\ \A t \in Tasks : t = "actor" \/ t = "bridge"
    BY DEF Tasks
  <1>c. Idle.at = "idle" /\ Idle.hand = 0 /\ Idle.op = "none" /\ Idle \in Standing
    BY IdleStands DEF Idle
  <1>1. ASSUME UNCHANGED <<task, lock, next>> PROVE task' \in [Tasks -> Standing] /\ TasksInv'
    BY <1>t, <1>i, <1>1
  <1>2. ASSUME ActorActs PROVE task' \in [Tasks -> Standing] /\ TasksInv'
    <2>1. lock' = lock
      BY <1>2, ActorLeaves DEF ActorLeft
    <2> QED BY <1>2, <1>i, <1>b, <2>1, ActorTurns DEF ActorTurned
  <1>3. ASSUME Hears PROVE task' \in [Tasks -> Standing] /\ TasksInv'
    <2>1. UNCHANGED <<lock, next>>
      BY <1>3, HearLeaves DEF HearLeft
    <2> QED BY <1>3, <1>i, <1>b, <1>c, <2>1, HearTurns DEF HearTurned
  <1>4. ASSUME Flushes PROVE task' \in [Tasks -> Standing] /\ TasksInv'
    <2>1. UNCHANGED <<lock, next>>
      BY <1>4, FlushLeavesRest DEF FlushLeft
    <2> QED BY <1>4, <1>i, <1>b, <1>c, <2>1, FlushTurns DEF FlushTurned
  <1>5. ASSUME NEW t \in Tasks, Refreshes(t) PROVE task' \in [Tasks -> Standing] /\ TasksInv'
    <2>1. UNCHANGED <<lock, next>>
      BY <1>5, RefreshLeaves DEF RefreshLeft, HearLeft
    <2> QED BY <1>5, <1>i, <1>b, <1>c, <2>1, RefreshTurns DEF RefreshTurned
  <1>6. ASSUME NEW t \in Tasks, Snapshot(t)
        PROVE  task' \in [Tasks -> Standing] /\ TasksInv'
    BY <1>6, <1>t, <1>i, <1>b, Moved DEF Snapshot
  <1>7. ASSUME NEW t \in Tasks, Publish(t) \/ WriteFails(t)
        PROVE  task' \in [Tasks -> Standing] /\ TasksInv'
    BY <1>7, <1>t, <1>i, <1>b, <1>c, Followed DEF Publish, WriteFails
  <1>8. ASSUME Gone, UNCHANGED next PROVE task' \in [Tasks -> Standing] /\ TasksInv'
    BY <1>8, <1>t, <1>b, <1>c DEF Gone
  <1>9. ASSUME Restart PROVE task' \in [Tasks -> Standing] /\ TasksInv'
    BY <1>9, <1>t, <1>b, <1>c, RestartTurns
  <1> QED BY <1>1, <1>2, <1>3, <1>4, <1>5, <1>6, <1>7, <1>8, <1>9, Groups
          DEF queueVars, tox, memory, ComesOnline, GoesOffline, Requested,
              ProcessDies, StopBridge, Stopped, Age

(* Between two runs there are only the files. *)
LEMMA DownStep ==
  ASSUME StoreInv, [QueueNext]_queueVars
  PROVE  DownInv'
  <1> USE DEF DownInv, tox, memory, history
  <1>1. ASSUME UNCHANGED queueVars PROVE DownInv'
    BY <1>1 DEF StoreInv, queueVars
  <1>2. ASSUME process.up, UNCHANGED process PROVE DownInv'
    BY <1>2
  <1>3. ASSUME Gone PROVE DownInv'
    BY <1>3 DEF Gone
  <1>4. ASSUME Restart PROVE DownInv'
    BY <1>4 DEF Restart
  <1>5. ASSUME StopBridge PROVE DownInv'
    BY <1>5 DEF StopBridge, StoreInv, QueueTypeOK, At
  <1>6. ASSUME Age PROVE DownInv'
    BY <1>6 DEF Age, StoreInv
  <1>7. ASSUME NEW f \in Friends, ComesOnline(f) \/ GoesOffline(f) \/ Requested(f) PROVE DownInv'
    BY <1>2, <1>7 DEF ComesOnline, GoesOffline, Requested
  <1>8. ASSUME NEW t \in Tasks, Snapshot(t) \/ Publish(t) \/ WriteFails(t) PROVE DownInv'
    BY <1>2, <1>8 DEF Snapshot, Publish, WriteFails, At
  <1>9. ASSUME ActorActs \/ Hears \/ Flushes \/ \E t \in Tasks : Refreshes(t) PROVE DownInv'
    BY <1>2, <1>9, ActorLeaves, HearLeaves, RefreshLeaves, FlushLeavesRest
       DEF ActorLeft, HearLeft, RefreshLeft, FlushLeft
  <1> QED BY <1>1, <1>3, <1>4, <1>5, <1>6, <1>7, <1>8, <1>9, Groups DEF ProcessDies, Stopped

(* A prune, a restart and the end of a run leave queues of payloads. *)
LEMMA EmptyQueues == [f \in Friends |-> <<>>] \in [Friends -> Seq(Payloads)]
  BY EmptyPart

LEMMA FileTyped ==
  ASSUME NEW R \in SUBSET Friends, NEW Q \in [Friends -> Seq(Payloads)], NEW n \in 1..MaxMsg + 1
  PROVE  [requests |-> R, outbox |-> Q, nextId |-> n] \in File
  BY DEF File

LEMMA EmptyFileTyped == EmptyFile \in File /\ Unlocked.file = EmptyFile /\ Unlocked.by = "nobody"
                        /\ Unlocked \in [by : Tasks \cup {"nobody"}, file : File]
  <1>1. 1 \in 1..MaxMsg + 1
    BY PayloadsAreNumbers
  <1>2. EmptyFile \in File
    BY <1>1, EmptyQueues DEF EmptyFile, File
  <1> QED BY <1>2 DEF Unlocked

LEMMA RestoredQueues ==
  ASSUME QueueTypeOK
  PROVE  /\ [f \in Friends |-> Restored(f)] \in [Friends -> Seq(Payloads)]
         /\ \A f \in Friends : Part(Restored(f), disk.outbox[f])
         /\ Contents(disk.outbox) \subseteq Payloads
  <1>1. \A f \in Friends : disk.outbox[f] \in Seq(Payloads)
    BY DEF QueueTypeOK, File
  <1>2. \A f \in Friends : Part(Restored(f), disk.outbox[f])
    BY <1>1, RestoredPart
  <1>3. Contents(disk.outbox) \subseteq Payloads
    BY <1>1, Elements DEF Contents
  <1> QED BY <1>2, <1>3 DEF Part

(* A callback is handed over unless there is no room. *)
LEMMA RaiseTyped ==
  ASSUME QueueTypeOK, NEW kind \in {"request", "online", "offline"}, NEW f \in Friends,
         Raise(kind, f)
  PROVE  /\ callbacks' \in Seq([kind : {"request", "online", "offline"}, friend : Friends])
         /\ Len(callbacks') <= CallbackCapacity
  <1> DEFINE C == [kind : {"request", "online", "offline"}, friend : Friends]
             c == [kind |-> kind, friend |-> f]
  <1>1. callbacks \in Seq(C) /\ Len(callbacks) <= CallbackCapacity /\ c \in C
    BY DEF QueueTypeOK
  <1>2. \/ Len(callbacks) < CallbackCapacity /\ callbacks' = Append(callbacks, c)
        \/ callbacks' = callbacks
    BY DEF Raise
  <1> HIDE DEF C, c
  <1>3. Append(callbacks, c) \in Seq(C) /\ Len(Append(callbacks, c)) = Len(callbacks) + 1
        /\ Len(callbacks) \in Nat
    BY <1>1, AppendProperties, LenProperties
  <1>4. callbacks' \in Seq(C) /\ Len(callbacks') <= CallbackCapacity
    BY <1>1, <1>2, <1>3, ToxQueueAssumption
  <1> QED BY <1>4 DEF C

LEMMA HearTyped ==
  ASSUME QueueTypeOK, callbacks # <<>>, callbacks' = Tail(callbacks)
  PROVE  /\ callbacks' \in Seq([kind : {"request", "online", "offline"}, friend : Friends])
         /\ Len(callbacks') <= CallbackCapacity
         /\ Head(callbacks).friend \in Friends
  <1> DEFINE C == [kind : {"request", "online", "offline"}, friend : Friends]
  <1>1. callbacks \in Seq(C) /\ Len(callbacks) <= CallbackCapacity
    BY DEF QueueTypeOK
  <1>2. \A c \in C : c.friend \in Friends
    OBVIOUS
  <1> HIDE DEF C
  <1>3. /\ Tail(callbacks) \in Seq(C) /\ Len(Tail(callbacks)) = Len(callbacks) - 1
        /\ Head(callbacks) \in C /\ Len(callbacks) \in Nat
    BY <1>1, HeadTailProperties, LenProperties
  <1>4. callbacks' \in Seq(C) /\ Len(callbacks') <= CallbackCapacity
    BY <1>1, <1>3, ToxQueueAssumption
  <1>5. Head(callbacks).friend \in Friends
    BY <1>2, <1>3
  <1> QED BY <1>4, <1>5 DEF C

LEMMA QueueTypeStep ==
  ASSUME StoreInv, [QueueNext]_queueVars
  PROVE  QueueTypeOK'
  <1> USE DEF history, tox, memory, At
  <1>t. QueueTypeOK /\ TasksInv
    BY DEF StoreInv
  <1>n. task' \in [Tasks -> [at : {"idle", "seed", "store", "prune", "flush", "send", "refused",
                              "push", "spend", "persist", "write"},
                        friend : Friends \cup {Nobody},
                        op : {"none", "start", "send", "reject", "request", "accept", "tick",
                              "online", "offline"},
                        seen : SUBSET Friends,
                        hand : Payloads \cup {0}, changed : BOOLEAN]]
    BY TasksStep DEF Standing
  <1>s. task \in [Tasks -> Standing]
    BY <1>t DEF QueueTypeOK, Standing
  <1>b. "actor" \in Tasks /\ "bridge" \in Tasks
    BY DEF Tasks
  <1>1. CASE UNCHANGED queueVars
    BY <1>1, <1>t DEF QueueTypeOK, queueVars
  <1>2. ASSUME NEW f \in Friends, ComesOnline(f) \/ GoesOffline(f) \/ Requested(f)
        PROVE  QueueTypeOK'
    <2>1. \E kind \in {"request", "online", "offline"} : Raise(kind, f)
      BY <1>2 DEF ComesOnline, GoesOffline, Requested
    <2>2. /\ callbacks' \in Seq([kind : {"request", "online", "offline"}, friend : Friends])
          /\ Len(callbacks') <= CallbackCapacity
      BY <1>t, <2>1, RaiseTyped
    <2>3. online' \subseteq known /\ known' = known
      BY <1>2, <1>t DEF ComesOnline, GoesOffline, Requested, QueueTypeOK
    <2>4. UNCHANGED <<process, saved, disk, memory, lock, task, history>>
      BY <1>2 DEF ComesOnline, GoesOffline, Requested
    <2> QED BY <1>t, <2>2, <2>3, <2>4 DEF QueueTypeOK
  <1>3. ASSUME NEW f \in Friends, SendPayload(f) PROVE QueueTypeOK'
    <2>1. next' \in 1..MaxMsg + 1
      BY <1>3, <1>t, PayloadsAreNumbers DEF SendPayload, QueueTypeOK
    <2>2. told' \in [Payloads -> {"nothing", "sent", "queued", "dropped"}]
      BY <1>3, <1>t DEF SendPayload, QueueTypeOK
    <2>3. UNCHANGED <<process, saved, disk, tox, memory, lock, aged, idOf, sent, settled, failed>>
      BY <1>3 DEF SendPayload
    <2> QED BY <1>t, <1>n, <2>1, <2>2, <2>3 DEF QueueTypeOK
  <1>4. ASSUME NEW f \in Friends, RequestPeer(f) \/ Reject(f) \/ Accept(f) PROVE QueueTypeOK'
    <2>1. /\ known' \subseteq Friends /\ online' \subseteq known' /\ requests' \subseteq Friends
          /\ UNCHANGED <<process, saved, disk, callbacks, table, outbox, nextId, lock, history>>
      BY <1>4, <1>t DEF RequestPeer, Reject, Accept, QueueTypeOK
    <2> QED BY <1>t, <1>n, <2>1 DEF QueueTypeOK
  <1>5. ASSUME NEW t \in Tasks, Snapshot(t) PROVE QueueTypeOK'
    <2> DEFINE Q == [f \in Friends |-> IF f \in table THEN outbox[f] ELSE <<>>]
    <2>1. Q \in [Friends -> Seq(Payloads)]
      BY <1>t, EmptyPart DEF QueueTypeOK
    <2>2. lock' = [by |-> t, file |-> [requests |-> requests, nextId |-> nextId, outbox |-> Q]]
      BY <1>5 DEF Snapshot
    <2> HIDE DEF Q
    <2>3. [requests |-> requests, nextId |-> nextId, outbox |-> Q] \in File
      BY <1>t, <2>1 DEF QueueTypeOK, File
    <2>4. lock' \in [by : Tasks \cup {"nobody"}, file : File]
      BY <2>2, <2>3
    <2>5. UNCHANGED <<process, saved, disk, tox, memory, history>>
      BY <1>5 DEF Snapshot
    <2> QED BY <1>t, <1>n, <2>4, <2>5 DEF QueueTypeOK
  <1>6. ASSUME NEW t \in Tasks, Publish(t) \/ WriteFails(t) PROVE QueueTypeOK'
    <2>1. /\ told' \in [Payloads -> {"nothing", "sent", "queued", "dropped"}]
      BY <1>6, Followed DEF Publish, WriteFails
    <2>2. disk' \in File /\ lock' \in [by : Tasks \cup {"nobody"}, file : File]
      BY <1>6, <1>t, EmptyFileTyped DEF Publish, WriteFails, QueueTypeOK
    <2>3. UNCHANGED <<process, saved, tox, memory, aged, next, idOf, sent, settled>>
          /\ failed' \in BOOLEAN
      BY <1>6, <1>t DEF Publish, WriteFails, QueueTypeOK
    <2> QED BY <1>t, <1>n, <2>1, <2>2, <2>3 DEF QueueTypeOK
  <1>7. ASSUME NEW t \in Tasks, Seed(t) \/ Store(t) PROVE QueueTypeOK'
    <2>1. table' \subseteq Friends
      BY <1>7, <1>t, <1>s DEF Seed, Store, QueueTypeOK, Standing
    <2>2. UNCHANGED <<process, saved, disk, tox, requests, outbox, nextId, lock, history>>
      BY <1>7 DEF Seed, Store
    <2> QED BY <1>t, <1>n, <2>1, <2>2 DEF QueueTypeOK
  <1>8. ASSUME PruneFirst \/ Tick \/ PruneOnline PROVE QueueTypeOK'
    <2>1. outbox' \in [Friends -> Seq(Payloads)] /\ settled' \subseteq Payloads
      BY <1>8, <1>t, Pruned DEF PruneFirst, Tick, PruneOnline
    <2>2. UNCHANGED <<process, saved, disk, tox, table, requests, nextId, lock, aged, next, told,
                      idOf, sent, failed>>
      BY <1>8 DEF PruneFirst, Tick, PruneOnline
    <2> QED BY <1>t, <1>n, <2>1, <2>2 DEF QueueTypeOK
  <1>9. ASSUME Push PROVE QueueTypeOK'
    <2> DEFINE f == task["actor"].friend
    <2>1. f \in Friends /\ next <= MaxMsg /\ next \in Nat /\ next >= 1
      BY <1>9, <1>t, PayloadsAreNumbers DEF Push, TasksInv, QueueTypeOK
    <2>2. nextId \in Nat /\ nextId >= 1 /\ nextId <= next
      BY <1>t, PayloadsAreNumbers DEF StoreInv, IdInv, QueueTypeOK
    <2>3. nextId' = nextId + 1 /\ next' = next + 1
      BY <1>9 DEF Push
    <2>4. nextId' \in 1..MaxMsg + 1 /\ next' \in 1..MaxMsg + 1
      BY <2>1, <2>2, <2>3, PayloadsAreNumbers
    <2>5. nextId \in 0..MaxMsg /\ next \in Payloads
      BY <2>1, <2>2, PayloadsAreNumbers DEF Payloads
    <2>6. /\ told' \in [Payloads -> {"nothing", "sent", "queued", "dropped"}]
          /\ idOf' \in [Payloads -> 0..MaxMsg]
      <3>1. /\ told' = told \/ told' = [told EXCEPT ![next] = "dropped"]
            /\ idOf' = idOf \/ idOf' = [idOf EXCEPT ![next] = nextId]
        BY <1>9 DEF Push
      <3>2. /\ told \in [Payloads -> {"nothing", "sent", "queued", "dropped"}]
            /\ idOf \in [Payloads -> 0..MaxMsg]
        BY <1>t DEF QueueTypeOK
      <3> QED BY ONLY <2>5, <3>1, <3>2
    <2>7. outbox' \in [Friends -> Seq(Payloads)]
      <3>1. outbox \in [Friends -> Seq(Payloads)] /\ outbox[f] \in Seq(Payloads)
        BY <1>t, <2>1 DEF QueueTypeOK
      <3>2. Append(outbox[f], next) \in Seq(Payloads)
        BY <2>5, <3>1, LastAdded
      <3>3. outbox' = outbox \/ outbox' = [outbox EXCEPT ![f] = Append(@, next)]
        BY <1>9 DEF Push
      <3> QED BY <2>1, <3>1, <3>2, <3>3
    <2>8. UNCHANGED <<process, saved, disk, tox, table, requests, lock, aged, sent, settled,
                      failed>>
      BY <1>9 DEF Push
    <2> QED BY <1>t, <1>n, <2>4, <2>6, <2>7, <2>8 DEF QueueTypeOK
  <1>10. ASSUME Spend PROVE QueueTypeOK'
    BY <1>10, <1>t, <1>n DEF Spend, QueueTypeOK
  <1>11. ASSUME HearRequest \/ HearConnection PROVE QueueTypeOK'
    <2>1. callbacks # <<>> /\ callbacks' = Tail(callbacks)
      BY <1>11 DEF HearRequest, HearConnection
    <2>2. /\ callbacks' \in Seq([kind : {"request", "online", "offline"}, friend : Friends])
          /\ Len(callbacks') <= CallbackCapacity /\ Head(callbacks).friend \in Friends
      BY <1>t, <2>1, HearTyped
    <2>3. requests' \subseteq Friends
      BY <1>11, <1>t, <2>2 DEF HearRequest, HearConnection, QueueTypeOK
    <2>4. UNCHANGED <<process, saved, disk, known, online, table, outbox, nextId, lock, history>>
      BY <1>11 DEF HearRequest, HearConnection
    <2> QED BY <1>t, <1>n, <2>2, <2>3, <2>4 DEF QueueTypeOK
  <1>12. ASSUME Pop \/ PutBack PROVE QueueTypeOK'
    <2> DEFINE f == task["bridge"].friend
    <2>1. f \in Friends
      BY <1>12, <1>t DEF Pop, PutBack, TasksInv
    <2>2. outbox \in [Friends -> Seq(Payloads)] /\ outbox[f] \in Seq(Payloads)
      BY <1>t, <2>1 DEF QueueTypeOK
    <2>3. outbox' \in [Friends -> Seq(Payloads)]
      <3>1. CASE Pop
        <4>1. Tail(outbox[f]) \in Seq(Payloads)
          BY <2>2, <3>1, FirstTaken DEF Pop
        <4> QED BY <2>1, <2>2, <3>1, <4>1 DEF Pop
      <3>2. CASE PutBack
        <4> DEFINE b == task["bridge"].hand
        <4>1. b \in Payloads
          BY <1>t, <1>s, <1>b, <3>2 DEF PutBack, TasksInv, Standing
        <4>2. <<b>> \o outbox[f] \in Seq(Payloads)
          BY <2>2, <4>1, OneOnly, Joined
        <4>3. outbox' = [outbox EXCEPT ![f] = <<b>> \o @]
          BY <3>2 DEF PutBack
        <4> QED BY <2>1, <2>2, <4>2, <4>3
      <3> QED BY <1>12, <3>1, <3>2
    <2>4. UNCHANGED <<process, saved, disk, tox, table, requests, nextId, lock, history>>
      BY <1>12 DEF Pop, PutBack
    <2> QED BY <1>t, <1>n, <2>3, <2>4 DEF QueueTypeOK
  <1>13. ASSUME HandOver PROVE QueueTypeOK'
    <2> DEFINE f == task["bridge"].friend
               b == task["bridge"].hand
    <2>1. f \in Friends /\ b \in Payloads
      BY <1>13, <1>t, <1>s, <1>b DEF HandOver, TasksInv, Standing
    <2>2. sent \in [Friends -> Seq(Payloads)] /\ sent[f] \in Seq(Payloads)
      BY <1>t, <2>1 DEF QueueTypeOK
    <2>3. Append(sent[f], b) \in Seq(Payloads)
      BY <2>1, <2>2, LastAdded
    <2>4. sent' = [sent EXCEPT ![f] = Append(@, b)] /\ settled' = settled \cup {b}
      BY <1>13 DEF HandOver
    <2>5. sent' \in [Friends -> Seq(Payloads)] /\ settled' \subseteq Payloads
      BY <1>t, <2>1, <2>2, <2>3, <2>4 DEF QueueTypeOK
    <2>6. UNCHANGED <<process, saved, disk, tox, memory, lock, aged, next, told, idOf, failed>>
      BY <1>13 DEF HandOver
    <2> QED BY <1>t, <1>n, <2>5, <2>6 DEF QueueTypeOK
  <1>14. ASSUME FlushEnds PROVE QueueTypeOK'
    BY <1>14, <1>t, <1>n DEF FlushEnds, QueueTypeOK
  <1>15. ASSUME ProcessDies \/ Stopped PROVE QueueTypeOK'
    <2>1. Gone /\ saved' \in {saved, known}
      BY <1>15 DEF ProcessDies, Stopped
    <2>2. UNCHANGED <<disk, known, nextId, aged, next, told, idOf, settled, failed>>
      BY <1>15 DEF ProcessDies, Stopped
    <2>3. process' \in [count : 1..MaxStarts, up : BOOLEAN, stopping : BOOLEAN]
      BY <1>t, <2>1 DEF Gone, QueueTypeOK
    <2>4. /\ callbacks' \in Seq([kind : {"request", "online", "offline"}, friend : Friends])
          /\ Len(callbacks') <= CallbackCapacity
      <3>1. callbacks' = <<>>
        BY <2>1 DEF Gone
      <3>2. Len(<<>>) = 0
        BY EmptySeq
      <3> QED BY <3>1, <3>2, EmptySeq, ToxQueueAssumption
    <2>5. outbox' \in [Friends -> Seq(Payloads)] /\ sent' \in [Friends -> Seq(Payloads)]
      BY <2>1, EmptyQueues DEF Gone
    <2>6. lock' \in [by : Tasks \cup {"nobody"}, file : File]
      BY <2>1, EmptyFileTyped DEF Gone
    <2>7. saved' \subseteq Friends /\ online' = {} /\ table' = {} /\ requests' = {}
      BY <1>t, <2>1 DEF Gone, QueueTypeOK
    <2> QED BY <1>t, <1>n, <2>2, <2>3, <2>4, <2>5, <2>6, <2>7 DEF QueueTypeOK
  <1>16. ASSUME StopBridge PROVE QueueTypeOK'
    BY <1>16, <1>t DEF StopBridge, QueueTypeOK
  <1>17. ASSUME Restart PROVE QueueTypeOK'
    <2>1. process' \in [count : 1..MaxStarts, up : BOOLEAN, stopping : BOOLEAN]
      BY <1>17, <1>t, ToxQueueAssumption DEF Restart, QueueTypeOK
    <2>2. known' \subseteq Friends /\ table' \subseteq Friends /\ requests' \subseteq Friends
      BY <1>17, <1>t DEF Restart, QueueTypeOK, File
    <2>3. online' = {}
      BY <1>17 DEF Restart, StoreInv, DownInv
    <2>4. outbox' \in [Friends -> Seq(Payloads)]
      BY <1>17, <1>t, RestoredQueues DEF Restart
    <2>5. nextId' \in 1..MaxMsg + 1
      BY <1>17, <1>t, NextIdRestored, PayloadsAreNumbers DEF QueueTypeOK
    <2>6. settled' \subseteq Payloads
      BY <1>17, <1>t, RestoredQueues DEF Restart, QueueTypeOK
    <2>7. UNCHANGED <<saved, disk, online, callbacks, lock, aged, next, told, idOf, sent, failed>>
      BY <1>17 DEF Restart
    <2> QED BY <1>t, <1>n, <2>1, <2>2, <2>3, <2>4, <2>5, <2>6, <2>7 DEF QueueTypeOK
  <1>18. ASSUME Age PROVE QueueTypeOK'
    BY <1>18, <1>t DEF Age, QueueTypeOK, Payloads
  <1> QED BY <1>1, <1>2, <1>3, <1>4, <1>5, <1>6, <1>7, <1>8, <1>9, <1>10, <1>11, <1>12, <1>13,
             <1>14, <1>15, <1>16, <1>17, <1>18 DEF QueueNext

(* Whatever else a task does, a write that is due or in progress stays so, and a  *)
(* change of the requests makes one due.                                         *)
Unwritten ==
  /\ UNCHANGED <<lock, disk, failed, process>>
  /\ \A t \in Tasks : /\ task'[t].at = "write" <=> task[t].at = "write"
                      /\ task[t].at = "persist" => task'[t].at = "persist"
  /\ requests' # requests => Persists'
  /\ Counted => Counted'

LEMMA MostWriteNothing ==
  ASSUME StoreInv,
         \/ UNCHANGED queueVars
         \/ \E f \in Friends : ComesOnline(f) \/ GoesOffline(f) \/ Requested(f)
         \/ ActorActs \/ Hears \/ Flushes
         \/ \E t \in Tasks : Refreshes(t)
         \/ Age
  PROVE  Unwritten
  <1> USE DEF tox, memory, history
  <1>b. "actor" \in Tasks /\ "bridge" \in Tasks /\ \A t \in Tasks : t = "actor" \/ t = "bridge"
    BY DEF Tasks
  <1>1. ASSUME UNCHANGED <<lock, disk, failed, process, task, requests>> PROVE Unwritten
    BY <1>1 DEF Unwritten, Counted
  <1>2. CASE ActorActs
    <2>1. UNCHANGED <<lock, disk, failed, process>>
      BY <1>2, ActorLeaves DEF ActorLeft
    <2>2. requests' # requests => (\E f \in Friends : Reject(f)) \/ Spend
      BY <1>2, ActorLeaves DEF ActorLeft
    <2>3. requests' # requests => task'["actor"].at = "persist"
      BY <1>2, <2>2, ActorTurns
    <2>4. task'["bridge"] = task["bridge"] /\ task["actor"].at \notin {"persist", "write"}
          /\ task'["actor"].at # "write"
      BY <1>2, ActorTurns DEF ActorTurned
    <2>5. Counted => Counted'
      BY <2>4 DEF Counted
    <2>6. requests' # requests => Persists'
      BY <1>b, <2>3 DEF Persists
    <2> QED BY <1>b, <2>1, <2>4, <2>5, <2>6 DEF Unwritten
  <1>3. CASE Hears
    <2>1. UNCHANGED <<lock, disk, failed, process>>
      BY <1>3, HearLeaves DEF HearLeft
    <2>2. /\ task'["actor"] = task["actor"] /\ task["bridge"].at = "idle"
          /\ task'["bridge"].at # "write"
          /\ requests' # requests => task'["bridge"].at = "persist"
      BY <1>3, HearTurns DEF HearTurned
    <2>3. ~Counted
      BY <2>2 DEF Counted
    <2>4. requests' # requests => Persists'
      BY <1>b, <2>2 DEF Persists
    <2> QED BY <1>b, <2>1, <2>2, <2>3, <2>4 DEF Unwritten
  <1>4. CASE Flushes
    <2>1. UNCHANGED <<lock, disk, failed, process, requests>>
      BY <1>4, FlushLeavesRest DEF FlushLeft
    <2>2. FlushTurned
      BY <1>4, FlushTurns
    <2>3. Counted => Counted'
      BY <2>2 DEF FlushTurned, Counted
    <2> QED BY <1>b, <2>1, <2>2, <2>3 DEF Unwritten, FlushTurned
  <1>5. ASSUME NEW t \in Tasks, Refreshes(t) PROVE Unwritten
    <2>1. UNCHANGED <<lock, disk, failed, process, requests>>
      BY <1>5, RefreshLeaves DEF RefreshLeft, HearLeft
    <2>2. RefreshTurned(t)
      BY <1>5, RefreshTurns
    <2>3. Counted => Counted'
      BY <1>b, <2>2 DEF RefreshTurned, Counted
    <2> QED BY <1>b, <2>1, <2>2, <2>3 DEF Unwritten, RefreshTurned
  <1> QED BY <1>1, <1>2, <1>3, <1>4, <1>5
          DEF queueVars, ComesOnline, GoesOffline, Requested, Age

(* The requests in the file are the live ones, or a write of them is still due. *)
LEMMA RequestsStep ==
  ASSUME StoreInv, [QueueNext]_queueVars
  PROVE  RequestInv'
  <1> USE DEF RequestInv, tox, memory, history
  <1>b. "actor" \in Tasks /\ "bridge" \in Tasks /\ \A t \in Tasks : t = "actor" \/ t = "bridge"
    BY DEF Tasks
  <1>t. task \in [Tasks -> Standing]
    BY DEF StoreInv, QueueTypeOK, Standing
  <1>i. TasksInv /\ RequestInv
    BY DEF StoreInv
  <1>1. ASSUME Unwritten PROVE RequestInv'
    <2>1. UNCHANGED <<lock, disk, failed, process>>
      BY <1>1 DEF Unwritten
    <2>2. /\ \A t \in Tasks : /\ task'[t].at = "write" <=> task[t].at = "write"
                              /\ task[t].at = "persist" => task'[t].at = "persist"
          /\ requests' # requests => \E t \in Tasks : task'[t].at = "persist"
      BY <1>1 DEF Unwritten, Persists
    <2> QED BY <1>i, <2>1, <2>2 DEF Persists
  <1>2. ASSUME NEW t \in Tasks, Snapshot(t) PROVE RequestInv'
    <2>1. /\ lock'.file.requests = requests /\ UNCHANGED <<disk, requests, failed, process>>
          /\ task'[t].at = "write" /\ task[t].at = "persist"
      BY <1>2, <1>t, Moved DEF Snapshot, At
    <2>2. \A o \in Tasks : task'[o].at = "write" => o = t
      <3>1. \A o \in Tasks : task[o].at # "write"
        BY <1>2, <1>b, <1>i DEF Snapshot, TasksInv
      <3>2. \A o \in Tasks \ {t} : task'[o] = task[o]
        BY <1>2, <1>t, Moved DEF Snapshot
      <3> QED BY <3>1, <3>2
    <2> QED BY <2>1, <2>2
  <1>3. ASSUME NEW t \in Tasks, Publish(t) PROVE RequestInv'
    <2>1. /\ task[t].at = "write" /\ process.up /\ UNCHANGED <<requests, process>>
          /\ disk' = lock.file
      BY <1>3 DEF Publish, At
    <2>2. /\ task'[t].at \in {"seed", "idle"}
          /\ \A o \in Tasks \ {t} : task'[o] = task[o]
      BY <1>3, <2>1, Followed DEF Publish
    <2>3. \A o \in Tasks : task[o].at = "write" => o = t
      BY <1>i, <2>1 DEF TasksInv
    <2>4. lock.file.requests = requests \/ \E o \in Tasks \ {t} : task[o].at = "persist"
      BY <1>i, <2>1
    <2> QED BY <2>1, <2>2, <2>3, <2>4 DEF Persists
  <1>4. ASSUME NEW t \in Tasks, WriteFails(t) PROVE RequestInv'
    <2>1. /\ task[t].at = "write" /\ UNCHANGED <<requests, process>> /\ failed' = TRUE
      BY <1>4 DEF WriteFails, At
    <2>2. /\ task'[t].at \in {"seed", "idle"}
          /\ \A o \in Tasks \ {t} : task'[o] = task[o]
      BY <1>4, <2>1, Followed DEF WriteFails
    <2>3. \A o \in Tasks : task[o].at = "write" => o = t
      BY <1>i, <2>1 DEF TasksInv
    <2> QED BY <2>1, <2>2, <2>3
  <1>5. ASSUME Gone PROVE RequestInv'
    BY <1>5 DEF Gone, StoreInv, QueueTypeOK
  <1>6. CASE StopBridge
    <2>1. process.up /\ UNCHANGED <<task, lock, disk, requests, failed>>
      BY <1>6 DEF StopBridge, At
    <2> QED BY <1>i, <2>1 DEF Persists
  <1>7. CASE Restart
    <2>1. task'["actor"].at = "idle" /\ task'["bridge"].at = "seed"
      BY <1>7, RestartTurns DEF Idle
    <2>2. requests' = disk.requests /\ UNCHANGED disk
      BY <1>7 DEF Restart
    <2> QED BY <1>b, <2>1, <2>2
  <1> QED BY <1>1, <1>2, <1>3, <1>4, <1>5, <1>6, <1>7, Groups, MostWriteNothing
          DEF ProcessDies, Stopped

(* What toxcore took is not in the file, or a write that says so is due. *)
LEMMA DeliveryStep ==
  ASSUME StoreInv, [QueueNext]_queueVars
  PROVE  DeliverInv'
  <1> USE DEF tox, memory, history
  <1>b. "actor" \in Tasks /\ "bridge" \in Tasks /\ \A t \in Tasks : t = "actor" \/ t = "bridge"
    BY DEF Tasks
  <1>t. task \in [Tasks -> Standing]
    BY DEF StoreInv, QueueTypeOK, Standing
  <1>i. TasksInv /\ DeliverInv
    BY DEF StoreInv
  <1>1. ASSUME Unwritten, sent' = sent \/ Counted' PROVE DeliverInv'
    <2>1. UNCHANGED <<lock, disk, failed, process>> /\ (Counted => Counted')
      BY <1>1 DEF Unwritten
    <2>2. \A t \in Tasks : task'[t].at = "write" <=> task[t].at = "write"
      BY <1>1 DEF Unwritten
    <2>3. CASE Counted'
      BY <2>3 DEF DeliverInv
    <2>4. CASE sent' = sent /\ ~Counted'
      BY <1>b, <1>i, <2>1, <2>2, <2>4 DEF DeliverInv
    <2> QED BY <1>1, <2>3, <2>4
  <1>2. ASSUME NEW t \in Tasks, Snapshot(t) PROVE DeliverInv'
    <2>1. /\ task[t].at = "persist" /\ task'[t].at = "write" /\ process' = process
          /\ \A o \in Tasks \ {t} : task'[o] = task[o]
          /\ UNCHANGED <<disk, failed, sent>>
          /\ \A f \in Friends : lock'.file.outbox[f] = outbox[f] \/ lock'.file.outbox[f] = <<>>
      BY <1>2, <1>t, Moved DEF Snapshot, At
    <2>2. \A f \in Friends : ToSet(lock'.file.outbox[f]) \cap ToSet(sent[f]) = {}
      <3> SUFFICES ASSUME NEW f \in Friends
                   PROVE  ToSet(lock'.file.outbox[f]) \cap ToSet(sent[f]) = {}
        OBVIOUS
      <3>1. Below(ToSet(sent[f]), ToSet(outbox[f]))
        BY DEF StoreInv, QueueInv, InLine
      <3>2. ToSet(sent[f]) \subseteq Nat
        <4>1. sent[f] \in Seq(Payloads)
          BY DEF StoreInv, QueueTypeOK
        <4> QED BY <4>1, Elements, PayloadsAreNumbers
      <3>3. \A b \in ToSet(sent[f]) : ~(b < b)
        BY <3>2
      <3>4. ToSet(outbox[f]) \cap ToSet(sent[f]) = {}
        BY <3>1, <3>3 DEF Below
      <3>5. ToSet(<<>>) = {}
        BY EmptyPart
      <3> QED BY <2>1, <3>4, <3>5
    <2>3. Counted => Counted' \/ task'["bridge"].at = "write"
      BY <1>b, <2>1 DEF Counted
    <2>4. t # "bridge" => task'["bridge"] = task["bridge"]
      BY <1>b, <2>1
    <2>5. task["bridge"].at = "write" => task'["bridge"].at = "write"
      BY <2>1, <2>4
    <2> QED BY <1>i, <2>1, <2>2, <2>3, <2>5 DEF DeliverInv
  <1>3. ASSUME NEW t \in Tasks, Publish(t) \/ WriteFails(t) PROVE DeliverInv'
    <2>1. /\ task[t].at = "write" /\ process.up /\ UNCHANGED <<process, sent>>
          /\ disk' = lock.file \/ failed' = TRUE
      BY <1>3 DEF Publish, WriteFails, At
    <2>2. /\ task'[t].at \in {"seed", "idle"}
          /\ \A o \in Tasks \ {t} : task'[o] = task[o]
      BY <1>3, <2>1, Followed DEF Publish, WriteFails
    <2>3. \A o \in Tasks : task'[o].at # "write"
      BY <1>i, <2>1, <2>2 DEF TasksInv
    <2>4. Counted => Counted'
      <3>1. t = "bridge" => ~Counted
        BY <2>1 DEF Counted
      <3>2. t # "bridge" => task'["bridge"] = task["bridge"]
        BY <1>b, <2>2
      <3> QED BY <3>1, <3>2 DEF Counted
    <2>5. \A f \in Friends : Counted \/ ToSet(lock.file.outbox[f]) \cap ToSet(sent[f]) = {}
      BY <1>i, <2>1 DEF DeliverInv
    <2> QED BY <2>1, <2>3, <2>4, <2>5 DEF DeliverInv
  <1>4. ASSUME Gone PROVE DeliverInv'
    BY <1>4 DEF Gone, StoreInv, QueueTypeOK, DeliverInv
  <1>5. CASE StopBridge
    <2>1. process.up /\ UNCHANGED <<task, lock, disk, sent, failed>>
      BY <1>5 DEF StopBridge, At
    <2> QED BY <1>i, <2>1 DEF DeliverInv, Counted
  <1>6. CASE Restart
    <2>1. sent' = [f \in Friends |-> <<>>]
      BY <1>6 DEF Restart, StoreInv, DownInv
    <2>2. \A f \in Friends : ToSet(sent'[f]) = {}
      BY <2>1, EmptyPart
    <2> QED BY <2>2 DEF DeliverInv
  <1>7. CASE HandOver
    <2>1. Flushes
      BY <1>7 DEF Flushes
    <2>2. Counted'
      BY <1>7, <2>1, FlushTurns DEF Counted
    <2>3. Unwritten
      BY <2>1, MostWriteNothing
    <2> QED BY <1>1, <2>2, <2>3
  <1>8. ASSUME \/ UNCHANGED queueVars
               \/ \E f \in Friends : ComesOnline(f) \/ GoesOffline(f) \/ Requested(f)
               \/ ActorActs \/ Hears \/ Flushes
               \/ \E t \in Tasks : Refreshes(t)
               \/ Age
        PROVE  DeliverInv'
    <2>1. Unwritten
      BY <1>8, MostWriteNothing
    <2>2. HandOver \/ sent' = sent
      BY <1>8, ActorLeaves, HearLeaves, RefreshLeaves, FlushLeavesRest
         DEF ActorLeft, HearLeft, RefreshLeft, FlushLeft, queueVars, ComesOnline, GoesOffline,
             Requested, Age
    <2> QED BY <1>1, <1>7, <2>1, <2>2
  <1> QED BY <1>2, <1>3, <1>4, <1>5, <1>6, <1>8, Groups DEF ProcessDies, Stopped

-----------------------------------------------------------------------------
(* The queues stay in order                                                    *)

LEMMA LineShrinks ==
  ASSUME NEW s \in Seq(Payloads), NEW h \in SUBSET Payloads, NEW o \in Seq(Payloads),
         NEW n \in Nat, InLine(s, h, o, n),
         NEW g \in SUBSET h, NEW q, Part(q, o), NEW m \in Nat, n <= m
  PROVE  InLine(s, g, q, m)
  <1>1. ToSet(s) \subseteq Nat /\ h \subseteq Nat /\ ToSet(o) \subseteq Nat
    BY Elements, PayloadsAreNumbers
  <1>2. ToSet(q) \subseteq ToSet(o) /\ Rising(q)
    BY DEF Part, InLine
  <1>3. \A b \in ToSet(s) \cup g \cup ToSet(q) : b \in Nat /\ b < n
    BY <1>1, <1>2 DEF InLine, Below
  <1>4. \A b \in ToSet(s) \cup g \cup ToSet(q) : b < m
    BY <1>3
  <1> QED BY <1>2, <1>4 DEF InLine, Below

LEMMA WrittenKept ==
  ASSUME NEW q \in Seq(Payloads), NEW r, Part(r, q), NEW n \in Nat, NEW m \in Nat, n <= m,
         Written(q, n)
  PROVE  Written(r, m)
  <1>1. ToSet(q) \subseteq Nat /\ ToSet(r) \subseteq ToSet(q) /\ Rising(r)
    BY Elements, PayloadsAreNumbers DEF Part, Written
  <1>2. \A b \in ToSet(r) : b \in Nat /\ b < n
    BY <1>1 DEF Written, Below
  <1> QED BY <1>1, <1>2 DEF Written, Below

LEMMA EmptyLine ==
  ASSUME NEW q \in Seq(Payloads), NEW n, Written(q, n)
  PROVE  InLine(<<>>, {}, q, n) /\ Written(<<>>, n) /\ InLine(<<>>, {}, <<>>, n)
  <1>1. ToSet(<<>>) = {} /\ Rising(<<>>)
    BY EmptyPart
  <1> QED BY <1>1 DEF InLine, Written, Below

LEMMA WholePart ==
  ASSUME NEW q \in Seq(Payloads)
  PROVE  Part(q, q)
  BY DEF Part

(* The next payload joins its queue. *)
LEMMA LineGrows ==
  ASSUME NEW s \in Seq(Payloads), NEW h \in SUBSET Payloads, NEW o \in Seq(Payloads),
         NEW n \in Payloads, InLine(s, h, o, n)
  PROVE  InLine(s, h, Append(o, n), n + 1)
  <1>1. ToSet(s) \subseteq Nat /\ h \subseteq Nat /\ ToSet(o) \subseteq Nat /\ n \in Nat
    BY Elements, PayloadsAreNumbers
  <1>2. /\ ToSet(Append(o, n)) = ToSet(o) \cup {n}
        /\ Rising(o) /\ Below(ToSet(o), {n}) => Rising(Append(o, n))
    BY LastAdded
  <1>3. \A b \in ToSet(s) \cup h \cup ToSet(o) : b \in Nat /\ b < n
    BY <1>1 DEF InLine, Below
  <1>4. \A b \in ToSet(s) \cup h \cup ToSet(o) \cup {n} : b < n + 1
    BY <1>1, <1>3
  <1>5. Rising(Append(o, n))
    BY <1>2, <1>3 DEF InLine, Below
  <1>6. ToSet(Append(o, n)) = ToSet(o) \cup {n}
    BY <1>2
  <1> HIDE DEF ToSet
  <1> QED BY <1>3, <1>4, <1>5, <1>6 DEF InLine, Below

(* The first one is taken out, handed over or put back. *)
LEMMA LineMoves ==
  ASSUME NEW s \in Seq(Payloads), NEW o \in Seq(Payloads), NEW n
  PROVE  /\ o # <<>> /\ InLine(s, {}, o, n) => InLine(s, {Head(o)}, Tail(o), n)
         /\ \A b \in Payloads : InLine(s, {b}, o, n) =>
              InLine(Append(s, b), {}, o, n) /\ InLine(s, {}, <<b>> \o o, n)
  <1>1. ASSUME o # <<>>, InLine(s, {}, o, n) PROVE InLine(s, {Head(o)}, Tail(o), n)
    <2>1. /\ ToSet(o) = {Head(o)} \cup ToSet(Tail(o))
          /\ Rising(Tail(o)) /\ Below({Head(o)}, ToSet(Tail(o)))
      BY <1>1, FirstTaken DEF InLine
    <2> QED BY <1>1, <2>1 DEF InLine, Below
  <1>2. ASSUME NEW b \in Payloads, InLine(s, {b}, o, n)
        PROVE  InLine(Append(s, b), {}, o, n)
    <2>1. ToSet(Append(s, b)) = ToSet(s) \cup {b} /\ Rising(Append(s, b))
      BY <1>2, LastAdded DEF InLine
    <2> QED BY <1>2, <2>1 DEF InLine, Below
  <1>3. ASSUME NEW b \in Payloads, InLine(s, {b}, o, n)
        PROVE  InLine(s, {}, <<b>> \o o, n)
    <2>1. <<b>> \in Seq(Payloads) /\ ToSet(<<b>>) = {b} /\ Rising(<<b>>)
      BY OneOnly
    <2>2. /\ ToSet(<<b>> \o o) = ToSet(<<b>>) \cup ToSet(o)
          /\ Rising(<<b>>) /\ Rising(o) /\ Below(ToSet(<<b>>), ToSet(o)) => Rising(<<b>> \o o)
      BY <2>1, Joined
    <2>3. Rising(<<b>> \o o) /\ ToSet(<<b>> \o o) = {b} \cup ToSet(o)
      BY <1>3, <2>1, <2>2 DEF InLine
    <2> QED BY <1>3, <2>3 DEF InLine, Below
  <1> QED BY <1>1, <1>2, <1>3

LEMMA QueuesTyped ==
  ASSUME QueueTypeOK, NEW f \in Friends
  PROVE  /\ sent[f] \in Seq(Payloads) /\ outbox[f] \in Seq(Payloads)
         /\ Offered(f) \in SUBSET Payloads
         /\ disk.outbox[f] \in Seq(Payloads) /\ lock.file.outbox[f] \in Seq(Payloads)
         /\ next \in Nat
  <1>1. task["bridge"].hand \in Payloads \cup {0}
    BY DEF QueueTypeOK, Tasks
  <1> QED BY <1>1, PayloadsAreNumbers DEF QueueTypeOK, File, Offered

LEMMA QueuesKept ==
  ASSUME QueueTypeOK, QueueInv, next' \in Nat, next <= next', UNCHANGED <<sent, disk, lock>>,
         \A f \in Friends : Part(outbox'[f], outbox[f]) /\ Offered(f)' \subseteq Offered(f)
  PROVE  QueueInv'
  <1> SUFFICES ASSUME NEW f \in Friends
               PROVE  /\ InLine(sent[f], Offered(f)', outbox'[f], next')
                      /\ Written(disk.outbox[f], next') /\ Written(lock.file.outbox[f], next')
    BY DEF QueueInv
  <1>1. /\ InLine(sent[f], Offered(f), outbox[f], next)
        /\ Written(disk.outbox[f], next) /\ Written(lock.file.outbox[f], next)
    BY DEF QueueInv
  <1>2. Part(outbox'[f], outbox[f]) /\ Offered(f)' \subseteq Offered(f)
    OBVIOUS
  <1>3. InLine(sent[f], Offered(f)', outbox'[f], next')
    <2> DEFINE g == Offered(f)'
               q == outbox'[f]
               m == next'
    <2>1. g \in SUBSET Offered(f) /\ Part(q, outbox[f]) /\ m \in Nat /\ next <= m
      BY <1>2
    <2> HIDE DEF g, q, m
    <2>2. InLine(sent[f], g, q, m)
      BY <1>1, <2>1, QueuesTyped, LineShrinks
    <2> QED BY <2>2 DEF g, q, m
  <1>4. Written(disk.outbox[f], next') /\ Written(lock.file.outbox[f], next')
    BY <1>1, QueuesTyped, WholePart, WrittenKept
  <1> QED BY <1>3, <1>4

LEMMA EmptyHand ==
  ASSUME NEW f, task["bridge"].hand = 0
  PROVE  Offered(f) = {}
  BY DEF Offered

LEMMA SamePart ==
  ASSUME QueueTypeOK, outbox' = outbox
  PROVE  \A f \in Friends : Part(outbox'[f], outbox[f])
  BY QueuesTyped, WholePart

LEMMA QueueStep ==
  ASSUME StoreInv, [QueueNext]_queueVars
  PROVE  QueueInv'
  <1> USE DEF tox, memory, history, At
  <1>t. QueueTypeOK /\ QueueInv /\ TasksInv
    BY DEF StoreInv
  <1>n. next \in Nat /\ next <= next
    BY <1>t, PayloadsAreNumbers DEF QueueTypeOK
  <1>i. TasksInv'
    BY TasksStep
  <1>h. task'["bridge"].hand = 0 => \A f \in Friends : Offered(f)' = {}
    BY DEF Offered
  <1>s. task' = task \/ task'["bridge"] = task["bridge"] =>
          \A f \in Friends : Offered(f)' = Offered(f)
    BY DEF Offered
  <1>1. ASSUME UNCHANGED <<sent, disk, lock, outbox, task, next>> PROVE QueueInv'
    BY <1>t, <1>n, <1>s, <1>1, SamePart, QueuesKept
  <1>2. CASE ActorActs /\ ~Push
    <2>1. UNCHANGED <<sent, disk, lock>> /\ (PruneAll \/ outbox' = outbox)
      BY <1>2, ActorLeaves DEF ActorLeft
    <2>2. next' \in Nat /\ next <= next' /\ \A f \in Friends : Offered(f)' = Offered(f)
      <3>1. task'["bridge"] = task["bridge"] /\ next <= next'
        BY <1>2, ActorTurns DEF ActorTurned
      <3>2. next' \in Nat
        BY QueueTypeStep, PayloadsAreNumbers DEF QueueTypeOK
      <3> QED BY <1>s, <3>1, <3>2
    <2>3. \A f \in Friends : Part(outbox'[f], outbox[f])
      BY <1>t, <2>1, Pruned, SamePart
    <2> QED BY <1>t, <2>1, <2>2, <2>3, QueuesKept
  <1>3. CASE Push
    <2> DEFINE a == task["actor"].friend
    <2>1. task'["bridge"] = task["bridge"] /\ a \in Friends /\ next <= MaxMsg
      BY <1>3, <1>t, ActorTurns DEF ActorActs, ActorTurned, Push, TasksInv
    <2>2. next' = next + 1 /\ UNCHANGED <<sent, disk, lock>> /\ next \in Payloads
      BY <1>3, <1>n, <1>t, <2>1 DEF Push, QueueTypeOK, Payloads
    <2>3. \A f \in Friends : Offered(f)' = Offered(f)
      BY <1>s, <2>1
    <2>4. \A f \in Friends : outbox'[f] = outbox[f] \/ outbox'[f] = Append(outbox[f], next)
      <3>1. outbox' = outbox \/ outbox' = [outbox EXCEPT ![a] = Append(@, next)]
        BY <1>3 DEF Push
      <3>2. outbox \in [Friends -> Seq(Payloads)]
        BY <1>t DEF QueueTypeOK
      <3> HIDE DEF a
      <3> QED BY ONLY <2>1, <3>1, <3>2
    <2>5. ASSUME NEW f \in Friends
          PROVE  /\ InLine(sent[f], Offered(f), outbox'[f], next + 1)
                 /\ Written(disk.outbox[f], next + 1) /\ Written(lock.file.outbox[f], next + 1)
      <3>1. /\ InLine(sent[f], Offered(f), outbox[f], next)
            /\ Written(disk.outbox[f], next) /\ Written(lock.file.outbox[f], next)
        BY <1>t DEF QueueInv
      <3>2. next + 1 \in Nat /\ next <= next + 1
        BY <1>n
      <3>3. Written(disk.outbox[f], next + 1) /\ Written(lock.file.outbox[f], next + 1)
        BY <1>t, <1>n, <3>1, <3>2, QueuesTyped, WholePart, WrittenKept
      <3>4. InLine(sent[f], Offered(f), outbox[f], next + 1)
        BY <1>t, <1>n, <3>1, <3>2, QueuesTyped, WholePart, LineShrinks
      <3>5. InLine(sent[f], Offered(f), Append(outbox[f], next), next + 1)
        BY <1>t, <2>2, <3>1, QueuesTyped, LineGrows
      <3> QED BY <2>4, <3>3, <3>4, <3>5
    <2> QED BY <2>2, <2>3, <2>5 DEF QueueInv
  <1>4. CASE Hears
    <2>1. UNCHANGED <<sent, disk, lock, outbox, next>>
      BY <1>4, HearLeaves DEF HearLeft
    <2>2. \A f \in Friends : Offered(f)' = {}
      BY <1>4, <1>h, HearTurns DEF HearTurned
    <2>3. \A f \in Friends : Offered(f)' \subseteq Offered(f)
      BY <2>2
    <2> QED BY <1>t, <1>n, <2>1, <2>3, SamePart, QueuesKept
  <1>5. ASSUME NEW t \in Tasks, Refreshes(t) PROVE QueueInv'
    <2>1. UNCHANGED <<sent, disk, lock, outbox, next>>
      BY <1>5, RefreshLeaves DEF RefreshLeft, HearLeft
    <2>2. \A f \in Friends : Offered(f)' \subseteq Offered(f)
      <3>1. CASE t = "bridge"
        <4>1. task'["bridge"].hand = 0
          BY <1>5, <1>i, <3>1, RefreshTurns DEF RefreshTurned, TasksInv
        <4> QED BY <1>h, <4>1
      <3>2. CASE t # "bridge"
        <4>1. task'["bridge"] = task["bridge"]
          BY <1>5, <3>2, RefreshTurns DEF RefreshTurned, Tasks
        <4> QED BY <1>s, <4>1
      <3> QED BY <3>1, <3>2
    <2> QED BY <1>t, <1>n, <2>1, <2>2, SamePart, QueuesKept
  <1>6. CASE Flushes
    <2>b. PICK b \in Friends : b = task["bridge"].friend
      BY <1>6, FlushTurns DEF FlushTurned
    <2>1. FlushTurned
      BY <1>6, FlushTurns
    <2>2. UNCHANGED <<disk, lock, next>>
      BY <1>6, FlushLeavesRest DEF FlushLeft
    <2>3. CASE PruneOnline \/ FlushEnds
      <3>1. sent' = sent /\ (PruneAll \/ outbox' = outbox)
        BY <2>3 DEF PruneOnline, FlushEnds
      <3>2. task'["bridge"].hand = 0
        BY <1>6, <2>1, <2>3, FlushTurns DEF FlushTurned
      <3>3. \A f \in Friends : Offered(f)' \subseteq Offered(f)
        BY <1>h, <3>2
      <3>4. \A f \in Friends : Part(outbox'[f], outbox[f])
        BY <1>t, <3>1, Pruned, SamePart
      <3> QED BY <1>t, <1>n, <2>2, <3>1, <3>3, <3>4, QueuesKept
    <2>4. ASSUME NEW f \in Friends, f # b
          PROVE  Offered(f) = {} /\ Offered(f)' = {}
      <3>1. task'["bridge"].friend = b \/ task'["bridge"].hand = 0
        BY <2>b, <2>1 DEF FlushTurned
      <3> QED BY <2>b, <2>4, <3>1 DEF Offered
    <2>5. CASE Pop
      <3>1. /\ outbox[b] # <<>> /\ sent' = sent
            /\ outbox' = [outbox EXCEPT ![b] = Tail(@)]
            /\ task["bridge"].hand = 0 /\ task'["bridge"].hand = Head(outbox[b])
            /\ task'["bridge"].friend = b
        BY <1>6, <1>t, <2>b, <2>1, <2>5, FlushTurns DEF Pop, FlushTurned, TasksInv
      <3>2. Head(outbox[b]) # 0
        BY <1>t, <2>1, <3>1, QueuesTyped, FirstTaken, PayloadsAreNumbers
      <3>3. Offered(b) = {} /\ Offered(b)' = {Head(outbox[b])}
        BY <2>b, <3>1, <3>2 DEF Offered
      <3>4. InLine(sent[b], {}, outbox[b], next)
        BY <1>t, <2>1, <3>3 DEF QueueInv
      <3>5. InLine(sent[b], {Head(outbox[b])}, Tail(outbox[b]), next)
        BY <1>t, <2>1, <3>1, <3>4, QueuesTyped, LineMoves
      <3>6. /\ outbox'[b] = Tail(outbox[b])
            /\ \A f \in Friends \ {b} : outbox'[f] = outbox[f]
        BY <1>t, <2>1, <3>1 DEF QueueTypeOK
      <3>7. ASSUME NEW f \in Friends
            PROVE  InLine(sent'[f], Offered(f)', outbox'[f], next)
        <4>1. CASE f = b
          BY <3>1, <3>3, <3>5, <3>6, <4>1
        <4>2. CASE f # b
          <5>1. Offered(f) = {} /\ Offered(f)' = {}
            BY <2>4, <4>2
          <5>2. InLine(sent[f], {}, outbox[f], next)
            BY <1>t, <5>1 DEF QueueInv
          <5> QED BY <3>1, <3>6, <4>2, <5>1, <5>2
        <4> QED BY <4>1, <4>2
      <3> QED BY <1>t, <2>2, <3>7 DEF QueueInv
    <2>6. CASE HandOver
      <3>x. PICK x : x = task["bridge"].hand
        OBVIOUS
      <3>1. /\ sent' = [sent EXCEPT ![b] = Append(@, x)] /\ outbox' = outbox
            /\ x # 0 /\ task'["bridge"].hand = 0
        BY <1>6, <1>t, <2>b, <3>x, <2>1, <2>6, FlushTurns DEF HandOver, FlushTurned, TasksInv
      <3>2. x \in Payloads
        BY <1>t, <3>x, <3>1 DEF QueueTypeOK, Tasks
      <3>3. Offered(b) = {x} /\ Offered(b)' = {}
        BY <2>b, <3>x, <3>1 DEF Offered
      <3>4. InLine(sent[b], {x}, outbox[b], next)
        BY <1>t, <2>1, <3>3 DEF QueueInv
      <3>5. InLine(Append(sent[b], x), {}, outbox[b], next)
        BY <1>t, <2>1, <3>2, <3>4, QueuesTyped, LineMoves
      <3>6. /\ sent'[b] = Append(sent[b], x)
            /\ \A f \in Friends \ {b} : sent'[f] = sent[f]
        BY <1>t, <2>1, <3>1 DEF QueueTypeOK
      <3>7. ASSUME NEW f \in Friends
            PROVE  InLine(sent'[f], Offered(f)', outbox'[f], next)
        <4>1. CASE f = b
          BY <3>1, <3>3, <3>5, <3>6, <4>1
        <4>2. CASE f # b
          <5>1. Offered(f) = {} /\ Offered(f)' = {}
            BY <2>4, <4>2
          <5>2. InLine(sent[f], {}, outbox[f], next)
            BY <1>t, <5>1 DEF QueueInv
          <5> QED BY <3>1, <3>6, <4>2, <5>1, <5>2
        <4> QED BY <4>1, <4>2
      <3> QED BY <1>t, <2>2, <3>7 DEF QueueInv
    <2>7. CASE PutBack
      <3>x. PICK x : x = task["bridge"].hand
        OBVIOUS
      <3>1. /\ outbox' = [outbox EXCEPT ![b] = <<x>> \o @] /\ sent' = sent
            /\ x # 0 /\ task'["bridge"].hand = 0
        BY <1>6, <1>t, <2>b, <3>x, <2>1, <2>7, FlushTurns DEF PutBack, FlushTurned, TasksInv
      <3>2. x \in Payloads
        BY <1>t, <3>x, <3>1 DEF QueueTypeOK, Tasks
      <3>3. Offered(b) = {x} /\ Offered(b)' = {}
        BY <2>b, <3>x, <3>1 DEF Offered
      <3>4. InLine(sent[b], {x}, outbox[b], next)
        BY <1>t, <2>1, <3>3 DEF QueueInv
      <3>5. InLine(sent[b], {}, <<x>> \o outbox[b], next)
        BY <1>t, <2>1, <3>2, <3>4, QueuesTyped, LineMoves
      <3>6. /\ outbox'[b] = <<x>> \o outbox[b]
            /\ \A f \in Friends \ {b} : outbox'[f] = outbox[f]
        BY <1>t, <2>1, <3>1 DEF QueueTypeOK
      <3>7. ASSUME NEW f \in Friends
            PROVE  InLine(sent'[f], Offered(f)', outbox'[f], next)
        <4>1. CASE f = b
          BY <3>1, <3>3, <3>5, <3>6, <4>1
        <4>2. CASE f # b
          <5>1. Offered(f) = {} /\ Offered(f)' = {}
            BY <2>4, <4>2
          <5>2. InLine(sent[f], {}, outbox[f], next)
            BY <1>t, <5>1 DEF QueueInv
          <5> QED BY <3>1, <3>6, <4>2, <5>1, <5>2
        <4> QED BY <4>1, <4>2
      <3> QED BY <1>t, <2>2, <3>7 DEF QueueInv
    <2> QED BY <1>6, <2>3, <2>5, <2>6, <2>7 DEF Flushes
  <1>7. ASSUME NEW t \in Tasks, Snapshot(t) PROVE QueueInv'
    <2>1. /\ UNCHANGED <<sent, disk, outbox, next>>
          /\ \A f \in Friends : lock'.file.outbox[f] = outbox[f] \/ lock'.file.outbox[f] = <<>>
      BY <1>7 DEF Snapshot
    <2>2. /\ task'["bridge"].hand = task["bridge"].hand
          /\ task'["bridge"].friend = task["bridge"].friend
      <3>1. task \in [Tasks -> Standing] /\ "bridge" \in Tasks /\ Goes(t, "write")
        BY <1>7, <1>t DEF Snapshot, QueueTypeOK, Standing, Tasks
      <3> QED BY ONLY <3>1, t \in Tasks, Moved
    <2>3. \A f \in Friends : Offered(f)' = Offered(f)
      BY <2>2 DEF Offered
    <2>4. ASSUME NEW f \in Friends PROVE Written(lock'.file.outbox[f], next)
      <3>1. Written(outbox[f], next)
        BY <1>t DEF QueueInv, InLine, Written, Below
      <3>2. Written(<<>>, next)
        BY EmptyPart DEF Written, Below
      <3> QED BY <2>1, <3>1, <3>2
    <2> QED BY <1>t, <2>1, <2>3, <2>4 DEF QueueInv
  <1>8. ASSUME NEW t \in Tasks, Publish(t) \/ WriteFails(t) PROVE QueueInv'
    <2>1. /\ UNCHANGED <<sent, outbox, next>> /\ lock' = Unlocked /\ task[t].at = "write"
          /\ disk' = lock.file \/ disk' = disk
      BY <1>8 DEF Publish, WriteFails
    <2>2. \A f \in Friends : Offered(f)' \subseteq Offered(f)
      <3>1. CASE t = "bridge"
        <4>1. task'["bridge"].at \in {"seed", "idle"}
          BY <1>8, <2>1, <3>1, Followed DEF Publish, WriteFails
        <4>2. task'["bridge"].hand = 0
          BY <1>i, <4>1 DEF TasksInv
        <4> QED BY <1>h, <4>2
      <3>2. CASE t # "bridge"
        <4>1. task'["bridge"] = task["bridge"]
          BY <1>8, <2>1, <3>2, Followed DEF Publish, WriteFails, Tasks
        <4> QED BY <1>s, <4>1
      <3> QED BY <3>1, <3>2
    <2>3. ASSUME NEW f \in Friends
          PROVE  /\ InLine(sent[f], Offered(f)', outbox[f], next)
                 /\ Written(disk'.outbox[f], next) /\ Written(lock'.file.outbox[f], next)
      <3>1. /\ InLine(sent[f], Offered(f), outbox[f], next)
            /\ Written(disk.outbox[f], next) /\ Written(lock.file.outbox[f], next)
        BY <1>t DEF QueueInv
      <3>2. lock'.file.outbox[f] = <<>>
        BY <2>1 DEF Unlocked, EmptyFile
      <3>3. Written(<<>>, next)
        BY EmptyPart DEF Written, Below
      <3>4. InLine(sent[f], Offered(f)', outbox[f], next)
        <4> DEFINE g == Offered(f)'
        <4>1. g \in SUBSET Offered(f)
          BY <2>2
        <4> HIDE DEF g
        <4>2. InLine(sent[f], g, outbox[f], next)
          BY <1>t, <1>n, <3>1, <4>1, QueuesTyped, WholePart, LineShrinks
        <4> QED BY <4>2 DEF g
      <3> QED BY <2>1, <3>1, <3>2, <3>3, <3>4
    <2> QED BY <2>1, <2>3 DEF QueueInv
  <1>9. ASSUME Gone, UNCHANGED <<disk, next>> PROVE QueueInv'
    <2>1. \A f \in Friends : Offered(f)' = {}
      BY <1>9, <1>h DEF Gone, Idle, Tasks
    <2>2. \A f \in Friends : sent'[f] = <<>> /\ outbox'[f] = <<>> /\ lock'.file.outbox[f] = <<>>
      BY <1>9 DEF Gone, Unlocked, EmptyFile
    <2>3. Written(<<>>, next) /\ InLine(<<>>, {}, <<>>, next)
      BY EmptyPart DEF Written, Below, InLine
    <2> QED BY <1>9, <1>t, <2>1, <2>2, <2>3 DEF QueueInv
  <1>10. CASE Restart
    <2>1. \A f \in Friends : Offered(f)' = {}
      BY <1>10, <1>h, RestartTurns
    <2>2. /\ UNCHANGED <<sent, disk, lock, next>>
          /\ \A f \in Friends : outbox'[f] = Restored(f)
      BY <1>10 DEF Restart
    <2>3. \A f \in Friends : sent[f] = <<>>
      BY <1>10 DEF Restart, StoreInv, DownInv
    <2>4. ASSUME NEW f \in Friends PROVE InLine(<<>>, {}, Restored(f), next)
      <3>1. Part(Restored(f), disk.outbox[f]) /\ Written(disk.outbox[f], next)
        BY <1>t, RestoredQueues DEF QueueInv
      <3>2. Written(Restored(f), next)
        BY <1>t, <1>n, <3>1, QueuesTyped, WrittenKept
      <3>3. Restored(f) \in Seq(Payloads)
        BY <3>1 DEF Part
      <3> QED BY <3>2, <3>3, EmptyLine
    <2> QED BY <1>t, <2>1, <2>2, <2>3, <2>4 DEF QueueInv
  <1> QED BY <1>1, <1>2, <1>3, <1>4, <1>5, <1>6, <1>7, <1>8, <1>9, <1>10, Groups
          DEF queueVars, ComesOnline, GoesOffline, Requested, ProcessDies, Stopped, StopBridge, Age

-----------------------------------------------------------------------------
(* The ids stay apart                                                          *)

LEMMA NamesTyped ==
  ASSUME QueueTypeOK
  PROVE  Named \subseteq Payloads
  <1>1. /\ Contents(outbox) \subseteq Payloads /\ Contents(disk.outbox) \subseteq Payloads
        /\ Contents(lock.file.outbox) \subseteq Payloads
    BY QueuesTyped, Elements DEF Contents
  <1>2. {task["bridge"].hand} \ {0} \subseteq Payloads
    BY DEF QueueTypeOK, Tasks
  <1> QED BY <1>1, <1>2 DEF Named, Held

LEMMA NumbersNamed ==
  ASSUME QueueTypeOK
  PROVE  \A b \in Named : b \in Payloads /\ b \in Nat /\ idOf[b] \in Nat
  <1>1. idOf \in [Payloads -> 0..MaxMsg] /\ 0..MaxMsg \subseteq Nat /\ Payloads \subseteq Nat
    BY PayloadsAreNumbers DEF QueueTypeOK
  <1>2. Named \subseteq Payloads
    BY NamesTyped
  <1> QED BY ONLY <1>1, <1>2

(* Where no payload is new, no id is. *)
LEMMA NamesKept ==
  ASSUME QueueTypeOK, IdInv, QueueTypeOK',
         Named' \subseteq Named, idOf' = idOf, nextId' = nextId,
         process'.up => process.up, next <= next',
         disk'.nextId \in {disk.nextId, lock.file.nextId},
         lock'.file.nextId \in {lock.file.nextId, nextId, 1}
  PROVE  IdInv'
  <1>1. /\ next \in Nat /\ next' \in Nat /\ nextId \in Nat /\ disk.nextId \in Nat
        /\ lock.file.nextId \in Nat /\ 1 <= nextId
    BY PayloadsAreNumbers DEF QueueTypeOK, File
  <1>2. \A b \in Named : b \in Nat /\ idOf[b] \in Nat
    BY NumbersNamed
  <1>3. \A b \in Named : b < next' /\ idOf[b] < next'
    BY <1>1, <1>2 DEF IdInv
  <1>4. nextId <= next' /\ disk'.nextId <= next' /\ lock'.file.nextId <= next'
    BY <1>1 DEF IdInv
  <1> QED BY <1>3, <1>4 DEF IdInv

LEMMA IdsStep ==
  ASSUME StoreInv, [QueueNext]_queueVars
  PROVE  IdInv'
  <1> USE DEF tox, memory, history, At
  <1>t. QueueTypeOK /\ IdInv /\ TasksInv /\ QueueTypeOK'
    BY QueueTypeStep DEF StoreInv
  <1>n. next \in Nat /\ next' \in Nat /\ nextId \in Nat /\ nextId >= 1
    BY <1>t, PayloadsAreNumbers DEF QueueTypeOK
  <1>i. TasksInv'
    BY TasksStep
  <1>r. next <= next
    BY <1>n
  <1>b. "bridge" \in Tasks /\ "actor" \in Tasks
    BY DEF Tasks
  <1>1. ASSUME UNCHANGED <<disk, lock, idOf, nextId>>, process'.up => process.up, next <= next',
               Contents(outbox') \subseteq Contents(outbox),
               task'["bridge"].hand \in {task["bridge"].hand, 0}
        PROVE  IdInv'
    <2>1. Named' \subseteq Named
      BY <1>1 DEF Named, Held
    <2> QED BY <1>1, <1>t, <2>1, NamesKept
  <1>2. ASSUME PruneAll PROVE Contents(outbox') \subseteq Contents(outbox)
    BY <1>2, <1>t, Pruned DEF Part, Contents
  <1>3. CASE ActorActs /\ ~Push
    <2>1. UNCHANGED <<disk, lock, idOf, nextId, process>> /\ (PruneAll \/ outbox' = outbox)
      BY <1>3, ActorLeaves DEF ActorLeft
    <2>2. task'["bridge"] = task["bridge"] /\ next <= next'
      BY <1>3, ActorTurns DEF ActorTurned
    <2> QED BY <1>1, <1>2, <2>1, <2>2
  <1>4. CASE Push
    <2>1. /\ task'["bridge"] = task["bridge"] /\ next <= MaxMsg
          /\ task["actor"].friend \in Friends
      BY <1>4, <1>t, ActorTurns DEF ActorActs, ActorTurned, Push, TasksInv
    <2>2. /\ next' = next + 1 /\ nextId' = nextId + 1 /\ process.up
          /\ UNCHANGED <<disk, lock, process>> /\ next \in Payloads
      BY <1>4, <1>n, <1>t, <2>1 DEF Push, QueueTypeOK, Payloads
    <2>3. \A b \in Named : b \in Payloads /\ b \in Nat /\ b < next /\ idOf[b] \in Nat
                           /\ idOf[b] < next /\ idOf[b] < nextId
      BY <1>t, <2>2, NumbersNamed DEF IdInv
    <2>4. nextId <= next /\ disk.nextId <= next /\ lock.file.nextId <= next
      BY <1>t DEF IdInv
    <2>5. disk.nextId \in Nat /\ lock.file.nextId \in Nat
      BY <1>t DEF QueueTypeOK, File
    <2>6. nextId' <= next' /\ disk'.nextId <= next' /\ lock'.file.nextId <= next'
      BY <1>n, <2>2, <2>4, <2>5
    <2>7. CASE outbox' = outbox /\ idOf' = idOf
      <3>1. Named' = Named
        BY <2>1, <2>2, <2>7 DEF Named, Held
      <3>2. \A b \in Named : b < next' /\ idOf[b] < next' /\ idOf[b] < nextId'
        BY <1>n, <2>2, <2>3
      <3> QED BY <1>t, <2>6, <2>7, <3>1, <3>2 DEF IdInv
    <2>8. CASE /\ outbox' = [outbox EXCEPT ![task["actor"].friend] = Append(@, next)]
               /\ idOf' = [idOf EXCEPT ![next] = nextId]
      <3>1. \A f \in Friends : ToSet(outbox'[f]) \subseteq ToSet(outbox[f]) \cup {next}
        <4> SUFFICES ASSUME NEW f \in Friends
                     PROVE  ToSet(outbox'[f]) \subseteq ToSet(outbox[f]) \cup {next}
          OBVIOUS
        <4>1. outbox'[f] = outbox[f] \/ outbox'[f] = Append(outbox[f], next)
          BY <1>t, <2>1, <2>8 DEF QueueTypeOK
        <4>2. ToSet(Append(outbox[f], next)) = ToSet(outbox[f]) \cup {next}
          BY <1>t, <2>2, QueuesTyped, LastAdded
        <4> QED BY <4>1, <4>2
      <3>2. Contents(outbox') \subseteq Contents(outbox) \cup {next}
        BY <3>1 DEF Contents
      <3>3. Named' \subseteq Named \cup {next}
        BY <2>1, <2>2, <3>2 DEF Named, Held
      <3>4. \A b \in Named : b # next /\ idOf'[b] = idOf[b]
        BY <1>t, <2>3, <2>8 DEF QueueTypeOK
      <3>5. idOf'[next] = nextId
        BY <1>t, <2>2, <2>8 DEF QueueTypeOK
      <3>6. \A b \in Named : idOf'[b] \in Nat /\ idOf'[b] < nextId /\ b < next' /\ idOf'[b] < next'
                             /\ idOf'[b] < nextId'
        BY <1>n, <2>2, <2>3, <3>4
      <3>7. next < next' /\ idOf'[next] < next' /\ idOf'[next] < nextId'
        BY <1>n, <2>2, <2>4, <3>5
      <3>8. \A b \in Named : idOf'[b] # idOf'[next]
        BY <1>n, <3>5, <3>6
      <3>9. \A b, d \in Named : idOf'[b] = idOf'[d] => b = d
        BY <1>t, <3>4 DEF IdInv
      <3>10. \A b, d \in Named' : idOf'[b] = idOf'[d] => b = d
        BY <3>3, <3>8, <3>9
      <3>11. \A b \in Named' : b < next' /\ idOf'[b] < next' /\ idOf'[b] < nextId'
        BY <3>3, <3>6, <3>7
      <3> QED BY <2>6, <3>10, <3>11 DEF IdInv
    <2> QED BY <1>4, <2>7, <2>8 DEF Push
  <1>5. CASE Hears
    <2>1. UNCHANGED <<disk, lock, outbox, next, idOf, nextId, process>>
      BY <1>5, HearLeaves DEF HearLeft
    <2>2. task'["bridge"].hand = 0
      BY <1>5, HearTurns DEF HearTurned
    <2> QED BY <1>1, <1>r, <2>1, <2>2
  <1>6. ASSUME NEW t \in Tasks, Refreshes(t) PROVE IdInv'
    <2>1. UNCHANGED <<disk, lock, outbox, next, idOf, nextId, process>>
      BY <1>6, RefreshLeaves DEF RefreshLeft, HearLeft
    <2>2. task'["bridge"].hand \in {task["bridge"].hand, 0}
      <3>1. CASE t = "bridge"
        BY <1>6, <1>i, <3>1, RefreshTurns DEF RefreshTurned, TasksInv
      <3>2. CASE t # "bridge"
        BY <1>6, <3>2, <1>b, RefreshTurns DEF RefreshTurned
      <3> QED BY <3>1, <3>2
    <2> QED BY <1>1, <1>r, <2>1, <2>2
  <1>7. CASE Flushes
    <2>b. PICK b \in Friends : b = task["bridge"].friend
      BY <1>7, FlushTurns DEF FlushTurned
    <2>1. UNCHANGED <<disk, lock, next, idOf, nextId, process>>
      BY <1>7, FlushLeavesRest DEF FlushLeft
    <2>2. CASE PruneOnline \/ HandOver \/ FlushEnds
      <3>1. PruneAll \/ outbox' = outbox
        BY <2>2 DEF PruneOnline, HandOver, FlushEnds
      <3>2. task'["bridge"].hand = 0
        BY <1>7, <1>i, <2>2, FlushTurns DEF FlushTurned, TasksInv
      <3> QED BY <1>1, <1>2, <1>r, <2>1, <3>1, <3>2
    <2>3. CASE Pop
      <3>1. /\ outbox[b] # <<>> /\ outbox' = [outbox EXCEPT ![b] = Tail(@)]
            /\ task'["bridge"].hand = Head(outbox[b])
        BY <1>7, <2>b, <2>3, FlushTurns DEF Pop
      <3>2. ToSet(outbox[b]) = {Head(outbox[b])} \cup ToSet(Tail(outbox[b]))
        BY <1>t, <3>1, QueuesTyped, FirstTaken
      <3>3. \A f \in Friends : ToSet(outbox'[f]) \subseteq ToSet(outbox[f])
        BY <1>t, <3>1, <3>2 DEF QueueTypeOK
      <3>4. Contents(outbox') \subseteq Contents(outbox) /\ Head(outbox[b]) \in Contents(outbox)
        BY <3>2, <3>3 DEF Contents
      <3>5. Named' \subseteq Named
        BY <2>1, <3>1, <3>4 DEF Named, Held
      <3> QED BY <1>t, <1>r, <2>1, <3>5, NamesKept
    <2>4. CASE PutBack
      <3>x. PICK x : x = task["bridge"].hand
        OBVIOUS
      <3>1. /\ outbox' = [outbox EXCEPT ![b] = <<x>> \o @]
            /\ x # 0 /\ task'["bridge"].hand = 0
        BY <1>7, <1>t, <2>b, <3>x, <2>4, FlushTurns DEF PutBack, TasksInv
      <3>2. x \in Payloads
        BY <1>t, <1>b, <3>x, <3>1 DEF QueueTypeOK
      <3>3. ToSet(<<x>> \o outbox[b]) = {x} \cup ToSet(outbox[b])
        BY <1>t, <3>2, QueuesTyped, OneOnly, Joined
      <3>4. \A f \in Friends : ToSet(outbox'[f]) \subseteq ToSet(outbox[f]) \cup {x}
        BY <1>t, <3>1, <3>3 DEF QueueTypeOK
      <3>5. Contents(outbox') \subseteq Contents(outbox) \cup {x}
        BY <3>4 DEF Contents
      <3>6. Named' \subseteq Named
        BY <2>1, <3>x, <3>1, <3>5 DEF Named, Held
      <3> QED BY <1>t, <1>r, <2>1, <3>6, NamesKept
    <2> QED BY <1>7, <2>2, <2>3, <2>4 DEF Flushes
  <1>8. ASSUME NEW t \in Tasks, Snapshot(t) PROVE IdInv'
    <2>1. /\ UNCHANGED <<process, disk, outbox, next, idOf, nextId>>
          /\ lock'.file.nextId = nextId
          /\ \A f \in Friends : lock'.file.outbox[f] = outbox[f] \/ lock'.file.outbox[f] = <<>>
      BY <1>8 DEF Snapshot
    <2>2. task'["bridge"].hand = task["bridge"].hand
      <3>1. task \in [Tasks -> Standing] /\ "bridge" \in Tasks /\ Goes(t, "write")
        BY <1>8, <1>t DEF Snapshot, QueueTypeOK, Standing, Tasks
      <3> QED BY ONLY <3>1, t \in Tasks, Moved
    <2>3. ToSet(<<>>) = {}
      BY EmptyPart
    <2>4. Contents(lock'.file.outbox) \subseteq Contents(outbox)
      BY <2>1, <2>3 DEF Contents
    <2>5. Named' \subseteq Named
      BY <2>1, <2>2, <2>4 DEF Named, Held
    <2> QED BY <1>t, <1>r, <2>1, <2>5, NamesKept
  <1>9. ASSUME NEW t \in Tasks, Publish(t) \/ WriteFails(t) PROVE IdInv'
    <2>1. /\ UNCHANGED <<process, outbox, next, idOf, nextId>> /\ lock' = Unlocked
          /\ task[t].at = "write" /\ (disk' = lock.file \/ disk' = disk)
      BY <1>9 DEF Publish, WriteFails
    <2>2. task'["bridge"].hand \in {task["bridge"].hand, 0}
      <3>1. CASE t = "bridge"
        BY <1>9, <2>1, <3>1, Followed DEF Publish, WriteFails
      <3>2. CASE t # "bridge"
        BY <1>9, <1>b, <2>1, <3>2, Followed DEF Publish, WriteFails
      <3> QED BY <3>1, <3>2
    <2>3. lock'.file.nextId = 1 /\ \A f \in Friends : lock'.file.outbox[f] = <<>>
      BY <2>1 DEF Unlocked, EmptyFile
    <2>4. Contents(lock'.file.outbox) = {}
      BY <2>3, EmptyPart DEF Contents
    <2>5. Named' \subseteq Named
      BY <2>1, <2>2, <2>4 DEF Named, Held
    <2> QED BY <1>t, <1>r, <2>1, <2>3, <2>5, NamesKept
  <1>10. ASSUME Gone, UNCHANGED <<disk, next, idOf, nextId>> PROVE IdInv'
    <2>1. /\ \A f \in Friends : outbox'[f] = <<>> /\ lock'.file.outbox[f] = <<>>
          /\ lock'.file.nextId = 1 /\ ~process'.up /\ task'["bridge"].hand = 0
      BY <1>10, <1>t DEF Gone, Unlocked, EmptyFile, Idle, Tasks, QueueTypeOK
    <2>2. Contents(outbox') = {} /\ Contents(lock'.file.outbox) = {}
      BY <2>1, EmptyPart DEF Contents
    <2>3. Named' \subseteq Named
      BY <1>10, <2>1, <2>2 DEF Named, Held
    <2> QED BY <1>10, <1>t, <1>r, <2>1, <2>3, NamesKept
  <1>11. CASE Restart
    <2>1. /\ UNCHANGED <<disk, lock, next, idOf>> /\ task'["bridge"].hand = 0
          /\ \A f \in Friends : outbox'[f] = Restored(f)
      BY <1>11, RestartTurns DEF Restart
    <2>2. lock = Unlocked
      BY <1>11 DEF Restart, StoreInv, DownInv
    <2>3. Contents(lock.file.outbox) = {}
      BY <2>2, EmptyPart DEF Unlocked, EmptyFile, Contents
    <2>4. Contents(outbox') \subseteq Contents(disk.outbox)
      BY <1>t, <2>1, RestoredQueues DEF Part, Contents
    <2>5. Named' \subseteq Contents(disk.outbox)
      BY <2>1, <2>3, <2>4 DEF Named, Held
    <2>6. Contents(disk.outbox) \subseteq Named
      BY DEF Named
    <2>7. nextId' <= next /\ \A b \in Contents(disk.outbox) : idOf[b] < nextId'
      BY <1>11, <1>n, NextIdRestored
    <2> QED BY <1>t, <2>1, <2>5, <2>6, <2>7 DEF IdInv
  <1>12. CASE UNCHANGED queueVars \/ Age \/ StopBridge
         \/ \E f \in Friends : ComesOnline(f) \/ GoesOffline(f) \/ Requested(f)
    <2>1. UNCHANGED <<disk, lock, idOf, nextId, next, outbox, task>>
      BY <1>12 DEF queueVars, Age, StopBridge, ComesOnline, GoesOffline, Requested
    <2>2. process'.up => process.up
      BY <1>12 DEF queueVars, Age, StopBridge, ComesOnline, GoesOffline, Requested
    <2> QED BY <1>1, <1>r, <2>1, <2>2
  <1> QED BY <1>3, <1>4, <1>5, <1>6, <1>7, <1>8, <1>9, <1>10, <1>11, <1>12, Groups
          DEF ProcessDies, Stopped

-----------------------------------------------------------------------------
(* The invariant                                                               *)

LEMMA QueueInitInv == QueueInit => StoreInv
  <1> SUFFICES ASSUME QueueInit PROVE StoreInv
    OBVIOUS
  <1> USE DEF QueueInit
  <1>1. task["actor"] = Idle /\ task["bridge"] = [Idle EXCEPT !.at = "seed", !.op = "start"]
    OBVIOUS
  <1>2. /\ task["bridge"].at = "seed" /\ task["bridge"].hand = 0 /\ task["bridge"].op = "start"
        /\ task["actor"].at = "idle" /\ task["actor"].hand = 0
    BY <1>1 DEF Idle
  <1>3. [Idle EXCEPT !.at = "seed", !.op = "start"] \in Standing
    BY IdleStands DEF Idle, Standing
  <1>4. task \in [Tasks -> Standing]
    BY <1>3, IdleStands DEF Tasks
  <1>5. /\ disk = EmptyFile /\ lock.file = EmptyFile /\ EmptyFile.nextId = 1
        /\ EmptyFile.requests = {} /\ EmptyFile.outbox = [f \in Friends |-> <<>>]
        /\ EmptyFile \in File
    BY EmptyFileTyped DEF EmptyFile
  <1>6. 1 \in 1..MaxMsg + 1 /\ 0 \in 0..MaxMsg /\ 1 \in 1..MaxStarts
    BY PayloadsAreNumbers, ToxQueueAssumption
  <1>7. QueueTypeOK
    <2>1. /\ callbacks \in Seq([kind : {"request", "online", "offline"}, friend : Friends])
          /\ Len(callbacks) <= CallbackCapacity
      <3>1. callbacks = <<>> /\ Len(<<>>) = 0
        BY EmptySeq
      <3> QED BY <3>1, EmptySeq, ToxQueueAssumption
    <2>2. outbox \in [Friends -> Seq(Payloads)] /\ sent \in [Friends -> Seq(Payloads)]
      BY EmptyQueues
    <2>3. lock \in [by : Tasks \cup {"nobody"}, file : File]
      BY EmptyFileTyped
    <2>4. process \in [count : 1..MaxStarts, up : BOOLEAN, stopping : BOOLEAN]
      BY <1>6
    <2>5. saved \subseteq Friends /\ known \subseteq Friends /\ online \subseteq known
      BY ToxQueueAssumption
    <2>6. /\ told \in [Payloads -> {"nothing", "sent", "queued", "dropped"}]
          /\ idOf \in [Payloads -> 0..MaxMsg]
      BY <1>6
    <2> QED BY <1>4, <1>5, <1>6, <2>1, <2>2, <2>3, <2>4, <2>5, <2>6 DEF QueueTypeOK, Standing
  <1>8. TasksInv
    BY <1>1, <1>2 DEF TasksInv, Tasks
  <1>9. DownInv
    BY DEF DownInv
  <1>10. ToSet(<<>>) = {} /\ Rising(<<>>)
    BY EmptyPart
  <1>11. \A f \in Friends : Offered(f) = {}
    BY <1>2 DEF Offered
  <1>12. QueueInv
    BY <1>5, <1>10, <1>11 DEF QueueInv, InLine, Written, Below
  <1>13. RequestInv
    BY <1>2, <1>5 DEF RequestInv, Tasks
  <1>14. DeliverInv
    BY <1>5, <1>10 DEF DeliverInv
  <1>15. Named = {}
    BY <1>2, <1>5, <1>10 DEF Named, Held, Contents
  <1>16. IdInv
    BY <1>5, <1>15 DEF IdInv
  <1> QED BY <1>7, <1>8, <1>9, <1>12, <1>13, <1>14, <1>16 DEF StoreInv

LEMMA StoreInvariant == QueueSpec => []StoreInv
  <1>1. StoreInv /\ [QueueNext]_queueVars => StoreInv'
    BY QueueTypeStep, TasksStep, DownStep, QueueStep, RequestsStep, DeliveryStep, IdsStep
       DEF StoreInv
  <1> QED BY <1>1, QueueInitInv, PTL DEF QueueSpec

(* Theorem: whatever is enqueued while the bridge holds a payload, refused and  *)
(* put back, pruned, or restored from the file, the payloads for a friend stay  *)
(* in the order they were queued in, each at one place.                         *)
THEOREM QueueLeavesInOrder == QueueSpec => []FlushedInOrder
  <1>1. StoreInv => FlushedInOrder
    <2> SUFFICES ASSUME StoreInv, NEW f \in Friends
                 PROVE  LET holding == IF task["bridge"].friend = f /\ task["bridge"].hand # 0
                                       THEN <<task["bridge"].hand>> ELSE <<>>
                        IN  Rising(sent[f] \o holding \o outbox[f])
      BY DEF FlushedInOrder, Rising
    <2> DEFINE holding == IF task["bridge"].friend = f /\ task["bridge"].hand # 0
                          THEN <<task["bridge"].hand>> ELSE <<>>
    <2>1. QueueTypeOK /\ InLine(sent[f], Offered(f), outbox[f], next)
      BY DEF StoreInv, QueueInv
    <2>2. sent[f] \in Seq(Payloads) /\ outbox[f] \in Seq(Payloads)
      BY <2>1, QueuesTyped
    <2>3. holding \in Seq(Payloads) /\ ToSet(holding) = Offered(f) /\ Rising(holding)
      <3>1. CASE task["bridge"].friend = f /\ task["bridge"].hand # 0
        <4>1. task["bridge"].hand \in Payloads
          BY <2>1, <3>1 DEF QueueTypeOK, Tasks
        <4>2. holding = <<task["bridge"].hand>> /\ Offered(f) = {task["bridge"].hand}
          BY <3>1 DEF Offered
        <4> QED BY <4>1, <4>2, OneOnly
      <3>2. CASE ~(task["bridge"].friend = f /\ task["bridge"].hand # 0)
        <4>1. holding = <<>> /\ Offered(f) = {}
          BY <3>2 DEF Offered
        <4> QED BY <4>1, EmptyPart
      <3> QED BY <3>1, <3>2
    <2> HIDE DEF holding
    <2>4. /\ sent[f] \o holding \in Seq(Payloads)
          /\ ToSet(sent[f] \o holding) = ToSet(sent[f]) \cup Offered(f)
          /\ Rising(sent[f] \o holding)
      BY <2>1, <2>2, <2>3, Joined DEF InLine
    <2>5. Below(ToSet(sent[f] \o holding), ToSet(outbox[f]))
      BY <2>1, <2>4 DEF InLine, Below
    <2>6. Rising((sent[f] \o holding) \o outbox[f])
      BY <2>1, <2>2, <2>4, <2>5, Joined DEF InLine
    <2> QED BY <2>6 DEF holding
  <1> QED BY <1>1, StoreInvariant, PTL

(* Theorem: the state is well-typed, and once both tasks are past their writes   *)
(* the file says what the session knows: an answered request and a delivered     *)
(* payload are not offered again after a restart, and an id names one payload in *)
(* memory and in the file, over every run.                                       *)
THEOREM FileStaysInAgreement == QueueSpec => []FileAgrees
  <1>1. StoreInv => FileAgrees
    <2> SUFFICES ASSUME StoreInv PROVE FileAgrees
      OBVIOUS
    <2>1. RequestsAgree
      BY DEF StoreInv, RequestInv, RequestsAgree, Quiet, Persists
    <2>2. DeliveredIsForgotten
      BY DEF StoreInv, DeliverInv, DeliveredIsForgotten, Quiet, Counted, Tasks
    <2>3. IdNamesOne
      BY DEF StoreInv, IdInv, IdNamesOne, Named
    <2> QED BY <2>1, <2>2, <2>3 DEF FileAgrees, StoreInv
  <1> QED BY <1>1, StoreInvariant, PTL

-----------------------------------------------------------------------------
(* What the queue promises                                                     *)

(* Both count the same. *)
LEMMA SameCount == ASSUME NEW S PROVE Mail!Cardinality(S) = Cardinality(S)
  BY DEF Mail!Cardinality, Cardinality

(* A queue in order has each payload once. *)
LEMMA RisingCounts ==
  ASSUME NEW q \in Seq(Payloads), Rising(q)
  PROVE  IsFiniteSet(ToSet(q)) /\ Cardinality(ToSet(q)) = Len(q)
  <1> DEFINE n == Len(q)
             T == ToSet(q)
  <1>1. n \in Nat /\ q \in [1..n -> Payloads]
    BY LenProperties
  <1>2. /\ \A i \in 1..n : q[i] \in T
        /\ \A x \in T : \E i \in 1..n : x = q[i]
    BY Elements
  <1>3. IsFiniteSet(1..n) /\ Cardinality(1..n) = n
    BY <1>1, FS_Interval
  <1>4. ASSUME NEW i \in 1..n, NEW j \in 1..n, q[i] = q[j] PROVE i = j
    <2>1. q[i] \in Nat /\ ~(q[i] < q[i])
      <3>1. q[i] \in Payloads
        BY <1>1
      <3> DEFINE x == q[i]
      <3>2. x \in Nat
        BY <3>1, PayloadsAreNumbers
      <3> HIDE DEF x
      <3>3. ~(x < x)
        BY <3>2
      <3> QED BY <3>2, <3>3 DEF x
    <2>2. ~(i < j) /\ ~(j < i)
      BY <1>4, <2>1 DEF Rising
    <2> QED BY <1>1, <2>2
  <1> HIDE DEF n, T
  <1>5. q \in Surjection(1..n, T) /\ q \in Injection(1..n, T)
    <2>1. q \in [1..n -> T]
      BY <1>1, <1>2
    <2>2. DOMAIN q = 1..n
      BY <2>1
    <2> QED BY <1>2, <1>4, <2>1, <2>2 DEF Surjection, Injection, IsInjective
  <1>6. IsFiniteSet(T) /\ Cardinality(T) = n
    BY <1>3, <1>5, FS_Surjection
  <1> QED BY <1>6 DEF n, T

(* A retain keeps exactly what is young. *)
LEMMA FreshIs ==
  ASSUME NEW q \in Seq(Payloads)
  PROVE  ToSet(Fresh(q)) = {b \in ToSet(q) : b > aged}
  <1> DEFINE young == {i \in 1..Len(q) : q[i] > aged}
             n == Cardinality(young)
             p == InOrder(young)
  <1>1. Len(q) \in Nat /\ young \in SUBSET (1..Len(q))
    BY LenProperties
  <1>2. n \in Nat /\ IsFiniteSet(young) /\ Increases(p, n, young)
    BY <1>1, PlacesFinite, InOrderIncreases
  <1>3. Fresh(q) = [i \in 1..n |-> q[p[i]]]
    BY DEF Fresh
  <1>4. \A i \in young : i \in 1..Len(q) /\ q[i] > aged
    OBVIOUS
  <1>5. \A i \in 1..Len(q) : q[i] > aged => i \in young
    OBVIOUS
  <1> HIDE DEF n, p, young
  <1>6. p \in Surjection(1..n, young)
    <2>1. p \in [1..n -> young] /\ DOMAIN p = 1..n
      BY <1>2 DEF Increases
    <2>2. ASSUME NEW i \in 1..n, NEW j \in 1..n, p[i] = p[j] PROVE i = j
      <3>1. p[i] \in 1..Len(q)
        BY <1>1, <2>1
      <3> DEFINE x == p[i]
      <3>2. x \in Nat
        BY <3>1
      <3> HIDE DEF x
      <3>3. ~(x < x)
        BY <3>2
      <3>4. ~(i < j) /\ ~(j < i)
        BY <1>2, <2>2, <3>3 DEF Increases, x
      <3> QED BY <1>2, <3>4
    <2>3. p \in Injection(1..n, young)
      BY <2>1, <2>2 DEF Injection, IsInjective
    <2>4. Cardinality(1..n) = n
      BY <1>2, FS_Interval
    <2>5. n = Cardinality(young)
      BY DEF n
    <2> QED BY <1>2, <2>3, <2>4, <2>5, FS_Injection
  <1>7. /\ \A i \in 1..n : p[i] \in young
        /\ \A k \in young : \E i \in 1..n : p[i] = k
    BY <1>6 DEF Surjection
  <1>8. /\ \A i \in 1..Len(q) : q[i] \in ToSet(q)
        /\ \A x \in ToSet(q) : \E i \in 1..Len(q) : x = q[i]
    BY Elements
  <1>9. DOMAIN Fresh(q) = 1..n /\ \A i \in 1..n : Fresh(q)[i] = q[p[i]]
    BY <1>3
  <1>10. ToSet(Fresh(q)) = {q[p[i]] : i \in 1..n}
    BY <1>9 DEF ToSet
  <1>11. \A i \in 1..n : q[p[i]] \in {b \in ToSet(q) : b > aged}
    BY <1>4, <1>7, <1>8
  <1>12. \A b \in ToSet(q) : b > aged => \E i \in 1..n : b = q[p[i]]
    BY <1>5, <1>7, <1>8
  <1> QED BY <1>10, <1>11, <1>12

(* What is restored is the start of what is young in the file. *)
LEMMA RestoredStarts ==
  ASSUME QueueTypeOK, QueueInv, NEW f \in saved
  PROVE  Mail!IsStart(ToSet(Restored(f)), Mail!Young(ToSet(disk.outbox[f])))
  <1> DEFINE q == disk.outbox[f]
             s == Fresh(q)
             n == Min({OutboxCapacity, Len(s)})
             r == Restored(f)
  <1>1. q \in Seq(Payloads) /\ Rising(q)
    BY QueuesTyped DEF QueueInv, Written, QueueTypeOK
  <1>2. s \in Seq(Payloads) /\ Rising(s) /\ ToSet(s) = Mail!Young(ToSet(q))
    BY <1>1, FreshPart, FreshIs DEF Part, Mail!Young
  <1>3. Len(s) \in Nat /\ OutboxCapacity \in Nat
    BY <1>2, LenProperties, ToxQueueAssumption
  <1>4. r = SubSeq(s, 1, n)
    BY DEF Restored
  <1> HIDE DEF s, r
  <1>5. n \in Nat /\ n <= Len(s) /\ (n = Len(s) \/ n = OutboxCapacity)
    <2>1. n \in {OutboxCapacity, Len(s)} /\ \A y \in {OutboxCapacity, Len(s)} : n <= y
      <3>1. \E x \in {OutboxCapacity, Len(s)} : \A y \in {OutboxCapacity, Len(s)} : x <= y
        BY <1>3
      <3> QED BY <3>1 DEF Min
    <2> QED BY <1>3, <2>1
  <1> HIDE DEF n, q
  <1>6. \A i \in 1..Len(s) : s[i] \in Payloads
    BY <1>2, Elements
  <1>7. \A i \in 1..n : i \in 1..Len(s) /\ s[i] \in Payloads
    BY <1>3, <1>5, <1>6
  <1>8. r \in Seq(Payloads) /\ Len(r) = n /\ \A i \in 1..n : r[i] = s[i]
    BY <1>3, <1>4, <1>5, <1>7, SubSeqProperties
  <1>9. /\ \A i \in 1..Len(s) : s[i] \in ToSet(s)
        /\ \A x \in ToSet(s) : \E i \in 1..Len(s) : x = s[i]
        /\ \A i \in 1..n : s[i] \in ToSet(r)
        /\ \A x \in ToSet(r) : \E i \in 1..n : x = s[i]
    BY <1>2, <1>8, Elements
  <1>10. ToSet(r) \subseteq ToSet(s)
    BY <1>7, <1>9
  <1>11. ASSUME NEW b \in ToSet(r), NEW d \in ToSet(s), d < b PROVE d \in ToSet(r)
    <2>1. PICK i \in 1..n : b = s[i]
      BY <1>9
    <2>2. PICK j \in 1..Len(s) : d = s[j]
      BY <1>9
    <2>3. s[i] \in Nat /\ s[j] \in Nat /\ s[j] < s[i]
      BY <1>6, <1>7, <1>11, <2>1, <2>2, PayloadsAreNumbers
    <2>4. ~(i < j)
      <3> SUFFICES ASSUME i < j PROVE FALSE
        OBVIOUS
      <3>1. s[i] < s[j]
        BY <1>2, <1>7 DEF Rising
      <3> QED BY <2>3, <3>1
    <2>5. j \in 1..n
      BY <1>3, <1>5, <2>4
    <2> QED BY <1>9, <2>2, <2>5
  <1>12. ToSet(r) = ToSet(s) \/ Cardinality(ToSet(r)) = OutboxCapacity
    <2>1. CASE n = Len(s)
      BY <1>9, <1>10, <2>1
    <2>2. CASE n = OutboxCapacity
      <3>1. Rising(r)
        BY <1>2, <1>7, <1>8 DEF Rising
      <3> QED BY <1>8, <2>2, <3>1, RisingCounts
    <2> QED BY <1>5, <2>1, <2>2
  <1>13. Mail!IsStart(ToSet(r), ToSet(s))
    BY <1>10, <1>11, <1>12, SameCount DEF Mail!IsStart
  <1> QED BY <1>2, <1>13 DEF r, q

(* The payload the bridge holds is the first in its friend's line. *)
Line(f) == Offered(f) \cup ToSet(outbox[f])

LEMMA OfferedFirst ==
  ASSUME QueueTypeOK, QueueInv, NEW f \in Friends
  PROVE  /\ Line(f) \subseteq Payloads
         /\ Offered(f) # {} => Mail!Foremost(Line(f)) = Offered(f)
         /\ ToSet(outbox[f]) \cap Offered(f) = {}
         /\ Offered(f) = {} \/ Offered(f) = {task["bridge"].hand}
  <1>1. /\ Offered(f) \subseteq Payloads /\ outbox[f] \in Seq(Payloads)
        /\ Below(Offered(f), ToSet(outbox[f]))
    BY QueuesTyped DEF QueueInv, InLine
  <1>2. Line(f) \subseteq Nat /\ Line(f) \subseteq Payloads
    BY <1>1, Elements, PayloadsAreNumbers DEF Line
  <1>3. Offered(f) = {} \/ Offered(f) = {task["bridge"].hand}
    BY DEF Offered
  <1>4. ASSUME NEW h, Offered(f) = {h}
        PROVE  Mail!Foremost(Line(f)) = {h} /\ h \notin ToSet(outbox[f])
    <2>1. h \in Line(f) /\ h \in Nat /\ \A d \in ToSet(outbox[f]) : h < d /\ d \in Line(f) /\ d \in Nat
      BY <1>1, <1>2, <1>4 DEF Below, Line
    <2>2. \A d \in Line(f) : h <= d
      BY <1>4, <2>1 DEF Line
    <2>3. \A b \in Line(f) : b <= h => b = h
      BY <1>4, <2>1 DEF Line
    <2>4. h \notin ToSet(outbox[f])
      BY <2>1
    <2> QED BY <2>1, <2>2, <2>3, <2>4 DEF Mail!Foremost
  <1> QED BY <1>2, <1>3, <1>4

-----------------------------------------------------------------------------
(* The invariant, with what was told and how a run ends                        *)

(* No id is given before its payload is sent, and who reports that one was     *)
(* queued has queued it.                                                        *)
ToldInv ==
  /\ \A b \in Payloads : b >= next => idOf[b] = 0
  /\ task["bridge"].op # "send"
  /\ task["actor"].op = "send" /\ task["actor"].at \in {"spend", "persist", "write"} =>
       next - 1 \in Payloads /\ idOf[next - 1] # 0

(* A run forgets no friend, and what stops it interrupts neither the actor nor  *)
(* a write.                                                                     *)
EndInv ==
  /\ saved \subseteq known
  /\ process.stopping => task["actor"].at = "idle"
  /\ lock.by # "nobody" => task[lock.by].at = "write"

MailInv == StoreInv /\ ToldInv /\ EndInv

(* What an operation of the actor says it is doing. *)
Says == task'["actor"].op = "send" => task'["actor"].at \notin {"spend", "persist", "write"}

LEMMA ActorSays ==
  ASSUME MailInv, ActorActs, ~Push
  PROVE  Says \/ (Spend /\ task'["actor"].op = task["actor"].op)
  <1>t. task \in [Tasks -> Standing] /\ "actor" \in Tasks
    BY DEF MailInv, StoreInv, QueueTypeOK, Standing, Tasks
  <1>i. task["actor"].at = "idle" => task["actor"] = Idle
    BY <1>t DEF MailInv, StoreInv, TasksInv
  <1> DEFINE was == task["actor"]
  <1>w. was \in Standing
    BY <1>t
  <1>1. ASSUME NEW stage, NEW operation, operation # "send",
               task' = [task EXCEPT !["actor"].at = stage, !["actor"].op = operation]
        PROVE  Says
    BY <1>1, <1>t DEF Says, Standing
  <1>2. ASSUME NEW f \in Friends, SendPayload(f) PROVE Says
    <2>1. CASE task' = task
      BY <1>2, <1>i, <2>1 DEF SendPayload, At, Says, Idle
    <2>2. CASE task' = [task EXCEPT !["actor"].at = "refused", !["actor"].friend = f,
                                    !["actor"].op = "send"]
      BY <1>t, <2>2 DEF Says, Standing
    <2> QED BY <1>2, <2>1, <2>2 DEF SendPayload
  <1>3. ASSUME NEW f \in Friends, RequestPeer(f) \/ Reject(f) PROVE Says
    BY <1>1, <1>3 DEF RequestPeer, Reject
  <1>4. ASSUME NEW f \in Friends, Accept(f) PROVE Says
    <2>1. task' = [task EXCEPT !["actor"].at = "spend", !["actor"].friend = f,
                               !["actor"].op = "accept"]
      BY <1>4 DEF Accept
    <2> QED BY <1>t, <2>1 DEF Says, Standing
  <1>5. ASSUME PruneFirst PROVE Says
    <2>1. Goes("actor", "push")
      BY <1>5 DEF PruneFirst
    <2> QED BY <1>t, <2>1, Moved DEF Says
  <1>6. ASSUME Tick PROVE Says
    BY <1>1, <1>6 DEF Tick
  <1>7. ASSUME Spend PROVE task'["actor"].op = task["actor"].op
    <2>1. Goes("actor", "persist")
      BY <1>7 DEF Spend
    <2> QED BY <1>t, <2>1, Moved
  <1> QED BY <1>2, <1>3, <1>4, <1>5, <1>6, <1>7 DEF ActorActs, Chosen

LEMMA ToldStep ==
  ASSUME MailInv, [QueueNext]_queueVars
  PROVE  ToldInv'
  <1> USE DEF At
  <1>t. task \in [Tasks -> Standing] /\ idOf \in [Payloads -> 0..MaxMsg] /\ next \in Nat
        /\ nextId \in Nat \ {0} /\ StoreInv /\ ToldInv /\ Payloads \subseteq Nat
    BY PayloadsAreNumbers DEF MailInv, StoreInv, QueueTypeOK, Standing
  <1>b. "actor" \in Tasks /\ "bridge" \in Tasks /\ \A t \in Tasks : t = "actor" \/ t = "bridge"
    BY DEF Tasks
  <1>c. Idle.at = "idle" /\ Idle.op = "none"
    BY DEF Idle
  <1>1. ASSUME UNCHANGED <<next, idOf>>, task'["bridge"].op # "send",
               task'["actor"] = task["actor"] \/ Says
        PROVE  ToldInv'
    BY <1>t, <1>1 DEF ToldInv, Says
  <1>2. CASE ActorActs /\ ~Push
    <2>1. idOf' = idOf /\ next \in Nat /\ next <= next' /\ task'["bridge"] = task["bridge"]
      BY <1>2, <1>t, ActorLeaves, ActorTurns DEF ActorLeft, ActorTurned
    <2>2. CASE Says
      <3>1. next' \in Nat
        <4>1. next' = next \/ next' = next + 1
          BY <1>2 DEF ActorActs, Chosen, SendPayload, RequestPeer, Reject, Accept, PruneFirst,
                      Spend, Tick, history
        <4> QED BY <1>t, <4>1
      <3>2. \A b \in Payloads : b >= next' => b >= next
        BY <1>t, <2>1, <3>1
      <3> QED BY <1>t, <2>1, <2>2, <3>2 DEF ToldInv, Says
    <2>3. CASE Spend /\ task'["actor"].op = task["actor"].op
      <3>1. next' = next /\ task["actor"].at = "spend"
        BY <2>3 DEF Spend, history
      <3> QED BY <1>t, <2>1, <2>3, <3>1 DEF ToldInv
    <2> QED BY <1>2, <2>2, <2>3, ActorSays
  <1>3. CASE Push
    <2>1. task'["bridge"] = task["bridge"] /\ next <= MaxMsg /\ task["actor"].friend \in Friends
      BY <1>3, <1>t, <1>b, ActorTurns DEF ActorActs, ActorTurned, Push, StoreInv, TasksInv
    <2>2. next' = next + 1 /\ next \in Payloads
      BY <1>3, <1>t, <2>1, PayloadsAreNumbers DEF Push, Payloads, StoreInv, QueueTypeOK
    <2>3. \A b \in Payloads : b >= next' => b >= next /\ b # next
      BY <1>t, <2>2
    <2>4. CASE idOf' = idOf /\ Ends("actor")
      <3>1. task'["actor"].op = "none"
        BY <1>t, <1>b, <1>c, <2>4, Rested
      <3> QED BY <1>t, <2>1, <2>3, <2>4, <3>1 DEF ToldInv
    <2>5. CASE idOf' = [idOf EXCEPT ![next] = nextId]
      <3>1. idOf'[next] # 0 /\ \A b \in Payloads : b # next => idOf'[b] = idOf[b]
        BY <1>t, <2>2, <2>5
      <3>2. next' - 1 = next
        BY <1>t, <2>2
      <3> QED BY <1>t, <2>1, <2>2, <2>3, <3>1, <3>2 DEF ToldInv
    <2> QED BY <1>3, <2>4, <2>5 DEF Push
  <1>4. CASE Hears
    <2>1. UNCHANGED <<next, idOf>> /\ task'["actor"] = task["actor"]
      BY <1>4, <1>t, HearLeaves, HearTurns DEF HearLeft, HearTurned
    <2>2. task'["bridge"].op # "send"
      <3>1. CASE HearRequest
        <4>1. task["bridge"].op # "send"
          BY <1>t DEF ToldInv
        <4>2. PICK stage : task' = [task EXCEPT !["bridge"].at = stage]
          BY <3>1 DEF HearRequest
        <4> QED BY <1>t, <1>b, <4>1, <4>2 DEF Standing
      <3>2. CASE HearConnection
        <4>1. callbacks # <<>> /\ callbacks \in Seq([kind : {"request", "online", "offline"}, friend : Friends])
          BY <1>t, <3>2 DEF HearConnection, StoreInv, QueueTypeOK
        <4>2. Head(callbacks) \in [kind : {"request", "online", "offline"}, friend : Friends]
          BY ONLY <4>1, HeadTailProperties
        <4>3. Head(callbacks).kind # "send"
          BY <4>2
        <4> DEFINE kind == Head(callbacks).kind
                   friend == Head(callbacks).friend
        <4>4. task' = [task EXCEPT !["bridge"].at = "seed", !["bridge"].op = kind,
                                   !["bridge"].friend = friend]
          BY <3>2 DEF HearConnection
        <4>5. kind # "send"
          BY <4>3
        <4> HIDE DEF kind, friend
        <4> QED BY <1>t, <1>b, <4>4, <4>5 DEF Standing
      <3> QED BY <1>4, <3>1, <3>2 DEF Hears
    <2> QED BY <1>1, <2>1, <2>2
  <1>5. CASE Flushes
    <2>1. UNCHANGED <<next, idOf>> /\ task'["actor"] = task["actor"]
      BY <1>5, <1>t, FlushLeavesRest, FlushTurns DEF FlushLeft, FlushTurned
    <2>2. task["bridge"].op # "send"
      BY <1>t DEF ToldInv
    <2>3. CASE PutBack \/ FlushEnds
      <3>1. FlushOver
        BY <2>3 DEF PutBack, FlushEnds, FlushOver
      <3>2. task'["bridge"].op = "none"
        BY <1>t, <3>1, FlushLeaves
      <3> QED BY <1>1, <2>1, <3>2
    <2>4. CASE PruneOnline \/ Pop \/ HandOver
      <3>1. task'["bridge"].op = task["bridge"].op
        <4>1. CASE PruneOnline
          BY <1>t, <1>b, <4>1 DEF PruneOnline, Standing
        <4>2. CASE Pop
          BY <1>t, <1>b, <4>2 DEF Pop, Standing
        <4>3. CASE HandOver
          BY <1>t, <1>b, <4>3 DEF HandOver, Standing
        <4> QED BY <2>4, <4>1, <4>2, <4>3
      <3> QED BY <1>1, <2>1, <2>2, <3>1
    <2> QED BY <1>5, <2>3, <2>4 DEF Flushes
  <1>6. ASSUME NEW t \in Tasks, Refreshes(t) PROVE ToldInv'
    <2>1. UNCHANGED <<next, idOf>>
      BY <1>6, RefreshLeaves DEF RefreshLeft, HearLeft
    <2>2. /\ \A o \in Tasks \ {t} : task'[o] = task[o]
          /\ task'[t].at \in {"store", "prune", "idle"}
          /\ task'[t].op = task[t].op \/ task'[t].op = "none"
      BY <1>6, <1>t, <1>c, RefreshTurns DEF RefreshTurned
    <2>3. task["bridge"].op # "send"
      BY <1>t DEF ToldInv
    <2> QED BY <1>1, <1>b, <2>1, <2>2, <2>3 DEF Says
  <1>7. ASSUME NEW t \in Tasks, Snapshot(t) PROVE ToldInv'
    <2>1. UNCHANGED <<next, idOf>> /\ Goes(t, "write") /\ task[t].at = "persist"
      BY <1>7 DEF Snapshot, history, memory
    <2>2. /\ task'[t].op = task[t].op
          /\ \A o \in Tasks \ {t} : task'[o] = task[o]
      BY <1>t, <2>1, Moved
    <2> QED BY <1>t, <1>b, <2>1, <2>2 DEF ToldInv
  <1>8. ASSUME NEW t \in Tasks, Publish(t) \/ WriteFails(t) PROVE ToldInv'
    <2>1. UNCHANGED <<next, idOf>> /\ AfterPersist(t) /\ task[t].at = "write"
      BY <1>8 DEF Publish, WriteFails
    <2>2. /\ task'[t].op \in {"accept", "none"}
          /\ \A o \in Tasks \ {t} : task'[o] = task[o]
      BY <1>t, <2>1, Followed
    <2>3. task["bridge"].op # "send"
      BY <1>t DEF ToldInv
    <2> QED BY <1>1, <1>b, <2>1, <2>2, <2>3 DEF Says
  <1>9. ASSUME Gone, UNCHANGED <<next, idOf>> PROVE ToldInv'
    <2>1. task'["actor"].op = "none" /\ task'["bridge"].op = "none"
      BY <1>9, <1>b, <1>c DEF Gone
    <2> QED BY <1>1, <1>9, <2>1 DEF Says
  <1>10. CASE Restart
    <2>1. task'["actor"] = Idle /\ task'["bridge"].op = "start" /\ UNCHANGED <<next, idOf>>
      BY <1>10, <1>t, RestartTurns DEF Restart
    <2> QED BY <1>1, <1>c, <2>1 DEF Says
  <1>11. CASE UNCHANGED queueVars \/ Age \/ StopBridge
         \/ \E f \in Friends : ComesOnline(f) \/ GoesOffline(f) \/ Requested(f)
    <2>1. UNCHANGED <<idOf, next, task>>
      BY <1>11 DEF queueVars, Age, StopBridge, ComesOnline, GoesOffline, Requested, history
    <2> QED BY <1>1, <1>t, <2>1 DEF ToldInv
  <1> QED BY <1>2, <1>3, <1>4, <1>5, <1>6, <1>7, <1>8, <1>9, <1>10, <1>11, Groups
          DEF ProcessDies, Stopped

LEMMA EndStep ==
  ASSUME MailInv, [QueueNext]_queueVars
  PROVE  EndInv'
  <1> USE DEF At
  <1>t. task \in [Tasks -> Standing] /\ StoreInv /\ EndInv
    BY DEF MailInv, StoreInv, QueueTypeOK, Standing
  <1>p. /\ lock \in [by : Tasks \cup {"nobody"}, file : File]
        /\ process \in [count : 1..MaxStarts, up : BOOLEAN, stopping : BOOLEAN]
    BY <1>t DEF StoreInv, QueueTypeOK
  <1>b. "actor" \in Tasks /\ "bridge" \in Tasks /\ \A t \in Tasks : t = "actor" \/ t = "bridge"
    BY DEF Tasks
  <1>c. Idle.at = "idle"
    BY DEF Idle
  <1>1. ASSUME UNCHANGED <<process, lock, saved>>, known \subseteq known',
               process.stopping => task'["actor"].at = "idle",
               \A t \in Tasks : task[t].at = "write" => task'[t].at = "write"
        PROVE  EndInv'
    BY <1>t, <1>p, <1>1 DEF EndInv
  <1>2. CASE ActorActs
    <2>1. /\ UNCHANGED <<process, lock>> /\ task'["bridge"] = task["bridge"]
          /\ task["actor"].at # "write"
      BY <1>2, <1>t, ActorLeaves, ActorTurns DEF ActorLeft, ActorTurned
    <2>2. UNCHANGED saved /\ known \subseteq known'
      BY <1>2 DEF ActorActs, Chosen, SendPayload, RequestPeer, Reject, Accept, PruneFirst,
                  Push, Spend, Tick, tox
    <2>3. ~process.stopping
      <3>1. task["actor"].at = "idle" => ~process.stopping
        BY <1>2 DEF ActorActs, Chosen, SendPayload, RequestPeer, Reject, Accept, PruneFirst,
                    Push, Spend, Tick
      <3> QED BY <1>t, <3>1 DEF EndInv
    <2> QED BY <1>1, <1>b, <2>1, <2>2, <2>3
  <1>3. CASE Hears
    <2>1. UNCHANGED <<process, lock, saved, known>>
      BY <1>3, HearLeaves DEF HearLeft, Hears, HearRequest, HearConnection
    <2>2. task'["actor"] = task["actor"] /\ task["bridge"].at = "idle"
      BY <1>3, <1>t, HearTurns DEF HearTurned
    <2> QED BY <1>1, <1>b, <1>t, <2>1, <2>2 DEF EndInv
  <1>4. CASE Flushes
    <2>1. UNCHANGED <<process, lock, saved, known>>
      BY <1>4, FlushLeavesRest DEF FlushLeft, Flushes, PruneOnline, Pop, HandOver, PutBack,
                                   FlushEnds, tox
    <2>2. task'["actor"] = task["actor"] /\ task["bridge"].at \in {"prune", "flush", "send"}
      BY <1>4, <1>t, FlushTurns DEF FlushTurned
    <2> QED BY <1>1, <1>b, <1>t, <2>1, <2>2 DEF EndInv
  <1>5. ASSUME NEW t \in Tasks, Refreshes(t) PROVE EndInv'
    <2>1. UNCHANGED <<process, lock, saved, known>>
      BY <1>5, RefreshLeaves DEF RefreshLeft, HearLeft, Refreshes, Seed, Store, tox
    <2>2. /\ \A o \in Tasks \ {t} : task'[o] = task[o]
          /\ task[t].at \in {"seed", "store"}
      BY <1>5, <1>t, RefreshTurns DEF RefreshTurned
    <2> QED BY <1>1, <1>b, <1>t, <2>1, <2>2 DEF EndInv
  <1>6. ASSUME NEW t \in Tasks, Snapshot(t) PROVE EndInv'
    <2>1. /\ UNCHANGED <<process, saved, known>> /\ lock'.by = t /\ Goes(t, "write")
          /\ task[t].at = "persist"
      BY <1>6 DEF Snapshot, tox
    <2>2. task'[t].at = "write" /\ \A o \in Tasks \ {t} : task'[o] = task[o]
      BY <1>t, <2>1, Moved
    <2>3. process.stopping => t # "actor" /\ task["actor"].at = "idle"
      BY <1>t, <2>1 DEF EndInv
    <2>4. process'.stopping => task'["actor"].at = "idle"
      BY <1>b, <2>1, <2>2, <2>3
    <2>5. saved' \subseteq known'
      BY <1>t, <2>1 DEF EndInv
    <2>6. task'[lock'.by].at = "write"
      BY <2>1, <2>2
    <2> QED BY <2>4, <2>5, <2>6 DEF EndInv
  <1>7. ASSUME NEW t \in Tasks, Publish(t) \/ WriteFails(t) PROVE EndInv'
    <2>1. /\ UNCHANGED <<process, saved, known>> /\ lock'.by = "nobody" /\ AfterPersist(t)
          /\ task[t].at = "write"
      BY <1>7 DEF Publish, WriteFails, Unlocked, tox
    <2>2. \A o \in Tasks \ {t} : task'[o] = task[o]
      BY <1>t, <2>1, Followed
    <2>3. process.stopping => t # "actor" /\ task["actor"].at = "idle"
      BY <1>t, <2>1 DEF EndInv
    <2>4. process'.stopping => task'["actor"].at = "idle"
      BY <1>b, <2>1, <2>2, <2>3
    <2>5. saved' \subseteq known'
      BY <1>t, <2>1 DEF EndInv
    <2> QED BY <2>1, <2>4, <2>5 DEF EndInv
  <1>8. CASE ProcessDies \/ Stopped
    <2>1. /\ lock'.by = "nobody" /\ ~process'.stopping
          /\ known' = known /\ (saved' = saved \/ saved' = known)
      <3>1. Gone /\ known' = known /\ (saved' = saved \/ saved' = known)
        BY <1>8 DEF ProcessDies, Stopped
      <3>2. process' = [process EXCEPT !.up = FALSE, !.stopping = FALSE] /\ lock' = Unlocked
        BY <3>1 DEF Gone
      <3>3. process'.stopping = FALSE
        BY <1>p, <3>2
      <3> QED BY <3>1, <3>2, <3>3 DEF Unlocked
    <2> QED BY <1>t, <2>1 DEF EndInv
  <1>9. CASE Restart
    <2>1. known' = saved /\ saved' = saved /\ lock' = lock /\ ~process'.stopping /\ ~process.up
      BY <1>9 DEF Restart
    <2>2. lock.by = "nobody"
      BY <1>t, <2>1 DEF StoreInv, DownInv, Unlocked
    <2> QED BY <2>1, <2>2 DEF EndInv
  <1>10. CASE StopBridge
    <2>1. UNCHANGED <<saved, known, lock, task>> /\ task["actor"].at = "idle"
      BY <1>10 DEF StopBridge, tox
    <2> QED BY <1>t, <2>1 DEF EndInv
  <1>11. CASE UNCHANGED queueVars \/ Age
         \/ \E f \in Friends : ComesOnline(f) \/ GoesOffline(f) \/ Requested(f)
    <2>1. UNCHANGED <<process, saved, known, lock, task>>
      BY <1>11 DEF queueVars, Age, ComesOnline, GoesOffline, Requested, tox
    <2> QED BY <1>1, <1>t, <2>1 DEF EndInv
  <1> QED BY <1>2, <1>3, <1>4, <1>5, <1>6, <1>7, <1>8, <1>9, <1>10, <1>11, Groups

LEMMA MailInitInv == QueueInit => MailInv
  <1> SUFFICES ASSUME QueueInit PROVE MailInv
    OBVIOUS
  <1>1. task["actor"] = Idle /\ task["bridge"] = [Idle EXCEPT !.at = "seed", !.op = "start"]
    BY DEF QueueInit
  <1>2. /\ task["bridge"].op = "start" /\ task["actor"].op = "none" /\ task["actor"].at = "idle"
        /\ lock.by = "nobody"
    BY <1>1 DEF Idle, QueueInit, Unlocked
  <1>3. ToldInv
    BY <1>2 DEF QueueInit, ToldInv
  <1>4. EndInv
    BY <1>2 DEF QueueInit, EndInv
  <1> QED BY <1>3, <1>4, QueueInitInv DEF MailInv

LEMMA MailStep ==
  ASSUME MailInv, [QueueNext]_queueVars
  PROVE  MailInv'
  BY QueueTypeStep, TasksStep, DownStep, QueueStep, RequestsStep, DeliveryStep, IdsStep,
     ToldStep, EndStep DEF MailInv, StoreInv

-----------------------------------------------------------------------------
(* Each step is one of FriendMail's, or none                                   *)

(* FriendMail's view of the state: what became of each payload, and the lines. *)
StatusNow == [b \in Payloads |-> IF idOf[b] # 0 THEN "kept" ELSE told[b]]
Lines == [f \in Friends |-> Line(f)]

LEMMA MailStays ==
  ASSUME process'.up = process.up, UNCHANGED <<saved, next, aged, sent, disk, lock>>,
         StatusNow' = StatusNow, Lines' = Lines
  PROVE  UNCHANGED Mail!mail
  BY DEF Mail!mail, StatusNow, Lines, Line

(* A line is what it was when the bridge holds the same and the queue is the same. *)
LEMMA LinesStay ==
  ASSUME UNCHANGED outbox, \A f \in Friends : Offered(f)' = Offered(f)
  PROVE  Lines' = Lines
  BY DEF Lines, Line

LEMMA OfferedStays ==
  ASSUME \/ task'["bridge"] = task["bridge"]
         \/ task["bridge"].hand = 0 /\ task'["bridge"].hand = 0
  PROVE  \A f \in Friends : Offered(f)' = Offered(f)
  BY DEF Offered

LEMMA StatusStays ==
  ASSUME UNCHANGED <<told, idOf>>
  PROVE  StatusNow' = StatusNow
  BY DEF StatusNow

(* A prune takes what is too old, but not what is offered. *)
LEMMA ExpireMail ==
  ASSUME MailInv, PruneAll, process.up, \A f \in Friends : Offered(f)' = Offered(f),
         UNCHANGED <<process, saved, next, aged, told, idOf, sent, lock, disk>>
  PROVE  Mail!Expire
  <1> DEFINE some == {f \in Friends : Offered(f) # {}}
  <1>1. some \in SUBSET Friends /\ \A f, g \in some : f = g
    BY DEF Offered
  <1>2. ASSUME NEW f \in Friends
        PROVE  Line(f)' = IF f \in some THEN Mail!Young(Line(f)) \cup Mail!Foremost(Line(f))
                                        ELSE Mail!Young(Line(f))
    <2>1. outbox'[f] = Fresh(outbox[f])
      BY DEF PruneAll
    <2>2. outbox[f] \in Seq(Payloads)
      BY QueuesTyped DEF MailInv, StoreInv
    <2>3. Line(f)' = Offered(f) \cup {b \in ToSet(outbox[f]) : b > aged}
      BY <2>1, <2>2, FreshIs DEF Line
    <2>4. CASE Offered(f) = {}
      BY <2>3, <2>4 DEF Line, Mail!Young
    <2>5. CASE Offered(f) # {}
      <3>1. Mail!Foremost(Line(f)) = Offered(f)
        BY <2>5, OfferedFirst DEF MailInv, StoreInv
      <3> QED BY <2>3, <2>5, <3>1 DEF Line, Mail!Young
    <2> QED BY <2>4, <2>5
  <1> HIDE DEF some
  <1>3. [f \in Friends |-> Line(f)'] =
          [f \in Friends |-> IF f \in some THEN Mail!Young(Line(f)) \cup Mail!Foremost(Line(f))
                                           ELSE Mail!Young(Line(f))]
    BY <1>2
  <1> QED BY <1>1, <1>3 DEF Mail!Expire, Line

(* A payload is sent at once, and never waits. *)
LEMMA SendMail ==
  ASSUME MailInv, process.up, next <= MaxMsg,
         next' = next + 1, told' = [told EXCEPT ![next] = "sent"],
         UNCHANGED <<process, saved, aged, idOf, sent, lock, disk>>, Lines' = Lines
  PROVE  Mail!SendAtOnce
  <1>1. next \in Payloads /\ told \in [Payloads -> {"nothing", "sent", "queued", "dropped"}]
    BY PayloadsAreNumbers DEF MailInv, StoreInv, QueueTypeOK, Payloads
  <1>2. idOf[next] = 0
    BY <1>1, PayloadsAreNumbers DEF MailInv, ToldInv
  <1>3. StatusNow' = [StatusNow EXCEPT ![next] = "sent"]
    BY <1>1, <1>2 DEF StatusNow
  <1> QED BY <1>1, <1>3 DEF Mail!SendAtOnce, Mail!Sent, StatusNow, Lines, Line

(* One that toxcore refused takes its place, or there is none left. *)
LEMMA PushMail ==
  ASSUME MailInv, Push
  PROVE  \E f \in Friends : Mail!Keep(f) \/ Mail!Drop(f)
  <1> DEFINE f == task["actor"].friend
  <1>1. /\ f \in Friends /\ next <= MaxMsg /\ process.up
        /\ UNCHANGED <<process, saved, disk, lock, aged, sent>> /\ next' = next + 1
    BY DEF MailInv, StoreInv, TasksInv, Push, At
  <1>2. /\ next \in Payloads /\ idOf[next] = 0 /\ idOf \in [Payloads -> 0..MaxMsg]
        /\ nextId # 0 /\ told \in [Payloads -> {"nothing", "sent", "queued", "dropped"}]
        /\ outbox \in [Friends -> Seq(Payloads)] /\ QueueTypeOK /\ QueueInv
    <2>1. QueueTypeOK /\ QueueInv /\ ToldInv
      BY DEF MailInv, StoreInv
    <2>2. next \in Payloads
      BY <1>1, <2>1, PayloadsAreNumbers DEF QueueTypeOK, Payloads
    <2>3. idOf[next] = 0
      BY <2>1, <2>2, PayloadsAreNumbers DEF ToldInv
    <2> QED BY <2>1, <2>2, <2>3 DEF QueueTypeOK
  <1>3. \A g \in Friends : Offered(g)' = Offered(g)
    <2>1. task'["bridge"] = task["bridge"]
      BY ActorTurns DEF ActorActs, ActorTurned, MailInv
    <2> QED BY <2>1, OfferedStays
  <1> DEFINE q == outbox[f]
  <1>4. /\ q \in Seq(Payloads) /\ IsFiniteSet(ToSet(q)) /\ Cardinality(ToSet(q)) = Len(q)
        /\ Len(q) \in Nat /\ OutboxCapacity \in Nat
    <2>1. q \in Seq(Payloads) /\ Rising(q)
      BY <1>1, <1>2 DEF QueueInv, InLine
    <2> HIDE DEF q
    <2> QED BY <2>1, RisingCounts, LenProperties, ToxQueueAssumption
  <1>5. IsFiniteSet(Line(f)) /\ Cardinality(Line(f)) \in {Len(q), Len(q) + 1}
    <2>1. Offered(f) = {} \/ Offered(f) = {task["bridge"].hand}
      BY <1>1, <1>2, OfferedFirst
    <2>2. CASE Offered(f) = {}
      <3>1. Line(f) = ToSet(q)
        BY <2>2 DEF Line
      <3> QED BY <1>4, <3>1
    <2>3. CASE Offered(f) = {task["bridge"].hand}
      <3> DEFINE h == task["bridge"].hand
                 T == ToSet(q)
      <3>1. Line(f) = T \cup {h}
        BY <2>3 DEF Line
      <3>2. IsFiniteSet(T) /\ Cardinality(T) = Len(q) /\ Len(q) \in Nat
        BY <1>4
      <3> HIDE DEF q, h, T
      <3>3. /\ IsFiniteSet(T \cup {h})
            /\ Cardinality(T \cup {h}) = IF h \in T THEN Cardinality(T) ELSE Cardinality(T) + 1
        BY <3>2, FS_AddElement
      <3> QED BY <3>1, <3>2, <3>3
    <2> QED BY <2>1, <2>2, <2>3
  <1> HIDE DEF f, q
  <1>6. CASE Len(q) >= OutboxCapacity
    <2>1. told' = [told EXCEPT ![next] = "dropped"] /\ UNCHANGED <<outbox, idOf>>
      BY <1>6 DEF Push, f, q
    <2>2. StatusNow' = [StatusNow EXCEPT ![next] = "dropped"] /\ Lines' = Lines
      BY <1>2, <1>3, <2>1, LinesStay DEF StatusNow
    <2>3. Cardinality(Line(f)) >= OutboxCapacity
      BY <1>4, <1>5, <1>6
    <2>4. Mail!Drop(f)
      BY <1>1, <1>2, <2>2, <2>3, SameCount DEF Mail!Drop, Mail!Sent, StatusNow, Lines, Line
    <2> QED BY <1>1, <2>4
  <1>7. CASE ~(Len(q) >= OutboxCapacity)
    <2>1. /\ told' = told /\ outbox' = [outbox EXCEPT ![f] = Append(@, next)]
          /\ idOf' = [idOf EXCEPT ![next] = nextId]
      BY <1>7 DEF Push, f, q
    <2>2. StatusNow' = [StatusNow EXCEPT ![next] = "kept"]
      BY <1>2, <2>1 DEF StatusNow
    <2>3. ToSet(Append(q, next)) = ToSet(q) \cup {next}
      BY <1>2, <1>4, LastAdded
    <2>4. Lines' = [Lines EXCEPT ![f] = @ \cup {next}]
      <3>1. \A g \in Friends : Line(g)' = IF g = f THEN Line(g) \cup {next} ELSE Line(g)
        <4> SUFFICES ASSUME NEW g \in Friends
                     PROVE  Line(g)' = IF g = f THEN Line(g) \cup {next} ELSE Line(g)
          OBVIOUS
        <4>1. outbox'[g] = IF g = f THEN Append(q, next) ELSE outbox[g]
          BY <1>1, <1>2, <2>1 DEF q
        <4>2. ToSet(outbox'[g]) = IF g = f THEN ToSet(outbox[g]) \cup {next} ELSE ToSet(outbox[g])
          BY <2>3, <4>1 DEF q
        <4> QED BY <1>3, <4>2 DEF Line
      <3> QED BY <1>1, <3>1 DEF Lines
    <2>5. Cardinality(Line(f)) <= OutboxCapacity
      BY <1>4, <1>5, <1>7
    <2>6. Mail!Keep(f)
      BY <1>1, <1>2, <2>2, <2>4, <2>5, SameCount DEF Mail!Keep, Mail!Sent, StatusNow, Lines, Line
    <2> QED BY <1>1, <2>6
  <1> QED BY <1>6, <1>7

(* What the flush takes, offers, and has taken or puts back. *)
LEMMA PopMail ==
  ASSUME MailInv, Pop
  PROVE  Lines' = Lines
  <1> DEFINE f == task["bridge"].friend
             h == Head(outbox[f])
  <1>1. /\ f \in Friends /\ outbox[f] # <<>> /\ outbox' = [outbox EXCEPT ![f] = Tail(@)]
        /\ task["bridge"].hand = 0 /\ task'["bridge"].hand = h /\ task'["bridge"].friend = f
    BY FlushTurns DEF MailInv, StoreInv, TasksInv, Pop, At, Flushes, FlushTurned
  <1>2. outbox \in [Friends -> Seq(Payloads)]
    BY DEF MailInv, StoreInv, QueueTypeOK
  <1>3. ToSet(outbox[f]) = {h} \cup ToSet(Tail(outbox[f])) /\ h \in Payloads
    BY <1>1, <1>2, FirstTaken
  <1>4. h # 0
    BY <1>3, PayloadsAreNumbers
  <1> HIDE DEF f, h
  <1>5. ASSUME NEW g \in Friends PROVE Line(g)' = Line(g)
    <2>1. CASE g = f
      <3>1. Offered(g) = {} /\ Offered(g)' = {h} /\ outbox'[g] = Tail(outbox[f])
        BY <1>1, <1>2, <1>4, <2>1 DEF Offered, f
      <3> QED BY <1>3, <2>1, <3>1 DEF Line
    <2>2. CASE g # f
      <3>1. Offered(g) = {} /\ Offered(g)' = {} /\ outbox'[g] = outbox[g]
        BY <1>1, <1>2, <2>2 DEF Offered, f
      <3> QED BY <3>1 DEF Line
    <2> QED BY <2>1, <2>2
  <1> QED BY <1>5 DEF Lines

LEMMA PutBackMail ==
  ASSUME MailInv, PutBack
  PROVE  Lines' = Lines
  <1> DEFINE f == task["bridge"].friend
             h == task["bridge"].hand
  <1>1. /\ f \in Friends /\ h # 0 /\ outbox' = [outbox EXCEPT ![f] = <<h>> \o @]
        /\ task'["bridge"].hand = 0
    BY FlushTurns DEF MailInv, StoreInv, TasksInv, PutBack, At, Flushes, FlushTurned
  <1>2. outbox \in [Friends -> Seq(Payloads)] /\ h \in Payloads
    BY <1>1 DEF MailInv, StoreInv, QueueTypeOK, Tasks
  <1>3. ToSet(<<h>> \o outbox[f]) = {h} \cup ToSet(outbox[f])
    BY <1>1, <1>2, OneOnly, Joined
  <1> HIDE DEF f, h
  <1>4. ASSUME NEW g \in Friends PROVE Line(g)' = Line(g)
    <2>1. CASE g = f
      <3>1. Offered(g) = {h} /\ Offered(g)' = {} /\ outbox'[g] = <<h>> \o outbox[f]
        BY <1>1, <1>2, <2>1 DEF Offered, f, h
      <3> QED BY <1>3, <2>1, <3>1 DEF Line
    <2>2. CASE g # f
      <3>1. Offered(g) = {} /\ Offered(g)' = {} /\ outbox'[g] = outbox[g]
        BY <1>1, <1>2, <2>2 DEF Offered, f
      <3> QED BY <3>1 DEF Line
    <2> QED BY <2>1, <2>2
  <1> QED BY <1>4 DEF Lines

LEMMA HandOverMail ==
  ASSUME MailInv, HandOver
  PROVE  \E f \in Friends : Mail!Take(f)
  <1> DEFINE f == task["bridge"].friend
             h == task["bridge"].hand
  <1>1. /\ f \in Friends /\ h # 0 /\ process.up /\ sent' = [sent EXCEPT ![f] = Append(@, h)]
        /\ task'["bridge"].hand = 0
        /\ UNCHANGED <<process, saved, next, aged, told, idOf, lock, disk, outbox>>
    <2>1. f \in Friends /\ task["bridge"].at = "send" /\ task'["bridge"].at = "flush"
          /\ (task'["bridge"].hand # 0 <=> task'["bridge"].at = "send")
      BY FlushTurns DEF MailInv, Flushes, FlushTurned
    <2> QED BY <2>1 DEF MailInv, StoreInv, TasksInv, HandOver, At, memory
  <1>2. /\ outbox \in [Friends -> Seq(Payloads)] /\ h \in Payloads
        /\ sent \in [Friends -> Seq(Payloads)] /\ QueueTypeOK /\ QueueInv
    BY <1>1 DEF MailInv, StoreInv, QueueTypeOK, Tasks
  <1>3. ToSet(Append(sent[f], h)) = ToSet(sent[f]) \cup {h}
    BY <1>1, <1>2, LastAdded
  <1>4. Offered(f) = {h}
    BY <1>1 DEF Offered
  <1>5. Mail!Foremost(Line(f)) = {h} /\ ToSet(outbox[f]) = Line(f) \ {h}
    BY <1>1, <1>2, <1>4, OfferedFirst DEF Line
  <1>6. \A g \in Friends \ {f} : Offered(g) = {}
    BY DEF Offered
  <1>7. \A g \in Friends : Offered(g)' = {}
    BY <1>1 DEF Offered
  <1> HIDE DEF f, h
  <1>8. Lines' = [Lines EXCEPT ![f] = @ \ {h}]
    <2>1. \A g \in Friends : Line(g)' = IF g = f THEN Line(g) \ {h} ELSE Line(g)
      BY <1>1, <1>5, <1>6, <1>7 DEF Line
    <2> QED BY <1>1, <2>1 DEF Lines
  <1>9. [g \in Friends |-> ToSet(sent'[g])] =
          [[g \in Friends |-> ToSet(sent[g])] EXCEPT ![f] = @ \cup {h}]
    <2>1. \A g \in Friends : ToSet(sent'[g]) = IF g = f THEN ToSet(sent[g]) \cup {h}
                                                        ELSE ToSet(sent[g])
      BY <1>1, <1>2, <1>3
    <2> QED BY <1>1, <2>1
  <1>10. h \in Mail!Foremost(Lines[f])
    BY <1>1, <1>5 DEF Lines
  <1>11. StatusNow' = StatusNow
    BY <1>1, StatusStays
  <1>12. Mail!Take(f)
    BY <1>1, <1>8, <1>9, <1>10, <1>11 DEF Mail!Take, Lines, Line, StatusNow
  <1> QED BY <1>1, <1>12

(* The file gets a copy of the lines, but for what is offered and for strangers. *)
LEMMA SnapshotMail ==
  ASSUME MailInv, NEW t \in Tasks, Snapshot(t)
  PROVE  Mail!Copy
  <1> DEFINE offered == {f \in Friends : Offered(f) # {}}
             strangers == Friends \ table
             kept(f) == ToSet(IF f \in table THEN outbox[f] ELSE <<>>)
  <1>1. /\ process.up /\ lock.by = "nobody" /\ Goes(t, "write")
        /\ UNCHANGED <<process, saved, next, aged, told, idOf, sent, disk, outbox>>
    BY DEF Snapshot, At, memory, history
  <1>2. lock'.by = t /\ t # "nobody"
    BY DEF Snapshot, Tasks
  <1>3. \A f \in Friends : ToSet(lock'.file.outbox[f]) = kept(f)
    BY DEF Snapshot
  <1>4. \A f \in Friends : Offered(f)' = Offered(f)
    <2>1. task \in [Tasks -> Standing]
      BY DEF MailInv, StoreInv, QueueTypeOK, Standing
    <2>2. /\ task'[t].friend = task[t].friend /\ task'[t].hand = task[t].hand
          /\ \A o \in Tasks \ {t} : task'[o] = task[o]
      BY <1>1, <2>1, Moved
    <2>3. task'["bridge"].friend = task["bridge"].friend /\ task'["bridge"].hand = task["bridge"].hand
      BY <2>2 DEF Tasks
    <2> QED BY <2>3 DEF Offered
  <1>5. offered \in SUBSET Friends /\ strangers \in SUBSET Friends /\ \A f, g \in offered : f = g
    BY DEF Offered
  <1>6. ASSUME NEW f \in Friends
        PROVE  kept(f) = CASE f \in strangers -> {}
                           [] f \in offered \ strangers -> Line(f) \ Mail!Foremost(Line(f))
                           [] OTHER -> Line(f)
    <2>1. CASE f \in strangers
      BY <2>1, EmptyPart
    <2>2. CASE f \in offered \ strangers
      <3>1. Mail!Foremost(Line(f)) = Offered(f) /\ ToSet(outbox[f]) \cap Offered(f) = {}
        BY <2>2, OfferedFirst DEF MailInv, StoreInv
      <3> QED BY <2>2, <3>1 DEF Line
    <2>3. CASE f \notin strangers /\ f \notin offered
      BY <2>3 DEF Line
    <2> QED BY <2>1, <2>2, <2>3
  <1> HIDE DEF offered, strangers, kept
  <1>7. [f \in Friends |-> ToSet(lock'.file.outbox[f])] =
          [f \in Friends |-> CASE f \in strangers -> {}
                               [] f \in offered \ strangers -> Lines[f] \ Mail!Foremost(Lines[f])
                               [] OTHER -> Lines[f]]
    <2>1. \A f \in Friends : Lines[f] = Line(f)
      BY DEF Lines
    <2> QED BY <1>3, <1>6, <2>1
  <1>8. Lines' = Lines /\ StatusNow' = StatusNow
    BY <1>1, <1>4, LinesStay, StatusStays
  <1>9. \E some, others \in SUBSET Friends :
          /\ \A f, g \in some : f = g
          /\ [f \in Friends |-> ToSet(lock'.file.outbox[f])] =
               [f \in Friends |-> CASE f \in others -> {}
                                    [] f \in some \ others -> Lines[f] \ Mail!Foremost(Lines[f])
                                    [] OTHER -> Lines[f]]
    BY <1>5, <1>7
  <1> QED BY <1>1, <1>2, <1>8, <1>9 DEF Mail!Copy, Lines, Line, StatusNow

LEMMA WriteMail ==
  ASSUME MailInv, NEW t \in Tasks, Publish(t) \/ WriteFails(t)
  PROVE  Mail!Copied
  <1>1. /\ process.up /\ task[t].at = "write" /\ lock' = Unlocked /\ AfterPersist(t)
        /\ UNCHANGED <<process, saved, next, aged, idOf, sent, outbox>>
        /\ disk' = disk \/ disk' = lock.file
    BY DEF Publish, WriteFails, At, memory, history
  <1>2. lock.by = t /\ t # "nobody" /\ lock'.by = "nobody"
    BY <1>1 DEF MailInv, StoreInv, TasksInv, Unlocked, Tasks
  <1>3. \A f \in Friends : lock'.file.outbox[f] = <<>>
    BY <1>1 DEF Unlocked, EmptyFile
  <1>4. [f \in Friends |-> ToSet(lock'.file.outbox[f])] = Mail!Nothing
    BY <1>3, EmptyPart DEF Mail!Nothing
  <1>5. \A f \in Friends : Offered(f)' = Offered(f)
    <2>1. /\ task'[t].hand = task[t].hand \/ task'[t].hand = 0
          /\ \A o \in Tasks \ {t} : task'[o] = task[o]
      BY <1>1, Followed DEF MailInv
    <2>2. CASE t = "bridge"
      <3>1. task["bridge"].hand = 0
        BY <1>1, <2>2 DEF MailInv, StoreInv, TasksInv
      <3> QED BY <2>1, <2>2, <3>1, OfferedStays
    <2>3. CASE t # "bridge"
      <3>1. task'["bridge"] = task["bridge"]
        BY <2>1, <2>3 DEF Tasks
      <3> QED BY <3>1, OfferedStays
    <2> QED BY <2>2, <2>3
  <1>6. StatusNow' = StatusNow
    <2>1. CASE told' = told
      BY <1>1, <2>1, StatusStays
    <2>2. CASE task[t].op = "send" /\ told' = [told EXCEPT ![next - 1] = "queued"]
      <3>1. t = "actor"
        BY <2>2 DEF MailInv, ToldInv, Tasks
      <3>2. next - 1 \in Payloads /\ idOf[next - 1] # 0
        BY <1>1, <2>2, <3>1 DEF MailInv, ToldInv
      <3>3. told \in [Payloads -> {"nothing", "sent", "queued", "dropped"}]
        BY DEF MailInv, StoreInv, QueueTypeOK
      <3>4. ASSUME NEW b \in Payloads
            PROVE  (IF idOf[b] # 0 THEN "kept" ELSE told[b]) =
                   (IF idOf[b] # 0 THEN "kept" ELSE told'[b])
        <4>1. b # next - 1 => told'[b] = told[b]
          BY <2>2, <3>3
        <4> QED BY <3>2, <4>1
      <3> QED BY <1>1, <3>4 DEF StatusNow
    <2> QED BY <1>1, <2>1, <2>2 DEF AfterPersist
  <1>7. Lines' = Lines
    BY <1>1, <1>5, LinesStay
  <1>8. \/ [f \in Friends |-> ToSet(disk'.outbox[f])] = [f \in Friends |-> ToSet(disk.outbox[f])]
        \/ [f \in Friends |-> ToSet(disk'.outbox[f])] = [f \in Friends |-> ToSet(lock.file.outbox[f])]
    BY <1>1
  <1> QED BY <1>1, <1>2, <1>4, <1>6, <1>7, <1>8 DEF Mail!Copied, Lines, Line, StatusNow

(* The end of a run. *)
LEMMA GoneMail ==
  ASSUME MailInv, process.up, Gone, UNCHANGED <<disk, aged, next, told, idOf>>
  PROVE  Mail!End
  <1>1. process \in [count : 1..MaxStarts, up : BOOLEAN, stopping : BOOLEAN]
    BY DEF MailInv, StoreInv, QueueTypeOK
  <1>2. process'.up = FALSE /\ lock'.by = "nobody"
    BY <1>1 DEF Gone, Unlocked
  <1>3. task'["bridge"].hand = 0
    BY DEF Gone, Tasks, Idle
  <1>4. \A f \in Friends : /\ outbox'[f] = <<>> /\ sent'[f] = <<>>
                           /\ lock'.file.outbox[f] = <<>> /\ Offered(f)' = {}
    BY <1>3 DEF Gone, Unlocked, EmptyFile, Offered
  <1>5. /\ [f \in Friends |-> ToSet(sent'[f])] = Mail!Nothing
        /\ [f \in Friends |-> ToSet(lock'.file.outbox[f])] = Mail!Nothing
        /\ Lines' = Mail!Nothing
    BY <1>4, EmptyPart DEF Mail!Nothing, Lines, Line
  <1>6. StatusNow' = StatusNow
    BY StatusStays
  <1> QED BY <1>2, <1>5, <1>6 DEF Mail!End, Lines, Line, StatusNow

LEMMA DiesMail == ASSUME MailInv, ProcessDies PROVE Mail!Crash
  <1>1. Mail!End
    BY GoneMail DEF ProcessDies
  <1> QED BY <1>1 DEF ProcessDies, Mail!Crash

LEMMA StoppedMail == ASSUME MailInv, Stopped PROVE Mail!Stop
  <1>1. process.up /\ process.stopping /\ task["bridge"].at = "idle" /\ saved' = known
    BY DEF Stopped, At
  <1>2. Mail!End
    BY <1>1, GoneMail DEF Stopped
  <1>3. saved \subseteq known /\ known \subseteq Friends
    BY DEF MailInv, EndInv, StoreInv, QueueTypeOK
  <1>4. lock.by = "nobody"
    <2>1. task["actor"].at = "idle"
      BY <1>1 DEF MailInv, EndInv
    <2>2. lock.by \in Tasks \cup {"nobody"}
      BY DEF MailInv, StoreInv, QueueTypeOK
    <2>3. lock.by \notin Tasks
      <3>1. lock.by # "actor" /\ lock.by # "bridge"
        BY <1>1, <2>1 DEF MailInv, EndInv
      <3> QED BY <3>1 DEF Tasks
    <2> QED BY <2>2, <2>3
  <1> QED BY <1>1, <1>2, <1>3, <1>4 DEF Mail!Stop

(* A run begins with what the file had. *)
LEMMA RestartMail ==
  ASSUME MailInv, Restart
  PROVE  Mail!Restart
  <1> DEFINE start == [f \in Friends |-> ToSet(Restored(f))]
  <1>1. /\ process.up = FALSE /\ process'.up = TRUE
        /\ UNCHANGED <<saved, next, aged, told, idOf, sent, lock, disk>>
        /\ outbox' = [f \in Friends |-> Restored(f)]
    <2>1. process \in [count : 1..MaxStarts, up : BOOLEAN, stopping : BOOLEAN]
      BY DEF MailInv, StoreInv, QueueTypeOK
    <2> QED BY <2>1 DEF Restart
  <1>2. QueueTypeOK /\ QueueInv
    BY DEF MailInv, StoreInv
  <1>3. \A f \in Friends : Offered(f)' = {}
    <2>1. task'["bridge"].hand = 0
      BY RestartTurns DEF MailInv
    <2> QED BY <2>1 DEF Offered
  <1>4. start \in [Friends -> SUBSET Payloads]
    <2>1. \A f \in Friends : Restored(f) \in Seq(Payloads)
      BY <1>2, RestoredQueues DEF Part
    <2> QED BY <2>1, Elements
  <1>5. ASSUME NEW f \in Friends
        PROVE  IF f \in saved THEN Mail!IsStart(start[f], Mail!Young(ToSet(disk.outbox[f])))
                              ELSE start[f] = {}
    <2>1. CASE f \in saved
      BY <1>2, <2>1, RestoredStarts
    <2>2. CASE f \notin saved
      BY <2>2, EmptyPart DEF Restored
    <2> QED BY <2>1, <2>2
  <1>6. Lines' = start
    BY <1>1, <1>3 DEF Lines, Line
  <1> HIDE DEF start
  <1>7. StatusNow' = StatusNow
    BY <1>1, StatusStays
  <1>8. \A f \in Friends : [g \in Friends |-> ToSet(disk.outbox[g])][f] = ToSet(disk.outbox[f])
    OBVIOUS
  <1> QED BY <1>1, <1>4, <1>5, <1>6, <1>7 DEF Mail!Restart, Lines, Line, StatusNow

LEMMA AgeMail == ASSUME MailInv, Age PROVE Mail!Age
  <1>1. \A f \in Friends : Offered(f)' = Offered(f)
    BY OfferedStays DEF Age
  <1>2. Lines' = Lines /\ StatusNow' = StatusNow
    BY <1>1, LinesStay, StatusStays DEF Age, memory
  <1> QED BY <1>2 DEF Age, Mail!Age, Lines, Line, StatusNow, memory, tox

(* What is neither sent, taken, expired nor written is not seen by FriendMail. *)
LEMMA QuietMail ==
  ASSUME MailInv, process' = process \/ StopBridge,
         UNCHANGED <<saved, next, aged, told, idOf, sent, lock, disk>>, Lines' = Lines
  PROVE  UNCHANGED Mail!mail
  <1>1. process'.up = process.up
    <2>1. process \in [count : 1..MaxStarts, up : BOOLEAN, stopping : BOOLEAN]
      BY DEF MailInv, StoreInv, QueueTypeOK
    <2> QED BY <2>1 DEF StopBridge
  <1> QED BY <1>1, StatusStays, MailStays

LEMMA ActorMail ==
  ASSUME MailInv, ActorActs
  PROVE  [Mail!Next]_(Mail!mail)
  <1> USE DEF tox, memory, history, At
  <1>b. \A f \in Friends : Offered(f)' = Offered(f)
    BY ActorTurns, OfferedStays DEF ActorTurned, MailInv
  <1>1. ASSUME NEW f \in Friends, SendPayload(f) PROVE [Mail!Next]_(Mail!mail)
    <2>1. /\ UNCHANGED <<process, saved, aged, idOf, sent, lock, disk, outbox>>
          /\ process.up /\ next <= MaxMsg
      BY <1>1 DEF SendPayload
    <2>2. Lines' = Lines
      BY <1>b, <2>1, LinesStay
    <2>3. CASE next' = next + 1 /\ told' = [told EXCEPT ![next] = "sent"]
      <3>1. Mail!SendAtOnce
        BY <2>1, <2>2, <2>3, SendMail
      <3> QED BY <3>1 DEF Mail!Next
    <2>4. CASE UNCHANGED <<next, told>>
      BY <2>1, <2>2, <2>4, QuietMail
    <2> QED BY <1>1, <2>3, <2>4 DEF SendPayload
  <1>2. ASSUME NEW f \in Friends, RequestPeer(f) \/ Reject(f) \/ Accept(f)
        PROVE  [Mail!Next]_(Mail!mail)
    <2>1. UNCHANGED <<process, saved, next, aged, told, idOf, sent, lock, disk, outbox>>
      BY <1>2 DEF RequestPeer, Reject, Accept
    <2> QED BY <1>b, <2>1, LinesStay, QuietMail
  <1>3. CASE Spend
    <2>1. UNCHANGED <<process, saved, next, aged, told, idOf, sent, lock, disk, outbox>>
      BY <1>3 DEF Spend
    <2> QED BY <1>b, <2>1, LinesStay, QuietMail
  <1>4. CASE PruneFirst \/ Tick
    <2>1. /\ UNCHANGED <<process, saved, next, aged, told, idOf, sent, lock, disk>>
          /\ process.up /\ PruneAll
      BY <1>4 DEF PruneFirst, Tick
    <2>2. Mail!Expire
      BY <1>b, <2>1, ExpireMail
    <2> QED BY <2>2 DEF Mail!Next
  <1>5. CASE Push
    BY <1>5, PushMail DEF Mail!Next
  <1> QED BY <1>1, <1>2, <1>3, <1>4, <1>5 DEF ActorActs, Chosen

LEMMA BridgeMail ==
  ASSUME MailInv, Hears \/ Flushes \/ \E t \in Tasks : Refreshes(t)
  PROVE  [Mail!Next]_(Mail!mail)
  <1> USE DEF tox, memory, history, At
  <1>i. StoreInv /\ TasksInv
    BY DEF MailInv, StoreInv
  <1>1. CASE Hears
    <2>1. UNCHANGED <<process, saved, next, aged, told, idOf, sent, lock, disk, outbox>>
      BY <1>1 DEF Hears, HearRequest, HearConnection
    <2>2. task["bridge"].hand = 0 /\ task'["bridge"].hand = 0
      BY <1>1, <1>i, HearTurns DEF HearTurned, TasksInv
    <2> QED BY <2>1, <2>2, OfferedStays, LinesStay, QuietMail
  <1>2. ASSUME NEW t \in Tasks, Refreshes(t) PROVE [Mail!Next]_(Mail!mail)
    <2>1. UNCHANGED <<process, saved, next, aged, told, idOf, sent, lock, disk, outbox>>
      BY <1>2 DEF Refreshes, Seed, Store
    <2>2. \A f \in Friends : Offered(f)' = Offered(f)
      <3>t. RefreshTurned(t)
        BY <1>2, <1>i, RefreshTurns
      <3>1. CASE t = "bridge"
        <4>1. task["bridge"].hand = 0
          BY <1>i, <3>1, <3>t DEF RefreshTurned, TasksInv
        <4>2. task'["bridge"].hand = 0
          BY <3>1, <3>t, <4>1 DEF RefreshTurned, Idle
        <4> QED BY <4>1, <4>2, OfferedStays
      <3>2. CASE t # "bridge"
        <4>1. task'["bridge"] = task["bridge"]
          BY <3>2, <3>t DEF RefreshTurned, Tasks
        <4> QED BY <4>1, OfferedStays
      <3> QED BY <3>1, <3>2
    <2> QED BY <2>1, <2>2, LinesStay, QuietMail
  <1>3. CASE PruneOnline
    <2>1. /\ UNCHANGED <<process, saved, next, aged, told, idOf, sent, lock, disk>>
          /\ process.up /\ PruneAll
      BY <1>3 DEF PruneOnline
    <2>2. task["bridge"].hand = 0 /\ task'["bridge"].hand = 0
      BY <1>3, <1>i, FlushTurns DEF Flushes, FlushTurned, TasksInv
    <2>3. Mail!Expire
      BY <2>1, <2>2, OfferedStays, ExpireMail
    <2> QED BY <2>3 DEF Mail!Next
  <1>4. CASE Pop \/ PutBack
    <2>1. UNCHANGED <<process, saved, next, aged, told, idOf, sent, lock, disk>>
      BY <1>4 DEF Pop, PutBack
    <2>2. Lines' = Lines
      BY <1>4, PopMail, PutBackMail
    <2> QED BY <2>1, <2>2, QuietMail
  <1>5. CASE HandOver
    BY <1>5, HandOverMail DEF Mail!Next
  <1>6. CASE FlushEnds
    <2>1. UNCHANGED <<process, saved, next, aged, told, idOf, sent, lock, disk, outbox>>
      BY <1>6 DEF FlushEnds
    <2>2. task["bridge"].hand = 0 /\ task'["bridge"].hand = 0
      BY <1>6, <1>i, FlushTurns DEF Flushes, TasksInv, FlushEnds
    <2> QED BY <2>1, <2>2, OfferedStays, LinesStay, QuietMail
  <1> QED BY <1>1, <1>2, <1>3, <1>4, <1>5, <1>6 DEF Flushes

LEMMA NextMail ==
  ASSUME MailInv, [QueueNext]_queueVars
  PROVE  [Mail!Next]_(Mail!mail)
  <1> USE DEF tox, memory, history
  <1>1. CASE ActorActs
    BY <1>1, ActorMail
  <1>2. CASE Hears \/ Flushes \/ \E t \in Tasks : Refreshes(t)
    BY <1>2, BridgeMail
  <1>3. CASE \E t \in Tasks : Snapshot(t) \/ Publish(t) \/ WriteFails(t)
    <2>1. Mail!Copy \/ Mail!Copied
      BY <1>3, SnapshotMail, WriteMail
    <2> QED BY <2>1 DEF Mail!Next
  <1>4. CASE ProcessDies \/ Stopped \/ Restart \/ Age
    <2>1. Mail!Crash \/ Mail!Stop \/ Mail!Restart \/ Mail!Age
      BY <1>4, DiesMail, StoppedMail, RestartMail, AgeMail
    <2> QED BY <2>1 DEF Mail!Next
  <1>5. CASE UNCHANGED queueVars \/ StopBridge
             \/ \E f \in Friends : ComesOnline(f) \/ GoesOffline(f) \/ Requested(f)
    <2>1. /\ UNCHANGED <<saved, next, aged, told, idOf, sent, lock, disk, outbox, task>>
          /\ process' = process \/ StopBridge
      BY <1>5 DEF queueVars, StopBridge, ComesOnline, GoesOffline, Requested
    <2> QED BY <2>1, OfferedStays, LinesStay, QuietMail
  <1> QED BY <1>1, <1>2, <1>3, <1>4, <1>5, Groups

LEMMA InitMail == QueueInit => Mail!Init
  <1> SUFFICES ASSUME QueueInit PROVE Mail!Init
    OBVIOUS
  <1>1. task["bridge"].hand = 0
    BY DEF QueueInit, Idle
  <1>2. \A f \in Friends : /\ outbox[f] = <<>> /\ sent[f] = <<>> /\ disk.outbox[f] = <<>>
                           /\ lock.file.outbox[f] = <<>> /\ Offered(f) = {}
    BY <1>1 DEF QueueInit, Unlocked, EmptyFile, Offered
  <1>3. /\ [f \in Friends |-> ToSet(sent[f])] = Mail!Nothing
        /\ [f \in Friends |-> ToSet(disk.outbox[f])] = Mail!Nothing
        /\ [f \in Friends |-> ToSet(lock.file.outbox[f])] = Mail!Nothing
        /\ Lines = Mail!Nothing
    BY <1>2, EmptyPart DEF Mail!Nothing, Lines, Line
  <1>4. StatusNow = [b \in Payloads |-> "nothing"]
    BY DEF StatusNow, QueueInit
  <1>5. process.up = TRUE /\ lock.by = "nobody" /\ saved \subseteq Friends /\ next = 1 /\ aged = 0
    BY ToxQueueAssumption DEF QueueInit, Unlocked
  <1> QED BY <1>3, <1>4, <1>5 DEF Mail!Init, Lines, Line, StatusNow

(* Theorem: for every set of friends, capacity and number of runs, every step    *)
(* of the outbox, of its flush and of the file is one that FriendMail allows.    *)
THEOREM QueueKeepsMail == QueueSpec => KeepsMail
  <1>1. QueueSpec => []MailInv
    BY MailInitInv, MailStep, PTL DEF QueueSpec
  <1>2. MailInv /\ [QueueNext]_queueVars => [Mail!Next]_(Mail!mail)
    BY NextMail
  <1> QED BY <1>1, <1>2, InitMail, PTL DEF QueueSpec, KeepsMail, Mail!Spec
=============================================================================

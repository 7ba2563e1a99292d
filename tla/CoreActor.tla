----------------------------- MODULE CoreActor -----------------------------
(***************************************************************************)
(* The core actor (core.rs) over the Tox transport: one task that serves   *)
(* the requests of several front-ends in turn, owns the friend list and    *)
(* the active conversation, saves the session file, and closes everything  *)
(* when it is told to, over several runs of the process.                   *)
(*                                                                         *)
(*   client  a front-end task that awaits CoreHandle::request              *)
(*   actor   takes a request, a transport event or a tick                  *)
(*   bridge  the transport's thread: keeps friend requests, hands events   *)
(*           to the actor's bounded inbox and blocks when that is full     *)
(*                                                                         *)
(* The friend list is in the session file, the unanswered requests in the  *)
(* transport's own file, which is written with each change (ToxQueue), and *)
(* toxcore's friends in its savedata, written by a clean shutdown only.    *)
(* Requests that change none of this are left out.                         *)
(***************************************************************************)
EXTENDS Naturals, FiniteSets, Sequences, SequencesExt

CONSTANTS
  Clients,       \* the front-ends
  Friends,       \* the other Tox users
  MaxFriends,    \* app.max_friends
  QueueCapacity, \* CoreServiceOptions::command_capacity
  InboxCapacity, \* EVENT_INBOX_CAPACITY
  MaxCalls,      \* bound: requests made
  MaxRuns,       \* bound: runs of the process
  DiskMayFail,   \* may a write of the session fail
  Nobody         \* the author of what no client asked, and no contact

ASSUME CoreActorAssumption ==
  /\ Nobody \notin Clients \cup Friends
  /\ MaxFriends \in Nat /\ QueueCapacity \in Nat \ {0} /\ InboxCapacity \in Nat \ {0}
  /\ MaxCalls \in Nat /\ MaxRuns \in Nat \ {0} /\ DiskMayFail \in BOOLEAN

VARIABLES
  run,      \* the runs so far, is one in progress, did the last end with an answer
  client,   \* what each front-end awaits
  calls,    \* the requests made
  queue,    \* the command queue
  inbox,    \* the number of events that wait for the actor, and is there a receiver
  bridge,   \* is the bridge free, blocked on the inbox, or ended
  actor,    \* what the actor is doing, and the request it does it for
  contacts, \* the friend list
  active,   \* the active conversation
  requests, \* friend requests that wait for an answer, on disk with each change
  known,    \* toxcore's friend list
  session,  \* the friend list in the session file
  saved,    \* the friend list in the savedata
  word,     \* history: what was last answered about a contact
  failed    \* history: did the last write of the session fail

tasks == <<client, calls, queue>>
events == <<inbox, bridge>>
roster == <<contacts, active, requests, known>>
disk == <<session, saved>>
vars == <<run, tasks, events, actor, roster, disk, word, failed>>

(* A contact is named by the address it was added with, or by the public   *)
(* key of the request it was accepted from.                                *)
Contacts == [of : Friends, by : {"address", "key"}]
NoContact == [of |-> Nobody, by |-> "none"]
AboutOne == {"add", "remove", "accept", "reject", "select", "connect"}
Asks == (AboutOne \X Friends) \cup ({"save", "shutdown"} \X {Nobody})
Commands == [from : Clients \cup {Nobody}, ask : AboutOne, friend : Friends]
              \cup [from : Clients \cup {Nobody}, ask : {"save", "shutdown", "tick", "gone"},
                    friend : {Nobody}]
Own(ask) == [from |-> Nobody, ask |-> ask, friend |-> Nobody]

NewInbox == [held |-> 0, open |-> TRUE]
Waiting == [at |-> "select", for |-> Own("tick"), contact |-> NoContact]

Runs == [count : 1..MaxRuns, up : BOOLEAN, clean : BOOLEAN]
Awaits == [Clients -> {"idle", "sending", "waiting", "dropped"}]
Inboxes == [held : 0..InboxCapacity, open : BOOLEAN]
Steps == [at : {"select", "save", "stop", "stopped"}, for : Commands,
          contact : Contacts \cup {NoContact}]
Words == [Contacts -> {"nothing", "kept", "removed"}]

TypeOK ==
  /\ run \in Runs /\ client \in Awaits
  /\ calls \in 0..MaxCalls
  /\ queue \in Seq(Commands) /\ Len(queue) <= QueueCapacity
  /\ inbox \in Inboxes
  /\ bridge \in {"free", "blocked", "ended"}
  /\ actor \in Steps
  /\ contacts \in Seq(Contacts) /\ session \in Seq(Contacts)
  /\ active \in Contacts \cup {NoContact}
  /\ requests \subseteq Friends /\ known \subseteq Friends /\ saved \subseteq Friends
  /\ word \in Words
  /\ failed \in BOOLEAN

Init ==
  /\ run = [count |-> 1, up |-> TRUE, clean |-> FALSE]
  /\ client = [c \in Clients |-> "idle"] /\ calls = 0 /\ queue = <<>>
  /\ inbox = NewInbox /\ bridge = "free" /\ actor = Waiting
  /\ contacts = <<>> /\ active = NoContact /\ requests = {} /\ known = {}
  /\ session = <<>> /\ saved = {}
  /\ word = [k \in Contacts |-> "nothing"] /\ failed = FALSE

-----------------------------------------------------------------------------
(* The front-ends: CoreHandle::request                                     *)

(* A front-end asks, and waits for room in the command queue. What it asks *)
(* is fixed when the request is queued.                                    *)
Call(c) ==
  /\ run.up /\ client[c] = "idle" /\ calls < MaxCalls
  /\ calls' = calls + 1
  /\ client' = [client EXCEPT ![c] = "sending"]
  /\ UNCHANGED <<run, queue, events, actor, roster, disk, word, failed>>

Asked(c, q) == [from |-> c, ask |-> q[1], friend |-> q[2]]

Enqueue(c, q) ==
  /\ run.up /\ client[c] = "sending" /\ actor.at # "stopped"
  /\ Len(queue) < QueueCapacity
  /\ queue' = Append(queue, Asked(c, q))
  /\ client' = [client EXCEPT ![c] = "waiting"]
  /\ UNCHANGED <<run, calls, events, actor, roster, disk, word, failed>>

(* The caller gives up; what it queued is still served, and answered to    *)
(* nobody.                                                                 *)
Unheard(cmd, c) == IF cmd.from = c THEN [cmd EXCEPT !.from = Nobody] ELSE cmd
GiveUp(c) ==
  /\ run.up /\ client[c] = "waiting"
  /\ client' = [client EXCEPT ![c] = "idle"]
  /\ queue' = [i \in DOMAIN queue |-> Unheard(queue[i], c)]
  /\ actor' = [actor EXCEPT !.for = Unheard(@, c)]
  /\ UNCHANGED <<run, calls, events, roster, disk, word, failed>>

(* The queue or the reply channel is closed: the core is not running.      *)
Refused(c) ==
  /\ run.up /\ actor.at = "stopped" /\ client[c] \in {"sending", "waiting"}
  /\ client' = [client EXCEPT ![c] = "idle"]
  /\ UNCHANGED <<run, calls, queue, events, actor, roster, disk, word, failed>>

DropHandle(c) ==
  /\ run.up /\ client[c] = "idle"
  /\ client' = [client EXCEPT ![c] = "dropped"]
  /\ UNCHANGED <<run, calls, queue, events, actor, roster, disk, word, failed>>

-----------------------------------------------------------------------------
(* The actor. A request is taken and served in one step, up to the write   *)
(* of the session if it ends with one.                                     *)

Serves(ask) ==
  /\ run.up /\ actor.at = "select" /\ queue # <<>> /\ Head(queue).ask = ask
  /\ queue' = Tail(queue)
  /\ UNCHANGED <<run, calls, events, disk, failed>>

(* The reply goes to the caller, if it still waits.                        *)
Answered(cmd) == [c \in Clients |-> IF c = cmd.from THEN "idle" ELSE client[c]]
Replies == client' = Answered(Head(queue)) /\ UNCHANGED actor
SavesFor(k) ==
  /\ actor' = [at |-> "save", for |-> Head(queue), contact |-> k]
  /\ UNCHANGED client
Says(k, what) == word' = [word EXCEPT ![k] = what]

Full == Len(contacts) >= MaxFriends
Listed(k) == k \in ToSet(contacts)

(* add_contact: the limit, then the name, then toxcore, which refuses who  *)
(* is its friend. The session is not saved.                                *)
AddContact ==
  LET f == Head(queue).friend
      k == [of |-> f, by |-> "address"] IN
  /\ Serves("add")
  /\ IF Full \/ Listed(k) \/ f \in known
     THEN UNCHANGED <<contacts, known, word>>
     ELSE /\ contacts' = Append(contacts, k)
          /\ known' = known \cup {f}
          /\ Says(k, "nothing")
  /\ Replies
  /\ UNCHANGED <<active, requests>>

(* connect: toxcore is asked, and no contact is made.                      *)
Connect ==
  /\ Serves("connect")
  /\ known' = known \cup {Head(queue).friend}
  /\ Replies
  /\ UNCHANGED <<contacts, active, requests, word>>

(* Fault: the removal is not saved.                                        *)
RemoveUnsaved(i) ==
  LET k == contacts[i] IN
  /\ Serves("remove") /\ k.of = Head(queue).friend
  /\ contacts' = RemoveAt(contacts, i)
  /\ active' = IF active = k THEN NoContact ELSE active
  /\ Says(k, "removed")
  /\ Replies
  /\ UNCHANGED <<requests, known>>

(* Fault: the conversation stays active.                                   *)
RemoveActive(i) ==
  LET k == contacts[i] IN
  /\ Serves("remove") /\ k.of = Head(queue).friend
  /\ contacts' = RemoveAt(contacts, i)
  /\ Says(k, "nothing")
  /\ SavesFor(k)
  /\ UNCHANGED <<active, requests, known>>

(* remove_contact, of the contact that the index or the name means when    *)
(* the request is served. Toxcore is not told.                             *)
RemoveContact(i) ==
  LET k == contacts[i] IN
  /\ Serves("remove") /\ k.of = Head(queue).friend
  /\ contacts' = RemoveAt(contacts, i)
  /\ active' = IF active = k THEN NoContact ELSE active
  /\ Says(k, "nothing")
  /\ SavesFor(k)
  /\ UNCHANGED <<requests, known>>

(* select_conversation                                                     *)
Select(k) ==
  /\ Serves("select") /\ Listed(k) /\ k.of = Head(queue).friend
  /\ active' = k
  /\ Replies
  /\ UNCHANGED <<contacts, requests, known, word>>

(* ... and both refuse who is not listed.                                  *)
NotFound ==
  /\ Serves("remove") \/ Serves("select")
  /\ \A k \in ToSet(contacts) : k.of # Head(queue).friend
  /\ Replies
  /\ UNCHANGED <<roster, word>>

(* Fault: accepting is not bounded by the limit.                           *)
AcceptUnlimited ==
  LET f == Head(queue).friend
      k == [of |-> f, by |-> "key"] IN
  /\ Serves("accept")
  /\ IF f \notin requests \/ f \in known
     THEN Replies /\ UNCHANGED <<roster, word>>
     ELSE /\ requests' = requests \ {f}
          /\ known' = known \cup {f}
          /\ IF Listed(k)
             THEN Says(k, "kept") /\ Replies /\ UNCHANGED contacts
             ELSE Says(k, "nothing") /\ SavesFor(k) /\ contacts' = Append(contacts, k)
          /\ UNCHANGED active

(* Fault: the limit is looked at when toxcore has answered.                *)
AcceptThenLimit ==
  LET f == Head(queue).friend
      k == [of |-> f, by |-> "key"] IN
  /\ Serves("accept")
  /\ IF f \notin requests \/ f \in known
     THEN Replies /\ UNCHANGED <<roster, word>>
     ELSE /\ requests' = requests \ {f}
          /\ known' = known \cup {f}
          /\ IF Full \/ Listed(k)
             THEN Replies /\ UNCHANGED <<contacts, word>>
             ELSE Says(k, "nothing") /\ SavesFor(k) /\ contacts' = Append(contacts, k)
          /\ UNCHANGED active

(* Fault: the accepted contact is not saved.                               *)
AcceptUnsaved ==
  LET f == Head(queue).friend
      k == [of |-> f, by |-> "key"] IN
  /\ Serves("accept")
  /\ IF Full \/ f \notin requests \/ f \in known
     THEN UNCHANGED <<roster, word>>
     ELSE /\ requests' = requests \ {f}
          /\ known' = known \cup {f}
          /\ contacts' = IF Listed(k) THEN contacts ELSE Append(contacts, k)
          /\ Says(k, "kept")
          /\ UNCHANGED active
  /\ Replies

(* Fault: the contact is added again.                                      *)
AcceptAgain ==
  LET f == Head(queue).friend
      k == [of |-> f, by |-> "key"] IN
  /\ Serves("accept")
  /\ IF Full \/ f \notin requests \/ f \in known
     THEN Replies /\ UNCHANGED <<roster, word>>
     ELSE /\ requests' = requests \ {f}
          /\ known' = known \cup {f}
          /\ Says(k, "nothing") /\ SavesFor(k) /\ contacts' = Append(contacts, k)
          /\ UNCHANGED active

(* accept_request: the limit first, so that a refused accept leaves the    *)
(* request; then toxcore; then the request is spent; then the contact, if  *)
(* its key names none yet.                                                 *)
AcceptRequest ==
  LET f == Head(queue).friend
      k == [of |-> f, by |-> "key"] IN
  /\ Serves("accept")
  /\ IF Full \/ f \notin requests \/ f \in known
     THEN Replies /\ UNCHANGED <<roster, word>>
     ELSE /\ requests' = requests \ {f}
          /\ known' = known \cup {f}
          /\ IF Listed(k)
             THEN Says(k, "kept") /\ Replies /\ UNCHANGED contacts
             ELSE Says(k, "nothing") /\ SavesFor(k) /\ contacts' = Append(contacts, k)
          /\ UNCHANGED active

(* reject_request                                                          *)
RejectRequest ==
  /\ Serves("reject")
  /\ requests' = requests \ {Head(queue).friend}
  /\ Replies
  /\ UNCHANGED <<contacts, active, known, word>>

SaveSession ==
  /\ Serves("save")
  /\ SavesFor(NoContact)
  /\ UNCHANGED <<roster, word>>

(* on_tick, when an automatic save is due; one that would write what the   *)
(* file holds already is left out.                                         *)
Tick ==
  /\ run.up /\ actor.at = "select" /\ session # contacts
  /\ actor' = [Waiting EXCEPT !.at = "save"]
  /\ UNCHANGED <<run, tasks, events, roster, disk, word, failed>>

(* The session has been written, or the write failed, which the actor only *)
(* logs: the reply is the same but for an explicit save.                   *)
AfterSave ==
  LET cmd == actor.for IN
  IF cmd.ask \in {"shutdown", "gone"}
  THEN actor' = [actor EXCEPT !.at = "stop"] /\ UNCHANGED <<client, word>>
  ELSE /\ actor' = Waiting
       /\ client' = Answered(cmd)
       /\ word' = IF cmd.ask = "remove" THEN [word EXCEPT ![actor.contact] = "removed"]
                  ELSE IF cmd.ask = "accept" THEN [word EXCEPT ![actor.contact] = "kept"]
                  ELSE word

Written ==
  /\ run.up /\ actor.at = "save"
  /\ session' = contacts /\ failed' = FALSE
  /\ AfterSave
  /\ UNCHANGED <<run, calls, queue, events, roster, saved>>

WriteFails ==
  /\ run.up /\ actor.at = "save" /\ DiskMayFail
  /\ failed' = TRUE
  /\ AfterSave
  /\ UNCHANGED <<run, calls, queue, events, roster, disk>>

-----------------------------------------------------------------------------
(* The transport's thread and the inbox                                    *)

(* A callback: a friend request is kept, unless toxcore knows its author,  *)
(* or anything else happens; either is reported to the actor.              *)
Callback(asking) ==
  /\ run.up /\ bridge = "free" /\ actor.at # "stop"
  /\ asking \cap known = {}
  /\ requests' = requests \cup asking
  /\ bridge' = "blocked"
  /\ UNCHANGED <<run, tasks, inbox, actor, contacts, active, known, disk, word, failed>>

(* blocking_send into the bounded inbox.                                   *)
HandIn ==
  /\ run.up /\ bridge = "blocked" /\ inbox.open /\ inbox.held < InboxCapacity
  /\ inbox' = [inbox EXCEPT !.held = @ + 1]
  /\ bridge' = "free"
  /\ UNCHANGED <<run, tasks, actor, roster, disk, word, failed>>

OnAppEvent ==
  /\ run.up /\ actor.at = "select" /\ inbox.held > 0
  /\ inbox' = [inbox EXCEPT !.held = @ - 1]
  /\ UNCHANGED <<run, tasks, bridge, actor, roster, disk, word, failed>>

-----------------------------------------------------------------------------
(* The end of a run                                                        *)

(* Fault: the inbox stays open while the transport is closed.              *)
CloseKeepsInbox(cmd) ==
  /\ actor' = [at |-> "save", for |-> cmd, contact |-> NoContact]
  /\ UNCHANGED events

(* Both ends of the loop drop the inbox first: a bridge that waits for     *)
(* room is let go.                                                         *)
Close(cmd) ==
  /\ actor' = [at |-> "save", for |-> cmd, contact |-> NoContact]
  /\ inbox' = [held |-> 0, open |-> FALSE]
  /\ UNCHANGED bridge

(* Fault: the reply is sent before anything is closed.                     *)
ShutdownAnswered ==
  /\ run.up /\ actor.at = "select" /\ queue # <<>> /\ Head(queue).ask = "shutdown"
  /\ queue' = Tail(queue)
  /\ client' = Answered(Head(queue))
  /\ run' = [run EXCEPT !.clean = TRUE]
  /\ Close(Head(queue))
  /\ UNCHANGED <<calls, roster, disk, word, failed>>

Shutdown ==
  /\ run.up /\ actor.at = "select" /\ queue # <<>> /\ Head(queue).ask = "shutdown"
  /\ queue' = Tail(queue)
  /\ Close(Head(queue))
  /\ UNCHANGED <<run, client, calls, roster, disk, word, failed>>

LastHandleDropped ==
  /\ run.up /\ actor.at = "select" /\ queue = <<>>
  /\ \A c \in Clients : client[c] = "dropped"
  /\ Close(Own("gone"))
  /\ UNCHANGED <<run, tasks, roster, disk, word, failed>>

(* The bridge finds the inbox closed, or sees the stop flag between two    *)
(* callbacks.                                                              *)
BridgeEnds ==
  /\ run.up
  /\ \/ bridge = "blocked" /\ ~inbox.open
     \/ bridge = "free" /\ actor.at = "stop"
  /\ bridge' = "ended"
  /\ UNCHANGED <<run, tasks, inbox, actor, roster, disk, word, failed>>

(* transport.shutdown returns when the bridge has ended, which it does     *)
(* with the savedata written; then the shutdown is answered.               *)
Stopped ==
  /\ run.up /\ actor.at = "stop" /\ bridge = "ended"
  /\ saved' = known
  /\ actor' = [actor EXCEPT !.at = "stopped"]
  /\ client' = Answered(actor.for)
  /\ run' = [run EXCEPT !.clean = actor.for.ask = "shutdown"]
  /\ UNCHANGED <<calls, queue, events, roster, session, word, failed>>

(* A process that is gone leaves its files.                                *)
Gone ==
  /\ run.up
  /\ client' = [c \in Clients |-> "idle"] /\ queue' = <<>>
  /\ inbox' = NewInbox /\ bridge' = "free" /\ actor' = Waiting
  /\ active' = NoContact

(* main returns when its shutdown is answered. The friend lists are kept   *)
(* to compare the files with.                                              *)
Exit ==
  /\ run.clean
  /\ Gone
  /\ run' = [run EXCEPT !.up = FALSE]
  /\ UNCHANGED <<calls, contacts, requests, known, disk, word, failed>>

Crash ==
  /\ Gone
  /\ run' = [run EXCEPT !.up = FALSE, !.clean = FALSE]
  /\ contacts' = <<>> /\ known' = {}
  /\ UNCHANGED <<calls, requests, disk, word, failed>>

(* load_session, and what the transport reads back. What a failed write    *)
(* left out is no longer owed.                                             *)
Restart ==
  /\ ~run.up /\ run.count < MaxRuns
  /\ run' = [count |-> run.count + 1, up |-> TRUE, clean |-> FALSE]
  /\ contacts' = session /\ known' = saved
  /\ word' = IF failed THEN [k \in Contacts |-> "nothing"] ELSE word
  /\ failed' = FALSE
  /\ UNCHANGED <<tasks, events, actor, active, requests, disk>>

Serve ==
  \/ AddContact \/ Connect \/ NotFound \/ AcceptRequest \/ RejectRequest \/ SaveSession
  \/ \E i \in 1..Len(contacts) : RemoveContact(i)
  \/ \E k \in Contacts : Select(k)
  \/ Shutdown

Next ==
  \/ \E c \in Clients : Call(c) \/ GiveUp(c) \/ Refused(c) \/ DropHandle(c)
  \/ \E c \in Clients, q \in Asks : Enqueue(c, q)
  \/ Serve \/ Tick \/ Written \/ WriteFails \/ OnAppEvent
  \/ \E f \in Friends : Callback({f})
  \/ Callback({}) \/ HandIn
  \/ LastHandleDropped \/ BridgeEnds \/ Stopped \/ Exit \/ Crash \/ Restart

(* A task that can go on does; select! takes every source that is ready    *)
(* again and again, and the waiters for room in the queue have their turn. *)
Fairness ==
  /\ SF_vars(Serve) /\ WF_vars(Written \/ WriteFails \/ BridgeEnds \/ Stopped)
  /\ \A c \in Clients :
       SF_vars(\E q \in Asks : Enqueue(c, q)) /\ WF_vars(Refused(c))

Spec == Init /\ [][Next]_vars /\ Fairness

-----------------------------------------------------------------------------
(* Properties                                                              *)

(* "Persist immediately so a crash cannot resurrect the friend": a contact *)
(* whose removal was answered is not in what a restart reads.              *)
RemovedStaysRemoved ==
  ~failed => \A k \in ToSet(session) : word[k] # "removed"

(* A contact whose acceptance was answered is in what a restart reads: its *)
(* request is spent, so nothing else would bring it back.                  *)
AcceptedIsKept ==
  ~failed => \A k \in Contacts : word[k] = "kept" => k \in ToSet(session)

(* No two contacts have the same name, though toxcore's friend list and    *)
(* the session part ways in a crash.                                       *)
NamedOnce == \A i, j \in 1..Len(contacts) : contacts[i] = contacts[j] => i = j

(* "Every path that can create a contact goes through" the limit.          *)
WithinFriendLimit == Len(contacts) <= MaxFriends

(* The active conversation is a contact: a message without a target never  *)
(* goes to who was removed, by whichever front-end.                        *)
ActiveIsContact == active # NoContact => Listed(active)

(* "A refused accept must leave the request pending": a request goes when  *)
(* it is rejected, or its author is a contact.                             *)
RequestsAreAnswered == [][
  \A f \in requests \ requests' :
    \/ [of |-> f, by |-> "key"] \in ToSet(contacts')
    \/ Head(queue).ask = "reject" /\ Head(queue).friend = f]_vars

(* "Terminal cleanup runs before the reply is sent": a process that ends   *)
(* because its shutdown was answered has saved the session and the         *)
(* savedata as they were.                                                  *)
AnsweredEndIsSaved ==
  ~run.up /\ run.clean /\ ~failed => session = contacts /\ saved = known

(* Every request ends, with a reply or because the core is not running,    *)
(* although the bridge blocks on the inbox and the actor waits for the     *)
(* bridge when it stops.                                                   *)
EveryCallEnds ==
  \A c \in Clients : client[c] \in {"sending", "waiting"} ~> client[c] \notin {"sending", "waiting"}

(* What was answered outlives a crash: removals and acceptances alike.     *)
AnswersLast == RemovedStaysRemoved /\ AcceptedIsKept

(* The contact list, over crashes and every path that creates a contact:   *)
(* well-typed, no name twice, within the limit, and the active             *)
(* conversation on it.                                                     *)
ContactsAgree == TypeOK /\ NamedOnce /\ WithinFriendLimit /\ ActiveIsContact
=============================================================================

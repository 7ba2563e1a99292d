-------------------------- MODULE CoreActorProofs ---------------------------
(***************************************************************************)
(* Theorems about the core actor, for any number of front-ends, contacts and   *)
(* runs and every capacity: the contact list over crashes, what outlives an    *)
(* answer, what becomes of a friend request, and what an answered end leaves.  *)
(***************************************************************************)
EXTENDS CoreActor, SequenceTheorems, TLAPS

(* The contact list and the one in the session file: it is what a restart       *)
(* begins with.                                                              *)
Fits(list) == /\ Len(list) <= MaxFriends
              /\ \A i, j \in 1..Len(list) : list[i] = list[j] => i = j
ListInv == /\ Fits(contacts) /\ Fits(session)
           /\ ActiveIsContact
           /\ ~run.up => active = NoContact

(* While a removal or an acceptance is saved, its change is made. *)
SavingInv ==
  actor.at = "save" =>
    /\ actor.for.ask = "remove" => actor.contact \in Contacts /\ ~Listed(actor.contact)
    /\ actor.for.ask = "accept" => actor.contact \in Contacts /\ Listed(actor.contact)

(* In memory, what was answered last about a contact is so. *)
WordInv ==
  run.up => \A k \in Contacts : /\ word[k] = "removed" => ~Listed(k)
                                /\ word[k] = "kept" => Listed(k)

(* In the file too, if its last write did not fail; who was accepted is in it     *)
(* unless the acceptance is being saved.                                     *)
FileInv ==
  ~failed =>
    /\ \A k \in Contacts : /\ word[k] = "removed" => k \notin ToSet(session)
                           /\ word[k] = "kept" => k \in ToSet(session)
    /\ run.up => \A k \in ToSet(contacts) :
         k.by = "key" => k \in ToSet(session) \/ (actor.at = "save" /\ actor.contact = k)

(* A run that ends has written its session, then its savedata, then answers.     *)
EndInv ==
  /\ ~failed /\ actor.at \in {"stop", "stopped"} => session = contacts
  /\ actor.at = "stopped" => saved = known
  /\ run.up /\ run.clean => actor.at = "stopped"
  /\ ~run.up => actor = Waiting
  /\ ~run.up /\ run.clean => (~failed => session = contacts) /\ saved = known

Keeps == ListInv /\ SavingInv /\ WordInv /\ FileInv /\ EndInv
IInv == TypeOK /\ Keeps

(* What an append and a removal do to a list without repetitions. *)
LEMMA Appended ==
  ASSUME NEW s \in Seq(Contacts), NEW e \in Contacts
  PROVE  /\ Append(s, e) \in Seq(Contacts) /\ Len(Append(s, e)) = Len(s) + 1
         /\ ToSet(Append(s, e)) = ToSet(s) \cup {e}
         /\ e \notin ToSet(s) /\ Len(s) < MaxFriends /\ Fits(s) => Fits(Append(s, e))
  <1> DEFINE t == Append(s, e)
  <1>1. /\ t \in Seq(Contacts) /\ Len(t) = Len(s) + 1 /\ t[Len(s) + 1] = e
        /\ \A i \in 1..Len(s) : t[i] = s[i]
    BY AppendProperties
  <1>2. DOMAIN t = 1..Len(s) + 1 /\ DOMAIN s = 1..Len(s) /\ Len(s) \in Nat
    BY <1>1
  <1> HIDE DEF t
  <1>3. ToSet(t) = ToSet(s) \cup {e}
    BY <1>1, <1>2 DEF ToSet
  <1>4. ASSUME e \notin ToSet(s), Len(s) < MaxFriends, Fits(s) PROVE Fits(t)
    BY <1>1, <1>2, <1>4, CoreActorAssumption DEF Fits, ToSet
  <1> QED BY <1>1, <1>3, <1>4 DEF t

LEMMA TakenOut ==
  ASSUME NEW s \in Seq(Contacts), NEW i \in 1..Len(s), Fits(s)
  PROVE  /\ RemoveAt(s, i) \in Seq(Contacts) /\ Fits(RemoveAt(s, i))
         /\ ToSet(RemoveAt(s, i)) = ToSet(s) \ {s[i]}
  <1> DEFINE t == RemoveAt(s, i)
  <1>1. /\ t \in Seq(Contacts) /\ Len(t) = Len(s) - 1
        /\ \A j \in 1..Len(t) : t[j] = IF j < i THEN s[j] ELSE s[j + 1]
    <2> DEFINE a == SubSeq(s, 1, i - 1)
               b == SubSeq(s, i + 1, Len(s))
    <2>1. a \in Seq(Contacts) /\ Len(a) = i - 1 /\ \A j \in 1..i - 1 : a[j] = s[j]
      OBVIOUS
    <2>2. /\ b \in Seq(Contacts) /\ Len(b) = Len(s) - i
          /\ \A j \in 1..Len(s) - i : b[j] = s[j + i]
      OBVIOUS
    <2> HIDE DEF a, b
    <2>3. /\ a \o b \in Seq(Contacts) /\ Len(a \o b) = Len(a) + Len(b)
          /\ \A j \in 1..Len(a) + Len(b) :
               (a \o b)[j] = IF j <= Len(a) THEN a[j] ELSE b[j - Len(a)]
      BY <2>1, <2>2, ConcatProperties
    <2>4. Len(a \o b) = Len(s) - 1
      BY <2>1, <2>2, <2>3
    <2>5. ASSUME NEW j \in 1..Len(s) - 1 PROVE (a \o b)[j] = IF j < i THEN s[j] ELSE s[j + 1]
      BY <2>1, <2>2, <2>3
    <2>6. t = a \o b
      BY DEF RemoveAt, a, b
    <2> HIDE DEF t
    <2> QED BY <2>3, <2>4, <2>5, <2>6
  <1>2. DOMAIN t = 1..Len(s) - 1 /\ DOMAIN s = 1..Len(s) /\ Len(s) \in Nat
    BY <1>1
  <1> HIDE DEF t
  <1>3. Fits(t)
    BY <1>1, <1>2, CoreActorAssumption DEF Fits
  <1>4. ASSUME NEW j \in DOMAIN t PROVE t[j] \in ToSet(s) /\ t[j] # s[i]
    <2>1. PICK o \in 1..Len(s) : o # i /\ t[j] = s[o]
      BY <1>1, <1>2
    <2> QED BY <1>2, <2>1 DEF Fits, ToSet
  <1>5. ASSUME NEW j \in DOMAIN s, j # i PROVE s[j] \in ToSet(t)
    <2>1. CASE j < i
      BY <1>1, <1>2, <2>1 DEF ToSet
    <2>2. CASE j > i
      <3>1. j - 1 \in DOMAIN t /\ t[j - 1] = s[j]
        BY <1>1, <1>2, <2>2
      <3> QED BY <3>1 DEF ToSet
    <2> QED BY <1>2, <1>5, <2>1, <2>2
  <1> QED BY <1>1, <1>3, <1>4, <1>5 DEF ToSet, t

(* A request is taken from the front of the queue, and is about a friend or not. *)
LEMMA Taken ==
  ASSUME TypeOK, queue # <<>>, queue' = Tail(queue)
  PROVE  /\ Head(queue) \in Commands
         /\ queue' \in Seq(Commands) /\ Len(queue') <= QueueCapacity
  BY CoreActorAssumption DEF TypeOK

LEMMA AboutFriend ==
  ASSUME NEW cmd \in Commands, cmd.ask \in AboutOne
  PROVE  cmd.friend \in Friends
  BY DEF Commands, AboutOne

(* Who is answered is idle; who gave up is answered by nobody. *)
LEMMA AnsweredTyped ==
  ASSUME TypeOK, NEW cmd PROVE Answered(cmd) \in Awaits
  BY DEF TypeOK, Answered, Awaits

LEMMA UnheardTyped ==
  ASSUME NEW cmd \in Commands, NEW c
  PROVE  /\ Unheard(cmd, c) \in Commands
         /\ Unheard(cmd, c).ask = cmd.ask /\ Unheard(cmd, c).friend = cmd.friend
  BY DEF Unheard, Commands

LEMMA WaitingTyped ==
  /\ Waiting \in Steps /\ [Waiting EXCEPT !.at = "save"] \in Steps
  /\ \A cmd \in Commands, k \in Contacts \cup {NoContact} :
       [at |-> "save", for |-> cmd, contact |-> k] \in Steps
  /\ Own("gone") \in Commands
  BY DEF Waiting, Steps, Own, Commands

(* The front-ends and the transport: what each step changes is of its kind. *)
LEMMA FrontEndTypes ==
  ASSUME TypeOK, NEW c \in Clients,
         \/ Call(c) \/ GiveUp(c) \/ Refused(c) \/ DropHandle(c)
         \/ \E q \in Asks : Enqueue(c, q)
  PROVE  TypeOK'
  <1> USE CoreActorAssumption DEF TypeOK, tasks, events, roster, disk
  <1>1. CASE Call(c)
    <2>1. client' \in Awaits
      BY <1>1 DEF Call, Awaits
    <2> QED BY <1>1, <2>1 DEF Call
  <1>2. CASE GiveUp(c)
    <2>1. client' \in Awaits
      BY <1>2 DEF GiveUp, Awaits
    <2>2. actor' \in Steps
      <3>1. actor.for \in Commands
        BY DEF Steps
      <3>2. Unheard(actor.for, c) \in Commands
        BY <3>1, UnheardTyped
      <3> QED BY <1>2, <3>2 DEF GiveUp, Steps
    <2>3. queue' \in Seq(Commands) /\ Len(queue') <= QueueCapacity
      <3>1. \A n \in 1..Len(queue) : Unheard(queue[n], c) \in Commands
        BY UnheardTyped
      <3>2. queue' = [n \in 1..Len(queue) |-> Unheard(queue[n], c)]
        BY <1>2 DEF GiveUp
      <3>3. queue' \in Seq(Commands) /\ Len(queue') = Len(queue)
        BY <3>1, <3>2
      <3> QED BY <3>3
    <2> QED BY <1>2, <2>1, <2>2, <2>3 DEF GiveUp
  <1>3. CASE Refused(c)
    <2>1. client' \in Awaits
      BY <1>3 DEF Refused, Awaits
    <2> QED BY <1>3, <2>1 DEF Refused
  <1>4. CASE DropHandle(c)
    <2>1. client' \in Awaits
      BY <1>4 DEF DropHandle, Awaits
    <2> QED BY <1>4, <2>1 DEF DropHandle
  <1>5. ASSUME NEW q \in Asks, Enqueue(c, q) PROVE TypeOK'
    <2>1. client' \in Awaits
      BY <1>5 DEF Enqueue, Awaits
    <2>2. Asked(c, q) \in Commands
      BY DEF Asked, Commands, Asks
    <2>3. queue' \in Seq(Commands) /\ Len(queue') <= QueueCapacity
      <3>1. queue' = Append(queue, Asked(c, q)) /\ Len(queue) < QueueCapacity
        BY <1>5 DEF Enqueue
      <3>2. Append(queue, Asked(c, q)) \in Seq(Commands)
            /\ Len(Append(queue, Asked(c, q))) = Len(queue) + 1
        BY <2>2, AppendProperties
      <3> QED BY <3>1, <3>2
    <2> QED BY <1>5, <2>1, <2>3 DEF Enqueue
  <1> QED BY <1>1, <1>2, <1>3, <1>4, <1>5

(* The requests: each takes its command, and leaves a list of contacts. *)
LEMMA ServeTypes ==
  ASSUME TypeOK, Fits(contacts), Serve
  PROVE  TypeOK'
  <1> USE CoreActorAssumption DEF TypeOK, tasks, events, roster, disk
  <1> DEFINE f == Head(queue).friend
  <1>1. ASSUME NEW ask, Serves(ask)
        PROVE  /\ Head(queue) \in Commands /\ queue' \in Seq(Commands)
               /\ Len(queue') <= QueueCapacity
    BY <1>1, Taken DEF Serves
  <1>2. ASSUME NEW ask \in AboutOne, Serves(ask)
        PROVE  /\ f \in Friends
               /\ \A by \in {"address", "key"} : [of |-> f, by |-> by] \in Contacts
    <2>1. f \in Friends
      BY <1>1, <1>2, AboutFriend DEF Serves
    <2> QED BY <2>1 DEF Contacts
  <1>3. Replies => client' \in Awaits /\ actor' \in Steps
    BY AnsweredTyped DEF Replies
  <1>4. ASSUME NEW ask, Serves(ask), NEW k \in Contacts \cup {NoContact}, SavesFor(k)
        PROVE  client' \in Awaits /\ actor' \in Steps
    BY <1>1, <1>4, WaitingTyped DEF SavesFor
  <1>5. ASSUME NEW k \in Contacts, NEW what \in {"nothing", "kept", "removed"}, Says(k, what)
        PROVE  word' \in Words
    BY <1>5 DEF Says, Words
  <1>6. CASE AddContact
    <2> DEFINE k == [of |-> f, by |-> "address"]
    <2>1. f \in Friends /\ k \in Contacts
      BY <1>2, <1>6 DEF AddContact, AboutOne
    <2>2. Append(contacts, k) \in Seq(Contacts) /\ (Says(k, "nothing") => word' \in Words)
      BY <1>5, <2>1, Appended
    <2>3. contacts' \in Seq(Contacts) /\ known' \subseteq Friends
      BY <1>6, <2>1, <2>2 DEF AddContact
    <2>4. word' \in Words
      BY <1>6, <2>2 DEF AddContact
    <2> QED BY <1>1, <1>3, <1>6, <2>3, <2>4 DEF AddContact, Serves
  <1>7. CASE Connect
    <2>1. f \in Friends
      BY <1>2, <1>7 DEF Connect, AboutOne
    <2> QED BY <1>1, <1>3, <1>7, <2>1 DEF Connect, Serves
  <1>8. CASE NotFound
    BY <1>1, <1>3, <1>8 DEF NotFound, Serves
  <1>9. CASE AcceptRequest
    <2> DEFINE k == [of |-> f, by |-> "key"]
    <2>1. f \in Friends /\ k \in Contacts
      BY <1>2, <1>9 DEF AcceptRequest, AboutOne
    <2>2. /\ Append(contacts, k) \in Seq(Contacts)
          /\ Says(k, "kept") \/ Says(k, "nothing") => word' \in Words
      BY <1>5, <2>1, Appended
    <2>3. contacts' \in Seq(Contacts) /\ known' \subseteq Friends /\ requests' \subseteq Friends
      BY <1>9, <2>1, <2>2 DEF AcceptRequest
    <2>4. word' \in Words
      BY <1>9, <2>2 DEF AcceptRequest
    <2>5. client' \in Awaits /\ actor' \in Steps
      BY <1>3, <1>4, <1>9, <2>1 DEF AcceptRequest
    <2>6. active' = active
      BY <1>9 DEF AcceptRequest
    <2> QED BY <1>1, <1>9, <2>3, <2>4, <2>5, <2>6 DEF AcceptRequest, Serves
  <1>10. CASE RejectRequest
    BY <1>1, <1>3, <1>10 DEF RejectRequest, Serves
  <1>11. CASE SaveSession
    <2>1. client' \in Awaits /\ actor' \in Steps
      BY <1>4, <1>11 DEF SaveSession
    <2> QED BY <1>1, <1>11, <2>1 DEF SaveSession, Serves
  <1>12. ASSUME NEW i \in 1..Len(contacts), RemoveContact(i) PROVE TypeOK'
    <2>1. contacts[i] \in Contacts
      OBVIOUS
    <2>2. contacts' \in Seq(Contacts)
      BY <1>12, TakenOut DEF RemoveContact
    <2>3. word' \in Words
      BY <1>5, <1>12, <2>1 DEF RemoveContact
    <2>4. client' \in Awaits /\ actor' \in Steps
      BY <1>4, <1>12, <2>1 DEF RemoveContact
    <2> QED BY <1>1, <1>12, <2>2, <2>3, <2>4 DEF RemoveContact, Serves
  <1>13. ASSUME NEW k \in Contacts, Select(k) PROVE TypeOK'
    BY <1>1, <1>3, <1>13 DEF Select, Serves
  <1>14. CASE Shutdown
    <2>1. queue # <<>> /\ queue' = Tail(queue) /\ Close(Head(queue))
      BY <1>14 DEF Shutdown
    <2>2. /\ Head(queue) \in Commands
          /\ queue' \in Seq(Commands) /\ Len(queue') <= QueueCapacity
      BY <2>1, Taken
    <2>3. actor' \in Steps
      BY <2>1, <2>2, WaitingTyped DEF Close
    <2>4. inbox' \in Inboxes
      BY <2>1 DEF Close, Inboxes
    <2> QED BY <1>14, <2>1, <2>2, <2>3, <2>4 DEF Shutdown, Close
  <1> QED BY <1>6, <1>7, <1>8, <1>9, <1>10, <1>11, <1>12, <1>13, <1>14 DEF Serve

(* The saves, the transport, and the end and the start of a run. *)
LEMMA RunTypes ==
  ASSUME TypeOK,
         \/ Tick \/ Written \/ WriteFails \/ OnAppEvent \/ HandIn \/ Callback({})
         \/ \E f \in Friends : Callback({f})
         \/ LastHandleDropped \/ BridgeEnds \/ Stopped \/ Exit \/ Crash \/ Restart
  PROVE  TypeOK'
  <1> USE CoreActorAssumption DEF TypeOK, tasks, events, roster, disk
  <1>1. CASE Tick
    BY <1>1, WaitingTyped DEF Tick
  <1>2. AfterSave /\ actor.at = "save" => client' \in Awaits /\ actor' \in Steps /\ word' \in Words
    <2> SUFFICES ASSUME AfterSave PROVE client' \in Awaits /\ actor' \in Steps /\ word' \in Words
      OBVIOUS
    <2>1. actor' \in Steps
      BY WaitingTyped DEF AfterSave, Steps
    <2>2. client' \in Awaits
      BY AnsweredTyped DEF AfterSave
    <2>3. word' \in Words
      BY DEF AfterSave, Words
    <2> QED BY <2>1, <2>2, <2>3
  <1>3. CASE Written
    BY <1>2, <1>3 DEF Written
  <1>4. CASE WriteFails
    BY <1>2, <1>4 DEF WriteFails
  <1>5. CASE OnAppEvent
    <2>1. inbox.held \in 0..InboxCapacity /\ inbox.open \in BOOLEAN
      BY DEF Inboxes
    <2>2. inbox' \in Inboxes
      <3>1. inbox.held - 1 \in 0..InboxCapacity
        BY <1>5, <2>1 DEF OnAppEvent
      <3>2. inbox' = [inbox EXCEPT !.held = inbox.held - 1]
        BY <1>5 DEF OnAppEvent
      <3> QED BY <3>1, <3>2 DEF Inboxes
    <2> QED BY <1>5, <2>2 DEF OnAppEvent
  <1>6. CASE HandIn
    <2>1. inbox.held \in 0..InboxCapacity /\ inbox.open \in BOOLEAN
      BY DEF Inboxes
    <2>2. inbox' \in Inboxes
      <3>1. inbox.held + 1 \in 0..InboxCapacity
        BY <1>6, <2>1 DEF HandIn
      <3>2. inbox' = [inbox EXCEPT !.held = inbox.held + 1]
        BY <1>6 DEF HandIn
      <3> QED BY <3>1, <3>2 DEF Inboxes
    <2> QED BY <1>6, <2>2 DEF HandIn
  <1>7. ASSUME NEW asking \in SUBSET Friends, Callback(asking) PROVE TypeOK'
    BY <1>7 DEF Callback
  <1>8. CASE LastHandleDropped
    <2>1. actor' \in Steps /\ inbox' \in Inboxes
      BY <1>8, WaitingTyped DEF LastHandleDropped, Close, Inboxes
    <2> QED BY <1>8, <2>1 DEF LastHandleDropped, Close
  <1>9. CASE BridgeEnds
    BY <1>9 DEF BridgeEnds
  <1>10. CASE Stopped
    <2>1. actor' \in Steps /\ run' \in Runs
      BY <1>10 DEF Stopped, Steps, Runs
    <2>2. client' \in Awaits
      BY <1>10, AnsweredTyped DEF Stopped
    <2> QED BY <1>10, <2>1, <2>2 DEF Stopped
  <1>11. Gone => /\ client' \in Awaits /\ queue' \in Seq(Commands) /\ Len(queue') <= QueueCapacity
                 /\ inbox' \in Inboxes /\ bridge' = "free" /\ actor' \in Steps /\ active' = NoContact
    BY WaitingTyped DEF Gone, Awaits, NewInbox, Inboxes
  <1>12. CASE Exit
    <2>1. run' \in Runs
      BY <1>12 DEF Exit, Runs
    <2> QED BY <1>11, <1>12, <2>1 DEF Exit
  <1>13. CASE Crash
    <2>1. run' \in Runs
      BY <1>13 DEF Crash, Runs
    <2> QED BY <1>11, <1>13, <2>1 DEF Crash
  <1>14. CASE Restart
    <2>1. run' \in Runs
      BY <1>14 DEF Restart, Runs
    <2>2. word' \in Words
      BY <1>14 DEF Restart, Words
    <2> QED BY <1>14, <2>1, <2>2 DEF Restart
  <1> QED BY <1>1, <1>3, <1>4, <1>5, <1>6, <1>7, <1>8, <1>9, <1>10, <1>12, <1>13, <1>14

(* The front-ends and the transport change nothing the invariant is about; who   *)
(* gave up is only not answered.                                             *)
LEMMA QuietKeeps ==
  ASSUME TypeOK, Keeps,
         UNCHANGED <<run, contacts, active, known, disk, word, failed>>,
         \/ actor' = actor
         \/ \E c : run.up /\ actor' = [actor EXCEPT !.for = Unheard(@, c)]
  PROVE  Keeps'
  <1>1. CASE actor' = actor
    BY <1>1 DEF Keeps, ListInv, Fits, ActiveIsContact, Listed, SavingInv, WordInv, FileInv, EndInv, disk
  <1>2. ASSUME NEW c, run.up, actor' = [actor EXCEPT !.for = Unheard(@, c)] PROVE Keeps'
    <2>1. actor.for \in Commands /\ actor \in Steps
      BY DEF TypeOK, Steps
    <2>2. /\ actor'.at = actor.at /\ actor'.contact = actor.contact
          /\ actor'.for.ask = actor.for.ask
      BY <1>2, <2>1, UnheardTyped DEF Steps
    <2> QED BY <1>2, <2>2 DEF Keeps, ListInv, Fits, ActiveIsContact, Listed, SavingInv, WordInv, FileInv,
                              EndInv, disk
  <1> QED BY <1>1, <1>2

(* A request is served in a run that has not ended. *)
LEMMA ServedInRun ==
  ASSUME TypeOK, Keeps, NEW ask, Serves(ask)
  PROVE  /\ run.up /\ ~run.clean /\ actor.at = "select" /\ UNCHANGED <<run, disk, failed>>
         /\ Head(queue) \in Commands /\ Head(queue).ask = ask
         /\ ask \in AboutOne => Head(queue).friend \in Friends
  <1>1. Head(queue) \in Commands
    BY Taken DEF Serves
  <1> QED BY <1>1, AboutFriend DEF Serves, Keeps, EndInv

(* An answer leaves the actor where it was, a save begins with its change made.   *)
LEMMA ServedKeeps ==
  ASSUME TypeOK, Keeps, NEW ask, Serves(ask),
         Fits(contacts'), active' # NoContact => active' \in ToSet(contacts'),
         \A k \in Contacts : /\ word'[k] = "removed" => k \notin ToSet(contacts')
                             /\ word'[k] = "kept" => k \in ToSet(contacts')
                             /\ word'[k] = "kept" /\ ~failed => k \in ToSet(session)
                             /\ word'[k] = "removed" => word[k] = "removed",
         \/ /\ UNCHANGED actor
            /\ \A k \in ToSet(contacts') : k.by = "key" => k \in ToSet(contacts)
         \/ \E k \in Contacts \cup {NoContact} :
              /\ actor' = [at |-> "save", for |-> Head(queue), contact |-> k]
              /\ ask = "remove" => k \in Contacts /\ k \notin ToSet(contacts')
              /\ ask = "accept" => k \in Contacts /\ k \in ToSet(contacts')
              /\ \A o \in ToSet(contacts') : o.by = "key" => o = k \/ o \in ToSet(contacts)
  PROVE  Keeps'
  <1>1. /\ run.up /\ ~run.clean /\ actor.at = "select" /\ UNCHANGED <<run, session, saved, failed>>
        /\ Head(queue).ask = ask
    BY ServedInRun DEF disk
  <1>2. ListInv'
    BY <1>1 DEF Keeps, ListInv, Fits, ActiveIsContact, Listed
  <1>3. SavingInv'
    BY <1>1 DEF SavingInv, Listed
  <1>4. WordInv'
    BY <1>1 DEF WordInv, Listed
  <1>5. FileInv'
    <2>1. ~failed => \A k \in ToSet(contacts) : k.by = "key" => k \in ToSet(session)
      BY <1>1 DEF Keeps, FileInv
    <2>2. ~failed => \A k \in Contacts : word[k] = "removed" => k \notin ToSet(session)
      BY DEF Keeps, FileInv
    <2> QED BY <1>1, <2>1, <2>2 DEF FileInv
  <1>6. EndInv'
    BY <1>1 DEF EndInv
  <1> QED BY <1>2, <1>3, <1>4, <1>5, <1>6 DEF Keeps

(* Every request keeps the invariant. *)
LEMMA ServeKeeps ==
  ASSUME TypeOK, Keeps, Serve
  PROVE  Keeps'
  <1> DEFINE f == Head(queue).friend
             S == ToSet(contacts)
  <1>1. /\ contacts \in Seq(Contacts) /\ Fits(contacts) /\ word \in Words
        /\ active # NoContact => active \in S
    BY DEF TypeOK, Keeps, ListInv, ActiveIsContact, Listed
  <1>2. ASSUME run.up, actor.at = "select", NEW k \in Contacts
        PROVE  /\ word[k] = "removed" => k \notin S
               /\ word[k] = "kept" => k \in S
               /\ word[k] = "kept" /\ ~failed => k \in ToSet(session)
               /\ k \in S /\ k.by = "key" /\ ~failed => k \in ToSet(session)
    BY <1>2 DEF Keeps, WordInv, FileInv, Listed
  <1>3. ASSUME NEW ask, Serves(ask), Replies, UNCHANGED <<contacts, word>>, UNCHANGED active
        PROVE  Keeps'
    BY <1>1, <1>2, <1>3, ServedInRun, ServedKeeps DEF Replies
  <1>4. CASE AddContact
    <2> DEFINE k == [of |-> f, by |-> "address"]
    <2>1. /\ Serves("add") /\ run.up /\ actor.at = "select" /\ k \in Contacts /\ UNCHANGED <<actor, active>>
      BY <1>4, ServedInRun DEF AddContact, AboutOne, Contacts, Replies
    <2>2. CASE UNCHANGED <<contacts, word>>
      BY <1>3, <1>4, <2>1, <2>2 DEF AddContact
    <2>3. CASE /\ ~Full /\ ~Listed(k) /\ contacts' = Append(contacts, k)
               /\ word' = [word EXCEPT ![k] = "nothing"]
      <3>1. Fits(contacts') /\ ToSet(contacts') = S \cup {k}
        BY <1>1, <2>1, <2>3, Appended, CoreActorAssumption DEF Full, Listed
      <3>2. \A o \in Contacts : word'[o] = IF o = k THEN "nothing" ELSE word[o]
        BY <1>1, <2>3 DEF Words
      <3>3. k.by # "key"
        OBVIOUS
      <3> HIDE DEF k, S
      <3> QED BY <1>1, <1>2, <2>1, <3>1, <3>2, <3>3, ServedKeeps DEF S
    <2> QED BY <1>4, <2>2, <2>3 DEF AddContact, Says
  <1>5. CASE Connect
    BY <1>3, <1>5 DEF Connect
  <1>6. CASE NotFound
    BY <1>3, <1>6 DEF NotFound, roster
  <1>7. CASE RejectRequest
    BY <1>3, <1>7 DEF RejectRequest
  <1>8. CASE AcceptRequest
    <2> DEFINE k == [of |-> f, by |-> "key"]
    <2>1. /\ Serves("accept") /\ run.up /\ actor.at = "select" /\ k \in Contacts /\ UNCHANGED active
      BY <1>8, ServedInRun DEF AcceptRequest, AboutOne, Contacts, roster
    <2>2. CASE Replies /\ UNCHANGED <<contacts, word>>
      BY <1>3, <2>1, <2>2
    <2>3. CASE /\ Listed(k) /\ word' = [word EXCEPT ![k] = "kept"] /\ Replies
               /\ UNCHANGED contacts
      <3>1. \A o \in Contacts : word'[o] = IF o = k THEN "kept" ELSE word[o]
        BY <1>1, <2>3 DEF Words
      <3>2. k \in S /\ k.by = "key" /\ UNCHANGED actor
        BY <2>3 DEF Listed, Replies
      <3> HIDE DEF k
      <3> QED BY <1>1, <1>2, <2>1, <2>3, <3>1, <3>2, ServedKeeps
    <2>4. CASE /\ ~Full /\ ~Listed(k) /\ contacts' = Append(contacts, k)
               /\ word' = [word EXCEPT ![k] = "nothing"] /\ SavesFor(k)
      <3>1. Fits(contacts') /\ ToSet(contacts') = S \cup {k}
        BY <1>1, <2>1, <2>4, Appended, CoreActorAssumption DEF Full, Listed
      <3>2. \A o \in Contacts : word'[o] = IF o = k THEN "nothing" ELSE word[o]
        BY <1>1, <2>4 DEF Words
      <3>3. actor' = [at |-> "save", for |-> Head(queue), contact |-> k]
        BY <2>4 DEF SavesFor
      <3> HIDE DEF k, S
      <3> QED BY <1>1, <1>2, <2>1, <3>1, <3>2, <3>3, ServedKeeps DEF S
    <2> QED BY <1>8, <2>2, <2>3, <2>4 DEF AcceptRequest, Says, roster
  <1>9. CASE SaveSession
    <2>1. /\ Serves("save") /\ UNCHANGED <<contacts, active, word>> /\ run.up /\ actor.at = "select"
          /\ actor' = [at |-> "save", for |-> Head(queue), contact |-> NoContact]
      BY <1>9, ServedInRun DEF SaveSession, SavesFor, roster
    <2> QED BY <1>1, <1>2, <2>1, ServedKeeps
  <1>10. ASSUME NEW i \in 1..Len(contacts), RemoveContact(i) PROVE Keeps'
    <2> DEFINE k == contacts[i]
    <2>1. /\ Serves("remove") /\ run.up /\ actor.at = "select" /\ k \in Contacts
          /\ active' = IF active = k THEN NoContact ELSE active
          /\ actor' = [at |-> "save", for |-> Head(queue), contact |-> k]
      BY <1>1, <1>10, ServedInRun DEF RemoveContact, SavesFor
    <2>2. Fits(contacts') /\ ToSet(contacts') = S \ {k}
      BY <1>1, <1>10, TakenOut DEF RemoveContact
    <2>3. \A o \in Contacts : word'[o] = IF o = k THEN "nothing" ELSE word[o]
      BY <1>1, <1>10, <2>1 DEF RemoveContact, Says, Words
    <2> HIDE DEF k, S
    <2> QED BY <1>1, <1>2, <2>1, <2>2, <2>3, ServedKeeps DEF S
  <1>11. ASSUME NEW k \in Contacts, Select(k) PROVE Keeps'
    <2>1. /\ Serves("select") /\ k \in S /\ active' = k /\ UNCHANGED <<contacts, word, actor>>
          /\ run.up /\ actor.at = "select"
      BY <1>11, ServedInRun DEF Select, Listed, Replies
    <2> QED BY <1>1, <1>2, <2>1, ServedKeeps
  <1>12. CASE Shutdown
    <2>1. /\ run.up /\ actor.at = "select" /\ Head(queue).ask = "shutdown"
          /\ UNCHANGED <<run, roster, disk, word, failed>>
          /\ actor' = [at |-> "save", for |-> Head(queue), contact |-> NoContact]
      BY <1>12 DEF Shutdown, Close
    <2> QED BY <2>1 DEF Keeps, ListInv, Fits, ActiveIsContact, Listed, SavingInv, WordInv, FileInv, EndInv,
                        roster, disk
  <1> QED BY <1>4, <1>5, <1>6, <1>7, <1>8, <1>9, <1>10, <1>11, <1>12 DEF Serve

(* What a save leaves: the session is the list, and what was saved is answered. *)
LEMMA SaveKeeps ==
  ASSUME TypeOK, Keeps, Written \/ WriteFails
  PROVE  Keeps'
  <1>1. /\ run.up /\ ~run.clean /\ actor.at = "save" /\ AfterSave
        /\ UNCHANGED <<run, contacts, active, known, saved>>
        /\ (session' = contacts /\ ~failed') \/ (session' = session /\ failed')
    BY DEF Written, WriteFails, Keeps, EndInv, roster, disk
  <1>2. /\ actor' = Waiting \/ actor' = [actor EXCEPT !.at = "stop"]
        /\ actor'.at \in {"select", "stop"}
    BY <1>1 DEF AfterSave, Waiting, TypeOK, Steps
  <1>3. \A k \in Contacts : /\ word'[k] = "removed" => k \notin ToSet(contacts)
                            /\ word'[k] = "kept" => k \in ToSet(contacts)
    <2>1. /\ actor.for.ask = "remove" => actor.contact \in Contacts /\ actor.contact \notin ToSet(contacts)
          /\ actor.for.ask = "accept" => actor.contact \in Contacts /\ actor.contact \in ToSet(contacts)
      BY <1>1 DEF Keeps, SavingInv, Listed
    <2>2. \A k \in Contacts : /\ word[k] = "removed" => k \notin ToSet(contacts)
                              /\ word[k] = "kept" => k \in ToSet(contacts)
      BY <1>1 DEF Keeps, WordInv, Listed
    <2>3. \/ word' = word
          \/ actor.for.ask = "remove" /\ word' = [word EXCEPT ![actor.contact] = "removed"]
          \/ actor.for.ask = "accept" /\ word' = [word EXCEPT ![actor.contact] = "kept"]
      BY <1>1 DEF AfterSave
    <2> QED BY <2>1, <2>2, <2>3 DEF TypeOK, Words
  <1>4. ListInv'
    BY <1>1 DEF Keeps, ListInv, Fits, ActiveIsContact, Listed
  <1>5. SavingInv'
    BY <1>2 DEF SavingInv
  <1>6. WordInv'
    BY <1>1, <1>3 DEF WordInv, Listed
  <1>7. FileInv'
    BY <1>1, <1>3 DEF FileInv
  <1>8. EndInv'
    BY <1>1, <1>2 DEF EndInv
  <1> QED BY <1>4, <1>5, <1>6, <1>7, <1>8 DEF Keeps

(* A tick, the end of a run and the start of the next one. *)
LEMMA RunKeeps ==
  ASSUME TypeOK, Keeps, Tick \/ LastHandleDropped \/ Stopped \/ Exit \/ Crash \/ Restart
  PROVE  Keeps'
  <1> USE DEF Keeps
  <1>1. Waiting.at = "select" /\ [Waiting EXCEPT !.at = "save"].at = "save"
        /\ [Waiting EXCEPT !.at = "save"].for.ask = "tick"
    BY DEF Waiting, Own
  <1>2. CASE Tick
    <2>1. run.up /\ actor.at = "select" /\ actor'.at = "save" /\ actor'.for.ask = "tick"
          /\ UNCHANGED <<run, roster, disk, word, failed>>
      BY <1>1, <1>2 DEF Tick
    <2> QED BY <2>1 DEF ListInv, Fits, ActiveIsContact, Listed, SavingInv, WordInv, FileInv, EndInv,
                        roster, disk
  <1>3. CASE LastHandleDropped
    <2>1. run.up /\ actor.at = "select" /\ actor'.at = "save" /\ actor'.for.ask = "gone"
          /\ UNCHANGED <<run, roster, disk, word, failed>>
      BY <1>3 DEF LastHandleDropped, Close, Own
    <2> QED BY <2>1 DEF ListInv, Fits, ActiveIsContact, Listed, SavingInv, WordInv, FileInv, EndInv,
                        roster, disk
  <1>4. CASE Stopped
    <2>1. /\ run.up /\ actor.at = "stop" /\ actor'.at = "stopped" /\ run'.up
          /\ saved' = known /\ UNCHANGED <<roster, session, word, failed>>
      BY <1>4 DEF Stopped, TypeOK, Runs, Steps
    <2> QED BY <2>1 DEF ListInv, Fits, ActiveIsContact, Listed, SavingInv, WordInv, FileInv, EndInv,
                        roster
  <1>5. CASE Exit
    <2>1. /\ run.up /\ run.clean /\ ~run'.up /\ actor' = Waiting /\ active' = NoContact
          /\ UNCHANGED <<contacts, known, disk, word, failed>>
      BY <1>5 DEF Exit, Gone, TypeOK, Runs
    <2> QED BY <1>1, <2>1 DEF ListInv, Fits, ActiveIsContact, SavingInv, WordInv, FileInv, EndInv, disk
  <1>6. CASE Crash
    <2>1. /\ run.up /\ ~run'.up /\ ~run'.clean /\ actor' = Waiting /\ active' = NoContact
          /\ contacts' = <<>> /\ UNCHANGED <<disk, word, failed>>
      BY <1>6 DEF Crash, Gone, TypeOK, Runs
    <2>2. Fits(<<>>)
      BY CoreActorAssumption DEF Fits
    <2> QED BY <1>1, <2>1, <2>2 DEF ListInv, Fits, ActiveIsContact, SavingInv, WordInv, FileInv, EndInv, disk
  <1>7. CASE Restart
    <2>1. /\ ~run.up /\ run'.up /\ ~run'.clean /\ UNCHANGED <<actor, active, disk>>
          /\ contacts' = session /\ ~failed'
          /\ word' = IF failed THEN [k \in Contacts |-> "nothing"] ELSE word
      BY <1>7 DEF Restart
    <2>2. active' = NoContact /\ actor' = Waiting
      BY <2>1 DEF ListInv, EndInv
    <2>3. \A k \in Contacts : /\ word'[k] = "removed" => k \notin ToSet(session)
                              /\ word'[k] = "kept" => k \in ToSet(session)
      BY <2>1 DEF FileInv
    <2>4. ListInv'
      BY <2>1, <2>2 DEF ListInv, Fits, ActiveIsContact, disk
    <2> QED BY <1>1, <2>1, <2>2, <2>3, <2>4 DEF SavingInv, WordInv, FileInv, EndInv, Listed, disk
  <1> QED BY <1>2, <1>3, <1>4, <1>5, <1>6, <1>7

(* The first run begins with nothing. *)
LEMMA InitInv == Init => IInv
  <1> SUFFICES ASSUME Init PROVE IInv
    OBVIOUS
  <1> USE CoreActorAssumption DEF Init
  <1>1. run \in Runs /\ inbox \in Inboxes /\ client \in Awaits /\ word \in Words
    BY DEF Runs, Inboxes, NewInbox, Awaits, Words
  <1>2. TypeOK
    <2>1. queue \in Seq(Commands) /\ Len(queue) <= QueueCapacity
      OBVIOUS
    <2>2. contacts \in Seq(Contacts) /\ session \in Seq(Contacts)
      OBVIOUS
    <2>3. bridge \in {"free", "blocked", "ended"} /\ actor \in Steps
      BY WaitingTyped
    <2>4. calls \in 0..MaxCalls
      OBVIOUS
    <2>5. active \in Contacts \cup {NoContact}
      OBVIOUS
    <2>6. requests \subseteq Friends /\ known \subseteq Friends /\ saved \subseteq Friends
      OBVIOUS
    <2>7. failed \in BOOLEAN
      OBVIOUS
    <2> QED BY <1>1, <2>1, <2>2, <2>3, <2>4, <2>5, <2>6, <2>7 DEF TypeOK
  <1>3. Fits(<<>>) /\ ToSet(<<>>) = {} /\ Waiting.at = "select"
    BY DEF Fits, ToSet, Waiting
  <1>4. Keeps
    BY <1>3 DEF Keeps, ListInv, ActiveIsContact, SavingInv, WordInv, FileInv, EndInv, Listed
  <1> QED BY <1>2, <1>4 DEF IInv

(* Every step keeps the invariant. *)
LEMMA NextInv == IInv /\ [Next]_vars => IInv'
  <1> SUFFICES ASSUME IInv, [Next]_vars PROVE IInv'
    OBVIOUS
  <1> USE DEF IInv
  <1>1. CASE UNCHANGED vars
    <2>1. TypeOK'
      BY <1>1 DEF TypeOK, vars, tasks, events, roster, disk
    <2>2. Keeps'
      BY <1>1, QuietKeeps DEF vars, roster, disk
    <2> QED BY <2>1, <2>2
  <1>2. ASSUME NEW c \in Clients,
               \/ Call(c) \/ GiveUp(c) \/ Refused(c) \/ DropHandle(c)
               \/ \E q \in Asks : Enqueue(c, q)
        PROVE  IInv'
    <2>1. /\ UNCHANGED <<run, contacts, active, known, disk, word, failed>>
          /\ \/ actor' = actor
             \/ run.up /\ actor' = [actor EXCEPT !.for = Unheard(@, c)]
      BY <1>2 DEF Call, GiveUp, Refused, DropHandle, Enqueue, roster
    <2> QED BY <1>2, <2>1, FrontEndTypes, QuietKeeps
  <1>3. CASE Serve
    BY <1>3, ServeTypes, ServeKeeps DEF Keeps, ListInv
  <1>4. CASE Written \/ WriteFails
    BY <1>4, RunTypes, SaveKeeps
  <1>5. CASE Tick \/ LastHandleDropped \/ Stopped \/ Exit \/ Crash \/ Restart
    BY <1>5, RunTypes, RunKeeps
  <1>6. CASE \/ OnAppEvent \/ HandIn \/ Callback({}) \/ BridgeEnds
             \/ \E f \in Friends : Callback({f})
    <2>1. UNCHANGED <<run, contacts, active, known, disk, word, failed, actor>>
      BY <1>6 DEF OnAppEvent, HandIn, Callback, BridgeEnds, roster
    <2> QED BY <1>6, <2>1, RunTypes, QuietKeeps
  <1> QED BY <1>1, <1>2, <1>3, <1>4, <1>5, <1>6 DEF Next

LEMMA Invariant == Spec => []IInv
  BY InitInv, NextInv, PTL DEF Spec

(* The contact list: no name twice, within the limit, and the active conversation  *)
(* on it, over crashes and every path that makes a contact (CoreService::handle). *)
THEOREM ContactListAgrees == Spec => []ContactsAgree
  <1>1. IInv => ContactsAgree
    BY DEF IInv, Keeps, ListInv, Fits, ContactsAgree, NamedOnce, WithinFriendLimit
  <1> QED BY <1>1, Invariant, PTL

(* What was answered outlives a crash: a removal and an acceptance are in the      *)
(* session file (remove_contact, accept_request).                             *)
THEOREM AnswersOutlive == Spec => []AnswersLast
  <1>1. IInv => AnswersLast
    <2> SUFFICES ASSUME IInv, ~failed PROVE /\ \A k \in ToSet(session) : word[k] # "removed"
                                            /\ \A k \in Contacts : word[k] = "kept" => k \in ToSet(session)
      BY DEF AnswersLast, RemovedStaysRemoved, AcceptedIsKept
    <2>1. ToSet(session) \subseteq Contacts
      BY DEF IInv, TypeOK, ToSet
    <2> QED BY <2>1 DEF IInv, Keeps, FileInv
  <1> QED BY <1>1, Invariant, PTL

(* A process that ends because its shutdown was answered has saved what it knew    *)
(* (CoreService::finish).                                                    *)
THEOREM EndSavesAll == Spec => []AnsweredEndIsSaved
  <1>1. IInv => AnsweredEndIsSaved
    BY DEF IInv, Keeps, EndInv, AnsweredEndIsSaved
  <1> QED BY <1>1, Invariant, PTL

(* A friend request goes when it is rejected, or its author is a contact          *)
(* (accept_request, reject_request).                                         *)
THEOREM RequestsGoAnswered == Spec => RequestsAreAnswered
  <1> DEFINE Goes == \A f \in requests \ requests' :
               \/ [of |-> f, by |-> "key"] \in ToSet(contacts')
               \/ Head(queue).ask = "reject" /\ Head(queue).friend = f
  <1>1. IInv /\ [Next]_vars => [Goes]_vars
    <2> SUFFICES ASSUME IInv, Next PROVE Goes
      OBVIOUS
    <2>1. CASE RejectRequest
      BY <2>1 DEF RejectRequest, Serves
    <2>2. CASE AcceptRequest
      <3> DEFINE k == [of |-> Head(queue).friend, by |-> "key"]
      <3>1. k \in Contacts
        BY <2>2, ServedInRun DEF IInv, AcceptRequest, AboutOne, Contacts
      <3>2. contacts \in Seq(Contacts)
        BY DEF IInv, TypeOK
      <3>3. k \in ToSet(Append(contacts, k))
        BY <3>1, <3>2, Appended
      <3>4. CASE UNCHANGED requests
        BY <3>4
      <3>5. CASE requests' = requests \ {Head(queue).friend} /\ k \in ToSet(contacts')
        BY <3>5
      <3> QED BY <2>2, <3>3, <3>4, <3>5 DEF AcceptRequest, Listed, roster
    <2>3. CASE ~RejectRequest /\ ~AcceptRequest
      <3>1. requests \subseteq requests'
        BY <2>3 DEF Next, Call, GiveUp, Refused, DropHandle, Enqueue, Serve, AddContact, Connect,
                    NotFound, SaveSession, RemoveContact, Select, Shutdown, Tick, Written,
                    WriteFails, OnAppEvent, Callback, HandIn, LastHandleDropped, BridgeEnds,
                    Stopped, Exit, Crash, Restart, roster
      <3> QED BY <3>1
    <2> QED BY <2>1, <2>2, <2>3
  <1> QED BY <1>1, Invariant, PTL DEF Spec, RequestsAreAnswered
=============================================================================

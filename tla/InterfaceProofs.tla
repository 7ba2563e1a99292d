-------------------------- MODULE InterfaceProofs ---------------------------
(***************************************************************************)
(* The session of the interactive front-end (modules FrontEnd and            *)
(* Conversation), and the terminal it draws on (modules Terminal and           *)
(* InputLine):                                                              *)
(*                                                                         *)
(*   NothingIsShownEarly    what the user reads has happened before          *)
(*   PanelShowsTheSession   once nothing is under way the panel tells what     *)
(*                          the core and the transport hold                  *)
(*   TerminalIsGivenBack    the terminal is left as it was found              *)
(*   DraftIsNotLost         a walk through the history gives the draft back    *)
(*   PaneKeepsItsPlace      the pane keeps its top row, and is full; the caret  *)
(*                          is in its row                                      *)
(*                                                                         *)
(* The panel is a cache of three parties' state.  Its invariant says, of every   *)
(* field, what is under way that will tell its new value: a refresh that is      *)
(* asked for, a reply, an event in one of the two queues; or that the channel    *)
(* dropped an event (PanelInv).  It rests on the pipe of one request at a time    *)
(* (PipeInv) and on the newest event of a name or a status being the true one   *)
(* (NewestInv).                                                             *)
(*                                                                         *)
(* The pane remembers an offset, and the row it was moved to is the one that the  *)
(* offset stands for in the last frame (HeldInv).  It stays so because a frame    *)
(* begins with the rows of the one before it (GrownInv, ArrivalsAre): the rows of  *)
(* two logs in a row are those of one and then of the other (RowsSplit).  What     *)
(* FlattenSeq computes is known by its least counterexample (JoinsExist), since    *)
(* induction cannot be cited.                                                *)
(***************************************************************************)
EXTENDS FrontEnd, Terminal, FiniteSetTheorems, SequenceTheorems, WellFoundedInduction, TLAPS

(* A channel is a sequence, whatever it carries. *)
IsChannel(q) == q \in Seq({q[i] : i \in DOMAIN q})
Tells(q, ops) == \E i \in DOMAIN q : q[i].op \in ops

-----------------------------------------------------------------------------
(* Channels                                                                    *)

LEMMA ChannelOf ==
  ASSUME NEW q, IsChannel(q)
  PROVE  Len(q) \in Nat /\ DOMAIN q = 1..Len(q)
  BY LenProperties DEF IsChannel

LEMMA ChannelFrom ==
  ASSUME NEW n \in Nat, NEW q, q = [i \in 1..n |-> q[i]]
  PROVE  IsChannel(q) /\ Len(q) = n /\ DOMAIN q = 1..n
  <1>1. DOMAIN q = 1..n /\ \A i \in 1..n : q[i] \in {q[j] : j \in DOMAIN q}
    OBVIOUS
  <1>2. q \in [1..n -> {q[j] : j \in DOMAIN q}]
    BY <1>1
  <1>3. q \in Seq({q[j] : j \in DOMAIN q})
    BY <1>2, SeqDef
  <1> QED BY <1>1, <1>3, LenProperties DEF IsChannel

LEMMA ChannelEmpty == IsChannel(<<>>) /\ Len(<<>>) = 0 /\ DOMAIN <<>> = {}
  <1>1. <<>> \in Seq({<<>>[i] : i \in DOMAIN <<>>}) /\ Len(<<>>) = 0
    BY EmptySeq
  <1> QED BY <1>1, ChannelOf DEF IsChannel

LEMMA ChannelMore ==
  ASSUME NEW q, IsChannel(q), NEW e
  PROVE  /\ IsChannel(Append(q, e)) /\ Len(Append(q, e)) = Len(q) + 1
         /\ DOMAIN Append(q, e) = 1..Len(q) + 1
         /\ \A i \in 1..Len(q) : Append(q, e)[i] = q[i]
         /\ Append(q, e)[Len(q) + 1] = e
  <1> DEFINE S == {q[i] : i \in DOMAIN q} \cup {e}
  <1>1. q \in Seq(S) /\ e \in S
    <2>1. q \in Seq({q[i] : i \in DOMAIN q}) /\ \A i \in 1..Len(q) : q[i] \in S
      BY ChannelOf DEF IsChannel
    <2> HIDE DEF S
    <2> QED BY <2>1, LenProperties, SeqDef DEF S
  <1> HIDE DEF S
  <1>2. /\ Append(q, e) \in Seq(S) /\ Len(Append(q, e)) = Len(q) + 1
        /\ \A i \in 1..Len(q) : Append(q, e)[i] = q[i]
        /\ Append(q, e)[Len(q) + 1] = e
    BY <1>1, AppendProperties
  <1>3. Append(q, e) = [i \in 1..Len(q) + 1 |-> Append(q, e)[i]]
    BY <1>1, <1>2, LenProperties
  <1>4. Len(q) + 1 \in Nat
    BY ChannelOf
  <1> HIDE <1>1
  <1> DEFINE more == Append(q, e)
  <1>5. more = [i \in 1..Len(q) + 1 |-> more[i]]
    BY <1>3
  <1> HIDE DEF more
  <1>6. IsChannel(more) /\ DOMAIN more = 1..Len(q) + 1
    BY <1>4, <1>5, ChannelFrom
  <1> QED BY <1>2, <1>6 DEF more

LEMMA ChannelLess ==
  ASSUME NEW q, IsChannel(q), q # <<>>
  PROVE  /\ Len(q) >= 1 /\ Head(q) = q[1]
         /\ IsChannel(Tail(q)) /\ Len(Tail(q)) = Len(q) - 1
         /\ DOMAIN Tail(q) = 1..Len(q) - 1
         /\ \A i \in 1..Len(q) - 1 : Tail(q)[i] = q[i + 1]
  <1> DEFINE S == {q[i] : i \in DOMAIN q}
  <1>1. q \in Seq(S)
    BY DEF IsChannel
  <1> HIDE DEF S
  <1>2. Tail(q) \in Seq(S) /\ Len(Tail(q)) = Len(q) - 1 /\ Len(q) \in Nat \ {0}
    BY <1>1, HeadTailProperties, LenProperties, EmptySeq
  <1>3. \A i \in 1..Len(q) - 1 : Tail(q)[i] = q[i + 1]
    BY <1>1, <1>2, HeadTailProperties
  <1>4. Head(q) = q[1]
    BY <1>1, <1>2, HeadTailProperties
  <1> DEFINE less == Tail(q)
  <1>5. less = [i \in 1..Len(q) - 1 |-> less[i]] /\ Len(q) - 1 \in Nat
    BY <1>2, LenProperties
  <1> HIDE DEF less
  <1>6. IsChannel(less) /\ DOMAIN less = 1..Len(q) - 1
    BY <1>5, ChannelFrom
  <1> QED BY <1>2, <1>3, <1>4, <1>6 DEF less

(* What is said on a channel that takes one more, or gives up its first. *)
LEMMA TellsMore ==
  ASSUME NEW q, IsChannel(q), NEW e, NEW ops
  PROVE  Tells(Append(q, e), ops) <=> Tells(q, ops) \/ e.op \in ops
  <1>1. /\ Len(q) \in Nat /\ DOMAIN q = 1..Len(q) /\ DOMAIN Append(q, e) = 1..Len(q) + 1
        /\ \A i \in 1..Len(q) : Append(q, e)[i] = q[i]
        /\ Append(q, e)[Len(q) + 1] = e
    BY ChannelOf, ChannelMore
  <1> QED BY <1>1 DEF Tells

LEMMA TellsLess ==
  ASSUME NEW q, IsChannel(q), q # <<>>, NEW ops
  PROVE  /\ Tells(q, ops) => Tells(Tail(q), ops) \/ q[1].op \in ops
         /\ Tells(Tail(q), ops) => Tells(q, ops)
  <1>1. /\ Len(q) \in Nat /\ Len(q) >= 1 /\ DOMAIN q = 1..Len(q) /\ DOMAIN Tail(q) = 1..Len(q) - 1
        /\ \A i \in 1..Len(q) - 1 : Tail(q)[i] = q[i + 1]
    BY ChannelOf, ChannelLess
  <1>2. ASSUME NEW i \in 1..Len(q), q[i].op \in ops
        PROVE  Tells(Tail(q), ops) \/ q[1].op \in ops
    <2>1. CASE i = 1
      BY <1>2, <2>1
    <2>2. CASE i # 1
      <3>1. i - 1 \in 1..Len(q) - 1 /\ i - 1 + 1 = i
        BY <1>1, <2>2
      <3> QED BY <1>1, <1>2, <3>1 DEF Tells
    <2> QED BY <2>1, <2>2
  <1>3. ASSUME NEW i \in 1..Len(q) - 1, Tail(q)[i].op \in ops
        PROVE  Tells(q, ops)
    <2>1. i + 1 \in 1..Len(q)
      BY <1>1
    <2> QED BY <1>1, <1>3, <2>1 DEF Tells
  <1> QED BY <1>1, <1>2, <1>3 DEF Tells

-----------------------------------------------------------------------------
(* The session: what holds in every state                                       *)

Slot(q) == q = <<>> \/ q = <<q[1]>>

(* The fields of the core, of the transport and of the panel; what is counted. *)
CoreForm ==
  core = [up |-> core.up, nick |-> core.nick, status |-> core.status,
          contacts |-> core.contacts, active |-> core.active, groups |-> core.groups,
          group |-> core.group]
ToxForm ==
  tox = [supported |-> tox.supported, live |-> tox.live, invites |-> tox.invites,
         requests |-> tox.requests]
PanelForm ==
  panel = [nick |-> panel.nick, status |-> panel.status, active |-> panel.active,
           peers |-> panel.peers, contacts |-> panel.contacts,
           supported |-> panel.supported, groups |-> panel.groups,
           invites |-> panel.invites, requests |-> panel.requests]
FormInv ==
  /\ CoreForm /\ ToxForm /\ PanelForm
  /\ core.up \in BOOLEAN /\ tox.supported \in BOOLEAN
  /\ filed \in BOOLEAN /\ lagged \in BOOLEAN /\ missed \in BOOLEAN
  /\ IsChannel(inbox) /\ IsChannel(events) /\ Slot(reply)
  /\ lines \in Nat

(* Where a command stands: the requests that are asked alone, those a refresh  *)
(* follows, and the answers to a friend request, which wait for the list.      *)
Alone == Reports \cup Lists \cup Settings \cup {"requests", "say", "contacts", "shutdown"}
Changing == {"add", "remove", "select", "send"} \cup (GroupRequests \ {"say"}) \cup Answers
Answering == {<<[op |-> o, at |-> n], Refresh[1], Refresh[2]>> : o \in Answers, n \in 1..2}

AskedInv ==
  /\ Slot(asked) /\ doing \in {<<>>, Tail(Refresh), Refresh} \cup Answering
  /\ asked = <<>> /\ reply = <<>> => doing = <<>>
  /\ asked # <<>> =>
       \/ asked[1].op \in Alone /\ doing = <<>>
       \/ asked[1].op = "session" /\ doing = Tail(Refresh)
       \/ asked[1].op \in Changing /\ doing = Refresh
       \/ asked[1].op = "requests" /\ doing \in Answering
  /\ asked # <<>> /\ asked[1].op = "send" => asked[1].id # 0
RepliedInv ==
  reply # <<>> =>
    /\ asked = <<>>
    /\ reply[1].op = "session" => doing = Tail(Refresh)
    /\ reply[1].op = "contacts" => doing = <<>>
    /\ reply[1].op = "requests" => doing = <<>> \/ doing \in Answering
    /\ reply[1].op = "select" => doing = Refresh
    /\ reply[1].op \in {"nick", "status"} => doing = <<>>
    /\ core.up /\ doing = Tail(Refresh) => reply[1].op = "session"
    /\ core.up /\ doing \in Answering => reply[1].op = "requests"
PipeInv == AskedInv /\ RepliedInv

(* What the panel shows once the reply under way is taken.                    *)
Carries(op) == reply # <<>> /\ reply[1].op = op
View(op) == IF Carries(op) THEN reply[1] ELSE panel

(* A snapshot, or the contacts, will be asked for.                            *)
AwaitsSession == doing = Refresh \/ (asked # <<>> /\ asked[1].op = "session")
AwaitsContacts ==
  doing \in {Tail(Refresh), Refresh} \/ (asked # <<>> /\ asked[1].op = "contacts")

(* What changes in the transport is followed by an event that asks for a        *)
(* snapshot; what a command changes, by a snapshot of its own; a name and a     *)
(* status come with a reply and an event, of which the newest is the last.     *)
Notices == {"peer", "request", "invite"}
TransportShown == LET view == View("session") IN
  \/ missed \/ Tells(inbox, Notices) \/ Tells(events, Notices)
  \/ view.peers = peers /\ view.invites = tox.invites /\ view.requests = tox.requests
NickShown ==
  missed \/ Tells(events, {"nick"}) \/ Carries("nick") \/ View("session").nick = core.nick
StatusShown ==
  missed \/ Tells(events, {"status"}) \/ Carries("status") \/ View("session").status = core.status
SessionShown == LET view == View("session") IN
  /\ view.active = core.active /\ view.supported = tox.supported
  /\ view.groups \subseteq core.groups
Settled == SessionShown /\ TransportShown /\ NickShown /\ StatusShown
ContactsInv == core.up => AwaitsContacts \/ View("contacts").contacts = core.contacts
SessionInv == core.up => AwaitsSession \/ Settled
PanelInv == ContactsInv /\ SessionInv
Newest(i, op) == /\ events[i].op = op
                 /\ \A j \in DOMAIN events : j > i => events[j].op # op
NewestEvents ==
  /\ \A i \in DOMAIN events : Newest(i, "nick") => events[i].nick = core.nick
  /\ \A i \in DOMAIN events : Newest(i, "status") => events[i].status = core.status
NewestReply ==
  /\ Carries("nick") => reply[1].nick = core.nick
  /\ Carries("status") => reply[1].status = core.status
NewestInv == NewestEvents /\ NewestReply

(* A message the transport accepted was reported, or its report is under way.  *)
Reported == sent \cup (IF Carries("sent") THEN {reply[1].id} \ {0} ELSE {})
Deliveries(q) == {q[i].id : i \in {j \in DOMAIN q : q[j].op = "delivered"}}
ReceiptInv ==
  /\ accepted \cup Deliveries(inbox) \cup Deliveries(events) \subseteq Reported
  /\ receipts \subseteq sent

(* A message that was published is filed, and so is the head of the inbox once  *)
(* the database answered.                                                    *)
FiledInv ==
  /\ filed => inbox # <<>> /\ Readable(inbox[1]) /\ inbox[1].id \in rows \cup unsaved
  /\ \A i \in DOMAIN events : IsMessage(events[i]) => events[i].id \in rows \cup unsaved
  /\ read \subseteq rows \cup unsaved

PanelIInv == FormInv /\ PipeInv /\ PanelInv /\ NewestInv /\ ReceiptInv /\ FiledInv /\ Conforms

-----------------------------------------------------------------------------
(* What is published                                                           *)

(* The channel takes the event, and drops its oldest when it is full. *)
Kept(e) ==
  LET more == Append(events, e) IN
  \/ events' = more /\ missed' = missed
  \/ events' = Tail(more) /\ missed' = TRUE

LEMMA PublishMeans ==
  ASSUME FormInv, NEW e, Publish(e)
  PROVE  Kept(e) /\ IsChannel(events') /\ missed' \in BOOLEAN /\ lagged' \in BOOLEAN
  <1>1. IsChannel(events) /\ missed \in BOOLEAN /\ lagged \in BOOLEAN
    BY DEF FormInv
  <1>2. IsChannel(Append(events, e)) /\ Len(Append(events, e)) = Len(events) + 1 /\ Len(events) \in Nat
    BY <1>1, ChannelMore, ChannelOf
  <1>3. Append(events, e) # <<>>
    BY <1>2, ChannelEmpty
  <1>4. IsChannel(Tail(Append(events, e)))
    BY <1>2, <1>3, ChannelLess
  <1> QED BY <1>1, <1>2, <1>4, ConversationAssumption DEF Publish, Kept

(* A kind of event that was there is there, or was dropped; none comes but the *)
(* one that is published.                                                    *)
LEMMA KeptTells ==
  ASSUME FormInv, NEW e, Kept(e), NEW ops
  PROVE  /\ Tells(events, ops) \/ e.op \in ops => missed' \/ Tells(events', ops)
         /\ Tells(events', ops) => Tells(events, ops) \/ e.op \in ops
  <1>1. IsChannel(events)
    BY DEF FormInv
  <1>2. IsChannel(Append(events, e)) /\ Append(events, e) # <<>>
    <2>1. Len(Append(events, e)) = Len(events) + 1 /\ Len(events) \in Nat
      BY <1>1, ChannelMore, ChannelOf
    <2> QED BY <1>1, <2>1, ChannelMore, ChannelEmpty
  <1>3. Tells(Append(events, e), ops) <=> Tells(events, ops) \/ e.op \in ops
    BY <1>1, TellsMore
  <1>4. Tells(Tail(Append(events, e)), ops) => Tells(Append(events, e), ops)
    BY <1>2, TellsLess
  <1> QED BY <1>3, <1>4 DEF Kept

(* Each event of the channel was in it, or is the one that is published. *)
LEMMA KeptAre ==
  ASSUME FormInv, NEW e, Kept(e)
  PROVE  \A i \in DOMAIN events' : events'[i] = e \/ \E j \in DOMAIN events : events'[i] = events[j]
  <1> DEFINE more == Append(events, e)
  <1>1. IsChannel(events) /\ Len(events) \in Nat /\ DOMAIN events = 1..Len(events)
    BY ChannelOf DEF FormInv
  <1>2. /\ IsChannel(more) /\ Len(more) = Len(events) + 1 /\ DOMAIN more = 1..Len(events) + 1
        /\ \A i \in 1..Len(events) : more[i] = events[i]
        /\ more[Len(events) + 1] = e
    BY <1>1, ChannelMore
  <1>3. \A i \in 1..Len(events) + 1 : more[i] = e \/ \E j \in DOMAIN events : more[i] = events[j]
    BY <1>1, <1>2
  <1>4. more # <<>>
    BY <1>1, <1>2, ChannelEmpty
  <1>5. DOMAIN Tail(more) = 1..Len(events) /\ \A i \in 1..Len(events) : Tail(more)[i] = more[i + 1]
    BY <1>1, <1>2, <1>4, ChannelLess
  <1> HIDE DEF more
  <1>6. CASE events' = more
    BY <1>2, <1>3, <1>6
  <1>7. CASE events' = Tail(more)
    <2> SUFFICES ASSUME NEW i \in 1..Len(events)
                 PROVE  Tail(more)[i] = e \/ \E j \in DOMAIN events : Tail(more)[i] = events[j]
      BY <1>5, <1>7
    <2>1. i + 1 \in 1..Len(events) + 1 /\ Tail(more)[i] = more[i + 1]
      BY <1>1, <1>5
    <2> QED BY <1>3, <2>1
  <1> QED BY <1>6, <1>7 DEF Kept, more

(* The newest event of a kind is still the newest of it, or the one published is. *)
LEMMA KeptNewest ==
  ASSUME FormInv, NEW e, Kept(e), NEW op
  PROVE  \A i \in DOMAIN events' : Newest(i, op)' =>
           \/ events'[i] = e
           \/ e.op # op /\ \E j \in DOMAIN events : Newest(j, op) /\ events'[i] = events[j]
  <1> DEFINE more == Append(events, e)
             n == Len(events)
  <1>1. IsChannel(events) /\ n \in Nat /\ DOMAIN events = 1..n
    BY ChannelOf DEF FormInv
  <1>2. /\ IsChannel(more) /\ Len(more) = n + 1 /\ DOMAIN more = 1..n + 1
        /\ \A i \in 1..n : more[i] = events[i]
        /\ more[n + 1] = e
    BY <1>1, ChannelMore
  <1>4. more # <<>>
    BY <1>1, <1>2, ChannelEmpty
  <1>5. DOMAIN Tail(more) = 1..n /\ \A i \in 1..n : Tail(more)[i] = more[i + 1]
    BY <1>1, <1>2, <1>4, ChannelLess
  <1>6. PICK d \in {0, 1} : /\ DOMAIN events' = 1..n + 1 - d
                            /\ \A i \in 1..n + 1 - d : events'[i] = more[i + d]
    <2> HIDE DEF more, n
    <2>1. CASE events' = more
      <3>1. \A i \in 1..n + 1 - 0 : events'[i] = more[i + 0]
        BY <1>1, <2>1
      <3> QED BY <1>1, <1>2, <2>1, <3>1
    <2>2. CASE events' = Tail(more)
      <3>1. n + 1 - 1 = n
        BY <1>1
      <3>2. \A i \in 1..n + 1 - 1 : events'[i] = more[i + 1]
        BY <1>5, <2>2, <3>1
      <3> QED BY <1>5, <2>2, <3>1, <3>2
    <2> QED BY <2>1, <2>2 DEF Kept, more
  <1> HIDE DEF more
  <1> SUFFICES ASSUME NEW i \in 1..n + 1 - d, Newest(i, op)', events'[i] # e
               PROVE  e.op # op /\ \E j \in DOMAIN events : Newest(j, op) /\ events'[i] = events[j]
    BY <1>6
  <1>7. /\ events'[i].op = op
        /\ \A j \in 1..n + 1 - d : j > i => events'[j].op # op
    BY <1>6 DEF Newest
  <1>8. i + d \in 1..n /\ events'[i] = events[i + d]
    <2>1. i + d \in 1..n + 1 /\ events'[i] = more[i + d]
      BY <1>1, <1>6
    <2>2. i + d # n + 1
      BY <1>2, <2>1
    <2> QED BY <1>1, <1>2, <2>1, <2>2
  <1>9. e.op # op
    <2>1. n + 1 - d \in 1..n + 1 - d /\ n + 1 - d > i /\ n + 1 - d + d = n + 1
      BY <1>1, <1>8
    <2>2. events'[n + 1 - d] = e
      BY <1>2, <1>6, <2>1
    <2> QED BY <1>7, <2>1, <2>2
  <1>10. ASSUME NEW j \in 1..n, j > i + d PROVE events[j].op # op
    <2>1. j - d \in 1..n + 1 - d /\ j - d > i /\ j - d + d = j /\ j \in 1..n
      BY <1>1, <1>8, <1>10
    <2>2. events'[j - d] = events[j]
      BY <1>2, <1>6, <2>1
    <2> QED BY <1>7, <2>1, <2>2
  <1> QED BY <1>1, <1>7, <1>8, <1>9, <1>10 DEF Newest

-----------------------------------------------------------------------------
(* What each step does                                                         *)

(* The transport hands over one event, and what it changes comes with a notice. *)
HandsOver(e) ==
  /\ core.up /\ inbox' = Append(inbox, e) /\ e.op \in AppEvent
  /\ UNCHANGED <<core, store, stream, call>>
  /\ e.op \in Notices \/ UNCHANGED <<peers, tox>>
  /\ ToxForm' /\ tox'.supported = tox.supported
  /\ accepted' \subseteq accepted
  /\ e.op = "delivered" => e.id \in accepted

LEMMA TransportMeans ==
  ASSUME FormInv, Transport
  PROVE  \E e : HandsOver(e)
  <1> USE DEF HandsOver, Hand, Notices, AppEvent, ToxForm, FormInv, session
  <1>1. ASSUME NEW p, PeerConnects(p) \/ PeerLeaves(p) PROVE \E e : HandsOver(e)
    <2>1. HandsOver([op |-> "peer"])
      BY <1>1 DEF PeerConnects, PeerLeaves
    <2> QED BY <2>1
  <1>2. CASE Arrives
    <2>1. PICK e \in [op : {"message"}, id : {arrived + 1}, readable : BOOLEAN]
                       \cup {[op |-> "shutdown"]} : Hand(e)
      BY <1>2 DEF Arrives
    <2>2. e.op \in {"message", "shutdown"}
      OBVIOUS
    <2>3. HandsOver(e)
      BY <1>2, <2>1, <2>2 DEF Arrives
    <2> QED BY <2>3
  <1>3. ASSUME NEW g, GroupEvent(g) PROVE \E e : HandsOver(e)
    <2>1. CASE \E readable \in BOOLEAN :
                 Hand([op |-> "group", id |-> arrived + 1, readable |-> readable, group |-> g])
      <3>1. PICK readable \in BOOLEAN :
              Hand([op |-> "group", id |-> arrived + 1, readable |-> readable, group |-> g])
        BY <2>1
      <3>2. HandsOver([op |-> "group", id |-> arrived + 1, readable |-> readable, group |-> g])
        BY <1>3, <3>1 DEF GroupEvent
      <3> QED BY <3>2
    <2>2. CASE Hand([op |-> "changed", group |-> g])
      <3>1. HandsOver([op |-> "changed", group |-> g])
        BY <1>3, <2>2 DEF GroupEvent
      <3> QED BY <3>1
    <2> QED BY <1>3, <2>1, <2>2 DEF GroupEvent
  <1>4. ASSUME NEW g, Invited(g) PROVE \E e : HandsOver(e)
    <2>1. HandsOver([op |-> "invite"])
      BY <1>4 DEF Invited
    <2> QED BY <2>1
  <1>5. ASSUME NEW f, Requested(f) PROVE \E e : HandsOver(e)
    <2>1. HandsOver([op |-> "request"])
      BY <1>5 DEF Requested
    <2> QED BY <2>1
  <1>6. ASSUME NEW id, Delivered(id) PROVE \E e : HandsOver(e)
    <2>1. HandsOver([op |-> "delivered", id |-> id])
      BY <1>6 DEF Delivered
    <2> QED BY <2>1
  <1> QED BY <1>1, <1>2, <1>3, <1>4, <1>5, <1>6 DEF Transport

(* The requests that publish nothing.                                          *)
Modest == ListContacts \/ AddContact \/ RemoveContact \/ SelectConversation \/ SendMessage
          \/ Aside \/ ServeTox

(* Such a request is answered; only one that is followed by a refresh changes   *)
(* more than the groups that are known of.                                    *)
Serves(answer) ==
  /\ core.up /\ ~filed /\ asked # <<>> /\ asked' = <<>> /\ reply' = <<answer>>
  /\ UNCHANGED <<peers, inbox, store, stream>>
  /\ CoreForm' /\ core'.up = core.up /\ core'.nick = core.nick /\ core'.status = core.status
  /\ ToxForm' /\ tox'.supported = tox.supported
  /\ \/ asked[1].op \in Changing
     \/ /\ asked[1].op \in Alone /\ UNCHANGED tox
        /\ core'.contacts = core.contacts /\ core'.active = core.active
        /\ core.groups \subseteq core'.groups
  /\ answer.op \in {"contacts", "select", "sent", "requests", "said", "done", "failed"}
  /\ answer.op = "contacts" => asked[1].op = "contacts" /\ answer.contacts = core.contacts
  /\ asked[1].op = "contacts" => answer.op = "contacts"
  /\ answer.op = "select" => asked[1].op = "select"
  /\ answer.op = "requests" <=> asked[1].op = "requests"
  /\ \/ UNCHANGED accepted
     \/ /\ asked[1].op = "send" /\ answer = [op |-> "sent", id |-> asked[1].id]
        /\ accepted' = accepted \cup {asked[1].id}

LEMMA ModestMeans ==
  ASSUME FormInv, Modest
  PROVE  \E answer : Serves(answer)
  <1> USE DEF Serves, Serving, Answer, Done, Failed, CoreForm, ToxForm, FormInv, Changing, Alone,
              Reports, Lists, Settings, Answers, GroupRequests, session
  <1>1. CASE ListContacts
    <2>1. Serves([op |-> "contacts", contacts |-> core.contacts])
      BY <1>1 DEF ListContacts
    <2> QED BY <2>1
  <1>2. CASE AddContact
    <2>1. Serves(Failed) \/ Serves(Done)
      BY <1>2 DEF AddContact
    <2> QED BY <2>1
  <1>3. CASE RemoveContact
    <2>1. Serves(Failed) \/ Serves(Done)
      BY <1>3 DEF RemoveContact
    <2> QED BY <2>1
  <1>4. CASE SelectConversation
    <2>1. Serves(Failed) \/ Serves([op |-> "select", active |-> core.active])
          \/ Serves([op |-> "select", active |-> asked[1].to])
      BY <1>4 DEF SelectConversation
    <2> QED BY <2>1
  <1>5. CASE SendMessage
    <2>1. Serves(Failed) \/ Serves([op |-> "sent", id |-> 0])
          \/ Serves([op |-> "sent", id |-> asked[1].id])
      BY <1>5 DEF SendMessage
    <2> QED BY <2>1
  <1>6. CASE Aside
    <2>1. Serves(Failed) \/ Serves(Done)
      BY <1>6 DEF Aside
    <2> QED BY <2>1
  <1>7. CASE Refused
    <2>1. Serves(Failed)
      BY <1>7 DEF Refused
    <2> QED BY <2>1
  <1>8. CASE AcceptRequest
    <2>1. Serves(Done)
      BY <1>8 DEF AcceptRequest, Spent
    <2> QED BY <2>1
  <1>9. CASE RejectRequest
    <2>1. Serves(Done)
      BY <1>9 DEF RejectRequest, Spent
    <2> QED BY <2>1
  <1>10. CASE Pending
    <2>1. Serves([op |-> "requests", requests |-> tox.requests]) \/ Serves(Done)
      BY <1>10 DEF Pending
    <2> QED BY <2>1
  <1>11. CASE ListGroups
    <2>1. PICK groups \in RefreshedGroups : core' = [core EXCEPT !.groups = groups]
      BY <1>11 DEF ListGroups
    <2>2. core.groups \subseteq groups
      BY <2>1 DEF RefreshedGroups
    <2>3. Serves(Done)
      BY <1>11, <2>1, <2>2 DEF ListGroups
    <2> QED BY <2>3
  <1>12. CASE CreateGroup \/ JoinGroup
    <2>1. Serves(Done)
      BY <1>12 DEF CreateGroup, JoinGroup, Enters
    <2> QED BY <2>1
  <1>13. CASE DeclineInvite
    <2>1. Serves(Done)
      BY <1>13 DEF DeclineInvite
    <2> QED BY <2>1
  <1>14. CASE TellGroup
    <2>1. Serves(Done)
      BY <1>14 DEF TellGroup
    <2> QED BY <2>1
  <1>15. CASE SayToGroup
    <2>1. PICK g : Answer([op |-> "said", group |-> g])
      BY <1>15 DEF SayToGroup
    <2>2. Serves([op |-> "said", group |-> g])
      BY <1>15, <2>1 DEF SayToGroup
    <2> QED BY <2>2
  <1>16. CASE LeaveGroup
    <2>1. Serves(Done)
      BY <1>16 DEF LeaveGroup
    <2> QED BY <2>1
  <1> QED BY <1>1, <1>2, <1>3, <1>4, <1>5, <1>6, <1>7, <1>8, <1>9, <1>10, <1>11, <1>12, <1>13,
             <1>14, <1>15, <1>16 DEF Modest, ServeTox

-----------------------------------------------------------------------------
(* What is asked                                                               *)

LEMMA Refreshes ==
  /\ Refresh = <<[op |-> "session"], [op |-> "contacts"]>>
  /\ Tail(Refresh) = <<[op |-> "contacts"]>> /\ Head(Refresh) = [op |-> "session"]
  /\ Refresh # <<>> /\ Tail(Refresh) # <<>> /\ Refresh # Tail(Refresh)
  /\ Tail(Tail(Refresh)) = <<>>
  /\ \A q \in Answering : q # <<>> /\ q # Refresh /\ q # Tail(Refresh)
  BY DEF Refresh, Answering

LEMMA BeforeRefresh ==
  ASSUME NEW r, NEW t
  PROVE  /\ <<r>> \o Refresh = <<r, [op |-> "session"], [op |-> "contacts"]>>
         /\ <<r, t>> \o Refresh = <<r, t, [op |-> "session"], [op |-> "contacts"]>>
  <1> DEFINE a == [op |-> "session"]
             b == [op |-> "contacts"]
             S == {r, t, a, b}
  <1>1. Refresh = <<a, b>>
    BY DEF Refresh
  <1> HIDE DEF a, b
  <1>2. <<r>> \in Seq(S) /\ <<r, t>> \in Seq(S) /\ <<a, b>> \in Seq(S)
        /\ <<r, a, b>> \in Seq(S) /\ <<r, t, a, b>> \in Seq(S)
    OBVIOUS
  <1> HIDE DEF S
  <1>3. <<r>> \o <<a, b>> = <<r, a, b>>
    <2> DEFINE q == <<r>> \o <<a, b>>
    <2>1. q \in Seq(S) /\ Len(q) = 3 /\ q[1] = r /\ q[2] = a /\ q[3] = b
      BY <1>2, ConcatProperties
    <2> HIDE DEF q
    <2>2. \A i \in 1..Len(q) : q[i] = <<r, a, b>>[i]
      BY <2>1
    <2> QED BY <1>2, <2>1, <2>2, SeqEqual DEF q
  <1>4. <<r, t>> \o <<a, b>> = <<r, t, a, b>>
    <2> DEFINE q == <<r, t>> \o <<a, b>>
    <2>1. q \in Seq(S) /\ Len(q) = 4 /\ q[1] = r /\ q[2] = t /\ q[3] = a /\ q[4] = b
      BY <1>2, ConcatProperties
    <2> HIDE DEF q
    <2>2. \A i \in 1..Len(q) : q[i] = <<r, t, a, b>>[i]
      BY <2>1
    <2> QED BY <1>2, <2>1, <2>2, SeqEqual DEF q
  <1> QED BY <1>1, <1>3, <1>4 DEF a, b

LEMMA AskNothing == ASSUME Ask(<<>>) PROVE asked' = <<>> /\ doing' = <<>>
  BY DEF Ask

LEMMA AskOne == ASSUME NEW r, Ask(<<r>>) PROVE asked' = <<r>> /\ doing' = <<>>
  <1>1. <<r>> # <<>> /\ Head(<<r>>) = r /\ Tail(<<r>>) = <<>>
    OBVIOUS
  <1> QED BY <1>1 DEF Ask

LEMMA AskRefresh ==
  ASSUME Ask(Refresh) PROVE asked' = <<[op |-> "session"]>> /\ doing' = Tail(Refresh)
  BY Refreshes DEF Ask

LEMMA AskAndRefresh ==
  ASSUME NEW r, Ask(<<r>> \o Refresh) PROVE asked' = <<r>> /\ doing' = Refresh
  <1> DEFINE q == <<r, [op |-> "session"], [op |-> "contacts"]>>
  <1>1. <<r>> \o Refresh = q
    BY BeforeRefresh
  <1>2. Head(q) = r /\ Tail(q) = Refresh /\ q # <<>>
    BY DEF Refresh
  <1> HIDE DEF q
  <1> QED BY <1>1, <1>2 DEF Ask

LEMMA AskAndAnswer ==
  ASSUME NEW o \in Answers, NEW n \in 1..2,
         Ask(<<[op |-> "requests"], [op |-> o, at |-> n]>> \o Refresh)
  PROVE  asked' = <<[op |-> "requests"]>> /\ doing' \in Answering
  <1> DEFINE q == <<[op |-> "requests"], [op |-> o, at |-> n], [op |-> "session"], [op |-> "contacts"]>>
  <1>1. <<[op |-> "requests"], [op |-> o, at |-> n]>> \o Refresh = q
    BY BeforeRefresh
  <1>2. /\ Head(q) = [op |-> "requests"] /\ q # <<>>
        /\ Tail(q) = <<[op |-> o, at |-> n], [op |-> "session"], [op |-> "contacts"]>>
    OBVIOUS
  <1>3. Tail(q) \in Answering
    BY <1>2 DEF Answering, Refresh
  <1> HIDE DEF q
  <1> QED BY <1>1, <1>2, <1>3 DEF Ask

(* handle_command: a line is asked as it should be. *)
LEMMA LineMeans ==
  ASSUME NEW command \in Commands, NEW to \in Arguments(command), Ask(Requests(command, to)),
         lines \in Nat, reply' = <<>>
  PROVE  AskedInv'
  <1> USE DEF AskedInv, Slot
  <1>1. ASSUME NEW r, r.op \in Alone \ {"send"}, asked' = <<r>>, doing' = <<>> PROVE AskedInv'
    BY <1>1
  <1>2. ASSUME NEW r, r.op \in Changing, r.op = "send" => r.id # 0, asked' = <<r>>, doing' = Refresh
        PROVE  AskedInv'
    BY <1>2
  <1>3. ASSUME asked' = <<>>, doing' = <<>> PROVE AskedInv'
    BY <1>3
  <1> DEFINE Plain == [op |-> command]
             Named == [op |-> command, to |-> to]
  <1>4. CASE command \in Settings \cup Lists \cup Reports \cup {"say"}
    <2>1. command \in Alone \ {"send"}
      BY <1>4 DEF Alone, Settings, Lists, Reports
    <2>2. Requests(command, to) = <<Named>> \/ Requests(command, to) = <<Plain>>
      BY <1>4 DEF Requests, OneRequest, ListCommand, ToGroup, Settings, Lists, Reports, Views,
                  Answers, GroupRequests
    <2>3. \/ asked' = <<Named>> /\ doing' = <<>>
          \/ asked' = <<Plain>> /\ doing' = <<>>
      BY <2>2, AskOne
    <2> QED BY <1>1, <2>1, <2>3
  <1>5. CASE command \in Views
    <2>1. Requests(command, to) = Refresh
      BY <1>5 DEF Requests, Views, Settings, Lists, Reports, Answers, GroupRequests
    <2> QED BY <2>1, AskRefresh
  <1>6. CASE command = "requests"
    <2>1. Requests(command, to) = <<Plain>> \/ Requests(command, to) = <<>>
      BY <1>6 DEF Requests, ShowRequests, Views, Settings, Lists, Reports, Answers, GroupRequests
    <2>2. \/ asked' = <<Plain>> /\ doing' = <<>>
          \/ asked' = <<>> /\ doing' = <<>>
      BY <2>1, AskOne, AskNothing
    <2> QED BY <1>1, <1>3, <1>6, <2>2 DEF Alone
  <1>7. CASE command = "send"
    <2> DEFINE Message == [op |-> "send", to |-> to, id |-> lines + 1]
    <2>1. Requests(command, to) = <<Message>> \o Refresh \/ Requests(command, to) = <<>>
      BY <1>7 DEF Requests, SendCommand, Views, Settings, Lists, Reports, Answers, GroupRequests
    <2>2. \/ asked' = <<Message>> /\ doing' = Refresh
          \/ asked' = <<>> /\ doing' = <<>>
      BY <2>1, AskAndRefresh, AskNothing
    <2>3. Message.op \in Changing /\ Message.id # 0
      BY DEF Changing
    <2> HIDE DEF Message
    <2> QED BY <1>2, <1>3, <2>2, <2>3
  <1>8. CASE command \in Answers
    <2>1. to \in 1..2
      BY <1>8 DEF Arguments, Answers, GroupRequests
    <2>2. \/ Requests(command, to) = <<[op |-> "requests"], [op |-> command, at |-> to]>> \o Refresh
          \/ Requests(command, to) = <<>>
      BY <1>8 DEF Requests, AnswerCommand, Views, Settings, Lists, Reports, Answers, GroupRequests
    <2>3. \/ asked' = <<[op |-> "requests"]>> /\ doing' \in Answering
          \/ asked' = <<>> /\ doing' = <<>>
      BY <1>8, <2>1, <2>2, AskAndAnswer, AskNothing
    <2> QED BY <1>3, <2>3
  <1>9. CASE command \in {"add", "remove", "select"} \cup (GroupRequests \ {"say"})
    <2>1. Requests(command, to) = <<Named>> \o Refresh
      BY <1>9 DEF Requests, ThenRefresh, OneRequest, ToGroup, GroupCommand, Views, Settings, Lists,
                  Reports, Answers, GroupRequests
    <2>2. asked' = <<Named>> /\ doing' = Refresh
      BY <2>1, AskAndRefresh
    <2>3. command \in Changing /\ command # "send"
      BY <1>9 DEF Changing, GroupRequests
    <2> QED BY <1>2, <2>2, <2>3
  <1> QED BY <1>4, <1>5, <1>6, <1>7, <1>8, <1>9 DEF Commands

-----------------------------------------------------------------------------
(* The state is well formed                                                    *)

loopVars == <<loop, doing, panel, lines, shown>>

(* A step is one of the loop's, or one of the core or of the transport. *)
LoopStep == TakeReply \/ HandleLine \/ HandleEvent \/ Lagged \/ Leave
CoreStep == \/ File \/ OnAppEvent \/ OnShutdown \/ Modest \/ SessionInfo \/ SetNickname
            \/ SetStatus \/ Shutdown \/ NotRunning
LEMMA StepKinds ==
  ASSUME [Next]_vars
  PROVE  LoopStep \/ ((CoreStep \/ Transport) /\ UNCHANGED loopVars) \/ UNCHANGED vars
  BY DEF Next, LoopStep, CoreStep, Core, Arrival, Serve, ServeSession, Modest, loopVars

(* What a reply or an event tells goes to its own fields. *)
LEMMA ToldMeans ==
  ASSUME FormInv, NEW news, panel' = Told(news)
  PROVE  /\ PanelForm'
         /\ news.op \notin {"session", "contacts", "nick", "status", "select"} => panel' = panel
         /\ news.op # "contacts" => panel'.contacts = panel.contacts
         /\ news.op = "contacts" => panel'.contacts = news.contacts
         /\ news.op = "session" =>
              /\ panel'.nick = news.nick /\ panel'.status = news.status
              /\ panel'.active = news.active /\ panel'.peers = news.peers
              /\ panel'.supported = news.supported /\ panel'.groups = news.groups
              /\ panel'.invites = news.invites /\ panel'.requests = news.requests
         /\ news.op # "session" =>
              /\ panel'.peers = panel.peers /\ panel'.supported = panel.supported
              /\ panel'.groups = panel.groups /\ panel'.invites = panel.invites
              /\ panel'.requests = panel.requests
              /\ panel'.nick = IF news.op = "nick" THEN news.nick ELSE panel.nick
              /\ panel'.status = IF news.op = "status" THEN news.status ELSE panel.status
              /\ news.op # "select" => panel'.active = panel.active
  <1> USE DEF PanelForm
  <1>1. PanelForm
    BY DEF FormInv
  <1>2. CASE news.op = "session"
    <2>1. panel' = [f \in DOMAIN panel |-> IF f = "contacts" THEN panel.contacts ELSE news[f]]
      BY <1>2 DEF Told, Snapshot
    <2>2. DOMAIN panel = {"nick", "status", "active", "peers", "contacts", "supported", "groups",
                          "invites", "requests"}
      BY <1>1
    <2>3. /\ panel'.nick = news.nick /\ panel'.status = news.status
          /\ panel'.active = news.active /\ panel'.peers = news.peers
          /\ panel'.supported = news.supported /\ panel'.groups = news.groups
          /\ panel'.invites = news.invites /\ panel'.requests = news.requests
          /\ panel'.contacts = panel.contacts
      BY <2>1, <2>2
    <2>4. PanelForm'
      BY <2>1, <2>2
    <2> QED BY <1>2, <2>3, <2>4
  <1>3. CASE news.op = "contacts"
    BY <1>1, <1>3 DEF Told
  <1>4. CASE news.op = "nick"
    BY <1>1, <1>4 DEF Told
  <1>5. CASE news.op = "status"
    BY <1>1, <1>5 DEF Told
  <1>6. CASE news.op = "select" /\ news.active # NoOne
    BY <1>1, <1>6 DEF Told
  <1>7. CASE news.op \notin {"session", "contacts", "nick", "status"}
             /\ ~(news.op = "select" /\ news.active # NoOne)
    BY <1>1, <1>7 DEF Told
  <1> QED BY <1>2, <1>3, <1>4, <1>5, <1>6, <1>7

LEMMA FormInit == Init => FormInv
  <1> SUFFICES ASSUME Init PROVE FormInv
    OBVIOUS
  <1>1. PICK supported \in BOOLEAN, live \in SUBSET Groups :
          tox = [supported |-> supported, live |-> live, invites |-> {}, requests |-> <<>>]
    BY DEF Init, ConversationInit
  <1> QED BY <1>1, ChannelEmpty
     DEF Init, ConversationInit, FormInv, CoreForm, ToxForm, PanelForm, Slot

(* What is said of each part, when the others are left alone. *)
CorePart == CoreForm /\ ToxForm /\ core.up \in BOOLEAN /\ tox.supported \in BOOLEAN
PanelPart == PanelForm /\ lines \in Nat
ChannelPart == /\ filed \in BOOLEAN /\ lagged \in BOOLEAN /\ missed \in BOOLEAN
               /\ IsChannel(inbox) /\ IsChannel(events)

LEMMA FormOf == FormInv <=> CorePart /\ PanelPart /\ ChannelPart /\ Slot(reply)
  BY DEF FormInv, CorePart, PanelPart, ChannelPart

LEMMA CoreFormed == ASSUME FormInv, [Next]_vars PROVE CorePart'
  <1> USE DEF CorePart, CoreForm, ToxForm, session
  <1>1. CorePart
    BY FormOf
  <1>2. CASE UNCHANGED <<core, tox>>
    BY <1>1, <1>2
  <1>3. CASE LoopStep \/ UNCHANGED vars
    BY <1>2, <1>3 DEF LoopStep, TakeReply, HandleLine, HandleEvent, Lagged, Leave, vars,
       conversation
  <1>4. CASE Transport
    BY <1>1, <1>4, TransportMeans DEF HandsOver
  <1>5. CASE Modest
    BY <1>1, <1>5, ModestMeans DEF Serves
  <1>6. CASE File
    BY <1>2, <1>6 DEF File
  <1>7. CASE OnAppEvent
    BY <1>1, <1>7 DEF OnAppEvent, Remembers
  <1>8. CASE OnShutdown \/ Shutdown
    BY <1>1, <1>8 DEF OnShutdown, Shutdown, Finish
  <1>9. CASE SessionInfo
    BY <1>1, <1>9 DEF SessionInfo
  <1>10. CASE SetNickname
    BY <1>1, <1>10 DEF SetNickname
  <1>11. CASE SetStatus
    BY <1>1, <1>11 DEF SetStatus
  <1>12. CASE NotRunning
    BY <1>2, <1>12 DEF NotRunning
  <1> QED BY <1>3, <1>4, <1>5, <1>6, <1>7, <1>8, <1>9, <1>10, <1>11, <1>12, StepKinds DEF CoreStep

LEMMA PanelFormed == ASSUME FormInv, [Next]_vars PROVE PanelPart'
  <1> USE DEF PanelPart, shown
  <1>1. PanelPart
    BY FormOf
  <1>2. CASE UNCHANGED <<panel, lines>>
    BY <1>1, <1>2 DEF PanelForm
  <1>3. CASE TakeReply
    BY <1>1, <1>3, ToldMeans DEF TakeReply
  <1>4. CASE HandleEvent
    BY <1>1, <1>4, ToldMeans DEF HandleEvent
  <1>5. CASE HandleLine
    BY <1>1, <1>5 DEF HandleLine, PanelForm
  <1> QED BY <1>2, <1>3, <1>4, <1>5, StepKinds DEF LoopStep, Lagged, Leave, loopVars, vars

LEMMA ChannelsFormed == ASSUME FormInv, [Next]_vars PROVE ChannelPart' /\ Slot(reply)'
  <1> USE DEF store, stream, call
  <1>1. ChannelPart /\ Slot(reply)
    BY FormOf
  <1>3. CASE UNCHANGED <<filed, lagged, missed, inbox, events, reply>>
    BY <1>1, <1>3 DEF ChannelPart, Slot, IsChannel
  <1>4. CASE TakeReply
    BY <1>1, <1>4 DEF TakeReply, ChannelPart, Slot, IsChannel
  <1>5. CASE HandleEvent
    BY <1>1, <1>5, ChannelLess DEF HandleEvent, ChannelPart, Slot
  <1>6. CASE Lagged
    BY <1>1, <1>6 DEF Lagged, ChannelPart, Slot
  <1>7. CASE Transport
    <2>1. PICK e : HandsOver(e)
      BY <1>7, TransportMeans
    <2>2. inbox' = Append(inbox, e) /\ UNCHANGED <<store, stream, call>>
      BY <2>1 DEF HandsOver
    <2>3. IsChannel(Append(inbox, e))
      BY <1>1, ChannelMore DEF ChannelPart
    <2> QED BY <1>1, <2>2, <2>3 DEF ChannelPart, Slot
  <1>8. CASE Modest
    BY <1>1, <1>8, ModestMeans DEF Serves, ChannelPart, Slot
  <1>9. CASE File
    BY <1>1, <1>9 DEF File, ChannelPart, Slot
  <1>10. CASE OnAppEvent
    BY <1>1, <1>10, ChannelLess, PublishMeans DEF OnAppEvent, ChannelPart, Slot
  <1>11. CASE OnShutdown \/ Shutdown
    BY <1>1, <1>11, ChannelEmpty, PublishMeans
       DEF OnShutdown, Shutdown, Finish, Answer, ChannelPart, Slot
  <1>12. CASE SessionInfo
    <2>1. UNCHANGED <<inbox, store, events, lagged>> /\ missed' = FALSE
      BY <1>12 DEF SessionInfo
    <2>2. PICK answer : reply' = <<answer>>
      BY <1>12 DEF SessionInfo, Answer
    <2> QED BY <1>1, <2>1, <2>2 DEF ChannelPart, Slot
  <1>13. CASE SetNickname
    BY <1>1, <1>13, PublishMeans DEF SetNickname, Answer, ChannelPart, Slot
  <1>14. CASE SetStatus
    BY <1>1, <1>14, PublishMeans DEF SetStatus, Answer, ChannelPart, Slot
  <1>15. CASE NotRunning
    BY <1>1, <1>15 DEF NotRunning, Answer, ChannelPart, Slot
  <1>16. CASE HandleLine \/ Leave \/ UNCHANGED vars
    BY <1>3, <1>16 DEF HandleLine, Leave, vars, conversation
  <1> QED BY <1>4, <1>5, <1>6, <1>7, <1>8, <1>9, <1>10, <1>11, <1>12, <1>13, <1>14, <1>15, <1>16,
             StepKinds DEF LoopStep, CoreStep

LEMMA FormStep == ASSUME FormInv, [Next]_vars PROVE FormInv'
  <1>1. CorePart' /\ PanelPart' /\ ChannelPart' /\ Slot(reply)'
    BY CoreFormed, PanelFormed, ChannelsFormed
  <1> QED BY <1>1 DEF FormInv, CorePart, PanelPart, ChannelPart

-----------------------------------------------------------------------------
(* One request at a time                                                       *)

LEMMA TakeAsks == ASSUME AskedInv, RepliedInv, TakeReply PROVE AskedInv'
  <1> USE DEF Slot
  <1>1. /\ reply # <<>> /\ reply' = <<>>
        /\ Ask(IF reply[1].op = "requests" THEN Resolved(reply[1].requests) ELSE doing)
    BY DEF TakeReply
  <1>2. CASE doing = <<>>
    <2>1. Ask(<<>>)
      BY <1>1, <1>2 DEF Resolved
    <2> QED BY <1>1, <2>1, AskNothing DEF AskedInv
  <1>3. CASE doing = Tail(Refresh)
    <2>1. Ask(<<[op |-> "contacts"]>>)
      BY <1>1, <1>3, Refreshes DEF RepliedInv
    <2>2. asked' = <<[op |-> "contacts"]>> /\ doing' = <<>>
      BY <2>1, AskOne
    <2> QED BY <1>1, <2>2 DEF AskedInv, Alone
  <1>4. CASE doing = Refresh
    <2>1. Ask(Refresh)
      BY <1>1, <1>4, Refreshes DEF RepliedInv
    <2>2. asked' = <<[op |-> "session"]>> /\ doing' = Tail(Refresh)
      BY <2>1, AskRefresh
    <2> QED BY <1>1, <2>2 DEF AskedInv
  <1>5. CASE doing \in Answering
    <2>1. PICK o \in Answers, n \in 1..2 : doing = <<[op |-> o, at |-> n], Refresh[1], Refresh[2]>>
      BY <1>5 DEF Answering
    <2>2. /\ doing # <<>> /\ doing[1] = [op |-> o, at |-> n] /\ Tail(doing) = Refresh
          /\ Head(doing) = doing[1]
      BY <2>1, Refreshes
    <2>3. o \in Changing /\ o # "send"
      BY DEF Changing, Answers
    <2>4. ASSUME NEW r, r.op = o, asked' = <<r>>, doing' = Refresh PROVE AskedInv'
      BY <1>1, <2>3, <2>4 DEF AskedInv
    <2>5. CASE reply[1].op # "requests"
      <3>1. Ask(doing)
        BY <1>1, <2>5
      <3>2. asked' = <<[op |-> o, at |-> n]>> /\ doing' = Refresh
        BY <2>2, <3>1 DEF Ask
      <3> QED BY <2>4, <3>2
    <2>6. CASE reply[1].op = "requests"
      <3> DEFINE list == reply[1].requests
                 r == [op |-> o, to |-> list[n]]
      <3>1. Ask(Resolved(list))
        BY <1>1, <2>6
      <3>2. Resolved(list) = <<r>> \o Refresh \/ Resolved(list) = <<>>
        BY SMTT(30), <2>2 DEF Resolved
      <3>3. CASE Ask(<<>>)
        BY <1>1, <3>3, AskNothing DEF AskedInv
      <3>4. CASE Ask(<<r>> \o Refresh)
        <4>1. asked' = <<r>> /\ doing' = Refresh
          BY <3>4, AskAndRefresh
        <4> QED BY <2>4, <4>1
      <3> QED BY <3>1, <3>2, <3>3, <3>4
    <2> QED BY <2>5, <2>6
  <1> QED BY <1>2, <1>3, <1>4, <1>5 DEF AskedInv

LEMMA AskedStep == ASSUME FormInv, PipeInv, [Next]_vars PROVE AskedInv'
  <1>1. AskedInv /\ RepliedInv
    BY DEF PipeInv
  <1>2. CASE UNCHANGED <<asked, doing, reply>>
    BY <1>1, <1>2 DEF AskedInv, Slot
  <1>3. ASSUME asked' = <<>>, reply' # <<>>, UNCHANGED doing PROVE AskedInv'
    BY <1>1, <1>3 DEF AskedInv, Slot
  <1>4. CASE TakeReply
    BY <1>1, <1>4, TakeAsks
  <1>5. CASE HandleLine
    <2>1. PICK command \in Typed(tox.supported) : \E to \in Arguments(command) :
            Ask(Requests(command, to))
      BY <1>5 DEF HandleLine
    <2>2. PICK to \in Arguments(command) : Ask(Requests(command, to))
      BY <2>1
    <2>3. command \in Commands
      BY FrontEndAssumption DEF FormInv
    <2>4. lines \in Nat /\ reply' = <<>>
      BY <1>5 DEF FormInv, HandleLine, Free, Idle
    <2> QED BY <2>2, <2>3, <2>4, LineMeans
  <1>6. CASE HandleEvent
    <2>1. reply' = <<>> /\ (Ask(<<>>) \/ Ask(Refresh) \/ Ask(<<[op |-> "shutdown"]>>))
      BY <1>6 DEF HandleEvent, Free, Idle, RequestShutdown
    <2>2. \/ asked' = <<>> /\ doing' = <<>>
          \/ asked' = <<[op |-> "session"]>> /\ doing' = Tail(Refresh)
          \/ asked' = <<[op |-> "shutdown"]>> /\ doing' = <<>>
      BY <2>1, AskNothing, AskRefresh, AskOne
    <2> QED BY <2>1, <2>2 DEF AskedInv, Slot, Alone
  <1>7. CASE Leave
    <2>1. reply' = <<>> /\ asked' = <<[op |-> "shutdown"]>> /\ doing' = <<>>
      BY <1>7, AskOne DEF Leave, Free, Idle, RequestShutdown
    <2> QED BY <2>1 DEF AskedInv, Slot, Alone
  <1>8. CASE (Modest \/ SessionInfo \/ SetNickname \/ SetStatus \/ Shutdown \/ NotRunning)
             /\ UNCHANGED loopVars
    <2>1. CASE Modest
      <3>1. PICK answer : Serves(answer)
        BY <2>1, ModestMeans
      <3>2. asked' = <<>> /\ reply' = <<answer>> /\ UNCHANGED doing
        BY <1>8, <3>1 DEF Serves, loopVars
      <3>3. reply' # <<>>
        BY <3>2
      <3> QED BY <1>3, <3>2, <3>3
    <2>2. CASE SessionInfo
      BY <1>3, <1>8, <2>2 DEF SessionInfo, Answer, loopVars
    <2>3. CASE SetNickname \/ SetStatus \/ Shutdown \/ NotRunning
      BY <1>3, <1>8, <2>3 DEF SetNickname, SetStatus, Shutdown, NotRunning, Answer, loopVars
    <2> QED BY <1>8, <2>1, <2>2, <2>3
  <1>9. CASE (File \/ OnAppEvent \/ OnShutdown \/ Transport) /\ UNCHANGED loopVars
    <2>1. UNCHANGED call
      BY <1>9, TransportMeans DEF File, OnAppEvent, OnShutdown, HandsOver, call
    <2> QED BY <1>2, <1>9, <2>1 DEF call, loopVars
  <1>10. CASE Lagged \/ UNCHANGED vars
    BY <1>2, <1>10 DEF Lagged, call, vars, conversation
  <1> QED BY <1>4, <1>5, <1>6, <1>7, <1>8, <1>9, <1>10, StepKinds DEF LoopStep, CoreStep

LEMMA RepliedStep == ASSUME FormInv, PipeInv, [Next]_vars PROVE RepliedInv'
  <1>1. AskedInv /\ RepliedInv /\ FormInv
    BY DEF PipeInv
  <1>2. ASSUME UNCHANGED <<asked, doing, reply>>, core'.up => core.up PROVE RepliedInv'
    BY <1>1, <1>2 DEF RepliedInv
  <1>3. ASSUME NEW answer, reply' = <<answer>>, asked' = <<>>, UNCHANGED loopVars,
               answer.op = "session" => asked[1].op = "session",
               answer.op = "contacts" => asked[1].op = "contacts",
               answer.op = "requests" => asked[1].op = "requests",
               answer.op = "select" => asked[1].op = "select",
               answer.op \in {"nick", "status"} => asked[1].op \in {"nick", "status"},
               core'.up /\ asked[1].op = "session" => answer.op = "session",
               core'.up /\ asked[1].op = "requests" => answer.op = "requests",
               asked # <<>>
        PROVE  RepliedInv'
    <2>1. doing' = doing /\ reply'[1] = answer
      BY <1>3 DEF loopVars
    <2>2. /\ asked[1].op = "session" => doing = Tail(Refresh)
          /\ asked[1].op \in {"contacts", "nick", "status"} => doing = <<>>
          /\ asked[1].op = "requests" => doing = <<>> \/ doing \in Answering
          /\ asked[1].op = "select" => doing = Refresh
          /\ doing = Tail(Refresh) => asked[1].op = "session"
          /\ doing \in Answering => asked[1].op = "requests"
      BY <1>1, <1>3, Refreshes DEF AskedInv, Alone, Changing, Reports, Lists, Settings, Answers,
                                   GroupRequests
    <2> QED BY <1>3, <2>1, <2>2 DEF RepliedInv
  <1>4. ASSUME reply' = <<>> PROVE RepliedInv'
    BY <1>4 DEF RepliedInv
  <1>5. CASE TakeReply \/ HandleLine \/ HandleEvent \/ Leave
    BY <1>4, <1>5 DEF TakeReply, HandleLine, HandleEvent, Leave, Free, Idle
  <1>6. CASE Lagged \/ UNCHANGED vars
    BY <1>2, <1>6 DEF Lagged, call, vars, conversation, session
  <1>7. CASE (File \/ Transport) /\ UNCHANGED loopVars
    <2>1. UNCHANGED <<call, core>>
      BY <1>7, TransportMeans DEF File, HandsOver, session
    <2> QED BY <1>2, <1>7, <2>1 DEF call, loopVars
  <1>8. CASE (OnAppEvent \/ OnShutdown) /\ UNCHANGED loopVars
    <2>1. UNCHANGED call /\ (core'.up => core.up)
      BY <1>1, <1>8 DEF OnAppEvent, OnShutdown, Finish, Remembers, FormInv, CoreForm
    <2> QED BY <1>2, <1>8, <2>1 DEF call, loopVars
  <1>9. CASE Modest /\ UNCHANGED loopVars
    <2>1. PICK answer : Serves(answer)
      BY <1>9, ModestMeans
    <2>2. asked[1].op # "session"
      BY <2>1 DEF Serves, Changing, Alone, Reports, Lists, Settings, Answers, GroupRequests
    <2> QED BY <1>3, <1>9, <2>1, <2>2 DEF Serves
  <1>10. CASE SessionInfo /\ UNCHANGED loopVars
    <2>1. PICK answer : reply' = <<answer>> /\ answer.op = "session"
      BY <1>10 DEF SessionInfo, Answer
    <2> QED BY <1>3, <1>10, <2>1 DEF SessionInfo, Answer, Serving
  <1>11. CASE (SetNickname \/ SetStatus) /\ UNCHANGED loopVars
    <2>1. PICK answer : reply' = <<answer>> /\ answer.op \in {"nick", "status"}
      BY <1>11 DEF SetNickname, SetStatus, Answer
    <2> QED BY <1>3, <1>11, <2>1 DEF SetNickname, SetStatus, Answer, Serving
  <1>12. CASE (Shutdown \/ NotRunning) /\ UNCHANGED loopVars
    <2>1. ~core'.up
      BY <1>1, <1>12 DEF Shutdown, NotRunning, Finish, session, FormInv, CoreForm
    <2>2. PICK answer : reply' = <<answer>> /\ answer.op \in {"done", "failed"}
      BY <1>12 DEF Shutdown, NotRunning, Answer, Done, Failed
    <2> QED BY <1>3, <1>12, <2>1, <2>2 DEF Shutdown, NotRunning, Answer, Serving
  <1> QED BY <1>5, <1>6, <1>7, <1>8, <1>9, <1>10, <1>11, <1>12, StepKinds DEF LoopStep, CoreStep

LEMMA PipeInit == Init => PipeInv
  <1> SUFFICES ASSUME Init PROVE PipeInv
    OBVIOUS
  <1>1. asked = <<[op |-> "session"]>> /\ doing = Tail(Refresh) /\ reply = <<>>
    BY DEF Init, ConversationInit, Refresh
  <1> QED BY <1>1 DEF PipeInv, AskedInv, RepliedInv, Slot

LEMMA PipeStep == ASSUME FormInv, PipeInv, [Next]_vars PROVE PipeInv'
  BY AskedStep, RepliedStep DEF PipeInv

-----------------------------------------------------------------------------
(* Every channel speaks the protocol                                           *)

(* Nothing is under way between two lines; while a request is awaited, no reply *)
(* is, and none is sent before it.                                            *)
LEMMA AtRest ==
  ASSUME PipeInv, Idle
  PROVE  doing = <<>> /\ ~AwaitsContacts /\ ~AwaitsSession /\ \A op : ~Carries(op) /\ View(op) = panel
  BY Refreshes DEF Idle, PipeInv, AskedInv, AwaitsContacts, AwaitsSession, Carries, View

LEMMA AskedAlone ==
  ASSUME PipeInv, asked # <<>>
  PROVE  /\ reply = <<>> /\ \A op : ~Carries(op) /\ View(op) = panel
         /\ asked[1].op \in Changing => doing = Refresh
         /\ asked[1].op = "session" => doing = Tail(Refresh)
         /\ asked[1].op \in Alone => doing # Refresh /\ doing # Tail(Refresh)
  <1>1. reply = <<>>
    BY DEF PipeInv, RepliedInv
  <1>2. \A op : ~Carries(op) /\ View(op) = panel
    BY <1>1 DEF Carries, View
  <1> QED BY <1>1, <1>2, Refreshes
     DEF PipeInv, AskedInv, Alone, Changing, Reports, Lists, Settings, Answers, GroupRequests

LEMMA AskedConforms == ASSUME AskedInv' PROVE Said(asked, Request)'
  <1>1. CASE asked' = <<>>
    BY <1>1, ChannelEmpty DEF Said
  <1>2. CASE asked' = <<asked'[1]>>
    <2>1. DOMAIN asked' = {1}
      BY <1>2
    <2>2. asked'[1].op \in Request
      BY <1>2 DEF AskedInv, Alone, Changing, Reports, Lists, Settings, Answers, GroupRequests,
                  Request, SessionRequests, ToxRequests
    <2> QED BY <2>1, <2>2 DEF Said
  <1> QED BY <1>1, <1>2 DEF AskedInv, Slot

LEMMA ReplyConforms ==
  ASSUME NEW answer, reply' = <<answer>>, answer.op \in Reply PROVE Said(reply, Reply)'
  <1>1. DOMAIN reply' = {1} /\ reply'[1] = answer
    OBVIOUS
  <1> QED BY <1>1 DEF Said

LEMMA EventsConform ==
  ASSUME FormInv, Said(events, CoreEvent), NEW e, Kept(e), e.op \in CoreEvent
  PROVE  Said(events, CoreEvent)'
  BY KeptAre DEF Said

LEMMA InboxConforms ==
  ASSUME FormInv, Said(inbox, AppEvent), inbox # <<>>
  PROVE  Said(Tail(inbox), AppEvent) /\ inbox[1].op \in AppEvent /\ Head(inbox) = inbox[1]
  <1>1. /\ Len(inbox) \in Nat /\ Len(inbox) >= 1 /\ DOMAIN inbox = 1..Len(inbox)
        /\ DOMAIN Tail(inbox) = 1..Len(inbox) - 1 /\ Head(inbox) = inbox[1]
        /\ \A i \in 1..Len(inbox) - 1 : Tail(inbox)[i] = inbox[i + 1]
    BY ChannelOf, ChannelLess DEF FormInv
  <1>2. \A i \in 1..Len(inbox) - 1 : i + 1 \in 1..Len(inbox)
    BY <1>1
  <1> QED BY <1>1, <1>2 DEF Said

LEMMA EventTaken ==
  ASSUME FormInv, events # <<>>
  PROVE  /\ Len(events) \in Nat /\ Len(events) >= 1 /\ Head(events) = events[1]
         /\ DOMAIN events = 1..Len(events) /\ DOMAIN Tail(events) = 1..Len(events) - 1
         /\ \A i \in 1..Len(events) - 1 : i + 1 \in 1..Len(events) /\ Tail(events)[i] = events[i + 1]
  <1>1. /\ Len(events) \in Nat /\ Len(events) >= 1 /\ DOMAIN events = 1..Len(events)
        /\ DOMAIN Tail(events) = 1..Len(events) - 1 /\ Head(events) = events[1]
        /\ \A i \in 1..Len(events) - 1 : Tail(events)[i] = events[i + 1]
    BY ChannelOf, ChannelLess DEF FormInv
  <1>2. \A i \in 1..Len(events) - 1 : i + 1 \in 1..Len(events)
    BY <1>1
  <1> QED BY <1>1, <1>2

(* What is published: the event of the transport, or that a message could not be  *)
(* read.                                                                     *)
LEMMA OnAppEventMeans ==
  ASSUME FormInv, Conforms, OnAppEvent
  PROVE  \E e : /\ Kept(e) /\ e.op \in CoreEvent /\ e.op \notin {"nick", "status"}
                /\ e = inbox[1] \/ (e = [op |-> "undecodable"] /\ IsMessage(inbox[1]))
                /\ IsMessage(e) => e = inbox[1] /\ filed
  <1> DEFINE event == Head(inbox)
             e == IF IsMessage(event) /\ ~event.readable THEN [op |-> "undecodable"] ELSE event
  <1>1. Publish(e) /\ (Readable(event) => filed) /\ inbox # <<>>
    BY DEF OnAppEvent
  <1>2. event = inbox[1] /\ event.op \in AppEvent
    BY <1>1, InboxConforms DEF Conforms
  <1> HIDE DEF event
  <1>3. e = inbox[1] \/ (e = [op |-> "undecodable"] /\ IsMessage(inbox[1]))
    BY <1>2
  <1>4. e.op \in CoreEvent /\ e.op \notin {"nick", "status"}
    BY <1>2, <1>3 DEF CoreEvent, AppEvent
  <1>5. IsMessage(e) => e = event /\ Readable(event)
    BY DEF IsMessage, Readable
  <1>6. IsMessage(e) => e = inbox[1] /\ filed
    BY <1>1, <1>2, <1>5
  <1> HIDE DEF e
  <1>7. Kept(e)
    BY <1>1, PublishMeans
  <1> QED BY <1>3, <1>4, <1>6, <1>7

LEMMA ConformsInit == Init => Conforms
  <1> SUFFICES ASSUME Init PROVE Conforms
    OBVIOUS
  <1>1. Said(asked, Request)
    BY DEF Init, Said, Refresh, Request, SessionRequests
  <1> QED BY <1>1, ChannelEmpty DEF Init, ConversationInit, Conforms, Said

LEMMA ConformsStep == ASSUME FormInv, PipeInv, Conforms, [Next]_vars PROVE Conforms'
  <1> USE DEF store, stream, call
  <1>1. Said(asked, Request)'
    BY AskedStep, AskedConforms
  <1>2. Said(reply, Reply) /\ Said(inbox, AppEvent) /\ Said(events, CoreEvent)
    BY DEF Conforms
  <1>3. ASSUME UNCHANGED <<reply, inbox, events>> PROVE Conforms'
    BY <1>1, <1>2, <1>3 DEF Conforms, Said
  <1>4. ASSUME UNCHANGED <<inbox, events>>, NEW answer, reply' = <<answer>>, answer.op \in Reply
        PROVE  Conforms'
    <2>1. Said(reply, Reply)'
      BY <1>4, ReplyConforms
    <2> QED BY <1>1, <1>2, <1>4, <2>1 DEF Conforms, Said
  <1>5. CASE TakeReply
    <2>1. Said(reply, Reply)'
      BY <1>5, ChannelEmpty DEF TakeReply, Said
    <2> QED BY <1>1, <1>2, <1>5, <2>1 DEF TakeReply, Conforms, Said
  <1>6. CASE HandleEvent
    <2>1. events # <<>> /\ events' = Tail(events) /\ UNCHANGED <<inbox, reply>>
      BY <1>6 DEF HandleEvent
    <2>2. Said(events, CoreEvent)'
      BY <1>2, <2>1, EventTaken DEF Said
    <2> QED BY <1>1, <1>2, <2>1, <2>2 DEF Conforms, Said
  <1>7. CASE HandleLine \/ Lagged \/ Leave \/ UNCHANGED vars \/ File
    BY <1>3, <1>7 DEF HandleLine, Lagged, Leave, vars, conversation, File
  <1>8. CASE Transport
    <2>1. PICK e : HandsOver(e)
      BY <1>8, TransportMeans
    <2>2. inbox' = Append(inbox, e) /\ e.op \in AppEvent /\ UNCHANGED <<reply, events>>
      BY <2>1 DEF HandsOver
    <2>3. Said(Append(inbox, e), AppEvent)
      <3>1. IsChannel(inbox)
        BY DEF FormInv
      <3>2. /\ DOMAIN Append(inbox, e) = 1..Len(inbox) + 1 /\ DOMAIN inbox = 1..Len(inbox)
            /\ \A i \in 1..Len(inbox) : Append(inbox, e)[i] = inbox[i]
            /\ Append(inbox, e)[Len(inbox) + 1] = e /\ Len(inbox) \in Nat
        BY <3>1, ChannelOf, ChannelMore
      <3> QED BY <1>2, <2>2, <3>2 DEF Said
    <2> QED BY <1>1, <1>2, <2>2, <2>3 DEF Conforms, Said
  <1>9. CASE OnAppEvent
    <2>1. inbox # <<>> /\ inbox' = Tail(inbox) /\ UNCHANGED call
      BY <1>9 DEF OnAppEvent
    <2>2. Said(events, CoreEvent)'
      BY <1>2, <1>9, OnAppEventMeans, EventsConform
    <2>3. Said(inbox, AppEvent)'
      BY <1>2, <2>1, InboxConforms DEF Said
    <2> QED BY <1>1, <1>2, <2>1, <2>2, <2>3 DEF Conforms, Said
  <1>10. CASE OnShutdown \/ Shutdown
    <2>1. Publish([op |-> "shutdown"]) /\ inbox' = <<>>
      BY <1>10 DEF OnShutdown, Shutdown, Finish
    <2>2. Said(events, CoreEvent)'
      BY <1>2, <2>1, PublishMeans, EventsConform DEF CoreEvent, AppEvent
    <2>3. Said(inbox, AppEvent)'
      BY <2>1, ChannelEmpty DEF Said
    <2>4. Said(reply, Reply)'
      BY <1>2, <1>10, ReplyConforms DEF OnShutdown, Shutdown, Answer, Done, Reply, Said
    <2> QED BY <1>1, <2>2, <2>3, <2>4 DEF Conforms
  <1>11. CASE Modest
    <2>1. PICK answer : Serves(answer)
      BY <1>11, ModestMeans
    <2>2. answer.op \in Reply
      BY <2>1 DEF Serves, Reply
    <2>3. UNCHANGED <<inbox, events>> /\ reply' = <<answer>>
      BY <2>1 DEF Serves
    <2> QED BY <1>4, <2>2, <2>3
  <1>12. CASE SessionInfo
    <2>1. PICK answer : reply' = <<answer>> /\ answer.op = "session"
      BY <1>12 DEF SessionInfo, Answer
    <2> QED BY <1>4, <1>12, <2>1 DEF SessionInfo, Reply
  <1>13. CASE SetNickname \/ SetStatus
    <2>1. PICK answer : reply' = <<answer>> /\ answer.op \in {"nick", "status"}
      BY <1>13 DEF SetNickname, SetStatus, Answer
    <2>2. UNCHANGED inbox
      BY <1>13 DEF SetNickname, SetStatus
    <2>3. events' = events \/ \E e : e.op \in {"nick", "status"} /\ Publish(e)
      BY <1>13 DEF SetNickname, SetStatus
    <2>4. Said(events, CoreEvent)'
      BY <1>2, <2>3, PublishMeans, EventsConform DEF CoreEvent, Said
    <2>5. Said(reply, Reply)'
      BY <2>1, ReplyConforms DEF Reply
    <2> QED BY <1>1, <1>2, <2>2, <2>4, <2>5 DEF Conforms, Said
  <1>14. CASE NotRunning
    BY <1>4, <1>14 DEF NotRunning, Answer, Failed, Reply
  <1> QED BY <1>5, <1>6, <1>7, <1>8, <1>9, <1>10, <1>11, <1>12, <1>13, <1>14, StepKinds
     DEF LoopStep, CoreStep

-----------------------------------------------------------------------------
(* The newest of each kind, receipts, and what is filed                         *)

LEMMA NewestPublished ==
  ASSUME FormInv, NewestEvents, NEW e, Kept(e),
         core'.nick = IF e.op = "nick" THEN e.nick ELSE core.nick,
         core'.status = IF e.op = "status" THEN e.status ELSE core.status
  PROVE  NewestEvents'
  <1>1. \A i \in DOMAIN events' : Newest(i, "nick")' =>
           \/ events'[i] = e
           \/ e.op # "nick" /\ \E j \in DOMAIN events : Newest(j, "nick") /\ events'[i] = events[j]
    BY KeptNewest
  <1>2. \A i \in DOMAIN events' : Newest(i, "status")' =>
           \/ events'[i] = e
           \/ e.op # "status" /\ \E j \in DOMAIN events : Newest(j, "status") /\ events'[i] = events[j]
    BY KeptNewest
  <1>3. ASSUME NEW i \in DOMAIN events', Newest(i, "nick")' PROVE events'[i].nick = core'.nick
    <2>1. events'[i].op = "nick"
      BY <1>3 DEF Newest
    <2> QED BY <1>1, <1>3, <2>1 DEF NewestEvents
  <1>4. ASSUME NEW i \in DOMAIN events', Newest(i, "status")' PROVE events'[i].status = core'.status
    <2>1. events'[i].op = "status"
      BY <1>4 DEF Newest
    <2> QED BY <1>2, <1>4, <2>1 DEF NewestEvents
  <1> QED BY <1>3, <1>4 DEF NewestEvents

(* What leaves the channel is its oldest event.                               *)
LEMMA NewestTaken ==
  ASSUME FormInv, events # <<>>, events' = Tail(events), NEW op
  PROVE  \A i \in DOMAIN events' : Newest(i, op)' =>
           i + 1 \in DOMAIN events /\ Newest(i + 1, op) /\ events'[i] = events[i + 1]
  <1> SUFFICES ASSUME NEW i \in DOMAIN events', Newest(i, op)'
               PROVE  i + 1 \in DOMAIN events /\ Newest(i + 1, op) /\ events'[i] = events[i + 1]
    OBVIOUS
  <1>1. /\ DOMAIN events = 1..Len(events) /\ DOMAIN events' = 1..Len(events) - 1
        /\ Len(events) \in Nat
        /\ \A j \in 1..Len(events) - 1 : events'[j] = events[j + 1]
    BY EventTaken
  <1>2. events'[i].op = op /\ \A j \in DOMAIN events' : j > i => events'[j].op # op
    BY DEF Newest
  <1>3. i + 1 \in DOMAIN events /\ events'[i] = events[i + 1]
    BY <1>1
  <1>4. ASSUME NEW j \in DOMAIN events, j > i + 1 PROVE events[j].op # op
    <2>1. j - 1 \in DOMAIN events' /\ j - 1 > i /\ j - 1 + 1 = j
      BY <1>1, <1>4
    <2> QED BY <1>1, <1>2, <2>1
  <1> QED BY <1>2, <1>3, <1>4 DEF Newest

LEMMA NewestInit == Init => NewestInv
  BY ChannelEmpty DEF Init, ConversationInit, NewestInv, NewestEvents, NewestReply, Carries

LEMMA NewestStep ==
  ASSUME FormInv, PipeInv, NewestInv, Conforms, [Next]_vars
  PROVE  NewestInv'
  <1> USE DEF store, stream, call, session
  <1>1. NewestEvents /\ NewestReply
    BY DEF NewestInv
  <1>2. ASSUME UNCHANGED events, core'.nick = core.nick, core'.status = core.status
        PROVE  NewestEvents'
    BY <1>1, <1>2 DEF NewestEvents, Newest
  <1>3. ASSUME UNCHANGED reply, core'.nick = core.nick, core'.status = core.status
        PROVE  NewestReply'
    BY <1>1, <1>3 DEF NewestReply, Carries
  <1>4. ASSUME reply' = <<>> \/ \E answer : reply' = <<answer>> /\ answer.op \notin {"nick", "status"}
        PROVE  NewestReply'
    BY <1>4 DEF NewestReply, Carries
  <1>5. CASE TakeReply
    BY <1>2, <1>4, <1>5 DEF TakeReply, NewestInv
  <1>6. CASE HandleEvent
    <2>1. events # <<>> /\ events' = Tail(events) /\ UNCHANGED <<core, reply>>
      BY <1>6 DEF HandleEvent
    <2>2. NewestEvents'
      BY <1>1, <2>1, NewestTaken DEF NewestEvents
    <2> QED BY <1>3, <2>1, <2>2 DEF NewestInv
  <1>7. CASE HandleLine \/ Lagged \/ Leave \/ UNCHANGED vars \/ File
    <2>1. UNCHANGED <<core, events, reply>>
      BY <1>7 DEF HandleLine, Lagged, Leave, vars, conversation, File
    <2> QED BY <1>2, <1>3, <2>1 DEF NewestInv
  <1>8. CASE Transport
    <2>1. UNCHANGED <<core, events, reply>>
      BY <1>8, TransportMeans DEF HandsOver
    <2> QED BY <1>2, <1>3, <2>1 DEF NewestInv
  <1>9. CASE OnAppEvent
    <2>1. UNCHANGED reply /\ core' = Remembers(Head(inbox))
      BY <1>9 DEF OnAppEvent
    <2>2. core'.nick = core.nick /\ core'.status = core.status
      BY <2>1 DEF Remembers, FormInv, CoreForm
    <2>3. NewestEvents'
      BY <1>1, <1>9, <2>2, OnAppEventMeans, NewestPublished
    <2> QED BY <1>3, <2>1, <2>2, <2>3 DEF NewestInv
  <1>10. CASE OnShutdown \/ Shutdown
    <2>1. Publish([op |-> "shutdown"]) /\ core'.nick = core.nick /\ core'.status = core.status
      BY <1>10 DEF OnShutdown, Shutdown, Finish, FormInv, CoreForm
    <2>2. NewestEvents'
      BY <1>1, <2>1, PublishMeans, NewestPublished
    <2>3. NewestReply'
      BY <1>3, <1>4, <1>10, <2>1 DEF OnShutdown, Shutdown, Answer, Done
    <2> QED BY <2>2, <2>3 DEF NewestInv
  <1>11. CASE Modest
    <2>1. PICK answer : Serves(answer)
      BY <1>11, ModestMeans
    <2>2. UNCHANGED events /\ core'.nick = core.nick /\ core'.status = core.status
          /\ reply' = <<answer>> /\ answer.op \notin {"nick", "status"}
      BY <2>1 DEF Serves
    <2> QED BY <1>2, <1>4, <2>2 DEF NewestInv
  <1>12. CASE SessionInfo
    <2>1. PICK answer : reply' = <<answer>> /\ answer.op = "session"
      BY <1>12 DEF SessionInfo, Answer
    <2>2. UNCHANGED events /\ core'.nick = core.nick /\ core'.status = core.status
      BY <1>12 DEF SessionInfo, FormInv, CoreForm
    <2> QED BY <1>2, <1>4, <2>1, <2>2 DEF NewestInv
  <1>13. CASE SetNickname
    <2>1. PICK nick : /\ core' = [core EXCEPT !.nick = nick]
                      /\ reply' = <<[op |-> "nick", nick |-> nick]>>
                      /\ \/ UNCHANGED stream /\ nick = core.nick
                         \/ Publish([op |-> "nick", nick |-> nick])
      BY <1>13 DEF SetNickname, Answer
    <2>2. core'.nick = nick /\ core'.status = core.status
      BY <2>1 DEF FormInv, CoreForm
    <2>3. NewestEvents'
      BY <1>1, <1>2, <2>1, <2>2, PublishMeans, NewestPublished
    <2> QED BY <2>1, <2>2, <2>3 DEF NewestInv, NewestReply, Carries
  <1>14. CASE SetStatus
    <2>1. PICK status : /\ core' = [core EXCEPT !.status = status]
                        /\ reply' = <<[op |-> "status", status |-> status]>>
                        /\ \/ UNCHANGED stream /\ status = core.status
                           \/ Publish([op |-> "status", status |-> status])
      BY <1>14 DEF SetStatus, Answer
    <2>2. core'.status = status /\ core'.nick = core.nick
      BY <2>1 DEF FormInv, CoreForm
    <2>3. NewestEvents'
      BY <1>1, <1>2, <2>1, <2>2, PublishMeans, NewestPublished
    <2> QED BY <2>1, <2>2, <2>3 DEF NewestInv, NewestReply, Carries
  <1>15. CASE NotRunning
    BY <1>2, <1>4, <1>15 DEF NotRunning, Answer, Failed, NewestInv
  <1> QED BY <1>5, <1>6, <1>7, <1>8, <1>9, <1>10, <1>11, <1>12, <1>13, <1>14, <1>15, StepKinds
     DEF LoopStep, CoreStep

(* The channels carry no receipt but those they carried, and the one that is     *)
(* handed over or published.                                                  *)
LEMMA InboxReceipts ==
  ASSUME FormInv, NEW e, inbox' = Append(inbox, e)
  PROVE  Deliveries(inbox') \subseteq Deliveries(inbox) \cup {d \in {e.id} : e.op = "delivered"}
  <1>1. IsChannel(inbox)
    BY DEF FormInv
  <1>2. /\ DOMAIN inbox' = 1..Len(inbox) + 1 /\ DOMAIN inbox = 1..Len(inbox)
        /\ \A i \in 1..Len(inbox) : inbox'[i] = inbox[i]
        /\ inbox'[Len(inbox) + 1] = e /\ Len(inbox) \in Nat
    BY <1>1, ChannelOf, ChannelMore
  <1> QED BY <1>2 DEF Deliveries

LEMMA EventReceipts ==
  ASSUME FormInv, NEW e, Kept(e)
  PROVE  Deliveries(events') \subseteq Deliveries(events) \cup {d \in {e.id} : e.op = "delivered"}
  BY KeptAre DEF Deliveries

LEMMA TakenReceipts ==
  ASSUME NEW q, IsChannel(q), q # <<>>
  PROVE  /\ Deliveries(Tail(q)) \subseteq Deliveries(q)
         /\ q[1].op = "delivered" => q[1].id \in Deliveries(q)
  <1>1. /\ DOMAIN q = 1..Len(q) /\ DOMAIN Tail(q) = 1..Len(q) - 1 /\ Len(q) \in Nat /\ Len(q) >= 1
        /\ \A i \in 1..Len(q) - 1 : Tail(q)[i] = q[i + 1]
    BY ChannelOf, ChannelLess
  <1>2. 1 \in DOMAIN q /\ \A i \in 1..Len(q) - 1 : i + 1 \in 1..Len(q)
    BY <1>1
  <1> QED BY <1>1, <1>2 DEF Deliveries

LEMMA ReceiptInit == Init => ReceiptInv
  BY ChannelEmpty DEF Init, ConversationInit, ReceiptInv, Deliveries

LEMMA ReceiptStep ==
  ASSUME FormInv, PipeInv, ReceiptInv, Conforms, [Next]_vars
  PROVE  ReceiptInv'
  <1> USE DEF store, stream, call, session, shown
  <1>1. /\ accepted \subseteq Reported /\ Deliveries(inbox) \subseteq Reported
        /\ Deliveries(events) \subseteq Reported /\ receipts \subseteq sent
    BY DEF ReceiptInv
  <1>2. ASSUME Reported \subseteq Reported', accepted' \subseteq Reported',
               Deliveries(inbox') \subseteq Reported', Deliveries(events') \subseteq Reported',
               receipts' \subseteq sent'
        PROVE  ReceiptInv'
    BY <1>2 DEF ReceiptInv, Deliveries
  <1>3. ASSUME UNCHANGED <<sent, reply>> PROVE Reported' = Reported
    BY <1>3 DEF Reported, Carries
  <1>4. ASSUME asked # <<>>, UNCHANGED sent PROVE Reported \subseteq Reported' /\ Reported = sent
    <2>1. Reported = sent
      BY <1>4, AskedAlone DEF Reported
    <2> QED BY <1>4, <2>1 DEF Reported
  <1>5. CASE TakeReply
    <2>1. Reported' = Reported /\ sent \subseteq sent'
      BY <1>5 DEF TakeReply, Reported, Carries
    <2>2. UNCHANGED <<accepted, inbox, events, receipts>>
      BY <1>5 DEF TakeReply
    <2> QED BY <1>1, <1>2, <2>1, <2>2
  <1>6. CASE HandleEvent
    <2>1. /\ events # <<>> /\ events' = Tail(events) /\ UNCHANGED <<inbox, reply, accepted, sent>>
          /\ receipts' = IF Head(events).op = "delivered" THEN receipts \cup {Head(events).id}
                         ELSE receipts
          /\ Idle
      BY <1>6 DEF HandleEvent, Free
    <2>2. Reported = sent /\ Reported' = Reported
      BY <1>3, <2>1, AtRest DEF Reported
    <2>3. Deliveries(events') \subseteq Deliveries(events)
      BY <2>1, TakenReceipts DEF FormInv
    <2>4. events[1].op = "delivered" => events[1].id \in Deliveries(events)
      BY <2>1, TakenReceipts DEF FormInv
    <2>5. receipts' \subseteq sent'
      BY <1>1, <2>1, <2>2, <2>4, EventTaken
    <2> QED BY <1>1, <1>2, <2>1, <2>2, <2>3, <2>5
  <1>7. CASE HandleLine \/ Lagged \/ Leave \/ UNCHANGED vars
    <2>1. UNCHANGED <<sent, reply, accepted, inbox, events, receipts>>
      BY <1>7 DEF HandleLine, Lagged, Leave, vars, conversation
    <2> QED BY <1>1, <1>2, <1>3, <2>1
  <1>8. CASE File /\ UNCHANGED loopVars
    <2>1. UNCHANGED <<sent, reply, accepted, inbox, events, receipts>>
      BY <1>8 DEF File, loopVars
    <2> QED BY <1>1, <1>2, <1>3, <2>1
  <1>9. CASE Transport /\ UNCHANGED loopVars
    <2>1. PICK e : HandsOver(e)
      BY <1>9, TransportMeans
    <2>2. /\ UNCHANGED <<sent, reply, events, receipts>> /\ accepted' \subseteq accepted
          /\ inbox' = Append(inbox, e) /\ (e.op = "delivered" => e.id \in accepted)
      BY <1>9, <2>1 DEF HandsOver, loopVars
    <2>3. Deliveries(inbox') \subseteq Reported
      BY <1>1, <2>2, InboxReceipts
    <2> QED BY <1>1, <1>2, <1>3, <2>2, <2>3
  <1>10. CASE OnAppEvent /\ UNCHANGED loopVars
    <2>1. /\ inbox # <<>> /\ inbox' = Tail(inbox)
          /\ UNCHANGED <<sent, reply, accepted, receipts>>
      BY <1>10 DEF OnAppEvent, loopVars
    <2>2. PICK e : Kept(e) /\ (e = inbox[1] \/ e = [op |-> "undecodable"])
      BY <1>10, OnAppEventMeans
    <2>3. Deliveries(inbox') \subseteq Deliveries(inbox)
          /\ (inbox[1].op = "delivered" => inbox[1].id \in Deliveries(inbox))
      BY <2>1, TakenReceipts DEF FormInv
    <2>4. Deliveries(events') \subseteq Deliveries(events) \cup Deliveries(inbox)
      BY <2>2, <2>3, EventReceipts
    <2> QED BY <1>1, <1>2, <1>3, <2>1, <2>3, <2>4
  <1>11. CASE (OnShutdown \/ Shutdown) /\ UNCHANGED loopVars
    <2>1. Publish([op |-> "shutdown"]) /\ inbox' = <<>> /\ UNCHANGED <<sent, receipts, accepted>>
      BY <1>11 DEF OnShutdown, Shutdown, Finish, loopVars
    <2>2. Kept([op |-> "shutdown"])
      BY <2>1, PublishMeans
    <2>3. Deliveries(events') \subseteq Deliveries(events)
      BY <2>2, EventReceipts
    <2>4. Deliveries(inbox') = {}
      BY <2>1, ChannelEmpty DEF Deliveries
    <2>5. Reported \subseteq Reported'
      BY <1>3, <1>4, <1>11, <2>1 DEF OnShutdown, Shutdown, Serving
    <2> QED BY <1>1, <1>2, <2>1, <2>3, <2>4, <2>5
  <1>12. CASE Modest /\ UNCHANGED loopVars
    <2>1. PICK answer : Serves(answer)
      BY <1>12, ModestMeans
    <2>2. /\ asked # <<>> /\ UNCHANGED <<sent, receipts, inbox, events>> /\ reply' = <<answer>>
          /\ \/ UNCHANGED accepted
             \/ /\ asked[1].op = "send" /\ answer = [op |-> "sent", id |-> asked[1].id]
                /\ accepted' = accepted \cup {asked[1].id}
      BY <1>12, <2>1 DEF Serves, loopVars
    <2>3. Reported \subseteq Reported' /\ Reported = sent
      BY <1>4, <2>2
    <2>4. accepted' \subseteq Reported'
      <3>1. asked[1].op = "send" => asked[1].id # 0
        BY <2>2 DEF PipeInv, AskedInv
      <3>2. CASE answer = [op |-> "sent", id |-> asked[1].id] /\ asked[1].id # 0
        BY <1>1, <2>2, <2>3, <3>2 DEF Reported, Carries
      <3> QED BY <1>1, <2>2, <2>3, <3>1, <3>2
    <2> QED BY <1>1, <1>2, <2>2, <2>3, <2>4
  <1>13. CASE (SessionInfo \/ NotRunning) /\ UNCHANGED loopVars
    <2>1. asked # <<>> /\ UNCHANGED <<sent, receipts, inbox, events, accepted>>
      BY <1>13 DEF SessionInfo, NotRunning, Serving, loopVars
    <2> QED BY <1>1, <1>2, <1>4, <2>1
  <1>14. CASE (SetNickname \/ SetStatus) /\ UNCHANGED loopVars
    <2>1. asked # <<>> /\ UNCHANGED <<sent, receipts, inbox, accepted>>
      BY <1>14 DEF SetNickname, SetStatus, Serving, loopVars
    <2>2. events' = events \/ \E e : e.op \in {"nick", "status"} /\ Publish(e)
      BY <1>14 DEF SetNickname, SetStatus
    <2>3. Deliveries(events') \subseteq Deliveries(events)
      BY <2>2, PublishMeans, EventReceipts
    <2> QED BY <1>1, <1>2, <1>4, <2>1, <2>3
  <1> QED BY <1>5, <1>6, <1>7, <1>8, <1>9, <1>10, <1>11, <1>12, <1>13, <1>14, StepKinds
     DEF LoopStep, CoreStep

LEMMA FiledInit == Init => FiledInv
  BY ChannelEmpty DEF Init, ConversationInit, FiledInv

LEMMA FiledStep ==
  ASSUME FormInv, PipeInv, FiledInv, Conforms, [Next]_vars
  PROVE  FiledInv'
  <1> USE DEF store, stream, call, session, shown
  <1> DEFINE FiledHead == filed => inbox # <<>> /\ Readable(inbox[1]) /\ inbox[1].id \in rows \cup unsaved
             FiledEvents == \A i \in DOMAIN events : IsMessage(events[i]) => events[i].id \in rows \cup unsaved
             FiledRead == read \subseteq rows \cup unsaved
  <1>1. FiledHead /\ FiledEvents /\ FiledRead
    BY DEF FiledInv
  <1>2. ASSUME FiledHead', FiledEvents', FiledRead' PROVE FiledInv'
    BY <1>2 DEF FiledInv
  <1>3. ASSUME UNCHANGED <<filed, inbox, rows, unsaved>> PROVE FiledHead'
    BY <1>1, <1>3 DEF Readable, IsMessage
  <1>4. ASSUME UNCHANGED <<events, rows, unsaved>> PROVE FiledEvents'
    BY <1>1, <1>4 DEF IsMessage
  <1>5. ASSUME UNCHANGED <<read, rows, unsaved>> PROVE FiledRead'
    BY <1>1, <1>5
  <1>6. ASSUME UNCHANGED <<rows, unsaved>>, NEW e, Kept(e), ~IsMessage(e) \/ e.id \in rows \cup unsaved
        PROVE  FiledEvents'
    BY <1>1, <1>6, KeptAre
  <1>7. ASSUME ~filed' PROVE FiledHead'
    BY <1>7
  <1> HIDE DEF FiledHead, FiledEvents, FiledRead
  <1>8. CASE TakeReply \/ HandleLine \/ Lagged \/ Leave \/ UNCHANGED vars
    BY <1>2, <1>3, <1>4, <1>5, <1>8 DEF TakeReply, HandleLine, Lagged, Leave, vars, conversation
  <1>9. CASE HandleEvent
    <2>1. /\ events # <<>> /\ events' = Tail(events) /\ UNCHANGED <<filed, inbox, rows, unsaved>>
          /\ read' = IF IsMessage(Head(events)) THEN read \cup {Head(events).id} ELSE read
      BY <1>9 DEF HandleEvent
    <2>2. FiledEvents'
      BY <1>1, <2>1, EventTaken DEF FiledEvents
    <2>3. 1 \in DOMAIN events /\ Head(events) = events[1]
      BY <2>1, EventTaken
    <2>4. FiledRead'
      BY <1>1, <2>1, <2>3 DEF FiledEvents, FiledRead
    <2> QED BY <1>2, <1>3, <2>1, <2>2, <2>4
  <1>10. CASE File /\ UNCHANGED loopVars
    <2>1. /\ inbox # <<>> /\ Readable(Head(inbox)) /\ SaveMessage(Head(inbox).id)
          /\ UNCHANGED <<inbox, events, read>>
      BY <1>10 DEF File, loopVars
    <2>2. rows \cup unsaved \subseteq rows' \cup unsaved' /\ Head(inbox).id \in rows' \cup unsaved'
      BY <2>1 DEF SaveMessage
    <2>3. Head(inbox) = inbox[1]
      BY <2>1, InboxConforms DEF Conforms
    <2>4. FiledHead'
      BY <2>1, <2>2, <2>3 DEF FiledHead, Readable, IsMessage
    <2>5. FiledEvents' /\ FiledRead'
      BY <1>1, <2>1, <2>2 DEF FiledEvents, FiledRead, IsMessage
    <2> QED BY <1>2, <2>4, <2>5
  <1>11. CASE Transport /\ UNCHANGED loopVars
    <2>1. PICK e : HandsOver(e)
      BY <1>11, TransportMeans
    <2>2. inbox' = Append(inbox, e) /\ UNCHANGED <<filed, rows, unsaved, events, read>>
      BY <1>11, <2>1 DEF HandsOver, loopVars
    <2>3. inbox # <<>> => Append(inbox, e) # <<>> /\ Append(inbox, e)[1] = inbox[1]
      <3>1. /\ Len(inbox) \in Nat /\ IsChannel(inbox) /\ Len(Append(inbox, e)) = Len(inbox) + 1
            /\ \A i \in 1..Len(inbox) : Append(inbox, e)[i] = inbox[i]
        BY ChannelOf, ChannelMore DEF FormInv
      <3>2. inbox # <<>> => Len(inbox) >= 1
        BY <3>1, ChannelLess
      <3>3. Append(inbox, e) # <<>>
        BY <3>1, ChannelEmpty
      <3> QED BY <3>1, <3>2, <3>3
    <2>4. FiledHead'
      BY <1>1, <2>2, <2>3 DEF FiledHead, Readable, IsMessage
    <2> QED BY <1>2, <1>4, <1>5, <2>2, <2>4
  <1>12. CASE OnAppEvent /\ UNCHANGED loopVars
    <2>1. ~filed' /\ UNCHANGED <<rows, unsaved, read>>
      BY <1>12 DEF OnAppEvent, loopVars
    <2>2. PICK e : Kept(e) /\ (IsMessage(e) => e = inbox[1] /\ filed)
      BY <1>12, OnAppEventMeans
    <2>3. ~IsMessage(e) \/ e.id \in rows \cup unsaved
      BY <1>1, <2>2 DEF FiledHead
    <2>4. FiledEvents'
      BY <1>6, <2>1, <2>2, <2>3
    <2> QED BY <1>2, <1>5, <1>7, <2>1, <2>4
  <1>13. CASE (OnShutdown \/ Shutdown) /\ UNCHANGED loopVars
    <2>1. Publish([op |-> "shutdown"]) /\ UNCHANGED <<filed, rows, unsaved, read>>
      BY <1>13 DEF OnShutdown, Shutdown, Finish, loopVars
    <2>2. ~filed
      <3>1. CASE OnShutdown
        <4>1. inbox # <<>> /\ Head(inbox).op = "shutdown"
          BY <3>1 DEF OnShutdown
        <4>2. ~Readable(inbox[1])
          BY <4>1, InboxConforms DEF Conforms, Readable, IsMessage
        <4> QED BY <1>1, <4>2 DEF FiledHead
      <3> QED BY <1>13, <3>1 DEF Shutdown, Serving
    <2>3. Kept([op |-> "shutdown"])
      BY <2>1, PublishMeans
    <2>4. FiledEvents'
      BY <1>6, <2>1, <2>3 DEF IsMessage
    <2> QED BY <1>2, <1>5, <1>7, <2>1, <2>2, <2>4
  <1>14. CASE Modest /\ UNCHANGED loopVars
    <2>1. UNCHANGED <<filed, inbox, rows, unsaved, events, read>>
      BY <1>14, ModestMeans DEF Serves, loopVars
    <2> QED BY <1>2, <1>3, <1>4, <1>5, <2>1
  <1>15. CASE (SessionInfo \/ NotRunning) /\ UNCHANGED loopVars
    <2>1. UNCHANGED <<filed, inbox, rows, unsaved, events, read>>
      BY <1>15 DEF SessionInfo, NotRunning, loopVars
    <2> QED BY <1>2, <1>3, <1>4, <1>5, <2>1
  <1>16. CASE (SetNickname \/ SetStatus) /\ UNCHANGED loopVars
    <2>1. UNCHANGED <<filed, inbox, rows, unsaved, read>>
      BY <1>16 DEF SetNickname, SetStatus, loopVars
    <2>2. events' = events \/ \E e : e.op \in {"nick", "status"} /\ Publish(e)
      BY <1>16 DEF SetNickname, SetStatus
    <2>3. FiledEvents'
      BY <1>4, <1>6, <2>1, <2>2, PublishMeans DEF IsMessage
    <2> QED BY <1>2, <1>3, <1>5, <2>1, <2>3
  <1> QED BY <1>8, <1>9, <1>10, <1>11, <1>12, <1>13, <1>14, <1>15, <1>16, StepKinds
     DEF LoopStep, CoreStep

-----------------------------------------------------------------------------
(* The panel                                                                   *)

LEMMA ContactsStep ==
  ASSUME FormInv, PipeInv, ContactsInv, Conforms, [Next]_vars
  PROVE  ContactsInv'
  <1> USE DEF store, stream, call, session, shown
  <1>1. ASSUME UNCHANGED <<core, asked, doing, reply, panel>> PROVE ContactsInv'
    BY <1>1 DEF ContactsInv, AwaitsContacts, View, Carries
  <1>2. ASSUME ~core'.up PROVE ContactsInv'
    BY <1>2 DEF ContactsInv
  <1>3. ASSUME Idle, UNCHANGED <<core, reply>>, panel'.contacts = panel.contacts
        PROVE  ContactsInv'
    <2>1. ~AwaitsContacts /\ View("contacts") = panel
      BY <1>3, AtRest
    <2>2. View("contacts")' = panel'
      BY <1>3 DEF View, Carries, Idle
    <2> QED BY <1>3, <2>1, <2>2 DEF ContactsInv
  <1>4. ASSUME asked # <<>>, UNCHANGED loopVars, core'.up = core.up,
               core'.contacts = core.contacts \/ doing \in {Refresh, Tail(Refresh)},
               NEW answer, reply' = <<answer>>,
               asked[1].op = "contacts" <=> answer.op = "contacts",
               answer.op = "contacts" => answer.contacts = core.contacts
        PROVE  ContactsInv'
    <2>1. UNCHANGED <<doing, panel>>
      BY <1>4 DEF loopVars
    <2>2. CASE doing \in {Refresh, Tail(Refresh)}
      BY <2>1, <2>2 DEF ContactsInv, AwaitsContacts
    <2>3. CASE doing \notin {Refresh, Tail(Refresh)} /\ asked[1].op = "contacts"
      <3>1. View("contacts")'.contacts = core'.contacts
        BY <1>4, <2>3 DEF View, Carries
      <3> QED BY <3>1 DEF ContactsInv
    <2>4. CASE doing \notin {Refresh, Tail(Refresh)} /\ asked[1].op # "contacts"
      <3>1. ~AwaitsContacts /\ View("contacts") = panel
        BY <1>4, <2>4, AskedAlone DEF AwaitsContacts
      <3>2. View("contacts")' = panel'
        BY <1>4, <2>4 DEF View, Carries
      <3> QED BY <1>4, <2>1, <2>4, <3>1, <3>2 DEF ContactsInv
    <2> QED BY <2>2, <2>3, <2>4
  <1>5. CASE TakeReply
    <2>1. /\ reply # <<>> /\ reply' = <<>> /\ panel' = Told(reply[1]) /\ UNCHANGED core
          /\ Ask(IF reply[1].op = "requests" THEN Resolved(reply[1].requests) ELSE doing)
      BY <1>5 DEF TakeReply
    <2>2. View("contacts")' = panel'
      BY <2>1 DEF View, Carries
    <2>3. asked = <<>> /\ (reply[1].op = "contacts" => doing = <<>>)
          /\ (reply[1].op = "requests" => doing = <<>> \/ doing \in Answering)
      BY <2>1 DEF PipeInv, RepliedInv
    <2>4. CASE doing \in {Refresh, Tail(Refresh)}
      <3>1. Ask(doing)
        BY <2>1, <2>3, <2>4, Refreshes
      <3>2. doing' = Tail(Refresh) \/ asked' = <<[op |-> "contacts"]>>
        BY <2>4, <3>1, AskRefresh, AskOne, Refreshes
      <3> QED BY <3>2 DEF ContactsInv, AwaitsContacts
    <2>5. CASE doing \notin {Refresh, Tail(Refresh)}
      <3>1. ~AwaitsContacts
        BY <2>3, <2>5 DEF AwaitsContacts
      <3>2. panel'.contacts = View("contacts").contacts
        BY <2>1, ToldMeans DEF View, Carries
      <3> QED BY <2>1, <2>2, <3>1, <3>2 DEF ContactsInv
    <2> QED BY <2>4, <2>5
  <1>6. CASE HandleLine \/ Leave
    <2>1. Idle /\ UNCHANGED <<core, reply, panel>>
      BY <1>6 DEF HandleLine, Leave, Free
    <2> QED BY <1>3, <2>1
  <1>7. CASE HandleEvent
    <2>1. Idle /\ events # <<>> /\ panel' = Told(Head(events)) /\ UNCHANGED <<core, reply>>
      BY <1>7 DEF HandleEvent, Free
    <2>2. Head(events).op # "contacts"
      BY <2>1, EventTaken DEF Conforms, Said, CoreEvent, AppEvent
    <2>3. panel'.contacts = panel.contacts
      BY <2>1, <2>2, ToldMeans
    <2> QED BY <1>3, <2>1, <2>3
  <1>8. CASE Lagged \/ UNCHANGED vars
    BY <1>1, <1>8 DEF Lagged, vars, conversation
  <1>9. CASE (File \/ Transport) /\ UNCHANGED loopVars
    <2>1. UNCHANGED <<core, asked, reply>>
      BY <1>9, TransportMeans DEF File, HandsOver
    <2> QED BY <1>1, <1>9, <2>1 DEF loopVars
  <1>10. CASE OnAppEvent /\ UNCHANGED loopVars
    <2>1. core' = Remembers(Head(inbox)) /\ UNCHANGED <<asked, reply, doing, panel>>
      BY <1>10 DEF OnAppEvent, loopVars
    <2>2. core'.up = core.up /\ core'.contacts = core.contacts
      BY <2>1 DEF Remembers, FormInv, CoreForm
    <2> QED BY <2>1, <2>2 DEF ContactsInv, AwaitsContacts, View, Carries
  <1>11. CASE OnShutdown \/ Shutdown \/ NotRunning
    BY <1>2, <1>11 DEF OnShutdown, Shutdown, Finish, NotRunning, FormInv, CoreForm
  <1>12. CASE Modest /\ UNCHANGED loopVars
    <2>1. PICK answer : Serves(answer)
      BY <1>12, ModestMeans
    <2>2. asked[1].op \in Changing => doing = Refresh
      BY <2>1, AskedAlone DEF Serves
    <2> QED BY <1>4, <1>12, <2>1, <2>2 DEF Serves
  <1>13. CASE SessionInfo /\ UNCHANGED loopVars
    <2>1. PICK answer : reply' = <<answer>> /\ answer.op = "session"
      BY <1>13 DEF SessionInfo, Answer
    <2>2. asked # <<>> /\ asked[1].op = "session" /\ core'.up = core.up
      BY <1>13 DEF SessionInfo, Serving, FormInv, CoreForm
    <2> QED BY <1>4, <1>13, <2>1, <2>2, AskedAlone
  <1>14. CASE (SetNickname \/ SetStatus) /\ UNCHANGED loopVars
    <2>1. PICK answer : reply' = <<answer>> /\ answer.op \in {"nick", "status"}
      BY <1>14 DEF SetNickname, SetStatus, Answer
    <2>2. asked # <<>> /\ asked[1].op \in {"nick", "status"} /\ core'.up = core.up
          /\ core'.contacts = core.contacts
      BY <1>14 DEF SetNickname, SetStatus, Serving, FormInv, CoreForm
    <2> QED BY <1>4, <1>14, <2>1, <2>2
  <1> QED BY <1>5, <1>6, <1>7, <1>8, <1>9, <1>10, <1>11, <1>12, <1>13, <1>14, StepKinds
     DEF LoopStep, CoreStep

(* An event that is published leaves the panel to be told as before, or is what  *)
(* tells it.                                                                  *)
LEMMA StillShown ==
  ASSUME FormInv, NEW e, Kept(e), Settled, core.groups \subseteq core'.groups,
         core'.active = core.active, UNCHANGED <<peers, tox>>,
         View("session")' = View("session"),
         Tells(inbox, Notices) => Tells(inbox', Notices) \/ e.op \in Notices,
         core'.nick = core.nick \/ e.op = "nick",
         core'.status = core.status \/ e.op = "status",
         Carries("nick") => Carries("nick")', Carries("status") => Carries("status")'
  PROVE  Settled'
  <1>1. SessionShown'
    BY DEF Settled, SessionShown
  <1>2. missed => missed'
    BY DEF Kept, FormInv
  <1>3. TransportShown'
    <2>1. Tells(events, Notices) \/ e.op \in Notices => missed' \/ Tells(events', Notices)
      BY KeptTells
    <2> QED BY <1>2, <2>1 DEF Settled, TransportShown, Tells
  <1>4. NickShown'
    <2>1. Tells(events, {"nick"}) \/ e.op \in {"nick"} => missed' \/ Tells(events', {"nick"})
      BY KeptTells
    <2> QED BY <1>2, <2>1 DEF Settled, NickShown, Tells
  <1>5. StatusShown'
    <2>1. Tells(events, {"status"}) \/ e.op \in {"status"} => missed' \/ Tells(events', {"status"})
      BY KeptTells
    <2> QED BY <1>2, <2>1 DEF Settled, StatusShown, Tells
  <1> QED BY <1>1, <1>3, <1>4, <1>5 DEF Settled

(* What an event tells without a refresh.                                     *)
LEMMA EventTells ==
  ASSUME FormInv, Conforms, NewestInv, Settled, Idle, events # <<>>, events' = Tail(events),
         panel' = Told(Head(events)), UNCHANGED <<core, peers, tox, inbox, missed, reply>>,
         Head(events).op \notin Notices
  PROVE  Settled'
  <1> DEFINE event == Head(events)
  <1>1. event = events[1] /\ 1 \in DOMAIN events /\ DOMAIN events = 1..Len(events)
        /\ DOMAIN events' = 1..Len(events) - 1 /\ Len(events) \in Nat
        /\ \A i \in 1..Len(events) - 1 : events'[i] = events[i + 1]
    BY EventTaken
  <1>2. event.op \in CoreEvent /\ event.op \notin Notices
    BY <1>1 DEF Conforms, Said
  <1>3. /\ panel'.peers = panel.peers /\ panel'.supported = panel.supported
        /\ panel'.groups = panel.groups /\ panel'.invites = panel.invites
        /\ panel'.requests = panel.requests /\ panel'.active = panel.active
        /\ panel'.nick = IF event.op = "nick" THEN event.nick ELSE panel.nick
        /\ panel'.status = IF event.op = "status" THEN event.status ELSE panel.status
    <2>1. event.op # "session" /\ event.op # "select"
      BY <1>2 DEF CoreEvent, AppEvent
    <2> HIDE DEF event
    <2>2. panel' = Told(event)
      BY DEF event
    <2> QED BY <2>1, <2>2, ToldMeans
  <1>4. View("session") = panel /\ View("session")' = panel' /\ \A op : ~Carries(op)
    BY DEF View, Carries, Idle
  <1>5. ASSUME NEW ops PROVE Tells(events, ops) => Tells(events', ops) \/ event.op \in ops
    BY <1>1, TellsLess DEF FormInv
  <1>6. ASSUME NEW op, event.op = op, ~Tells(events', {op}) PROVE Newest(1, op)
    <2>1. ASSUME NEW j \in DOMAIN events, j > 1 PROVE events[j].op # op
      <3>1. j - 1 \in DOMAIN events' /\ j - 1 + 1 = j
        BY <1>1, <2>1
      <3>2. events'[j - 1] = events[j]
        BY <1>1, <3>1
      <3> QED BY <1>6, <3>1, <3>2 DEF Tells
    <2> QED BY <1>1, <1>6, <2>1 DEF Newest
  <1> HIDE DEF event
  <1>7. SessionShown'
    BY <1>3, <1>4 DEF Settled, SessionShown
  <1>8. TransportShown'
    BY <1>2, <1>3, <1>4, <1>5 DEF Settled, TransportShown, Tells
  <1>9. NickShown'
    <2>1. Tells(events, {"nick"}) => Tells(events', {"nick"}) \/ event.op = "nick"
      BY <1>5
    <2>2. event.op = "nick" /\ ~Tells(events', {"nick"}) => event.nick = core.nick
      BY <1>1, <1>6 DEF NewestInv, NewestEvents
    <2>3. missed \/ Tells(events, {"nick"}) \/ panel.nick = core.nick
      BY <1>4 DEF Settled, NickShown
    <2>4. missed' \/ Tells(events', {"nick"}) \/ panel'.nick = core'.nick
      BY <1>3, <2>1, <2>2, <2>3
    <2> QED BY <1>4, <2>4 DEF NickShown, Tells
  <1>10. StatusShown'
    <2>1. Tells(events, {"status"}) => Tells(events', {"status"}) \/ event.op = "status"
      BY <1>5
    <2>2. event.op = "status" /\ ~Tells(events', {"status"}) => event.status = core.status
      BY <1>1, <1>6 DEF NewestInv, NewestEvents
    <2>3. missed \/ Tells(events, {"status"}) \/ panel.status = core.status
      BY <1>4 DEF Settled, StatusShown
    <2>4. missed' \/ Tells(events', {"status"}) \/ panel'.status = core'.status
      BY <1>3, <2>1, <2>2, <2>3
    <2> QED BY <1>4, <2>4 DEF StatusShown, Tells
  <1> QED BY <1>7, <1>8, <1>9, <1>10 DEF Settled

LEMMA SessionStep ==
  ASSUME FormInv, PipeInv, SessionInv, NewestInv, Conforms, [Next]_vars
  PROVE  SessionInv'
  <1> USE DEF store, stream, call, session, shown
  <1>1. ASSUME ~core'.up PROVE SessionInv'
    BY <1>1 DEF SessionInv
  <1>2. ASSUME UNCHANGED <<core, asked, doing, reply, panel, peers, tox, inbox, events, missed>>
        PROVE  SessionInv'
    BY <1>2 DEF SessionInv, AwaitsSession, Settled, SessionShown, TransportShown, NickShown,
                StatusShown, Tells, View, Carries
  <1>3. ASSUME Idle, core.up PROVE Settled /\ View("session") = panel
    BY <1>3, AtRest DEF SessionInv
  <1>4. ASSUME asked # <<>>, asked[1].op \in Alone \ {"session"}, core.up
        PROVE  Settled /\ View("session") = panel /\ \A op : ~Carries(op)
    BY <1>4, AskedAlone DEF SessionInv, AwaitsSession
  <1>5. CASE TakeReply
    <2>1. /\ reply # <<>> /\ reply' = <<>> /\ panel' = Told(reply[1])
          /\ UNCHANGED <<core, peers, tox, inbox, events, missed>>
          /\ Ask(IF reply[1].op = "requests" THEN Resolved(reply[1].requests) ELSE doing)
      BY <1>5 DEF TakeReply
    <2>2. View("session")' = panel' /\ \A op : ~Carries(op)'
      BY <2>1 DEF View, Carries
    <2>3. asked = <<>> /\ (reply[1].op = "select" => doing = Refresh)
          /\ (reply[1].op = "requests" => doing = <<>> \/ doing \in Answering)
      BY <2>1 DEF PipeInv, RepliedInv
    <2>4. CASE doing = Refresh
      <3>1. Ask(Refresh)
        BY <2>1, <2>3, <2>4, Refreshes
      <3> QED BY <3>1, AskRefresh DEF SessionInv, AwaitsSession
    <2>5. CASE doing # Refresh /\ core.up
      <3>1. Settled
        BY <2>3, <2>5 DEF SessionInv, AwaitsSession
      <3>2. CASE reply[1].op = "session"
        <4>1. View("session") = reply[1]
          BY <2>1, <3>2 DEF View, Carries
        <4>2. /\ panel'.nick = reply[1].nick /\ panel'.status = reply[1].status
              /\ panel'.active = reply[1].active /\ panel'.peers = reply[1].peers
              /\ panel'.supported = reply[1].supported /\ panel'.groups = reply[1].groups
              /\ panel'.invites = reply[1].invites /\ panel'.requests = reply[1].requests
          BY <2>1, <3>2, ToldMeans
        <4>3. SessionShown' /\ TransportShown'
          BY <2>1, <2>2, <3>1, <4>1, <4>2 DEF Settled, SessionShown, TransportShown, Tells
        <4>4. ~Carries("nick") /\ ~Carries("status")
          BY <3>2 DEF Carries
        <4>5. NickShown' /\ StatusShown'
          BY <2>1, <2>2, <3>1, <4>1, <4>2, <4>4 DEF Settled, NickShown, StatusShown, Tells
        <4> QED BY <4>3, <4>5 DEF SessionInv, Settled
      <3>3. CASE reply[1].op # "session"
        <4>1. View("session") = panel
          BY <3>3 DEF View, Carries
        <4>2. /\ panel'.peers = panel.peers /\ panel'.supported = panel.supported
              /\ panel'.groups = panel.groups /\ panel'.invites = panel.invites
              /\ panel'.requests = panel.requests /\ panel'.active = panel.active
              /\ panel'.nick = IF reply[1].op = "nick" THEN reply[1].nick ELSE panel.nick
              /\ panel'.status = IF reply[1].op = "status" THEN reply[1].status ELSE panel.status
          BY <2>1, <2>3, <2>5, <3>3, ToldMeans
        <4>3. SessionShown' /\ TransportShown'
          BY <2>1, <2>2, <3>1, <4>1, <4>2 DEF Settled, SessionShown, TransportShown, Tells
        <4>4. /\ Carries("nick") <=> reply[1].op = "nick"
              /\ Carries("status") <=> reply[1].op = "status"
              /\ reply[1].op = "nick" => reply[1].nick = core.nick
              /\ reply[1].op = "status" => reply[1].status = core.status
          BY <2>1 DEF NewestInv, NewestReply, Carries
        <4>5. NickShown' /\ StatusShown'
          BY <2>1, <2>2, <3>1, <4>1, <4>2, <4>4 DEF Settled, NickShown, StatusShown, Tells
        <4> QED BY <4>3, <4>5 DEF SessionInv, Settled
      <3> QED BY <3>2, <3>3
    <2> QED BY <1>1, <2>1, <2>4, <2>5
  <1>6. CASE HandleLine \/ Leave
    <2>1. Idle /\ UNCHANGED <<core, reply, panel, peers, tox, inbox, events, missed>>
      BY <1>6 DEF HandleLine, Leave, Free
    <2>2. core.up => Settled'
      BY <1>3, <2>1 DEF Settled, SessionShown, TransportShown, NickShown, StatusShown, Tells, View,
                        Carries
    <2> QED BY <2>1, <2>2 DEF SessionInv
  <1>7. CASE HandleEvent
    <2>1. /\ Idle /\ events # <<>> /\ events' = Tail(events) /\ panel' = Told(Head(events))
          /\ UNCHANGED <<core, peers, tox, inbox, missed, reply>>
          /\ IF Head(events).op = "shutdown" THEN RequestShutdown
             ELSE Ask(IF Head(events).op \in {"message", "group", "changed", "peer", "request", "invite"}
                      THEN Refresh ELSE <<>>)
      BY <1>7 DEF HandleEvent, Free
    <2>2. CASE Head(events).op \in Notices
      <3>1. Ask(Refresh)
        BY <2>1, <2>2 DEF Notices
      <3> QED BY <3>1, AskRefresh DEF SessionInv, AwaitsSession
    <2>3. CASE Head(events).op \notin Notices /\ core.up
      <3>1. Settled
        BY <1>3, <2>1, <2>3
      <3> QED BY <2>1, <2>3, <3>1, EventTells DEF SessionInv
    <2> QED BY <1>1, <2>1, <2>2, <2>3
  <1>8. CASE Lagged \/ UNCHANGED vars
    BY <1>2, <1>8 DEF Lagged, vars, conversation
  <1>9. CASE File /\ UNCHANGED loopVars
    BY <1>2, <1>9 DEF File, loopVars
  <1>10. CASE Transport /\ UNCHANGED loopVars
    <2>1. PICK e : HandsOver(e)
      BY <1>10, TransportMeans
    <2>2. /\ core.up /\ inbox' = Append(inbox, e) /\ tox'.supported = tox.supported
          /\ UNCHANGED <<core, asked, doing, reply, panel, events, missed>>
          /\ e.op \in Notices \/ UNCHANGED <<peers, tox>>
      BY <1>10, <2>1 DEF HandsOver, loopVars
    <2>3. Tells(inbox', Notices) <=> Tells(inbox, Notices) \/ e.op \in Notices
      BY <2>2, TellsMore DEF FormInv
    <2>4. View("session")' = View("session") /\ \A op : Carries(op)' = Carries(op)
      BY <2>2 DEF View, Carries
    <2>5. Settled => Settled'
      <3>1. SessionShown => SessionShown'
        BY <2>2, <2>4 DEF SessionShown
      <3>2. TransportShown => TransportShown'
        BY <2>2, <2>3, <2>4 DEF TransportShown, Tells
      <3>3. (NickShown => NickShown') /\ (StatusShown => StatusShown')
        BY <2>2, <2>4 DEF NickShown, StatusShown, Tells
      <3> QED BY <3>1, <3>2, <3>3 DEF Settled
    <2> QED BY <2>2, <2>5 DEF SessionInv, AwaitsSession
  <1>11. CASE OnAppEvent /\ UNCHANGED loopVars
    <2>1. /\ core.up /\ inbox # <<>> /\ inbox' = Tail(inbox) /\ core' = Remembers(Head(inbox))
          /\ UNCHANGED <<peers, tox, asked, reply, doing, panel>>
      BY <1>11 DEF OnAppEvent, loopVars
    <2>2. core'.active = core.active /\ core.groups \subseteq core'.groups
          /\ core'.nick = core.nick /\ core'.status = core.status
      BY <2>1 DEF Remembers, FormInv, CoreForm
    <2>3. PICK e : /\ Kept(e)
                   /\ e = inbox[1] \/ (e = [op |-> "undecodable"] /\ IsMessage(inbox[1]))
      BY <1>11, OnAppEventMeans
    <2>4. View("session")' = View("session") /\ \A op : Carries(op)' = Carries(op)
      BY <2>1 DEF View, Carries
    <2>5. Tells(inbox, Notices) => Tells(inbox', Notices) \/ e.op \in Notices
      <3>1. Tells(inbox, Notices) => Tells(inbox', Notices) \/ inbox[1].op \in Notices
        BY <2>1, TellsLess DEF FormInv
      <3> QED BY <2>3, <3>1 DEF Notices, IsMessage
    <2>6. Settled => Settled'
      BY <2>1, <2>2, <2>3, <2>4, <2>5, StillShown
    <2> QED BY <2>1, <2>6 DEF SessionInv, AwaitsSession
  <1>12. CASE OnShutdown \/ Shutdown \/ NotRunning
    BY <1>1, <1>12 DEF OnShutdown, Shutdown, Finish, NotRunning, FormInv, CoreForm
  <1>13. CASE Modest /\ UNCHANGED loopVars
    <2>1. PICK answer : Serves(answer)
      BY <1>13, ModestMeans
    <2>2. UNCHANGED <<doing, panel>>
      BY <1>13 DEF loopVars
    <2>3. CASE asked[1].op \in Changing
      <3>1. doing' = Refresh
        BY <2>1, <2>2, <2>3, AskedAlone DEF Serves
      <3> QED BY <3>1 DEF SessionInv, AwaitsSession
    <2>4. CASE asked[1].op \in Alone /\ asked[1].op \notin Changing
      <3>1. Settled /\ View("session") = panel /\ \A op : ~Carries(op)
        BY <1>4, <2>1, <2>4 DEF Serves, Alone, Reports, Lists, Settings
      <3>2. /\ core.up /\ core'.up = core.up /\ core'.nick = core.nick /\ core'.status = core.status
            /\ core'.active = core.active /\ core.groups \subseteq core'.groups
            /\ UNCHANGED <<peers, tox, inbox, events, missed>>
            /\ reply' = <<answer>> /\ answer.op # "session"
        BY <2>1, <2>4 DEF Serves
      <3>3. View("session")' = panel'
        BY <3>2 DEF View, Carries
      <3>4. SessionShown' /\ TransportShown'
        BY <2>2, <3>1, <3>2, <3>3 DEF Settled, SessionShown, TransportShown, Tells
      <3>5. NickShown' /\ StatusShown'
        BY <2>2, <3>1, <3>2, <3>3 DEF Settled, NickShown, StatusShown, Tells
      <3> QED BY <3>4, <3>5 DEF SessionInv, Settled
    <2> QED BY <2>1, <2>3, <2>4 DEF Serves
  <1>14. CASE SessionInfo /\ UNCHANGED loopVars
    <2>1. PICK groups \in RefreshedGroups :
            /\ core' = [core EXCEPT !.groups = groups]
            /\ reply' = <<[op |-> "session", nick |-> core.nick, status |-> core.status,
                           active |-> core.active, peers |-> peers, supported |-> tox.supported,
                           groups |-> groups, invites |-> tox.invites, requests |-> tox.requests]>>
      BY <1>14 DEF SessionInfo, Answer
    <2>2. UNCHANGED <<peers, tox>>
      BY <1>14 DEF SessionInfo
    <2>3. core'.nick = core.nick /\ core'.status = core.status /\ core'.active = core.active
          /\ core'.groups = groups
      BY <2>1 DEF FormInv, CoreForm
    <2>4. View("session")' = reply'[1]
      BY <2>1 DEF View, Carries
    <2>5. SessionShown' /\ TransportShown' /\ NickShown' /\ StatusShown'
      BY <2>1, <2>2, <2>3, <2>4 DEF SessionShown, TransportShown, NickShown, StatusShown
    <2> QED BY <2>5 DEF SessionInv, Settled
  <1>15. CASE SetNickname /\ UNCHANGED loopVars
    <2>1. PICK nick : /\ core' = [core EXCEPT !.nick = nick]
                      /\ reply' = <<[op |-> "nick", nick |-> nick]>>
                      /\ \/ UNCHANGED stream
                         \/ Publish([op |-> "nick", nick |-> nick])
      BY <1>15 DEF SetNickname, Answer
    <2>2. /\ asked # <<>> /\ asked[1].op = "nick" /\ core.up
          /\ UNCHANGED <<peers, tox, inbox, doing, panel>>
      BY <1>15 DEF SetNickname, Serving, loopVars
    <2>3. Settled /\ View("session") = panel /\ \A op : ~Carries(op)
      BY <1>4, <2>2 DEF Alone, Settings
    <2>4. /\ core'.active = core.active /\ core'.groups = core.groups /\ core'.status = core.status
      BY <2>1 DEF FormInv, CoreForm
    <2>5. View("session")' = panel /\ Carries("nick")'
      BY <2>1, <2>2 DEF View, Carries
    <2>6. CASE UNCHANGED stream
      <3>1. SessionShown' /\ TransportShown' /\ StatusShown'
        BY <2>2, <2>3, <2>4, <2>5, <2>6 DEF Settled, SessionShown, TransportShown, StatusShown, Tells
      <3>2. NickShown'
        BY <2>5 DEF NickShown
      <3> QED BY <3>1, <3>2 DEF Settled, SessionInv
    <2>7. CASE Publish([op |-> "nick", nick |-> nick])
      <3>1. Settled'
        BY <2>2, <2>3, <2>4, <2>5, <2>7, PublishMeans, StillShown DEF Tells
      <3> QED BY <3>1 DEF SessionInv
    <2> QED BY <2>1, <2>6, <2>7
  <1>16. CASE SetStatus /\ UNCHANGED loopVars
    <2>1. PICK status : /\ core' = [core EXCEPT !.status = status]
                        /\ reply' = <<[op |-> "status", status |-> status]>>
                        /\ \/ UNCHANGED stream
                           \/ Publish([op |-> "status", status |-> status])
      BY <1>16 DEF SetStatus, Answer
    <2>2. /\ asked # <<>> /\ asked[1].op = "status" /\ core.up
          /\ UNCHANGED <<peers, tox, inbox, doing, panel>>
      BY <1>16 DEF SetStatus, Serving, loopVars
    <2>3. Settled /\ View("session") = panel /\ \A op : ~Carries(op)
      BY <1>4, <2>2 DEF Alone, Settings
    <2>4. /\ core'.active = core.active /\ core'.groups = core.groups /\ core'.nick = core.nick
      BY <2>1 DEF FormInv, CoreForm
    <2>5. View("session")' = panel /\ Carries("status")'
      BY <2>1, <2>2 DEF View, Carries
    <2>6. CASE UNCHANGED stream
      <3>1. SessionShown' /\ TransportShown' /\ NickShown'
        BY <2>2, <2>3, <2>4, <2>5, <2>6 DEF Settled, SessionShown, TransportShown, NickShown, Tells
      <3>2. StatusShown'
        BY <2>5 DEF StatusShown
      <3> QED BY <3>1, <3>2 DEF Settled, SessionInv
    <2>7. CASE Publish([op |-> "status", status |-> status])
      <3>1. Settled'
        BY <2>2, <2>3, <2>4, <2>5, <2>7, PublishMeans, StillShown DEF Tells
      <3> QED BY <3>1 DEF SessionInv
    <2> QED BY <2>1, <2>6, <2>7
  <1> QED BY <1>5, <1>6, <1>7, <1>8, <1>9, <1>10, <1>11, <1>12, <1>13, <1>14, <1>15, <1>16, StepKinds
     DEF LoopStep, CoreStep

LEMMA PanelInit == Init => PanelInv
  BY DEF Init, ConversationInit, PanelInv, ContactsInv, SessionInv, AwaitsContacts, AwaitsSession,
         Refresh

(* The invariant, and what it comes to.                                         *)
LEMMA PanelIndInit == Init => PanelIInv
  BY FormInit, PipeInit, PanelInit, NewestInit, ReceiptInit, FiledInit, ConformsInit
     DEF PanelIInv

LEMMA PanelIndStep == PanelIInv /\ [Next]_vars => PanelIInv'
  <1> SUFFICES ASSUME PanelIInv, [Next]_vars PROVE PanelIInv'
    OBVIOUS
  <1>1. /\ FormInv /\ PipeInv /\ ContactsInv /\ SessionInv /\ NewestInv /\ ReceiptInv /\ FiledInv
        /\ Conforms
    BY DEF PanelIInv, PanelInv
  <1>2. FormInv' /\ PipeInv' /\ Conforms' /\ NewestInv'
    BY <1>1, FormStep, PipeStep, ConformsStep, NewestStep
  <1>3. ReceiptInv' /\ FiledInv'
    BY <1>1, ReceiptStep, FiledStep
  <1>4. ContactsInv' /\ SessionInv'
    BY <1>1, ContactsStep, SessionStep
  <1> QED BY <1>2, <1>3, <1>4 DEF PanelIInv, PanelInv

LEMMA PanelIsKept == Spec => []PanelIInv
  BY PanelIndInit, PanelIndStep, PTL DEF Spec

(* What the user is shown has happened (Presenter, CoreService): a delivery after  *)
(* the report that the message was sent, a message after it was filed, and every *)
(* channel in the words of the protocol; whatever the core, the transport and the *)
(* user do, and however few events the broadcast channel keeps.                 *)
THEOREM NothingIsShownEarly == Spec => []ShownIsTrue
  <1>1. PanelIInv => ShownIsTrue
    <2> SUFFICES ASSUME PanelIInv PROVE ShownIsTrue
      OBVIOUS
    <2>1. Conforms /\ receipts \subseteq sent /\ read \subseteq rows \cup unsaved
      BY DEF PanelIInv, ReceiptInv, FiledInv
    <2> QED BY <2>1 DEF ShownIsTrue, ReceiptFollowsReport, ShownIsStored
  <1> QED BY <1>1, PanelIsKept, PTL

(* Once nothing is asked and no event is left, the panel shows what the core and *)
(* the transport hold, unless the channel dropped an event since (tui_info,     *)
(* handle_command, handle_event).                                              *)
THEOREM PanelShowsTheSession == Spec => []PanelSettles
  <1>1. PanelIInv => PanelSettles
    <2> SUFFICES ASSUME PanelIInv, core.up, Idle, inbox = <<>>, events = <<>>, ~missed
                 PROVE  /\ panel.groups \subseteq core.groups
                        /\ panel = [nick |-> core.nick, status |-> core.status,
                                    active |-> core.active, peers |-> peers,
                                    contacts |-> core.contacts, supported |-> tox.supported,
                                    groups |-> panel.groups, invites |-> tox.invites,
                                    requests |-> tox.requests]
      BY DEF PanelSettles, Free
    <2>1. PipeInv /\ ContactsInv /\ SessionInv /\ PanelForm
      BY DEF PanelIInv, PanelInv, FormInv
    <2>2. /\ ~AwaitsContacts /\ ~AwaitsSession
          /\ \A op : ~Carries(op) /\ View(op) = panel
      BY <2>1, AtRest
    <2>3. \A ops : ~Tells(inbox, ops) /\ ~Tells(events, ops)
      BY ChannelEmpty DEF Tells
    <2>4. panel.contacts = core.contacts /\ Settled
      BY <2>1, <2>2 DEF ContactsInv, SessionInv
    <2>5. /\ panel.nick = core.nick /\ panel.status = core.status /\ panel.active = core.active
          /\ panel.peers = peers /\ panel.supported = tox.supported
          /\ panel.groups \subseteq core.groups
          /\ panel.invites = tox.invites /\ panel.requests = tox.requests
      BY <2>2, <2>3, <2>4 DEF Settled, SessionShown, TransportShown, NickShown, StatusShown
    <2> QED BY <2>1, <2>4, <2>5 DEF PanelForm
  <1> QED BY <1>1, PanelIsKept, PTL

-----------------------------------------------------------------------------
(* The terminal and its owner                                                  *)

(* The engine owns the screen from the first mode it sets to its end.         *)
Owning == {"spawned", "raw", "alternate", "run", "poll", "restore"}
SetUpTo(at) ==
  CASE at = "raw" -> {"raw"}
    [] at = "alternate" -> {"raw", "alternate"}
    [] at \in {"run", "poll", "restore"} ->
         {"raw", "alternate"} \cup (IF options.mouse THEN {"mouse"} ELSE {})
    [] OTHER -> {}

(* The modes are those the engine's step has set, and none once it is done; the  *)
(* capture holds as long as the engine has the screen and the front-end waits for *)
(* it; what is late, or broken, stays so.                                      *)
EngineInv ==
  /\ engine \in Owning \cup {"none", "failed", "fallback", "done"}
  /\ broken => engine \in {"failed", "fallback", "done"}
  /\ ~broken => modes = SetUpTo(engine)
OwnerInv ==
  /\ front = "off" => engine = "none"
  /\ late => front \in {"left", "ended"}
  /\ front \in {"left", "ended"} /\ ~late => engine \in {"none", "done"}
  /\ front \notin {"left", "ended"} /\ engine \in Owning => sink.enabled
  /\ sink = [enabled |-> sink.enabled, lines |-> sink.lines]
OverInv == late \/ broken \/ ~over
ScreenIInv == EngineInv /\ OwnerInv /\ OverInv

LEMMA ScreenIndInit == ScreenInit => ScreenIInv
  BY DEF ScreenInit, ScreenIInv, EngineInv, OwnerInv, OverInv, SetUpTo, Owning

LEMMA SinkKept ==
  ASSUME OwnerInv, ClearOutput PROVE sink'.enabled = sink.enabled /\ sink' = [enabled |-> sink'.enabled, lines |-> sink'.lines]
  BY DEF ClearOutput, OwnerInv

(* What leaves the engine, the front-end and the capture alone.               *)
LEMMA ScreenStutter ==
  ASSUME ScreenIInv, UNCHANGED <<options, front, engine, modes, broken, late, over>>,
         sink'.enabled = sink.enabled, sink' = [enabled |-> sink'.enabled, lines |-> sink'.lines]
  PROVE  ScreenIInv'
  BY DEF ScreenIInv, EngineInv, OwnerInv, OverInv, SetUpTo

LEMMA FrontEndKeepsScreen == ASSUME ScreenIInv, FrontEnd PROVE ScreenIInv'
  <1> USE DEF ScreenIInv, EngineInv, OwnerInv, OverInv, SetUpTo, Owning
  <1>1. CASE Start
    BY <1>1 DEF Start, Enable
  <1>2. CASE Believe \/ Announced
    BY <1>2 DEF Believe, Announced
  <1>3. CASE ServeLine
    <2>1. sink'.enabled = sink.enabled /\ sink' = [enabled |-> sink'.enabled, lines |-> sink'.lines]
      BY <1>3, SinkKept DEF ServeLine
    <2> QED BY <1>3, <2>1, ScreenStutter DEF ServeLine
  <1>4. CASE LeaveLoop
    BY <1>4 DEF LeaveLoop
  <1>5. CASE TakeBack
    BY <1>5 DEF TakeBack, Disable
  <1>6. CASE End
    BY <1>6 DEF End
  <1> QED BY <1>1, <1>2, <1>3, <1>4, <1>5, <1>6 DEF FrontEnd

LEMMA WriteKeepsScreen == ASSUME ScreenIInv, Write PROVE ScreenIInv'
  <1>1. PICK height \in 1..2 : WriteLine(height)
    BY DEF Write
  <1>2. UNCHANGED <<options, front, engine, modes, broken, late>> /\ front \in {"announce", "loop", "left"}
    BY DEF Write
  <1>3. CASE sink.enabled
    <2>1. /\ sink' = [sink EXCEPT !.lines = PushLine(@, [id |-> written + 1, rows |-> height])]
          /\ UNCHANGED over
      BY <1>1, <1>3 DEF WriteLine
    <2>2. sink'.enabled = sink.enabled /\ sink' = [enabled |-> sink'.enabled, lines |-> sink'.lines]
      BY <2>1 DEF ScreenIInv, OwnerInv
    <2> QED BY <1>2, <2>1, <2>2, ScreenStutter
  <1>4. CASE ~sink.enabled
    <2>1. over' = (over \/ "alternate" \in modes) /\ UNCHANGED sink
      BY <1>1, <1>4 DEF WriteLine
    <2>2. late \/ broken \/ "alternate" \notin modes
      BY <1>4 DEF ScreenIInv, EngineInv, OwnerInv, SetUpTo, Owning
    <2>3. EngineInv' /\ OwnerInv'
      BY <1>2, <2>1 DEF ScreenIInv, EngineInv, OwnerInv, SetUpTo
    <2>4. OverInv'
      BY <1>2, <2>1, <2>2 DEF ScreenIInv, OverInv
    <2> QED BY <2>3, <2>4 DEF ScreenIInv
  <1> QED BY <1>3, <1>4

LEMMA EngineKeepsScreen == ASSUME ScreenIInv, Engine \/ SetUpFails PROVE ScreenIInv'
  <1> USE DEF ScreenIInv, EngineInv, OwnerInv, OverInv, SetUpTo, Owning
  <1>1. CASE SetUp
    BY <1>1 DEF SetUp, Sets
  <1>2. CASE SetUpFails
    BY <1>2 DEF SetUpFails
  <1>3. CASE FallBack
    BY <1>3 DEF FallBack, Disable
  <1>4. CASE Draw
    BY <1>4 DEF Draw
  <1>5. CASE NoKey \/ HearEnd
    BY <1>5 DEF NoKey, HearEnd
  <1>6. CASE Restore
    BY <1>6 DEF Restore
  <1> QED BY <1>1, <1>2, <1>3, <1>4, <1>5, <1>6 DEF Engine

LEMMA KeyboardKeepsScreen == ASSUME ScreenIInv, Keyboard PROVE ScreenIInv'
  <1> USE DEF ScreenIInv, EngineInv, OwnerInv, OverInv, SetUpTo, Owning
  <1>1. CASE Edit \/ Move \/ Page
    BY <1>1 DEF Edit, Move, Page, Pressed
  <1>2. CASE Enter \/ QuitKey
    BY <1>2 DEF Enter, QuitKey, Pressed
  <1>3. CASE ClearKey
    <2>1. sink'.enabled = sink.enabled /\ sink' = [enabled |-> sink'.enabled, lines |-> sink'.lines]
      BY <1>3, SinkKept DEF ClearKey
    <2>2. engine = "poll" /\ engine' = "run" /\ UNCHANGED <<options, front, modes, broken, late, over>>
      BY <1>3 DEF ClearKey, Pressed
    <2> QED BY <2>1, <2>2
  <1> QED BY <1>1, <1>2, <1>3 DEF Keyboard

LEMMA ScreenIndStep == ScreenIInv /\ [ScreenNext]_screenVars => ScreenIInv'
  <1> SUFFICES ASSUME ScreenIInv, [ScreenNext]_screenVars PROVE ScreenIInv'
    OBVIOUS
  <1>1. CASE Reader
    BY <1>1, ScreenStutter DEF Reader, ReadLine, ReadEnd, ScreenIInv, OwnerInv
  <1>2. CASE UNCHANGED screenVars
    BY <1>2, ScreenStutter DEF screenVars, ScreenIInv, OwnerInv
  <1> QED BY <1>1, <1>2, FrontEndKeepsScreen, WriteKeepsScreen, EngineKeepsScreen,
             KeyboardKeepsScreen DEF ScreenNext

(* The terminal is as it was found when the front-end has ended, and no line is   *)
(* printed over the engine's screen, unless the wait for the engine timed out or *)
(* the screen could be set up in part only (run_interface, shutdown).           *)
THEOREM TerminalIsGivenBack == ScreenSpec => []ScreenIsKept
  <1>1. ScreenIInv => ScreenIsKept
    BY DEF ScreenIInv, EngineInv, OwnerInv, OverInv, SetUpTo, ScreenIsKept, GivenBack, NothingOver
  <1> QED BY <1>1, ScreenIndInit, ScreenIndStep, PTL DEF ScreenSpec

-----------------------------------------------------------------------------
(* The draft                                                                   *)

(* While a line of the history is shown, the draft is kept aside.              *)
BufferForm ==
  /\ input = [chars |-> input.chars, cursor |-> input.cursor, history |-> input.history,
              at |-> input.at, draft |-> input.draft]
  /\ IsChannel(input.history)
DraftInv ==
  /\ input.at = 0 => input.chars = composed
  /\ input.at # 0 => input.draft = composed /\ input.at \in 1..Len(input.history)
DraftIInv == BufferForm /\ DraftInv

LEMMA DraftIndInit == ScreenInit => DraftIInv
  BY ChannelEmpty DEF ScreenInit, NewBuffer, DraftIInv, BufferForm, DraftInv

(* Every change of the line ends the walk through the history.               *)
LEMMA EditMeans ==
  ASSUME BufferForm, NEW b,
         \/ \E key \in EditKeys : b = ApplyKey(input, key)
         \/ \E text : b = InsertStr(input, text)
  PROVE  /\ b = [chars |-> b.chars, cursor |-> b.cursor, history |-> b.history, at |-> b.at,
                 draft |-> b.draft]
         /\ b.history = input.history /\ b.at = 0
  <1> USE DEF BufferForm, StopBrowsing
  <1>1. CASE \E text : b = InsertStr(input, text)
    BY <1>1 DEF InsertStr
  <1>2. ASSUME NEW key \in EditKeys, b = ApplyKey(input, key)
        PROVE  b = Backspace(input) \/ b = Delete(input) \/ b = Clear(input) \/ \E c : b = Insert(input, c)
    BY <1>2, InputLineAssumption DEF ApplyKey, EditKeys
  <1>3. CASE b = Backspace(input)
    BY <1>3 DEF Backspace
  <1>4. CASE b = Delete(input)
    BY <1>4 DEF Delete
  <1>5. CASE b = Clear(input)
    BY <1>5 DEF Clear
  <1>6. CASE \E c : b = Insert(input, c)
    BY <1>6 DEF Insert
  <1> QED BY <1>1, <1>2, <1>3, <1>4, <1>5, <1>6

LEMMA MoveMeans ==
  ASSUME DraftIInv, NEW key \in MoveKeys \cup BrowseKeys, input' = ApplyKey(input, key),
         UNCHANGED composed
  PROVE  DraftIInv'
  <1> USE DEF DraftIInv, BufferForm, DraftInv
  <1>1. key \notin Chars \cup {" "}
    BY InputLineAssumption DEF MoveKeys, BrowseKeys
  <1>2. /\ Len(input.history) \in Nat
        /\ input.history # <<>> => Len(input.history) >= 1
    BY ChannelOf, ChannelLess
  <1>3. CASE key \in MoveKeys
    <2>1. input' \in {MoveLeft(input), MoveRight(input), MoveHome(input), MoveEnd(input)}
      BY <1>1, <1>3 DEF ApplyKey, MoveKeys
    <2> QED BY <2>1 DEF MoveLeft, MoveRight, MoveHome, MoveEnd
  <1>4. CASE key = "up"
    <2>1. input' = HistoryPrevious(input)
      BY <1>1, <1>4 DEF ApplyKey
    <2>2. CASE input.history = <<>>
      BY <2>1, <2>2 DEF HistoryPrevious
    <2>3. CASE input.history # <<>> /\ input.at = 0
      <3>1. /\ input'.at = Len(input.history) /\ input'.draft = input.chars
            /\ input' = [chars |-> input'.chars, cursor |-> input'.cursor,
                         history |-> input'.history, at |-> input'.at, draft |-> input'.draft]
            /\ input'.history = input.history
        BY <2>1, <2>3 DEF HistoryPrevious, SetFromHistory
      <3> QED BY <1>2, <2>3, <3>1
    <2>4. CASE input.history # <<>> /\ input.at # 0
      <3>1. /\ input'.at = (IF input.at = 1 THEN 1 ELSE input.at - 1) /\ input'.draft = input.draft
            /\ input' = [chars |-> input'.chars, cursor |-> input'.cursor,
                         history |-> input'.history, at |-> input'.at, draft |-> input'.draft]
            /\ input'.history = input.history
        BY <2>1, <2>4 DEF HistoryPrevious, SetFromHistory
      <3> QED BY <1>2, <2>4, <3>1
    <2> QED BY <2>2, <2>3, <2>4
  <1>5. CASE key = "down"
    <2>1. input' = HistoryNext(input)
      BY <1>1, <1>5 DEF ApplyKey
    <2>2. CASE input.at = 0
      BY <2>1, <2>2 DEF HistoryNext
    <2>3. CASE input.at # 0 /\ input.at < Len(input.history)
      <3>1. /\ input'.at = input.at + 1 /\ input'.draft = input.draft
            /\ input' = [chars |-> input'.chars, cursor |-> input'.cursor,
                         history |-> input'.history, at |-> input'.at, draft |-> input'.draft]
            /\ input'.history = input.history
        BY <2>1, <2>3 DEF HistoryNext, SetFromHistory
      <3> QED BY <1>2, <2>3, <3>1
    <2>4. CASE input.at # 0 /\ ~(input.at < Len(input.history))
      <3>1. /\ input'.at = 0 /\ input'.chars = input.draft
            /\ input' = [chars |-> input'.chars, cursor |-> input'.cursor,
                         history |-> input'.history, at |-> input'.at, draft |-> input'.draft]
            /\ input'.history = input.history
        BY <2>1, <2>4 DEF HistoryNext
      <3> QED BY <1>2, <2>4, <3>1
    <2> QED BY <2>2, <2>3, <2>4
  <1> QED BY <1>3, <1>4, <1>5 DEF BrowseKeys

LEMMA SubmitMeans ==
  ASSUME BufferForm, input' = Submit(input), composed' = EmptyLine PROVE DraftIInv'
  <1> DEFINE kept == IF Len(input.history) >= HistoryCapacity THEN Tail(input.history) ELSE input.history
             history == IF Blank(input.chars) \/ (input.history # <<>> /\ Last(input.history) = input.chars)
                        THEN input.history ELSE Append(kept, input.chars)
  <1>1. input' = [chars |-> EmptyLine, cursor |-> 0, history |-> history, at |-> 0, draft |-> EmptyLine]
    BY DEF Submit, Clear, StopBrowsing, BufferForm
  <1>2. IsChannel(history)
    <2>1. IsChannel(input.history)
      BY DEF BufferForm
    <2>2. Len(input.history) >= HistoryCapacity => input.history # <<>>
      <3>1. HistoryCapacity \in Nat \ {0}
        BY InputLineAssumption
      <3>2. input.history = <<>> => Len(input.history) = 0
        OBVIOUS
      <3> QED BY <3>1, <3>2
    <2>3. IsChannel(kept)
      BY <2>1, <2>2, ChannelLess
    <2> HIDE DEF kept
    <2>4. IsChannel(Append(kept, input.chars))
      BY <2>3, ChannelMore
    <2> QED BY <2>1, <2>4
  <1> HIDE DEF history
  <1> QED BY <1>1, <1>2 DEF DraftIInv, BufferForm, DraftInv

LEMMA DraftIndStep == DraftIInv /\ [ScreenNext]_screenVars => DraftIInv'
  <1> SUFFICES ASSUME DraftIInv, [ScreenNext]_screenVars PROVE DraftIInv'
    OBVIOUS
  <1> USE DEF line
  <1>1. CASE UNCHANGED line
    BY <1>1 DEF DraftIInv, BufferForm, DraftInv
  <1>2. CASE Edit
    <2>1. \/ \E key \in EditKeys : input' = ApplyKey(input, key)
          \/ \E text : input' = InsertStr(input, text)
      BY <1>2 DEF Edit
    <2>2. /\ input' = [chars |-> input'.chars, cursor |-> input'.cursor, history |-> input'.history,
                       at |-> input'.at, draft |-> input'.draft]
          /\ input'.history = input.history /\ input'.at = 0
      BY <2>1, EditMeans DEF DraftIInv
    <2>3. composed' = input'.chars
      BY <1>2 DEF Edit
    <2> QED BY <2>2, <2>3 DEF DraftIInv, BufferForm, DraftInv
  <1>3. CASE Move
    BY <1>3, MoveMeans DEF Move
  <1>4. CASE Enter
    BY <1>4, SubmitMeans DEF Enter, DraftIInv
  <1>5. CASE Page \/ ClearKey \/ QuitKey \/ Write \/ SetUpFails
    BY <1>1, <1>5 DEF Page, ClearKey, QuitKey, Write, SetUpFails
  <1>6. CASE FrontEnd
    BY <1>1, <1>6 DEF FrontEnd, Start, Believe, Announced, ServeLine, LeaveLoop, TakeBack, End
  <1>7. CASE Engine
    BY <1>1, <1>7 DEF Engine, SetUp, FallBack, Draw, NoKey, HearEnd, Restore
  <1>8. CASE Reader
    BY <1>1, <1>8 DEF Reader, ReadLine, ReadEnd
  <1>9. CASE UNCHANGED screenVars
    BY <1>1, <1>9 DEF screenVars
  <1> QED BY <1>2, <1>3, <1>4, <1>5, <1>6, <1>7, <1>8, <1>9 DEF ScreenNext, Keyboard

(* Whatever the user does in between, the draft is there again when Down leaves   *)
(* the newest line of the history (history_previous, history_next, submit).     *)
THEOREM DraftIsNotLost == ScreenSpec => []DraftComesBack
  <1>1. DraftIInv => DraftComesBack
    BY DEF DraftIInv, DraftInv, DraftComesBack
  <1> QED BY <1>1, DraftIndInit, DraftIndStep, PTL DEF ScreenSpec

-----------------------------------------------------------------------------
(* Sequences that are joined                                                   *)

LEMMA LeastOf ==
  ASSUME NEW T, T \subseteq Nat, T # {}
  PROVE  \E x \in T : \A y \in T : x <= y
  <1> DEFINE R == OpToRel(<, Nat)
  <1>1. IsWellFoundedOn(R, Nat)
    BY NatLessThanWellFounded
  <1>2. \A x, y \in Nat : <<y, x>> \in R <=> y < x
    BY DEF OpToRel
  <1> HIDE DEF R
  <1>3. PICK x \in T : \A y \in T : <<y, x>> \notin R
    BY ONLY <1>1, T \subseteq Nat, T # {}, WFMin
  <1>4. ASSUME NEW y \in T PROVE x <= y
    <2>1. x \in Nat /\ y \in Nat /\ <<y, x>> \notin R
      BY <1>3
    <2>2. ~(y < x)
      BY <1>2, <2>1
    <2> QED BY <2>1, <2>2
  <1> QED BY <1>4

(* What FlattenSeq computes on the way: parts[i] is the first i sequences joined. *)
Joins(seqs, parts) ==
  parts = [i \in 1..Len(seqs) |-> IF i = 1 THEN seqs[i] ELSE parts[i-1] \o seqs[i]]
JoinsTo(seqs, S, n, parts) ==
  /\ parts \in [1..n -> Seq(S)]
  /\ \A i \in 1..n : parts[i] = IF i = 1 THEN seqs[1] ELSE parts[i-1] \o seqs[i]

(* There is no length at which one cannot go on.                              *)
LEMMA JoinsExist ==
  ASSUME NEW S, NEW seqs \in Seq(Seq(S)), NEW n \in 0..Len(seqs)
  PROVE  \E parts : JoinsTo(seqs, S, n, parts)
  <1> DEFINE Bad == {m \in 0..Len(seqs) : ~ \E parts : JoinsTo(seqs, S, m, parts)}
  <1>0. Len(seqs) \in Nat /\ \A i \in 1..Len(seqs) : seqs[i] \in Seq(S)
    BY LenProperties, ElementOfSeq
  <1>1. SUFFICES ASSUME Bad # {} PROVE FALSE
    OBVIOUS
  <1>2. PICK m \in Bad : \A k \in Bad : m <= k
    <2>1. Bad \subseteq Nat
      BY <1>0
    <2> HIDE DEF Bad
    <2> QED BY <1>1, <2>1, LeastOf
  <1>3. m \in 0..Len(seqs) /\ m \in Nat
    BY <1>0
  <1>4. CASE m = 0
    <2>1. JoinsTo(seqs, S, 0, [i \in 1..0 |-> <<>>])
      BY DEF JoinsTo
    <2> QED BY <1>4, <2>1
  <1>5. CASE m > 0
    <2>1. PICK parts : JoinsTo(seqs, S, m - 1, parts)
      <3>1. m - 1 \in 0..Len(seqs) /\ ~(m <= m - 1)
        BY <1>0, <1>3, <1>5
      <3>2. m - 1 \notin Bad
        BY <1>2, <3>1
      <3> QED BY <3>1, <3>2
    <2> DEFINE next == IF m = 1 THEN seqs[1] ELSE parts[m-1] \o seqs[m]
               more == [i \in 1..m |-> IF i = m THEN next ELSE parts[i]]
    <2>2. /\ \A i \in 1..m - 1 : parts[i] \in Seq(S)
          /\ \A i \in 1..m - 1 : parts[i] = IF i = 1 THEN seqs[1] ELSE parts[i-1] \o seqs[i]
      BY <2>1 DEF JoinsTo
    <2>3. next \in Seq(S)
      <3>1. seqs[1] \in Seq(S) /\ seqs[m] \in Seq(S)
        BY <1>0, <1>3, <1>5
      <3>2. m # 1 => parts[m-1] \in Seq(S)
        BY <1>3, <1>5, <2>2
      <3> QED BY <3>1, <3>2, ConcatProperties
    <2> HIDE DEF next
    <2>4. more \in [1..m -> Seq(S)] /\ more[m] = next /\ \A i \in 1..m - 1 : more[i] = parts[i]
      BY <1>3, <1>5, <2>2, <2>3
    <2> HIDE DEF more
    <2>5. ASSUME NEW i \in 1..m
          PROVE  more[i] = IF i = 1 THEN seqs[1] ELSE more[i-1] \o seqs[i]
      <3>1. CASE i = m
        <4>1. i = m /\ more[i] = next /\ (m # 1 => m - 1 \in 1..m - 1)
          BY <1>3, <1>5, <2>4, <3>1
        <4>2. m # 1 => more[m-1] = parts[m-1]
          BY <2>4, <4>1
        <4> QED BY <4>1, <4>2 DEF next
      <3>2. CASE i # m
        <4>1. i \in 1..m - 1 /\ (i # 1 => i - 1 \in 1..m - 1)
          BY <1>3, <3>2
        <4> QED BY <2>2, <2>4, <4>1
      <3> QED BY <3>1, <3>2
    <2>6. JoinsTo(seqs, S, m, more)
      BY <2>4, <2>5 DEF JoinsTo
    <2> QED BY <2>6
  <1> QED BY <1>3, <1>4, <1>5

(* Flattening gives the last of the joins, which are what they are meant to be.   *)
LEMMA FlattenIs ==
  ASSUME NEW S, NEW seqs \in Seq(Seq(S))
  PROVE  \E parts : /\ JoinsTo(seqs, S, Len(seqs), parts)
                    /\ FlattenSeq(seqs) = IF Len(seqs) = 0 THEN <<>> ELSE parts[Len(seqs)]
  <1>1. Len(seqs) \in Nat /\ (Len(seqs) = 0 <=> seqs = <<>>)
    BY LenProperties, EmptySeq
  <1>2. PICK some : JoinsTo(seqs, S, Len(seqs), some)
    BY <1>1, JoinsExist
  <1>3. CASE Len(seqs) = 0
    BY <1>1, <1>2, <1>3 DEF FlattenSeq
  <1>4. CASE Len(seqs) # 0
    <2> DEFINE parts == CHOOSE f : Joins(seqs, f)
    <2>1. Joins(seqs, some)
      <3>1. some = [i \in 1..Len(seqs) |-> some[i]]
        BY <1>2 DEF JoinsTo
      <3>2. \A i \in 1..Len(seqs) : some[i] = IF i = 1 THEN seqs[i] ELSE some[i-1] \o seqs[i]
        BY <1>2 DEF JoinsTo
      <3> QED BY <3>1, <3>2, Zenon DEF Joins
    <2>2. Joins(seqs, parts)
      BY <2>1
    <2>3. FlattenSeq(seqs) = parts[Len(seqs)]
      BY <1>4, Zenon DEF FlattenSeq, Joins
    <2> HIDE DEF parts
    <2>4. /\ DOMAIN parts = 1..Len(seqs)
          /\ \A i \in 1..Len(seqs) : parts[i] = IF i = 1 THEN seqs[1] ELSE parts[i-1] \o seqs[i]
      BY <2>2 DEF Joins
    <2>5. \A i \in 1..Len(seqs) : parts[i] \in Seq(S)
      <3> DEFINE Bad == {i \in 1..Len(seqs) : parts[i] \notin Seq(S)}
      <3>1. SUFFICES ASSUME Bad # {} PROVE FALSE
        OBVIOUS
      <3>2. PICK m \in Bad : \A k \in Bad : m <= k
        <4>1. Bad \subseteq Nat
          BY <1>1
        <4> HIDE DEF Bad
        <4> QED BY <3>1, <4>1, LeastOf
      <3>3. m \in 1..Len(seqs) /\ parts[m] \notin Seq(S)
        OBVIOUS
      <3>4. seqs[m] \in Seq(S) /\ seqs[1] \in Seq(S)
        BY <1>1, <1>4, <3>3, ElementOfSeq
      <3>5. m # 1
        BY <2>4, <3>3, <3>4
      <3>6. m - 1 \in 1..Len(seqs) /\ ~(m <= m - 1)
        BY <1>1, <3>3, <3>5
      <3>7. parts[m-1] \in Seq(S)
        BY <3>2, <3>6
      <3>8. parts[m] = parts[m-1] \o seqs[m]
        BY <2>4, <3>3, <3>5
      <3> QED BY <3>3, <3>4, <3>7, <3>8, ConcatProperties
    <2>6. parts = [i \in 1..Len(seqs) |-> parts[i]]
      BY <2>2 DEF Joins
    <2>7. JoinsTo(seqs, S, Len(seqs), parts)
      BY <2>4, <2>5, <2>6 DEF JoinsTo
    <2> QED BY <1>4, <2>3, <2>7
  <1> QED BY <1>3, <1>4

(* Joins of b, which begins p places later than a, lack what is before.         *)
Later(S, a, b, p, n, q, f, g) ==
  /\ p \in Nat /\ n \in Nat /\ q \in Nat /\ p + q <= n
  /\ \A i \in 1..n : a[i] \in Seq(S)
  /\ \A i \in 1..q : b[i] = a[p + i]
  /\ JoinsTo(a, S, n, f) /\ JoinsTo(b, S, q, g)

Lacks(f, p, g, i) == f[p + i] = (IF p = 0 THEN <<>> ELSE f[p]) \o g[i]

LEMMA JoinsFrom ==
  ASSUME NEW S, NEW a, NEW b, NEW p, NEW n, NEW q, NEW f, NEW g, Later(S, a, b, p, n, q, f, g)
  PROVE  \A i \in 1..q : Lacks(f, p, g, i)
  <1>0. /\ p \in Nat /\ n \in Nat /\ q \in Nat /\ p + q <= n
        /\ \A i \in 1..n : a[i] \in Seq(S)
        /\ \A i \in 1..q : b[i] = a[p + i]
        /\ JoinsTo(a, S, n, f) /\ JoinsTo(b, S, q, g)
    BY DEF Later
  <1> DEFINE before == IF p = 0 THEN <<>> ELSE f[p]
             Wrong(m) == ~Lacks(f, p, g, m)
             Bad == {m \in 1..q : Wrong(m)}
  <1>1. SUFFICES ASSUME Bad # {} PROVE FALSE
    OBVIOUS
  <1>2. n \in Nat /\ q \in Nat /\ \A i \in 1..q : b[i] \in Seq(S)
    <2>1. \A i \in 1..q : p + i \in 1..n
      BY <1>0
    <2> QED BY <1>0, <2>1
  <1>3. PICK m \in Bad : \A k \in Bad : m <= k
    <2> HIDE DEF Wrong
    <2>1. Bad \subseteq Nat
      BY <1>2
    <2> HIDE DEF Bad
    <2> QED BY <1>1, <2>1, LeastOf
  <1>4. m \in 1..q /\ Wrong(m) /\ \A k \in 1..q : Wrong(k) => m <= k
    BY <1>3
  <1> HIDE DEF Bad
  <1>13. \A k : Wrong(k) <=> f[p + k] # before \o g[k]
    BY DEF Lacks
  <1> HIDE DEF Wrong
  <1>5. /\ \A i \in 1..n : f[i] \in Seq(S) /\ a[i] \in Seq(S)
        /\ \A i \in 1..q : g[i] \in Seq(S) /\ b[i] \in Seq(S)
    BY <1>0, <1>2 DEF JoinsTo
  <1>6. before \in Seq(S)
    BY <1>0, <1>2, <1>4, <1>5, EmptySeq
  <1>7. p + m \in 1..n /\ b[m] = a[p + m] /\ a[p + m] \in Seq(S)
    BY <1>0, <1>2, <1>4, <1>5
  <1>8. /\ \A i \in 1..n : i # 1 => f[i] = f[i - 1] \o a[i]
        /\ 1 \in 1..n => f[1] = a[1]
    BY <1>0 DEF JoinsTo
  <1>9. \A i \in 1..q : g[i] = IF i = 1 THEN b[1] ELSE g[i - 1] \o b[i]
    BY <1>0 DEF JoinsTo
  <1>12. p + m # 1 => f[p + m] = f[(p + m) - 1] \o a[p + m]
    <2> DEFINE k == p + m
    <2>1. k \in 1..n
      BY <1>7
    <2> HIDE DEF k
    <2>2. k # 1 => f[k] = f[k - 1] \o a[k]
      BY <1>8, <2>1
    <2> QED BY <2>2 DEF k
  <1>10. CASE m = 1
    <2>1. g[m] = a[p + m]
      BY <1>4, <1>7, <1>9, <1>10
    <2>2. ASSUME p # 0 PROVE f[p + m] = f[p] \o a[p + m]
      <3>1. p + m # 1 /\ (p + m) - 1 = p
        BY <1>0, <1>10, <2>2
      <3>2. f[p + m] = f[(p + m) - 1] \o a[p + m]
        BY <1>12, <3>1
      <3> QED BY <3>1, <3>2
    <2>3. ASSUME p = 0 PROVE f[p + m] = <<>> \o a[p + m]
      <3>1. p + m = 1
        BY <1>0, <1>10, <2>3
      <3>2. f[p + m] = a[p + m]
        BY <1>7, <1>8, <3>1
      <3> QED BY <1>7, <3>2, ConcatEmptySeq
    <2>4. f[p + m] = before \o g[m]
      BY <2>1, <2>2, <2>3
    <2> QED BY <1>4, <1>13, <2>4
  <1>11. CASE m # 1
    <2>1. /\ m - 1 \in 1..q /\ ~(m <= m - 1) /\ p + m # 1
          /\ (p + m) - 1 = p + (m - 1)
      BY <1>0, <1>2, <1>4, <1>11
    <2>2. f[p + (m - 1)] = before \o g[m - 1]
      BY <1>4, <1>13, <2>1
    <2>3. g[m] = g[m - 1] \o b[m]
      BY <1>4, <1>9, <1>11
    <2>4. g[m - 1] \in Seq(S) /\ b[m] \in Seq(S)
      BY <1>4, <1>5, <2>1
    <2>5. f[p + m] = f[(p + m) - 1] \o b[m]
      BY <1>7, <1>12, <2>1
    <2> HIDE DEF before
    <2> DEFINE s1 == g[m - 1]
               s2 == b[m]
    <2> HIDE DEF s1, s2
    <2>8. s1 \in Seq(S) /\ s2 \in Seq(S)
      BY <2>4 DEF s1, s2
    <2>9. (before \o s1) \o s2 = before \o (s1 \o s2)
      BY ONLY <1>6, <2>8, ConcatAssociative
    <2>6. (before \o g[m - 1]) \o b[m] = before \o (g[m - 1] \o b[m])
      BY <2>9 DEF s1, s2
    <2>7. f[p + m] = before \o g[m]
      BY <2>1, <2>2, <2>3, <2>5, <2>6
    <2> QED BY <1>4, <1>13, <2>7
  <1> QED BY <1>10, <1>11

LEMMA FlattenSplit ==
  ASSUME NEW S, NEW all \in Seq(Seq(S)), NEW old \in Seq(Seq(S)), NEW new \in Seq(Seq(S)),
         Len(all) = Len(old) + Len(new),
         \A i \in 1..Len(old) : old[i] = all[i],
         \A i \in 1..Len(new) : new[i] = all[Len(old) + i]
  PROVE  FlattenSeq(all) = FlattenSeq(old) \o FlattenSeq(new)
  <1> DEFINE n == Len(all)
             p == Len(old)
             q == Len(new)
  <1>1. n \in Nat /\ p \in Nat /\ q \in Nat /\ n = p + q
    BY LenProperties
  <1>2. PICK f : JoinsTo(all, S, n, f) /\ FlattenSeq(all) = IF n = 0 THEN <<>> ELSE f[n]
    BY FlattenIs
  <1>3. PICK g : JoinsTo(old, S, p, g) /\ FlattenSeq(old) = IF p = 0 THEN <<>> ELSE g[p]
    BY FlattenIs
  <1>4. PICK h : JoinsTo(new, S, q, h) /\ FlattenSeq(new) = IF q = 0 THEN <<>> ELSE h[q]
    BY FlattenIs
  <1>5. \A i \in 1..p : old[i] = all[0 + i]
    BY <1>1
  <1>6. \A i \in 1..q : new[i] = all[p + i]
    OBVIOUS
  <1>7. n = Len(all) /\ p = Len(old) /\ q = Len(new)
    OBVIOUS
  <1>12. \A i \in 1..n : all[i] \in Seq(S)
    BY <1>7, ElementOfSeq
  <1> HIDE DEF n, p, q
  <1>8. FlattenSeq(old) = IF p = 0 THEN <<>> ELSE f[p]
    <2>1. CASE p # 0
      <3>1. 0 + p <= n /\ p \in 1..p /\ 0 \in Nat
        BY <1>1, <2>1
      <3>2. f[0 + p] = <<>> \o g[p]
        <4>1. Later(S, all, old, 0, n, p, f, g)
          BY <1>1, <1>2, <1>3, <1>5, <1>12, <3>1 DEF Later
        <4>2. Lacks(f, 0, g, p)
          BY ONLY <3>1, <4>1, JoinsFrom
        <4> QED BY <4>2 DEF Lacks
      <3>3. g[p] \in Seq(S)
        BY <1>3, <3>1 DEF JoinsTo
      <3>4. 0 + p = p
        BY <1>1
      <3>5. f[p] = g[p]
        BY <3>2, <3>3, <3>4, ConcatEmptySeq
      <3> QED BY <1>3, <2>1, <3>5
    <2> QED BY <1>3, <2>1
  <1>9. FlattenSeq(old) \in Seq(S) /\ FlattenSeq(all) \in Seq(S)
    <2>1. (p # 0 => g[p] \in Seq(S)) /\ (n # 0 => f[n] \in Seq(S))
      BY <1>1, <1>2, <1>3 DEF JoinsTo
    <2> QED BY <1>2, <1>3, <2>1, EmptySeq
  <1>10. CASE q = 0
    <2>1. FlattenSeq(new) = <<>> /\ FlattenSeq(old) = FlattenSeq(all)
      BY <1>1, <1>2, <1>4, <1>8, <1>10
    <2> QED BY <1>9, <2>1, ConcatEmptySeq
  <1>11. CASE q # 0
    <2>1. p + q <= n /\ q \in 1..q /\ p \in Nat /\ n # 0
      BY <1>1, <1>11
    <2>2. f[p + q] = (IF p = 0 THEN <<>> ELSE f[p]) \o h[q]
      <3>1. Later(S, all, new, p, n, q, f, h)
        BY <1>1, <1>2, <1>4, <1>6, <1>12, <2>1 DEF Later
      <3>2. Lacks(f, p, h, q)
        BY ONLY <2>1, <3>1, JoinsFrom
      <3> QED BY <3>2 DEF Lacks
    <2> QED BY <1>1, <1>2, <1>4, <1>8, <1>11, <2>1, <2>2
  <1> QED BY <1>10, <1>11

-----------------------------------------------------------------------------
(* The rows of the log                                                         *)

Line == [id : Nat, rows : 1..2]
Row == Nat \X (1..2)
Wrapped(log) == [i \in DOMAIN log |-> WrapLine(log[i])]

LEMMA WrappedIs ==
  ASSUME NEW log \in Seq(Line)
  PROVE  /\ Wrapped(log) \in Seq(Seq(Row)) /\ Len(Wrapped(log)) = Len(log)
         /\ RowsOf(log) = FlattenSeq(Wrapped(log))
         /\ \A i \in 1..Len(log) : Wrapped(log)[i] = WrapLine(log[i])
         /\ \A i \in 1..Len(log) : Len(WrapLine(log[i])) <= 2
  <1>1. Len(log) \in Nat /\ DOMAIN log = 1..Len(log) /\ \A i \in 1..Len(log) : log[i] \in Line
    BY LenProperties, ElementOfSeq
  <1>2. ASSUME NEW one \in Line
        PROVE  WrapLine(one) \in Seq(Row) /\ Len(WrapLine(one)) <= 2
    <2>1. one.id \in Nat /\ one.rows \in 1..2
      BY DEF Line
    <2>2. WrapLine(one) \in [1..one.rows -> Row]
      BY <2>1 DEF WrapLine, Row
    <2> QED BY <2>1, <2>2, IsASeq, LenProperties
  <1>3. Wrapped(log) \in [1..Len(log) -> Seq(Row)]
    BY <1>1, <1>2 DEF Wrapped
  <1>4. Wrapped(log) \in Seq(Seq(Row)) /\ Len(Wrapped(log)) = Len(log)
    BY <1>1, <1>3, IsASeq, LenProperties
  <1> QED BY <1>1, <1>2, <1>4 DEF Wrapped, RowsOf

(* The rows of a log are the last of the joins of its lines.                    *)
LEMMA RowsJoin ==
  ASSUME NEW log \in Seq(Line), NEW n, n = Len(log)
  PROVE  /\ Wrapped(log) \in Seq(Seq(Row)) /\ Len(Wrapped(log)) = n
         /\ \E f : /\ JoinsTo(Wrapped(log), Row, n, f)
                   /\ RowsOf(log) = IF n = 0 THEN <<>> ELSE f[n]
  <1> DEFINE w == Wrapped(log)
  <1>1. w \in Seq(Seq(Row)) /\ Len(w) = n /\ RowsOf(log) = FlattenSeq(w)
    BY WrappedIs
  <1> HIDE DEF w
  <1>2. \E f : /\ JoinsTo(w, Row, Len(w), f)
               /\ FlattenSeq(w) = IF Len(w) = 0 THEN <<>> ELSE f[Len(w)]
    BY <1>1, FlattenIs
  <1>3. \E f : JoinsTo(w, Row, n, f) /\ RowsOf(log) = IF n = 0 THEN <<>> ELSE f[n]
    BY <1>1, <1>2
  <1> QED BY <1>1, <1>3 DEF w

LEMMA RowsSplit ==
  ASSUME NEW log \in Seq(Line), NEW p \in 0..Len(log)
  PROVE  RowsOf(log) = RowsOf(SubSeq(log, 1, p)) \o RowsOf(SubSeq(log, p + 1, Len(log)))
  <1> DEFINE old == SubSeq(log, 1, p)
             new == SubSeq(log, p + 1, Len(log))
  <1>1. Len(log) \in Nat /\ \A i \in 1..Len(log) : log[i] \in Line
    BY LenProperties, ElementOfSeq
  <1>2. /\ old \in Seq(Line) /\ Len(old) = p /\ \A i \in 1..p : old[i] = log[i]
        /\ new \in Seq(Line) /\ Len(new) = Len(log) - p
        /\ \A i \in 1..Len(log) - p : new[i] = log[p + i]
    <2>1. /\ old \in Seq(Line) /\ Len(old) = IF 1 <= p THEN p - 1 + 1 ELSE 0
          /\ \A i \in 1..p - 1 + 1 : old[i] = log[1 + i - 1]
      <3>1. 1 \in Int /\ p \in Int /\ \A i \in 1..p : log[i] \in Line
        BY <1>1
      <3> QED BY <3>1, SubSeqProperties
    <2>2. /\ new \in Seq(Line)
          /\ Len(new) = IF p + 1 <= Len(log) THEN Len(log) - (p + 1) + 1 ELSE 0
          /\ \A i \in 1..Len(log) - (p + 1) + 1 : new[i] = log[p + 1 + i - 1]
      <3>1. p + 1 \in Int /\ Len(log) \in Int /\ \A i \in p + 1..Len(log) : log[i] \in Line
        BY <1>1
      <3> QED BY <3>1, SubSeqProperties
    <2> HIDE DEF old, new
    <2> QED BY <1>1, <2>1, <2>2
  <1> HIDE DEF old, new
  <1>3. /\ Wrapped(log) \in Seq(Seq(Row)) /\ Len(Wrapped(log)) = Len(log)
        /\ Wrapped(old) \in Seq(Seq(Row)) /\ Len(Wrapped(old)) = p
        /\ Wrapped(new) \in Seq(Seq(Row)) /\ Len(Wrapped(new)) = Len(log) - p
    BY <1>2, WrappedIs
  <1>4. /\ \A i \in 1..Len(log) : Wrapped(log)[i] = WrapLine(log[i])
        /\ \A i \in 1..p : Wrapped(old)[i] = WrapLine(old[i])
        /\ \A i \in 1..Len(log) - p : Wrapped(new)[i] = WrapLine(new[i])
    BY <1>2, WrappedIs
  <1>5. \A i \in 1..p : Wrapped(old)[i] = Wrapped(log)[i]
    <2>1. \A i \in 1..p : i \in 1..Len(log)
      BY <1>1
    <2> QED BY <1>2, <1>4, <2>1
  <1>6. \A i \in 1..Len(log) - p : Wrapped(new)[i] = Wrapped(log)[p + i]
    <2>1. \A i \in 1..Len(log) - p : p + i \in 1..Len(log)
      BY <1>1
    <2> QED BY <1>2, <1>4, <2>1
  <1>7. FlattenSeq(Wrapped(log)) = FlattenSeq(Wrapped(old)) \o FlattenSeq(Wrapped(new))
    <2> DEFINE w == Wrapped(log)
               v == Wrapped(old)
               u == Wrapped(new)
    <2>1. w \in Seq(Seq(Row)) /\ v \in Seq(Seq(Row)) /\ u \in Seq(Seq(Row))
      BY <1>3
    <2>2. /\ Len(w) = Len(v) + Len(u) /\ \A i \in 1..Len(v) : v[i] = w[i]
          /\ \A i \in 1..Len(u) : u[i] = w[Len(v) + i]
      BY <1>1, <1>3, <1>5, <1>6
    <2> HIDE DEF w, v, u
    <2>3. FlattenSeq(w) = FlattenSeq(v) \o FlattenSeq(u)
      BY ONLY <2>1, <2>2, FlattenSplit
    <2> QED BY <2>3 DEF w, v, u
  <1>8. RowsOf(log) = RowsOf(old) \o RowsOf(new)
    BY <1>2, <1>7, WrappedIs
  <1> QED BY <1>8 DEF old, new

(* A line wraps to one row or two.                                             *)
LEMMA RowsAre ==
  ASSUME NEW log \in Seq(Line)
  PROVE  RowsOf(log) \in Seq(Row) /\ Len(RowsOf(log)) <= 2 * Len(log)
  <1>1. /\ Len(log) \in Nat /\ Wrapped(log) \in Seq(Seq(Row)) /\ Len(Wrapped(log)) = Len(log)
        /\ \A i \in 1..Len(log) : Wrapped(log)[i] \in Seq(Row) /\ Len(Wrapped(log)[i]) <= 2
    <2> DEFINE w == Wrapped(log)
    <2>1. Len(log) \in Nat /\ w \in Seq(Seq(Row)) /\ Len(w) = Len(log)
      BY WrappedIs, LenProperties
    <2>2. \A i \in 1..Len(log) : w[i] = WrapLine(log[i]) /\ Len(WrapLine(log[i])) <= 2
      BY WrappedIs
    <2> HIDE DEF w
    <2>3. \A i \in 1..Len(log) : w[i] \in Seq(Row) /\ Len(w[i]) <= 2
      BY <2>1, <2>2, ElementOfSeq
    <2> QED BY <2>1, <2>3 DEF w
  <1>2. PICK f : /\ JoinsTo(Wrapped(log), Row, Len(log), f)
                 /\ RowsOf(log) = IF Len(log) = 0 THEN <<>> ELSE f[Len(log)]
    BY RowsJoin
  <1>3. \A i \in 1..Len(log) : f[i] \in Seq(Row)
    BY <1>2 DEF JoinsTo
  <1>4. \A i \in 1..Len(log) : Len(f[i]) <= 2 * i
    <2> DEFINE Wrong(i) == ~(Len(f[i]) <= 2 * i)
               Bad == {i \in 1..Len(log) : Wrong(i)}
    <2>1. SUFFICES ASSUME Bad # {} PROVE FALSE
      OBVIOUS
    <2>2. PICK m \in Bad : \A k \in Bad : m <= k
      <3> HIDE DEF Wrong
      <3>1. Bad \subseteq Nat
        BY <1>1
      <3> HIDE DEF Bad
      <3> QED BY <2>1, <3>1, LeastOf
    <2>3. /\ m \in 1..Len(log) /\ ~(Len(f[m]) <= 2 * m)
          /\ \A k \in 1..Len(log) : Wrong(k) => m <= k
      BY <2>2
    <2> HIDE DEF Bad
    <2>4. f[m] = IF m = 1 THEN Wrapped(log)[1] ELSE f[m-1] \o Wrapped(log)[m]
      BY <1>2, <2>3 DEF JoinsTo
    <2>5. m # 1
      <3>1. 1 \in 1..Len(log) => Len(Wrapped(log)[1]) <= 2
        BY <1>1
      <3>2. m = 1 => f[m] = Wrapped(log)[1]
        BY <2>4
      <3> QED BY <2>3, <3>1, <3>2
    <2>6. m - 1 \in 1..Len(log) /\ ~(m <= m - 1)
      BY <1>1, <2>3, <2>5
    <2>7. Len(f[m-1]) <= 2 * (m - 1)
      BY <2>3, <2>6
    <2>8. Len(f[m]) = Len(f[m-1]) + Len(Wrapped(log)[m])
      BY <1>1, <1>3, <2>3, <2>4, <2>5, <2>6, ConcatProperties
    <2>9. Len(f[m-1]) \in Nat /\ Len(Wrapped(log)[m]) \in Nat /\ Len(Wrapped(log)[m]) <= 2
      BY <1>1, <1>3, <2>3, <2>6, LenProperties
    <2>10. Len(f[m]) <= 2 * m
      <3> DEFINE x == Len(f[m-1])
                 y == Len(Wrapped(log)[m])
      <3>1. /\ x \in Nat /\ y \in Nat /\ y <= 2 /\ x <= 2 * (m - 1) /\ m \in Nat
            /\ Len(f[m]) = x + y
        BY <1>1, <2>3, <2>7, <2>8, <2>9
      <3> HIDE DEF x, y
      <3>2. x + y <= 2 * m
        BY ONLY <3>1
      <3> QED BY <3>1, <3>2
    <2> QED BY <2>3, <2>10
  <1>5. CASE Len(log) = 0
    BY <1>2, <1>5, EmptySeq
  <1>6. CASE Len(log) # 0
    BY <1>1, <1>2, <1>3, <1>4, <1>6
  <1> QED BY <1>5, <1>6

LEMMA MinOfTwo ==
  ASSUME NEW x \in Nat, NEW y \in Nat
  PROVE  Min({x, y}) = IF x <= y THEN x ELSE y
  <1>1. \E z \in {x, y} : \A w \in {x, y} : z <= w
    <2>1. CASE x <= y
      BY <2>1
    <2>2. CASE ~(x <= y)
      BY <2>2
    <2> QED BY <2>1, <2>2
  <1>2. Min({x, y}) \in {x, y} /\ \A w \in {x, y} : Min({x, y}) <= w
    BY <1>1, Zenon DEF Min
  <1> QED BY <1>2

(* The window that ends at `end`, of a pane of Visible rows.                   *)
EndAt(count, offset) ==
  IF count >= Visible + offset THEN count - offset ELSE IF count > Visible THEN Visible ELSE count
TopAt(count, offset) == IF count > Visible + offset THEN (count - offset) - Visible + 1 ELSE 1

LEMMA LimitIs ==
  ASSUME NEW log \in Seq(Line), NEW offset \in Nat, NEW n, n = Len(RowsOf(log))
  PROVE  /\ n \in Nat
         /\ ScrollLimit(log, offset) = IF n >= Visible + offset THEN Unbounded
                                         ELSE IF n > Visible THEN n - Visible ELSE 0
         /\ ScrollLimit(log, offset) \in Nat
  <1>1. n \in Nat
    BY RowsAre, LenProperties
  <1> QED BY <1>1, ScrollPaneAssumption DEF ScrollLimit

LEMMA RowsFit ==
  ASSUME NEW log \in Seq(Line), Len(log) <= OutputCapacity
  PROVE  /\ RowsOf(log) \in Seq(Row) /\ Len(RowsOf(log)) \in Nat
         /\ Len(RowsOf(log)) <= 2 * OutputCapacity
         /\ \A i \in 1..Len(RowsOf(log)) : RowsOf(log)[i] \in Row
  <1> DEFINE all == RowsOf(log)
             n == Len(all)
  <1>1. all \in Seq(Row) /\ n <= 2 * Len(log) /\ n \in Nat /\ Len(log) \in Nat
    BY RowsAre, LenProperties
  <1> HIDE DEF all
  <1>2. \A i \in 1..n : all[i] \in Row
    BY <1>1, ElementOfSeq
  <1>3. n <= 2 * OutputCapacity
    BY <1>1, ScrollPaneAssumption
  <1> QED BY <1>1, <1>2, <1>3 DEF all

LEMMA EndIs ==
  ASSUME NEW log \in Seq(Line), Len(log) <= OutputCapacity, NEW offset \in Nat
  PROVE  Len(RowsOf(log)) - Min({offset, ScrollLimit(log, offset)}) = EndAt(Len(RowsOf(log)), offset)
  <1> DEFINE n == Len(RowsOf(log))
             limit == ScrollLimit(log, offset)
  <1>1. n \in Nat /\ n <= 2 * OutputCapacity
    BY RowsFit
  <1>2. limit \in Nat /\ limit = IF n >= Visible + offset THEN Unbounded
                                  ELSE IF n > Visible THEN n - Visible ELSE 0
    BY LimitIs
  <1>3. Visible \in Nat \ {0} /\ Unbounded \in Nat /\ OutputCapacity \in Nat /\ Unbounded >= 4 * OutputCapacity
    BY ScrollPaneAssumption, TerminalAssumption
  <1> HIDE DEF n, limit
  <1>4. Min({offset, limit}) = IF offset <= limit THEN offset ELSE limit
    BY <1>2, MinOfTwo
  <1>5. n - (IF offset <= limit THEN offset ELSE limit) = EndAt(n, offset)
    BY <1>1, <1>2, <1>3 DEF EndAt
  <1> QED BY <1>4, <1>5 DEF n, limit

LEMMA WindowIs ==
  ASSUME NEW log \in Seq(Line), Len(log) <= OutputCapacity, NEW offset \in Nat
  PROVE  LET all == RowsOf(log)
             n == Len(all)
             end == EndAt(n, offset)
             window == VisibleLogRows(log, offset)
         IN /\ Len(window) = (IF n < Visible THEN n ELSE Visible)
            /\ n > 0 => window # <<>> /\ window[1] = all[TopAt(n, offset)] /\ window[Len(window)] = all[end]
  <1> DEFINE all == RowsOf(log)
             n == Len(all)
             end == EndAt(n, offset)
             begin == IF end > Visible THEN end - Visible + 1 ELSE 1
             window == SubSeq(all, begin, end)
  <1>1. /\ all \in Seq(Row) /\ n \in Nat /\ n <= 2 * OutputCapacity /\ \A i \in 1..n : all[i] \in Row
    BY RowsFit
  <1>2. Visible \in Nat \ {0} /\ Unbounded \in Nat /\ OutputCapacity \in Nat /\ Unbounded >= 4 * OutputCapacity
    BY ScrollPaneAssumption, TerminalAssumption
  <1>3. n - Min({offset, ScrollLimit(log, offset)}) = end
    BY EndIs
  <1>4. VisibleLogRows(log, offset) = window
    BY <1>3 DEF VisibleLogRows
  <1> HIDE DEF all, n
  <1>5. /\ end \in 0..n /\ begin \in Nat \ {0} /\ (n > 0 => end > 0 /\ begin <= end)
        /\ end = 0 => n = 0
        /\ begin = TopAt(n, offset)
        /\ (end > Visible => n >= Visible) /\ (end < Visible => n = end)
    BY <1>1, <1>2 DEF EndAt, TopAt
  <1> HIDE DEF end, begin
  <1>6. /\ Len(window) = IF begin <= end THEN end - begin + 1 ELSE 0
        /\ \A i \in 1..end - begin + 1 : window[i] = all[begin + i - 1]
    <2>1. begin \in Int /\ end \in Int /\ \A i \in begin..end : all[i] \in Row
      BY <1>1, <1>5
    <2> QED BY ONLY <2>1, SubSeqProperties DEF window
  <1> HIDE DEF window
  <1>7. end - begin + 1 = (IF end > Visible THEN Visible ELSE end)
    BY <1>1, <1>2, <1>5 DEF begin
  <1>8. Len(window) = IF n < Visible THEN n ELSE Visible
    BY <1>1, <1>2, <1>5, <1>6, <1>7 DEF begin
  <1>9. ASSUME n > 0
         PROVE  window # <<>> /\ window[1] = all[begin] /\ window[Len(window)] = all[end]
    <2>1. begin <= end /\ Len(window) = end - begin + 1 /\ Len(window) \in 1..end - begin + 1
          /\ 1 \in 1..end - begin + 1
      BY <1>5, <1>6, <1>9
    <2>2. begin + 1 - 1 = begin /\ begin + Len(window) - 1 = end
      BY <1>5, <2>1
    <2>3. window[1] = all[begin] /\ window[Len(window)] = all[end]
      BY <1>6, <2>1, <2>2
    <2>4. Len(window) # 0
      BY <1>5, <2>1
    <2> QED BY <2>3, <2>4, EmptySeq
  <1> QED BY <1>4, <1>5, <1>8, <1>9 DEF all, n, end

-----------------------------------------------------------------------------
(* The caret                                                                   *)

Letters == Chars \cup {" "}

(* What is typed is text, and the cursor is within it.                         *)
CursorInv ==
  /\ input \in [chars : Seq(Letters), cursor : Nat, history : Seq(Seq(Letters)), at : Nat, draft : Seq(Letters)]
  /\ input.cursor <= Len(input.chars) /\ input.at <= Len(input.history)

LEMMA Split ==
  ASSUME NEW S, NEW text \in Seq(S), NEW k \in 0..Len(text), NEW l \in 0..Len(text), l <= k
  PROVE  /\ SubSeq(text, 1, l) \in Seq(S) /\ Len(SubSeq(text, 1, l)) = l
         /\ SubSeq(text, k + 1, Len(text)) \in Seq(S)
         /\ Len(SubSeq(text, k + 1, Len(text))) = Len(text) - k
  <1>1. Len(text) \in Nat /\ \A i \in 1..Len(text) : text[i] \in S
    BY LenProperties, ElementOfSeq
  <1>2. SubSeq(text, 1, l) \in Seq(S) /\ Len(SubSeq(text, 1, l)) = l
    <2>1. 1 \in Int /\ l \in Int /\ \A i \in 1..l : text[i] \in S
      BY <1>1
    <2>2. SubSeq(text, 1, l) \in Seq(S) /\ Len(SubSeq(text, 1, l)) = IF 1 <= l THEN l - 1 + 1 ELSE 0
      BY <2>1, SubSeqProperties
    <2> QED BY <1>1, <2>2
  <1>3. SubSeq(text, k + 1, Len(text)) \in Seq(S) /\ Len(SubSeq(text, k + 1, Len(text))) = Len(text) - k
    <2>1. k + 1 \in Int /\ Len(text) \in Int /\ \A i \in k + 1..Len(text) : text[i] \in S
      BY <1>1
    <2>2. /\ SubSeq(text, k + 1, Len(text)) \in Seq(S)
          /\ Len(SubSeq(text, k + 1, Len(text)))
               = IF k + 1 <= Len(text) THEN Len(text) - (k + 1) + 1 ELSE 0
      BY <2>1, SubSeqProperties
    <2> QED BY <1>1, <2>2
  <1> QED BY <1>2, <1>3

LEMMA Joined ==
  ASSUME NEW S, NEW f \in Seq(S), NEW g \in Seq(S)
  PROVE  f \o g \in Seq(S) /\ Len(f \o g) = Len(f) + Len(g)
  BY ConcatProperties

LEMMA Spliced ==
  ASSUME NEW S, NEW text \in Seq(S), NEW k \in 0..Len(text), NEW more \in Seq(S)
  PROVE  /\ SubSeq(text, 1, k) \o more \o SubSeq(text, k + 1, Len(text)) \in Seq(S)
         /\ Len(SubSeq(text, 1, k) \o more \o SubSeq(text, k + 1, Len(text))) = Len(text) + Len(more)
  <1> DEFINE left == SubSeq(text, 1, k)
             right == SubSeq(text, k + 1, Len(text))
             both == left \o more
  <1>1. Len(text) \in Nat /\ Len(more) \in Nat /\ k <= k
    BY LenProperties
  <1>2. left \in Seq(S) /\ Len(left) = k /\ right \in Seq(S) /\ Len(right) = Len(text) - k
    BY <1>1, Split
  <1> HIDE DEF left, right
  <1>3. both \in Seq(S) /\ Len(both) = k + Len(more)
    BY <1>2, Joined
  <1> HIDE DEF both
  <1>4. both \o right \in Seq(S) /\ Len(both \o right) = Len(both) + Len(right)
    BY <1>2, <1>3, Joined
  <1>5. Len(both \o right) = Len(text) + Len(more)
    BY <1>1, <1>2, <1>3, <1>4
  <1> QED BY <1>4, <1>5 DEF both, left, right

LEMMA Removed ==
  ASSUME NEW S, NEW text \in Seq(S), NEW k \in 1..Len(text)
  PROVE  RemoveAt(text, k) \in Seq(S) /\ Len(RemoveAt(text, k)) = Len(text) - 1
  <1> DEFINE left == SubSeq(text, 1, k - 1)
             right == SubSeq(text, k + 1, Len(text))
  <1>1. Len(text) \in Nat
    BY LenProperties
  <1>2. k \in 0..Len(text) /\ k - 1 \in 0..Len(text) /\ k - 1 <= k
    BY <1>1
  <1>3. left \in Seq(S) /\ Len(left) = k - 1 /\ right \in Seq(S) /\ Len(right) = Len(text) - k
    BY <1>2, Split
  <1> HIDE DEF left, right
  <1>4. left \o right \in Seq(S) /\ Len(left \o right) = Len(left) + Len(right)
    BY <1>3, Joined
  <1>5. Len(left \o right) = Len(text) - 1
    BY <1>1, <1>3, <1>4
  <1> QED BY <1>4, <1>5 DEF left, right, RemoveAt

(* What a pasted text leaves of itself is text.                                 *)
LEMMA OneIsText ==
  ASSUME NEW S, NEW c \in S PROVE <<c>> \in Seq(S) /\ Len(<<c>>) = 1
  <1>1. <<c>> \in [1..1 -> S]
    OBVIOUS
  <1> QED BY <1>1, IsASeq, LenProperties

LEMMA FunctionIsSeq ==
  ASSUME NEW S, NEW n \in Nat, NEW f \in [1..n -> S] PROVE f \in Seq(S) /\ Len(f) = n
  BY IsASeq, LenProperties

LEMMA LastPlace == ASSUME NEW n \in Nat, n # 0 PROVE n \in 1..n
  OBVIOUS

LEMMA PastedIsText ==
  ASSUME NEW text \in Seq(Chars \cup {" ", "newline", "control"})
  PROVE  FlattenSeq([i \in DOMAIN text |-> Pasted(text[i])]) \in Seq(Letters)
  <1> DEFINE each == [i \in DOMAIN text |-> Pasted(text[i])]
             n == Len(text)
  <1>1. n \in Nat /\ DOMAIN text = 1..n
        /\ \A i \in 1..n : text[i] \in Chars \cup {" ", "newline", "control"}
    BY LenProperties, ElementOfSeq
  <1>2. n # 0 => n \in 1..n
    <2>1. n \in Nat
      BY <1>1
    <2> QED BY <2>1, LastPlace
  <1>3. ASSUME NEW c \in Chars \cup {" ", "newline", "control"}
        PROVE  Pasted(c) \in Seq(Letters)
    <2>1. CASE c = "control"
      BY <2>1, EmptySeq DEF Pasted
    <2>2. CASE c = "newline"
      <3>1. " " \in Letters
        BY DEF Letters
      <3> QED BY <2>2, <3>1, OneIsText DEF Pasted
    <2>3. CASE c # "control" /\ c # "newline"
      <3>1. c \in Letters
        BY <2>3 DEF Letters
      <3> QED BY <2>3, <3>1, OneIsText DEF Pasted
    <2> QED BY <2>1, <2>2, <2>3
  <1>4. each \in [1..n -> Seq(Letters)]
    BY <1>1, <1>3
  <1> HIDE DEF each, n
  <1>5. each \in Seq(Seq(Letters)) /\ Len(each) = n
    BY <1>1, <1>4, FunctionIsSeq
  <1>6. PICK parts : /\ JoinsTo(each, Letters, n, parts)
                     /\ FlattenSeq(each) = IF n = 0 THEN <<>> ELSE parts[n]
    BY <1>5, FlattenIs
  <1>7. n # 0 => parts[n] \in Seq(Letters)
    <2>1. parts \in [1..n -> Seq(Letters)]
      BY <1>6 DEF JoinsTo
    <2> QED BY <1>2, <2>1
  <1>8. FlattenSeq(each) \in Seq(Letters)
    BY <1>6, <1>7, EmptySeq
  <1> QED BY <1>8 DEF each

LEMMA InputIs ==
  ASSUME CursorInv
  PROVE  /\ input = [chars |-> input.chars, cursor |-> input.cursor, history |-> input.history,
                     at |-> input.at, draft |-> input.draft]
         /\ input.chars \in Seq(Letters) /\ Len(input.chars) \in Nat
         /\ input.cursor \in 0..Len(input.chars)
         /\ input.history \in Seq(Seq(Letters)) /\ Len(input.history) \in Nat
         /\ input.at \in 0..Len(input.history)
         /\ input.draft \in Seq(Letters) /\ Len(input.draft) \in Nat
  <1>1. /\ input = [chars |-> input.chars, cursor |-> input.cursor, history |-> input.history,
                    at |-> input.at, draft |-> input.draft]
        /\ input.chars \in Seq(Letters) /\ input.cursor \in Nat /\ input.history \in Seq(Seq(Letters))
        /\ input.at \in Nat /\ input.draft \in Seq(Letters)
        /\ input.cursor <= Len(input.chars) /\ input.at <= Len(input.history)
    BY DEF CursorInv
  <1>2. Len(input.chars) \in Nat /\ Len(input.history) \in Nat /\ Len(input.draft) \in Nat
    BY <1>1, LenProperties
  <1> QED BY <1>1, <1>2

(* The invariant, of a record with these parts.                               *)
LEMMA CursorIs ==
  ASSUME NEW text \in Seq(Letters), NEW k \in 0..Len(text), NEW past \in Seq(Seq(Letters)),
         NEW i \in 0..Len(past), NEW kept \in Seq(Letters),
         input' = [chars |-> text, cursor |-> k, history |-> past, at |-> i, draft |-> kept]
  PROVE  CursorInv'
  <1>1. Len(text) \in Nat /\ Len(past) \in Nat
    BY LenProperties
  <1>2. k \in Nat /\ k <= Len(text) /\ i \in Nat /\ i <= Len(past)
    BY <1>1
  <1> QED BY <1>2 DEF CursorInv

LEMMA CursorInit == ScreenInit => CursorInv
  <1>1. <<>> \in Seq(Letters) /\ <<>> \in Seq(Seq(Letters)) /\ Len(<<>>) = 0
    BY EmptySeq
  <1> QED BY <1>1 DEF ScreenInit, NewBuffer, CursorInv, EmptyLine

(* Each edit leaves text, and the cursor in it; a paste does as well.          *)
LEMMA EditKeepsCursor ==
  ASSUME CursorInv, NEW key \in EditKeys, input' = ApplyKey(input, key) PROVE CursorInv'
  <1> DEFINE n == Len(input.chars)
             c == input.cursor
             Becomes(text, k) == input' = [chars |-> text, cursor |-> k, history |-> input.history,
                                           at |-> 0, draft |-> <<>>]
  <1>1. /\ input = [chars |-> input.chars, cursor |-> c, history |-> input.history,
                    at |-> input.at, draft |-> input.draft]
        /\ input.chars \in Seq(Letters) /\ n \in Nat /\ c \in 0..n
        /\ input.history \in Seq(Seq(Letters)) /\ Len(input.history) \in Nat
    BY InputIs
  <1>2. <<>> \in Seq(Letters) /\ Len(<<>>) = 0
    BY EmptySeq
  <1>3. ASSUME NEW text \in Seq(Letters), NEW k \in 0..Len(text), Becomes(text, k) PROVE CursorInv'
    <2>1. 0 \in 0..Len(input.history)
      BY <1>1
    <2> QED BY <1>1, <1>2, <1>3, <2>1, CursorIs
  <1>4. CASE key \in Letters
    <2> DEFINE text == InsertAt(input.chars, c + 1, key)
    <2>1. input' = Insert(input, key)
      BY <1>4, InputLineAssumption DEF ApplyKey, Letters
    <2>2. (c + 1) - 1 = c
      BY <1>1
    <2>3. text = SubSeq(input.chars, 1, c) \o <<key>> \o SubSeq(input.chars, c + 1, n)
      BY <2>2 DEF InsertAt
    <2>4. <<key>> \in Seq(Letters) /\ Len(<<key>>) = 1
      BY <1>4, OneIsText
    <2>5. text \in Seq(Letters) /\ Len(text) = n + 1
      <3>1. /\ SubSeq(input.chars, 1, c) \o <<key>> \o SubSeq(input.chars, c + 1, n) \in Seq(Letters)
            /\ Len(SubSeq(input.chars, 1, c) \o <<key>> \o SubSeq(input.chars, c + 1, n))
                 = n + Len(<<key>>)
        BY <1>1, <2>4, Spliced
      <3> QED BY ONLY <2>3, <2>4, <3>1
    <2>6. Becomes(text, c + 1)
      BY <1>1, <2>1 DEF Insert, StopBrowsing, EmptyLine
    <2> HIDE DEF text, Becomes
    <2>7. c + 1 \in 0..Len(text)
      BY <1>1, <2>5
    <2> QED BY <1>3, <2>5, <2>6, <2>7
  <1>5. CASE key = "backspace"
    <2>1. input' = Backspace(input)
      BY <1>5, InputLineAssumption DEF ApplyKey
    <2>2. CASE c > 0
      <3> DEFINE text == RemoveAt(input.chars, c)
      <3>1. c \in 1..n
        BY <1>1, <2>2
      <3>2. text \in Seq(Letters) /\ Len(text) = n - 1
        BY <1>1, <3>1, Removed
      <3>3. Becomes(text, c - 1)
        BY <1>1, <2>1, <2>2 DEF Backspace, StopBrowsing, EmptyLine
      <3> HIDE DEF text, Becomes
      <3>4. c - 1 \in 0..Len(text)
        BY <1>1, <2>2, <3>2
      <3> QED BY <1>3, <3>2, <3>3, <3>4
    <2>3. CASE ~(c > 0)
      <3>1. Becomes(input.chars, c)
        BY <1>1, <2>1, <2>3 DEF Backspace, StopBrowsing, EmptyLine
      <3> QED BY <1>1, <1>3, <3>1
    <2> QED BY <2>2, <2>3
  <1>6. CASE key = "delete"
    <2>1. input' = Delete(input)
      BY <1>6, InputLineAssumption DEF ApplyKey
    <2>2. CASE c < n
      <3> DEFINE text == RemoveAt(input.chars, c + 1)
      <3>1. c + 1 \in 1..n
        BY <1>1, <2>2
      <3>2. text \in Seq(Letters) /\ Len(text) = n - 1
        BY <1>1, <3>1, Removed
      <3>3. Becomes(text, c)
        BY <1>1, <2>1, <2>2 DEF Delete, StopBrowsing, EmptyLine
      <3> HIDE DEF text, Becomes
      <3>4. c \in 0..Len(text)
        BY <1>1, <2>2, <3>2
      <3> QED BY <1>3, <3>2, <3>3, <3>4
    <2>3. CASE ~(c < n)
      <3>1. Becomes(input.chars, c)
        BY <1>1, <2>1, <2>3 DEF Delete, StopBrowsing, EmptyLine
      <3> QED BY <1>1, <1>3, <3>1
    <2> QED BY <2>2, <2>3
  <1>7. CASE key = "clear"
    <2>1. input' = Clear(input)
      BY <1>7, InputLineAssumption DEF ApplyKey
    <2>2. Becomes(<<>>, 0)
      BY <1>1, <2>1 DEF Clear, StopBrowsing, EmptyLine
    <2>3. 0 \in 0..Len(<<>>)
      BY <1>2
    <2> HIDE DEF Becomes
    <2> QED BY <1>2, <1>3, <2>2, <2>3
  <1> QED BY <1>4, <1>5, <1>6, <1>7 DEF EditKeys, Letters

LEMMA PasteKeepsCursor ==
  ASSUME CursorInv, NEW text \in Pastes, input' = InsertStr(input, text) PROVE CursorInv'
  <1> DEFINE n == Len(input.chars)
             c == input.cursor
             kept == FlattenSeq([i \in DOMAIN text |-> Pasted(text[i])])
             more == SubSeq(input.chars, 1, c) \o kept \o SubSeq(input.chars, c + 1, n)
  <1>1. /\ input = [chars |-> input.chars, cursor |-> c, history |-> input.history,
                    at |-> input.at, draft |-> input.draft]
        /\ input.chars \in Seq(Letters) /\ n \in Nat /\ c \in 0..n
        /\ input.history \in Seq(Seq(Letters)) /\ Len(input.history) \in Nat
    BY InputIs
  <1>2. kept \in Seq(Letters)
    <2>1. text \in Seq(Chars \cup {" ", "newline", "control"})
      BY TerminalAssumption
    <2> QED BY <2>1, PastedIsText
  <1>3. input' = [chars |-> more, cursor |-> c + Len(kept), history |-> input.history,
                  at |-> 0, draft |-> <<>>]
    BY <1>1 DEF InsertStr, StopBrowsing, EmptyLine
  <1> HIDE DEF kept
  <1>4. more \in Seq(Letters) /\ Len(more) = n + Len(kept) /\ Len(kept) \in Nat
    BY <1>1, <1>2, Spliced, LenProperties
  <1> HIDE DEF more
  <1>5. c + Len(kept) \in 0..Len(more) /\ 0 \in 0..Len(input.history) /\ <<>> \in Seq(Letters)
    BY <1>1, <1>4, EmptySeq
  <1> QED BY <1>1, <1>3, <1>4, <1>5, CursorIs

(* A step through the history shows a line of it, the cursor at its end.        *)
LEMMA MoveKeepsCursor ==
  ASSUME CursorInv, NEW key \in MoveKeys \cup BrowseKeys, input' = ApplyKey(input, key)
  PROVE  CursorInv'
  <1> DEFINE n == Len(input.chars)
             past == Len(input.history)
             Becomes(text, k, i, kept) == input' = [chars |-> text, cursor |-> k,
                                                    history |-> input.history, at |-> i, draft |-> kept]
  <1>1. /\ input = [chars |-> input.chars, cursor |-> input.cursor, history |-> input.history,
                    at |-> input.at, draft |-> input.draft]
        /\ input.chars \in Seq(Letters) /\ n \in Nat /\ input.cursor \in 0..n
        /\ input.history \in Seq(Seq(Letters)) /\ past \in Nat /\ input.at \in 0..past
        /\ input.draft \in Seq(Letters) /\ Len(input.draft) \in Nat
    BY InputIs
  <1>2. ASSUME NEW text \in Seq(Letters), NEW k \in 0..Len(text), NEW i \in 0..past,
               NEW kept \in Seq(Letters), Becomes(text, k, i, kept)
        PROVE  CursorInv'
    BY <1>1, <1>2, CursorIs
  <1>3. key \notin Chars \cup {" "}
    BY InputLineAssumption DEF MoveKeys, BrowseKeys
  <1>4. ASSUME NEW i \in 1..past, NEW kept \in Seq(Letters),
               Becomes(input.history[i], Len(input.history[i]), i, kept)
        PROVE  CursorInv'
    <2>1. input.history[i] \in Seq(Letters)
      BY <1>1, ElementOfSeq
    <2>2. Len(input.history[i]) \in 0..Len(input.history[i]) /\ i \in 0..past
      BY <1>1, <2>1, LenProperties
    <2> HIDE DEF Becomes
    <2> QED BY <1>2, <1>4, <2>1, <2>2
  <1>5. CASE key \in MoveKeys
    <2>1. input' \in {MoveLeft(input), MoveRight(input), MoveHome(input), MoveEnd(input)}
      BY <1>3, <1>5 DEF ApplyKey, MoveKeys
    <2>2. PICK k \in 0..n : input' = [input EXCEPT !.cursor = k]
      BY <1>1, <2>1 DEF MoveLeft, MoveRight, MoveHome, MoveEnd
    <2>3. Becomes(input.chars, k, input.at, input.draft)
      BY <1>1, <2>2
    <2> HIDE DEF Becomes
    <2> QED BY <1>1, <1>2, <2>3
  <1>6. CASE key = "up"
    <2>1. input' = HistoryPrevious(input)
      BY <1>3, <1>6 DEF ApplyKey
    <2>2. CASE input.history = <<>>
      <3>1. Becomes(input.chars, input.cursor, input.at, input.draft)
        BY <1>1, <2>1, <2>2 DEF HistoryPrevious
      <3> HIDE DEF Becomes
      <3> QED BY <1>1, <1>2, <3>1
    <2>3. CASE input.history # <<>> /\ input.at = 0
      <3>1. past \in 1..past
        BY <1>1, <2>3, EmptySeq
      <3>2. Becomes(input.history[past], Len(input.history[past]), past, input.chars)
        BY <1>1, <2>1, <2>3 DEF HistoryPrevious, SetFromHistory
      <3> HIDE DEF Becomes
      <3> QED BY <1>1, <1>4, <3>1, <3>2
    <2>4. CASE input.history # <<>> /\ input.at # 0
      <3> DEFINE i == IF input.at = 1 THEN 1 ELSE input.at - 1
      <3>1. i \in 1..past
        BY <1>1, <2>4
      <3>2. Becomes(input.history[i], Len(input.history[i]), i, input.draft)
        BY <1>1, <2>1, <2>4 DEF HistoryPrevious, SetFromHistory
      <3> HIDE DEF Becomes, i
      <3> QED BY <1>1, <1>4, <3>1, <3>2
    <2> QED BY <2>2, <2>3, <2>4
  <1>7. CASE key = "down"
    <2>1. input' = HistoryNext(input)
      BY <1>3, <1>7 DEF ApplyKey
    <2>2. CASE input.at = 0
      <3>1. Becomes(input.chars, input.cursor, input.at, input.draft)
        BY <1>1, <2>1, <2>2 DEF HistoryNext
      <3> HIDE DEF Becomes
      <3> QED BY <1>1, <1>2, <3>1
    <2>3. CASE input.at # 0 /\ input.at < past
      <3> DEFINE i == input.at + 1
      <3>1. i \in 1..past
        BY <1>1, <2>3
      <3>2. Becomes(input.history[i], Len(input.history[i]), i, input.draft)
        BY <1>1, <2>1, <2>3 DEF HistoryNext, SetFromHistory
      <3> HIDE DEF Becomes, i
      <3> QED BY <1>1, <1>4, <3>1, <3>2
    <2>4. CASE input.at # 0 /\ ~(input.at < past)
      <3>1. Becomes(input.draft, Len(input.draft), 0, <<>>)
        BY <1>1, <2>1, <2>4 DEF HistoryNext, EmptyLine
      <3>2. Len(input.draft) \in 0..Len(input.draft) /\ 0 \in 0..past /\ <<>> \in Seq(Letters)
        BY <1>1, EmptySeq
      <3> HIDE DEF Becomes
      <3> QED BY <1>1, <1>2, <3>1, <3>2
    <2> QED BY <2>2, <2>3, <2>4
  <1> QED BY <1>5, <1>6, <1>7 DEF BrowseKeys

LEMMA SubmitKeepsCursor == ASSUME CursorInv, input' = Submit(input) PROVE CursorInv'
  <1> DEFINE past == Len(input.history)
             room == IF past >= HistoryCapacity THEN Tail(input.history) ELSE input.history
             history == IF Blank(input.chars) \/ (input.history # <<>> /\ Last(input.history) = input.chars)
                        THEN input.history ELSE Append(room, input.chars)
  <1>1. /\ input = [chars |-> input.chars, cursor |-> input.cursor, history |-> input.history,
                    at |-> input.at, draft |-> input.draft]
        /\ input.chars \in Seq(Letters) /\ input.history \in Seq(Seq(Letters)) /\ past \in Nat
    BY InputIs
  <1>2. input' = [chars |-> <<>>, cursor |-> 0, history |-> history, at |-> 0, draft |-> <<>>]
    BY <1>1 DEF Submit, Clear, StopBrowsing, EmptyLine
  <1>3. room \in Seq(Seq(Letters))
    <2>1. CASE past >= HistoryCapacity
      <3>1. HistoryCapacity \in Nat \ {0}
        BY InputLineAssumption
      <3>2. past # 0
        BY <1>1, <2>1, <3>1
      <3>3. input.history # <<>>
        BY <3>2, EmptySeq
      <3> QED BY <1>1, <2>1, <3>3, HeadTailProperties
    <2> QED BY <1>1, <2>1
  <1> HIDE DEF room
  <1>4. history \in Seq(Seq(Letters))
    <2>1. Append(room, input.chars) \in Seq(Seq(Letters))
      BY <1>1, <1>3, AppendProperties
    <2> QED BY <1>1, <2>1
  <1> HIDE DEF history
  <1>5. <<>> \in Seq(Letters) /\ 0 \in 0..Len(<<>>) /\ 0 \in 0..Len(history)
    BY <1>4, EmptySeq, LenProperties
  <1> QED BY <1>2, <1>4, <1>5, CursorIs

LEMMA CursorStep == CursorInv /\ [ScreenNext]_screenVars => CursorInv'
  <1> SUFFICES ASSUME CursorInv, [ScreenNext]_screenVars PROVE CursorInv'
    OBVIOUS
  <1>1. CASE UNCHANGED input
    BY <1>1 DEF CursorInv
  <1>2. CASE Edit
    BY <1>2, EditKeepsCursor, PasteKeepsCursor DEF Edit
  <1>3. CASE Move
    BY <1>3, MoveKeepsCursor DEF Move
  <1>4. CASE Enter
    BY <1>4, SubmitKeepsCursor DEF Enter
  <1> USE DEF line
  <1>5. CASE Page \/ ClearKey \/ QuitKey \/ Write \/ SetUpFails
    BY <1>1, <1>5 DEF Page, ClearKey, QuitKey, Write, SetUpFails
  <1>6. CASE FrontEnd
    BY <1>1, <1>6 DEF FrontEnd, Start, Believe, Announced, ServeLine, LeaveLoop, TakeBack, End
  <1>7. CASE Engine
    BY <1>1, <1>7 DEF Engine, SetUp, FallBack, Draw, NoKey, HearEnd, Restore
  <1>8. CASE Reader
    BY <1>1, <1>8 DEF Reader, ReadLine, ReadEnd
  <1>9. CASE UNCHANGED screenVars
    BY <1>1, <1>9 DEF screenVars
  <1> QED BY <1>2, <1>3, <1>4, <1>5, <1>6, <1>7, <1>8, <1>9 DEF ScreenNext, Keyboard

(* Columns grow with the line, from none.                                      *)
LEMMA ColumnsAre ==
  ASSUME NEW text, NEW n \in Nat PROVE Columns(text, n) \in Nat
  <1> DEFINE A == {i \in 1..n : text[i] \notin Combining}
             B == {i \in 1..n : text[i] \in Wide}
  <1>1. A \in SUBSET (1..n) /\ B \in SUBSET (1..n) /\ IsFiniteSet(1..n)
    BY FS_Interval
  <1>2. Columns(text, n) = Cardinality(A) + Cardinality(B)
    BY DEF Columns
  <1> HIDE DEF A, B
  <1>3. Cardinality(A) \in Nat /\ Cardinality(B) \in Nat
    BY <1>1, FS_Subset, FS_CardinalityType
  <1> QED BY <1>2, <1>3

LEMMA NoColumns == ASSUME NEW text PROVE Columns(text, 0) = 0
  <1>1. {i \in 1..0 : text[i] \notin Combining} = {} /\ {i \in 1..0 : text[i] \in Wide} = {}
    OBVIOUS
  <1>2. Columns(text, 0) = Cardinality({}) + Cardinality({})
    BY <1>1 DEF Columns
  <1> QED BY <1>2, FS_EmptySet

LEMMA ColumnsGrow ==
  ASSUME NEW text, NEW n \in Nat, NEW m \in 0..n
  PROVE  Columns(text, m) <= Columns(text, n)
  <1> DEFINE A(k) == {i \in 1..k : text[i] \notin Combining}
             B(k) == {i \in 1..k : text[i] \in Wide}
  <1>1. /\ IsFiniteSet(A(n)) /\ A(m) \in SUBSET A(n) /\ IsFiniteSet(B(n)) /\ B(m) \in SUBSET B(n)
    <2>1. A(n) \in SUBSET (1..n) /\ B(n) \in SUBSET (1..n)
      OBVIOUS
    <2>2. IsFiniteSet(1..n)
      BY FS_Interval
    <2>3. A(m) \subseteq A(n) /\ B(m) \subseteq B(n)
      OBVIOUS
    <2> QED BY <2>1, <2>2, <2>3, FS_Subset
  <1> HIDE DEF A, B
  <1>2. /\ Cardinality(A(m)) <= Cardinality(A(n)) /\ Cardinality(B(m)) <= Cardinality(B(n))
        /\ Cardinality(A(m)) \in Nat /\ Cardinality(A(n)) \in Nat
        /\ Cardinality(B(m)) \in Nat /\ Cardinality(B(n)) \in Nat
    BY <1>1, FS_Subset, FS_CardinalityType
  <1>3. Columns(text, m) = Cardinality(A(m)) + Cardinality(B(m))
        /\ Columns(text, n) = Cardinality(A(n)) + Cardinality(B(n))
    BY DEF Columns, A, B
  <1> QED BY <1>2, <1>3

LEMMA LeastIs == ASSUME NEW T, T \subseteq Nat, T # {} PROVE Min(T) \in T /\ \A x \in T : Min(T) <= x
  BY LeastOf, Zenon DEF Min

LEMMA CaretStays == ASSUME CursorInv PROVE CaretIsShown
  <1> SUFFICES ASSUME InputWidth > 1
               PROVE  LET view == InputView(input.chars, input.cursor, InputWidth)
                      IN /\ view.caret < InputWidth
                         /\ Columns(input.chars, Len(input.chars)) < InputWidth => view.start = 0
    BY DEF CaretIsShown
  <1> DEFINE text == input.chars
             at == input.cursor
             C(n) == Columns(text, n)
             Offset(n) == C(at) - C(n) + (IF n > 0 THEN 1 ELSE 0)
             fits == {at} \cup {n \in 0..at : Offset(n) < InputWidth}
             start == Min(fits)
  <1>1. at \in Nat /\ Len(text) \in Nat /\ at <= Len(text) /\ InputWidth \in Nat
    BY LenProperties, TerminalAssumption DEF CursorInv
  <1>2. ASSUME NEW n \in Nat PROVE C(n) \in Nat
    BY ColumnsAre
  <1>3. C(0) = 0 /\ C(at) <= C(Len(text))
    BY <1>1, NoColumns, ColumnsGrow
  <1> HIDE DEF C
  <1>4. start \in fits /\ \A n \in fits : start <= n
    <2>1. fits \subseteq Nat /\ fits # {}
      BY <1>1
    <2> HIDE DEF fits
    <2> QED BY <2>1, LeastIs
  <1> HIDE DEF start
  <1>5. Offset(at) < InputWidth
    <2>1. C(at) - C(at) = 0
      BY <1>1, <1>2
    <2> QED BY <1>1, <2>1
  <1>6. start \in 0..at /\ Offset(start) < InputWidth
    BY <1>1, <1>4, <1>5
  <1>7. ASSUME C(Len(text)) < InputWidth PROVE start = 0
    <2>1. Offset(0) < InputWidth
      <3>1. C(at) \in Nat /\ C(Len(text)) \in Nat
        BY <1>1, <1>2
      <3>2. C(at) - C(0) = C(at) /\ C(at) < InputWidth
        <4> DEFINE here == C(at)
                   all == C(Len(text))
        <4>1. here \in Nat /\ all \in Nat /\ here <= all /\ all < InputWidth
          BY <1>3, <1>7, <3>1
        <4>2. C(0) = 0
          BY <1>3
        <4> HIDE DEF here, all
        <4>3. here < InputWidth /\ here - 0 = here
          BY <1>1, <4>1
        <4> QED BY <4>2, <4>3 DEF here
      <3>3. ~(0 > 0) /\ C(at) + 0 = C(at)
        BY <3>1
      <3> QED BY <3>2, <3>3
    <2>2. 0 \in fits
      BY <1>1, <2>1
    <2> QED BY <1>4, <1>6, <2>2
  <1>8. InputView(text, at, InputWidth) = [start |-> start, caret |-> Offset(start)]
    BY DEF InputView, start, C
  <1> QED BY <1>6, <1>7, <1>8 DEF C

-----------------------------------------------------------------------------
(* The pane                                                                    *)

(* The scrollback holds lines, and no more than it has room for; so does the frame. *)
ScrollbackForm ==
  /\ written \in Nat
  /\ sink = [enabled |-> sink.enabled, lines |-> sink.lines]
  /\ sink.lines \in Seq(Line) /\ Len(sink.lines) <= OutputCapacity
  /\ frame.lines \in Seq(Line) /\ Len(frame.lines) <= OutputCapacity
PaneForm ==
  /\ scroll \in Nat /\ frame.arrived \in Nat
  /\ pane = [limit |-> pane.limit, seen |-> pane.seen, primed |-> pane.primed]
  /\ pane.limit \in Nat /\ pane.seen = Len(frame.lines)

(* Nothing is drawn before the engine runs; lines are captured while it is       *)
(* active, which it never is again.                                            *)
DrawnInv ==
  /\ ~pane.primed => scroll = 0 /\ held = <<>>
  /\ engine = "poll" => pane.primed
  /\ front = "off" => ~pane.primed /\ ~active
  /\ engine = "fallback" \/ front \in {"stopping", "left", "ended"} => ~active
  /\ active => sink.enabled

(* As long as no line was lost, what was drawn is what the log begins with.      *)
Prefix(old, new) == Len(old) <= Len(new) /\ \A i \in 1..Len(old) : new[i] = old[i]
GrownInv == active /\ pane.primed /\ lost = "no" => Prefix(frame.lines, sink.lines)

(* The row the pane was moved to is the one its offset stands for.               *)
AtTop(log, offset, row) ==
  Len(RowsOf(log)) > 0 /\ row = RowsOf(log)[TopAt(Len(RowsOf(log)), offset)]
HeldInv ==
  (active \/ engine = "poll") /\ pane.primed /\ lost = "no" /\ ~options.follow /\ held # <<>>
    => AtTop(frame.lines, scroll, held)

(* A frame is drawn at the offset of before; the offset then moves by what had   *)
(* arrived, unless the pane follows.                                           *)
FrameInv ==
  engine = "poll" =>
    \E before \in Nat :
      /\ frame.rows = VisibleLogRows(frame.lines, before)
      /\ scroll = IF options.follow THEN before
                  ELSE Min({before + frame.arrived, ScrollLimit(frame.lines, before)})

PaneInv == ScrollbackForm /\ PaneForm /\ DrawnInv /\ GrownInv /\ HeldInv /\ FrameInv

(* A frame begins with what the one before it showed: its rows are those, and    *)
(* then the ones that were counted.                                             *)
LEMMA ArrivalsAre ==
  ASSUME NEW old \in Seq(Line), NEW new \in Seq(Line), Prefix(old, new), NEW seen, seen = Len(old)
  PROVE  /\ CountArrivals(new, seen, TRUE) \in Nat
         /\ Len(RowsOf(new)) = Len(RowsOf(old)) + CountArrivals(new, seen, TRUE)
         /\ \A i \in 1..Len(RowsOf(old)) : RowsOf(new)[i] = RowsOf(old)[i]
  <1> DEFINE fresh == SubSeq(new, seen + 1, Len(new))
             all == RowsOf(new)
             had == RowsOf(old)
             came == RowsOf(fresh)
  <1>1. seen \in Nat /\ Len(new) \in Nat /\ seen <= Len(new) /\ SubSeq(new, 1, seen) = old
    <2>1. Len(old) \in Nat /\ Len(new) \in Nat /\ Len(old) <= Len(new)
      BY LenProperties DEF Prefix
    <2>2. Len(old) \in 0..Len(new) /\ Len(new) \in 0..Len(new)
      BY <2>1
    <2>3. SubSeq(new, 1, Len(old)) \in Seq(Line) /\ Len(SubSeq(new, 1, Len(old))) = Len(old)
      BY <2>1, <2>2, Split
    <2>4. ASSUME NEW i \in 1..Len(old) PROVE SubSeq(new, 1, Len(old))[i] = old[i]
      <3>1. 1 \in Int /\ Len(old) \in Int /\ \A k \in 1..Len(old) : new[k] \in Line
        BY <2>1, ElementOfSeq
      <3>2. SubSeq(new, 1, Len(old))[i] = new[1 + i - 1]
        BY <2>1, <3>1, SubSeqProperties
      <3>3. 1 + i - 1 = i
        BY <2>1
      <3> QED BY <3>2, <3>3 DEF Prefix
    <2>5. SubSeq(new, 1, Len(old)) = old
      BY <2>3, <2>4, SeqEqual
    <2> QED BY <2>1, <2>5
  <1>2. seen \in 0..Len(new)
    BY <1>1
  <1>3. fresh \in Seq(Line) /\ Len(fresh) = Len(new) - seen
    <2>1. seen \in 0..Len(new) /\ seen <= seen
      BY <1>1
    <2> QED BY <2>1, Split
  <1>4. all = had \o came
    BY <1>1, <1>2, RowsSplit
  <1> HIDE DEF fresh
  <1>5. /\ had \in Seq(Row) /\ Len(had) \in Nat
        /\ came \in Seq(Row) /\ Len(came) \in Nat /\ Len(came) <= 2 * Len(fresh)
    BY <1>3, RowsAre, LenProperties
  <1> HIDE DEF all, had, came
  <1>6. /\ Len(all) = Len(had) + Len(came)
        /\ \A i \in 1..Len(had) : all[i] = had[i]
    BY <1>4, <1>5, ConcatProperties
  <1>7. CountArrivals(new, seen, TRUE) = Len(came)
    <2>1. CASE Len(new) > seen
      BY <2>1 DEF CountArrivals, came, fresh
    <2>2. CASE ~(Len(new) > seen)
      <3>1. Len(came) = 0
        BY <1>1, <1>3, <1>5, <2>2
      <3> QED BY <2>2, <3>1 DEF CountArrivals
    <2> QED BY <2>1, <2>2
  <1> QED BY <1>5, <1>6, <1>7 DEF all, had

(* Moving by what arrived keeps the row at the top.                             *)
LEMMA DrawKeepsTop ==
  ASSUME NEW old \in Seq(Line), NEW new \in Seq(Line), Len(new) <= OutputCapacity, Prefix(old, new),
         NEW offset \in Nat, NEW row, AtTop(old, offset, row)
  PROVE  AtTop(new, Min({offset + CountArrivals(new, Len(old), TRUE), ScrollLimit(new, offset)}), row)
  <1> DEFINE more == CountArrivals(new, Len(old), TRUE)
             n == Len(RowsOf(old))
             limit == ScrollLimit(new, offset)
             moved == IF offset + more <= limit THEN offset + more ELSE limit
  <1>1. more \in Nat /\ Len(RowsOf(new)) = n + more
    BY ArrivalsAre
  <1>8. \A i \in 1..n : RowsOf(new)[i] = RowsOf(old)[i]
    BY ArrivalsAre
  <1>2. n + more <= 2 * OutputCapacity
    BY <1>1, RowsFit
  <1>3. n \in Nat /\ n > 0 /\ row = RowsOf(old)[TopAt(n, offset)]
    BY RowsAre, LenProperties DEF AtTop
  <1>4. /\ limit \in Nat
        /\ limit = IF n + more >= Visible + offset THEN Unbounded
                   ELSE IF n + more > Visible THEN (n + more) - Visible ELSE 0
    BY <1>1, LimitIs
  <1> HIDE DEF n, limit, more
  <1>5. TopAt(n + more, moved) = TopAt(n, offset) /\ TopAt(n, offset) \in 1..n
    <2>1. Visible \in Nat \ {0} /\ Unbounded \in Nat /\ OutputCapacity \in Nat
          /\ Unbounded >= 4 * OutputCapacity
      BY ScrollPaneAssumption, TerminalAssumption
    <2>2. CASE n + more >= Visible + offset
      BY <1>1, <1>2, <1>3, <1>4, <2>1, <2>2 DEF TopAt
    <2>3. CASE ~(n + more >= Visible + offset)
      BY <1>1, <1>2, <1>3, <1>4, <2>1, <2>3 DEF TopAt
    <2> QED BY <2>2, <2>3
  <1>6. Min({offset + more, limit}) = moved
    <2>1. offset + more \in Nat
      BY <1>1
    <2> QED BY <1>4, <2>1, MinOfTwo
  <1> HIDE DEF moved
  <1>7. n + more > 0 /\ RowsOf(new)[TopAt(n + more, moved)] = row
    BY <1>1, <1>3, <1>5, <1>8
  <1> QED BY <1>1, <1>6, <1>7 DEF AtTop, limit, more

(* A window is as many consecutive rows of the log as the pane has, or all.     *)
LEMMA WindowIsFull ==
  ASSUME NEW log \in Seq(Line), Len(log) <= OutputCapacity, NEW offset \in Nat
  PROVE  \E before \in 0..(Len(RowsOf(log)) - Min({Visible, Len(RowsOf(log))})) :
           VisibleLogRows(log, offset) =
             SubSeq(RowsOf(log), before + 1, before + Min({Visible, Len(RowsOf(log))}))
  <1> DEFINE all == RowsOf(log)
             n == Len(all)
             end == EndAt(n, offset)
             begin == IF end > Visible THEN end - Visible + 1 ELSE 1
             height == IF Visible <= n THEN Visible ELSE n
  <1>1. n \in Nat /\ n <= 2 * OutputCapacity
    BY RowsFit
  <1>2. Visible \in Nat \ {0}
    BY ScrollPaneAssumption
  <1>3. n - Min({offset, ScrollLimit(log, offset)}) = end
    BY EndIs
  <1>4. VisibleLogRows(log, offset) = SubSeq(all, begin, end)
    BY <1>3 DEF VisibleLogRows
  <1>5. Min({Visible, n}) = height
    BY <1>1, <1>2, MinOfTwo
  <1> HIDE DEF all, n
  <1>6. /\ begin - 1 \in 0..(n - height)
        /\ (begin - 1) + 1 = begin /\ (begin - 1) + height = end
    BY <1>1, <1>2 DEF EndAt
  <1> HIDE DEF begin, end, height
  <1>7. VisibleLogRows(log, offset) = SubSeq(all, (begin - 1) + 1, (begin - 1) + Min({Visible, n}))
    BY <1>4, <1>5, <1>6
  <1>8. begin - 1 \in 0..(n - Min({Visible, n}))
    BY <1>5, <1>6
  <1> QED BY <1>7, <1>8 DEF all, n

(* The row at the top of a window, if it has any.                               *)
LEMMA TopOf ==
  ASSUME NEW log \in Seq(Line), Len(log) <= OutputCapacity, NEW offset \in Nat,
         VisibleLogRows(log, offset) # <<>>
  PROVE  AtTop(log, offset, VisibleLogRows(log, offset)[1])
  <1> DEFINE n == Len(RowsOf(log))
             window == VisibleLogRows(log, offset)
  <1>1. /\ Len(window) = (IF n < Visible THEN n ELSE Visible)
        /\ n > 0 => window # <<>> /\ window[1] = RowsOf(log)[TopAt(n, offset)]
    BY WindowIs
  <1>2. n \in Nat /\ RowsOf(log) \in Seq(Row)
    BY RowsFit
  <1>3. n # 0
    <2>1. SUFFICES ASSUME n = 0 PROVE window = <<>>
      OBVIOUS
    <2>2. RowsOf(log) = <<>>
      BY <1>2, <2>1, EmptySeq
    <2>3. ScrollLimit(log, offset) = (IF 0 >= Visible + offset THEN Unbounded
                                      ELSE IF 0 > Visible THEN 0 - Visible ELSE 0)
      BY <2>1, LimitIs
    <2>4. n - Min({offset, ScrollLimit(log, offset)}) = EndAt(n, offset)
      BY EndIs
    <2>5. EndAt(0, offset) = 0
      BY ScrollPaneAssumption DEF EndAt
    <2>6. window = SubSeq(<<>>, 1, 0)
      BY <2>1, <2>2, <2>4, <2>5, ScrollPaneAssumption DEF VisibleLogRows
    <2>7. SubSeq(<<>>, 1, 0) = <<>>
      OBVIOUS
    <2> QED BY <2>6, <2>7
  <1> QED BY <1>1, <1>2, <1>3 DEF AtTop

LEMMA PushedIs ==
  ASSUME NEW log \in Seq(Line), Len(log) <= OutputCapacity, NEW one \in Line
  PROVE  /\ PushLine(log, one) \in Seq(Line) /\ Len(PushLine(log, one)) <= OutputCapacity
         /\ Len(log) < OutputCapacity => Prefix(log, PushLine(log, one))
  <1>1. Len(log) \in Nat /\ OutputCapacity \in Nat \ {0}
    BY LenProperties, ScrollPaneAssumption
  <1>2. CASE Len(log) >= OutputCapacity
    <2>1. log # <<>>
      BY <1>1, <1>2, EmptySeq
    <2>2. Tail(log) \in Seq(Line) /\ Len(Tail(log)) = Len(log) - 1
      BY <2>1, HeadTailProperties
    <2>3. /\ Append(Tail(log), one) \in Seq(Line)
          /\ Len(Append(Tail(log), one)) = Len(Tail(log)) + 1
      BY <2>2, AppendProperties
    <2>4. PushLine(log, one) = Append(Tail(log), one)
      BY <1>2 DEF PushLine
    <2> QED BY <1>1, <1>2, <2>2, <2>3, <2>4
  <1>3. CASE ~(Len(log) >= OutputCapacity)
    <2>1. /\ Append(log, one) \in Seq(Line) /\ Len(Append(log, one)) = Len(log) + 1
          /\ \A i \in 1..Len(log) : Append(log, one)[i] = log[i]
      BY AppendProperties
    <2>2. PushLine(log, one) = Append(log, one)
      BY <1>3 DEF PushLine
    <2>3. Len(log) + 1 <= OutputCapacity /\ Len(log) <= Len(log) + 1
      BY <1>1, <1>3
    <2>4. Prefix(log, PushLine(log, one))
      BY <2>1, <2>2, <2>3 DEF Prefix
    <2> QED BY <2>1, <2>2, <2>3, <2>4
  <1> QED BY <1>2, <1>3

LEMMA PrefixOn ==
  ASSUME NEW old \in Seq(Line), NEW new \in Seq(Line), NEW newer \in Seq(Line),
         Prefix(old, new), Prefix(new, newer)
  PROVE  Prefix(old, newer)
  <1>1. Len(old) \in Nat /\ Len(new) \in Nat /\ Len(newer) \in Nat
    BY LenProperties
  <1>2. Len(old) <= Len(newer)
    BY <1>1 DEF Prefix
  <1>3. ASSUME NEW i \in 1..Len(old) PROVE newer[i] = old[i]
    <2>1. i \in 1..Len(new)
      BY <1>1 DEF Prefix
    <2> QED BY <2>1 DEF Prefix
  <1> QED BY <1>2, <1>3 DEF Prefix

(* Each group of steps keeps it.                                               *)
LEMMA PaneIndInit == ScreenInit => PaneInv
  <1> SUFFICES ASSUME ScreenInit PROVE PaneInv
    OBVIOUS
  <1>1. <<>> \in Seq(Line) /\ Len(<<>>) = 0
    BY EmptySeq
  <1>2. OutputCapacity \in Nat /\ Unbounded \in Nat
    BY ScrollPaneAssumption
  <1>3. ScrollbackForm
    BY <1>1, <1>2 DEF ScreenInit, ScrollbackForm
  <1>4. PaneForm
    BY <1>1, <1>2 DEF ScreenInit, PaneForm
  <1>5. DrawnInv /\ GrownInv /\ HeldInv /\ FrameInv
    BY DEF ScreenInit, DrawnInv, GrownInv, HeldInv, FrameInv
  <1> QED BY <1>3, <1>4, <1>5 DEF PaneInv

(* A step that leaves the pane and the scrollback alone.                        *)
LEMMA PaneRests ==
  ASSUME PaneInv, UNCHANGED <<options, place, sink, written>>, active' => active,
         engine' = "poll" => engine = "poll", DrawnInv'
  PROVE  PaneInv'
  <1> USE DEF place
  <1>1. ScrollbackForm' /\ PaneForm'
    BY DEF PaneInv, ScrollbackForm, PaneForm
  <1>2. GrownInv'
    BY DEF PaneInv, GrownInv
  <1>3. HeldInv'
    BY DEF PaneInv, HeldInv
  <1>4. FrameInv'
    BY DEF PaneInv, FrameInv
  <1> QED BY <1>1, <1>2, <1>3, <1>4 DEF PaneInv

(* One that lets the captured lines go, once the engine has been told.         *)
LEMMA PaneLetGo ==
  ASSUME PaneInv, UNCHANGED <<options, place, written>>, Disable, ~active',
         engine' = "poll" => engine = "poll", DrawnInv'
  PROVE  PaneInv'
  <1> USE DEF place
  <1>1. <<>> \in Seq(Line) /\ Len(<<>>) = 0 /\ OutputCapacity \in Nat
    BY EmptySeq, ScrollPaneAssumption
  <1>2. ScrollbackForm'
    BY <1>1 DEF PaneInv, ScrollbackForm, Disable
  <1>3. PaneForm' /\ GrownInv'
    BY DEF PaneInv, PaneForm, GrownInv
  <1>4. HeldInv'
    BY DEF PaneInv, HeldInv
  <1>5. FrameInv'
    BY DEF PaneInv, FrameInv
  <1> QED BY <1>2, <1>3, <1>4, <1>5 DEF PaneInv

LEMMA StartKeepsPane == ASSUME PaneInv, Start PROVE PaneInv'
  <1> USE DEF place
  <1>1. /\ UNCHANGED <<scroll, pane, frame, held, lost, options, written>>
        /\ sink'.lines = sink.lines /\ sink' = [enabled |-> sink'.enabled, lines |-> sink'.lines]
        /\ active' => sink'.enabled
        /\ engine' = "poll" => engine = "poll"
        /\ engine' = "fallback" => ~active'
        /\ front' = "started" /\ front = "off"
    BY DEF Start, Enable, PaneInv, ScrollbackForm, DrawnInv
  <1>2. ~pane.primed
    BY <1>1 DEF PaneInv, DrawnInv
  <1>3. ScrollbackForm'
    BY <1>1 DEF PaneInv, ScrollbackForm
  <1>4. PaneForm'
    BY <1>1 DEF PaneInv, PaneForm
  <1>5. DrawnInv' /\ GrownInv' /\ HeldInv' /\ FrameInv'
    BY <1>1, <1>2 DEF PaneInv, DrawnInv, GrownInv, HeldInv, FrameInv
  <1> QED BY <1>3, <1>4, <1>5 DEF PaneInv

(* A line more: what was drawn stays at the beginning, unless the oldest goes.   *)
LEMMA WriteKeepsPane == ASSUME PaneInv, Write PROVE PaneInv'
  <1>1. PICK height \in 1..2 : WriteLine(height)
    BY DEF Write
  <1>2. /\ UNCHANGED <<options, front, active, engine, scroll, pane, frame, held>>
        /\ written' = written + 1
    BY <1>1 DEF Write, WriteLine
  <1>3. CASE ~sink.enabled
    <2>1. UNCHANGED <<sink, lost>>
      BY <1>1, <1>3 DEF WriteLine
    <2>2. ScrollbackForm'
      BY <1>2, <2>1 DEF PaneInv, ScrollbackForm
    <2>3. PaneForm'
      BY <1>2 DEF PaneInv, PaneForm
    <2>4. DrawnInv' /\ GrownInv' /\ HeldInv' /\ FrameInv'
      BY <1>2, <2>1 DEF PaneInv, DrawnInv, GrownInv, HeldInv, FrameInv
    <2> QED BY <2>2, <2>3, <2>4 DEF PaneInv
  <1>4. CASE sink.enabled
    <2> DEFINE log == sink.lines
               one == [id |-> written + 1, rows |-> height]
    <2>1. /\ sink' = [sink EXCEPT !.lines = PushLine(@, one)]
          /\ lost' = IF lost = "no" /\ Len(log) >= OutputCapacity THEN "evicted" ELSE lost
      BY <1>1, <1>4 DEF WriteLine
    <2>2. /\ sink' = [enabled |-> sink.enabled, lines |-> PushLine(log, one)]
          /\ log \in Seq(Line) /\ Len(log) <= OutputCapacity /\ written \in Nat
          /\ frame.lines \in Seq(Line) /\ Len(frame.lines) <= OutputCapacity
      BY <2>1 DEF PaneInv, ScrollbackForm
    <2>3. one \in Line
      BY <2>2 DEF Line
    <2> HIDE DEF one
    <2>4. /\ PushLine(log, one) \in Seq(Line) /\ Len(PushLine(log, one)) <= OutputCapacity
          /\ Len(log) < OutputCapacity => Prefix(log, PushLine(log, one))
      BY <2>2, <2>3, PushedIs
    <2>5. ScrollbackForm'
      BY <1>2, <2>2, <2>4 DEF ScrollbackForm
    <2>6. PaneForm'
      BY <1>2 DEF PaneInv, PaneForm
    <2>7. GrownInv'
      <3>1. SUFFICES ASSUME active, pane.primed, lost' = "no" PROVE Prefix(frame.lines, PushLine(log, one))
        BY <1>2, <2>2 DEF GrownInv
      <3>2. lost = "no" /\ Len(log) < OutputCapacity
        <4>1. Len(log) \in Nat /\ OutputCapacity \in Nat
          BY <2>2, LenProperties, ScrollPaneAssumption
        <4> QED BY <2>1, <3>1, <4>1
      <3>3. Prefix(frame.lines, log)
        BY <3>1, <3>2 DEF PaneInv, GrownInv
      <3> HIDE DEF log
      <3> QED BY <2>2, <2>4, <3>2, <3>3, PrefixOn
    <2>8. lost' = "no" => lost = "no"
      BY <2>1
    <2>9. DrawnInv' /\ HeldInv' /\ FrameInv'
      BY <1>2, <2>2, <2>8 DEF PaneInv, DrawnInv, HeldInv, FrameInv
    <2> QED BY <2>5, <2>6, <2>7, <2>9 DEF PaneInv
  <1> QED BY <1>3, <1>4

(* Lines that were cleared are gone, and the pane starts again with the next frame. *)
LEMMA ClearedKeepsPane ==
  ASSUME PaneInv, ClearOutput,
         UNCHANGED <<options, front, active, written, pane, frame, held>>,
         \/ scroll' = 0 /\ engine = "poll" /\ engine' = "run"
         \/ UNCHANGED <<scroll, engine>>
  PROVE  PaneInv'
  <1>1. <<>> \in Seq(Line) /\ Len(<<>>) = 0 /\ OutputCapacity \in Nat
    BY EmptySeq, ScrollPaneAssumption
  <1>2. CASE sink.enabled
    <2>1. sink' = [enabled |-> sink.enabled, lines |-> <<>>] /\ lost' = "cleared"
      BY <1>2 DEF ClearOutput, PaneInv, ScrollbackForm
    <2>2. ScrollbackForm'
      BY <1>1, <2>1 DEF PaneInv, ScrollbackForm
    <2>3. PaneForm'
      BY DEF PaneInv, PaneForm
    <2>4. DrawnInv' /\ GrownInv' /\ HeldInv' /\ FrameInv'
      BY <2>1 DEF PaneInv, DrawnInv, GrownInv, HeldInv, FrameInv
    <2> QED BY <2>2, <2>3, <2>4 DEF PaneInv
  <1>3. CASE ~sink.enabled
    <2>1. UNCHANGED <<sink, lost>>
      BY <1>3 DEF ClearOutput
    <2>2. ~active
      BY <1>3 DEF PaneInv, DrawnInv
    <2>3. ScrollbackForm'
      BY <2>1 DEF PaneInv, ScrollbackForm
    <2>4. PaneForm'
      BY DEF PaneInv, PaneForm
    <2>5. DrawnInv' /\ GrownInv' /\ HeldInv' /\ FrameInv'
      BY <2>1, <2>2 DEF PaneInv, DrawnInv, GrownInv, HeldInv, FrameInv
    <2> QED BY <2>3, <2>4, <2>5 DEF PaneInv
  <1> QED BY <1>2, <1>3

(* The user moves the pane over the lines of the last frame.                    *)
LEMMA MoveToKeepsPane ==
  ASSUME PaneInv, NEW offset \in Nat, MoveTo(offset), engine = "poll", engine' # "poll",
         engine' # "fallback",
         UNCHANGED <<options, front, active, written, sink, pane, frame>>
  PROVE  PaneInv'
  <1>1. scroll' = offset /\ UNCHANGED lost
    BY DEF MoveTo
  <1>2. pane.primed
    BY DEF PaneInv, DrawnInv
  <1>3. ScrollbackForm'
    BY DEF PaneInv, ScrollbackForm
  <1>4. PaneForm'
    BY <1>1 DEF PaneInv, PaneForm
  <1>5. DrawnInv' /\ GrownInv' /\ FrameInv'
    BY <1>1, <1>2 DEF PaneInv, DrawnInv, GrownInv, FrameInv
  <1>6. HeldInv'
    <2>1. SUFFICES ASSUME held' # <<>> PROVE AtTop(frame.lines, offset, held')
      BY <1>1 DEF HeldInv
    <2>2. VisibleLogRows(frame.lines, offset) # <<>> /\ held' = VisibleLogRows(frame.lines, offset)[1]
      BY <2>1 DEF MoveTo, Top
    <2>3. frame.lines \in Seq(Line) /\ Len(frame.lines) <= OutputCapacity
      BY DEF PaneInv, ScrollbackForm
    <2> QED BY <2>2, <2>3, TopOf
  <1> QED BY <1>3, <1>4, <1>5, <1>6 DEF PaneInv

LEMMA StepIs ==
  ASSUME NEW offset \in Nat, NEW limit \in Nat, NEW older \in BOOLEAN
  PROVE  StepScroll(offset, Visible, limit, older) \in Nat
  <1>1. Visible \in Nat
    BY ScrollPaneAssumption
  <1>2. CASE older
    <2>1. offset + Visible \in Nat
      BY <1>1
    <2>2. Min({offset + Visible, limit}) \in Nat
      BY <2>1, MinOfTwo
    <2> QED BY <1>2, <2>2 DEF StepScroll
  <1>3. CASE ~older
    BY <1>1, <1>3 DEF StepScroll
  <1> QED BY <1>2, <1>3

(* A frame.                                                                    *)
LEMMA DrawKeepsPane == ASSUME PaneInv, Draw PROVE PaneInv'
  <1> DEFINE log == sink.lines
             more == CountArrivals(log, pane.seen, pane.primed)
             limit == ScrollLimit(log, scroll)
             drawn == VisibleLogRows(log, scroll)
  <1>1. /\ engine' = "poll" /\ active /\ UNCHANGED <<options, front, active, sink, written>>
        /\ frame' = [lines |-> log, rows |-> drawn, arrived |-> more]
        /\ pane' = [limit |-> limit, seen |-> Len(log), primed |-> TRUE]
        /\ scroll' = IF options.follow THEN scroll ELSE Min({scroll + more, limit})
        /\ held' = IF lost = "cleared" THEN <<>> ELSE IF pane.primed \/ drawn = <<>> THEN held ELSE drawn[1]
        /\ lost' = IF lost = "cleared" THEN "no" ELSE lost
    BY DEF Draw
  <1>2. /\ log \in Seq(Line) /\ Len(log) <= OutputCapacity /\ Len(log) \in Nat
        /\ frame.lines \in Seq(Line) /\ scroll \in Nat /\ pane.seen = Len(frame.lines)
        /\ Len(frame.lines) \in Nat
    <2>1. /\ log \in Seq(Line) /\ Len(log) <= OutputCapacity
          /\ frame.lines \in Seq(Line) /\ scroll \in Nat /\ pane.seen = Len(frame.lines)
      BY DEF PaneInv, ScrollbackForm, PaneForm
    <2> QED BY <2>1, LenProperties
  <1>3. limit \in Nat
    BY <1>2, LimitIs
  <1>4. more \in Nat
    <2>1. CASE pane.primed /\ Len(log) > pane.seen
      <3>1. SubSeq(log, pane.seen + 1, Len(log)) \in Seq(Line)
        <4>1. pane.seen \in 0..Len(log) /\ pane.seen <= pane.seen
          BY <1>2, <2>1
        <4> QED BY <1>2, <4>1, Split
      <3>2. Len(RowsOf(SubSeq(log, pane.seen + 1, Len(log)))) \in Nat
        BY <3>1, RowsAre, LenProperties
      <3> QED BY <2>1, <3>2 DEF CountArrivals
    <2>2. CASE ~(pane.primed /\ Len(log) > pane.seen)
      BY <2>2 DEF CountArrivals
    <2> QED BY <2>1, <2>2
  <1> HIDE DEF more, limit, drawn
  <1>5. scroll + more \in Nat /\ Min({scroll + more, limit}) \in Nat
    <2>1. scroll + more \in Nat
      BY <1>2, <1>4
    <2> QED BY <1>3, <2>1, MinOfTwo
  <1>6. ScrollbackForm'
    BY <1>1, <1>2 DEF PaneInv, ScrollbackForm
  <1>7. PaneForm'
    BY <1>1, <1>2, <1>3, <1>4, <1>5 DEF PaneForm
  <1>8. DrawnInv'
    BY <1>1 DEF PaneInv, DrawnInv
  <1>9. GrownInv'
    <2>1. Prefix(log, log)
      BY <1>2 DEF Prefix
    <2> QED BY <1>1, <2>1 DEF GrownInv
  <1>10. HeldInv'
    <2>1. SUFFICES ASSUME lost' = "no", ~options.follow, held' # <<>>
                   PROVE  AtTop(log, Min({scroll + more, limit}), held')
      BY <1>1 DEF HeldInv
    <2>2. lost = "no"
      BY <1>1, <2>1
    <2>3. CASE pane.primed
      <3>1. held' = held /\ AtTop(frame.lines, scroll, held) /\ Prefix(frame.lines, log)
        BY <1>1, <2>1, <2>2, <2>3 DEF PaneInv, HeldInv, GrownInv
      <3>2. more = CountArrivals(log, Len(frame.lines), TRUE)
        BY <1>2, <2>3 DEF more
      <3> QED BY <1>2, <3>1, <3>2, DrawKeepsTop DEF limit
    <2>4. CASE ~pane.primed
      <3>1. scroll = 0 /\ held = <<>> /\ more = 0
        BY <2>4 DEF PaneInv, DrawnInv, more, CountArrivals
      <3>2. drawn # <<>> /\ held' = drawn[1]
        BY <1>1, <2>1, <2>2, <2>4, <3>1
      <3>3. AtTop(log, 0, held')
        BY <1>2, <3>1, <3>2, TopOf DEF drawn
      <3>4. Min({scroll + more, limit}) = 0
        <4>1. 0 + 0 = 0 /\ 0 <= limit
          BY <1>3
        <4>2. Min({0, limit}) = 0
          BY <1>3, <4>1, MinOfTwo
        <4> QED BY <3>1, <4>1, <4>2
      <3> QED BY <3>3, <3>4
    <2> QED BY <2>3, <2>4
  <1>11. FrameInv'
    <2>1. /\ frame'.rows = VisibleLogRows(frame'.lines, scroll)
          /\ scroll' = IF options'.follow THEN scroll
                       ELSE Min({scroll + frame'.arrived, ScrollLimit(frame'.lines, scroll)})
      BY <1>1 DEF drawn, limit
    <2> QED BY <1>2, <2>1 DEF FrameInv
  <1> QED BY <1>6, <1>7, <1>8, <1>9, <1>10, <1>11 DEF PaneInv

LEMMA FrontEndKeepsPane == ASSUME PaneInv, FrontEnd PROVE PaneInv'
  <1>1. CASE Start
    BY <1>1, StartKeepsPane
  <1>2. CASE Believe \/ Announced \/ LeaveLoop \/ End
    <2>1. /\ UNCHANGED <<options, place, sink, written, engine>> /\ (active' => active)
          /\ front' # "off" /\ (front' \in {"stopping", "left", "ended"} => ~active')
      BY <1>2 DEF Believe, Announced, LeaveLoop, End, PaneInv, DrawnInv
    <2>2. DrawnInv'
      BY <2>1 DEF PaneInv, DrawnInv, place
    <2> QED BY <2>1, <2>2, PaneRests
  <1>3. CASE ServeLine
    <2>1. /\ UNCHANGED <<options, front, active, engine, written, scroll, pane, frame, held>>
          /\ ClearOutput \/ UNCHANGED <<sink, lost>>
      BY <1>3 DEF ServeLine
    <2>2. CASE ClearOutput
      BY <2>1, <2>2, ClearedKeepsPane
    <2>3. CASE UNCHANGED <<sink, lost>>
      <3>1. DrawnInv'
        BY <2>1, <2>3 DEF PaneInv, DrawnInv
      <3> QED BY <2>1, <2>3, <3>1, PaneRests DEF place
    <2> QED BY <2>1, <2>2, <2>3
  <1>4. CASE TakeBack
    <2>1. /\ UNCHANGED <<options, place, written, engine, active>> /\ Disable /\ ~active
          /\ front' = "left"
      BY <1>4 DEF TakeBack, PaneInv, DrawnInv
    <2>2. DrawnInv'
      BY <2>1 DEF PaneInv, DrawnInv, place
    <2> QED BY <2>1, <2>2, PaneLetGo
  <1> QED BY <1>1, <1>2, <1>3, <1>4 DEF FrontEnd

LEMMA EngineKeepsPane == ASSUME PaneInv, Engine \/ SetUpFails PROVE PaneInv'
  <1>1. CASE SetUp \/ SetUpFails \/ NoKey \/ HearEnd \/ Restore
    <2>1. /\ UNCHANGED <<options, place, sink, written, front, active>>
          /\ engine' # "poll" /\ engine' # "fallback"
      BY <1>1 DEF SetUp, SetUpFails, NoKey, HearEnd, Restore
    <2>2. DrawnInv'
      BY <2>1 DEF PaneInv, DrawnInv, place
    <2> QED BY <2>1, <2>2, PaneRests
  <1>2. CASE FallBack
    <2>1. CASE engine = "failed"
      <3>1. /\ UNCHANGED <<options, place, sink, written, front>> /\ ~active' /\ engine' = "fallback"
        BY <1>2, <2>1 DEF FallBack
      <3>2. DrawnInv'
        BY <3>1 DEF PaneInv, DrawnInv, place
      <3> QED BY <3>1, <3>2, PaneRests
    <2>2. CASE engine # "failed"
      <3>1. /\ UNCHANGED <<options, place, written, front, active>> /\ Disable /\ ~active'
            /\ engine' = "done"
        BY <1>2, <2>2 DEF FallBack, PaneInv, DrawnInv
      <3>2. DrawnInv'
        BY <3>1 DEF PaneInv, DrawnInv, place
      <3> QED BY <3>1, <3>2, PaneLetGo
    <2> QED BY <2>1, <2>2
  <1>3. CASE Draw
    BY <1>3, DrawKeepsPane
  <1> QED BY <1>1, <1>2, <1>3 DEF Engine

LEMMA KeyboardKeepsPane == ASSUME PaneInv, Keyboard PROVE PaneInv'
  <1>1. CASE Edit \/ Move \/ QuitKey
    <2>1. /\ UNCHANGED <<options, place, sink, written, front, active>>
          /\ engine' # "poll" /\ engine' # "fallback"
      BY <1>1 DEF Edit, Move, QuitKey
    <2>2. DrawnInv'
      BY <2>1 DEF PaneInv, DrawnInv, place
    <2> QED BY <2>1, <2>2, PaneRests
  <1>2. CASE Enter
    <2>1. /\ MoveTo(0) /\ engine = "poll" /\ engine' # "poll" /\ engine' # "fallback"
          /\ UNCHANGED <<options, front, active, written, sink, pane, frame>>
      BY <1>2 DEF Enter, Pressed
    <2> QED BY <2>1, MoveToKeepsPane
  <1>3. CASE Page
    <2>1. PICK older \in BOOLEAN : MoveTo(StepScroll(scroll, Visible, pane.limit, older))
      BY <1>3 DEF Page
    <2>2. StepScroll(scroll, Visible, pane.limit, older) \in Nat
      BY StepIs DEF PaneInv, PaneForm
    <2>3. /\ engine = "poll" /\ engine' # "poll" /\ engine' # "fallback"
          /\ UNCHANGED <<options, front, active, written, sink, pane, frame>>
      BY <1>3 DEF Page, Pressed
    <2> QED BY <2>1, <2>2, <2>3, MoveToKeepsPane
  <1>4. CASE ClearKey
    <2>1. /\ ClearOutput /\ scroll' = 0 /\ engine = "poll" /\ engine' = "run"
          /\ UNCHANGED <<options, front, active, written, pane, frame, held>>
      BY <1>4 DEF ClearKey, Pressed
    <2> QED BY <2>1, ClearedKeepsPane
  <1> QED BY <1>1, <1>2, <1>3, <1>4 DEF Keyboard

LEMMA PaneIndStep == PaneInv /\ [ScreenNext]_screenVars => PaneInv'
  <1> SUFFICES ASSUME PaneInv, [ScreenNext]_screenVars PROVE PaneInv'
    OBVIOUS
  <1>1. CASE Reader \/ UNCHANGED screenVars
    <2>1. UNCHANGED <<options, place, sink, written, front, active, engine>>
      BY <1>1 DEF Reader, ReadLine, ReadEnd, screenVars
    <2>2. DrawnInv'
      BY <2>1 DEF PaneInv, DrawnInv, place
    <2> QED BY <2>1, <2>2, PaneRests
  <1> QED BY <1>1, FrontEndKeepsPane, WriteKeepsPane, EngineKeepsPane, KeyboardKeepsPane
          DEF ScreenNext

(* The offset of a frame and the one it leaves: no row between their tops but     *)
(* what had arrived, and no offset left means that the newest row is shown.       *)
LEMMA OffsetsAgree ==
  ASSUME NEW n \in Nat, n <= 2 * OutputCapacity, NEW before \in Nat, NEW came \in Nat,
         NEW limit,
         limit = IF n >= Visible + before THEN Unbounded ELSE IF n > Visible THEN n - Visible ELSE 0,
         NEW after, after = IF before + came <= limit THEN before + came ELSE limit
  PROVE  /\ after \in Nat
         /\ TopAt(n, after) \in Nat /\ TopAt(n, before) \in Nat
         /\ n > 0 => TopAt(n, after) \in 1..n /\ TopAt(n, before) \in 1..n
         /\ TopAt(n, after) <= TopAt(n, before)
         /\ TopAt(n, before) <= TopAt(n, after) + came
         /\ after = 0 => EndAt(n, before) = n
  <1>1. /\ Visible \in Nat \ {0} /\ Unbounded \in Nat /\ OutputCapacity \in Nat \ {0}
        /\ Unbounded >= 4 * OutputCapacity
    BY ScrollPaneAssumption, TerminalAssumption
  <1>2. CASE n >= Visible + before
    BY <1>1, <1>2 DEF TopAt, EndAt
  <1>3. CASE n < Visible + before /\ n > Visible
    BY <1>1, <1>3 DEF TopAt, EndAt
  <1>4. CASE n < Visible + before /\ n <= Visible
    BY <1>1, <1>4 DEF TopAt, EndAt
  <1> QED BY <1>1, <1>2, <1>3, <1>4

(* What the invariant says of the frame that is being looked at.                *)
LEMMA PaneShows == ASSUME PaneInv PROVE PaneStays /\ PaneIsFull
  <1> SUFFICES ASSUME engine = "poll" PROVE PaneStays /\ PaneIsFull
    BY DEF PaneStays, PaneIsFull
  <1> DEFINE log == frame.lines
             all == RowsOf(log)
             n == Len(all)
             more == frame.arrived
  <1>1. log \in Seq(Line) /\ Len(log) <= OutputCapacity /\ scroll \in Nat /\ more \in Nat
    BY DEF PaneInv, ScrollbackForm, PaneForm
  <1>2. PICK before \in Nat :
          /\ frame.rows = VisibleLogRows(log, before)
          /\ scroll = IF options.follow THEN before
                      ELSE Min({before + more, ScrollLimit(log, before)})
    BY DEF PaneInv, FrameInv
  <1> DEFINE drawn == VisibleLogRows(log, before)
             limit == ScrollLimit(log, before)
             after == IF before + more <= limit THEN before + more ELSE limit
  <1>3. n \in Nat /\ n <= 2 * OutputCapacity /\ all \in Seq(Row) /\ Visible \in Nat \ {0}
    BY <1>1, RowsFit, ScrollPaneAssumption
  <1>4. n > 0 => /\ drawn # <<>> /\ drawn[1] = all[TopAt(n, before)]
                 /\ drawn[Len(drawn)] = all[EndAt(n, before)]
    BY <1>1, WindowIs
  <1>5. /\ limit \in Nat
        /\ limit = IF n >= Visible + before THEN Unbounded ELSE IF n > Visible THEN n - Visible ELSE 0
    BY <1>1, LimitIs
  <1>6. DOMAIN all = 1..n
    BY <1>3, LenProperties
  <1> HIDE DEF all, n, drawn, limit
  <1>7. ~options.follow => scroll = after
    <2>1. before + more \in Nat
      BY <1>1
    <2>2. Min({before + more, limit}) = after
      BY <1>5, <2>1, MinOfTwo
    <2> QED BY <1>2, <2>2 DEF limit
  <1>8. /\ n > 0 => TopAt(n, after) \in 1..n /\ TopAt(n, before) \in 1..n
        /\ TopAt(n, after) <= TopAt(n, before)
        /\ TopAt(n, before) <= TopAt(n, after) + more
        /\ after = 0 => EndAt(n, before) = n
    BY <1>1, <1>3, <1>5, OffsetsAgree
  <1> HIDE DEF after
  <1>9. PaneStays
    <2>1. SUFFICES ASSUME ~options.follow, lost = "no", held # <<>>, frame.rows # <<>>
                   PROVE  \E i, j \in DOMAIN all :
                            /\ all[i] = held /\ all[j] = frame.rows[1]
                            /\ i <= j /\ j <= i + more
      BY DEF PaneStays, all
    <2>2. AtTop(log, scroll, held)
      BY <2>1 DEF PaneInv, HeldInv, DrawnInv
    <2>3. n > 0 /\ held = all[TopAt(n, after)]
      BY <1>7, <2>1, <2>2 DEF AtTop, n, all
    <2>4. frame.rows[1] = all[TopAt(n, before)]
      BY <1>2, <1>4, <2>3 DEF drawn
    <2>5. TopAt(n, after) \in DOMAIN all /\ TopAt(n, before) \in DOMAIN all
      BY <1>6, <1>8, <2>3
    <2> QED BY <1>8, <2>3, <2>4, <2>5
  <1>10. PaneIsFull
    <2>1. \E b \in 0..(n - Min({Visible, n})) :
            frame.rows = SubSeq(all, b + 1, b + Min({Visible, n}))
      <3>1. frame.lines \in Seq(Line) /\ Len(frame.lines) <= OutputCapacity
        BY <1>1
      <3>2. PICK b \in 0..(Len(RowsOf(frame.lines)) - Min({Visible, Len(RowsOf(frame.lines))})) :
              VisibleLogRows(frame.lines, before) =
                SubSeq(RowsOf(frame.lines), b + 1, b + Min({Visible, Len(RowsOf(frame.lines))}))
        BY <3>1, WindowIsFull
      <3>3. /\ b \in 0..(n - Min({Visible, n}))
            /\ frame.rows = SubSeq(all, b + 1, b + Min({Visible, n}))
        BY <1>2, <3>2 DEF all, n
      <3> QED BY <3>3
    <2>2. ASSUME scroll = 0, all # <<>> PROVE Last(frame.rows) = Last(all)
      <3>1. n > 0
        BY <1>3, <2>2, EmptySeq DEF n
      <3>2. EndAt(n, before) = n
        <4>1. CASE options.follow
          <5>1. before = 0
            BY <1>2, <2>2, <4>1
          <5> QED BY <1>3, <5>1 DEF EndAt
        <4>2. CASE ~options.follow
          BY <1>7, <1>8, <2>2, <4>2
        <4> QED BY <4>1, <4>2
      <3> QED BY <1>2, <1>4, <3>1, <3>2 DEF Last, n, drawn
    <2> QED BY <2>1, <2>2 DEF PaneIsFull, all, n
  <1> QED BY <1>9, <1>10

(* With auto-scroll off a frame shows at its top the row the pane was left at, or one  *)
(* as far below it as rows arrived in that very frame, so that one in which nothing     *)
(* arrives shows the row itself; a frame is full as far as there are rows, and ends     *)
(* with the newest when it is not scrolled; and the caret is inside its row             *)
(* (render_loop, visible_log_rows, input_view).                                        *)
THEOREM PaneKeepsItsPlace == ScreenSpec => []PaneIsSteady
  <1>1. PaneInv /\ CursorInv => PaneIsSteady
    BY PaneShows, CaretStays DEF PaneIsSteady
  <1> QED BY <1>1, PaneIndInit, PaneIndStep, CursorInit, CursorStep, PTL DEF ScreenSpec
=============================================================================

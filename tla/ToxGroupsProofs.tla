-------------------------- MODULE ToxGroupsProofs --------------------------
(***************************************************************************)
(* Theorems about the conferences, for any number of them, every title and  *)
(* every capacity: what the places that know of a conference agree on, the  *)
(* invitations that wait, and the names that stay.                          *)
(***************************************************************************)
EXTENDS ToxGroups, SequenceTheorems, FiniteSetTheorems, TLAPS

(* What a task holds between two steps: a command is about a conference, but *)
(* for the making of one, and an event is on its way to the core.           *)
HoldsGroup ==
  /\ actor.at \in {"join", "leave", "rename", "tell", "created", "joined", "left", "renamed"}
       => actor.group \in Groups
  /\ bridge.at # "idle" => bridge.event \in Event

IInv == /\ TypeOK /\ HoldsGroup /\ IsFiniteSet(invites)
        /\ HandshakesAreLive /\ ActiveIsListed /\ InvitationsSurvive

(* Tables of titles, and their combinations, are tables of titles.          *)
LEMMA TableTyped ==
  /\ Nothing \in Names
  /\ \A n \in Names, g \in Groups, t \in Labels \cup {Absent} : [n EXCEPT ![g] = t] \in Names
  /\ \A n, m \in Names : Over(n, m) \in Names
  /\ \A n \in Names : \A g : Without(n, g) \in Names
  BY DEF Nothing, Names, Over, Without

(* An update keeps what else is in a table, and puts in what is no absence. *)
LEMMA TableIn ==
  ASSUME NEW n \in Names, NEW g \in Groups, NEW t \in Labels
  PROVE  In([n EXCEPT ![g] = t]) = In(n) \cup {g}
  BY ToxGroupsAssumption DEF In, Names, Labels

LEMMA WithoutIn ==
  ASSUME NEW n \in Names, NEW g \in Groups
  PROVE  In(Without(n, g)) = In(n) \ {g}
  BY DEF In, Names, Without

(* A name is a title or empty, and a known one is not replaced by none.     *)
LEMMA BetterTyped ==
  ASSUME NEW old \in Labels \cup {Absent}, NEW t \in Labels
  PROVE  Better(old, t) \in Labels /\ (old \in Titles => Better(old, t) # NoTitle)
  BY ToxGroupsAssumption DEF Better, Labels

(* A queue loses its first entry, or gains a last one.                      *)
LEMMA QueueTyped ==
  ASSUME NEW q \in Seq(Event)
  PROVE  /\ q # <<>> => /\ Head(q) \in Event /\ Tail(q) \in Seq(Event)
                        /\ Len(Tail(q)) = Len(q) - 1 /\ Len(q) \in Nat
         /\ \A e \in Event : Append(q, e) \in Seq(Event) /\ Len(Append(q, e)) = Len(q) + 1
  OBVIOUS

(* A callback finds room in the hand-off or is lost.                        *)
LEMMA RaiseTyped ==
  ASSUME TypeOK, NEW kind \in {"invite", "changed", "message"}, NEW g \in Groups, NEW t \in Labels,
         Raise(kind, g, t)
  PROVE  events' \in Seq(Event) /\ Len(events') <= EventCapacity
  <1>1. [kind |-> kind, group |-> g, title |-> t] \in Event
    BY DEF Event
  <1>2. events \in Seq(Event) /\ Len(events) <= EventCapacity /\ Len(events) \in Nat
    BY DEF TypeOK
  <1> QED BY <1>1, <1>2, QueueTyped, ToxGroupsAssumption DEF Raise

(* The bridge's hand-off loses its oldest callback to the bridge.           *)
LEMMA TakesTyped ==
  ASSUME TypeOK, NEW kind, Takes(kind)
  PROVE  /\ events' \in Seq(Event) /\ Len(events') <= EventCapacity
         /\ Head(events) \in Event
  <1>1. events \in Seq(Event) /\ Len(events) <= EventCapacity /\ events # <<>>
    BY DEF TypeOK, Takes
  <1> QED BY <1>1, QueueTyped, ToxGroupsAssumption DEF Takes

(* What the actor and the bridge may be, in words the provers need not expand. *)
Actors == [at : {"idle", "create", "join", "leave", "rename", "tell",
                 "created", "joined", "left", "renamed", "listed"},
           group : Groups \cup {Absent}, title : Labels]
Bridges == [at : {"idle", "lookup", "cache", "hand"}, event : Event \cup {Rests.event}]

LEMMA TaskTyped ==
  /\ Idle \in Actors /\ Rests \in Bridges /\ Rests.at = "idle" /\ Idle.at = "idle"
  /\ \A a \in Actors, at \in {"join", "joined", "left", "renamed", "listed"} :
       /\ [a EXCEPT !.at = at] \in Actors
       /\ [a EXCEPT !.at = at].at = at /\ [a EXCEPT !.at = at].group = a.group
  /\ \A e \in Event, at \in {"lookup", "cache", "hand"} : [at |-> at, event |-> e] \in Bridges
  BY DEF Idle, Rests, Actors, Bridges, Labels

(* Invitations and their history stay what they are while no join is answered. *)
LEMMA InvitationsKept ==
  ASSUME InvitationsSurvive, UNCHANGED <<invites, owed>>,
         actor.at # "joined" \/ UNCHANGED actor
  PROVE  InvitationsSurvive'
  BY DEF InvitationsSurvive

(* So do the handshakes, while nobody touches them, or a conference is added.  *)
LEMMA HandshakesKept ==
  ASSUME HandshakesAreLive, UNCHANGED <<handshakes, confirmed, vanished>>,
         In(live) \subseteq In(live')
  PROVE  HandshakesAreLive'
  <1>1. In(live)' = In(live')
    BY DEF In
  <1> QED BY <1>1 DEF HandshakesAreLive

(* A snapshot finds out which conferences are gone.                         *)
LEMMA SnapshotKept ==
  ASSUME TypeOK, HandshakesAreLive, NEW task, Snapshot(task), UNCHANGED live
  PROVE  /\ HandshakesAreLive'
         /\ handshakes' \subseteq Groups /\ confirmed' \subseteq Groups /\ vanished' \subseteq Groups
  <1>1. In(live)' = In(live)
    BY DEF In
  <1> QED BY <1>1 DEF Snapshot, HandshakesAreLive, TypeOK

(* A conference ends: by the command without a trace of its handshake, by   *)
(* itself with one.                                                         *)
LEMMA EndKept ==
  ASSUME TypeOK, HandshakesAreLive, NEW g \in Groups, live' = Without(live, g),
         confirmed' = confirmed \ {g},
         \/ handshakes' = handshakes \ {g} /\ vanished' = vanished \ {g}
         \/ handshakes' = handshakes /\ vanished' = vanished \cup ({g} \cap handshakes)
  PROVE  /\ HandshakesAreLive' /\ live' \in Names
         /\ handshakes' \subseteq Groups /\ confirmed' \subseteq Groups /\ vanished' \subseteq Groups
  <1>1. live \in Names
    BY DEF TypeOK
  <1>2. live' \in Names /\ In(live') = In(live) \ {g}
    BY <1>1, TableTyped, WithoutIn
  <1>3. In(live)' = In(live')
    BY DEF In
  <1>4. HandshakesAreLive'
    BY <1>2, <1>3 DEF HandshakesAreLive
  <1> QED BY <1>2, <1>4 DEF TypeOK

(* Callbacks change the hand-off, and what toxcore knows.                   *)
LEMMA CallbacksKeep ==
  ASSUME IInv, NEW g \in Groups, NEW t \in Labels,
         Invited(g) \/ Connected(g) \/ Messaged(g) \/ Changed(g, t) \/ GoesAway(g)
  PROVE  IInv'
  <1>1. NoTitle \in Labels /\ (g \in In(live) => live[g] \in Labels)
    BY DEF IInv, TypeOK, In, Names, Labels
  <1>2. events' \in Seq(Event) /\ Len(events') <= EventCapacity
    <2>1. CASE GoesAway(g)
      BY <2>1 DEF GoesAway, IInv, TypeOK
    <2> QED BY <1>1, <2>1, RaiseTyped DEF IInv, Invited, Connected, Messaged, Changed
  <1>3. UNCHANGED <<bridge, names, invites, inbox, actor, core, copy, owed>>
    BY DEF Invited, Connected, Messaged, Changed, GoesAway, past
  <1>4. /\ live' \in Names /\ HandshakesAreLive'
        /\ handshakes' \subseteq Groups /\ confirmed' \subseteq Groups /\ vanished' \subseteq Groups
    <2>1. CASE Invited(g) \/ Messaged(g)
      BY <2>1 DEF Invited, Messaged, IInv, TypeOK, HandshakesAreLive, In, past
    <2>2. CASE Connected(g)
      BY <2>2 DEF Connected, IInv, TypeOK, HandshakesAreLive, In
    <2>3. CASE Changed(g, t)
      <3>1. /\ live' = [live EXCEPT ![g] = t] /\ live \in Names
            /\ UNCHANGED <<handshakes, confirmed, vanished>>
        BY <2>3 DEF Changed, IInv, TypeOK, past
      <3>2. live' \in Names /\ In(live') = In(live) \cup {g}
        BY <3>1, TableTyped, TableIn
      <3> QED BY <3>1, <3>2, HandshakesKept DEF IInv, TypeOK
    <2>4. CASE GoesAway(g)
      BY <2>4, EndKept DEF GoesAway, IInv
    <2> QED BY <2>1, <2>2, <2>3, <2>4
  <1>5. InvitationsSurvive'
    BY <1>3, InvitationsKept DEF IInv
  <1> QED BY <1>2, <1>3, <1>4, <1>5 DEF IInv, TypeOK, HoldsGroup, ActiveIsListed, In, core

(* The bridge keeps invitations and titles, and hands in what was raised.   *)
LEMMA BridgeKeeps ==
  ASSUME IInv,
         KeepInvite \/ RememberTitle \/ TakeMessage \/ AskWorker \/ CacheAnswer \/ HandIn
  PROVE  IInv'
  <1> USE DEF IInv
  <1>1. names \in Names /\ live \in Names /\ bridge \in Bridges /\ copy["bridge"] \in Names
    BY DEF TypeOK, Bridges
  <1>2. CASE KeepInvite
    <2>1. /\ Takes("invite") /\ bridge' = [at |-> "hand", event |-> Head(events)]
          /\ UNCHANGED <<live, handshakes, names, inbox, actor, core, copy, confirmed, vanished>>
      BY <1>2 DEF KeepInvite
    <2>2. events' \in Seq(Event) /\ Len(events') <= EventCapacity /\ Head(events) \in Event
      BY <2>1, TakesTyped
    <2>3. bridge' \in Bridges /\ bridge'.event \in Event
      BY <2>1, <2>2, TaskTyped
    <2>4. Head(events).group \in Groups
      BY <2>2 DEF Event
    <2>5. invites' \subseteq Groups /\ IsFiniteSet(invites') /\ Cardinality(invites') <= InviteCapacity
      <3> DEFINE g == Head(events).group
      <3>1. CASE g \in invites
        BY <1>2, <3>1 DEF KeepInvite, TypeOK
      <3>2. CASE g \notin invites /\ Cardinality(invites) < InviteCapacity
        <4>1. invites' = invites \cup {g}
          BY <1>2, <3>2 DEF KeepInvite
        <4>2. IsFiniteSet(invites \cup {g}) /\ Cardinality(invites \cup {g}) = Cardinality(invites) + 1
          BY <3>2, FS_AddElement
        <4>3. Cardinality(invites) \in Nat
          BY FS_CardinalityType
        <4>4. Cardinality(invites) + 1 <= InviteCapacity
          BY <3>2, <4>3, ToxGroupsAssumption
        <4>5. invites \cup {g} \subseteq Groups
          BY <2>4 DEF TypeOK
        <4> HIDE DEF g
        <4> QED BY <4>1, <4>2, <4>4, <4>5
      <3>3. CASE g \notin invites /\ ~(Cardinality(invites) < InviteCapacity)
        BY <1>2, <3>3 DEF KeepInvite, TypeOK
      <3> QED BY <3>1, <3>2, <3>3
    <2>6. InvitationsSurvive' /\ owed' \subseteq Groups
      BY <1>2, <2>4 DEF KeepInvite, InvitationsSurvive, TypeOK
    <2> QED BY <2>1, <2>2, <2>3, <2>5, <2>6
            DEF TypeOK, Bridges, HoldsGroup, HandshakesAreLive, ActiveIsListed, InvitationsSurvive, In, core,
                past
  <1>3. CASE RememberTitle
    <2>1. /\ Takes("changed") /\ bridge' = [at |-> "hand", event |-> Head(events)]
          /\ names' = [names EXCEPT ![Head(events).group] = Head(events).title]
          /\ UNCHANGED <<live, handshakes, invites, inbox, actor, core, copy, past>>
      BY <1>3 DEF RememberTitle
    <2>2. events' \in Seq(Event) /\ Len(events') <= EventCapacity /\ Head(events) \in Event
      BY <2>1, TakesTyped
    <2>3. bridge' \in Bridges /\ bridge'.event \in Event
      BY <2>1, <2>2, TaskTyped
    <2>4. names' \in Names
      BY <1>1, <2>1, <2>2, TableTyped DEF Event
    <2> QED BY <2>1, <2>2, <2>3, <2>4
            DEF TypeOK, Bridges, HoldsGroup, HandshakesAreLive, ActiveIsListed, InvitationsSurvive, In, core,
                past
  <1>4. CASE TakeMessage
    <2>1. Takes("message") /\ UNCHANGED <<live, handshakes, names, invites, inbox, actor, core, copy, past>>
      BY <1>4 DEF TakeMessage
    <2>2. events' \in Seq(Event) /\ Len(events') <= EventCapacity /\ Head(events) \in Event
      BY <2>1, TakesTyped
    <2>3. bridge' \in Bridges /\ bridge'.event \in Event
      <3> DEFINE g == Head(events).group
      <3>1. CASE names[g] # Absent
        <4>1. names[g] \in Labels
          BY <1>1, <2>2, <3>1 DEF Names, Event
        <4>2. [Head(events) EXCEPT !.title = names[g]] \in Event
          BY <2>2, <4>1 DEF Event
        <4>3. bridge' = [at |-> "hand", event |-> [Head(events) EXCEPT !.title = names[g]]]
          BY <1>4, <3>1 DEF TakeMessage
        <4> QED BY <4>2, <4>3, TaskTyped
      <3>2. CASE names[g] = Absent
        <4>1. bridge' = [at |-> "lookup", event |-> Head(events)]
          BY <1>4, <3>2 DEF TakeMessage
        <4> QED BY <2>2, <4>1, TaskTyped
      <3> QED BY <3>1, <3>2
    <2> QED BY <2>1, <2>2, <2>3
            DEF TypeOK, Bridges, HoldsGroup, HandshakesAreLive, ActiveIsListed, InvitationsSurvive, In, core,
                past
  <1>5. CASE AskWorker
    <2>1. /\ Snapshot("bridge") /\ copy' = [copy EXCEPT !["bridge"] = live]
          /\ bridge.at = "lookup" /\ bridge' = [bridge EXCEPT !.at = "cache"]
          /\ UNCHANGED <<live, events, names, invites, inbox, actor, core, owed>>
      BY <1>5 DEF AskWorker, Snapshot
    <2>2. bridge' \in Bridges /\ bridge'.event \in Event
      BY <1>1, <2>1 DEF Bridges, HoldsGroup
    <2>3. copy' \in [{"actor", "bridge"} -> Names]
      BY <1>1, <2>1 DEF TypeOK
    <2>4. /\ HandshakesAreLive' /\ InvitationsSurvive'
          /\ handshakes' \subseteq Groups /\ confirmed' \subseteq Groups /\ vanished' \subseteq Groups
      BY <2>1, SnapshotKept, InvitationsKept
    <2> QED BY <2>1, <2>2, <2>3, <2>4
            DEF TypeOK, Bridges, HoldsGroup, ActiveIsListed, In, core
  <1>6. CASE CacheAnswer
    <2> DEFINE told == Over(names, copy["bridge"])
    <2>1. /\ bridge.at = "cache" /\ names' = told
          /\ bridge' = [at |-> "hand", event |-> [bridge.event EXCEPT !.title =
                          IF told[bridge.event.group] # Absent THEN told[bridge.event.group] ELSE NoTitle]]
          /\ copy' = [copy EXCEPT !["bridge"] = Nothing]
          /\ UNCHANGED <<worker, invites, inbox, actor, core, past>>
      BY <1>6 DEF CacheAnswer
    <2>2. told \in Names /\ bridge.event \in Event
      BY <1>1, <2>1, TableTyped DEF HoldsGroup
    <2>3. (IF told[bridge.event.group] # Absent THEN told[bridge.event.group] ELSE NoTitle) \in Labels
      BY <2>2 DEF Names, Event, Labels
    <2>4. bridge' \in Bridges /\ bridge'.event \in Event
      <3> HIDE DEF told
      <3>1. \A t \in Labels : [bridge.event EXCEPT !.title = t] \in Event
        BY <2>2 DEF Event
      <3> QED BY <2>1, <2>3, <3>1, TaskTyped
    <2>5. copy' \in [{"actor", "bridge"} -> Names]
      BY <2>1, TableTyped DEF TypeOK
    <2> QED BY <2>1, <2>2, <2>4, <2>5
            DEF TypeOK, Bridges, HoldsGroup, HandshakesAreLive, ActiveIsListed, InvitationsSurvive, In,
                core, worker, past
  <1>7. CASE HandIn
    <2>1. /\ bridge.at = "hand" /\ Len(inbox) < InboxCapacity
          /\ inbox' = Append(inbox, bridge.event) /\ bridge' = Rests
          /\ UNCHANGED <<worker, names, invites, actor, core, past, copy>>
      BY <1>7 DEF HandIn
    <2>2. bridge.event \in Event /\ inbox \in Seq(Event) /\ Len(inbox) \in Nat
      BY <2>1 DEF HoldsGroup, TypeOK
    <2>3. inbox' \in Seq(Event) /\ Len(inbox') <= InboxCapacity
      BY <2>1, <2>2, QueueTyped, ToxGroupsAssumption
    <2>4. bridge' \in Bridges /\ bridge'.at = "idle"
      BY <2>1, TaskTyped
    <2> QED BY <2>1, <2>3, <2>4
            DEF TypeOK, Bridges, HoldsGroup, HandshakesAreLive, ActiveIsListed, InvitationsSurvive, In,
                core, worker, past
  <1> QED BY <1>2, <1>3, <1>4, <1>5, <1>6, <1>7
(* The title of a group is never absent where it is put in a list.          *)
LEMMA RememberTyped ==
  ASSUME groups \in Names, NEW g \in Groups, NEW t \in Labels, Remember(g, t)
  PROVE  /\ groups' \in Names /\ In(groups') = In(groups) \cup {g}
         /\ \A h \in Groups : groups[h] \in Titles => groups'[h] # NoTitle
  <1>1. groups[g] \in Labels \cup {Absent}
    BY DEF Names
  <1>2. Better(groups[g], t) \in Labels /\ (groups[g] \in Titles => Better(groups[g], t) # NoTitle)
    BY <1>1, BetterTyped
  <1>3. groups' = [groups EXCEPT ![g] = Better(groups[g], t)]
    BY DEF Remember
  <1>4. groups' \in Names /\ In(groups') = In(groups) \cup {g}
    BY <1>2, <1>3, TableTyped, TableIn
  <1>5. \A h \in Groups : groups[h] \in Titles => groups'[h] # NoTitle
    BY <1>2, <1>3, ToxGroupsAssumption DEF Names
  <1> QED BY <1>4, <1>5

(* What a list brings in, whatever it says.                                 *)
LEMMA ListedTyped ==
  ASSUME IInv, Listed
  PROVE  /\ groups' \in Names /\ names' \in Names /\ In(groups) \subseteq In(groups')
         /\ \A h \in Groups : groups[h] \in Titles => groups'[h] # NoTitle
  <1> DEFINE told == copy["actor"]
  <1>1. told \in Names /\ groups \in Names /\ names \in Names
    BY DEF IInv, TypeOK
  <1>2. names' \in Names
    BY <1>1, TableTyped DEF Listed
  <1>3. groups' = [g \in Groups |-> IF told[g] # Absent THEN Better(groups[g], told[g]) ELSE groups[g]]
    BY DEF Listed
  <1>4. \A g \in Groups : told[g] # Absent => told[g] \in Labels
    BY <1>1 DEF Names
  <1>5. \A g \in Groups : groups[g] \in Labels \cup {Absent}
    BY <1>1 DEF Names
  <1>6. \A g \in Groups : told[g] # Absent =>
          /\ Better(groups[g], told[g]) \in Labels
          /\ groups[g] \in Titles => Better(groups[g], told[g]) # NoTitle
    BY <1>4, <1>5, BetterTyped
  <1> HIDE DEF told
  <1>7. groups' \in Names
    BY <1>3, <1>5, <1>6 DEF Names
  <1>8. In(groups) \subseteq In(groups')
    BY <1>3, <1>6, ToxGroupsAssumption DEF In, Labels
  <1>9. \A h \in Groups : groups[h] \in Titles => groups'[h] # NoTitle
    BY <1>3, <1>6, ToxGroupsAssumption
  <1> QED BY <1>2, <1>7, <1>8, <1>9

(* A request is made: the actor begins to wait, or an invitation goes at once. *)
LEMMA RequestsKeep ==
  ASSUME IInv,
         \/ \E t \in Labels : CreateGroup(t)
         \/ \E g \in Groups : JoinGroup(g) \/ DeclineGroupInvite(g)
         \/ \E g \in Groups, t \in Labels : \E what \in {"leave", "tell", "rename"} : Asks(g, what, t)
         \/ AsksForGroups
  PROVE  IInv'
  <1> USE DEF IInv
  <1>1. UNCHANGED <<live, events, bridge, names, inbox, core>>
    BY DEF CreateGroup, JoinGroup, DeclineGroupInvite, Asks, AsksForGroups, worker
  <1>2. CASE \/ \E t \in Labels : CreateGroup(t)
             \/ \E g \in Groups, t \in Labels : \E what \in {"leave", "tell", "rename"} : Asks(g, what, t)
    <2>1. UNCHANGED <<handshakes, invites, copy, past>> /\ actor.at = "idle"
      BY <1>2 DEF CreateGroup, Asks, worker
    <2>2. actor' \in Actors /\ (actor'.at # "create" => actor'.group \in Groups)
      BY <1>2 DEF CreateGroup, Asks, Command, Actors
    <2>3. InvitationsSurvive' /\ HandshakesAreLive'
      BY <1>1, <2>1, InvitationsKept, HandshakesKept DEF past
    <2> QED BY <1>1, <2>1, <2>2, <2>3
            DEF TypeOK, Actors, HoldsGroup, ActiveIsListed, In, core, past
  <1>3. CASE \E g \in Groups : JoinGroup(g) \/ DeclineGroupInvite(g)
    <2>1. PICK g \in Groups : JoinGroup(g) \/ DeclineGroupInvite(g)
      BY <1>3
    <2>2. UNCHANGED <<handshakes, copy, confirmed, vanished>> /\ actor.at = "idle"
      BY <2>1 DEF JoinGroup, DeclineGroupInvite, worker
    <2>3. \/ UNCHANGED <<invites, owed>>
          \/ invites' = invites \ {g} /\ owed' = owed \ {g}
      BY <2>1 DEF JoinGroup, DeclineGroupInvite
    <2>4. /\ invites' \subseteq Groups /\ IsFiniteSet(invites') /\ Cardinality(invites') <= InviteCapacity
          /\ owed' \subseteq Groups /\ InvitationsSurvive'
      <3>1. CASE UNCHANGED <<invites, owed>>
        BY <2>2, <3>1, InvitationsKept DEF TypeOK
      <3>2. CASE invites' = invites \ {g} /\ owed' = owed \ {g}
        <4>1. IsFiniteSet(invites \ {g}) /\ Cardinality(invites \ {g}) <= Cardinality(invites)
          BY FS_Subset
        <4>2. Cardinality(invites \ {g}) \in Nat /\ Cardinality(invites) \in Nat
          BY <4>1, FS_CardinalityType
        <4>3. Cardinality(invites') <= InviteCapacity
          BY <3>2, <4>1, <4>2, ToxGroupsAssumption DEF TypeOK
        <4>4. InvitationsSurvive'
          BY <2>2, <3>2 DEF InvitationsSurvive
        <4> QED BY <3>2, <4>1, <4>3, <4>4 DEF TypeOK
      <3> QED BY <2>3, <3>1, <3>2
    <2>5. /\ actor' \in Actors
          /\ (actor'.at = "join" /\ actor'.group \in Groups) \/ UNCHANGED actor
      BY <2>1 DEF JoinGroup, DeclineGroupInvite, Command, Actors, TypeOK, Labels
    <2>6. HandshakesAreLive'
      BY <1>1, <2>2, HandshakesKept
    <2> QED BY <1>1, <2>2, <2>4, <2>5, <2>6
            DEF TypeOK, Actors, HoldsGroup, ActiveIsListed, In, core
  <1>4. CASE AsksForGroups
    <2>1. /\ Snapshot("actor") /\ copy' = [copy EXCEPT !["actor"] = live] /\ actor.at = "idle"
          /\ actor' = [Idle EXCEPT !.at = "listed"] /\ UNCHANGED <<invites, owed>>
      BY <1>4 DEF AsksForGroups, Snapshot
    <2>2. actor' \in Actors /\ actor'.at = "listed"
      BY <2>1, TaskTyped
    <2>3. copy' \in [{"actor", "bridge"} -> Names]
      BY <2>1 DEF TypeOK
    <2>4. /\ HandshakesAreLive' /\ InvitationsSurvive'
          /\ handshakes' \subseteq Groups /\ confirmed' \subseteq Groups /\ vanished' \subseteq Groups
      BY <1>1, <2>1, SnapshotKept, InvitationsKept
    <2> QED BY <1>1, <2>1, <2>2, <2>3, <2>4
            DEF TypeOK, Actors, HoldsGroup, ActiveIsListed, In, core
  <1> QED BY <1>2, <1>3, <1>4
(* What toxcore does, or refuses to do, for the actor that waits.           *)
LEMMA ToxKeeps ==
  ASSUME IInv,
         \/ \E g \in Groups, t \in Labels : ToxCreates(g, t)
         \/ ToxJoins \/ ToxRefuses \/ Unknown \/ ToxLeaves \/ ToxTells \/ ToxRenames
  PROVE  IInv'
  <1> USE DEF IInv
  <1>1. actor \in Actors /\ live \in Names
    BY DEF TypeOK, Actors
  <1>2. UNCHANGED <<events, bridge, names, invites, inbox, core, copy>>
    BY DEF ToxCreates, ToxJoins, ToxRefuses, Unknown, ToxLeaves, ToxTells, ToxRenames, worker
  <1>3. CASE ToxRefuses \/ Unknown \/ ToxTells
    <2>1. actor' = Idle /\ UNCHANGED <<worker, past>> /\ actor.at # "joined"
      BY <1>3 DEF ToxRefuses, Unknown, ToxTells
    <2>2. InvitationsSurvive' /\ HandshakesAreLive'
      BY <1>2, <2>1, InvitationsKept, HandshakesKept DEF past, worker
    <2> QED BY <1>2, <2>1, <2>2, TaskTyped
            DEF TypeOK, Actors, HoldsGroup, ActiveIsListed, In, core, worker, past
  <1>4. ASSUME NEW g \in Groups, NEW t \in Labels, live' = [live EXCEPT ![g] = t],
               UNCHANGED <<handshakes, confirmed, vanished>>, actor' \in Actors, HoldsGroup',
               InvitationsSurvive', owed' \subseteq owed
        PROVE  IInv'
    <2>1. live' \in Names /\ In(live') = In(live) \cup {g}
      BY <1>1, <1>4, TableTyped, TableIn
    <2>2. HandshakesAreLive'
      BY <1>4, <2>1, HandshakesKept
    <2> QED BY <1>2, <1>4, <2>1, <2>2 DEF TypeOK, Actors, ActiveIsListed, In, core
  <1>5. ASSUME NEW g \in Groups, NEW t \in Labels, ToxCreates(g, t) PROVE IInv'
    <2>1. /\ live' = [live EXCEPT ![g] = t] /\ UNCHANGED <<handshakes, past>>
          /\ actor' = [at |-> "created", group |-> g, title |-> t] /\ actor.at = "create"
      BY <1>5 DEF ToxCreates
    <2>2. actor' \in Actors /\ HoldsGroup'
      BY <1>2, <2>1 DEF Actors, HoldsGroup
    <2>3. InvitationsSurvive'
      BY <1>2, <2>1, InvitationsKept DEF past
    <2> QED BY <1>4, <2>1, <2>2, <2>3 DEF past
  <1>6. CASE ToxJoins
    <2>1. /\ actor.at = "join" /\ live' = [live EXCEPT ![actor.group] = NoTitle]
          /\ UNCHANGED <<handshakes, confirmed, vanished>> /\ owed' = owed \ {actor.group}
          /\ actor' = [actor EXCEPT !.at = "joined"]
      BY <1>6 DEF ToxJoins
    <2>2. actor.group \in Groups /\ NoTitle \in Labels
      BY <2>1 DEF HoldsGroup, Labels
    <2>3. actor' \in Actors /\ HoldsGroup'
      BY <1>1, <1>2, <2>1, <2>2, TaskTyped DEF HoldsGroup
    <2>4. actor'.at = "joined" /\ actor'.group = actor.group
      BY <1>1, <2>1, TaskTyped
    <2>5. InvitationsSurvive'
      BY <1>2, <2>1, <2>4 DEF InvitationsSurvive
    <2> QED BY <1>4, <2>1, <2>2, <2>3, <2>5
  <1>7. CASE ToxRenames
    <2>1. /\ actor.at = "rename" /\ live' = [live EXCEPT ![actor.group] = actor.title]
          /\ UNCHANGED <<handshakes, past>> /\ actor' = [actor EXCEPT !.at = "renamed"]
      BY <1>7 DEF ToxRenames
    <2>2. actor.group \in Groups /\ actor.title \in Labels
      BY <1>1, <2>1 DEF HoldsGroup, Actors
    <2>3. actor' \in Actors /\ HoldsGroup'
      BY <1>1, <1>2, <2>1, <2>2, TaskTyped DEF HoldsGroup
    <2>4. InvitationsSurvive'
      BY <1>2, <2>1, InvitationsKept DEF past
    <2> QED BY <1>4, <2>1, <2>2, <2>3, <2>4 DEF past
  <1>8. CASE ToxLeaves
    <2>1. /\ actor.at = "leave" /\ live' = Without(live, actor.group)
          /\ handshakes' = handshakes \ {actor.group} /\ confirmed' = confirmed \ {actor.group}
          /\ vanished' = vanished \ {actor.group} /\ UNCHANGED owed
          /\ actor' = [actor EXCEPT !.at = "left"]
      BY <1>8 DEF ToxLeaves
    <2>2. actor.group \in Groups
      BY <2>1 DEF HoldsGroup
    <2>3. actor' \in Actors /\ HoldsGroup'
      BY <1>1, <1>2, <2>1, <2>2, TaskTyped DEF HoldsGroup
    <2>4. /\ HandshakesAreLive' /\ live' \in Names
          /\ handshakes' \subseteq Groups /\ confirmed' \subseteq Groups /\ vanished' \subseteq Groups
      BY <2>1, <2>2, EndKept
    <2>5. InvitationsSurvive'
      BY <1>2, <2>1, InvitationsKept
    <2> QED BY <1>2, <2>1, <2>3, <2>4, <2>5 DEF TypeOK, Actors, ActiveIsListed, In, core
  <1> QED BY <1>3, <1>5, <1>6, <1>7, <1>8

(* What the actor does with an answer, and with an event.                   *)
LEMMA AnswersKeep ==
  ASSUME IInv, Entered \/ Left \/ Renamed \/ Listed \/ OnAppEvent
  PROVE  IInv'
  <1> USE DEF IInv
  <1>1. actor \in Actors /\ names \in Names /\ groups \in Names
    BY DEF TypeOK, Actors
  <1>2. UNCHANGED <<worker, bridge>> /\ (actor' = Idle \/ UNCHANGED actor)
    BY DEF Entered, Left, Renamed, Listed, OnAppEvent
  <1>3. actor' \in Actors /\ HoldsGroup'
    BY <1>1, <1>2, TaskTyped DEF HoldsGroup
  <1>4. In(live)' = In(live) /\ In(groups)' = In(groups')
    BY <1>2 DEF In, worker
  <1>10. HandshakesAreLive'
    <2>1. UNCHANGED <<live, handshakes, confirmed, vanished>>
      BY DEF Entered, Left, Renamed, Listed, OnAppEvent, worker, past
    <2> QED BY <2>1, HandshakesKept
  <1>5. CASE Entered
    <2> DEFINE g == actor.group
    <2>1. /\ actor.at \in {"created", "joined"} /\ names' = [names EXCEPT ![g] = actor.title]
          /\ Remember(g, actor.title) /\ active' = g /\ actor' = Idle
          /\ UNCHANGED <<inbox, copy, confirmed, vanished>>
      BY <1>5 DEF Entered, Caches
    <2>7. \/ actor.at # "joined" /\ UNCHANGED <<invites, owed>>
          \/ actor.at = "joined" /\ invites' = invites \ {g} /\ owed' = owed \ {g}
      BY <1>5 DEF Entered
    <2>2. g \in Groups /\ actor.title \in Labels
      BY <1>1, <2>1 DEF HoldsGroup, Actors
    <2>3. names' \in Names /\ groups' \in Names /\ g \in In(groups')
      BY <1>1, <2>1, <2>2, TableTyped, RememberTyped
    <2>4. invites' \subseteq Groups /\ IsFiniteSet(invites') /\ Cardinality(invites') <= InviteCapacity
      <3>1. IsFiniteSet(invites \ {g}) /\ Cardinality(invites \ {g}) <= Cardinality(invites)
        BY FS_Subset
      <3>2. Cardinality(invites \ {g}) \in Nat /\ Cardinality(invites) \in Nat
        BY <3>1, FS_CardinalityType
      <3>3. CASE invites' = invites
        BY <3>3 DEF TypeOK
      <3>4. CASE invites' = invites \ {g}
        BY <3>1, <3>2, <3>4, ToxGroupsAssumption DEF TypeOK
      <3> QED BY <2>7, <3>3, <3>4
    <2>5. InvitationsSurvive' /\ owed' \subseteq Groups
      <3>1. CASE actor.at # "joined" /\ UNCHANGED <<invites, owed>>
        BY <3>1, InvitationsKept DEF TypeOK
      <3>2. CASE actor.at = "joined" /\ invites' = invites \ {g} /\ owed' = owed \ {g}
        BY <3>2 DEF InvitationsSurvive, TypeOK
      <3> QED BY <2>7, <3>1, <3>2
    <2>6. ActiveIsListed' /\ active' \in Groups
      BY <1>4, <2>1, <2>2, <2>3 DEF ActiveIsListed
    <2> QED BY <1>2, <1>3, <1>4, <2>1, <1>10, <2>3, <2>4, <2>5, <2>6
            DEF TypeOK, Actors, worker
  <1>6. CASE Left
    <2>0. actor.at # "joined"
      BY <1>6 DEF Left
    <2>1. /\ actor.at = "left" /\ names' = Without(names, actor.group)
          /\ groups' = Without(groups, actor.group)
          /\ active' = (IF active = actor.group THEN Absent ELSE active)
          /\ UNCHANGED <<invites, inbox, past, copy>>
      BY <1>6 DEF Left, Forgets
    <2>2. actor.group \in Groups
      BY <2>1 DEF HoldsGroup
    <2>3. names' \in Names /\ groups' \in Names /\ In(groups') = In(groups) \ {actor.group}
      BY <1>1, <2>1, <2>2, TableTyped, WithoutIn
    <2>4. ActiveIsListed' /\ active' \in Groups \cup {Absent}
      BY <1>4, <2>1, <2>3 DEF ActiveIsListed, TypeOK
    <2>9. InvitationsSurvive'
      BY <2>1, <2>0, InvitationsKept DEF past
    <2> QED BY <1>2, <1>3, <1>4, <1>10, <2>1, <2>3, <2>4, <2>9
            DEF TypeOK, Actors, worker, past
  <1>7. CASE Renamed
    <2>0. actor.at # "joined"
      BY <1>7 DEF Renamed
    <2>1. /\ actor.at = "renamed" /\ names' = [names EXCEPT ![actor.group] = actor.title]
          /\ Remember(actor.group, actor.title) /\ UNCHANGED <<invites, inbox, active, past, copy>>
      BY <1>7 DEF Renamed, Caches
    <2>2. actor.group \in Groups /\ actor.title \in Labels
      BY <1>1, <2>1 DEF HoldsGroup, Actors
    <2>3. names' \in Names /\ groups' \in Names /\ In(groups) \subseteq In(groups')
      BY <1>1, <2>1, <2>2, TableTyped, RememberTyped
    <2>4. ActiveIsListed'
      BY <1>4, <2>1, <2>3 DEF ActiveIsListed
    <2>9. InvitationsSurvive'
      BY <2>1, <2>0, InvitationsKept DEF past
    <2> QED BY <1>2, <1>3, <1>4, <1>10, <2>1, <2>3, <2>4, <2>9
            DEF TypeOK, Actors, worker, past
  <1>8. CASE Listed
    <2>0. actor.at # "joined"
      BY <1>8 DEF Listed
    <2>1. /\ copy' = [copy EXCEPT !["actor"] = Nothing]
          /\ UNCHANGED <<invites, inbox, active, past>>
      BY <1>8 DEF Listed
    <2>2. names' \in Names /\ groups' \in Names /\ In(groups) \subseteq In(groups')
      BY <1>8, ListedTyped
    <2>3. copy' \in [{"actor", "bridge"} -> Names]
      BY <2>1, TableTyped DEF TypeOK
    <2>4. ActiveIsListed'
      BY <1>4, <2>1, <2>2 DEF ActiveIsListed
    <2>9. InvitationsSurvive'
      BY <2>1, <2>0, InvitationsKept DEF past
    <2> QED BY <1>2, <1>3, <1>4, <1>10, <2>1, <2>2, <2>3, <2>4, <2>9
            DEF TypeOK, Actors, worker, past
  <1>9. CASE OnAppEvent
    <2>0. UNCHANGED actor
      BY <1>9 DEF OnAppEvent
    <2>1. /\ inbox # <<>> /\ inbox' = Tail(inbox)
          /\ UNCHANGED groups \/ Remember(Head(inbox).group, Head(inbox).title)
          /\ UNCHANGED <<names, invites, active, past, copy>>
      BY <1>9 DEF OnAppEvent
    <2>2. inbox \in Seq(Event) /\ Len(inbox) <= InboxCapacity
      BY DEF TypeOK
    <2>3. Head(inbox) \in Event /\ inbox' \in Seq(Event) /\ Len(inbox') <= InboxCapacity
      BY <2>1, <2>2, QueueTyped, ToxGroupsAssumption
    <2>4. Head(inbox).group \in Groups /\ Head(inbox).title \in Labels
      BY <2>3 DEF Event
    <2>5. groups' \in Names /\ In(groups) \subseteq In(groups')
      BY <1>1, <2>1, <2>4, RememberTyped DEF In
    <2>6. ActiveIsListed'
      BY <1>4, <2>1, <2>5 DEF ActiveIsListed
    <2>9. InvitationsSurvive'
      BY <2>1, <2>0, InvitationsKept DEF past
    <2> QED BY <1>2, <1>3, <1>4, <1>10, <2>1, <2>3, <2>5, <2>6, <2>9
            DEF TypeOK, Actors, worker, past
  <1> QED BY <1>5, <1>6, <1>7, <1>8, <1>9

(* A run begins with the conferences of the savedata, and nothing else.     *)
LEMMA InitInv == Init => IInv
  <1> SUFFICES ASSUME Init PROVE IInv
    OBVIOUS
  <1> USE ToxGroupsAssumption DEF Init
  <1>1. live \in Names /\ names \in Names /\ groups \in Names
    BY TableTyped DEF Names, Labels
  <1>2. events \in Seq(Event) /\ Len(events) <= EventCapacity
    OBVIOUS
  <1>3. inbox \in Seq(Event) /\ Len(inbox) <= InboxCapacity
    OBVIOUS
  <1>4. IsFiniteSet(invites) /\ Cardinality(invites) <= InviteCapacity
    BY FS_EmptySet
  <1>5. copy \in [{"actor", "bridge"} -> Names]
    BY TableTyped
  <1>6. bridge \in Bridges /\ actor \in Actors /\ bridge.at = "idle" /\ actor.at = "idle"
    BY TaskTyped
  <1>7. handshakes \subseteq Groups /\ invites \subseteq Groups /\ owed \subseteq Groups
        /\ confirmed \subseteq Groups /\ vanished \subseteq Groups /\ active \in Groups \cup {Absent}
    OBVIOUS
  <1>8. HandshakesAreLive /\ ActiveIsListed /\ InvitationsSurvive
    BY DEF HandshakesAreLive, ActiveIsListed, InvitationsSurvive
  <1> QED BY <1>1, <1>2, <1>3, <1>4, <1>5, <1>6, <1>7, <1>8
          DEF IInv, TypeOK, HoldsGroup, Bridges, Actors

(* Every step keeps the invariant.                                          *)
LEMMA NextInv == IInv /\ [Next]_vars => IInv'
  <1> SUFFICES ASSUME IInv, [Next]_vars PROVE IInv'
    OBVIOUS
  <1>1. CASE UNCHANGED vars
    BY <1>1 DEF vars, worker, core, IInv, TypeOK, HoldsGroup, HandshakesAreLive, ActiveIsListed,
                InvitationsSurvive, In, past
  <1>2. NoTitle \in Labels /\ Titles \subseteq Labels
    BY DEF Labels
  <1>3. CASE Next
    BY <1>2, <1>3, CallbacksKeep, BridgeKeeps, RequestsKeep, ToxKeeps, AnswersKeep DEF Next
  <1> QED BY <1>1, <1>3

LEMMA Invariant == Spec => []IInv
  BY InitInv, NextInv, PTL DEF Spec

(* The state is well-typed, the active group is listed, and a handshake on record *)
(* is of the membership of today, or of a conference that went away by itself and  *)
(* that no snapshot has found gone (conference_connected, ConferenceLeave, snapshot, *)
(* on_app_event, leave_group).                                              *)
THEOREM SessionsAgree == Spec => []GroupsAgree
  <1>1. IInv => GroupsAgree
    BY DEF IInv, GroupsAgree
  <1> QED BY <1>1, Invariant, PTL

(* An invitation that was kept waits until a join succeeded or it was declined, *)
(* whatever else arrives, and then it is gone (keep_pending, join_group).   *)
THEOREM InvitationsWait == Spec => []InvitationsSurvive
  BY Invariant, PTL DEF IInv

(* "An empty name never overwrites a known one", by whichever of the ways a name *)
(* reaches the list (remember_group, refresh_group_cache).                  *)
THEOREM NamesAreKept == Spec => NamesStay
  <1> DEFINE Stays == \A g \in Groups : groups[g] \in Titles => groups'[g] # NoTitle
  <1>1. IInv /\ [Next]_vars => [Stays]_vars
    <2> SUFFICES ASSUME IInv, Next PROVE Stays
      OBVIOUS
    <2>1. groups \in Names /\ actor \in Actors
      BY DEF IInv, TypeOK, Actors
    <2>2. CASE UNCHANGED groups
      BY <2>2, ToxGroupsAssumption
    <2>3. CASE Entered \/ Renamed
      <3>1. Remember(actor.group, actor.title) /\ actor.group \in Groups /\ actor.title \in Labels
        BY <2>1, <2>3 DEF Entered, Renamed, IInv, HoldsGroup, Actors
      <3> QED BY <2>1, <3>1, RememberTyped
    <2>4. CASE OnAppEvent
      <3>1. Head(inbox) \in Event
        BY <2>4, QueueTyped DEF OnAppEvent, IInv, TypeOK
      <3>2. UNCHANGED groups \/ Remember(Head(inbox).group, Head(inbox).title)
        BY <2>4 DEF OnAppEvent
      <3> QED BY <2>1, <2>2, <3>1, <3>2, RememberTyped DEF Event
    <2>5. CASE Left
      BY <2>1, <2>5, ToxGroupsAssumption DEF Left, Without, Names
    <2>6. CASE Listed
      BY <2>6, ListedTyped
    <2> QED BY <2>2, <2>3, <2>4, <2>5, <2>6
            DEF Next, Invited, Connected, Messaged, Changed, GoesAway, KeepInvite, RememberTitle,
                TakeMessage, AskWorker, CacheAnswer, HandIn, CreateGroup, ToxCreates, JoinGroup,
                DeclineGroupInvite, ToxJoins, ToxRefuses, Asks, Unknown, ToxLeaves, ToxTells,
                ToxRenames, AsksForGroups, core
  <1> QED BY <1>1, Invariant, PTL DEF Spec, NamesStay
=============================================================================

----------------------------- MODULE ToxGroups -----------------------------
(***************************************************************************)
(* Group chat over Tox conferences (tox.rs, transport.rs, core.rs): one    *)
(* fact, which conferences this instance is in and how they are called, is *)
(* kept in four places by three tasks.                                     *)
(*                                                                         *)
(*   worker  toxcore's thread: the conferences, the handshakes that have   *)
(*           completed; raises callbacks into a bounded hand-off           *)
(*   bridge  takes one callback after the other: keeps invitations and a   *)
(*           cache of titles, hands an event to the actor's bounded inbox  *)
(*   actor   the core: its list of groups, the active one; serves one      *)
(*           request or one event at a time and awaits the worker          *)
(*                                                                         *)
(* Each action is one lock's scope or one answered toxcore command. An     *)
(* invitation's cookie is stable for its conference, which stands for it.  *)
(***************************************************************************)
EXTENDS Naturals, FiniteSets, Sequences, SequencesExt

CONSTANTS
  Groups,         \* conferences
  Saved,          \* the ones in the savedata
  Video,          \* the ones an invitation says are audio/video
  Titles,         \* what a conference may be called
  EventCapacity,  \* EVENT_QUEUE_CAPACITY
  InboxCapacity,  \* EVENT_INBOX_CAPACITY
  InviteCapacity, \* PENDING_INVITES_CAPACITY
  NoTitle,        \* the empty title
  Absent          \* no group, and the name of what is not there

ASSUME ToxGroupsAssumption ==
  /\ Saved \subseteq Groups /\ Video \subseteq Groups
  /\ Absent \notin Groups /\ NoTitle \notin Titles /\ Absent \notin Titles \cup {NoTitle}
  /\ EventCapacity \in Nat /\ InboxCapacity \in Nat /\ InviteCapacity \in Nat

VARIABLES
  live,       \* worker: the conferences, with their titles
  handshakes, \* worker: whose conference_connected has fired
  events,     \* callbacks the bridge has not taken
  bridge,     \* the step the bridge is in
  names,      \* the cache of titles
  invites,    \* invitations that wait for an answer
  inbox,      \* events for the actor
  actor,      \* the request the actor is serving
  groups,     \* the core's groups, with their names
  active,     \* the active group
  copy,       \* what the worker told the actor or the bridge, until it is used
  owed,       \* history: invitations kept, and neither used nor declined
  confirmed,  \* history: conferences whose handshake completed in this membership
  vanished    \* history: ones that went away by themselves with a handshake on
              \*   record, and were not found gone by a snapshot since

past == <<owed, confirmed, vanished>>
worker == <<live, handshakes, events>>
core == <<groups, active>>
vars == <<worker, bridge, names, invites, inbox, actor, core, copy, past>>

Labels == Titles \cup {NoTitle}
Names == [Groups -> Labels \cup {Absent}]
In(table) == {g \in Groups : table[g] # Absent}
Without(table, g) == [table EXCEPT ![g] = Absent]
Nothing == [g \in Groups |-> Absent]
(* The entries of a second table replace those of the first.               *)
Over(table, other) == [g \in Groups |-> IF other[g] # Absent THEN other[g] ELSE table[g]]

Event == [kind : {"invite", "changed", "message"}, group : Groups, title : Labels]
Rests == [at |-> "idle", event |-> [kind |-> "none", group |-> Absent, title |-> NoTitle]]
Idle == [at |-> "idle", group |-> Absent, title |-> NoTitle]

TypeOK ==
  /\ live \in Names /\ names \in Names /\ groups \in Names
  /\ handshakes \subseteq Groups
  /\ events \in Seq(Event) /\ Len(events) <= EventCapacity
  /\ inbox \in Seq(Event) /\ Len(inbox) <= InboxCapacity
  /\ bridge \in [at : {"idle", "lookup", "cache", "hand"}, event : Event \cup {Rests.event}]
  /\ invites \subseteq Groups /\ Cardinality(invites) <= InviteCapacity
  /\ actor \in [at : {"idle", "create", "join", "leave", "rename", "tell",
                     "created", "joined", "left", "renamed", "listed"},
                group : Groups \cup {Absent}, title : Labels]
  /\ active \in Groups \cup {Absent}
  /\ copy \in [{"actor", "bridge"} -> Names]
  /\ owed \subseteq Groups /\ confirmed \subseteq Groups /\ vanished \subseteq Groups

(* A run begins with the conferences that toxcore rejoins by itself.       *)
Init ==
  /\ live = [g \in Groups |-> IF g \in Saved THEN NoTitle ELSE Absent]
  /\ handshakes = {} /\ events = <<>>
  /\ bridge = Rests /\ names = Nothing /\ invites = {}
  /\ inbox = <<>> /\ actor = Idle
  /\ groups = Nothing /\ active = Absent
  /\ copy = [actor |-> Nothing, bridge |-> Nothing]
  /\ owed = {} /\ confirmed = {} /\ vanished = {}

-----------------------------------------------------------------------------
(* toxcore's callbacks                                                     *)

(* send_event: a full hand-off loses the newest callback.                  *)
Raise(kind, g, t) == events' =
  IF Len(events) < EventCapacity
  THEN Append(events, [kind |-> kind, group |-> g, title |-> t]) ELSE events

Invited(g) ==
  /\ Raise("invite", g, NoTitle)
  /\ UNCHANGED <<live, handshakes, bridge, names, invites, inbox, actor, core, copy, past>>

(* on_conference_connected                                                 *)
Connected(g) ==
  /\ g \in In(live)
  /\ handshakes' = handshakes \cup {g}
  /\ confirmed' = confirmed \cup {g} /\ vanished' = vanished \ {g}
  /\ Raise("changed", g, live[g])
  /\ UNCHANGED <<live, bridge, names, invites, inbox, actor, core, copy, owed>>

(* on_conference_title, and on_conference_peers_changed: the title of the  *)
(* moment goes with both.                                                  *)
Changed(g, t) ==
  /\ g \in In(live)
  /\ live' = [live EXCEPT ![g] = t]
  /\ Raise("changed", g, t)
  /\ UNCHANGED <<handshakes, bridge, names, invites, inbox, actor, core, copy, past>>

Messaged(g) ==
  /\ g \in In(live)
  /\ Raise("message", g, NoTitle)
  /\ UNCHANGED <<live, handshakes, bridge, names, invites, inbox, actor, core, copy, past>>

(* A conference disappears without a ConferenceLeave, deleted on the other  *)
(* side: its handshake stays on record until a snapshot finds it gone.      *)
GoesAway(g) ==
  /\ g \in In(live)
  /\ live' = Without(live, g)
  /\ confirmed' = confirmed \ {g}
  /\ vanished' = vanished \cup ({g} \cap handshakes)
  /\ UNCHANGED <<handshakes, events, bridge, names, invites, inbox, actor, core, copy, owed>>

-----------------------------------------------------------------------------
(* The bridge: forward_event                                               *)

Takes(kind) ==
  /\ bridge.at = "idle" /\ events # <<>> /\ Head(events).kind = kind
  /\ events' = Tail(events)

(* keep_pending: a repeated invitation is the same one, and a new one is   *)
(* refused when the list is full. Either is reported.                      *)
KeepInvite ==
  LET g == Head(events).group
      kept == g \in invites \/ Cardinality(invites) < InviteCapacity IN
  /\ Takes("invite")
  /\ invites' = IF kept THEN invites \cup {g} ELSE invites
  /\ owed' = IF kept THEN owed \cup {g} ELSE owed
  /\ bridge' = [at |-> "hand", event |-> Head(events)]
  /\ UNCHANGED <<live, handshakes, names, inbox, actor, core, copy, confirmed, vanished>>

RememberTitle ==
  /\ Takes("changed")
  /\ names' = [names EXCEPT ![Head(events).group] = Head(events).title]
  /\ bridge' = [at |-> "hand", event |-> Head(events)]
  /\ UNCHANGED <<live, handshakes, invites, inbox, actor, core, copy, past>>

(* resolve_group_name: the cached title, or the worker is asked            *)
TakeMessage ==
  LET g == Head(events).group IN
  /\ Takes("message")
  /\ bridge' = IF names[g] # Absent
               THEN [at |-> "hand", event |-> [Head(events) EXCEPT !.title = names[g]]]
               ELSE [at |-> "lookup", event |-> Head(events)]
  /\ UNCHANGED <<live, handshakes, names, invites, inbox, actor, core, copy, past>>

(* Fault: the handshakes of conferences that are gone are kept.            *)
SnapshotKeeps(task) ==
  /\ UNCHANGED <<handshakes, confirmed>>
  /\ vanished' = vanished \cap In(live)
  /\ copy' = [copy EXCEPT ![task] = live]

(* Snapshot: the worker's conferences, which also drops the handshakes of  *)
(* the ones that are gone.                                                 *)
Snapshot(task) ==
  /\ handshakes' = handshakes \cap In(live)
  /\ vanished' = vanished \cap In(live) /\ UNCHANGED confirmed
  /\ copy' = [copy EXCEPT ![task] = live]

AskWorker ==
  /\ bridge.at = "lookup"
  /\ Snapshot("bridge")
  /\ bridge' = [bridge EXCEPT !.at = "cache"]
  /\ UNCHANGED <<live, events, names, invites, inbox, actor, core, owed>>

(* ... and what it said is cached.                                         *)
CacheAnswer ==
  LET g == bridge.event.group
      told == Over(names, copy["bridge"]) IN
  /\ bridge.at = "cache"
  /\ names' = told
  /\ bridge' = [at |-> "hand", event |-> [bridge.event EXCEPT !.title =
                 IF told[g] # Absent THEN told[g] ELSE NoTitle]]
  /\ copy' = [copy EXCEPT !["bridge"] = Nothing]
  /\ UNCHANGED <<worker, invites, inbox, actor, core, past>>

(* blocking_send                                                           *)
HandIn ==
  /\ bridge.at = "hand" /\ Len(inbox) < InboxCapacity
  /\ inbox' = Append(inbox, bridge.event)
  /\ bridge' = Rests
  /\ UNCHANGED <<worker, names, invites, actor, core, past, copy>>

-----------------------------------------------------------------------------
(* The actor                                                               *)

(* Fault: an empty name replaces a known one.                              *)
BetterEmpty(old, t) == t

(* remember_group: insert or update; an empty name replaces none.          *)
Better(old, t) == IF t = NoTitle /\ old # Absent THEN old ELSE t
Remember(g, t) == groups' = [groups EXCEPT ![g] = Better(@, t)]

(* remember_group of the transport: the title of the moment; and without   *)
(* the group that was left.                                                *)
Caches(g, t) == names' = [names EXCEPT ![g] = t]
Forgets(g) == names' = Without(names, g)

(* on_app_event: a change and a message make a group of what is not one.   *)
OnAppEvent ==
  LET e == Head(inbox) IN
  /\ actor.at = "idle" /\ inbox # <<>>
  /\ inbox' = Tail(inbox)
  /\ IF e.kind = "invite" THEN UNCHANGED groups ELSE Remember(e.group, e.title)
  /\ UNCHANGED <<worker, bridge, names, invites, actor, active, past, copy>>

(* The command goes to the worker, whose answer is awaited.                *)
Command(what, g, t) == actor' = [at |-> what, group |-> g, title |-> t]

(* create_group, with a title or without.                                  *)
CreateGroup(t) ==
  /\ actor.at = "idle"
  /\ Command("create", Absent, t)
  /\ UNCHANGED <<worker, bridge, names, invites, inbox, core, past, copy>>

(* ... and toxcore makes one of a new identifier, of which nobody has kept  *)
(* anything; a title it refuses is not set.                                *)
ToxCreates(g, t) ==
  /\ actor.at = "create" /\ g \notin Video \cup invites
  /\ g \notin In(live) \cup handshakes \cup In(groups) \cup In(names)
  /\ t \in {actor.title, NoTitle}
  /\ live' = [live EXCEPT ![g] = t]
  /\ actor' = [at |-> "created", group |-> g, title |-> t]
  /\ UNCHANGED <<handshakes, events, bridge, names, invites, inbox, core, past, copy>>

(* Fault: the invitation is spent before the join is tried.                *)
JoinSpends(g) ==
  /\ actor.at = "idle" /\ g \in invites
  /\ invites' = invites \ {g}
  /\ IF g \in Video
     THEN owed' = owed \ {g} /\ UNCHANGED actor
     ELSE actor' = [Idle EXCEPT !.at = "join", !.group = g] /\ UNCHANGED owed
  /\ UNCHANGED <<worker, bridge, names, inbox, core, copy, confirmed, vanished>>

(* join_group: an audio/video invitation is refused and dropped; any other *)
(* stays while toxcore is asked.                                           *)
JoinGroup(g) ==
  /\ actor.at = "idle" /\ g \in invites
  /\ IF g \in Video
     THEN invites' = invites \ {g} /\ owed' = owed \ {g} /\ UNCHANGED actor
     ELSE Command("join", g, NoTitle) /\ UNCHANGED <<invites, owed>>
  /\ UNCHANGED <<worker, bridge, names, inbox, core, copy, confirmed, vanished>>

(* Toxcore joins: the title is not known yet.                              *)
ToxJoins ==
  LET g == actor.group IN
  /\ actor.at = "join" /\ g \notin In(live)
  /\ live' = [live EXCEPT ![g] = NoTitle]
  /\ owed' = owed \ {g}
  /\ actor' = [actor EXCEPT !.at = "joined"]
  /\ UNCHANGED <<handshakes, events, bridge, names, invites, inbox, core, copy, confirmed, vanished>>

(* ... or it refuses: the friend is away, or it is in that conference.     *)
ToxRefuses ==
  /\ actor.at = "join"
  /\ actor' = Idle
  /\ UNCHANGED <<worker, bridge, names, invites, inbox, core, past, copy>>

(* Fault: a join that succeeded leaves its invitation in the list.          *)
EnteredKeeps ==
  LET g == actor.group IN
  /\ actor.at \in {"created", "joined"}
  /\ owed' = IF actor.at = "joined" THEN owed \ {g} ELSE owed
  /\ Caches(g, actor.title)
  /\ Remember(g, actor.title)
  /\ active' = g
  /\ actor' = Idle
  /\ UNCHANGED <<worker, bridge, invites, inbox, copy, confirmed, vanished>>

(* The invitation that was joined is spent, the title cached, the group      *)
(* remembered and made the active one.                                      *)
Entered ==
  LET g == actor.group
      spent == IF actor.at = "joined" THEN {g} ELSE {} IN
  /\ actor.at \in {"created", "joined"}
  /\ invites' = invites \ spent
  /\ owed' = owed \ spent
  /\ Caches(g, actor.title)
  /\ Remember(g, actor.title)
  /\ active' = g
  /\ actor' = Idle
  /\ UNCHANGED <<worker, bridge, inbox, copy, confirmed, vanished>>

(* decline_group_invite                                                    *)
DeclineGroupInvite(g) ==
  /\ actor.at = "idle" /\ g \in invites
  /\ invites' = invites \ {g}
  /\ owed' = owed \ {g}
  /\ UNCHANGED <<worker, bridge, names, inbox, actor, core, copy, confirmed, vanished>>

(* leave_group and rename_group, and what changes nothing here: an         *)
(* invitation and a message. Of a group of the list; toxcore refuses if it *)
(* is in no such conference.                                               *)
Asks(g, what, t) ==
  /\ actor.at = "idle" /\ g \in In(groups)
  /\ Command(what, g, t)
  /\ UNCHANGED <<worker, bridge, names, invites, inbox, core, past, copy>>
Unknown ==
  /\ actor.at \in {"leave", "rename", "tell"} /\ actor.group \notin In(live)
  /\ actor' = Idle
  /\ UNCHANGED <<worker, bridge, names, invites, inbox, core, past, copy>>

(* Fault: the handshake of a conference that was left is remembered.       *)
ToxLeavesOnly ==
  /\ actor.at = "leave" /\ actor.group \in In(live)
  /\ live' = Without(live, actor.group)
  /\ confirmed' = confirmed \ {actor.group} /\ vanished' = vanished \ {actor.group}
  /\ actor' = [actor EXCEPT !.at = "left"]
  /\ UNCHANGED <<handshakes, events, bridge, names, invites, inbox, core, owed, copy>>

ToxLeaves ==
  /\ actor.at = "leave" /\ actor.group \in In(live)
  /\ live' = Without(live, actor.group)
  /\ handshakes' = handshakes \ {actor.group}
  /\ confirmed' = confirmed \ {actor.group} /\ vanished' = vanished \ {actor.group}
  /\ actor' = [actor EXCEPT !.at = "left"]
  /\ UNCHANGED <<events, bridge, names, invites, inbox, core, owed, copy>>

(* Fault: the group that was left stays the active one.                    *)
LeftActive ==
  /\ actor.at = "left"
  /\ Forgets(actor.group)
  /\ groups' = Without(groups, actor.group)
  /\ actor' = Idle
  /\ UNCHANGED <<worker, bridge, invites, inbox, active, past, copy>>

(* The cached title is forgotten, and the group, and that it was active.   *)
Left ==
  /\ actor.at = "left"
  /\ Forgets(actor.group)
  /\ groups' = Without(groups, actor.group)
  /\ active' = IF active = actor.group THEN Absent ELSE active
  /\ actor' = Idle
  /\ UNCHANGED <<worker, bridge, invites, inbox, past, copy>>

(* The message is sent or the friend invited, or toxcore cannot.           *)
ToxTells ==
  /\ actor.at = "tell" /\ actor.group \in In(live)
  /\ actor' = Idle
  /\ UNCHANGED <<worker, bridge, names, invites, inbox, core, past, copy>>

ToxRenames ==
  /\ actor.at = "rename" /\ actor.group \in In(live)
  /\ live' = [live EXCEPT ![actor.group] = actor.title]
  /\ actor' = [actor EXCEPT !.at = "renamed"]
  /\ UNCHANGED <<handshakes, events, bridge, names, invites, inbox, core, past, copy>>

Renamed ==
  /\ actor.at = "renamed"
  /\ Caches(actor.group, actor.title)
  /\ Remember(actor.group, actor.title)
  /\ actor' = Idle
  /\ UNCHANGED <<worker, bridge, invites, inbox, active, past, copy>>

(* refresh_group_cache, for a list or a snapshot: the worker is asked      *)
AsksForGroups ==
  /\ actor.at = "idle"
  /\ Snapshot("actor")
  /\ actor' = [Idle EXCEPT !.at = "listed"]
  /\ UNCHANGED <<live, events, bridge, names, invites, inbox, core, owed>>

(* ... its conferences are cached and remembered; none is forgotten.       *)
Listed ==
  LET told == copy["actor"] IN
  /\ actor.at = "listed"
  /\ names' = Over(names, told)
  /\ groups' = [g \in Groups |-> IF told[g] # Absent THEN Better(groups[g], told[g])
                                 ELSE groups[g]]
  /\ actor' = Idle
  /\ copy' = [copy EXCEPT !["actor"] = Nothing]
  /\ UNCHANGED <<worker, bridge, invites, inbox, active, past>>

Next ==
  \/ \E g \in Groups : Invited(g) \/ Connected(g) \/ Messaged(g) \/ GoesAway(g)
  \/ \E g \in Groups, t \in Labels : Changed(g, t)
  \/ KeepInvite \/ RememberTitle \/ TakeMessage \/ AskWorker \/ CacheAnswer \/ HandIn \/ OnAppEvent
  \/ \E t \in Labels : CreateGroup(t)
  \/ \E g \in Groups, t \in Labels : ToxCreates(g, t)
  \/ \E g \in Groups : JoinGroup(g) \/ DeclineGroupInvite(g)
  \/ ToxJoins \/ ToxRefuses \/ Entered
  \/ \E g \in Groups : Asks(g, "leave", NoTitle) \/ Asks(g, "tell", NoTitle)
  \/ \E g \in Groups, t \in Titles : Asks(g, "rename", t)
  \/ Unknown \/ ToxLeaves \/ Left \/ ToxTells \/ ToxRenames \/ Renamed \/ AsksForGroups \/ Listed

Spec == Init /\ [][Next]_vars

-----------------------------------------------------------------------------
(* Properties                                                              *)

(* "A transient failure leaves the invitation in place so it can be        *)
(* retried": an invitation that was kept waits until it is used by a join  *)
(* that succeeded or is declined, whatever else arrives; and one that was  *)
(* used or declined is gone, but for the moment between toxcore's answer    *)
(* and the actor's reading of it.                                          *)
InvitationsSurvive ==
  /\ owed \subseteq invites
  /\ invites \subseteq owed \cup (IF actor.at = "joined" THEN {actor.group} ELSE {})

(* "A later conference must never inherit it": a conference is reported as *)
(* connected for a handshake of this membership, not of one that the user   *)
(* left; of one that went away by itself only when it was joined again      *)
(* before any snapshot could find it gone (ConferenceLeave, snapshot). And  *)
(* a handshake that completed stays on record as long as the membership.    *)
HandshakesAreLive ==
  /\ confirmed \subseteq handshakes \cap In(live)
  /\ handshakes \subseteq confirmed \cup vanished

(* What a group request without a name goes to is a group of the list.     *)
ActiveIsListed == active # Absent => active \in In(groups)

(* "An empty name never overwrites a known one": a group that has a name   *)
(* keeps one until it is left, though a join or an event carries none.     *)
NamesStay == [][\A g \in Groups : groups[g] \in Titles => groups'[g] # NoTitle]_vars

(* The state is well-typed, and what the session keeps about a group is     *)
(* about one it is in: the active group is of the list, a handshake of this *)
(* membership or of a conference that nobody has yet found gone.            *)
GroupsAgree == TypeOK /\ ActiveIsListed /\ HandshakesAreLive
=============================================================================

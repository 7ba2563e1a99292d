---------------------------- MODULE Conversation ----------------------------
(***************************************************************************)
(* What the core does with the requests of its one interactive front-end    *)
(* and with the events of its transport (CoreService): it keeps the session,  *)
(* files every readable message, and publishes events on a broadcast channel  *)
(* that forgets its oldest entry when the front-end is slow.                 *)
(*                                                                         *)
(* The transport is its peers, with Tox also its conferences and what waits    *)
(* for an answer, and the events it hands over; an event that waits for room   *)
(* in the inbox counts as being in it.  How a name is told apart from another, *)
(* the friend limit and the session file are module CoreActor's; the names of  *)
(* groups, and what toxcore does between two steps, module ToxGroups'.         *)
(***************************************************************************)
EXTENDS Naturals, Sequences, FiniteSets

CONSTANTS
  Friends,       \* identifiers that can be added
  Nicks,         \* nicknames the user can take
  Texts,         \* status messages
  Peers,         \* nicknames of peers
  Groups,        \* conferences
  Default,       \* the nickname and the status the session starts with
  NoOne,         \* no friend, no group
  EventCapacity, \* events the broadcast channel keeps for a receiver
  MaxArrivals    \* bound: events the transport hands over

ASSUME ConversationAssumption == EventCapacity \in Nat

VARIABLES
  core,     \* up, nick, status, contacts, active, groups, group
  peers,    \* the peers the transport is connected to
  tox,      \* the transport: supported; the conferences it is in, the
            \* invitations and the friend requests that wait for an answer
  inbox,    \* AppEvents
  filed,    \* the message at the head of the inbox is stored, or failed to be
  rows,     \* the messages of others that are stored
  unsaved,  \* history: messages the database refused
  events,   \* the CoreEvents the front-end has yet to receive
  lagged,   \* the channel dropped events of the front-end
  missed,   \* history: it did so after the last snapshot of the session
  asked,    \* the request in the command queue: <<>> or <<request>>
  reply,    \* the reply under way: <<>> or <<reply>>
  accepted, \* ids of messages the transport accepted
  arrived   \* history: how many events the transport has handed over

session == <<core, peers, tox>>
store == <<filed, rows, unsaved>>
stream == <<events, lagged, missed>>
call == <<asked, reply>>
conversation == <<session, inbox, store, stream, call, accepted, arrived>>

ConversationInit ==
  /\ core = [up |-> TRUE, nick |-> Default, status |-> Default, contacts |-> <<>>,
             active |-> NoOne, groups |-> {}, group |-> NoOne]
  /\ \E supported \in BOOLEAN, live \in SUBSET Groups :
       /\ tox = [supported |-> supported, live |-> live, invites |-> {}, requests |-> <<>>]
       /\ ~supported => live = {}
  /\ peers = {} /\ inbox = <<>>
  /\ filed = FALSE /\ rows = {} /\ unsaved = {}
  /\ events = <<>> /\ lagged = FALSE /\ missed = FALSE
  /\ reply = <<>>
  /\ accepted = {} /\ arrived = 0

----------------------------------------------------------------------------
(* What is said: the requests and the replies of the protocol, the events of    *)
(* the core and those of the transport, by what they are called here.  Every     *)
(* reply that tells nothing the front-end keeps is "done".  Ping and Statistics  *)
(* are left out.                                                            *)

SessionRequests == {"session", "contacts", "nick", "status", "add", "remove", "select", "send",
                    "shutdown"}
GroupRequests == {"create", "join", "decline", "leave", "rename", "invite", "say"}
ToxRequests == GroupRequests \cup {"groups", "invites", "requests", "accept", "reject"}
Reports == {"connect", "history", "metrics", "save"}
Request == SessionRequests \cup ToxRequests \cup Reports
Reply == {"session", "contacts", "nick", "status", "select", "sent", "requests", "said",
          "done", "failed"}

AppEvent == {"peer", "message", "delivered", "request", "invite", "changed", "group", "shutdown"}
CoreEvent == AppEvent \cup {"undecodable", "nick", "status"}

Said(channel, language) == \A i \in DOMAIN channel : channel[i].op \in language
Conforms == Said(asked, Request) /\ Said(reply, Reply) /\ Said(inbox, AppEvent)
            /\ Said(events, CoreEvent)

----------------------------------------------------------------------------
(* publish: the channel keeps the newest events. *)
Publish(event) ==
  LET kept == Append(events, event) IN
  /\ events' = IF Len(kept) > EventCapacity THEN Tail(kept) ELSE kept
  /\ lagged' = (lagged \/ Len(kept) > EventCapacity)
  /\ missed' = (missed \/ Len(kept) > EventCapacity)

(* Fault: nobody is told that the service ends. *)
FinishSilently ==
  /\ core' = [core EXCEPT !.up = FALSE]
  /\ inbox' = <<>>
  /\ peers' = {} /\ UNCHANGED <<tox, stream>>

(* finish: the front-end is told, and nothing is served after.  The handle    *)
(* keeps a sender of the channel, so the channel itself never closes.        *)
Finish ==
  /\ core' = [core EXCEPT !.up = FALSE]
  /\ inbox' = <<>>
  /\ peers' = {} /\ UNCHANGED tox
  /\ Publish([op |-> "shutdown"])

----------------------------------------------------------------------------
(* The transport *)

Hand(event) == /\ core.up /\ arrived < MaxArrivals
               /\ arrived' = arrived + 1
               /\ inbox' = Append(inbox, event)

PeerConnects(p) == /\ p \notin peers /\ peers' = peers \cup {p}
                   /\ Hand([op |-> "peer"])
                   /\ UNCHANGED <<core, tox, store, stream, call, accepted>>
PeerLeaves(p) == /\ p \in peers /\ peers' = peers \ {p}
                 /\ Hand([op |-> "peer"])
                 /\ UNCHANGED <<core, tox, store, stream, call, accepted>>

(* A message arrives; an end that the transport asks for.                     *)
Arrives ==
  /\ \E event \in [op : {"message"}, id : {arrived + 1}, readable : BOOLEAN]
                    \cup {[op |-> "shutdown"]} : Hand(event)
  /\ UNCHANGED <<session, store, stream, call, accepted>>

(* A message in a conference, or a change of it.                             *)
GroupEvent(g) ==
  /\ g \in tox.live
  /\ \/ \E readable \in BOOLEAN :
          Hand([op |-> "group", id |-> arrived + 1, readable |-> readable, group |-> g])
     \/ Hand([op |-> "changed", group |-> g])
  /\ UNCHANGED <<session, store, stream, call, accepted>>

(* An invitation and a friend request wait in the transport's lists.           *)
Invited(g) == /\ tox.supported /\ g \notin tox.live \cup tox.invites
              /\ tox' = [tox EXCEPT !.invites = @ \cup {g}]
              /\ Hand([op |-> "invite"])
              /\ UNCHANGED <<core, peers, store, stream, call, accepted>>
Requested(f) == /\ tox.supported /\ ~\E i \in DOMAIN tox.requests : tox.requests[i] = f
                /\ tox' = [tox EXCEPT !.requests = Append(@, f)]
                /\ Hand([op |-> "request"])
                /\ UNCHANGED <<core, peers, store, stream, call, accepted>>

(* A peer acknowledges a message. *)
Delivered(id) == /\ id \in accepted
                 /\ Hand([op |-> "delivered", id |-> id])
                 /\ accepted' = accepted \ {id}
                 /\ UNCHANGED <<session, store, stream, call>>

Transport == \/ \E p \in Peers : PeerConnects(p) \/ PeerLeaves(p)
             \/ Arrives
             \/ \E g \in Groups : GroupEvent(g) \/ Invited(g)
             \/ \E f \in Friends : Requested(f)
             \/ \E id \in accepted : Delivered(id)

----------------------------------------------------------------------------
(* on_app_event, on_group_message, on_network_event *)

IsMessage(event) == event.op \in {"message", "group"}
Readable(event) == IsMessage(event) /\ event.readable

(* save_message of the database: one row, or an error that is only logged. *)
SaveMessage(id) == \/ rows' = rows \cup {id} /\ UNCHANGED unsaved
                   \/ unsaved' = unsaved \cup {id} /\ UNCHANGED rows

(* A message is filed, which is awaited, before it is published. *)
File ==
  /\ core.up /\ inbox # <<>> /\ Readable(Head(inbox)) /\ ~filed
  /\ filed' = TRUE
  /\ SaveMessage(Head(inbox).id)
  /\ UNCHANGED <<session, inbox, stream, call, accepted, arrived>>

(* What a change of a group, or a message in it, names is a group from then on. *)
Remembers(event) ==
  IF event.op = "changed" \/ (event.op = "group" /\ event.readable)
  THEN [core EXCEPT !.groups = @ \cup {event.group}] ELSE core

(* Fault: a group message is published before it is filed. *)
OnAppEventBeforeFiling ==
  /\ core.up /\ inbox # <<>>
  /\ Head(inbox).op # "shutdown"
  /\ Readable(Head(inbox)) => filed \/ Head(inbox).op = "group"
  /\ Publish(IF IsMessage(Head(inbox)) /\ ~Head(inbox).readable THEN [op |-> "undecodable"]
             ELSE Head(inbox))
  /\ core' = Remembers(Head(inbox))
  /\ filed' = FALSE
  /\ inbox' = Tail(inbox)
  /\ UNCHANGED <<peers, tox, rows, unsaved, call, accepted, arrived>>

(* The event is published, a message once it is filed. *)
OnAppEvent ==
  /\ core.up /\ inbox # <<>>
  /\ LET event == Head(inbox) IN
     /\ event.op # "shutdown"
     /\ Readable(event) => filed
     /\ Publish(IF IsMessage(event) /\ ~event.readable THEN [op |-> "undecodable"] ELSE event)
     /\ core' = Remembers(event)
  /\ filed' = FALSE
  /\ inbox' = Tail(inbox)
  /\ UNCHANGED <<peers, tox, rows, unsaved, call, accepted, arrived>>

(* AppEvent::Shutdown ends the actor: a request in its queue loses its reply  *)
(* channel.                                                                *)
OnShutdown ==
  /\ core.up /\ inbox # <<>> /\ Head(inbox).op = "shutdown"
  /\ Finish
  /\ UNCHANGED <<store, call, accepted, arrived>>

----------------------------------------------------------------------------
(* handle: the requests.  A request is served between two events. *)

Answer(answer) == asked' = <<>> /\ reply' = <<answer>>
Done == [op |-> "done"]
Failed == [op |-> "failed"]
Serving(op) == /\ core.up /\ asked # <<>> /\ asked[1].op = op
               /\ ~filed
Listed(c) == \E i \in DOMAIN core.contacts : core.contacts[i] = c

(* refresh_group_cache: the conferences of the transport are added to the list, *)
(* unless it cannot be asked.                                               *)
RefreshedGroups == {core.groups, core.groups \cup tox.live}

(* session_info, ListContacts *)
SessionInfo ==
  /\ Serving("session")
  /\ \E groups \in RefreshedGroups :
       /\ core' = [core EXCEPT !.groups = groups]
       /\ Answer([op |-> "session", nick |-> core.nick, status |-> core.status,
                  active |-> core.active, peers |-> peers, supported |-> tox.supported,
                  groups |-> groups, invites |-> tox.invites, requests |-> tox.requests])
  /\ missed' = FALSE
  /\ UNCHANGED <<peers, tox, inbox, store, events, lagged, accepted, arrived>>
ListContacts ==
  /\ Serving("contacts")
  /\ Answer([op |-> "contacts", contacts |-> core.contacts])
  /\ UNCHANGED <<session, inbox, store, stream, accepted, arrived>>

(* set_nickname, set_status: an empty text only asks for the value. *)
SetNickname ==
  /\ Serving("nick")
  /\ LET nick == IF asked[1].to = NoOne THEN core.nick ELSE asked[1].to IN
     /\ core' = [core EXCEPT !.nick = nick]
     /\ Answer([op |-> "nick", nick |-> nick])
     /\ IF asked[1].to = NoOne THEN UNCHANGED stream
                               ELSE Publish([op |-> "nick", nick |-> nick])
  /\ UNCHANGED <<peers, tox, inbox, store, accepted, arrived>>
SetStatus ==
  /\ Serving("status")
  /\ LET status == IF asked[1].to = NoOne THEN core.status ELSE asked[1].to IN
     /\ core' = [core EXCEPT !.status = status]
     /\ Answer([op |-> "status", status |-> status])
     /\ IF asked[1].to = NoOne THEN UNCHANGED stream
                               ELSE Publish([op |-> "status", status |-> status])
  /\ UNCHANGED <<peers, tox, inbox, store, accepted, arrived>>

(* add_contact, remove_contact, select_conversation *)
AddContact ==
  /\ Serving("add")
  /\ \/ Answer(Failed) /\ UNCHANGED core
     \/ Listed(asked[1].to) /\ Answer(Done) /\ UNCHANGED core
     \/ /\ ~Listed(asked[1].to) /\ Answer(Done)
        /\ core' = [core EXCEPT !.contacts = Append(@, asked[1].to)]
  /\ UNCHANGED <<peers, tox, inbox, store, stream, accepted, arrived>>
RemoveContact ==
  /\ Serving("remove")
  /\ LET gone == asked[1].to IN
     IF Listed(gone)
     THEN /\ core' = [core EXCEPT !.contacts = SelectSeq(@, LAMBDA c : c # gone),
                                  !.active = IF @ = gone THEN NoOne ELSE @]
          /\ Answer(Done)
     ELSE Answer(Failed) /\ UNCHANGED core
  /\ UNCHANGED <<peers, tox, inbox, store, stream, accepted, arrived>>
SelectConversation ==
  /\ Serving("select")
  /\ LET to == asked[1].to IN
     IF to = NoOne THEN Answer([op |-> "select", active |-> core.active]) /\ UNCHANGED core
     ELSE IF Listed(to) THEN /\ core' = [core EXCEPT !.active = to]
                             /\ Answer([op |-> "select", active |-> to])
     ELSE Answer(Failed) /\ UNCHANGED core
  /\ UNCHANGED <<peers, tox, inbox, store, stream, accepted, arrived>>

(* send_message: to the friend that is named, or to the active conversation.   *)
(* The transport takes the message, whose id it will report when the peer has   *)
(* it, drops it, or refuses it.  The copy that is filed is read by nothing here. *)
SendMessage ==
  /\ Serving("send")
  /\ \/ Answer(Failed) /\ UNCHANGED accepted
     \/ /\ asked[1].to # NoOne \/ core.active # NoOne
        /\ \/ Answer([op |-> "sent", id |-> 0]) /\ UNCHANGED accepted
           \/ /\ Answer([op |-> "sent", id |-> asked[1].id])
              /\ accepted' = accepted \cup {asked[1].id}
  /\ UNCHANGED <<session, inbox, store, stream, arrived>>

----------------------------------------------------------------------------
(* handle: friend requests and groups.  Without Tox there are none: the lists    *)
(* are empty and everything else fails.                                       *)

(* resolve_group: the group that is named, else the active one, else the only one. *)
Resolve(to) ==
  LET named == IF to # NoOne THEN to ELSE core.group
  IN IF named # NoOne THEN core.groups \cap {named}
     ELSE IF Cardinality(core.groups) = 1 THEN core.groups ELSE {}

(* capability_refusal, and what the transport refuses or cannot do. *)
Refused ==
  /\ \E op \in GroupRequests \cup {"accept", "reject"} : Serving(op)
  /\ Answer(Failed)
  /\ UNCHANGED <<session, inbox, store, stream, accepted, arrived>>

(* accept_request, reject_request: the friend limit and the transport may refuse, *)
(* and leave the request where it is.                                       *)
Spent(f) == [tox EXCEPT !.requests = SelectSeq(@, LAMBDA r : r # f)]
Waits(f) == \E i \in DOMAIN tox.requests : tox.requests[i] = f
AcceptRequest ==
  /\ Serving("accept") /\ Waits(asked[1].to)
  /\ tox' = Spent(asked[1].to)
  /\ core' = IF Listed(asked[1].to) THEN core
             ELSE [core EXCEPT !.contacts = Append(@, asked[1].to)]
  /\ Answer(Done)
  /\ UNCHANGED <<peers, inbox, store, stream, accepted, arrived>>
RejectRequest ==
  /\ Serving("reject") /\ Waits(asked[1].to)
  /\ tox' = Spent(asked[1].to)
  /\ Answer(Done)
  /\ UNCHANGED <<core, peers, inbox, store, stream, accepted, arrived>>

(* PeerRequests, GroupInvites; list_groups, which asks the transport first. *)
Pending ==
  /\ \/ Serving("requests") /\ Answer([op |-> "requests", requests |-> tox.requests])
     \/ Serving("invites") /\ Answer(Done)
  /\ UNCHANGED <<session, inbox, store, stream, accepted, arrived>>
ListGroups ==
  /\ Serving("groups")
  /\ \E groups \in RefreshedGroups : core' = [core EXCEPT !.groups = groups]
  /\ Answer(Done)
  /\ UNCHANGED <<peers, tox, inbox, store, stream, accepted, arrived>>

(* create_group, join_group: the group is remembered, and the active one. *)
Enters(g) == core' = [core EXCEPT !.groups = @ \cup {g}, !.group = g]
CreateGroup ==
  /\ Serving("create") /\ tox.supported
  /\ \E g \in Groups \ (tox.live \cup tox.invites \cup core.groups) :
       /\ tox' = [tox EXCEPT !.live = @ \cup {g}]
       /\ Enters(g)
  /\ Answer(Done)
  /\ UNCHANGED <<peers, inbox, store, stream, accepted, arrived>>
JoinGroup ==
  /\ Serving("join") /\ asked[1].to \in tox.invites
  /\ LET g == asked[1].to IN
     /\ tox' = [tox EXCEPT !.live = @ \cup {g}, !.invites = @ \ {g}]
     /\ Enters(g)
  /\ Answer(Done)
  /\ UNCHANGED <<peers, inbox, store, stream, accepted, arrived>>
DeclineInvite ==
  /\ Serving("decline") /\ asked[1].to \in tox.invites
  /\ tox' = [tox EXCEPT !.invites = @ \ {asked[1].to}]
  /\ Answer(Done)
  /\ UNCHANGED <<core, peers, inbox, store, stream, accepted, arrived>>

(* rename_group and invite_to_group change no more than toxcore and a name; *)
(* send_group_message says which group it went to.                           *)
TellGroup ==
  /\ \E op \in {"rename", "invite"} : Serving(op)
  /\ Resolve(asked[1].to) \cap tox.live # {}
  /\ Answer(Done)
  /\ UNCHANGED <<session, inbox, store, stream, accepted, arrived>>
SayToGroup ==
  /\ Serving("say")
  /\ \E g \in Resolve(asked[1].to) \cap tox.live : Answer([op |-> "said", group |-> g])
  /\ UNCHANGED <<session, inbox, store, stream, accepted, arrived>>
LeaveGroup ==
  /\ Serving("leave")
  /\ \E g \in Resolve(asked[1].to) \cap tox.live :
       /\ tox' = [tox EXCEPT !.live = @ \ {g}]
       /\ core' = [core EXCEPT !.groups = @ \ {g}, !.group = IF @ = g THEN NoOne ELSE @]
  /\ Answer(Done)
  /\ UNCHANGED <<peers, inbox, store, stream, accepted, arrived>>

(* connect and history change nothing here: the peers tell when they are up.   *)
(* save_session and metrics tell of what is not modelled here.               *)
Aside ==
  /\ \E op \in Reports : Serving(op)
  /\ Answer(Done) \/ Answer(Failed)
  /\ UNCHANGED <<session, inbox, store, stream, accepted, arrived>>

----------------------------------------------------------------------------
(* Request::Shutdown: the service is finished before the reply is sent. *)
Shutdown ==
  /\ Serving("shutdown")
  /\ Finish
  /\ Answer(Done)
  /\ UNCHANGED <<store, accepted, arrived>>

(* CoreHandle::request: the service has stopped. *)
NotRunning ==
  /\ ~core.up /\ asked # <<>>
  /\ Answer(Failed)
  /\ UNCHANGED <<session, inbox, store, stream, accepted, arrived>>

ServeSession == SessionInfo \/ ListContacts \/ SetNickname \/ SetStatus \/ AddContact
                \/ RemoveContact \/ SelectConversation \/ SendMessage \/ Aside \/ Shutdown
ServeTox == Refused \/ AcceptRequest \/ RejectRequest \/ Pending \/ ListGroups \/ CreateGroup
            \/ JoinGroup \/ DeclineInvite \/ TellGroup \/ SayToGroup \/ LeaveGroup
Serve == ServeSession \/ ServeTox
=============================================================================

------------------------------ MODULE FrontEnd ------------------------------
(***************************************************************************)
(* The front-end of an interactive session (Presenter, and the loops of       *)
(* CliFrontend and TuiFrontend): one task that takes a typed line or an event  *)
(* at a time, asks the core what the line calls for, then refreshes what it    *)
(* knows of the session.  The panel of the terminal interface, and what an     *)
(* unaddressed message needs, come from that cache and not from the core.     *)
(***************************************************************************)
EXTENDS Conversation

CONSTANTS
  Typed(_), \* bound: the commands the user types, with Tox or without
  MaxLines  \* bound: lines the user types

VARIABLES
  loop,     \* "loop", "stopping" (the shutdown is asked for), "gone"
  doing,    \* the requests that follow the one that was asked
  panel,    \* Presenter: session and contacts
  lines,    \* history: lines typed so far
  sent,     \* history: the ids of messages that were reported as sent
  receipts, \* history: the ids of messages that were reported as delivered
  read      \* history: messages that were displayed

shown == <<sent, receipts, read>>
vars == <<conversation, loop, doing, panel, lines, shown>>

Refresh == <<[op |-> "session"], [op |-> "contacts"]>>

(* announce: the banner, and a first refresh. *)
Init ==
  /\ ConversationInit
  /\ asked = <<Refresh[1]>> /\ doing = Tail(Refresh)
  /\ loop = "loop"
  /\ panel = [nick |-> NoOne, status |-> NoOne, active |-> NoOne, peers |-> {}, contacts |-> <<>>,
              supported |-> FALSE, groups |-> {}, invites |-> {}, requests |-> <<>>]
  /\ lines = 0 /\ sent = {} /\ receipts = {} /\ read = {}

----------------------------------------------------------------------------
(* request: one request at a time, and its reply is awaited. *)

Idle == asked = <<>> /\ reply = <<>>

Ask(requests) == IF requests = <<>> THEN asked' = <<>> /\ doing' = <<>>
                 ELSE asked' = <<Head(requests)>> /\ doing' = Tail(requests)

Snapshot(news) ==
  [f \in DOMAIN panel |-> IF f = "contacts" THEN panel.contacts ELSE news[f]]

(* Fault: what a single reply or event tells is not kept. *)
ToldOnlySnapshots(news) ==
  CASE news.op = "session" -> Snapshot(news)
    [] news.op = "contacts" -> [panel EXCEPT !.contacts = news.contacts]
    [] OTHER -> panel

(* What a reply or an event tells: a snapshot, or the field that was set. *)
Told(news) ==
  CASE news.op = "session" -> Snapshot(news)
    [] news.op = "contacts" -> [panel EXCEPT !.contacts = news.contacts]
    [] news.op = "nick" -> [panel EXCEPT !.nick = news.nick]
    [] news.op = "status" -> [panel EXCEPT !.status = news.status]
    [] news.op = "select" /\ news.active # NoOne -> [panel EXCEPT !.active = news.active]
    [] OTHER -> panel

(* resolve_pending_request: an answer to the n-th request waits for the list it   *)
(* is the n-th of, and is given up, the refresh with it, if there is none.       *)
Resolved(list) ==
  IF doing = <<>> THEN <<>>
  ELSE IF doing[1].at \in DOMAIN list
  THEN <<[op |-> doing[1].op, to |-> list[doing[1].at]]>> \o Tail(doing)
  ELSE <<>>

TakeReply ==
  /\ reply # <<>>
  /\ reply' = <<>>
  /\ panel' = Told(reply[1])
  /\ sent' = IF reply[1].op = "sent" THEN sent \cup ({reply[1].id} \ {0}) ELSE sent
  /\ Ask(IF reply[1].op = "requests" THEN Resolved(reply[1].requests) ELSE doing)
  /\ loop' = IF loop = "stopping" THEN "gone" ELSE loop
  /\ UNCHANGED <<session, inbox, store, stream, accepted, arrived, lines, receipts, read>>

----------------------------------------------------------------------------
(* run: a line, an event or a signal, when nothing is being handled. *)

Free == loop = "loop" /\ Idle

(* request_shutdown *)
RequestShutdown == loop' = "stopping" /\ Ask(<<[op |-> "shutdown"]>>)

(* What a command names: nothing, when it is left out or has no argument. *)
Settings == {"nick", "status"}
Lists == {"groups", "invites", "history"}
Answers == {"accept", "reject"}
(* show_info, show_whoami, show_peers, show_contacts, show_statistics: what a    *)
(* refresh has just told.                                                   *)
Views == {"info"}
Arguments(command) ==
  CASE command = "nick" -> Nicks \cup {NoOne}
    [] command = "status" -> Texts \cup {NoOne}
    [] command \in {"add", "remove"} -> Friends
    [] command \in {"select", "send"} -> Friends \cup {NoOne}
    [] command \in {"join", "decline"} -> Groups
    [] command \in GroupRequests \ {"create", "join", "decline"} -> Groups \cup {NoOne}
    [] command \in Answers -> 1..2
    [] OTHER -> {NoOne}

(* handle_command: the commands a line can hold, but for those that leave. *)
Commands == Views \cup Settings \cup Lists \cup Answers \cup GroupRequests \cup Reports
            \cup {"requests", "add", "remove", "select", "send"}
ASSUME FrontEndAssumption == \A supported \in BOOLEAN : Typed(supported) \subseteq Commands

(* connect, set_nickname, set_status: the reply is all there is. *)
OneRequest(command, to) == <<[op |-> command, to |-> to]>>

(* add_contact, select_conversation: what changes the session is followed by a *)
(* refresh.                                                                 *)
ThenRefresh(command, to) == OneRequest(command, to) \o Refresh

(* create_group, rename_group, join_group, decline_group_invite, invite_to_group. *)
GroupCommand(command, to) == ThenRefresh(command, to)

(* send_group_message, leave_group: nothing is refreshed by a message.       *)
ToGroup(command, to) ==
  IF command = "say" THEN OneRequest(command, to) ELSE ThenRefresh(command, to)

(* show_history, show_metrics, save_session: an answer is shown, not kept. *)
ListCommand(command) == <<[op |-> command]>>

(* show_requests: not without Tox. *)
ShowRequests == IF panel.supported THEN <<[op |-> "requests"]>> ELSE <<>>

(* send_message: not without an address, unless the panel shows an active      *)
(* conversation.                                                            *)
SendCommand(to) ==
  IF to = NoOne /\ panel.active = NoOne THEN <<>>
  ELSE <<[op |-> "send", to |-> to, id |-> lines + 1]>> \o Refresh

(* accept_request, reject_request: the n-th of the list, which is asked for first, *)
(* if the session is known to have any.                                     *)
AnswerCommand(command, n) ==
  IF panel.supported
  THEN <<[op |-> "requests"], [op |-> command, at |-> n]>> \o Refresh ELSE <<>>

(* handle_command, run_group_command: the requests of a line. *)
Requests(command, to) ==
  CASE command \in Views -> Refresh
    [] command \in Settings \cup {"connect"} -> OneRequest(command, to)
    [] command = "requests" -> ShowRequests
    [] command \in Lists \cup (Reports \ {"connect"}) -> ListCommand(command)
    [] command = "send" -> SendCommand(to)
    [] command \in Answers -> AnswerCommand(command, to)
    [] command \in {"say", "leave"} -> ToGroup(command, to)
    [] command \in GroupRequests \ {"say", "leave"} -> GroupCommand(command, to)
    [] OTHER -> ThenRefresh(command, to)

HandleLine ==
  /\ Free /\ lines < MaxLines
  /\ lines' = lines + 1
  /\ \E command \in Typed(tox.supported) : \E to \in Arguments(command) :
       Ask(Requests(command, to))
  /\ UNCHANGED <<session, inbox, store, stream, reply, accepted, arrived, loop, panel, shown>>

(* Fault: an event is handled while a request is awaited. *)
HandleEventEagerly ==
  /\ loop = "loop" /\ events # <<>> /\ ~lagged
  /\ events' = Tail(events)
  /\ panel' = Told(Head(events))
  /\ read' = IF IsMessage(Head(events)) THEN read \cup {Head(events).id} ELSE read
  /\ receipts' = IF Head(events).op = "delivered" THEN receipts \cup {Head(events).id} ELSE receipts
  /\ IF Head(events).op = "shutdown" THEN RequestShutdown ELSE UNCHANGED <<asked, doing, loop>>
  /\ UNCHANGED <<session, inbox, store, lagged, missed, reply, accepted, arrived, lines, sent>>

(* handle_event.  Every event about peers, requests and groups, and every      *)
(* message, is followed by a refresh.                                       *)
HandleEvent ==
  /\ Free /\ events # <<>> /\ ~lagged
  /\ events' = Tail(events)
  /\ LET event == Head(events) IN
     /\ panel' = Told(event)
     /\ read' = IF IsMessage(event) THEN read \cup {event.id} ELSE read
     /\ receipts' = IF event.op = "delivered" THEN receipts \cup {event.id} ELSE receipts
     /\ IF event.op = "shutdown" THEN RequestShutdown
        ELSE /\ Ask(IF event.op \in {"message", "group", "changed", "peer", "request", "invite"}
                    THEN Refresh ELSE <<>>)
             /\ UNCHANGED loop
  /\ UNCHANGED <<session, inbox, store, lagged, missed, reply, accepted, arrived, lines, sent>>

(* A gap in the stream is logged. *)
Lagged ==
  /\ Free /\ lagged
  /\ lagged' = FALSE
  /\ UNCHANGED <<session, inbox, store, events, missed, call, accepted, arrived, loop, doing,
                 panel, lines, shown>>

(* /quit, the end of the input, a signal. *)
Leave ==
  /\ Free
  /\ RequestShutdown
  /\ UNCHANGED <<session, inbox, store, stream, reply, accepted, arrived, panel, lines, shown>>

----------------------------------------------------------------------------
Core == /\ File \/ OnAppEvent \/ OnShutdown \/ Serve \/ NotRunning
        /\ UNCHANGED <<loop, doing, panel, lines, shown>>
Arrival == Transport /\ UNCHANGED <<loop, doing, panel, lines, shown>>

Next == TakeReply \/ HandleLine \/ HandleEvent \/ Lagged \/ Leave \/ Core \/ Arrival

Spec == Init /\ [][Next]_vars

(* The tasks of the runtime run on; neither a line nor an arrival need come.   *)
FairSpec == Spec /\ WF_vars(TakeReply) /\ WF_vars(HandleEvent)
                 /\ WF_vars(Lagged) /\ WF_vars(Core)

----------------------------------------------------------------------------
(* Once every event has been handled, what the panel shows is what the core    *)
(* holds, unless the stream had a gap that no refresh has made up for: what    *)
(* every reply and event updates, and which of them refresh, is enough        *)
(* (handle_command, handle_event, tui_info).  Of the groups it shows none that  *)
(* was left; one that only /group list found is not shown (list_groups).      *)
PanelSettles ==
  core.up /\ Free /\ inbox = <<>> /\ events = <<>> /\ ~missed =>
    /\ panel.groups \subseteq core.groups
    /\ panel = [nick |-> core.nick, status |-> core.status, active |-> core.active,
                peers |-> peers, contacts |-> core.contacts, supported |-> tox.supported,
                groups |-> panel.groups, invites |-> tox.invites, requests |-> tox.requests]

(* A delivery is never shown before the line that says the message was sent,    *)
(* with its number: the event waits in the channel while the request is        *)
(* awaited (MessageDelivered, render_send).                                 *)
ReceiptFollowsReport == receipts \subseteq sent

(* A message the user has read is in the store, unless the store refused it:    *)
(* alone or in a group, it is filed before it is published.                   *)
ShownIsStored == read \subseteq rows \cup unsaved

(* What is shown has happened, and every channel speaks the protocol. *)
ShownIsTrue == Conforms /\ ReceiptFollowsReport /\ ShownIsStored

(* When the core stops, at whatever's request, the interactive loop ends too:   *)
(* the channel is never closed, as the handle keeps a sender of it, so it is    *)
(* the last event that says so (finish).                                    *)
StopIsNoticed == ~core.up ~> loop = "gone"
=============================================================================

------------------------------ MODULE PairKeys ------------------------------
(***************************************************************************)
(* The greeting of a TCP connection and the key a directed message is      *)
(* sealed under (network.rs). Two instances run this code and are joined   *)
(* by one or more connections; "sender" sends directed messages to         *)
(* "receiver", both greet.                                                 *)
(*                                                                         *)
(* A key is abstracted to who can compute it: "session" by every member,   *)
(* "static" by an end that heard the other's identity, and a connection,   *)
(* standing for its agreed key, by an end that heard the other's identity  *)
(* and ephemeral there. The two ends of pair_key compute one value.        *)
(*                                                                         *)
(* Each end's tasks interleave: the task that registers a connection       *)
(* queues the greeting frame by frame, while the reader it spawned already *)
(* handles what the other end sent, and the core asks for the key in one   *)
(* step and sends in a later one. Each stream delivers in order. The       *)
(* outbox here is only what its messages are sealed under; PeerOutbox has  *)
(* the rest.                                                               *)
(***************************************************************************)
EXTENDS Naturals, Sequences, FiniteSets

CONSTANTS
  Links,       \* connections between the two ends, one after or beside another
  MaxUp,       \* bound: connections that are up at one time
  MaxMsg,      \* bound: directed messages sent
  MaxAgain     \* bound: calls of set_nickname at the receiver

Ends == {"sender", "receiver"}
Other(e) == IF e = "sender" THEN "receiver" ELSE "sender"
Kinds == {"hello", "identity", "ephemeral"}
Greeting == <<"hello", "identity", "ephemeral">>
Keys == {"session", "static"} \cup Links

ASSUME PairKeysAssumption ==
  /\ "session" \notin Links /\ "static" \notin Links
  /\ MaxUp \in Nat /\ MaxMsg \in Nat /\ MaxAgain \in Nat

VARIABLES
  link,    \* of each connection: "new", "up", "down"
  entry,   \* entry[e][c]: is c in e's registry
  said,    \* said[e][c]: how many frames of its greeting e has queued on c
  heard,   \* heard[e][c]: what e's entry for c has recorded
  wire,    \* wire[e][c]: frames e queued on c that the other end has not read
  sealed,  \* the message between its sealing and its sending
  outbox,  \* the receiver's outbox at the sender
  got,     \* history: the copies the receiver has read
  nextId,
  again

keysVars == <<link, entry, said, heard, wire, sealed, outbox, got, nextId, again>>

Nothing == [id |-> 0, key |-> "session"]
Message == [id : 1..MaxMsg, key : Keys]
Frame == [kind : Kinds] \cup [kind : {"message"}, id : 1..MaxMsg, key : Keys, early : BOOLEAN]
Copy == [id : 1..MaxMsg, key : Keys, via : Links, early : BOOLEAN, opened : BOOLEAN]

KeysTypeOK ==
  /\ link \in [Links -> {"new", "up", "down"}]
  /\ entry \in [Ends -> [Links -> BOOLEAN]]
  /\ said \in [Ends -> [Links -> 0..3]]
  /\ heard \in [Ends -> [Links -> SUBSET Kinds]]
  /\ wire \in [Ends -> [Links -> Seq(Frame)]]
  /\ sealed \in Message \cup {Nothing}
  /\ outbox \in Seq(Message)
  /\ got \subseteq Copy
  /\ nextId \in 1..MaxMsg + 1
  /\ again \in 0..MaxAgain

KeysInit ==
  /\ link = [c \in Links |-> "new"]
  /\ entry = [e \in Ends |-> [c \in Links |-> FALSE]]
  /\ said = [e \in Ends |-> [c \in Links |-> 0]]
  /\ heard = [e \in Ends |-> [c \in Links |-> {}]]
  /\ wire = [e \in Ends |-> [c \in Links |-> <<>>]]
  /\ sealed = Nothing
  /\ outbox = <<>>
  /\ got = {}
  /\ nextId = 1
  /\ again = 0

Greeted(e, c) == said[e][c] = Len(Greeting)

-----------------------------------------------------------------------------
(* Keys                                                                    *)

(* pair_keys for the connection c at end e, narrowest first. Both ends     *)
(* have an identity: the core sets it before it starts the transport.      *)
KeysOf(e, c) ==
  IF "identity" \notin heard[e][c] THEN <<>>
  ELSE IF "ephemeral" \in heard[e][c] THEN <<c, "static">> ELSE <<"static">>

(* contact_key: the narrowest key of a connection that announced the name. *)
(* Which one, when there are several, is the order of a hash map.          *)
ContactKey(e) ==
  LET named == {c \in Links : entry[e][c] /\ "hello" \in heard[e][c]}
      Narrowest(c) == Head(KeysOf(e, c) \o <<"session">>) IN
  IF named = {} THEN {"session"} ELSE {Narrowest(c) : c \in named}

(* Fault: only the key the receiver would itself seal under.               *)
OpensNarrowest(e, c, key) == key = Head(KeysOf(e, c) \o <<"session">>)

(* decrypt_from: every pair key of the connection, and the session key.    *)
Opens(e, c, key) == key = "session" \/ \E k \in 1..Len(KeysOf(e, c)) : KeysOf(e, c)[k] = key

-----------------------------------------------------------------------------
(* Connections and greetings                                               *)

(* The TCP connection is established; neither end has registered it yet.   *)
Establish(c) ==
  /\ link[c] = "new" /\ Cardinality({d \in Links : link[d] = "up"}) < MaxUp
  /\ link' = [link EXCEPT ![c] = "up"]
  /\ UNCHANGED <<entry, said, heard, wire, sealed, outbox, got, nextId, again>>

(* register, up to its first await: the entry exists, the reader runs.     *)
Register(e, c) ==
  /\ link[c] = "up" /\ ~entry[e][c]
  /\ entry' = [entry EXCEPT ![e][c] = TRUE]
  /\ UNCHANGED <<link, said, heard, wire, sealed, outbox, got, nextId, again>>

(* Fault: the peer is answered, never greeted first.                       *)
GreetInTurn(e, c) ==
  /\ entry[e][c] /\ link[c] = "up" /\ ~Greeted(e, c) /\ heard[e][c] # {}
  /\ said' = [said EXCEPT ![e][c] = @ + 1]
  /\ wire' = [wire EXCEPT ![e][c] = Append(@, [kind |-> Greeting[said[e][c] + 1]])]
  /\ UNCHANGED <<link, entry, heard, sealed, outbox, got, nextId, again>>

(* announce: the next frame of the greeting is queued.                     *)
Greet(e, c) ==
  /\ entry[e][c] /\ link[c] = "up" /\ ~Greeted(e, c)
  /\ said' = [said EXCEPT ![e][c] = @ + 1]
  /\ wire' = [wire EXCEPT ![e][c] = Append(@, [kind |-> Greeting[said[e][c] + 1]])]
  /\ UNCHANGED <<link, entry, heard, sealed, outbox, got, nextId, again>>

(* set_nickname at the receiver, to the name it has: the greeting's first  *)
(* frame again, on every connection in the registry.                       *)
SayAgain ==
  /\ again < MaxAgain
  /\ again' = again + 1
  /\ wire' = [wire EXCEPT !["receiver"] = [c \in Links |->
       IF entry["receiver"][c] /\ link[c] = "up" THEN Append(wire["receiver"][c], [kind |-> "hello"])
       ELSE wire["receiver"][c]]]
  /\ UNCHANGED <<link, entry, said, heard, sealed, outbox, got, nextId>>

(* The connection fails, for both ends, with everything still in flight.   *)
(* Nothing reads the receiver's entry any more, so it goes at once.        *)
Fail(c) ==
  /\ link[c] = "up"
  /\ link' = [link EXCEPT ![c] = "down"]
  /\ wire' = [e \in Ends |-> [wire[e] EXCEPT ![c] = <<>>]]
  /\ said' = [e \in Ends |-> [said[e] EXCEPT ![c] = 0]]
  /\ entry' = [entry EXCEPT !["receiver"][c] = FALSE]
  /\ heard' = [heard EXCEPT !["receiver"][c] = {}]
  /\ UNCHANGED <<sealed, outbox, got, nextId, again>>

(* read_loop of the sender ends: its entry is removed, with all it had     *)
(* recorded. Until then the core still finds the failed connection.        *)
Forget(c) ==
  /\ link[c] = "down" /\ entry["sender"][c]
  /\ entry' = [entry EXCEPT !["sender"][c] = FALSE]
  /\ heard' = [heard EXCEPT !["sender"][c] = {}]
  /\ UNCHANGED <<link, said, wire, sealed, outbox, got, nextId, again>>

-----------------------------------------------------------------------------
(* The core of the sender                                                  *)

(* The payload is sealed under contact_key, or under the session key.      *)
Seal ==
  /\ sealed = Nothing /\ nextId <= MaxMsg
  /\ \E key \in ContactKey("sender") : sealed' = [id |-> nextId, key |-> key]
  /\ nextId' = nextId + 1
  /\ UNCHANGED <<link, entry, said, heard, wire, outbox, got, again>>

FrameOf(m, c) ==
  [kind |-> "message", id |-> m.id, key |-> m.key, early |-> ~Greeted("sender", c)]

(* send_ciphertext_to_peer: to every connection with the name, else into   *)
(* the outbox. A frame queued on a failed connection is lost with it.      *)
Send ==
  LET named == {c \in Links : entry["sender"][c] /\ "hello" \in heard["sender"][c]} IN
  /\ sealed # Nothing
  /\ wire' = [wire EXCEPT !["sender"] = [c \in Links |->
       IF c \in named /\ link[c] = "up"
       THEN Append(wire["sender"][c], FrameOf(sealed, c)) ELSE wire["sender"][c]]]
  /\ outbox' = IF named = {} THEN Append(outbox, sealed) ELSE outbox
  /\ sealed' = Nothing
  /\ UNCHANGED <<link, entry, said, heard, got, nextId, again>>

-----------------------------------------------------------------------------
(* The readers                                                             *)

(* FRAME_HELLO: the name is recorded and the outbox flushed in order.      *)
HearHello(e, c) ==
  LET flushed == IF e = "sender" THEN outbox ELSE <<>> IN
  /\ entry[e][c]
  /\ wire[Other(e)][c] # <<>> /\ Head(wire[Other(e)][c]).kind = "hello"
  /\ heard' = [heard EXCEPT ![e][c] = @ \cup {"hello"}]
  /\ wire' = [wire EXCEPT ![Other(e)][c] = Tail(@),
                          ![e][c] = @ \o [i \in 1..Len(flushed) |-> FrameOf(flushed[i], c)]]
  /\ outbox' = IF e = "sender" THEN <<>> ELSE outbox
  /\ UNCHANGED <<link, entry, said, sealed, got, nextId, again>>

(* FRAME_IDENTITY and FRAME_EPHEMERAL: recorded in the entry.              *)
HearKey(e, c) ==
  /\ entry[e][c]
  /\ wire[Other(e)][c] # <<>> /\ Head(wire[Other(e)][c]).kind \in {"identity", "ephemeral"}
  /\ heard' = [heard EXCEPT ![e][c] = @ \cup {Head(wire[Other(e)][c]).kind}]
  /\ wire' = [wire EXCEPT ![Other(e)][c] = Tail(@)]
  /\ UNCHANGED <<link, entry, said, sealed, outbox, got, nextId, again>>

(* A message frame: what no key opens is warned about and dropped.         *)
HearMessage(c) ==
  LET m == Head(wire["sender"][c]) IN
  /\ entry["receiver"][c]
  /\ wire["sender"][c] # <<>> /\ m.kind = "message"
  /\ got' = got \cup {[id |-> m.id, key |-> m.key, via |-> c, early |-> m.early,
                       opened |-> Opens("receiver", c, m.key)]}
  /\ wire' = [wire EXCEPT !["sender"][c] = Tail(@)]
  /\ UNCHANGED <<link, entry, said, heard, sealed, outbox, nextId, again>>

-----------------------------------------------------------------------------
KeysNext ==
  \/ \E c \in Links : Establish(c) \/ Fail(c) \/ Forget(c) \/ HearMessage(c)
  \/ \E e \in Ends, c \in Links :
       Register(e, c) \/ Greet(e, c) \/ HearHello(e, c) \/ HearKey(e, c)
  \/ SayAgain \/ Seal \/ Send

KeysSpec == KeysInit /\ [][KeysNext]_keysVars

(* The tasks of both ends run; connections need not come up, or stay up,   *)
(* and nobody has to send.                                                 *)
KeysFairness ==
  /\ WF_keysVars(Send)
  /\ \A c \in Links : WF_keysVars(HearMessage(c)) /\ WF_keysVars(Forget(c))
  /\ \A e \in Ends, c \in Links :
       /\ WF_keysVars(Register(e, c)) /\ WF_keysVars(Greet(e, c))
       /\ WF_keysVars(HearHello(e, c)) /\ WF_keysVars(HearKey(e, c))

KeysFairSpec == KeysSpec /\ KeysFairness

-----------------------------------------------------------------------------
(* Properties                                                              *)

(* A directed message the receiver reads is opened, whatever the           *)
(* interleaving of greetings, reconnects, flushes and sends, except for    *)
(* two races: its key was agreed on another connection than the one it     *)
(* came on, or it overtook the sender's own greeting. decrypt_from tries   *)
(* every key of the connection "and the session key last, which is the     *)
(* documented fallback that keeps [...] a payload buffered before the peer *)
(* was reachable talking".                                                 *)
SealedIsOpened == \A m \in got :
  ~m.opened => m.key # "session" /\ (m.early \/ m.key \in Links \ {m.via})

(* Two ends that stay connected come to hold the agreed key, both, and     *)
(* each of the connections between them its own: no task waits for the     *)
(* other end's greeting before it queues its own.                          *)
GreetingCompletes == \A c \in Links :
  link[c] = "up" ~> (link[c] = "down" \/ \A e \in Ends : KeysOf(e, c) = <<c, "static">>)
=============================================================================

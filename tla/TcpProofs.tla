------------------------------ MODULE TcpProofs ------------------------------
(***************************************************************************)
(* Theorems about the TCP transport, for every choice of addresses, peers, *)
(* connections and limits.                                                 *)
(*                                                                         *)
(* PeerConnections: the state is well typed, every registry entry is       *)
(* served by the reader of its own connection, and the slots of the        *)
(* inbound limit are counted (IInv, then SlotInv).                         *)
(*                                                                         *)
(* EntryHasReader alone is not inductive. A task that is about to register *)
(* writes the entry for the stream it holds, so the invariant also says    *)
(* that such a stream is nobody else's and that no reader runs on it yet.  *)
(*                                                                         *)
(* PairKeys: whatever connections are up at one time or one after the      *)
(* other, what the sender seals the receiver opens, but for the two races  *)
(* that are named (KeysInv).                                               *)
(***************************************************************************)
EXTENDS PeerConnections, PairKeys, FiniteSetTheorems, SequenceTheorems, TLAPS

(* A dialler between its dial and its mark_resolved works on an address.   *)
DiallerHasAddress ==
  \A t \in Dialers :
    at[t] \in {"dialing", "connected", "announcing"} => addr[t] \in Addresses

(* Whatever is not free was opened by a dial or an accept.                 *)
OpenHasRemote ==
  \A c \in Conns : conn[c].stage # "free" => conn[c].remote \in Remotes

(* A task about to register holds a stream no reader has been given.       *)
HoldsStream ==
  \A t \in Tasks : at[t] = "connected" =>
    held[t] \in Conns /\ conn[held[t]].stage = "held"

(* Two tasks never hold the same stream.                                   *)
HoldsApart ==
  \A t, u \in Tasks :
    at[t] = "connected" /\ at[u] = "connected" /\ held[t] = held[u] => t = u

IInv ==
  TypeOK /\ DiallerHasAddress /\ OpenHasRemote /\ HoldsStream /\ HoldsApart /\ EntryHasReader

LEMMA InitIInv == Init => IInv
BY ConstantsOK DEF Init, IInv, TypeOK, DiallerHasAddress, OpenHasRemote, HoldsStream,
   HoldsApart, EntryHasReader, Tasks, Dialers, Conns, NoConn, NoEntry, Stages

(* Steps that leave the registry, the sockets and the held streams alone.  *)
LEMMA QuietStep ==
  ASSUME IInv, TypeOK', UNCHANGED <<peers, conn, held>>,
         \A t \in Tasks : at'[t] = "connected" => at[t] = "connected",
         DiallerHasAddress'
  PROVE  IInv'
BY DEF IInv, TypeOK, OpenHasRemote, HoldsStream, HoldsApart, EntryHasReader

(* The actor's own steps and the supervisor's choice of an address.        *)
LEMMA ActorStep ==
  ASSUME IInv, \/ \E a \in Addresses : Connect(a) \/ Redial(a)
               \/ Consume \/ DropInbox \/ Tick
  PROVE  IInv'
<1>1. ASSUME NEW a \in Addresses, Connect(a) PROVE IInv'
  BY <1>1, QuietStep DEF Connect, IInv, TypeOK, DiallerHasAddress, Tasks, Dialers
<1>2. ASSUME NEW a \in Addresses, Redial(a) PROVE IInv'
  BY <1>2, QuietStep DEF Redial, IInv, TypeOK, DiallerHasAddress, Tasks, Dialers
<1>3. CASE Consume
  BY <1>3, QuietStep, ConstantsOK DEF Consume, IInv, TypeOK, DiallerHasAddress, Tasks, Dialers
<1>4. CASE DropInbox
  BY <1>4, QuietStep, ConstantsOK DEF DropInbox, IInv, TypeOK, DiallerHasAddress, Tasks, Dialers
<1>5. CASE Tick
  BY <1>5, QuietStep DEF Tick, IInv, TypeOK, DiallerHasAddress, Tasks, Dialers
<1> QED BY <1>1, <1>2, <1>3, <1>4, <1>5

(* NetworkManager::shutdown empties the registry; a survivor keeps the     *)
(* stream it holds.                                                        *)
LEMMA ShutdownStep == IInv /\ Shutdown => IInv'
<1> SUFFICES ASSUME IInv, Shutdown PROVE IInv'
  OBVIOUS
<1>1. PICK survivors \in SUBSET {t \in Background : at[t] \in {"connected", "announcing"}} :
        /\ at' = [t \in Tasks |-> IF t \in survivors THEN at[t] ELSE "off"]
        /\ conn' = [c \in Conns |->
             IF \E t \in survivors : at[t] = "connected" /\ held[t] = c
             THEN conn[c] ELSE NoConn]
  BY DEF Shutdown
<1>2. survivors \subseteq Tasks
  BY DEF Background, Tasks
<1>3. TypeOK'
  BY <1>1, <1>2 DEF Shutdown, IInv, TypeOK, NoConn, NoEntry, Stages
<1>4. DiallerHasAddress'
  BY <1>1, <1>2 DEF Shutdown, IInv, DiallerHasAddress, Dialers, Tasks
<1>5. OpenHasRemote' /\ EntryHasReader'
  BY <1>1, <1>2 DEF Shutdown, IInv, TypeOK, OpenHasRemote, EntryHasReader, NoConn, NoEntry
<1>6. HoldsStream' /\ HoldsApart'
  BY <1>1, <1>2 DEF Shutdown, IInv, TypeOK, HoldsStream, HoldsApart
<1> QED BY <1>3, <1>4, <1>5, <1>6 DEF IInv

(* A new stream takes a free number, so no entry and no task names it.     *)
LEMMA OpenStep ==
  ASSUME IInv,
         NEW t \in Tasks, NEW c \in Conns, NEW r \in Remotes,
         at[t] \in {"waiting", "dialing"}, Free(c),
         t \in Dialers => addr[t] \in Addresses,
         conn' = [conn EXCEPT ![c] = Open(r)],
         held' = [held EXCEPT ![t] = c],
         at' = [at EXCEPT ![t] = "connected"],
         UNCHANGED <<mode, boot, desired, peers, addr, pending, inbox>>
  PROVE  IInv'
<1>1. TypeOK'
  BY DEF IInv, TypeOK, Open, NoConn, Stages
<1>2. DiallerHasAddress' /\ OpenHasRemote'
  BY DEF IInv, TypeOK, DiallerHasAddress, OpenHasRemote, Open, NoConn
<1>3. HoldsStream' /\ HoldsApart'
  BY DEF IInv, TypeOK, HoldsStream, HoldsApart, Open, NoConn, Free
<1>4. EntryHasReader'
  BY DEF IInv, TypeOK, EntryHasReader, Free, Serving
<1> QED BY <1>1, <1>2, <1>3, <1>4 DEF IInv

(* The three ways a dial or an accept can end.                             *)
LEMMA DialStep ==
  ASSUME IInv, \/ \E t \in Dialers : DialOk(t) \/ DialFails(t)
               \/ \E r \in Callers : Accept(r)
  PROVE  IInv'
<1>1. ASSUME NEW t \in Dialers, DialOk(t) PROVE IInv'
  <2>1. t \in Tasks /\ addr[t] \in Addresses /\ RemoteOf[addr[t]] \in Remotes
    BY <1>1, ConstantsOK DEF DialOk, Dialers, Tasks, IInv, DiallerHasAddress
  <2> QED BY <1>1, <2>1, OpenStep DEF DialOk, NextFree
<1>2. ASSUME NEW t \in Dialers, DialFails(t) PROVE IInv'
  BY <1>2, QuietStep DEF DialFails, IInv, TypeOK, DiallerHasAddress, Tasks, Dialers
<1>3. ASSUME NEW r \in Callers, Accept(r) PROVE IInv'
  <2>1. "acceptor" \in Tasks /\ "acceptor" \notin Dialers /\ r \in Remotes
    BY DEF Tasks, Dialers, Remotes
  <2> QED BY <1>3, <2>1, OpenStep DEF Accept, NextFree
<1> QED BY <1>1, <1>2, <1>3

(* register writes the entry and spawns the reader in one critical section *)
(* as far as the other tasks can tell.                                     *)
LEMMA InsertStep == ASSUME NEW t \in Tasks, IInv, Insert(t) PROVE IInv'
<1>1. held[t] \in Conns /\ conn[held[t]].stage = "held" /\ conn[held[t]].remote \in Remotes
  BY DEF Insert, IInv, HoldsStream, OpenHasRemote
<1>2. TypeOK'
  BY <1>1 DEF Insert, IInv, TypeOK, Stages
<1>3. DiallerHasAddress' /\ OpenHasRemote'
  BY <1>1 DEF Insert, IInv, TypeOK, DiallerHasAddress, OpenHasRemote
<1>4. HoldsStream' /\ HoldsApart'
  BY <1>1 DEF Insert, IInv, TypeOK, HoldsStream, HoldsApart
<1>5. EntryHasReader'
  BY <1>1 DEF Insert, IInv, TypeOK, EntryHasReader, Serving
<1> QED BY <1>2, <1>3, <1>4, <1>5 DEF IInv

(* The event of register and mark_resolved.                                *)
LEMMA AnnouncedStep == ASSUME NEW t \in Tasks, IInv, Announced(t) PROVE IInv'
<1>1. inbox' \in 0..InboxCapacity
  BY ConstantsOK DEF Announced, SendEvent, IInv, TypeOK
<1>2. desired' \in [Addresses -> [wanted : BOOLEAN, resolved : Remotes \cup {NoRemote}]]
  <2>1. t \in Dialers => addr[t] \in Addresses /\ RemoteOf[addr[t]] \in Remotes
    BY ConstantsOK DEF Announced, IInv, DiallerHasAddress
  <2> QED BY <2>1 DEF Announced, MarkResolved, IInv, TypeOK
<1>3. TypeOK'
  BY <1>1, <1>2 DEF Announced, IInv, TypeOK
<1>4. DiallerHasAddress' /\ OpenHasRemote' /\ EntryHasReader'
  BY DEF Announced, IInv, TypeOK, DiallerHasAddress, OpenHasRemote, EntryHasReader
<1>5. HoldsStream' /\ HoldsApart'
  BY DEF Announced, IInv, TypeOK, HoldsStream, HoldsApart
<1> QED BY <1>3, <1>4, <1>5 DEF IInv

(* The reader of c, up to its end, only moves between serving stages and   *)
(* touches the flags of its entry.                                         *)
LEMMA ReaderStep ==
  ASSUME NEW c \in Conns, IInv, Hello(c) \/ Traffic(c) \/ Delivered(c) \/ Keepalive(c)
  PROVE  IInv'
<1>1. inbox' \in 0..InboxCapacity
  BY ConstantsOK DEF Hello, Traffic, Delivered, Keepalive, SendEvent, IInv, TypeOK
<1>2. conn[c].stage \in Serving /\ conn[c].remote \in Remotes
  BY DEF Hello, Traffic, Delivered, Keepalive, Serving, IInv, OpenHasRemote
<1>3. /\ conn' \in [Conns -> [remote : Remotes \cup {NoRemote}, up : BOOLEAN, stage : Stages,
                         hello : BOOLEAN, greeted : BOOLEAN, armed : BOOLEAN]]
      /\ \A d \in Conns : /\ conn'[d].remote = conn[d].remote
                          /\ d # c => conn'[d] = conn[d]
      /\ conn'[c].stage \in Serving
  <2> DEFINE new == conn'[c]
             Record == [remote : Remotes \cup {NoRemote}, up : BOOLEAN, stage : Stages,
                        hello : BOOLEAN, greeted : BOOLEAN, armed : BOOLEAN]
  <2>1. conn \in [Conns -> Record]
    BY DEF IInv, TypeOK
  <2>2. conn' = [conn EXCEPT ![c] = new]
    BY <2>1 DEF Hello, Traffic, Delivered, Keepalive
  <2>3. new \in Record /\ new.remote = conn[c].remote /\ new.stage \in Serving
    <3>1. CASE Hello(c)
      BY <2>1, <3>1 DEF Hello, Serving, Stages
    <3>2. CASE Traffic(c)
      BY <2>1, <3>2 DEF Traffic, Serving, Stages
    <3>3. CASE Delivered(c)
      <4>1. peers[conn[c].remote].named \in BOOLEAN /\ peers[conn[c].remote].keepalive \in BOOLEAN
        BY <1>2 DEF IInv, TypeOK
      <4> QED BY <2>1, <3>3, <4>1 DEF Delivered, Serving, Stages
    <3>4. CASE Keepalive(c)
      BY <2>1, <3>4 DEF Keepalive, Serving, Stages
    <3> QED BY <3>1, <3>2, <3>3, <3>4
  <2> HIDE DEF new
  <2> QED BY <2>1, <2>2, <2>3
<1>4. /\ peers' \in [Remotes -> [conn : Conns \cup {0}, named : BOOLEAN, keepalive : BOOLEAN]]
      /\ \A r \in Remotes : peers'[r].conn = peers[r].conn
  <2> DEFINE Entry == [conn : Conns \cup {0}, named : BOOLEAN, keepalive : BOOLEAN]
  <2>1. peers \in [Remotes -> Entry]
    BY DEF IInv, TypeOK
  <2>2. CASE Hello(c)
    BY <1>2, <2>1, <2>2 DEF Hello
  <2>3. CASE Traffic(c) \/ Delivered(c)
    BY <2>1, <2>3 DEF Traffic, Delivered
  <2>4. CASE Keepalive(c)
    <3> DEFINE r == conn[c].remote
    <3>1. peers' = [peers EXCEPT ![r].keepalive = @ \/ peers[r].conn # 0]
      BY <2>4 DEF Keepalive
    <3>2. peers[r].keepalive \in BOOLEAN /\ r \in Remotes
      BY <1>2, <2>1
    <3>3. PICK b \in BOOLEAN : peers' = [peers EXCEPT ![r].keepalive = b]
      <4>1. (peers[r].keepalive \/ peers[r].conn # 0) \in BOOLEAN
        OBVIOUS
      <4> QED BY <3>1, <4>1
    <3> HIDE DEF r
    <3> QED BY <2>1, <3>2, <3>3
  <2> QED BY <2>2, <2>3, <2>4
<1>5. UNCHANGED <<mode, boot, desired, at, addr, held, pending>>
  BY DEF Hello, Traffic, Delivered, Keepalive
<1>6. TypeOK' /\ DiallerHasAddress'
  BY <1>1, <1>3, <1>4, <1>5 DEF IInv, TypeOK, DiallerHasAddress
<1>7. OpenHasRemote' /\ EntryHasReader'
  <2>1. ASSUME NEW d \in Conns, conn'[d].stage # "free" PROVE conn'[d].remote \in Remotes
    <3>1. conn[d].stage # "free"
      BY <1>2, <1>3, <2>1 DEF Serving
    <3> QED BY <1>3, <3>1 DEF IInv, OpenHasRemote
  <2>2. ASSUME NEW r \in Remotes, peers'[r].conn # 0
        PROVE  conn'[peers'[r].conn].stage \in Serving /\ conn'[peers'[r].conn].remote = r
    <3> DEFINE d == peers[r].conn
    <3>1. d # 0 /\ d \in Conns /\ peers'[r].conn = d
      BY <1>4, <2>2 DEF IInv, TypeOK
    <3>2. conn[d].stage \in Serving /\ conn[d].remote = r
      BY <3>1 DEF IInv, EntryHasReader
    <3>3. conn'[d].stage \in Serving /\ conn'[d].remote = r
      BY <1>3, <3>1, <3>2
    <3> QED BY <3>1, <3>3
  <2> QED BY <2>1, <2>2 DEF OpenHasRemote, EntryHasReader
<1>8. HoldsStream' /\ HoldsApart'
  BY <1>2, <1>3, <1>5 DEF IInv, HoldsStream, HoldsApart, Serving
<1> QED BY <1>6, <1>7, <1>8 DEF IInv

(* read_loop removes whatever entry its remote has; if that was its own    *)
(* there is none left that names it, since entries sit at their own remote.*)
LEMMA ReaderEndsStep == ASSUME NEW c \in Conns, IInv, ReaderEnds(c) PROVE IInv'
<1>1. conn[c].stage = "reading" /\ conn[c].remote \in Remotes
  BY DEF ReaderEnds, IInv, OpenHasRemote
<1>2. TypeOK'
  <2> DEFINE Conn == [remote : Remotes \cup {NoRemote}, up : BOOLEAN, stage : Stages,
                      hello : BOOLEAN, greeted : BOOLEAN, armed : BOOLEAN]
             Entry == [conn : Conns \cup {0}, named : BOOLEAN, keepalive : BOOLEAN]
  <2>1. conn \in [Conns -> Conn] /\ peers \in [Remotes -> Entry] /\ NoEntry \in Entry
    BY DEF IInv, TypeOK, NoEntry
  <2>2. [conn[c] EXCEPT !.stage = "clearing", !.up = FALSE] \in Conn
    <3>1. conn[c] \in Conn
      BY <2>1
    <3>2. "clearing" \in Stages
      BY DEF Stages
    <3> QED BY ONLY <3>1, <3>2
  <2>3. conn' = [conn EXCEPT ![c] = [conn[c] EXCEPT !.stage = "clearing", !.up = FALSE]]
    BY <2>1 DEF ReaderEnds
  <2>4. UNCHANGED <<mode, boot, desired, at, addr, held, pending, inbox>>
    BY DEF ReaderEnds
  <2> HIDE DEF Conn, Entry
  <2>5. conn' \in [Conns -> Conn]
    BY <2>1, <2>2, <2>3
  <2>6. peers' \in [Remotes -> Entry]
    BY <1>1, <2>1 DEF ReaderEnds
  <2> QED BY <2>4, <2>5, <2>6 DEF IInv, TypeOK, Conn, Entry
<1>3. DiallerHasAddress' /\ OpenHasRemote'
  <2>1. DiallerHasAddress'
    BY DEF ReaderEnds, IInv, DiallerHasAddress
  <2>2. OpenHasRemote'
    BY <1>1 DEF ReaderEnds, IInv, TypeOK, OpenHasRemote
  <2> QED BY <2>1, <2>2
<1>4. HoldsStream' /\ HoldsApart'
  BY <1>1 DEF ReaderEnds, IInv, TypeOK, HoldsStream, HoldsApart
<1>5. EntryHasReader'
  BY <1>1 DEF ReaderEnds, IInv, TypeOK, EntryHasReader, NoEntry
<1> QED BY <1>2, <1>3, <1>4, <1>5 DEF IInv

(* The rest of read_loop, and the far side going away.                     *)
LEMMA AfterEndStep ==
  ASSUME NEW c \in Conns, IInv, PeerCloses(c) \/ ClearResolved(c) \/ ReportGone(c)
  PROVE  IInv'
<1>1. CASE PeerCloses(c)
  <2> DEFINE Conn == [remote : Remotes \cup {NoRemote}, up : BOOLEAN, stage : Stages,
                      hello : BOOLEAN, greeted : BOOLEAN, armed : BOOLEAN]
  <2>1. conn' \in [Conns -> Conn] /\ UNCHANGED <<mode, boot, desired, peers, at, addr, held, pending, inbox>>
    BY <1>1 DEF PeerCloses, IInv, TypeOK
  <2>2. TypeOK' /\ DiallerHasAddress'
    BY <2>1 DEF IInv, TypeOK, DiallerHasAddress
  <2>3. OpenHasRemote'
    BY <1>1 DEF PeerCloses, IInv, TypeOK, OpenHasRemote
  <2>4. HoldsStream' /\ HoldsApart' /\ EntryHasReader'
    BY <1>1 DEF PeerCloses, IInv, TypeOK, HoldsStream, HoldsApart, EntryHasReader
  <2> QED BY <2>2, <2>3, <2>4 DEF IInv
<1>2. CASE ClearResolved(c)
  <2>1. TypeOK'
    <3>1. desired' \in [Addresses -> [wanted : BOOLEAN, resolved : Remotes \cup {NoRemote}]]
      <4> DEFINE Wish == [wanted : BOOLEAN, resolved : Remotes \cup {NoRemote}]
      <4>1. \A a \in Addresses : desired[a] \in Wish
        BY DEF IInv, TypeOK
      <4>2. \A a \in Addresses : [desired[a] EXCEPT !.resolved = NoRemote] \in Wish
        BY <4>1
      <4> HIDE DEF Wish
      <4>3. desired' \in [Addresses -> Wish]
        BY <1>2, <4>1, <4>2 DEF ClearResolved
      <4> QED BY <4>3 DEF Wish
    <3>2. conn' \in [Conns -> [remote : Remotes \cup {NoRemote}, up : BOOLEAN, stage : Stages,
                               hello : BOOLEAN, greeted : BOOLEAN, armed : BOOLEAN]]
      BY <1>2 DEF ClearResolved, IInv, TypeOK, Stages
    <3>3. UNCHANGED <<mode, boot, peers, at, addr, held, pending, inbox>>
      BY <1>2 DEF ClearResolved
    <3> QED BY <3>1, <3>2, <3>3 DEF IInv, TypeOK
  <2>2. DiallerHasAddress' /\ OpenHasRemote'
    BY <1>2 DEF ClearResolved, IInv, TypeOK, DiallerHasAddress, OpenHasRemote
  <2>3. HoldsStream' /\ HoldsApart' /\ EntryHasReader'
    BY <1>2 DEF ClearResolved, IInv, TypeOK, HoldsStream, HoldsApart, EntryHasReader, Serving
  <2> QED BY <2>1, <2>2, <2>3 DEF IInv
<1>3. CASE ReportGone(c)
  <2>1. TypeOK'
    BY <1>3, ConstantsOK DEF ReportGone, SendEvent, IInv, TypeOK, NoConn, Stages
  <2>2. DiallerHasAddress' /\ OpenHasRemote'
    BY <1>3 DEF ReportGone, IInv, TypeOK, DiallerHasAddress, OpenHasRemote, NoConn
  <2>3. \A t \in Tasks : at[t] = "connected" => held'[t] = held[t] /\ held[t] # c
    BY <1>3 DEF ReportGone, IInv, HoldsStream
  <2>4. HoldsStream' /\ HoldsApart'
    BY <1>3, <2>3 DEF ReportGone, IInv, TypeOK, HoldsStream, HoldsApart
  <2>5. EntryHasReader'
    BY <1>3 DEF ReportGone, IInv, TypeOK, EntryHasReader, Serving
  <2> QED BY <2>1, <2>2, <2>4, <2>5 DEF IInv
<1> QED BY <1>1, <1>2, <1>3

LEMMA NextIInv == IInv /\ [Next]_vars => IInv'
<1> SUFFICES ASSUME IInv, [Next]_vars PROVE IInv'
  OBVIOUS
<1>1. CASE UNCHANGED vars
  BY <1>1 DEF vars, IInv, TypeOK, DiallerHasAddress, OpenHasRemote, HoldsStream, HoldsApart,
     EntryHasReader
<1>2. CASE Next
  BY <1>2, ActorStep, ShutdownStep, DialStep, InsertStep, AnnouncedStep, ReaderStep,
     ReaderEndsStep, AfterEndStep DEF Next
<1> QED BY <1>1, <1>2

(* The inductive invariant holds of every behaviour.                       *)
LEMMA AlwaysIInv == Spec => []IInv
BY InitIInv, NextIInv, PTL DEF Spec

(* Every variable of the transport keeps its type whatever the addresses,  *)
(* the peers and the limits are.                                           *)
THEOREM ConnectionsTypeCorrect == Spec => []TypeOK
<1>1. IInv => TypeOK
  BY DEF IInv
<1> QED BY <1>1, AlwaysIInv, PTL

(* No registry entry is ever left without the reader that will remove it,  *)
(* however dials, accepts, drops, re-registrations of one address and a    *)
(* shutdown interleave.                                                    *)
THEOREM NoOrphanEntry == Spec => []EntryHasReader
<1>1. IInv => EntryHasReader
  BY DEF IInv
<1> QED BY <1>1, AlwaysIInv, PTL

-----------------------------------------------------------------------------
(* The connections of one remote                                           *)
(*                                                                         *)
(* ReaderHasEntry is about the time between two steps of other tasks: the  *)
(* supervisor dials from a copy of the addresses that were unresolved some *)
(* time ago, and the limit is checked before a socket is registered.       *)

(* A remote nobody but the supervisor dials, and for one address only.     *)
Kept(r) ==
  /\ \A a \in Boot \cup UserDials : r # RemoteOf[a]
  /\ \A a, b \in Addresses : r = RemoteOf[a] /\ r = RemoteOf[b] => a = b

(* From its socket until its addresses are unresolved.                     *)
Live(c) == conn[c].stage \in {"held", "reading", "delivering", "clearing"}
Busy == {"dialing", "connected", "announcing"}

(* Such a remote has one connection at a time.                             *)
SoleStream ==
  \A c, d \in Conns :
    Live(c) /\ Live(d) /\ conn[c].remote = conn[d].remote /\ Kept(conn[c].remote) => c = d

(* The actor dials what a user asked for.                                  *)
UserDialled ==
  /\ boot \subseteq Boot
  /\ at["actor"] \in Busy => addr["actor"] \in Boot \cup UserDials

(* What the supervisor is about to dial is not connected: nobody has       *)
(* connected it since the copy was made.                                   *)
Undialled ==
  \A a \in Addresses : Kept(RemoteOf[a]) =>
    /\ a \in pending \/ (at["supervisor"] = "dialing" /\ addr["supervisor"] = a)
         => \A c \in Conns : Live(c) => conn[c].remote # RemoteOf[a]
    /\ at["supervisor"] \in Busy /\ addr["supervisor"] = a => a \notin pending

(* The address of a connection is marked, or about to be.                  *)
KnownUp ==
  mode # "closed" => \A c \in Conns, a \in Addresses :
    Live(c) /\ conn[c].remote = RemoteOf[a] /\ Kept(RemoteOf[a]) =>
      \/ desired[a].resolved = RemoteOf[a]
      \/ at["supervisor"] \in {"connected", "announcing"} /\ addr["supervisor"] = a

(* The entry of a remote with one connection is that connection's.         *)
OwnEntry ==
  \A c \in Conns :
    conn[c].stage \in Serving /\ Kept(conn[c].remote) => peers[conn[c].remote].conn = c

(* Nobody dials a caller.                                                  *)
DialledOut ==
  \A t \in Dialers : at[t] = "connected" => conn[held[t]].remote \notin Callers

StreamInv == SoleStream /\ UserDialled /\ Undialled /\ KnownUp /\ OwnEntry /\ DialledOut

LEMMA InitStreams == Init => StreamInv
BY DEF Init, StreamInv, SoleStream, UserDialled, Undialled, KnownUp, OwnEntry, DialledOut,
   Live, Busy, NoConn, Serving, Tasks, Dialers

(* Steps after which every connection was there before, on the same remote, *)
(* under the same entries, and the supervisor dials nothing new.            *)
LEMMA StreamsKept ==
  ASSUME IInv, StreamInv,
         \A c \in Conns : Live(c)' => Live(c) /\ conn'[c].remote = conn[c].remote,
         pending' \subseteq pending,
         at'["supervisor"] = at["supervisor"] /\ addr'["supervisor"] = addr["supervisor"]
  PROVE  SoleStream' /\ Undialled'
<1>1. SoleStream'
  BY DEF StreamInv, SoleStream, Kept
<1>2. Undialled'
  BY DEF StreamInv, Undialled, Kept
<1> QED BY <1>1, <1>2

(* The actor's own steps, and the supervisor's two.                        *)
LEMMA ActorStreams ==
  ASSUME IInv, StreamInv, \/ \E a \in Addresses : Connect(a) \/ Redial(a)
                          \/ Consume \/ DropInbox \/ Tick
  PROVE  StreamInv'
<1>1. ASSUME NEW a \in Addresses, Connect(a) PROVE StreamInv'
  <2>1. SoleStream' /\ Undialled'
    BY <1>1, StreamsKept DEF Connect, IInv, TypeOK, Live, Tasks
  <2>2. UserDialled'
    BY <1>1 DEF Connect, IInv, TypeOK, StreamInv, UserDialled, Tasks
  <2>3. KnownUp'
    BY <1>1 DEF Connect, IInv, TypeOK, StreamInv, KnownUp, Live, Kept, Tasks
  <2>4. OwnEntry' /\ DialledOut'
    BY <1>1 DEF Connect, IInv, TypeOK, StreamInv, OwnEntry, DialledOut, Kept, Dialers, Tasks
  <2> QED BY <2>1, <2>2, <2>3, <2>4 DEF StreamInv
<1>2. ASSUME NEW a \in Addresses, Redial(a) PROVE StreamInv'
  <2>1. at'["supervisor"] = "dialing" /\ addr'["supervisor"] = a /\ pending' = pending \ {a}
    BY <1>2 DEF Redial, IInv, TypeOK, Tasks
  <2>2. at'["actor"] = at["actor"] /\ addr'["actor"] = addr["actor"]
    BY <1>2 DEF Redial, IInv, TypeOK, Tasks
  <2>3. UNCHANGED <<mode, boot, desired, peers, conn, held, inbox>>
    BY <1>2 DEF Redial
  <2>4. SoleStream' /\ OwnEntry'
    BY <2>3 DEF StreamInv, SoleStream, OwnEntry, Kept, Live
  <2>5. UserDialled'
    BY <2>2, <2>3 DEF StreamInv, UserDialled
  <2>6. Undialled'
    BY <1>2, <2>1, <2>3 DEF Redial, StreamInv, Undialled, Kept, Live, Busy
  <2>7. KnownUp'
    BY <1>2, <2>1, <2>3 DEF Redial, StreamInv, KnownUp, Kept, Live
  <2>8. DialledOut'
    BY <1>2, <2>3 DEF Redial, IInv, TypeOK, StreamInv, DialledOut, Dialers, Tasks
  <2> QED BY <2>4, <2>5, <2>6, <2>7, <2>8 DEF StreamInv
<1>3. CASE Consume \/ DropInbox
  BY <1>3 DEF Consume, DropInbox, StreamInv, SoleStream, UserDialled, Undialled, KnownUp,
     OwnEntry, DialledOut, Kept, Live
<1>4. CASE Tick
  <2>1. SoleStream' /\ UserDialled' /\ KnownUp' /\ OwnEntry' /\ DialledOut'
    BY <1>4 DEF Tick, StreamInv, SoleStream, UserDialled, KnownUp, OwnEntry, DialledOut, Kept, Live
  <2>2. \A a \in Addresses : RemoteOf[a] # NoRemote
    BY ConstantsOK
  <2>3. Undialled'
    BY <1>4, <2>2 DEF Tick, StreamInv, Undialled, KnownUp, Kept, Live, Busy
  <2> QED BY <2>1, <2>3 DEF StreamInv
<1> QED BY <1>1, <1>2, <1>3, <1>4

(* After a shutdown only streams that are still held are left.             *)
LEMMA ShutdownStreams == IInv /\ StreamInv /\ Shutdown => StreamInv'
<1> SUFFICES ASSUME IInv, StreamInv, Shutdown PROVE StreamInv'
  OBVIOUS
<1>1. PICK survivors \in SUBSET {t \in Background : at[t] \in {"connected", "announcing"}} :
        /\ at' = [t \in Tasks |-> IF t \in survivors THEN at[t] ELSE "off"]
        /\ conn' = [c \in Conns |->
             IF \E t \in survivors : at[t] = "connected" /\ held[t] = c
             THEN conn[c] ELSE NoConn]
  BY DEF Shutdown
<1>2. /\ survivors \subseteq Tasks /\ "actor" \notin survivors
      /\ "actor" \in Tasks /\ "supervisor" \in Tasks /\ Dialers \subseteq Tasks
  BY DEF Background, Tasks, Dialers
<1>3. \A c \in Conns : Live(c)' => conn'[c] = conn[c] /\ conn[c].stage = "held"
  BY <1>1, <1>2 DEF Live, NoConn, IInv, HoldsStream
<1>4. SoleStream'
  BY <1>3 DEF StreamInv, SoleStream, Live, Kept
<1>5. UserDialled'
  BY <1>1, <1>2 DEF Shutdown, StreamInv, UserDialled, Busy
<1>6. Undialled'
  BY <1>1, <1>2 DEF Shutdown, StreamInv, Undialled, Busy
<1>7. KnownUp'
  BY DEF Shutdown, KnownUp
<1>8. OwnEntry'
  BY <1>3 DEF OwnEntry, Serving, Live
<1>9. DialledOut'
  <2> SUFFICES ASSUME NEW t \in Dialers, at'[t] = "connected"
               PROVE  conn'[held'[t]].remote \notin Callers
    BY DEF DialledOut
  <2>1. t \in survivors /\ at[t] = "connected" /\ held[t] \in Conns
    BY <1>1, <1>2 DEF IInv, HoldsStream
  <2>2. conn'[held[t]] = conn[held[t]] /\ held' = held
    BY <1>1, <2>1 DEF Shutdown
  <2> QED BY <2>1, <2>2 DEF StreamInv, DialledOut
<1> QED BY <1>4, <1>5, <1>6, <1>7, <1>8, <1>9 DEF StreamInv

(* A new stream goes to a remote that has none, or to one that is not kept. *)
LEMMA OpenStreams ==
  ASSUME IInv, StreamInv,
         NEW t \in Tasks, NEW c \in Conns, NEW r \in Remotes,
         at[t] \in {"waiting", "dialing"}, Free(c),
         conn' = [conn EXCEPT ![c] = Open(r)],
         held' = [held EXCEPT ![t] = c],
         at' = [at EXCEPT ![t] = "connected"],
         UNCHANGED <<mode, boot, desired, peers, addr, pending, inbox>>,
         Kept(r) => \A d \in Conns : Live(d) => conn[d].remote # r,
         t = "acceptor" => r \in Callers,
         t \in Dialers => at[t] = "dialing" /\ addr[t] \in Addresses /\ r = RemoteOf[addr[t]]
  PROVE  StreamInv'
<1>1. conn'[c].remote = r /\ conn'[c].stage = "held" /\ ~Live(c)
  BY DEF IInv, TypeOK, Open, NoConn, Free, Live
<1>2. \A d \in Conns : d # c => conn'[d] = conn[d]
  BY DEF IInv, TypeOK
<1>3. /\ at'[t] = "connected" /\ held'[t] = c
      /\ \A u \in Tasks : u # t => at'[u] = at[u] /\ held'[u] = held[u]
  BY DEF IInv, TypeOK
<1>4. "actor" \in Tasks /\ "supervisor" \in Tasks /\ Dialers \subseteq Tasks
      /\ "supervisor" \in Dialers /\ "actor" \in Dialers /\ t \in Dialers \cup {"acceptor"}
  BY DEF Tasks, Dialers
<1>5. \A a \in Addresses : RemoteOf[a] \notin Callers
  BY ConstantsOK
<1>6. SoleStream'
  BY <1>1, <1>2 DEF StreamInv, SoleStream, Live, Kept
<1>7. UserDialled'
  BY <1>3, <1>4 DEF StreamInv, UserDialled, Busy
<1>8. \A a \in Addresses : Kept(RemoteOf[a]) /\ RemoteOf[a] = r =>
        t = "supervisor" /\ addr["supervisor"] = a
  <2> SUFFICES ASSUME NEW a \in Addresses, Kept(RemoteOf[a]), RemoteOf[a] = r
               PROVE  t = "supervisor" /\ addr["supervisor"] = a
    OBVIOUS
  <2>1. t \in Dialers /\ addr[t] = a
    BY <1>4, <1>5 DEF Kept
  <2>2. t # "actor"
    BY <2>1 DEF StreamInv, UserDialled, Kept, Busy
  <2> QED BY <2>1, <2>2 DEF Dialers
<1>9. Undialled'
  <2> SUFFICES ASSUME NEW a \in Addresses, Kept(RemoteOf[a])
               PROVE  /\ a \in pending' \/ (at'["supervisor"] = "dialing" /\ addr'["supervisor"] = a)
                           => \A d \in Conns : Live(d)' => conn'[d].remote # RemoteOf[a]
                      /\ at'["supervisor"] \in Busy /\ addr'["supervisor"] = a => a \notin pending'
    BY DEF Undialled, Kept
  <2>1. at'["supervisor"] \in Busy /\ addr'["supervisor"] = a => a \notin pending'
    BY <1>3, <1>4 DEF StreamInv, Undialled, Busy
  <2>2. ASSUME a \in pending' \/ (at'["supervisor"] = "dialing" /\ addr'["supervisor"] = a),
               NEW d \in Conns, Live(d)', conn'[d].remote = RemoteOf[a]
        PROVE  FALSE
    <3>1. CASE d = c
      BY <1>1, <1>3, <1>8, <2>1, <2>2, <3>1 DEF Busy
    <3>2. CASE d # c
      BY <1>2, <1>3, <1>4, <2>2, <3>2 DEF StreamInv, Undialled, Live
    <3> QED BY <3>1, <3>2
  <2> QED BY <2>1, <2>2
<1>10. KnownUp'
  <2> SUFFICES ASSUME mode' # "closed", NEW d \in Conns, NEW a \in Addresses,
                      Live(d)', conn'[d].remote = RemoteOf[a], Kept(RemoteOf[a])
               PROVE  \/ desired'[a].resolved = RemoteOf[a]
                      \/ /\ at'["supervisor"] \in {"connected", "announcing"}
                         /\ addr'["supervisor"] = a
    BY DEF KnownUp, Kept
  <2>1. CASE d = c
    BY <1>1, <1>3, <1>8, <2>1
  <2>2. CASE d # c
    <3>1. Live(d) /\ conn[d].remote = RemoteOf[a]
      BY <1>2, <2>2 DEF Live
    <3> QED BY <3>1, <1>3, <1>4 DEF StreamInv, KnownUp
  <2> QED BY <2>1, <2>2
<1>11. OwnEntry'
  BY <1>1, <1>2 DEF StreamInv, OwnEntry, Serving, Kept
<1>12. DialledOut'
  <2> SUFFICES ASSUME NEW u \in Dialers, at'[u] = "connected"
               PROVE  conn'[held'[u]].remote \notin Callers
    BY DEF DialledOut
  <2>1. CASE u = t
    BY <1>1, <1>3, <1>5, <2>1
  <2>2. CASE u # t
    <3>1. at[u] = "connected" /\ held'[u] = held[u] /\ held[u] \in Conns /\ held[u] # c
      BY <1>3, <1>4, <2>2 DEF IInv, HoldsStream, Free
    <3> QED BY <1>2, <3>1 DEF StreamInv, DialledOut
  <2> QED BY <2>1, <2>2
<1> QED BY <1>6, <1>7, <1>9, <1>10, <1>11, <1>12 DEF StreamInv

(* The three ways a dial or an accept can end.                             *)
LEMMA DialStreams ==
  ASSUME IInv, StreamInv, \/ \E t \in Dialers : DialOk(t) \/ DialFails(t)
                          \/ \E r \in Callers : Accept(r)
  PROVE  StreamInv'
<1>1. ASSUME NEW t \in Dialers, DialOk(t) PROVE StreamInv'
  <2>1. t \in Tasks /\ addr[t] \in Addresses /\ RemoteOf[addr[t]] \in Remotes /\ at[t] = "dialing"
    BY <1>1, ConstantsOK DEF DialOk, Dialers, Tasks, IInv, DiallerHasAddress
  <2>2. Kept(RemoteOf[addr[t]]) =>
          \A d \in Conns : Live(d) => conn[d].remote # RemoteOf[addr[t]]
    <3>1. CASE t = "actor"
      BY <2>1, <3>1 DEF StreamInv, UserDialled, Kept, Busy
    <3>2. CASE t = "supervisor"
      BY <2>1, <3>2 DEF StreamInv, Undialled
    <3> QED BY <3>1, <3>2 DEF Dialers
  <2>3. t # "acceptor"
    BY DEF Dialers
  <2> QED BY <1>1, <2>1, <2>2, <2>3, OpenStreams DEF DialOk, NextFree
<1>2. ASSUME NEW t \in Dialers, DialFails(t) PROVE StreamInv'
  <2>1. \A u \in Tasks : at'[u] \in Busy => at'[u] = at[u] /\ addr'[u] = addr[u]
    BY <1>2 DEF DialFails, IInv, TypeOK, Busy, Dialers, Tasks
  <2>2. "actor" \in Tasks /\ "supervisor" \in Tasks /\ Dialers \subseteq Tasks
    BY DEF Tasks, Dialers
  <2>3. UNCHANGED <<mode, boot, desired, peers, conn, held, pending, inbox>>
    BY <1>2 DEF DialFails
  <2>4. SoleStream' /\ OwnEntry'
    BY <2>3 DEF StreamInv, SoleStream, OwnEntry, Kept, Live
  <2>5. UserDialled'
    BY <2>1, <2>2, <2>3 DEF StreamInv, UserDialled
  <2>6. Undialled'
    BY <2>1, <2>2, <2>3 DEF StreamInv, Undialled, Kept, Live, Busy
  <2>7. KnownUp'
    <3>1. at["supervisor"] \in {"connected", "announcing"} =>
            at'["supervisor"] = at["supervisor"] /\ addr'["supervisor"] = addr["supervisor"]
      BY <1>2 DEF DialFails, IInv, TypeOK, Tasks, Dialers
    <3> QED BY <2>3, <3>1 DEF StreamInv, KnownUp, Kept, Live
  <2>8. DialledOut'
    BY <2>1, <2>2, <2>3 DEF StreamInv, DialledOut, Busy
  <2> QED BY <2>4, <2>5, <2>6, <2>7, <2>8 DEF StreamInv
<1>3. ASSUME NEW r \in Callers, Accept(r) PROVE StreamInv'
  <2>1. "acceptor" \in Tasks /\ "acceptor" \notin Dialers /\ r \in Remotes
    BY DEF Tasks, Dialers, Remotes
  <2> QED BY <1>3, <2>1, OpenStreams DEF Accept, NextFree
<1> QED BY <1>1, <1>2, <1>3

(* The registration of a remote's one connection.                          *)
LEMMA InsertStreams == ASSUME NEW t \in Tasks, IInv, StreamInv, Insert(t) PROVE StreamInv'
<1> DEFINE h == held[t]
<1>1. h \in Conns /\ conn[h].stage = "held" /\ conn[h].remote \in Remotes /\ at[t] = "connected"
  BY DEF Insert, IInv, HoldsStream, OpenHasRemote
<1>2. conn'[h].stage = "reading" /\ \A c \in Conns : conn'[c].remote = conn[c].remote
  BY <1>1 DEF Insert, IInv, TypeOK
<1>3. \A c \in Conns : c # h => conn'[c].stage = conn[c].stage
  BY <1>1 DEF Insert, IInv, TypeOK
<1>4. /\ peers'[conn[h].remote].conn = h
      /\ \A r \in Remotes : r # conn[h].remote => peers'[r] = peers[r]
  BY <1>1 DEF Insert, IInv, TypeOK
<1>5. /\ at'[t] = "announcing" /\ \A u \in Tasks : u # t => at'[u] = at[u]
      /\ UNCHANGED <<mode, boot, desired, addr, held, pending>>
  BY DEF Insert, IInv, TypeOK
<1> HIDE DEF h
<1>6. "actor" \in Tasks /\ "supervisor" \in Tasks /\ Dialers \subseteq Tasks
  BY DEF Tasks, Dialers
<1>7. \A c \in Conns : Live(c)' => Live(c)
  BY <1>1, <1>2, <1>3 DEF Live
<1>8. SoleStream'
  BY <1>2, <1>7 DEF StreamInv, SoleStream, Kept
<1>9. UserDialled'
  BY <1>1, <1>5, <1>6 DEF StreamInv, UserDialled, Busy
<1>10. Undialled'
  BY <1>1, <1>2, <1>5, <1>6, <1>7 DEF StreamInv, Undialled, Kept, Busy
<1>11. KnownUp'
  BY <1>2, <1>5, <1>6, <1>7 DEF StreamInv, KnownUp, Kept
<1>12. OwnEntry'
  <2> SUFFICES ASSUME NEW c \in Conns, conn'[c].stage \in Serving, Kept(conn'[c].remote)
               PROVE  peers'[conn'[c].remote].conn = c
    BY DEF OwnEntry, Kept
  <2>1. CASE c = h
    BY <1>2, <1>4, <2>1
  <2>2. CASE c # h
    <3>1. conn[c].stage \in Serving /\ Live(c) /\ Live(h) /\ conn[c].remote \in Remotes
      BY <1>1, <1>3, <2>2 DEF Live, Serving, IInv, OpenHasRemote
    <3>2. conn[c].remote # conn[h].remote
      BY <1>1, <1>2, <2>2, <3>1 DEF StreamInv, SoleStream
    <3> QED BY <1>2, <1>4, <3>1, <3>2 DEF StreamInv, OwnEntry
  <2> QED BY <2>1, <2>2
<1>13. DialledOut'
  <2> SUFFICES ASSUME NEW u \in Dialers, at'[u] = "connected"
               PROVE  conn'[held'[u]].remote \notin Callers
    BY DEF DialledOut
  <2>1. at[u] = "connected" /\ held[u] \in Conns /\ held'[u] = held[u]
    BY <1>5, <1>6 DEF IInv, HoldsStream
  <2> QED BY <1>2, <2>1 DEF StreamInv, DialledOut
<1> QED BY <1>8, <1>9, <1>10, <1>11, <1>12, <1>13 DEF StreamInv

(* mark_resolved comes before the supervisor looks at another address.     *)
LEMMA AnnouncedStreams == ASSUME NEW t \in Tasks, IInv, StreamInv, Announced(t) PROVE StreamInv'
<1>1. /\ at[t] = "announcing" /\ at'[t] \in {"waiting", "off"}
      /\ \A u \in Tasks : u # t => at'[u] = at[u] /\ addr'[u] = addr[u] /\ held'[u] = held[u]
      /\ UNCHANGED <<mode, boot, peers, conn, pending>>
  BY DEF Announced, IInv, TypeOK
<1>2. "actor" \in Tasks /\ "supervisor" \in Tasks /\ Dialers \subseteq Tasks
  BY DEF Tasks, Dialers
<1>3. \A a \in Addresses :
        \/ desired'[a].resolved = desired[a].resolved
        \/ desired'[a].resolved = RemoteOf[a]
  BY DEF Announced, MarkResolved, IInv, TypeOK, DiallerHasAddress
<1>4. t = "supervisor" => desired'[addr["supervisor"]].resolved = RemoteOf[addr["supervisor"]]
  BY DEF Announced, MarkResolved, IInv, TypeOK, DiallerHasAddress, Dialers
<1>5. SoleStream' /\ OwnEntry'
  BY <1>1 DEF StreamInv, SoleStream, OwnEntry, Kept, Live
<1>6. UserDialled'
  BY <1>1, <1>2 DEF StreamInv, UserDialled, Busy
<1>7. Undialled'
  BY <1>1, <1>2 DEF StreamInv, Undialled, Kept, Live, Busy
<1>8. KnownUp'
  BY <1>1, <1>2, <1>3, <1>4 DEF StreamInv, KnownUp, Kept, Live
<1>9. DialledOut'
  BY <1>1, <1>2 DEF StreamInv, DialledOut
<1> QED BY <1>5, <1>6, <1>7, <1>8, <1>9 DEF StreamInv

(* What a reader does while it serves leaves its stream and the connections *)
(* in the entries as they are.                                              *)
LEMMA ReaderStreams ==
  ASSUME NEW c \in Conns, IInv, StreamInv,
         Hello(c) \/ Traffic(c) \/ Delivered(c) \/ Keepalive(c) \/ PeerCloses(c)
  PROVE  StreamInv'
<1>1. \A d \in Conns : /\ conn'[d].remote = conn[d].remote
                       /\ conn[d].stage \in Serving <=> conn'[d].stage \in Serving
                       /\ conn[d].stage \notin Serving => conn'[d].stage = conn[d].stage
  BY DEF Hello, Traffic, Delivered, Keepalive, PeerCloses, Serving, IInv, TypeOK
<1>2. \A r \in Remotes : peers'[r].conn = peers[r].conn
  <2>1. peers \in [Remotes -> [conn : Conns \cup {0}, named : BOOLEAN, keepalive : BOOLEAN]]
    BY DEF IInv, TypeOK
  <2>2. CASE Hello(c)
    BY <2>1, <2>2 DEF Hello
  <2>3. CASE Traffic(c) \/ Delivered(c) \/ PeerCloses(c)
    BY <2>3 DEF Traffic, Delivered, PeerCloses
  <2>4. CASE Keepalive(c)
    BY <2>1, <2>4 DEF Keepalive
  <2> QED BY <2>2, <2>3, <2>4
<1>3. UNCHANGED <<mode, boot, desired, at, addr, held, pending>>
  BY DEF Hello, Traffic, Delivered, Keepalive, PeerCloses
<1>4. \A d \in Conns : Live(d)' => Live(d)
  BY <1>1 DEF Live, Serving
<1>5. SoleStream' /\ Undialled'
  BY <1>1, <1>3, <1>4, StreamsKept
<1>6. UserDialled'
  BY <1>3 DEF StreamInv, UserDialled
<1>7. KnownUp'
  BY <1>1, <1>3, <1>4 DEF StreamInv, KnownUp, Kept
<1>8. OwnEntry'
  <2> SUFFICES ASSUME NEW d \in Conns, conn'[d].stage \in Serving, Kept(conn'[d].remote)
               PROVE  peers'[conn'[d].remote].conn = d
    BY DEF OwnEntry, Kept
  <2>1. conn[d].stage \in Serving /\ conn[d].remote \in Remotes
    BY <1>1 DEF IInv, OpenHasRemote, Serving
  <2> QED BY <1>1, <1>2, <2>1 DEF StreamInv, OwnEntry
<1>9. DialledOut'
  BY <1>1, <1>3 DEF IInv, HoldsStream, StreamInv, DialledOut, Dialers, Tasks
<1> QED BY <1>5, <1>6, <1>7, <1>8, <1>9 DEF StreamInv

(* The end of read_loop: its entry goes first, its addresses next.         *)
LEMMA EndStreams ==
  ASSUME NEW c \in Conns, IInv, StreamInv, ReaderEnds(c) \/ ClearResolved(c) \/ ReportGone(c)
  PROVE  StreamInv'
<1>1. conn[c].stage \in {"reading", "clearing", "reporting"} /\ conn[c].remote \in Remotes
  BY DEF ReaderEnds, ClearResolved, ReportGone, IInv, OpenHasRemote
<1>2. \A d \in Conns : d # c => conn'[d] = conn[d]
  BY DEF ReaderEnds, ClearResolved, ReportGone, IInv, TypeOK
<1>3. /\ conn'[c].stage \in {"clearing", "reporting", "free"}
      /\ Live(c)' => Live(c) /\ conn'[c].remote = conn[c].remote
  <2>1. CASE ReaderEnds(c)
    BY <2>1 DEF ReaderEnds, Live, IInv, TypeOK
  <2>2. CASE ClearResolved(c)
    BY <2>2 DEF ClearResolved, Live, IInv, TypeOK
  <2>3. CASE ReportGone(c)
    BY <2>3 DEF ReportGone, NoConn, Live, IInv, TypeOK
  <2> QED BY <2>1, <2>2, <2>3
<1>4. UNCHANGED <<mode, boot, at, addr, pending>>
  BY DEF ReaderEnds, ClearResolved, ReportGone
<1>5. \A t \in Tasks : at[t] = "connected" => held'[t] = held[t] /\ held[t] # c /\ held[t] \in Conns
  BY <1>1 DEF ReaderEnds, ClearResolved, ReportGone, IInv, TypeOK, HoldsStream
<1>6. SoleStream' /\ Undialled'
  BY <1>2, <1>3, <1>4, StreamsKept DEF Live
<1>7. UserDialled'
  BY <1>4 DEF StreamInv, UserDialled
<1>8. KnownUp'
  <2> SUFFICES ASSUME mode' # "closed", NEW d \in Conns, NEW a \in Addresses,
                      Live(d)', conn'[d].remote = RemoteOf[a], Kept(RemoteOf[a])
               PROVE  \/ desired'[a].resolved = RemoteOf[a]
                      \/ /\ at'["supervisor"] \in {"connected", "announcing"}
                         /\ addr'["supervisor"] = a
    BY DEF KnownUp, Kept
  <2>1. Live(d) /\ conn[d].remote = RemoteOf[a]
    BY <1>2, <1>3 DEF Live
  <2>2. CASE ReaderEnds(c) \/ ReportGone(c)
    BY <1>4, <2>1, <2>2 DEF ReaderEnds, ReportGone, StreamInv, KnownUp
  <2>3. CASE ClearResolved(c)
    <3>1. d # c /\ Live(c)
      BY <2>3 DEF ClearResolved, Live, IInv, TypeOK
    <3>2. conn[c].remote # RemoteOf[a]
      BY <2>1, <3>1 DEF StreamInv, SoleStream
    <3>3. desired[a].resolved = RemoteOf[a] => desired'[a].resolved = RemoteOf[a]
      BY <2>3, <3>2 DEF ClearResolved, IInv, TypeOK
    <3> QED BY <1>4, <2>1, <3>3 DEF StreamInv, KnownUp
  <2> QED BY <2>2, <2>3
<1>9. OwnEntry'
  <2> SUFFICES ASSUME NEW d \in Conns, conn'[d].stage \in Serving, Kept(conn'[d].remote)
               PROVE  peers'[conn'[d].remote].conn = d
    BY DEF OwnEntry, Kept
  <2>1. d # c /\ conn'[d] = conn[d] /\ conn[d].remote \in Remotes
    BY <1>2, <1>3 DEF Serving, IInv, OpenHasRemote
  <2>2. peers[conn[d].remote].conn = d
    BY <2>1 DEF StreamInv, OwnEntry
  <2>3. CASE ReaderEnds(c)
    <3>1. conn[d].remote # conn[c].remote
      BY <2>1, <2>3 DEF ReaderEnds, Live, Serving, StreamInv, SoleStream
    <3>2. peers'[conn[d].remote] = peers[conn[d].remote]
      BY <2>1, <2>3, <3>1 DEF ReaderEnds, IInv, TypeOK
    <3> QED BY <2>1, <2>2, <3>2
  <2>4. CASE ClearResolved(c) \/ ReportGone(c)
    BY <2>1, <2>2, <2>4 DEF ClearResolved, ReportGone
  <2> QED BY <2>3, <2>4
<1>10. DialledOut'
  BY <1>2, <1>4, <1>5 DEF StreamInv, DialledOut, Dialers, Tasks
<1> QED BY <1>6, <1>7, <1>8, <1>9, <1>10 DEF StreamInv

LEMMA NextStreams == IInv /\ StreamInv /\ [Next]_vars => StreamInv'
<1> SUFFICES ASSUME IInv, StreamInv, [Next]_vars PROVE StreamInv'
  OBVIOUS
<1>1. CASE UNCHANGED vars
  BY <1>1 DEF vars, StreamInv, SoleStream, UserDialled, Undialled, KnownUp, OwnEntry,
     DialledOut, Kept, Live
<1>2. CASE Next
  BY <1>2, ActorStreams, ShutdownStreams, DialStreams, InsertStreams, AnnouncedStreams,
     ReaderStreams, EndStreams DEF Next
<1> QED BY <1>1, <1>2

-----------------------------------------------------------------------------
(* The slots                                                               *)
(*                                                                         *)
(* A socket that was let in and is not registered yet takes a slot too:    *)
(* only so does the limit survive the registration.                        *)
Inbound == {c \in Conns : conn[c].remote \in Callers /\ conn[c].stage \in Serving}
LetIn == {c \in Conns : at["acceptor"] = "connected" /\ held["acceptor"] = c}
SlotsLimited == Cardinality(Inbound \cup LetIn) <= MaxConnections

SlotInv == IInv /\ StreamInv /\ SlotsLimited

LEMMA ConnsFinite == IsFiniteSet(Conns) /\ \A S \in SUBSET Conns : IsFiniteSet(S)
<1>1. IsFiniteSet(Conns)
  BY ConstantsOK, FS_Interval DEF Conns
<1> QED BY <1>1, FS_Subset

(* The registry has at most one serves for each connection.                 *)
LEMMA ConnectedFinite == IInv => IsFiniteSet(Connected)
<1> SUFFICES ASSUME IInv PROVE IsFiniteSet(Connected)
  OBVIOUS
<1> DEFINE serves == [r \in Connected |-> peers[r].conn]
<1>1. \A r \in Connected : serves[r] \in Conns /\ conn[serves[r]].remote = r
  BY DEF Connected, IInv, TypeOK, EntryHasReader
<1>2. serves \in [Connected -> Conns] /\ \A q, r \in Connected : serves[q] = serves[r] => q = r
  <2>1. serves \in [Connected -> Conns]
    BY <1>1
  <2> HIDE DEF serves
  <2> QED BY <1>1, <2>1
<1> HIDE DEF serves
<1>3. serves \in Injection(Connected, Conns)
  BY <1>2 DEF Injection, IsInjective
<1> QED BY <1>3, ConnsFinite, FS_Injection

(* Each caller being served has an entry of its own, so the registry the   *)
(* limit is compared with counts it.                                       *)
LEMMA InboundCounted ==
  IInv /\ StreamInv => Cardinality(Inbound) <= Cardinality(Connected)
<1> SUFFICES ASSUME IInv, StreamInv PROVE Cardinality(Inbound) <= Cardinality(Connected)
  OBVIOUS
<1> DEFINE place == [c \in Inbound |-> conn[c].remote]
<1>1. \A r \in Callers : Kept(r)
  BY ConstantsOK DEF Kept
<1>2. \A c \in Inbound : place[c] \in Remotes /\ peers[place[c]].conn = c /\ c # 0
  BY <1>1 DEF Inbound, StreamInv, OwnEntry, Remotes, Conns
<1>3. place \in [Inbound -> Connected]
  BY <1>2 DEF Connected
<1>4. \A b, c \in Inbound : place[b] = place[c] => b = c
  <2> HIDE DEF place
  <2> QED BY <1>2
<1> HIDE DEF place
<1>5. place \in Injection(Inbound, Connected)
  BY <1>3, <1>4 DEF Injection, IsInjective
<1> QED BY <1>5, ConnectedFinite, FS_Injection

(* Every step but an accept takes no slot that was not taken.              *)
LEMMA NoMoreSlots ==
  ASSUME SlotsLimited,
         \A c \in Conns : conn'[c].remote \in Callers /\ conn'[c].stage \in Serving =>
           \/ conn[c].remote \in Callers /\ conn[c].stage \in Serving
           \/ at["acceptor"] = "connected" /\ held["acceptor"] = c,
         at'["acceptor"] = "connected" =>
           at["acceptor"] = "connected" /\ held'["acceptor"] = held["acceptor"]
  PROVE  SlotsLimited'
<1>1. Inbound' \subseteq Inbound \cup LetIn /\ LetIn' \subseteq LetIn
  BY DEF Inbound, LetIn
<1>2. IsFiniteSet(Inbound \cup LetIn) /\ Inbound \cup LetIn \subseteq Conns
  BY ConnsFinite DEF Inbound, LetIn
<1>3. Cardinality(Inbound' \cup LetIn') <= Cardinality(Inbound \cup LetIn)
  BY <1>1, <1>2, FS_Subset
<1>4. Cardinality(Inbound \cup LetIn) \in Nat /\ Cardinality(Inbound' \cup LetIn') \in Nat
  BY <1>1, <1>2, FS_Subset, FS_CardinalityType
<1> QED BY <1>3, <1>4, ConstantsOK DEF SlotsLimited

(* An accept takes one, when the registry has one to give.                 *)
LEMMA AcceptTakesOne ==
  ASSUME NEW r \in Callers, IInv, StreamInv, Accept(r) PROVE SlotsLimited'
<1>1. PICK c \in Conns : /\ NextFree(c)
                         /\ conn' = [conn EXCEPT ![c] = Open(r)]
                         /\ held' = [held EXCEPT !["acceptor"] = c]
  BY DEF Accept
<1>2. conn'[c].stage = "held" /\ \A d \in Conns : d # c => conn'[d] = conn[d]
  BY <1>1 DEF IInv, TypeOK, Open, NoConn
<1>3. conn[c].stage = "free" /\ held'["acceptor"] = c
  BY <1>1 DEF NextFree, Free, IInv, TypeOK, Tasks
<1>4. Inbound' = Inbound
  BY <1>2, <1>3 DEF Inbound, Serving
<1>5. LetIn' \subseteq {c}
  BY <1>3 DEF LetIn
<1>6. IsFiniteSet(Inbound) /\ Cardinality(Inbound) \in Nat
  BY ConnsFinite, FS_CardinalityType DEF Inbound
<1>7. Cardinality(Inbound) < MaxConnections
  <2>1. Cardinality(Connected) \in Nat
    BY ConnectedFinite, FS_CardinalityType
  <2> QED BY <1>6, <2>1, InboundCounted, ConstantsOK DEF Accept
<1>8. /\ IsFiniteSet(Inbound \cup {c})
      /\ Cardinality(Inbound \cup {c}) \in {Cardinality(Inbound), Cardinality(Inbound) + 1}
  BY <1>6, FS_AddElement
<1>9. /\ Cardinality(Inbound' \cup LetIn') <= Cardinality(Inbound \cup {c})
      /\ Cardinality(Inbound' \cup LetIn') \in Nat
  <2>1. Inbound' \cup LetIn' \in SUBSET (Inbound \cup {c})
    BY <1>4, <1>5
  <2> QED BY <1>8, <2>1, FS_Subset, FS_CardinalityType
<1> QED BY <1>6, <1>7, <1>8, <1>9, ConstantsOK DEF SlotsLimited

(* At the start no slot is taken.                                          *)
LEMMA InitSlots == Init => SlotsLimited
<1> SUFFICES ASSUME Init PROVE SlotsLimited
  OBVIOUS
<1>1. Inbound \cup LetIn = {}
  BY DEF Init, Inbound, LetIn, NoConn, Serving, Tasks
<1> QED BY <1>1, FS_EmptySet, ConstantsOK DEF SlotsLimited

LEMMA NextSlots == SlotInv /\ [Next]_vars => SlotsLimited'
<1> SUFFICES ASSUME SlotInv, [Next]_vars PROVE SlotsLimited'
  OBVIOUS
<1> USE DEF SlotInv
<1>1. CASE UNCHANGED vars
  BY <1>1, NoMoreSlots DEF vars
<1>2. CASE \/ \E a \in Addresses : Connect(a) \/ Redial(a)
           \/ Consume \/ DropInbox \/ Tick \/ \E t \in Dialers : DialFails(t)
  <2>1. UNCHANGED <<conn, held>> /\ at'["acceptor"] = at["acceptor"]
    BY <1>2 DEF Connect, Redial, Consume, DropInbox, Tick, DialFails, Dialers, Tasks, IInv, TypeOK
  <2> QED BY <2>1, NoMoreSlots
<1>3. CASE Shutdown
  <2>1. \A c \in Conns : conn'[c].stage \notin Serving
    BY <1>3 DEF Shutdown, Background, Tasks, NoConn, Serving, IInv, HoldsStream
  <2>2. at'["acceptor"] \in {"off", at["acceptor"]} /\ UNCHANGED held
    BY <1>3 DEF Shutdown, Tasks
  <2> QED BY <2>1, <2>2, NoMoreSlots
<1>4. ASSUME NEW t \in Dialers, DialOk(t) PROVE SlotsLimited'
  <2>1. t \in Tasks /\ t # "acceptor" /\ "acceptor" \in Tasks
    BY DEF Dialers, Tasks
  <2>2. at'["acceptor"] = at["acceptor"] /\ held'["acceptor"] = held["acceptor"]
    BY <1>4, <2>1 DEF DialOk, IInv, TypeOK
  <2>3. \A c \in Conns : conn'[c].stage \in Serving => conn'[c] = conn[c]
    BY <1>4 DEF DialOk, Open, NoConn, Serving, IInv, TypeOK
  <2> QED BY <2>2, <2>3, NoMoreSlots
<1>5. ASSUME NEW r \in Callers, Accept(r) PROVE SlotsLimited'
  BY <1>5, AcceptTakesOne
<1>6. ASSUME NEW t \in Tasks, Insert(t) PROVE SlotsLimited'
  <2>1. held[t] \in Conns /\ at[t] = "connected"
    BY <1>6 DEF Insert, IInv, HoldsStream
  <2>2. at'["acceptor"] = "connected" => at["acceptor"] = "connected"
    BY <1>6 DEF Insert, IInv, TypeOK, Tasks
  <2>3. \A c \in Conns : /\ conn'[c].remote = conn[c].remote
                         /\ c # held[t] => conn'[c] = conn[c]
    BY <1>6, <2>1 DEF Insert, IInv, TypeOK
  <2>4. conn[held[t]].remote \in Callers => t = "acceptor"
    BY <2>1 DEF StreamInv, DialledOut, Dialers, Tasks
  <2>5. UNCHANGED held
    BY <1>6 DEF Insert
  <2> QED BY <2>1, <2>2, <2>3, <2>4, <2>5, NoMoreSlots
<1>7. ASSUME NEW t \in Tasks, Announced(t) PROVE SlotsLimited'
  <2>1. at'["acceptor"] = "connected" =>
          at["acceptor"] = "connected" /\ held'["acceptor"] = held["acceptor"]
    BY <1>7 DEF Announced, IInv, TypeOK, Tasks
  <2>2. UNCHANGED conn
    BY <1>7 DEF Announced
  <2> QED BY <2>1, <2>2, NoMoreSlots
<1>8. ASSUME NEW c \in Conns,
             Hello(c) \/ Traffic(c) \/ Delivered(c) \/ Keepalive(c) \/ PeerCloses(c)
      PROVE  SlotsLimited'
  <2>1. \A d \in Conns : /\ conn'[d].remote = conn[d].remote
                         /\ conn'[d].stage \in Serving => conn[d].stage \in Serving
    BY <1>8 DEF Hello, Traffic, Delivered, Keepalive, PeerCloses, Serving, IInv, TypeOK
  <2>2. UNCHANGED <<at, held>>
    BY <1>8 DEF Hello, Traffic, Delivered, Keepalive, PeerCloses
  <2> QED BY <2>1, <2>2, NoMoreSlots
<1>9. ASSUME NEW c \in Conns, ReaderEnds(c) \/ ClearResolved(c) \/ ReportGone(c)
      PROVE  SlotsLimited'
  <2>1. \A d \in Conns : conn'[d].stage \in Serving => conn'[d] = conn[d]
    BY <1>9 DEF ReaderEnds, ClearResolved, ReportGone, NoConn, Serving, IInv, TypeOK
  <2>2. at' = at /\ (at["acceptor"] = "connected" => held'["acceptor"] = held["acceptor"])
    BY <1>9 DEF ReaderEnds, ClearResolved, ReportGone, IInv, TypeOK, HoldsStream, Tasks
  <2> QED BY <2>1, <2>2, NoMoreSlots
<1> QED BY <1>1, <1>2, <1>3, <1>4, <1>5, <1>6, <1>7, <1>8, <1>9 DEF Next

LEMMA AlwaysSlotInv == Spec => []SlotInv
<1>1. Init => SlotInv
  BY InitIInv, InitStreams, InitSlots DEF SlotInv
<1>2. SlotInv /\ [Next]_vars => SlotInv'
  BY NextIInv, NextStreams, NextSlots DEF SlotInv
<1> QED BY <1>1, <1>2, PTL DEF Spec

(* For any number of peers, addresses and connections, and whatever is      *)
(* dialled, accepted, dropped or cleared in between: a connection that is   *)
(* served has its entry, and the sockets let in never exceed the limit,     *)
(* although it is checked before they are registered.                       *)
THEOREM SlotsStayCounted == Spec => []SlotsAreCounted
<1>1. SlotInv => SlotsAreCounted
  <2> SUFFICES ASSUME SlotInv PROVE SlotsAreCounted
    OBVIOUS
  <2>1. ReaderHasEntry
    <3> SUFFICES ASSUME NEW c \in Conns, conn[c].stage \in Serving, Kept(conn[c].remote)
                 PROVE  Registered(c)
      BY DEF ReaderHasEntry, Kept
    <3>1. conn[c].remote \in Remotes
      BY DEF SlotInv, IInv, OpenHasRemote, Serving
    <3> QED BY <3>1 DEF SlotInv, StreamInv, OwnEntry, Registered
  <2>2. InboundLimited
    <3>1. Inbound \in SUBSET (Inbound \cup LetIn) /\ IsFiniteSet(Inbound \cup LetIn)
      BY ConnsFinite DEF Inbound, LetIn
    <3>2. /\ Cardinality(Inbound) <= Cardinality(Inbound \cup LetIn)
          /\ Cardinality(Inbound) \in Nat /\ Cardinality(Inbound \cup LetIn) \in Nat
      BY <3>1, FS_Subset, FS_CardinalityType
    <3> QED BY <3>2, ConstantsOK DEF SlotInv, SlotsLimited, InboundLimited, Inbound
  <2> QED BY <2>1, <2>2 DEF SlotsAreCounted, SlotInv, IInv
<1> QED BY <1>1, AlwaysSlotInv, PTL

-----------------------------------------------------------------------------
(* The keys of a pair                                                      *)

(* Of the frames on their way to an end that has recorded some kinds: is a kind *)
(* recorded when the i-th of them is read?                                  *)
Recorded(frames, kinds, kind, i) ==
  kind \in kinds \/ \E j \in 1..i - 1 : frames[j].kind = kind

(* What has been said of the greeting arrives before what is queued next, and *)
(* the greeting of a message that did not overtake it arrives before it.    *)
Ordered(frames, kinds, n) ==
  /\ \A k \in 1..n : Recorded(frames, kinds, Greeting[k], Len(frames) + 1)
  /\ \A i \in 1..Len(frames) : frames[i].kind = "message" /\ ~frames[i].early
       => Recorded(frames, kinds, "identity", i) /\ Recorded(frames, kinds, "ephemeral", i)

GreetingInv == \A c \in Links :
  Ordered(wire["sender"][c], heard["receiver"][c], said["sender"][c])

(* A connection that is not up carries nothing.                             *)
LinkInv == \A c \in Links : link[c] # "up" => \A e \in Ends : wire[e][c] = <<>>

KeysInv == KeysTypeOK /\ LinkInv /\ GreetingInv /\ SealedIsOpened

(* What was recorded still is, when the frames before are the same.         *)
LEMMA RecordedStill ==
  ASSUME NEW frames, NEW more, NEW kinds, NEW kind, NEW i \in Nat,
         \A j \in 1..i - 1 : more[j] = frames[j],
         Recorded(frames, kinds, kind, i)
  PROVE  Recorded(more, kinds, kind, i)
  BY DEF Recorded

(* The order at first; with one more frame, of the greeting or behind it; with *)
(* several messages behind it; and with one less, once it is recorded.      *)
LEMMA OrderedAtFirst == \A kinds : Ordered(<<>>, kinds, 0)
  BY DEF Ordered, Recorded

LEMMA OrderedGreeting ==
  ASSUME NEW frames \in Seq(Frame), NEW kinds, NEW n \in 0..2, Ordered(frames, kinds, n)
  PROVE  Ordered(Append(frames, [kind |-> Greeting[n + 1]]), kinds, n + 1)
  <1> DEFINE f == [kind |-> Greeting[n + 1]]
             more == Append(frames, f)
  <1>1. /\ Len(more) = Len(frames) + 1 /\ Len(frames) \in Nat
        /\ \A j \in 1..Len(frames) : more[j] = frames[j]
        /\ more[Len(frames) + 1] = f
    OBVIOUS
  <1>2. f.kind = Greeting[n + 1] /\ f.kind # "message"
    BY DEF Greeting
  <1> HIDE DEF f, more
  <1>3. ASSUME NEW k \in 1..n + 1 PROVE Recorded(more, kinds, Greeting[k], Len(more) + 1)
    <2>1. CASE k = n + 1
      BY <1>1, <1>2, <2>1 DEF Recorded
    <2>2. CASE k \in 1..n
      <3>1. Recorded(frames, kinds, Greeting[k], Len(frames) + 1)
        BY <2>2 DEF Ordered
      <3>2. Recorded(more, kinds, Greeting[k], Len(frames) + 1)
        BY <1>1, <3>1, RecordedStill
      <3> QED BY <1>1, <3>2 DEF Recorded
    <2>3. k = n + 1 \/ k \in 1..n
      BY Z3
    <2> QED BY <2>1, <2>2, <2>3
  <1>4. ASSUME NEW i \in 1..Len(more), more[i].kind = "message", ~more[i].early
        PROVE  Recorded(more, kinds, "identity", i) /\ Recorded(more, kinds, "ephemeral", i)
    <2>1. i \in 1..Len(frames) /\ more[i] = frames[i]
      BY <1>1, <1>2, <1>4
    <2>2. Recorded(frames, kinds, "identity", i) /\ Recorded(frames, kinds, "ephemeral", i)
      BY <1>4, <2>1 DEF Ordered
    <2>3. i \in Nat /\ \A j \in 1..i - 1 : more[j] = frames[j]
      BY <1>1, <2>1
    <2> QED BY <2>2, <2>3, RecordedStill
  <1> QED BY <1>3, <1>4 DEF Ordered, more, f

LEMMA OrderedBehind ==
  ASSUME NEW frames \in Seq(Frame), NEW kinds, NEW n \in 0..3, Ordered(frames, kinds, n),
         NEW more \in Seq(Frame),
         \A i \in 1..Len(more) : more[i].kind = "message" /\ ~more[i].early => n = 3
  PROVE  Ordered(frames \o more, kinds, n)
  <1> DEFINE all == frames \o more
  <1>1. /\ Len(all) = Len(frames) + Len(more) /\ Len(frames) \in Nat /\ Len(more) \in Nat
        /\ \A j \in 1..Len(frames) : all[j] = frames[j]
        /\ \A j \in 1..Len(more) : all[Len(frames) + j] = more[j]
    OBVIOUS
  <1> HIDE DEF all
  <1>2. ASSUME NEW k \in 1..n, NEW i \in Len(frames) + 1 .. Len(all) + 1
        PROVE  Recorded(all, kinds, Greeting[k], i)
    <2>1. Recorded(frames, kinds, Greeting[k], Len(frames) + 1)
      BY DEF Ordered
    <2> QED BY <1>1, <2>1 DEF Recorded
  <1>3. ASSUME NEW i \in 1..Len(all), all[i].kind = "message", ~all[i].early
        PROVE  Recorded(all, kinds, "identity", i) /\ Recorded(all, kinds, "ephemeral", i)
    <2>1. CASE i \in 1..Len(frames)
      <3>1. Recorded(frames, kinds, "identity", i) /\ Recorded(frames, kinds, "ephemeral", i)
        BY <1>1, <1>3, <2>1 DEF Ordered
      <3>2. i \in Nat /\ \A j \in 1..i - 1 : all[j] = frames[j]
        BY <1>1, <2>1
      <3> QED BY <3>1, <3>2, RecordedStill
    <2>2. CASE i \in Len(frames) + 1 .. Len(all)
      <3>1. i - Len(frames) \in 1..Len(more) /\ all[i] = more[i - Len(frames)]
        BY <1>1, <2>2
      <3>2. n = 3
        BY <1>3, <3>1
      <3>3. Greeting[2] = "identity" /\ Greeting[3] = "ephemeral" /\ 2 \in 1..n /\ 3 \in 1..n
        BY <3>2 DEF Greeting
      <3>4. i \in Len(frames) + 1 .. Len(all) + 1
        BY <1>1, <2>2
      <3>5. Recorded(all, kinds, Greeting[2], i)
        BY <1>2, <3>3, <3>4
      <3>6. Recorded(all, kinds, Greeting[3], i)
        BY <1>2, <3>3, <3>4
      <3> QED BY <3>3, <3>5, <3>6
    <2> QED BY <1>1, <2>1, <2>2
  <1>4. \A k \in 1..n : Recorded(all, kinds, Greeting[k], Len(all) + 1)
    BY <1>1, <1>2
  <1> QED BY <1>3, <1>4 DEF Ordered, all

LEMMA OrderedRead ==
  ASSUME NEW frames \in Seq(Frame), frames # <<>>, NEW kinds, NEW n \in 0..3,
         Ordered(frames, kinds, n),
         NEW now, kinds \subseteq now, Head(frames).kind \in now \/ Head(frames).kind = "message"
  PROVE  Ordered(Tail(frames), now, n)
  <1> DEFINE rest == Tail(frames)
  <1>1. /\ Len(rest) = Len(frames) - 1 /\ Len(frames) \in Nat /\ Len(frames) >= 1
        /\ \A j \in 1..Len(rest) : rest[j] = frames[j + 1]
        /\ Head(frames) = frames[1]
    OBVIOUS
  <1> HIDE DEF rest
  <1>2. ASSUME NEW kind, kind # "message", NEW i \in 1..Len(rest) + 1,
               Recorded(frames, kinds, kind, i + 1)
        PROVE  Recorded(rest, now, kind, i)
    <2>1. CASE kind \in kinds
      BY <2>1 DEF Recorded
    <2>2. CASE kind \notin kinds
      <3>1. PICK j \in 1..i : frames[j].kind = kind
        BY <1>1, <1>2, <2>2 DEF Recorded
      <3>2. CASE j = 1
        BY <1>1, <1>2, <3>1, <3>2 DEF Recorded
      <3>3. CASE j # 1
        <4>1. j - 1 \in 1..i - 1 /\ rest[j - 1] = frames[j]
          BY <1>1, <3>1, <3>3
        <4> QED BY <3>1, <4>1 DEF Recorded
      <3> QED BY <3>2, <3>3
    <2> QED BY <2>1, <2>2
  <1>3. \A k \in 1..n : Recorded(rest, now, Greeting[k], Len(rest) + 1)
    <2>1. \A k \in 1..n : Greeting[k] # "message"
      BY DEF Greeting
    <2>2. \A k \in 1..n : Recorded(frames, kinds, Greeting[k], Len(rest) + 1 + 1)
      BY <1>1 DEF Ordered
    <2> QED BY <1>1, <1>2, <2>1, <2>2
  <1>4. ASSUME NEW i \in 1..Len(rest), rest[i].kind = "message", ~rest[i].early
        PROVE  Recorded(rest, now, "identity", i) /\ Recorded(rest, now, "ephemeral", i)
    <2>1. i + 1 \in 1..Len(frames) /\ frames[i + 1] = rest[i]
      BY <1>1
    <2>2. Recorded(frames, kinds, "identity", i + 1) /\ Recorded(frames, kinds, "ephemeral", i + 1)
      BY <1>4, <2>1 DEF Ordered
    <2> QED BY <1>1, <1>2, <2>2
  <1> QED BY <1>3, <1>4 DEF Ordered, rest

(* What is queued is a frame; a frame of another kind than a greeting's is a message. *)
LEMMA FrameTyped ==
  /\ \A k \in Kinds : [kind |-> k] \in Frame
  /\ \A m \in Message, c \in Links : FrameOf(m, c) \in Frame
  /\ \A f \in Frame : f.kind = "message" =>
       f.id \in 1..MaxMsg /\ f.key \in Keys /\ f.early \in BOOLEAN
  BY DEF Frame, FrameOf, Message, Kinds, Greeted

LEMMA GreetingTyped == Len(Greeting) = 3 /\ \A n \in 0..2 : Greeting[n + 1] \in Kinds
  BY DEF Greeting, Kinds

(* What is on a wire, of a queue with one frame more or one less.           *)
LEMMA QueueTyped ==
  ASSUME NEW q \in Seq(Frame)
  PROVE  /\ \A f \in Frame : Append(q, f) \in Seq(Frame) /\ Append(q, f) = q \o <<f>>
                             /\ <<f>> \in Seq(Frame)
         /\ q # <<>> => Head(q) \in Frame /\ Tail(q) \in Seq(Frame)
  BY AppendProperties

(* The messages of the outbox, as the frames a flush queues.                *)
LEMMA FlushTyped ==
  ASSUME NEW ms \in Seq(Message), NEW c \in Links
  PROVE  /\ [i \in 1..Len(ms) |-> FrameOf(ms[i], c)] \in Seq(Frame)
         /\ Len([i \in 1..Len(ms) |-> FrameOf(ms[i], c)]) = Len(ms)
  <1>1. Len(ms) \in Nat /\ \A i \in 1..Len(ms) : FrameOf(ms[i], c) \in Frame
    BY FrameTyped
  <1> QED BY <1>1, IsASeq

(* An action that leaves the wires, what is recorded and what is read.      *)
LEMMA WiresKept ==
  ASSUME KeysInv, UNCHANGED <<heard, wire, said, got>>,
         \A c \in Links : link[c] = "up" => link'[c] = "up"
  PROVE  (LinkInv /\ GreetingInv /\ SealedIsOpened)'
  BY DEF KeysInv, LinkInv, GreetingInv, Ordered, Recorded, SealedIsOpened

LEMMA InitInv == KeysInit => KeysInv
  <1> SUFFICES ASSUME KeysInit PROVE KeysInv
    OBVIOUS
  <1>1. KeysTypeOK
    BY PairKeysAssumption DEF KeysInit, KeysTypeOK, Nothing
  <1>2. LinkInv
    BY DEF KeysInit, LinkInv
  <1>3. GreetingInv
    BY OrderedAtFirst DEF KeysInit, GreetingInv, Ends
  <1>4. SealedIsOpened
    BY DEF KeysInit, SealedIsOpened
  <1> QED BY <1>1, <1>2, <1>3, <1>4 DEF KeysInv

LEMMA QuietSteps ==
  ASSUME KeysInv, NEW e \in Ends, NEW c \in Links, Establish(c) \/ Register(e, c)
  PROVE  KeysInv'
  <1>1. CASE Establish(c)
    <2>1. KeysTypeOK'
      BY <1>1 DEF KeysInv, KeysTypeOK, Establish
    <2> QED BY <1>1, <2>1, WiresKept DEF KeysInv, KeysTypeOK, Establish
  <1>2. CASE Register(e, c)
    <2>1. KeysTypeOK'
      BY <1>2 DEF KeysInv, KeysTypeOK, Register
    <2> QED BY <1>2, <2>1, WiresKept DEF KeysInv, Register
  <1> QED BY <1>1, <1>2

LEMMA SealStep ==
  ASSUME KeysInv, Seal
  PROVE  KeysInv'
  <1>1. PICK key \in ContactKey("sender") : sealed' = [id |-> nextId, key |-> key]
    BY DEF Seal
  <1>2. key \in Keys
    <2>1. ASSUME NEW d \in Links
          PROVE  Head(KeysOf("sender", d) \o <<"session">>) \in Keys
      <3>1. KeysOf("sender", d) = <<>> \/ KeysOf("sender", d) = <<d, "static">>
            \/ KeysOf("sender", d) = <<"static">>
        BY DEF KeysOf
      <3>2. /\ Head(<<>> \o <<"session">>) = "session"
            /\ Head(<<d, "static">> \o <<"session">>) = d
            /\ Head(<<"static">> \o <<"session">>) = "static"
        OBVIOUS
      <3> QED BY <3>1, <3>2 DEF Keys
    <2> QED BY <1>1, <2>1 DEF ContactKey, Keys
  <1>3. nextId \in 1..MaxMsg /\ nextId' \in 1..MaxMsg + 1
    BY PairKeysAssumption DEF KeysInv, KeysTypeOK, Seal
  <1>4. KeysTypeOK'
    BY <1>1, <1>2, <1>3 DEF KeysInv, KeysTypeOK, Seal, Message
  <1>5. UNCHANGED <<link, heard, wire, said, got>>
    BY DEF Seal
  <1>6. (LinkInv /\ GreetingInv /\ SealedIsOpened)'
    BY <1>5, WiresKept
  <1> QED BY <1>4, <1>6 DEF KeysInv

LEMMA FailStep ==
  ASSUME KeysInv, NEW c \in Links, Fail(c)
  PROVE  KeysInv'
  <1> USE DEF KeysInv, Fail
  <1>1. KeysTypeOK'
    BY DEF KeysTypeOK, Ends
  <1>2. LinkInv'
    BY DEF KeysTypeOK, LinkInv, Ends
  <1>3. GreetingInv'
    <2> SUFFICES ASSUME NEW d \in Links
                 PROVE  Ordered(wire["sender"][d], heard["receiver"][d], said["sender"][d])'
      BY DEF GreetingInv
    <2>1. CASE d = c
      BY <2>1, OrderedAtFirst DEF KeysTypeOK, Ends
    <2>2. CASE d # c
      <3>1. /\ wire'["sender"][d] = wire["sender"][d]
            /\ heard'["receiver"][d] = heard["receiver"][d]
            /\ said'["sender"][d] = said["sender"][d]
        BY <2>2 DEF KeysTypeOK, Ends
      <3>2. Ordered(wire["sender"][d], heard["receiver"][d], said["sender"][d])
        BY DEF GreetingInv
      <3> QED BY <3>1, <3>2
    <2> QED BY <2>1, <2>2
  <1>4. SealedIsOpened'
    BY DEF SealedIsOpened
  <1> QED BY <1>1, <1>2, <1>3, <1>4

LEMMA ForgetStep ==
  ASSUME KeysInv, NEW c \in Links, Forget(c)
  PROVE  KeysInv'
  <1> USE DEF KeysInv, Forget
  <1>1. KeysTypeOK'
    BY DEF KeysTypeOK, Ends
  <1>2. heard'["receiver"] = heard["receiver"]
    BY DEF KeysTypeOK, Ends
  <1>3. GreetingInv' /\ LinkInv' /\ SealedIsOpened'
    BY <1>2 DEF GreetingInv, LinkInv, SealedIsOpened, Ordered, Recorded
  <1> QED BY <1>1, <1>3

LEMMA GreetStep ==
  ASSUME KeysInv, NEW e \in Ends, NEW c \in Links, Greet(e, c)
  PROVE  KeysInv'
  <1> USE DEF KeysInv
  <1> DEFINE f == [kind |-> Greeting[said[e][c] + 1]]
  <1>1. /\ said[e][c] \in 0..2 /\ f \in Frame /\ link[c] = "up"
        /\ said' = [said EXCEPT ![e][c] = @ + 1]
        /\ wire' = [wire EXCEPT ![e][c] = Append(@, f)]
        /\ UNCHANGED <<link, entry, heard, sealed, outbox, got, nextId, again>>
    BY GreetingTyped, FrameTyped DEF Greet, Greeted, KeysTypeOK
  <1> HIDE DEF f
  <1>2. KeysTypeOK'
    <2>1. Append(wire[e][c], f) \in Seq(Frame)
      BY <1>1, QueueTyped DEF KeysTypeOK
    <2>2. wire' \in [Ends -> [Links -> Seq(Frame)]]
      BY <1>1, <2>1 DEF KeysTypeOK
    <2>3. said' \in [Ends -> [Links -> 0..3]]
      BY <1>1 DEF KeysTypeOK
    <2> QED BY <1>1, <2>2, <2>3 DEF KeysTypeOK
  <1>3. LinkInv' /\ SealedIsOpened'
    BY <1>1 DEF KeysTypeOK, LinkInv, SealedIsOpened
  <1>4. GreetingInv'
    <2> SUFFICES ASSUME NEW d \in Links
                 PROVE  Ordered(wire["sender"][d], heard["receiver"][d], said["sender"][d])'
      BY DEF GreetingInv
    <2>1. Ordered(wire["sender"][d], heard["receiver"][d], said["sender"][d])
      BY DEF GreetingInv
    <2>2. CASE e = "sender" /\ d = c
      <3>1. wire'["sender"][d] = Append(wire["sender"][d], [kind |-> Greeting[said["sender"][d] + 1]])
            /\ said'["sender"][d] = said["sender"][d] + 1 /\ wire["sender"][d] \in Seq(Frame)
        BY <1>1, <2>2 DEF KeysTypeOK, Ends, f
      <3> QED BY <1>1, <2>1, <2>2, <3>1, OrderedGreeting
    <2>3. CASE ~(e = "sender" /\ d = c)
      <3>1. wire'["sender"][d] = wire["sender"][d] /\ said'["sender"][d] = said["sender"][d]
           /\ heard' = heard
        BY <1>1, <2>3 DEF KeysTypeOK, Ends
      <3> QED BY <2>1, <3>1
    <2> QED BY <2>2, <2>3
  <1> QED BY <1>2, <1>3, <1>4

(* The receiver's frames are no part of the order: what is queued there is no more *)
(* than a frame on a connection that is up.                                 *)
LEMMA SayAgainStep ==
  ASSUME KeysInv, SayAgain
  PROVE  KeysInv'
  <1> USE DEF KeysInv, SayAgain
  <1>1. wire' \in [Ends -> [Links -> Seq(Frame)]]
    <2>1. \A c \in Links : Append(wire["receiver"][c], [kind |-> "hello"]) \in Seq(Frame)
      BY FrameTyped, QueueTyped DEF KeysTypeOK, Ends, Kinds
    <2> QED BY <2>1 DEF KeysTypeOK, Ends
  <1>2. KeysTypeOK'
    BY <1>1, PairKeysAssumption DEF KeysTypeOK
  <1>3. wire'["sender"] = wire["sender"]
    BY DEF KeysTypeOK, Ends
  <1>4. LinkInv'
    BY DEF KeysTypeOK, LinkInv, Ends
  <1> QED BY <1>2, <1>3, <1>4 DEF GreetingInv, SealedIsOpened, Ordered, Recorded

LEMMA SendStep ==
  ASSUME KeysInv, Send
  PROVE  KeysInv'
  <1> USE DEF KeysInv
  <1> DEFINE named == {c \in Links : entry["sender"][c] /\ "hello" \in heard["sender"][c]}
             reached == {c \in named : link[c] = "up"}
  <1>1. /\ sealed \in Message /\ reached \subseteq Links
        /\ wire' = [wire EXCEPT !["sender"] = [c \in Links |->
             IF c \in reached THEN Append(wire["sender"][c], FrameOf(sealed, c))
             ELSE wire["sender"][c]]]
        /\ outbox' \in Seq(Message)
        /\ sealed' = Nothing
        /\ UNCHANGED <<link, entry, said, heard, got, nextId, again>>
        /\ \A c \in reached : link[c] = "up"
    BY DEF Send, KeysTypeOK
  <1> HIDE DEF named, reached
  <1>2. ASSUME NEW c \in Links
        PROVE  /\ FrameOf(sealed, c) \in Frame
               /\ Append(wire["sender"][c], FrameOf(sealed, c)) \in Seq(Frame)
               /\ <<FrameOf(sealed, c)>> \in Seq(Frame)
               /\ Append(wire["sender"][c], FrameOf(sealed, c))
                    = wire["sender"][c] \o <<FrameOf(sealed, c)>>
    <2>1. FrameOf(sealed, c) \in Frame /\ wire["sender"][c] \in Seq(Frame)
      BY <1>1, FrameTyped DEF KeysTypeOK, Ends
    <2> QED BY <2>1, QueueTyped
  <1>3. KeysTypeOK'
    <2>1. wire' \in [Ends -> [Links -> Seq(Frame)]]
      BY <1>1, <1>2 DEF KeysTypeOK, Ends
    <2> QED BY <1>1, <2>1 DEF KeysTypeOK
  <1>4. LinkInv' /\ SealedIsOpened'
    BY <1>1 DEF KeysTypeOK, LinkInv, SealedIsOpened, Ends
  <1>5. GreetingInv'
    <2> SUFFICES ASSUME NEW c \in Links
                 PROVE  Ordered(wire["sender"][c], heard["receiver"][c], said["sender"][c])'
      BY DEF GreetingInv
    <2>1. Ordered(wire["sender"][c], heard["receiver"][c], said["sender"][c])
      BY DEF GreetingInv
    <2>2. CASE c \in reached
      <3> DEFINE more == <<FrameOf(sealed, c)>>
      <3>1. wire'["sender"][c] = wire["sender"][c] \o more
        BY <1>1, <1>2, <2>2 DEF KeysTypeOK, Ends
      <3>2. \A i \in 1..Len(more) : more[i].kind = "message" /\ ~more[i].early
              => said["sender"][c] = 3
        <4>1. ~FrameOf(sealed, c).early => said["sender"][c] = 3
          BY GreetingTyped DEF FrameOf, Greeted
        <4>2. Len(more) = 1 /\ more[1] = FrameOf(sealed, c)
          OBVIOUS
        <4> HIDE DEF more
        <4> QED BY <4>1, <4>2
      <3>3. said["sender"][c] \in 0..3 /\ wire["sender"][c] \in Seq(Frame) /\ more \in Seq(Frame)
        BY <1>2 DEF KeysTypeOK, Ends
      <3> HIDE DEF more
      <3>4. Ordered(wire["sender"][c] \o more, heard["receiver"][c], said["sender"][c])
        BY <2>1, <3>2, <3>3, OrderedBehind
      <3> QED BY <1>1, <3>1, <3>4
    <2>3. CASE c \notin reached
      <3>1. /\ wire'["sender"][c] = wire["sender"][c]
            /\ UNCHANGED <<heard, said>>
        BY <1>1, <2>3 DEF KeysTypeOK, Ends
      <3> QED BY <2>1, <3>1
    <2> QED BY <2>2, <2>3
  <1> QED BY <1>3, <1>4, <1>5

(* The head of a wire is read from a connection that is up.                 *)
LEMMA ReadFromUp ==
  ASSUME KeysInv, NEW e \in Ends, NEW c \in Links, wire[e][c] # <<>>
  PROVE  link[c] = "up" /\ Head(wire[e][c]) \in Frame /\ Tail(wire[e][c]) \in Seq(Frame)
  <1>1. wire[e][c] \in Seq(Frame)
    BY DEF KeysInv, KeysTypeOK
  <1>2. link[c] = "up"
    BY DEF KeysInv, LinkInv
  <1> QED BY <1>1, <1>2, QueueTyped

LEMMA HearKeyStep ==
  ASSUME KeysInv, NEW e \in Ends, NEW c \in Links, HearKey(e, c)
  PROVE  KeysInv'
  <1> DEFINE o == Other(e)
             f == Head(wire[o][c])
  <1>1. /\ o \in Ends /\ wire[o][c] # <<>> /\ f.kind \in {"identity", "ephemeral"}
        /\ e # o /\ (e = "sender" => o = "receiver") /\ (e = "receiver" => o = "sender")
        /\ heard' = [heard EXCEPT ![e][c] = @ \cup {f.kind}]
        /\ wire' = [wire EXCEPT ![o][c] = Tail(@)]
        /\ UNCHANGED <<link, entry, said, sealed, outbox, got, nextId, again>>
    BY DEF HearKey, Other, Ends
  <1>2. link[c] = "up" /\ Tail(wire[o][c]) \in Seq(Frame) /\ f.kind \in Kinds
    BY <1>1, ReadFromUp DEF Kinds
  <1> HIDE DEF o, f
  <1>3. KeysTypeOK'
    <2>1. wire' \in [Ends -> [Links -> Seq(Frame)]]
      BY <1>1, <1>2 DEF KeysInv, KeysTypeOK
    <2>2. heard' \in [Ends -> [Links -> SUBSET Kinds]]
      BY <1>1, <1>2 DEF KeysInv, KeysTypeOK
    <2> QED BY <1>1, <2>1, <2>2 DEF KeysInv, KeysTypeOK
  <1>4. LinkInv' /\ SealedIsOpened'
    BY <1>1, <1>2 DEF KeysInv, KeysTypeOK, LinkInv, SealedIsOpened
  <1>5. GreetingInv'
    <2> SUFFICES ASSUME NEW d \in Links
                 PROVE  Ordered(wire["sender"][d], heard["receiver"][d], said["sender"][d])'
      BY DEF GreetingInv
    <2>1. Ordered(wire["sender"][d], heard["receiver"][d], said["sender"][d])
      BY DEF KeysInv, GreetingInv
    <2>2. CASE e = "receiver" /\ d = c
      <3>1. /\ wire'["sender"][d] = Tail(wire["sender"][d])
            /\ heard'["receiver"][d] = heard["receiver"][d] \cup {f.kind}
            /\ said' = said
        BY <1>1, <2>2 DEF KeysInv, KeysTypeOK, Ends
      <3>2. /\ wire["sender"][d] \in Seq(Frame) /\ wire["sender"][d] # <<>>
            /\ said["sender"][d] \in 0..3 /\ f = Head(wire["sender"][d])
        BY <1>1, <2>2 DEF KeysInv, KeysTypeOK, Ends, f
      <3>3. Ordered(Tail(wire["sender"][d]), heard["receiver"][d] \cup {f.kind}, said["sender"][d])
        BY <2>1, <3>2, OrderedRead
      <3> QED BY <3>1, <3>3
    <2>3. CASE ~(e = "receiver" /\ d = c)
      <3>1. /\ wire'["sender"][d] = wire["sender"][d]
            /\ heard'["receiver"][d] = heard["receiver"][d]
            /\ said' = said
        BY <1>1, <2>3 DEF KeysInv, KeysTypeOK, Ends
      <3> QED BY <2>1, <3>1
    <2> QED BY <2>2, <2>3
  <1> QED BY <1>3, <1>4, <1>5 DEF KeysInv

(* What a flush queues at the sender comes behind all it has said.          *)
LEMMA HearHelloStep ==
  ASSUME KeysInv, NEW e \in Ends, NEW c \in Links, HearHello(e, c)
  PROVE  KeysInv'
  <1> DEFINE o == Other(e)
             ms == IF e = "sender" THEN outbox ELSE <<>>
             more == [i \in 1..Len(ms) |-> FrameOf(ms[i], c)]
  <1>1. /\ o \in Ends /\ wire[o][c] # <<>> /\ Head(wire[o][c]).kind = "hello"
        /\ e # o /\ (e = "sender" => o = "receiver") /\ (e = "receiver" => o = "sender")
        /\ heard' = [heard EXCEPT ![e][c] = @ \cup {"hello"}]
        /\ wire' = [wire EXCEPT ![o][c] = Tail(@), ![e][c] = @ \o more]
        /\ outbox' = IF e = "sender" THEN <<>> ELSE outbox
        /\ UNCHANGED <<link, entry, said, sealed, got, nextId, again>>
    BY DEF HearHello, Other, Ends
  <1>2. link[c] = "up" /\ Tail(wire[o][c]) \in Seq(Frame)
    BY <1>1, ReadFromUp
  <1>3. ms \in Seq(Message)
    BY DEF KeysInv, KeysTypeOK
  <1>4. more \in Seq(Frame) /\ Len(more) = Len(ms)
    <2> HIDE DEF ms
    <2> QED BY <1>3, FlushTyped
  <1>5. \A i \in 1..Len(more) : more[i].kind = "message" /\ ~more[i].early
          => said["sender"][c] = 3
    <2> HIDE DEF ms
    <2>1. ASSUME NEW i \in 1..Len(more), ~more[i].early PROVE said["sender"][c] = 3
      BY <1>4, <2>1, GreetingTyped DEF FrameOf, Greeted
    <2> QED BY <2>1
  <1> HIDE DEF o, ms, more
  <1>6. KeysTypeOK'
    <2>1. wire[e][c] \o more \in Seq(Frame)
      <3>1. wire[e][c] \in Seq(Frame)
        BY DEF KeysInv, KeysTypeOK
      <3> QED BY <1>4, <3>1, ConcatProperties
    <2>2. wire' \in [Ends -> [Links -> Seq(Frame)]]
      BY <1>1, <1>2, <2>1 DEF KeysInv, KeysTypeOK
    <2>3. heard' \in [Ends -> [Links -> SUBSET Kinds]]
      BY <1>1 DEF KeysInv, KeysTypeOK, Kinds
    <2>4. outbox' \in Seq(Message)
      BY <1>1 DEF KeysInv, KeysTypeOK
    <2> QED BY <1>1, <2>2, <2>3, <2>4 DEF KeysInv, KeysTypeOK
  <1>7. LinkInv' /\ SealedIsOpened'
    BY <1>1, <1>2 DEF KeysInv, KeysTypeOK, LinkInv, SealedIsOpened
  <1>8. GreetingInv'
    <2> SUFFICES ASSUME NEW d \in Links
                 PROVE  Ordered(wire["sender"][d], heard["receiver"][d], said["sender"][d])'
      BY DEF GreetingInv
    <2>1. /\ Ordered(wire["sender"][d], heard["receiver"][d], said["sender"][d])
          /\ wire["sender"][d] \in Seq(Frame) /\ said["sender"][d] \in 0..3
      BY DEF KeysInv, GreetingInv, KeysTypeOK, Ends
    <2>2. CASE d = c /\ e = "receiver"
      <3>1. /\ wire'["sender"][d] = Tail(wire["sender"][d])
            /\ heard'["receiver"][d] = heard["receiver"][d] \cup {"hello"}
            /\ said' = said
        BY <1>1, <2>2 DEF KeysInv, KeysTypeOK, Ends
      <3>2. wire["sender"][d] # <<>> /\ Head(wire["sender"][d]).kind = "hello"
        BY <1>1, <2>2
      <3>3. Ordered(Tail(wire["sender"][d]), heard["receiver"][d] \cup {"hello"}, said["sender"][d])
        BY <2>1, <3>2, OrderedRead
      <3> QED BY <3>1, <3>3
    <2>3. CASE d = c /\ e = "sender"
      <3>1. /\ wire'["sender"][d] = wire["sender"][d] \o more
            /\ heard'["receiver"][d] = heard["receiver"][d]
            /\ said' = said
        BY <1>1, <2>3 DEF KeysInv, KeysTypeOK, Ends
      <3>2. Ordered(wire["sender"][d] \o more, heard["receiver"][d], said["sender"][d])
        BY <1>4, <1>5, <2>1, <2>3, OrderedBehind
      <3> QED BY <3>1, <3>2
    <2>4. CASE d # c
      <3>1. /\ wire'["sender"][d] = wire["sender"][d]
            /\ heard'["receiver"][d] = heard["receiver"][d]
            /\ said' = said
        BY <1>1, <2>4 DEF KeysInv, KeysTypeOK, Ends
      <3> QED BY <2>1, <3>1
    <2> QED BY <2>2, <2>3, <2>4 DEF Ends
  <1> QED BY <1>6, <1>7, <1>8 DEF KeysInv

(* A message behind the greeting is read with the greeting recorded, so the *)
(* receiver has the key of the connection and that of the identities.       *)
LEMMA HearMessageStep ==
  ASSUME KeysInv, NEW c \in Links, HearMessage(c)
  PROVE  KeysInv'
  <1> DEFINE m == Head(wire["sender"][c])
             copy == [id |-> m.id, key |-> m.key, via |-> c, early |-> m.early,
                      opened |-> Opens("receiver", c, m.key)]
  <1>1. /\ wire["sender"][c] # <<>> /\ m.kind = "message"
        /\ got' = got \cup {copy}
        /\ wire' = [wire EXCEPT !["sender"][c] = Tail(@)]
        /\ UNCHANGED <<link, entry, said, heard, sealed, outbox, nextId, again>>
    BY DEF HearMessage
  <1>2. /\ link[c] = "up" /\ m \in Frame /\ Tail(wire["sender"][c]) \in Seq(Frame)
    BY <1>1, ReadFromUp DEF Ends
  <1>3. m.id \in 1..MaxMsg /\ m.key \in Keys /\ m.early \in BOOLEAN
    BY <1>1, <1>2, FrameTyped
  <1>4. /\ wire["sender"][c] \in Seq(Frame) /\ said["sender"][c] \in 0..3
        /\ Ordered(wire["sender"][c], heard["receiver"][c], said["sender"][c])
    BY DEF KeysInv, KeysTypeOK, GreetingInv, Ends
  <1>5. ~m.early => {"identity", "ephemeral"} \subseteq heard["receiver"][c]
    <2>1. Len(wire["sender"][c]) \in Nat /\ Len(wire["sender"][c]) >= 1 /\ m = wire["sender"][c][1]
      BY <1>1, <1>4
    <2> HIDE DEF m
    <2>2. ~m.early => /\ Recorded(wire["sender"][c], heard["receiver"][c], "identity", 1)
                      /\ Recorded(wire["sender"][c], heard["receiver"][c], "ephemeral", 1)
      BY <1>1, <1>4, <2>1 DEF Ordered
    <2> QED BY <2>2 DEF Recorded
  <1>6. Opens("receiver", c, m.key) \in BOOLEAN
    BY DEF Opens
  <1>7. ~Opens("receiver", c, m.key)
          => m.key # "session" /\ (m.early \/ m.key \in Links \ {c})
    <2> SUFFICES ASSUME ~Opens("receiver", c, m.key), ~m.early
                 PROVE  m.key # "session" /\ m.key \in Links \ {c}
      BY DEF Opens
    <2>1. KeysOf("receiver", c) = <<c, "static">>
      BY <1>5 DEF KeysOf
    <2>2. m.key # "session" /\ m.key # c /\ m.key # "static"
      <3> HIDE DEF m
      <3>1. /\ 1 \in 1..Len(<<c, "static">>) /\ <<c, "static">>[1] = c
            /\ 2 \in 1..Len(<<c, "static">>) /\ <<c, "static">>[2] = "static"
        OBVIOUS
      <3> QED BY <2>1, <3>1 DEF Opens
    <2> QED BY <1>3, <2>2 DEF Keys
  <1> HIDE DEF m
  <1>8. KeysTypeOK'
    <2>1. wire' \in [Ends -> [Links -> Seq(Frame)]]
      BY <1>1, <1>2 DEF KeysInv, KeysTypeOK, Ends
    <2>2. copy \in Copy
      BY <1>3, <1>6 DEF Copy
    <2> HIDE DEF copy
    <2>3. got' \subseteq Copy
      BY <1>1, <2>2 DEF KeysInv, KeysTypeOK
    <2> QED BY <1>1, <2>1, <2>3 DEF KeysInv, KeysTypeOK
  <1>9. LinkInv'
    BY <1>1, <1>2 DEF KeysInv, KeysTypeOK, LinkInv
  <1>10. SealedIsOpened'
    <2>1. ~copy.opened => copy.key # "session" /\ (copy.early \/ copy.key \in Links \ {copy.via})
      BY <1>7
    <2> HIDE DEF copy
    <2> QED BY <1>1, <2>1 DEF KeysInv, SealedIsOpened
  <1>11. GreetingInv'
    <2> SUFFICES ASSUME NEW d \in Links
                 PROVE  Ordered(wire["sender"][d], heard["receiver"][d], said["sender"][d])'
      BY DEF GreetingInv
    <2>1. CASE d = c
      <3>1. Ordered(Tail(wire["sender"][c]), heard["receiver"][c], said["sender"][c])
        BY <1>1, <1>4, OrderedRead DEF m
      <3>2. wire'["sender"][c] = Tail(wire["sender"][c]) /\ UNCHANGED <<heard, said>>
        BY <1>1 DEF KeysInv, KeysTypeOK, Ends
      <3> QED BY <2>1, <3>1, <3>2
    <2>2. CASE d # c
      <3>1. Ordered(wire["sender"][d], heard["receiver"][d], said["sender"][d])
        BY DEF KeysInv, GreetingInv
      <3>2. wire'["sender"][d] = wire["sender"][d] /\ UNCHANGED <<heard, said>>
        BY <1>1, <2>2 DEF KeysInv, KeysTypeOK, Ends
      <3> QED BY <3>1, <3>2
    <2> QED BY <2>1, <2>2
  <1> QED BY <1>8, <1>9, <1>10, <1>11 DEF KeysInv

LEMMA NextInv == KeysInv /\ [KeysNext]_keysVars => KeysInv'
  <1> SUFFICES ASSUME KeysInv, [KeysNext]_keysVars PROVE KeysInv'
    OBVIOUS
  <1>1. ASSUME NEW c \in Links, Establish(c) PROVE KeysInv'
    BY <1>1, QuietSteps DEF Ends
  <1>2. ASSUME NEW c \in Links, Fail(c) PROVE KeysInv'
    BY <1>2, FailStep
  <1>3. ASSUME NEW c \in Links, Forget(c) PROVE KeysInv'
    BY <1>3, ForgetStep
  <1>4. ASSUME NEW c \in Links, HearMessage(c) PROVE KeysInv'
    BY <1>4, HearMessageStep
  <1>5. ASSUME NEW e \in Ends, NEW c \in Links, Register(e, c) PROVE KeysInv'
    BY <1>5, QuietSteps
  <1>6. ASSUME NEW e \in Ends, NEW c \in Links, Greet(e, c) PROVE KeysInv'
    BY <1>6, GreetStep
  <1>7. ASSUME NEW e \in Ends, NEW c \in Links, HearHello(e, c) PROVE KeysInv'
    BY <1>7, HearHelloStep
  <1>8. ASSUME NEW e \in Ends, NEW c \in Links, HearKey(e, c) PROVE KeysInv'
    BY <1>8, HearKeyStep
  <1>9. CASE SayAgain
    BY <1>9, SayAgainStep
  <1>10. CASE Seal
    BY <1>10, SealStep
  <1>11. CASE Send
    BY <1>11, SendStep
  <1>12. CASE UNCHANGED keysVars
    BY <1>12 DEF keysVars, KeysInv, KeysTypeOK, LinkInv, GreetingInv, SealedIsOpened, Ordered, Recorded
  <1> QED BY <1>1, <1>2, <1>3, <1>4, <1>5, <1>6, <1>7, <1>8, <1>9, <1>10, <1>11, <1>12 DEF KeysNext

LEMMA Inductive == KeysSpec => []KeysInv
  BY InitInv, NextInv, PTL DEF KeysSpec

(* Every variable of the greeting keeps its type, for any number of         *)
(* connections, messages and repeated greetings (register, announce,        *)
(* send_ciphertext_to_peer, read_loop).                                     *)
THEOREM KeysTypeCorrect == KeysSpec => []KeysTypeOK
  <1>1. KeysInv => KeysTypeOK
    BY DEF KeysInv
  <1> QED BY Inductive, <1>1, PTL

(* A directed message the receiver reads is opened, unless its key was agreed *)
(* on another connection or it overtook the sender's greeting (decrypt_from): *)
(* for any number of connections, up beside or after one another.           *)
THEOREM SealedOpens == KeysSpec => []SealedIsOpened
  <1>1. KeysInv => SealedIsOpened
    BY DEF KeysInv
  <1> QED BY Inductive, <1>1, PTL
=============================================================================

-------------------------- MODULE PeerOutboxProofs --------------------------
(***************************************************************************)
(* What PeerOutbox guarantees for every set of nicknames and connections,  *)
(* every capacity and any number of messages: nothing that was queued is   *)
(* lost or stored twice, and PeerOutbox implements Mailbox.                *)
(*                                                                         *)
(* The inductive invariant says where a message that waits is: in the      *)
(* outbox of its own addressee, or in the batch of a reader that stands in *)
(* a flush for that addressee, and never in two of these places.           *)
(***************************************************************************)
EXTENDS PeerOutbox, TLAPS

Waits(m) ==
  told[m] = "queued" /\ handed[m] = {} /\ m \notin expired /\ m \notin cleared

(* A send in progress has an id left; ids not given out have no trace.     *)
IdsFresh ==
  /\ call.busy => nextId <= MaxMsg
  /\ \A m \in Ids : m >= nextId =>
       /\ told[m] = "nothing" /\ handed[m] = {}
       /\ m \notin expired /\ m \notin cleared

(* A reader that stands in a flush flushes for a nickname.                 *)
FlushHasName == \A c \in Conns : reader[c] \in {"named", "handing"} => name[c] \in Names

InOutbox == \A n \in Names : \A m \in outbox[n] : Waits(m) /\ to[m] = n

InBatch == \A c \in Conns : \A m \in batch[c] :
  /\ Waits(m) /\ reader[c] = "handing"
  /\ to[m] = name[c] /\ m \notin outbox[name[c]]

BatchesApart == \A c, d \in Conns : \A m \in batch[c] : m \in batch[d] => c = d

IsStored == \A m \in Ids : Waits(m) =>
  \/ \E n \in Names : m \in outbox[n]
  \/ \E c \in Conns : m \in batch[c]

IInv ==
  /\ TypeOK /\ IdsFresh /\ FlushHasName
  /\ InOutbox /\ InBatch /\ BatchesApart /\ IsStored

-----------------------------------------------------------------------------
(* Nothing is stored or sent at the start.                                 *)
LEMMA InitIInv == Init => IInv
<1> SUFFICES ASSUME Init PROVE IInv
  OBVIOUS
<1> USE OutboxAssumption DEF Init
<1>1. TypeOK
  <2>1. nextId \in 1..MaxMsg + 1 /\ aged \in 0..MaxMsg
    OBVIOUS
  <2>2. call \in [busy : BOOLEAN, to : Names \cup {NoName}, senders : SUBSET Conns]
    BY DEF NoCall
  <2>3. /\ outbox \in [Names -> SUBSET Ids] /\ queue \in [Conns -> SUBSET Ids]
        /\ batch \in [Conns -> SUBSET Ids] /\ handed \in [Ids -> SUBSET Conns]
        /\ open \in [Conns -> BOOLEAN] /\ down \in BOOLEAN
        /\ expired \subseteq Ids /\ cleared \subseteq Ids
    OBVIOUS
  <2>4. QED
    BY <2>1, <2>2, <2>3 DEF TypeOK
<1>2. IdsFresh
  BY DEF IdsFresh, NoCall, Ids
<1>3. FlushHasName /\ InOutbox /\ InBatch /\ BatchesApart
  BY DEF FlushHasName, InOutbox, InBatch, BatchesApart
<1>4. IsStored
  BY DEF IsStored, Waits
<1>5. QED
  BY <1>1, <1>2, <1>3, <1>4 DEF IInv

(* The steps that move no message in or out of the outbox and its batches. *)
Quiet ==
  \/ \E n \in Names : LookUp(n)
  \/ LookUpAll \/ Age
  \/ \E c \in Conns, n \in Names : Hello(c, n)
  \/ \E c \in Conns : Register(c) \/ Leave(c) \/ Write(c) \/ WriteFails(c)

LEMMA QuietType == ASSUME IInv, Quiet PROVE TypeOK'
<1> USE OutboxAssumption DEF IInv, TypeOK
<1>1. CASE \E n \in Names : LookUp(n)
  BY <1>1 DEF LookUp, Look
<1>2. CASE LookUpAll
  BY <1>2 DEF LookUpAll, Look
<1>3. CASE Age
  BY <1>3 DEF Age, Ids
<1>4. CASE \E c \in Conns, n \in Names : Hello(c, n)
  BY <1>4 DEF Hello
<1>5. CASE \E c \in Conns : Register(c)
  BY <1>5 DEF Register
<1>6. CASE \E c \in Conns : Leave(c)
  BY <1>6 DEF Leave
<1>7. CASE \E c \in Conns : Write(c)
  BY <1>7 DEF Write
<1>8. CASE \E c \in Conns : WriteFails(c)
  BY <1>8 DEF WriteFails
<1>9. QED
  BY <1>1, <1>2, <1>3, <1>4, <1>5, <1>6, <1>7, <1>8 DEF Quiet

LEMMA QuietFrame ==
  ASSUME IInv, Quiet
  PROVE  /\ UNCHANGED <<nextId, outbox, batch, told, to, handed, expired, cleared>>
         /\ \A c \in Conns : reader[c] = "handing" =>
              reader'[c] = "handing" /\ name'[c] = name[c]
<1>1. UNCHANGED <<nextId, outbox, batch, told, to, handed, expired, cleared>>
  BY DEF Quiet, LookUp, LookUpAll, Look, Age, Hello, Register, Leave, Write, WriteFails
<1>2. ASSUME NEW c \in Conns, reader[c] = "handing"
      PROVE  reader'[c] = "handing" /\ name'[c] = name[c]
  BY <1>2 DEF Quiet, LookUp, LookUpAll, Look, Age, Hello, Register, Leave, Write, WriteFails,
     IInv, TypeOK
<1>3. QED
  BY <1>1, <1>2

LEMMA QuietStep == ASSUME IInv, Quiet PROVE IInv'
<1>1. TypeOK'
  BY QuietType
<1>2. /\ UNCHANGED <<nextId, outbox, batch, told, to, handed, expired, cleared>>
      /\ \A c \in Conns : reader[c] = "handing" => reader'[c] = "handing" /\ name'[c] = name[c]
  BY QuietFrame
<1>3. IdsFresh'
  <2>1. call'.busy => nextId <= MaxMsg
    BY DEF Quiet, LookUp, LookUpAll, Look, Age, Hello, Register, Leave, Write, WriteFails,
       IInv, IdsFresh
  <2>2. QED
    BY <1>2, <2>1 DEF IInv, IdsFresh
<1>4. FlushHasName'
  BY DEF Quiet, LookUp, LookUpAll, Look, Age, Hello, Register, Leave, Write, WriteFails,
     IInv, TypeOK, FlushHasName
<1>5. InOutbox' /\ BatchesApart' /\ IsStored'
  BY <1>2 DEF IInv, InOutbox, BatchesApart, IsStored, Waits
<1>6. InBatch'
  BY <1>2 DEF IInv, InBatch, Waits
<1>7. QED
  BY <1>1, <1>3, <1>4, <1>5, <1>6 DEF IInv

-----------------------------------------------------------------------------
(* A send that found connections is never stored.                          *)
LEMMA DispatchStep == ASSUME IInv, Dispatch PROVE IInv'
<1> DEFINE took == {c \in call.senders : HasRoom(c)}
<1>1. /\ nextId \in Ids /\ nextId' = nextId + 1 /\ call' = NoCall
      /\ queue' = [c \in Conns |-> IF c \in took THEN queue[c] \cup {nextId} ELSE queue[c]]
      /\ handed' = [handed EXCEPT ![nextId] = took]
      /\ told' = [told EXCEPT ![nextId] = "sent"]
      /\ to' = [to EXCEPT ![nextId] = call.to]
      /\ UNCHANGED <<down, name, reader, open, outbox, batch, aged, expired, cleared>>
  BY OutboxAssumption DEF Dispatch, Return, IInv, IdsFresh, TypeOK, Ids
<1>2. took \subseteq Conns
  BY DEF IInv, TypeOK
<1> HIDE DEF took
<1>3. TypeOK'
  <2>1. queue' \in [Conns -> SUBSET Ids] /\ handed' \in [Ids -> SUBSET Conns]
    BY <1>1, <1>2 DEF IInv, TypeOK
  <2>2. nextId' \in 1..MaxMsg + 1 /\ call' \in [busy : BOOLEAN, to : Names \cup {NoName},
                                               senders : SUBSET Conns]
    BY <1>1, OutboxAssumption DEF NoCall, Ids
  <2>3. QED
    BY <1>1, <2>1, <2>2 DEF IInv, TypeOK
<1>4. \A m \in Ids : m # nextId => Waits(m)' = Waits(m) /\ to'[m] = to[m]
  BY <1>1 DEF Waits, IInv, TypeOK
<1>5. \A m \in Ids : m = nextId => ~Waits(m) /\ ~Waits(m)'
  BY <1>1 DEF Waits, IInv, IdsFresh, TypeOK, Ids
<1>6. IdsFresh'
  BY <1>1, OutboxAssumption DEF IInv, IdsFresh, TypeOK, NoCall, Ids
<1>7. FlushHasName' /\ BatchesApart'
  BY <1>1 DEF IInv, FlushHasName, BatchesApart
<1>8. InOutbox'
  BY <1>1, <1>4, <1>5 DEF IInv, InOutbox, TypeOK
<1>9. InBatch'
  BY <1>1, <1>4, <1>5 DEF IInv, InBatch, TypeOK
<1>10. IsStored'
  BY <1>1, <1>4, <1>5 DEF IInv, IsStored
<1>11. QED
  BY <1>3, <1>6, <1>7, <1>8, <1>9, <1>10 DEF IInv

(* A send that found nobody stores its message under its addressee.        *)
LEMMA EnqueueStep == ASSUME IInv, Enqueue PROVE IInv'
<1> DEFINE full == Cardinality(outbox[call.to]) >= OutboxCapacity
           outcome == IF full THEN "dropped" ELSE "queued"
<1>1. /\ nextId \in Ids /\ nextId' = nextId + 1 /\ call' = NoCall
      /\ call.to \in Names
      /\ outbox' = [outbox EXCEPT ![call.to] = IF full THEN outbox[call.to]
                                               ELSE outbox[call.to] \cup {nextId}]
      /\ told' = [told EXCEPT ![nextId] = outcome]
      /\ to' = [to EXCEPT ![nextId] = call.to]
      /\ UNCHANGED <<down, name, reader, open, queue, batch, aged, handed, expired, cleared>>
  BY OutboxAssumption DEF Enqueue, Return, IInv, IdsFresh, TypeOK, Ids
<1>2. outcome \in {"dropped", "queued"} /\ (full <=> outcome = "dropped")
  OBVIOUS
<1> HIDE DEF full, outcome
<1>3. TypeOK'
  <2>1. outbox' \in [Names -> SUBSET Ids]
    BY <1>1 DEF IInv, TypeOK
  <2>2. nextId' \in 1..MaxMsg + 1 /\ call' \in [busy : BOOLEAN, to : Names \cup {NoName},
                                               senders : SUBSET Conns]
    BY <1>1, OutboxAssumption DEF NoCall, Ids
  <2>3. QED
    BY <1>1, <1>2, <2>1, <2>2 DEF IInv, TypeOK
<1>4. \A m \in Ids : m # nextId => Waits(m)' = Waits(m) /\ to'[m] = to[m]
  BY <1>1 DEF Waits, IInv, TypeOK
<1>5. \A m \in Ids : m = nextId => ~Waits(m) /\ (Waits(m)' <=> ~full) /\ to'[m] = call.to
  BY <1>1, <1>2 DEF Waits, IInv, IdsFresh, TypeOK, Ids
<1>6. IdsFresh'
  BY <1>1, OutboxAssumption DEF IInv, IdsFresh, TypeOK, NoCall, Ids
<1>7. FlushHasName' /\ BatchesApart'
  BY <1>1 DEF IInv, FlushHasName, BatchesApart
<1>8. InOutbox'
  BY <1>1, <1>4, <1>5 DEF IInv, InOutbox, TypeOK
<1>9. InBatch'
  BY <1>1, <1>4, <1>5 DEF IInv, InBatch, FlushHasName, TypeOK
<1>10. IsStored'
  BY <1>1, <1>4, <1>5 DEF IInv, IsStored, TypeOK
<1>11. QED
  BY <1>3, <1>6, <1>7, <1>8, <1>9, <1>10 DEF IInv

(* A flush takes the queue; what is too old is counted and kept nowhere.   *)
LEMMA TakeStep == ASSUME IInv, NEW c \in Conns, Take(c) PROVE IInv'
<1> DEFINE n == name[c]
           old == {m \in outbox[n] : m <= aged}
<1>1. /\ reader[c] = "named" /\ n \in Names
      /\ outbox' = [outbox EXCEPT ![n] = {}]
      /\ batch' = [batch EXCEPT ![c] = outbox[n] \ old]
      /\ expired' = expired \cup old
      /\ reader' = [reader EXCEPT ![c] = "handing"]
      /\ UNCHANGED <<down, nextId, name, open, queue, call, aged, told, to, handed, cleared>>
  BY DEF Take, IInv, FlushHasName
<1>2. old \subseteq outbox[n] /\ n = name[c]
  OBVIOUS
<1> HIDE DEF n, old
<1>3. TypeOK'
  BY <1>1, <1>2 DEF IInv, TypeOK
<1>4. \A m \in Ids : (Waits(m)' <=> Waits(m) /\ m \notin old) /\ to'[m] = to[m]
  BY <1>1 DEF Waits
<1>5. \A m \in old : m \in Ids /\ to[m] = n /\ Waits(m)
  BY <1>1, <1>2 DEF IInv, InOutbox, TypeOK
<1>6. IdsFresh' /\ FlushHasName'
  BY <1>1, <1>5 DEF IInv, IdsFresh, FlushHasName, TypeOK, Waits
<1>7. InOutbox'
  BY <1>1, <1>4, <1>5 DEF IInv, InOutbox, TypeOK
<1>8. InBatch'
  <2>1. ASSUME NEW d \in Conns, NEW m \in batch'[d]
        PROVE  /\ Waits(m)' /\ reader'[d] = "handing"
               /\ to'[m] = name'[d] /\ m \notin outbox'[name'[d]]
    <3>1. CASE d = c
      BY <1>1, <1>2, <1>4, <2>1, <3>1 DEF IInv, InOutbox, TypeOK
    <3>2. CASE d # c
      <4>1. m \in batch[d] /\ m \in Ids /\ Waits(m) /\ reader[d] = "handing"
            /\ to[m] = name[d] /\ m \notin outbox[name[d]]
        BY <1>1, <2>1, <3>2 DEF IInv, InBatch, TypeOK
      <4>2. m \notin old /\ m \notin outbox'[name[d]]
        BY <1>1, <1>2, <1>5, <4>1 DEF IInv, TypeOK, FlushHasName
      <4>3. QED
        BY <1>1, <1>4, <3>2, <4>1, <4>2 DEF IInv, TypeOK
    <3>3. QED
      BY <3>1, <3>2
  <2>2. QED
    BY <2>1 DEF InBatch
<1>9. BatchesApart'
  <2>1. ASSUME NEW d \in Conns, d # c, NEW m \in outbox[n] PROVE m \notin batch[d]
    BY <1>1, <2>1 DEF IInv, InBatch, InOutbox
  <2>2. QED
    BY <1>1, <2>1 DEF IInv, BatchesApart, TypeOK
<1>10. IsStored'
  <2>1. ASSUME NEW m \in Ids, Waits(m)'
        PROVE  \/ \E k \in Names : m \in outbox'[k]
               \/ \E d \in Conns : m \in batch'[d]
    <3>1. Waits(m) /\ m \notin old
      BY <1>4, <2>1
    <3>2. CASE \E k \in Names : m \in outbox[k]
      BY <1>1, <3>1, <3>2 DEF IInv, TypeOK
    <3>3. CASE \E d \in Conns : m \in batch[d]
      BY <1>1, <3>3 DEF IInv, InBatch, TypeOK
    <3>4. QED
      BY <3>1, <3>2, <3>3 DEF IInv, IsStored
  <2>2. QED
    BY <2>1 DEF IsStored
<1>11. QED
  BY <1>3, <1>6, <1>7, <1>8, <1>9, <1>10 DEF IInv

(* An entry handed over leaves the batch it was in, and is in no other.    *)
LEMMA HandOverStep ==
  ASSUME IInv, NEW c \in Conns, NEW e \in Ids, HandOver(c, e) PROVE IInv'
<1>1. /\ reader[c] = "handing" /\ e \in batch[c]
      /\ queue' = [queue EXCEPT ![c] = queue[c] \cup {e}]
      /\ batch' = [batch EXCEPT ![c] = batch[c] \ {e}]
      /\ handed' = [handed EXCEPT ![e] = handed[e] \cup {c}]
      /\ UNCHANGED <<down, nextId, name, reader, open, outbox, call, aged, told, to,
                     expired, cleared>>
  BY DEF HandOver
<1>2. TypeOK'
  BY <1>1 DEF IInv, TypeOK
<1>3. \A m \in Ids : (Waits(m)' <=> Waits(m) /\ m # e) /\ to'[m] = to[m]
  BY <1>1 DEF Waits, IInv, TypeOK
<1>4. \A n \in Names : e \notin outbox[n]
  BY <1>1 DEF IInv, InBatch, InOutbox
<1>5. \A d \in Conns : e \notin batch'[d]
  BY <1>1 DEF IInv, BatchesApart, TypeOK
<1>6. IdsFresh' /\ FlushHasName'
  BY <1>1 DEF IInv, IdsFresh, FlushHasName, InBatch, Waits, TypeOK
<1>7. InOutbox'
  BY <1>1, <1>3, <1>4 DEF IInv, InOutbox, TypeOK
<1>8. InBatch'
  BY <1>1, <1>3, <1>5 DEF IInv, InBatch, TypeOK
<1>9. BatchesApart'
  BY <1>1 DEF IInv, BatchesApart, TypeOK
<1>10. IsStored'
  BY <1>1, <1>3 DEF IInv, IsStored, TypeOK
<1>11. QED
  BY <1>2, <1>6, <1>7, <1>8, <1>9, <1>10 DEF IInv

(* What a flush could not hand over is again in its addressee's queue.     *)
LEMMA PutBackStep == ASSUME IInv, NEW c \in Conns, PutBack(c) PROVE IInv'
<1> DEFINE n == name[c]
<1>1. /\ reader[c] = "handing" /\ n \in Names
      /\ outbox' = [outbox EXCEPT ![n] = outbox[n] \cup batch[c]]
      /\ batch' = [batch EXCEPT ![c] = {}]
      /\ reader' = [reader EXCEPT ![c] = "reading"]
      /\ UNCHANGED <<down, nextId, name, open, queue, call, aged, told, to, handed,
                     expired, cleared>>
  BY DEF PutBack, IInv, FlushHasName
<1>2. n = name[c]
  OBVIOUS
<1> HIDE DEF n
<1>3. TypeOK'
  BY <1>1 DEF IInv, TypeOK
<1>4. \A m \in Ids : Waits(m)' = Waits(m) /\ to'[m] = to[m]
  BY <1>1 DEF Waits
<1>5. IdsFresh' /\ FlushHasName'
  BY <1>1 DEF IInv, IdsFresh, FlushHasName, TypeOK
<1>6. InOutbox'
  BY <1>1, <1>2, <1>4 DEF IInv, InOutbox, InBatch, TypeOK
<1>7. InBatch'
  <2>1. ASSUME NEW d \in Conns, NEW m \in batch'[d]
        PROVE  /\ Waits(m)' /\ reader'[d] = "handing"
               /\ to'[m] = name'[d] /\ m \notin outbox'[name'[d]]
    <3>1. d # c /\ m \in batch[d] /\ m \in Ids
      BY <1>1, <2>1 DEF IInv, TypeOK
    <3>2. m \notin batch[c]
      BY <3>1 DEF IInv, BatchesApart
    <3>3. Waits(m) /\ reader[d] = "handing" /\ to[m] = name[d] /\ m \notin outbox[name[d]]
      BY <3>1 DEF IInv, InBatch
    <3>4. name[d] \in Names
      BY <3>3 DEF IInv, FlushHasName
    <3>5. QED
      BY <1>1, <1>4, <3>1, <3>2, <3>3, <3>4 DEF IInv, TypeOK
  <2>2. QED
    BY <2>1 DEF InBatch
<1>8. BatchesApart'
  BY <1>1 DEF IInv, BatchesApart, TypeOK
<1>9. IsStored'
  <2>1. ASSUME NEW m \in Ids, Waits(m)
        PROVE  \/ \E k \in Names : m \in outbox'[k]
               \/ \E d \in Conns : m \in batch'[d]
    <3>1. CASE \E k \in Names : m \in outbox[k]
      BY <1>1, <3>1 DEF IInv, TypeOK
    <3>2. CASE \E d \in Conns : m \in batch[d]
      BY <1>1, <3>2 DEF IInv, TypeOK
    <3>3. QED
      BY <2>1, <3>1, <3>2 DEF IInv, IsStored
  <2>2. QED
    BY <1>4, <2>1 DEF IsStored
<1>10. QED
  BY <1>3, <1>5, <1>6, <1>7, <1>8, <1>9 DEF IInv

(* Pruning counts what it removes.                                         *)
LEMMA PruneStep == ASSUME IInv, Prune PROVE IInv'
<1> DEFINE old == {m \in UNION {outbox[n] : n \in Names} : m <= aged}
<1>1. /\ outbox' = [n \in Names |-> outbox[n] \ old]
      /\ expired' = expired \cup old
      /\ UNCHANGED <<down, nextId, name, reader, open, queue, batch, call, aged, told,
                     to, handed, cleared>>
  BY DEF Prune
<1>2. \A m \in old : m \in Ids /\ Waits(m) /\ \E n \in Names : m \in outbox[n]
  BY DEF IInv, InOutbox, TypeOK
<1> HIDE DEF old
<1>3. TypeOK'
  BY <1>1, <1>2 DEF IInv, TypeOK
<1>4. \A m \in Ids : (Waits(m)' <=> Waits(m) /\ m \notin old) /\ to'[m] = to[m]
  BY <1>1 DEF Waits
<1>5. IdsFresh' /\ FlushHasName' /\ BatchesApart'
  BY <1>1, <1>2 DEF IInv, IdsFresh, FlushHasName, BatchesApart, Waits, TypeOK
<1>6. InOutbox'
  BY <1>1, <1>4 DEF IInv, InOutbox, TypeOK
<1>7. \A c \in Conns : \A m \in batch[c] : m \notin old
  BY <1>2 DEF IInv, InBatch, InOutbox
<1>8. InBatch'
  <2>1. ASSUME NEW c \in Conns, NEW m \in batch[c]
        PROVE  /\ Waits(m)' /\ reader[c] = "handing"
               /\ to[m] = name[c] /\ m \notin outbox'[name[c]]
    <3>1. m \in Ids /\ Waits(m) /\ reader[c] = "handing" /\ to[m] = name[c]
          /\ m \notin outbox[name[c]] /\ m \notin old
      BY <1>7, <2>1 DEF IInv, InBatch, TypeOK
    <3>2. QED
      BY <1>1, <1>4, <3>1 DEF IInv, FlushHasName, TypeOK
  <2>2. QED
    BY <1>1, <2>1 DEF InBatch
<1>9. IsStored'
  BY <1>1, <1>4 DEF IInv, IsStored, TypeOK
<1>10. QED
  BY <1>3, <1>5, <1>6, <1>8, <1>9 DEF IInv

(* Shutdown empties every place a message can wait in.                     *)
LEMMA ShutdownStep == ASSUME IInv, Shutdown PROVE IInv'
<1> DEFINE all == (UNION {outbox[n] : n \in Names}) \cup (UNION {batch[c] : c \in Conns})
<1>1. /\ down' = TRUE /\ cleared' = cleared \cup all
      /\ outbox' = [n \in Names |-> {}] /\ batch' = [c \in Conns |-> {}]
      /\ name' = [c \in Conns |-> Absent] /\ reader' = [c \in Conns |-> "gone"]
      /\ open' = [c \in Conns |-> FALSE] /\ queue' = [c \in Conns |-> {}]
      /\ UNCHANGED <<nextId, call, aged, told, to, handed, expired>>
  BY DEF Shutdown
<1>2. \A m \in all : m \in Ids /\ Waits(m)
  BY DEF IInv, InOutbox, InBatch, TypeOK
<1>3. \A m \in Ids : Waits(m) => m \in all
  BY DEF IInv, IsStored
<1> HIDE DEF all
<1>4. TypeOK'
  BY <1>1, <1>2 DEF IInv, TypeOK
<1>5. IdsFresh'
  BY <1>1, <1>2 DEF IInv, IdsFresh, Waits, TypeOK
<1>6. FlushHasName' /\ InOutbox' /\ InBatch' /\ BatchesApart'
  BY <1>1 DEF FlushHasName, InOutbox, InBatch, BatchesApart
<1>7. IsStored'
  BY <1>1, <1>3 DEF IsStored, Waits
<1>8. QED
  BY <1>4, <1>5, <1>6, <1>7 DEF IInv

LEMMA NextIInv == ASSUME IInv, [Next]_vars PROVE IInv'
<1>1. CASE UNCHANGED vars
  BY <1>1 DEF vars, IInv, TypeOK, IdsFresh, FlushHasName, InOutbox, InBatch, BatchesApart,
     IsStored, Waits
<1>2. CASE Next
  <2>1. CASE Quiet
    BY <2>1, QuietStep
  <2>2. CASE Dispatch
    BY <2>2, DispatchStep
  <2>3. CASE Enqueue
    BY <2>3, EnqueueStep
  <2>4. CASE Prune
    BY <2>4, PruneStep
  <2>5. CASE Shutdown
    BY <2>5, ShutdownStep
  <2>6. CASE \E c \in Conns : Take(c)
    BY <2>6, TakeStep
  <2>7. CASE \E c \in Conns, m \in Ids : HandOver(c, m)
    BY <2>7, HandOverStep
  <2>8. CASE \E c \in Conns : PutBack(c)
    BY <2>8, PutBackStep
  <2>9. QED
    BY <1>2, <2>1, <2>2, <2>3, <2>4, <2>5, <2>6, <2>7, <2>8 DEF Next, Quiet
<1>3. QED
  BY <1>1, <1>2

LEMMA AlwaysIInv == Spec => []IInv
BY InitIInv, NextIInv, PTL DEF Spec

(* The state of the outbox, its flushes and its connections is well typed. *)
THEOREM OutboxTypeCorrect == Spec => []TypeOK
<1>1. IInv => TypeOK
  BY DEF IInv
<1>2. QED
  BY <1>1, AlwaysIInv, PTL

(* Whatever the interleaving of sends, flushes, put-backs and prunes, a    *)
(* message reported as queued is stored, delivered, expired or discarded.  *)
THEOREM QueuedIsNeverLost == Spec => []NothingIsLost
<1>1. IInv => NothingIsLost
  <2>1. \A m \in Waiting : m \in Ids /\ Waits(m)
    BY DEF Waiting, Queued, HandedOver, Waits
  <2>2. QED
    BY <2>1 DEF IInv, IsStored, NothingIsLost, Stored
<1>2. QED
  BY <1>1, AlwaysIInv, PTL

(* ... and it is stored in one place, for as long as it has to be.         *)
THEOREM QueuedIsStoredOnce == Spec => []StoredOnce
<1>1. IInv => StoredOnce
  <2> SUFFICES ASSUME IInv PROVE StoredOnce
    OBVIOUS
  <2>1. \A m \in Stored : m \in Ids /\ Waits(m)
    BY DEF Stored, IInv, InOutbox, InBatch, TypeOK
  <2>2. Stored \subseteq Waiting
    BY <2>1 DEF Waiting, Queued, HandedOver, Waits
  <2>3. \A c, d \in Conns : c # d => batch[c] \cap batch[d] = {}
    BY DEF IInv, BatchesApart
  <2>4. \A n \in Names, c \in Conns : outbox[n] \cap batch[c] = {}
    BY DEF IInv, InOutbox, InBatch
  <2>5. \A n, k \in Names : n # k => outbox[n] \cap outbox[k] = {}
    BY DEF IInv, InOutbox
  <2>6. QED
    BY <2>2, <2>3, <2>4, <2>5 DEF StoredOnce
<1>2. QED
  BY <1>1, AlwaysIInv, PTL

-----------------------------------------------------------------------------
(* PeerOutbox implements Mailbox: each step is one of its steps or none.   *)

LEMMA InitPromise == Init => Promise!Init
BY DEF Init, Promise!Init, StatusOf

(* A step that moves no message is an announcement, or time, or nothing.   *)
LEMMA QuietPromise == ASSUME IInv, Quiet PROVE [Promise!Next]_(Promise!mail)
<1>1. /\ UNCHANGED <<outbox, batch, told, to, handed, expired, cleared>>
      /\ \A m \in Ids : StatusOf(m)' = StatusOf(m)
  BY QuietFrame DEF StatusOf
<1>2. CASE Age
  BY <1>1, <1>2, OutboxAssumption DEF Age, Promise!Next, Promise!Age, IInv, TypeOK, Ids
<1>3. CASE UNCHANGED name /\ UNCHANGED aged
  BY <1>1, <1>3 DEF Promise!mail
<1>4. CASE /\ UNCHANGED aged
           /\ \E c \in Conns, n \in Names \cup {NoName, Absent} : name' = [name EXCEPT ![c] = n]
  BY <1>1, <1>4 DEF Promise!Next, Promise!Announce
<1>5. QED
  BY <1>2, <1>3, <1>4 DEF Quiet, LookUp, LookUpAll, Look, Hello, Register, Leave, Write, WriteFails

LEMMA DispatchPromise == ASSUME IInv, Dispatch PROVE Promise!Next
<1>1. PICK took \in SUBSET Conns :
        /\ handed' = [handed EXCEPT ![nextId] = took]
        /\ told' = [told EXCEPT ![nextId] = "sent"]
        /\ to' = [to EXCEPT ![nextId] = call.to]
        /\ UNCHANGED <<name, aged, expired, cleared>>
  <2> DEFINE took == {c \in call.senders : HasRoom(c)}
  <2>1. took \in SUBSET Conns
    BY DEF IInv, TypeOK
  <2>2. handed' = [handed EXCEPT ![nextId] = took]
    BY DEF Dispatch
  <2>3. QED
    BY <2>1, <2>2 DEF Dispatch, Return
<1>2. nextId \in Ids /\ told[nextId] = "nothing" /\ call.to \in Names \cup {NoName}
  BY OutboxAssumption DEF Dispatch, IInv, IdsFresh, TypeOK, Ids
<1>3. \A m \in Ids : StatusOf(m)' = IF m = nextId THEN "sent" ELSE StatusOf(m)
  BY <1>1, <1>2 DEF StatusOf, IInv, TypeOK
<1>4. Promise!Send(nextId, call.to)
  BY <1>1, <1>2, <1>3 DEF Promise!Send, StatusOf, IInv, TypeOK
<1>5. QED
  BY <1>2, <1>4 DEF Promise!Next

LEMMA EnqueuePromise == ASSUME IInv, Enqueue PROVE Promise!Next
<1>1. PICK outcome \in {"dropped", "queued"} :
        /\ told' = [told EXCEPT ![nextId] = outcome]
        /\ to' = [to EXCEPT ![nextId] = call.to]
        /\ UNCHANGED <<name, aged, handed, expired, cleared>>
  BY DEF Enqueue, Return
<1>2. /\ nextId \in Ids /\ told[nextId] = "nothing" /\ call.to \in Names
      /\ handed[nextId] = {} /\ nextId \notin expired /\ nextId \notin cleared
  BY OutboxAssumption DEF Enqueue, IInv, IdsFresh, TypeOK, Ids
<1>3. \A m \in Ids : StatusOf(m)' =
        IF m = nextId THEN (IF outcome = "queued" THEN "waiting" ELSE "refused") ELSE StatusOf(m)
  BY <1>1, <1>2 DEF StatusOf, IInv, TypeOK
<1>4. CASE outcome = "queued"
  <2>1. Promise!Accept(nextId, call.to)
    BY <1>1, <1>2, <1>3, <1>4 DEF Promise!Accept, StatusOf
  <2>2. QED
    BY <1>2, <2>1 DEF Promise!Next
<1>5. CASE outcome = "dropped"
  <2>1. Promise!Refuse(nextId, call.to)
    BY <1>1, <1>2, <1>3, <1>5 DEF Promise!Refuse, StatusOf
  <2>2. QED
    BY <1>2, <2>1 DEF Promise!Next
<1>6. QED
  BY <1>4, <1>5

(* Take and Prune give up messages that are too old, and only those.       *)
LEMMA ExpirePromise ==
  ASSUME IInv, NEW old, \A m \in old : m \in Ids /\ Waits(m) /\ m <= aged,
         expired' = expired \cup old,
         UNCHANGED <<name, aged, told, to, handed, cleared>>
  PROVE  Promise!Next
<1>1. \A m \in Ids : StatusOf(m)' = IF m \in old THEN "expired" ELSE StatusOf(m)
  BY DEF StatusOf, Waits
<1>2. old \in SUBSET {m \in Ids : [k \in Ids |-> StatusOf(k)][m] = "waiting" /\ m <= aged}
  BY DEF StatusOf, Waits
<1>3. Promise!Expire
  BY <1>1, <1>2 DEF Promise!Expire
<1>4. QED
  BY <1>3 DEF Promise!Next

LEMMA HandOverPromise ==
  ASSUME IInv, NEW c \in Conns, NEW e \in Ids, HandOver(c, e) PROVE Promise!Next
<1>1. /\ Waits(e) /\ to[e] = name[c] /\ handed[e] = {}
      /\ handed' = [handed EXCEPT ![e] = {c}]
      /\ UNCHANGED <<name, aged, told, to, expired, cleared>>
  BY DEF HandOver, IInv, InBatch, Waits, TypeOK
<1>2. \A m \in Ids : StatusOf(m)' = IF m = e THEN "handed" ELSE StatusOf(m)
  BY <1>1 DEF StatusOf, Waits, IInv, TypeOK
<1>3. Promise!Deliver(e, c)
  BY <1>1, <1>2 DEF Promise!Deliver, StatusOf, Waits
<1>4. QED
  BY <1>3 DEF Promise!Next

LEMMA ShutdownPromise == ASSUME IInv, Shutdown PROVE Promise!Next
<1> DEFINE all == (UNION {outbox[n] : n \in Names}) \cup (UNION {batch[c] : c \in Conns})
<1>1. /\ cleared' = cleared \cup all
      /\ name' = [c \in Conns |-> Absent]
      /\ UNCHANGED <<aged, told, to, handed, expired>>
  BY DEF Shutdown
<1>2. \A m \in all : m \in Ids /\ Waits(m)
  BY DEF IInv, InOutbox, InBatch, TypeOK
<1>3. \A m \in Ids : Waits(m) => m \in all
  BY DEF IInv, IsStored
<1> HIDE DEF all
<1>4. \A m \in Ids : (StatusOf(m) = "waiting") <=> Waits(m)
  BY DEF StatusOf, Waits, IInv, TypeOK
<1>5. \A m \in Ids : StatusOf(m)' = IF StatusOf(m) = "waiting" THEN "discarded" ELSE StatusOf(m)
  BY <1>1, <1>2, <1>3, <1>4 DEF StatusOf, Waits, IInv, TypeOK
<1>6. Promise!Shutdown
  BY <1>1, <1>5 DEF Promise!Shutdown
<1>7. QED
  BY <1>6 DEF Promise!Next

LEMMA NextPromise == ASSUME IInv, [Next]_vars PROVE [Promise!Next]_(Promise!mail)
<1>1. CASE UNCHANGED vars
  BY <1>1 DEF vars, Promise!mail, StatusOf
<1>2. CASE Next
  <2>1. CASE Quiet
    BY <2>1, QuietPromise
  <2>2. CASE Dispatch
    BY <2>2, DispatchPromise
  <2>3. CASE Enqueue
    BY <2>3, EnqueuePromise
  <2>4. ASSUME NEW c \in Conns, Take(c) PROVE Promise!Next
    <3> DEFINE old == {m \in outbox[name[c]] : m <= aged}
    <3>1. /\ expired' = expired \cup old
          /\ UNCHANGED <<name, aged, told, to, handed, cleared>>
      BY <2>4 DEF Take
    <3>2. \A m \in old : m \in Ids /\ Waits(m) /\ m <= aged
      BY <2>4 DEF Take, IInv, FlushHasName, InOutbox, TypeOK
    <3>3. QED
      BY <3>1, <3>2, ExpirePromise
  <2>5. CASE Prune
    <3> DEFINE old == {m \in UNION {outbox[n] : n \in Names} : m <= aged}
    <3>1. /\ expired' = expired \cup old
          /\ UNCHANGED <<name, aged, told, to, handed, cleared>>
      BY <2>5 DEF Prune
    <3>2. \A m \in old : m \in Ids /\ Waits(m) /\ m <= aged
      BY DEF IInv, InOutbox, TypeOK
    <3>3. QED
      BY <3>1, <3>2, ExpirePromise
  <2>6. CASE Shutdown
    BY <2>6, ShutdownPromise
  <2>7. CASE \E c \in Conns, m \in Ids : HandOver(c, m)
    BY <2>7, HandOverPromise
  <2>8. CASE \E c \in Conns : PutBack(c)
    BY <2>8 DEF PutBack, Promise!mail, StatusOf
  <2>9. QED
    BY <1>2, <2>1, <2>2, <2>3, <2>4, <2>5, <2>6, <2>7, <2>8 DEF Next, Quiet
<1>3. QED
  BY <1>1, <1>2

(* The outbox, its flushes and its prunes keep the promise Mailbox states. *)
THEOREM OutboxKeepsPromise == Spec => KeepsPromise
BY InitPromise, AlwaysIInv, NextPromise, PTL DEF Spec, KeepsPromise, Promise!Spec
=============================================================================

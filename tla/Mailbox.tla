------------------------------- MODULE Mailbox -------------------------------
(***************************************************************************)
(* What the TCP transport promises about a message addressed to a nickname *)
(* nobody is announcing ("a message sent while the other side is offline   *)
(* is not lost"): once the sender was told Queued, the message waits until *)
(* it is handed, once, to one connection that announces its addressee, or  *)
(* until it is too old, or until the transport is shut down. No queues, no *)
(* tasks and no batches: PeerOutbox implements it.                         *)
(***************************************************************************)
EXTENDS Naturals

CONSTANTS Names, Conns, Ids, NoName, Absent

VARIABLES
  status,  \* of each message: the one place it is in
  to,      \* the nickname it was addressed to, NoName before or for everyone
  carrier, \* the connections it was handed to
  name,    \* what each connection announces; Absent when there is none
  aged     \* messages up to this one are older than OUTBOX_TTL

mail == <<status, to, carrier, name, aged>>

Init ==
  /\ status = [m \in Ids |-> "new"]
  /\ to = [m \in Ids |-> NoName]
  /\ carrier = [m \in Ids |-> {}]
  /\ name = [c \in Conns |-> Absent]
  /\ aged = 0

(* Connections come, announce a name, and go.                              *)
Announce ==
  /\ \E c \in Conns, n \in Names \cup {NoName, Absent} : name' = [name EXCEPT ![c] = n]
  /\ UNCHANGED <<status, to, carrier, aged>>

(* The sender was told Queued.                                             *)
Accept(m, n) ==
  /\ status[m] = "new"
  /\ status' = [status EXCEPT ![m] = "waiting"]
  /\ to' = [to EXCEPT ![m] = n]
  /\ UNCHANGED <<carrier, name, aged>>

(* The sender was told Dropped: it never waits.                            *)
Refuse(m, n) ==
  /\ status[m] = "new"
  /\ status' = [status EXCEPT ![m] = "refused"]
  /\ to' = [to EXCEPT ![m] = n]
  /\ UNCHANGED <<carrier, name, aged>>

(* The sender was told Sent: handed over at once, or shed, and never kept. *)
Send(m, n) ==
  /\ status[m] = "new"
  /\ status' = [status EXCEPT ![m] = "sent"]
  /\ to' = [to EXCEPT ![m] = n]
  /\ \E cs \in SUBSET Conns : carrier' = [carrier EXCEPT ![m] = cs]
  /\ UNCHANGED <<name, aged>>

(* A waiting message reaches one connection of its addressee, and is done. *)
Deliver(m, c) ==
  /\ status[m] = "waiting" /\ name[c] = to[m]
  /\ status' = [status EXCEPT ![m] = "handed"]
  /\ carrier' = [carrier EXCEPT ![m] = {c}]
  /\ UNCHANGED <<to, name, aged>>

(* Only what is too old is given up, and it is counted as expired.         *)
Expire ==
  /\ \E old \in SUBSET {m \in Ids : status[m] = "waiting" /\ m <= aged} :
       status' = [m \in Ids |-> IF m \in old THEN "expired" ELSE status[m]]
  /\ UNCHANGED <<to, carrier, name, aged>>

Age ==
  /\ aged' \in Nat /\ aged' > aged
  /\ UNCHANGED <<status, to, carrier, name>>

(* Everything that waits is discarded, and every connection is dropped.    *)
Shutdown ==
  /\ status' = [m \in Ids |-> IF status[m] = "waiting" THEN "discarded" ELSE status[m]]
  /\ name' = [c \in Conns |-> Absent]
  /\ UNCHANGED <<to, carrier, aged>>

Next ==
  \/ Announce \/ Expire \/ Age \/ Shutdown
  \/ \E m \in Ids, n \in Names : Accept(m, n) \/ Refuse(m, n)
  \/ \E m \in Ids, n \in Names \cup {NoName} : Send(m, n)
  \/ \E m \in Ids, c \in Conns : Deliver(m, c)

Spec == Init /\ [][Next]_mail
=============================================================================

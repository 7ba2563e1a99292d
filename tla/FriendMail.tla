------------------------------ MODULE FriendMail ------------------------------
(***************************************************************************)
(* What the Tox transport promises about a payload for a friend who is     *)
(* away: it stands in the friend's line until toxcore takes it, in the     *)
(* order of the sends, or it is too old; it is refused only when the line  *)
(* is full. The line of a run that ends is lost, the file is not: a run    *)
(* begins with what the file had. The file is the line as it was at one    *)
(* moment, but for a payload that was being offered just then and for a    *)
(* friend the friend table did not have. Payloads are numbered as they are *)
(* sent, so that a line is a set. No tasks, no locks and no positions:     *)
(* ToxQueue implements it.                                                 *)
(***************************************************************************)
EXTENDS Naturals, FiniteSets

CONSTANTS Friends, Payloads, Capacity

VARIABLES
  up,      \* is a run in progress
  friends, \* the friend list the next run begins with
  status,  \* what became of each payload when it was sent
  next,    \* the next payload
  aged,    \* payloads up to this one are too old
  line,    \* what waits for each friend
  took,    \* what toxcore took from the line in this run
  copying, \* is the file being written
  copy,    \* what it will hold
  file     \* what it holds

mail == <<up, friends, status, next, aged, line, took, copying, copy, file>>

Nothing == [f \in Friends |-> {}]
Young(S) == {b \in S : b > aged}
Foremost(S) == {b \in S : \A d \in S : b <= d}
(* The first of them, and all there is room for.                           *)
IsStart(P, S) ==
  /\ P \subseteq S
  /\ \A b \in P, d \in S : d < b => d \in P
  /\ P = S \/ Cardinality(P) = Capacity

Init ==
  /\ up = TRUE /\ friends \subseteq Friends
  /\ status = [b \in Payloads |-> "nothing"] /\ next = 1 /\ aged = 0
  /\ line = Nothing /\ took = Nothing
  /\ copying = FALSE /\ copy = Nothing /\ file = Nothing

(* A payload is sent at once, kept, or refused because the line is full.   *)
Sent(what) ==
  /\ up /\ next \in Payloads
  /\ status' = [status EXCEPT ![next] = what]
  /\ next' = next + 1
  /\ UNCHANGED <<up, friends, aged, took, copying, copy, file>>

SendAtOnce == Sent("sent") /\ UNCHANGED line

Keep(f) ==
  /\ Sent("kept")
  /\ Cardinality(line[f]) <= Capacity
  /\ line' = [line EXCEPT ![f] = @ \cup {next}]

Drop(f) ==
  /\ Sent("dropped")
  /\ Cardinality(line[f]) >= Capacity
  /\ UNCHANGED line

(* toxcore takes the first of a line.                                      *)
Take(f) ==
  /\ up
  /\ \E b \in Foremost(line[f]) :
       /\ line' = [line EXCEPT ![f] = @ \ {b}]
       /\ took' = [took EXCEPT ![f] = @ \cup {b}]
  /\ UNCHANGED <<up, friends, status, next, aged, copying, copy, file>>

(* What is too old leaves every line, but for the one payload that is      *)
(* being offered.                                                          *)
Expire ==
  /\ up
  /\ \E offered \in SUBSET Friends :
       /\ \A f, g \in offered : f = g
       /\ line' = [f \in Friends |->
            IF f \in offered THEN Young(line[f]) \cup Foremost(line[f]) ELSE Young(line[f])]
  /\ UNCHANGED <<up, friends, status, next, aged, took, copying, copy, file>>

Age ==
  /\ aged' \in Payloads /\ aged < aged' /\ aged' < next
  /\ UNCHANGED <<up, friends, status, next, line, took, copying, copy, file>>

(* One copy at a time, of every line at one moment.                        *)
Copy ==
  /\ up /\ ~copying
  /\ copying' = TRUE
  /\ \E offered, strangers \in SUBSET Friends :
       /\ \A f, g \in offered : f = g
       /\ copy' = [f \in Friends |->
            CASE f \in strangers -> {}
              [] f \in offered \ strangers -> line[f] \ Foremost(line[f])
              [] OTHER -> line[f]]
  /\ UNCHANGED <<up, friends, status, next, aged, line, took, file>>

(* The file is replaced as a whole, or stays as it was.                    *)
Copied ==
  /\ up /\ copying
  /\ copying' = FALSE /\ copy' = Nothing
  /\ file' \in {file, copy}
  /\ UNCHANGED <<up, friends, status, next, aged, line, took>>

End ==
  /\ up /\ up' = FALSE
  /\ line' = Nothing /\ took' = Nothing /\ copying' = FALSE /\ copy' = Nothing
  /\ UNCHANGED <<status, next, aged, file>>

Crash == End /\ UNCHANGED friends

(* An orderly stop keeps every friend, and interrupts no write.            *)
Stop ==
  /\ End /\ ~copying
  /\ friends \subseteq friends' /\ friends' \subseteq Friends

(* A run begins with what the file had that is young, for every friend.    *)
Restart ==
  /\ ~up /\ up' = TRUE
  /\ \E start \in [Friends -> SUBSET Payloads] :
       /\ \A f \in Friends :
            IF f \in friends THEN IsStart(start[f], Young(file[f])) ELSE start[f] = {}
       /\ line' = start
  /\ UNCHANGED <<friends, status, next, aged, took, copying, copy, file>>

Next ==
  \/ SendAtOnce \/ Expire \/ Age \/ Copy \/ Copied \/ Crash \/ Stop \/ Restart
  \/ \E f \in Friends : Keep(f) \/ Drop(f) \/ Take(f)

Spec == Init /\ [][Next]_mail
=============================================================================

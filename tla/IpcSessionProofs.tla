-------------------------- MODULE IpcSessionProofs --------------------------
(***************************************************************************)
(* Theorems about a session of the core protocol, for any number of        *)
(* requests, addresses and sessions, every rate, burst and size of the     *)
(* table of budgets, and queues of any size.                               *)
(*                                                                         *)
(* Three invariants, in this order: the allowance of an address            *)
(* (BudgetInv), the callers whose reply is awaited, and the place in the   *)
(* line of every request of the session (OrderInv), which needs the types  *)
(* (SessionTyped) and what the ends of the connection say of the tasks     *)
(* (EndInv).                                                               *)
(***************************************************************************)
EXTENDS IpcSession, FiniteSetTheorems, SequenceTheorems, TLAPS

(* A budget is what the address may still be granted, as of when it was seen. *)
BudgetsTyped ==
  /\ clock \in Nat
  /\ budgets \in [Addresses -> [tokens : Nat, seen : Nat] \cup {None}]
  /\ served \in [Addresses -> Nat] /\ evicted \in [Addresses -> Nat]
  /\ \A a \in Addresses : budgets[a] # None => budgets[a].seen <= clock

(* x is no more than e bursts, what t brings, and the shortfall of n budgets      *)
(* that expired, for which t has room.                                       *)
Within(x, e, n, t) ==
  n * IdleTime <= t /\ x <= Burst * e + Shortfall * n + Rate * t
Due(x, e, t) == \E n \in Nat : Within(x, e, n, t)

(* What was granted and what is still in the budget: an address without a      *)
(* budget could be granted a whole burst more.                               *)
Allowance(a) ==
  IF budgets[a] = None THEN Due(served[a], evicted[a], clock)
  ELSE Due(served[a] + budgets[a].tokens, evicted[a] + 1, budgets[a].seen)

BudgetInv == BudgetsTyped /\ \A a \in Addresses : Allowance(a)

-----------------------------------------------------------------------------
(* What is due                                                                 *)

(* Products of the rate, of the burst, of the shortfall and of the idle time,  *)
(* for the provers.                                                            *)
LEMMA Amounts ==
  /\ Rate \in Nat /\ Burst \in Nat /\ IdleTime \in Nat \ {0}
  /\ Shortfall \in Nat /\ Rate * IdleTime \in Nat /\ Burst <= Shortfall + Rate * IdleTime
  BY IpcAssumption DEF Shortfall

LEMMA Products ==
  ASSUME NEW r \in Nat, NEW s \in Nat, NEW t \in Nat, s <= t
  PROVE  /\ r * s \in Nat /\ r * t \in Nat /\ t - s \in Nat /\ r * (t - s) \in Nat
         /\ r * (t - s) = r * t - r * s /\ r * s <= r * t
         /\ r * (s + 1) = r * s + r /\ (s + 1) * r = s * r + r /\ s * r \in Nat
  <1>1. r * s \in Nat /\ r * t \in Nat /\ s * r \in Nat /\ t - s \in Nat
    OBVIOUS
  <1>2. r * (t - s) \in Nat
    BY <1>1
  <1>3. r * (t - s) = r * t - r * s
    OBVIOUS
  <1>4. r * (s + 1) = r * s + r /\ (s + 1) * r = s * r + r
    OBVIOUS
  <1>5. r * s <= r * t
    BY <1>1, <1>2, <1>3
  <1> QED BY <1>1, <1>2, <1>3, <1>4, <1>5

(* Less is due as well, and so is what a refill adds as time passes. *)
LEMMA DueRefill ==
  ASSUME NEW x \in Nat, NEW y \in Nat, NEW e \in Nat, NEW s \in Nat, NEW t \in Nat,
         s <= t, Due(x, e, s), y <= x + Rate * (t - s)
  PROVE  Due(y, e, t)
  <1>1. PICK n \in Nat : Within(x, e, n, s)
    BY DEF Due
  <1> DEFINE b == Burst * e
             f == Shortfall * n
             rs == Rate * s
             rt == Rate * t
             i == n * IdleTime
  <1>2. i <= s /\ x <= b + f + rs
    BY <1>1 DEF Within
  <1>3. b \in Nat /\ f \in Nat /\ rs \in Nat /\ rt \in Nat /\ i \in Nat
    BY Amounts
  <1>4. Rate * (t - s) = rt - rs
    BY Amounts, Products
  <1>5. i <= t /\ y <= b + f + rt
    <2> HIDE DEF b, f, rs, rt, i
    <2> QED BY <1>2, <1>3, <1>4
  <1>6. Within(y, e, n, t)
    BY <1>5 DEF Within
  <1> QED BY <1>6 DEF Due

(* A budget dropped for room, or made for an address that has none, is a burst. *)
LEMMA DueBurst ==
  ASSUME NEW x \in Nat, NEW y \in Nat, NEW e \in Nat, NEW t \in Nat,
         Due(x, e, t), y <= x + Burst
  PROVE  Due(y, e + 1, t)
  <1>1. PICK n \in Nat : Within(x, e, n, t)
    BY DEF Due
  <1> DEFINE b == Burst * e
             f == Shortfall * n
             rt == Rate * t
  <1>2. x <= b + f + rt /\ n * IdleTime <= t
    BY <1>1 DEF Within
  <1>3. b \in Nat /\ f \in Nat /\ rt \in Nat /\ Burst \in Nat /\ Burst * (e + 1) = b + Burst
    BY Amounts, Products
  <1>4. y <= Burst * (e + 1) + f + rt
    <2> HIDE DEF b, f, rt
    <2> QED BY <1>2, <1>3
  <1>5. Within(y, e + 1, n, t)
    BY <1>2, <1>4 DEF Within
  <1> QED BY <1>5 DEF Due

(* A budget that expires had refilled, but for the shortfall. *)
LEMMA DueExpired ==
  ASSUME NEW x \in Nat, NEW y \in Nat, NEW e \in Nat, NEW s \in Nat, NEW t \in Nat,
         Due(x, e + 1, s), y <= x, s + IdleTime <= t
  PROVE  Due(y, e, t)
  <1>1. PICK n \in Nat : Within(x, e + 1, n, s)
    BY DEF Due
  <1> DEFINE b == Burst * e
             f == Shortfall * n
             rs == Rate * s
             rt == Rate * t
             ri == Rate * IdleTime
             i == n * IdleTime
  <1>2. i <= s /\ x <= Burst * (e + 1) + f + rs
    BY <1>1 DEF Within
  <1>3. b \in Nat /\ f \in Nat /\ rs \in Nat /\ rt \in Nat /\ ri \in Nat /\ i \in Nat
    BY Amounts
  <1>4. /\ Burst * (e + 1) = b + Burst /\ Shortfall * (n + 1) = f + Shortfall
        /\ (n + 1) * IdleTime = i + IdleTime
    BY Amounts, Products
  <1>5. rs + ri <= rt
    <2>1. s + IdleTime \in Nat /\ Rate * (s + IdleTime) = rs + ri
      BY Amounts
    <2>2. Rate * (s + IdleTime) <= Rate * t
      BY <2>1, Amounts, Products
    <2> QED BY <2>1, <2>2
  <1>6. /\ Burst \in Nat /\ Shortfall \in Nat /\ IdleTime \in Nat
        /\ Burst <= Shortfall + ri
    BY Amounts
  <1>7. i + IdleTime <= t /\ y <= b + (f + Shortfall) + rt
    <2> HIDE DEF b, f, rs, rt, ri, i
    <2> QED BY <1>2, <1>3, <1>4, <1>5, <1>6
  <1>8. Within(y, e, n + 1, t)
    BY <1>4, <1>7 DEF Within
  <1> QED BY <1>8 DEF Due

(* Time has no room for more budgets that expired than idle times. *)
LEMMA DueBounded ==
  ASSUME NEW x \in Nat, NEW e \in Nat, NEW t \in Nat, Due(x, e, t)
  PROVE  x <= Burst * e + Shortfall * (t \div IdleTime) + Rate * t
  <1>1. PICK n \in Nat : Within(x, e, n, t)
    BY DEF Due
  <1> DEFINE q == t \div IdleTime
  <1>2. q \in Nat /\ n <= q
    <2>1. IdleTime \in Nat /\ IdleTime > 0 /\ n * IdleTime <= t
      BY <1>1, Amounts DEF Within
    <2>2. q \in Nat /\ t < (q + 1) * IdleTime
      BY <2>1
    <2>3. CASE n >= q + 1
      <3>1. IdleTime * (q + 1) <= IdleTime * n
        BY <2>1, <2>2, <2>3, Products
      <3>2. IdleTime * (q + 1) = (q + 1) * IdleTime /\ IdleTime * n = n * IdleTime
            /\ (q + 1) * IdleTime \in Nat /\ n * IdleTime \in Nat
        BY <2>1, <2>2
      <3> QED BY <2>1, <2>2, <3>1, <3>2
    <2> QED BY <2>2, <2>3
  <1> HIDE DEF q
  <1>3. Shortfall * n <= Shortfall * q /\ Shortfall * n \in Nat /\ Shortfall * q \in Nat
    BY <1>2, Amounts, Products
  <1>4. Burst * e \in Nat /\ Rate * t \in Nat
    BY Amounts
  <1>5. x <= Burst * e + Shortfall * n + Rate * t
    BY <1>1 DEF Within
  <1>6. x <= Burst * e + Shortfall * q + Rate * t
    BY <1>3, <1>4, <1>5
  <1> QED BY <1>6 DEF q

-----------------------------------------------------------------------------
(* The budgets                                                                 *)

(* A budget the sweep drops had refilled: its address is owed no less than a    *)
(* whole burst, but for the shortfall.                                       *)
LEMMA SweepKeepsAllowance ==
  ASSUME BudgetInv, NEW a \in Addresses
  PROVE  /\ Swept[a] \in [tokens : Nat, seen : Nat] \cup {None}
         /\ Swept[a] = None => Due(served[a], evicted[a], clock)
         /\ Swept[a] # None =>
              /\ Swept[a].seen <= clock
              /\ Due(served[a] + Swept[a].tokens, evicted[a] + 1, Swept[a].seen)
  <1> USE DEF BudgetInv, BudgetsTyped
  <1>1. CASE budgets[a] = None
    BY <1>1 DEF Swept, Allowance
  <1>2. CASE budgets[a] # None /\ clock - budgets[a].seen < IdleTime
    BY <1>2 DEF Swept, Allowance
  <1>3. CASE budgets[a] # None /\ ~(clock - budgets[a].seen < IdleTime)
    <2>1. Swept[a] = None
      BY <1>3 DEF Swept
    <2>2. budgets[a].seen \in Nat /\ budgets[a].tokens \in Nat /\ budgets[a].seen <= clock
      BY <1>3
    <2>3. budgets[a].seen + IdleTime <= clock
      BY <1>3, <2>2, Amounts
    <2>4. Due(served[a] + budgets[a].tokens, evicted[a] + 1, budgets[a].seen)
      BY <1>3 DEF Allowance
    <2>5. served[a] \in Nat /\ evicted[a] \in Nat /\ clock \in Nat
          /\ served[a] + budgets[a].tokens \in Nat /\ served[a] <= served[a] + budgets[a].tokens
      BY <2>2
    <2>6. Due(served[a], evicted[a], clock)
      BY <2>2, <2>3, <2>4, <2>5, DueExpired
    <2> QED BY <2>1, <2>6
  <1> QED BY <1>1, <1>2, <1>3

(* What a request finds in the budget, refilled, is within the allowance.      *)
LEMMA TokensWithinAllowance ==
  ASSUME BudgetInv, NEW a \in Addresses
  PROVE  /\ Tokens(a) \in Nat
         /\ Due(served[a] + Tokens(a), evicted[a] + 1, clock)
  <1> DEFINE b == Swept[a]
  <1>1. served[a] \in Nat /\ evicted[a] \in Nat /\ clock \in Nat
    BY DEF BudgetInv, BudgetsTyped
  <1>2. CASE b = None
    <2>1. Tokens(a) = Burst /\ Burst \in Nat
      BY <1>2, Amounts DEF Tokens
    <2>2. Due(served[a], evicted[a], clock)
      BY <1>2, SweepKeepsAllowance
    <2>3. served[a] + Burst \in Nat /\ served[a] + Burst <= served[a] + Burst
      BY <1>1, <2>1
    <2>4. Due(served[a] + Burst, evicted[a] + 1, clock)
      BY <1>1, <2>2, <2>3, DueBurst
    <2> QED BY <2>1, <2>4
  <1>3. CASE b # None
    <2>1. /\ b.tokens \in Nat /\ b.seen \in Nat /\ b.seen <= clock
          /\ Due(served[a] + b.tokens, evicted[a] + 1, b.seen)
      BY <1>3, SweepKeepsAllowance
    <2>2. Rate * (clock - b.seen) \in Nat
      BY <1>1, <2>1, Amounts, Products
    <2>3. Tokens(a) = Least(Burst, b.tokens + Rate * (clock - b.seen))
      BY <1>3 DEF Tokens
    <2> DEFINE more == Rate * (clock - b.seen)
    <2>4. Tokens(a) \in Nat /\ Tokens(a) <= b.tokens + more
      BY <2>1, <2>2, <2>3, Amounts DEF Least
    <2>5. /\ served[a] + b.tokens \in Nat /\ served[a] + Tokens(a) \in Nat
          /\ served[a] + Tokens(a) <= (served[a] + b.tokens) + more /\ evicted[a] + 1 \in Nat
      <3> HIDE DEF b, more
      <3> QED BY <1>1, <2>1, <2>2, <2>4 DEF more
    <2> DEFINE x == served[a] + b.tokens
               y == served[a] + Tokens(a)
               e == evicted[a] + 1
    <2>6. Due(y, e, clock)
      <3>1. x \in Nat /\ y \in Nat /\ e \in Nat /\ y <= x + Rate * (clock - b.seen)
        BY <2>5
      <3>2. Due(x, e, b.seen) /\ b.seen \in Nat /\ b.seen <= clock
        BY <2>1
      <3> HIDE DEF b, x, y, e
      <3> QED BY <1>1, <3>1, <3>2, DueRefill
    <2> QED BY <2>4, <2>6
  <1> QED BY <1>2, <1>3

(* A request at an address: its own budget is charged, another one's may be     *)
(* swept or dropped for room, which is counted.                              *)
LEMMA AcquireInv ==
  ASSUME BudgetInv, NEW a \in Addresses, Acquire(a), UNCHANGED clock
  PROVE  BudgetInv'
  <1> USE IpcAssumption
  <1>1. PICK victim \in Victims(a) :
          /\ budgets' = [o \in Addresses |->
               IF o = a
               THEN [tokens |-> Tokens(a) - (IF Granted(a) THEN 1 ELSE 0), seen |-> clock]
               ELSE IF o = victim THEN None ELSE Swept[o]]
          /\ evicted' = [o \in Addresses |->
               IF o = victim THEN evicted[o] + 1 ELSE evicted[o]]
          /\ served' = [served EXCEPT ![a] = @ + (IF Granted(a) THEN 1 ELSE 0)]
    BY DEF Acquire
  <1>2. clock \in Nat /\ served \in [Addresses -> Nat] /\ evicted \in [Addresses -> Nat]
    BY DEF BudgetInv, BudgetsTyped
  <1>3. victim \in Addresses => victim \in Tracked(Swept) /\ Swept[a] = None
    BY DEF Victims, NeedsRoom, Oldest
  <1>4. victim # a
    BY <1>3 DEF Tracked
  <1> DEFINE left == Tokens(a) - (IF Granted(a) THEN 1 ELSE 0)
             spent == [tokens |-> left, seen |-> clock]
  <1>5. /\ left \in Nat /\ spent \in [tokens : Nat, seen : Nat] /\ spent # None
        /\ served'[a] + left = served[a] + Tokens(a)
        /\ served' \in [Addresses -> Nat] /\ \A o \in Addresses \ {a} : served'[o] = served[o]
    <2>1. Tokens(a) \in Nat
      BY TokensWithinAllowance
    <2>2. left \in Nat /\ left = IF Granted(a) THEN Tokens(a) - 1 ELSE Tokens(a)
      BY <2>1 DEF Granted
    <2>3. spent \in [tokens : Nat, seen : Nat] /\ spent # None
      BY <1>2, <2>2
    <2>4. served'[a] = served[a] + (IF Granted(a) THEN 1 ELSE 0) /\ served[a] \in Nat
      BY <1>1, <1>2
    <2>5. served' \in [Addresses -> Nat] /\ \A o \in Addresses \ {a} : served'[o] = served[o]
      BY <1>1, <1>2
    <2> HIDE DEF left, spent
    <2>6. served'[a] + left = served[a] + Tokens(a)
      BY <2>1, <2>2, <2>4
    <2> QED BY <2>2, <2>3, <2>5, <2>6
  <1>6. /\ evicted' \in [Addresses -> Nat] /\ evicted'[a] = evicted[a]
        /\ budgets'[a] = spent
    BY <1>1, <1>2, <1>4
  <1>7. BudgetsTyped'
    <2>1. \A o \in Addresses : /\ budgets'[o] \in [tokens : Nat, seen : Nat] \cup {None}
                               /\ budgets'[o] # None => budgets'[o].seen <= clock
      <3> TAKE o \in Addresses
      <3>1. CASE o = a
        BY <1>2, <1>5, <1>6, <3>1
      <3>2. CASE o # a /\ o = victim
        BY <1>1, <3>2
      <3>3. CASE o # a /\ o # victim
        BY <1>1, <3>3, SweepKeepsAllowance
      <3> QED BY <3>1, <3>2, <3>3
    <2>2. budgets' \in [Addresses -> [tokens : Nat, seen : Nat] \cup {None}]
      BY <1>1, <2>1
    <2> QED BY <1>2, <1>5, <1>6, <2>1, <2>2 DEF BudgetsTyped
  <1>8. ASSUME NEW o \in Addresses PROVE Allowance(o)'
    <2>1. CASE o = a
      <3>1. Due(served'[a] + left, evicted'[a] + 1, clock')
        BY <1>5, <1>6, TokensWithinAllowance
      <3>2. budgets'[a] # None /\ budgets'[a].tokens = left /\ budgets'[a].seen = clock'
        BY <1>5, <1>6
      <3> QED BY <2>1, <3>1, <3>2 DEF Allowance
    <2>2. CASE o # a /\ o = victim
      <3>1. budgets'[o] = None /\ evicted'[o] = evicted[o] + 1 /\ served'[o] = served[o]
        BY <1>1, <1>2, <1>5, <2>2
      <3>2. /\ Swept[o].tokens \in Nat /\ Swept[o].seen \in Nat /\ Swept[o].seen <= clock
            /\ Due(served[o] + Swept[o].tokens, evicted[o] + 1, Swept[o].seen)
        BY <1>3, <2>2, SweepKeepsAllowance DEF Tracked
      <3>3. /\ served[o] \in Nat /\ served[o] + Swept[o].tokens \in Nat /\ evicted[o] + 1 \in Nat
            /\ served[o] <= (served[o] + Swept[o].tokens) + Rate * (clock - Swept[o].seen)
        <4>1. Rate * (clock - Swept[o].seen) \in Nat
          BY <1>2, <3>2, Amounts, Products
        <4> QED BY <1>2, <3>2, <4>1
      <3> DEFINE x == served[o] + Swept[o].tokens
                 e == evicted[o] + 1
      <3>4. Due(served[o], e, clock)
        <4>1. x \in Nat /\ e \in Nat /\ served[o] <= x + Rate * (clock - Swept[o].seen)
          BY <3>3
        <4>2. Due(x, e, Swept[o].seen)
          BY <3>2
        <4> HIDE DEF x, e
        <4> QED BY <1>2, <3>2, <3>3, <4>1, <4>2, DueRefill
      <3> QED BY <3>1, <3>4 DEF Allowance
    <2>3. CASE o # a /\ o # victim
      <3>1. budgets'[o] = Swept[o] /\ evicted'[o] = evicted[o] /\ served'[o] = served[o]
        BY <1>1, <1>2, <1>5, <2>3
      <3> QED BY <3>1, SweepKeepsAllowance DEF Allowance
    <2> QED BY <2>1, <2>2, <2>3
  <1> QED BY <1>7, <1>8 DEF BudgetInv

(* Time brings more. *)
LEMMA TimeInv == BudgetInv /\ TimePasses => BudgetInv'
  <1> SUFFICES ASSUME BudgetInv, TimePasses PROVE BudgetInv'
    OBVIOUS
  <1>1. clock \in Nat /\ clock' = clock + 1 /\ UNCHANGED <<budgets, served, evicted>>
    BY DEF BudgetInv, BudgetsTyped, TimePasses, limiter
  <1>2. BudgetsTyped'
    BY <1>1 DEF BudgetInv, BudgetsTyped
  <1>3. ASSUME NEW a \in Addresses PROVE Allowance(a)'
    <2>1. CASE budgets[a] = None
      <3>1. served[a] \in Nat /\ evicted[a] \in Nat /\ Due(served[a], evicted[a], clock)
        BY <2>1 DEF BudgetInv, BudgetsTyped, Allowance
      <3>2. clock + 1 \in Nat /\ clock <= clock + 1
            /\ served[a] <= served[a] + Rate * ((clock + 1) - clock)
        BY <1>1, <3>1, Amounts, Products
      <3>3. Due(served[a], evicted[a], clock + 1)
        BY <1>1, <3>1, <3>2, DueRefill
      <3> QED BY <1>1, <2>1, <3>3 DEF Allowance
    <2>2. CASE budgets[a] # None
      BY <1>1, <2>2 DEF BudgetInv, Allowance
    <2> QED BY <2>1, <2>2
  <1> QED BY <1>2, <1>3 DEF BudgetInv

(* Nothing is due for nothing. *)
LEMMA InitBudgets == Init => BudgetInv
  <1> SUFFICES ASSUME Init PROVE BudgetInv
    OBVIOUS
  <1>1. BudgetsTyped
    BY IpcAssumption DEF Init, BudgetsTyped
  <1>2. Due(0, 0, 0)
    <2>1. Within(0, 0, 0, 0)
      BY Amounts DEF Within
    <2> QED BY <2>1 DEF Due
  <1> QED BY <1>1, <1>2 DEF Init, BudgetInv, Allowance

(* Requests and time aside, nothing touches the budgets. *)
LEMMA StepKeepsBudgets ==
  ASSUME BudgetInv, [Next]_vars
  PROVE  BudgetInv'
  <1>1. CASE \E a \in Addresses : Elsewhere(a)
    BY <1>1, AcquireInv DEF Elsewhere
  <1>2. CASE Admit
    BY <1>2, AcquireInv, IpcAssumption DEF Admit
  <1>3. CASE TimePasses
    BY <1>3, TimeInv
  <1>4. CASE UNCHANGED <<limiter, clock>>
    BY <1>4 DEF limiter, BudgetInv, BudgetsTyped, Allowance
  <1>5. UNCHANGED vars => UNCHANGED <<limiter, clock>>
    BY DEF vars
  <1>6. Attach \/ Cut \/ Leave \/ Publish => UNCHANGED <<limiter, clock>>
    BY DEF Attach, Cut, Leave, Publish
  <1>7. ASSUME NEW r \in Requests, Call(r) \/ CallLate(r) \/ Deadline(r) \/ CallerStep(r)
        PROVE  UNCHANGED <<limiter, clock>>
    BY <1>7 DEF Call, CallLate, Deadline, CallerStep, Queue, QueueFails, Dropped
  <1>8. PumpStep => UNCHANGED <<limiter, clock>>
    BY DEF PumpStep, Take, Write, Receive, PumpEnds, Clear, PumpReturns
  <1>9. ServerStep => Admit \/ UNCHANGED <<limiter, clock>>
    BY DEF ServerStep, Subscribe, Pass, Notice, Tell, NoticesEnd, Ends, Detach
  <1>10. DispatcherStep => UNCHANGED <<limiter, clock>>
    BY DEF DispatcherStep, Dispatch, CoreReplies, Reply, ReplyFails
  <1> QED BY <1>1, <1>2, <1>3, <1>4, <1>5, <1>6, <1>7, <1>8, <1>9, <1>10 DEF Next

(* "Reconnecting does not reset it": what an address was granted is within its   *)
(* burst, what time brought, a burst for each budget that was dropped for room,   *)
(* and a shortfall for each idle time (PeerBudgets, TokenBucket).            *)
THEOREM BudgetsAreKept == Spec => []ServedWithinBudget
  <1>1. Init => BudgetInv
    BY InitBudgets
  <1>2. BudgetInv /\ [Next]_vars => BudgetInv'
    BY StepKeepsBudgets
  <1>3. BudgetInv => ServedWithinBudget
    <2> SUFFICES ASSUME BudgetInv, NEW a \in Addresses
                 PROVE  served[a] <= Burst * (1 + evicted[a]) + Shortfall * (clock \div IdleTime)
                                       + Rate * clock
      BY DEF ServedWithinBudget
    <2>1. Tokens(a) \in Nat /\ Due(served[a] + Tokens(a), evicted[a] + 1, clock)
      BY TokensWithinAllowance
    <2>2. served[a] \in Nat /\ evicted[a] \in Nat /\ clock \in Nat
      BY DEF BudgetInv, BudgetsTyped
    <2> DEFINE bound == Burst * (evicted[a] + 1) + Shortfall * (clock \div IdleTime) + Rate * clock
    <2>3. served[a] + Tokens(a) \in Nat /\ evicted[a] + 1 \in Nat
      BY <2>1, <2>2
    <2>4. served[a] + Tokens(a) <= bound
      BY <2>1, <2>2, <2>3, DueBounded
    <2>5. bound \in Nat
      <3>1. clock \div IdleTime \in Nat
        BY <2>2, Amounts
      <3> QED BY <2>2, <3>1, Amounts
    <2>6. served[a] <= bound
      <3> HIDE DEF bound
      <3> QED BY <2>1, <2>2, <2>4, <2>5
    <2>7. evicted[a] + 1 = 1 + evicted[a]
      BY <2>2
    <2> QED BY <2>6, <2>7
  <1> QED BY <1>1, <1>2, <1>3, PTL DEF Spec

(* A reply is awaited for a request that was made and has not ended, or the       *)
(* table would grow (RemoteClient::request, pump).                            *)
THEOREM RepliesAreAwaited == Spec => []TableIsLive
  <1> DEFINE Inv == TableIsLive /\ table \subseteq Requests
                    /\ call \in [Requests -> {"new", "inserted", "awaiting", "done"}]
  <1>1. Init => Inv
    BY DEF Init, TableIsLive
  <1>2. Inv /\ [Next]_vars => Inv'
    <2> SUFFICES ASSUME Inv, [Next]_vars PROVE Inv'
      OBVIOUS
    <2> USE DEF TableIsLive
    <2>1. CASE UNCHANGED <<call, table>>
      BY <2>1
    <2>2. ASSUME NEW r \in Requests, Call(r) \/ CallLate(r) \/ Deadline(r)
          PROVE  Inv'
      BY <2>2 DEF Call, CallLate, Deadline, IsNext
    <2>3. ASSUME NEW r \in Requests, CallerStep(r)
          PROVE  Inv'
      BY <2>3 DEF CallerStep, Queue, QueueFails, Dropped
    <2>4. CASE Leave
      BY <2>4 DEF Leave
    <2>5. CASE Receive
      BY <2>5 DEF Receive
    <2>6. CASE Clear
      BY <2>6 DEF Clear
    <2>7. PumpStep => Receive \/ Clear \/ UNCHANGED <<call, table>>
      BY DEF PumpStep, Take, Write, PumpEnds, PumpReturns, caller
    <2>8. ServerStep \/ DispatcherStep => UNCHANGED <<call, table>>
      BY DEF ServerStep, Subscribe, Admit, Pass, Notice, Tell, NoticesEnd, Ends, Detach,
             DispatcherStep, Dispatch, CoreReplies, Reply, ReplyFails, caller
    <2>9. (\E a \in Addresses : Elsewhere(a)) \/ TimePasses \/ Attach \/ Cut \/ Publish
            => UNCHANGED <<call, table>>
      BY DEF Elsewhere, TimePasses, Attach, Cut, Publish, caller
    <2>10. UNCHANGED vars => UNCHANGED <<call, table>>
      BY DEF vars, caller
    <2> QED BY <2>1, <2>2, <2>3, <2>4, <2>5, <2>6, <2>7, <2>8, <2>9, <2>10 DEF Next
  <1> QED BY <1>1, <1>2, PTL DEF Spec

-----------------------------------------------------------------------------
(* Queues                                                                      *)

LEMMA TakenFrom ==
  ASSUME NEW S, NEW s \in Seq(S), s # <<>>
  PROVE  /\ Head(s) \in S /\ Head(s) = s[1] /\ Tail(s) \in Seq(S)
         /\ Len(s) \in Nat \ {0} /\ Len(Tail(s)) = Len(s) - 1
         /\ \A i \in 1..Len(s) - 1 : Tail(s)[i] = s[i + 1]
  <1>1. Len(s) \in Nat \ {0}
    BY EmptySeq
  <1> QED BY <1>1, HeadTailProperties

LEMMA AddedTo ==
  ASSUME NEW S, NEW s \in Seq(S), NEW e \in S
  PROVE  /\ Append(s, e) \in Seq(S)
         /\ Len(s) \in Nat /\ Len(Append(s, e)) = Len(s) + 1
         /\ \A i \in 1..Len(s) : Append(s, e)[i] = s[i]
         /\ Append(s, e)[Len(s) + 1] = e
  BY LenProperties

LEMMA PartOf ==
  ASSUME NEW S, NEW s \in Seq(S), NEW t \in Some(s)
  PROVE  /\ t \in Seq(S) /\ Len(t) \in Nat /\ Len(s) \in Nat /\ Len(t) <= Len(s)
         /\ \A i \in 1..Len(t) : t[i] = s[i]
  <1>1. PICK n \in 0..Len(s) : t = SubSeq(s, 1, n)
    BY DEF Some
  <1>2. Len(s) \in Nat /\ \A i \in 1..n : s[i] \in S
    BY LenProperties, ElementOfSeq
  <1>3. /\ t \in Seq(S) /\ Len(t) = n
        /\ \A i \in 1..n : t[i] = s[i]
    BY <1>1, <1>2, SubSeqProperties
  <1> QED BY <1>2, <1>3

-----------------------------------------------------------------------------
(* The replies on their way                                                    *)
(*                                                                             *)
(* A line numbers its requests.  Among the frames down to the client, the      *)
(* replies are those to the requests from + 1 up to to, in their order, with   *)
(* events in between.                                                          *)
Numbers(line, frames, from, n) ==
  /\ n[0] = from
  /\ \A i \in 1..Len(frames) :
       IF frames[i] = 0 THEN n[i] = n[i - 1]
       ELSE n[i] = n[i - 1] + 1 /\ frames[i] = line[n[i]]

Numbered(line, frames, from, to) ==
  \E n \in [0..Len(frames) -> 0..Len(line)] :
    Numbers(line, frames, from, n) /\ n[Len(frames)] = to

LEMMA NumberedNothing ==
  ASSUME NEW S, NEW line \in Seq(S), NEW from \in 0..Len(line)
  PROVE  Numbered(line, <<>>, from, from)
  <1> DEFINE n == [i \in 0..0 |-> from]
  <1>1. n \in [0..Len(<<>>) -> 0..Len(line)] /\ Numbers(line, <<>>, from, n) /\ n[Len(<<>>)] = from
    BY DEF Numbers
  <1> QED BY <1>1 DEF Numbered

LEMMA NumberedLonger ==
  ASSUME NEW S, NEW line \in Seq(S), NEW e \in S, NEW frames, NEW from, NEW to,
         Len(frames) \in Nat, Numbered(line, frames, from, to)
  PROVE  Numbered(Append(line, e), frames, from, to)
  <1>1. PICK n \in [0..Len(frames) -> 0..Len(line)] :
          Numbers(line, frames, from, n) /\ n[Len(frames)] = to
    BY DEF Numbered
  <1>2. n \in [0..Len(frames) -> 0..Len(Append(line, e))]
    BY AddedTo
  <1>3. \A i \in 1..Len(frames) : frames[i] # 0 => n[i] \in 1..Len(line)
    <2> TAKE i \in 1..Len(frames)
    <2>1. i \in 0..Len(frames) /\ i - 1 \in 0..Len(frames)
      OBVIOUS
    <2>2. n[i] \in 0..Len(line) /\ n[i - 1] \in 0..Len(line) /\ Len(line) \in Nat
      BY <2>1, LenProperties
    <2> QED BY <1>1, <2>2 DEF Numbers
  <1>4. Numbers(Append(line, e), frames, from, n)
    BY <1>1, <1>3, AddedTo DEF Numbers
  <1> QED BY <1>1, <1>2, <1>4 DEF Numbered

LEMMA NumberedPart ==
  ASSUME NEW S, NEW line, NEW frames \in Seq(S), NEW part \in Some(frames), NEW from, NEW to,
         Len(line) \in Nat, Numbered(line, frames, from, to)
  PROVE  \E end \in 0..Len(line) : Numbered(line, part, from, end)
  <1>1. PICK n \in [0..Len(frames) -> 0..Len(line)] :
          Numbers(line, frames, from, n) /\ n[Len(frames)] = to
    BY DEF Numbered
  <1>2. Len(part) \in Nat /\ Len(frames) \in Nat /\ Len(part) <= Len(frames)
        /\ \A i \in 1..Len(part) : part[i] = frames[i]
    BY PartOf
  <1> DEFINE m == [i \in 0..Len(part) |-> n[i]]
  <1>3. m \in [0..Len(part) -> 0..Len(line)]
    BY <1>2
  <1>4. \A i \in 0..Len(part) : m[i] = n[i]
    OBVIOUS
  <1> HIDE DEF m
  <1>5. Numbers(line, part, from, m)
    <2>1. m[0] = from
      BY <1>1, <1>2, <1>4 DEF Numbers
    <2>2. ASSUME NEW i \in 1..Len(part)
          PROVE  IF part[i] = 0 THEN m[i] = m[i - 1]
                 ELSE m[i] = m[i - 1] + 1 /\ part[i] = line[m[i]]
      <3>1. i \in 1..Len(frames) /\ part[i] = frames[i] /\ m[i] = n[i] /\ m[i - 1] = n[i - 1]
        BY <1>2, <1>4
      <3> QED BY <1>1, <3>1 DEF Numbers
    <2> QED BY <2>1, <2>2 DEF Numbers
  <1>6. m[Len(part)] \in 0..Len(line)
    BY <1>2, <1>3
  <1> QED BY <1>3, <1>5, <1>6 DEF Numbered

LEMMA NumberedEvent ==
  ASSUME NEW S, NEW line, NEW frames \in Seq(S), 0 \in S, NEW from, NEW to,
         Len(line) \in Nat, Numbered(line, frames, from, to)
  PROVE  Numbered(line, Append(frames, 0), from, to)
  <1>1. PICK n \in [0..Len(frames) -> 0..Len(line)] :
          Numbers(line, frames, from, n) /\ n[Len(frames)] = to
    BY DEF Numbered
  <1> DEFINE long == Append(frames, 0)
             m == [i \in 0..Len(frames) + 1 |-> IF i = Len(frames) + 1 THEN to ELSE n[i]]
  <1>2. /\ Len(frames) \in Nat /\ Len(long) = Len(frames) + 1
        /\ \A i \in 1..Len(frames) : long[i] = frames[i]
        /\ long[Len(frames) + 1] = 0
    BY AddedTo
  <1>3. to \in 0..Len(line)
    BY <1>1, <1>2
  <1>4. m \in [0..Len(long) -> 0..Len(line)]
    BY <1>2, <1>3
  <1>5. m[Len(frames) + 1] = to /\ \A i \in 0..Len(frames) : m[i] = n[i]
    BY <1>2
  <1> HIDE DEF m, long
  <1>6. Numbers(line, long, from, m)
    <2>1. m[0] = from
      BY <1>1, <1>2, <1>5 DEF Numbers
    <2>2. ASSUME NEW i \in 1..Len(long)
          PROVE  IF long[i] = 0 THEN m[i] = m[i - 1]
                 ELSE m[i] = m[i - 1] + 1 /\ long[i] = line[m[i]]
      <3>1. CASE i \in 1..Len(frames)
        <4>1. long[i] = frames[i] /\ m[i] = n[i] /\ m[i - 1] = n[i - 1]
          BY <1>2, <1>5, <3>1
        <4> QED BY <1>1, <3>1, <4>1 DEF Numbers
      <3>2. CASE i = Len(frames) + 1
        <4>1. m[i - 1] = n[Len(frames)]
          BY <1>2, <1>5, <3>2
        <4> QED BY <1>1, <1>2, <1>5, <3>2, <4>1
      <3> QED BY <1>2, <3>1, <3>2
    <2> QED BY <2>1, <2>2 DEF Numbers
  <1>7. Numbered(line, long, from, to)
    BY <1>2, <1>4, <1>5, <1>6 DEF Numbered
  <1> QED BY <1>7 DEF long

LEMMA NumberedReply ==
  ASSUME NEW S, NEW line, NEW frames \in Seq(S), NEW from, NEW to \in Nat,
         Len(line) \in Nat, to + 1 <= Len(line), line[to + 1] \in S, line[to + 1] # 0,
         Numbered(line, frames, from, to)
  PROVE  Numbered(line, Append(frames, line[to + 1]), from, to + 1)
  <1>1. PICK n \in [0..Len(frames) -> 0..Len(line)] :
          Numbers(line, frames, from, n) /\ n[Len(frames)] = to
    BY DEF Numbered
  <1> DEFINE long == Append(frames, line[to + 1])
             m == [i \in 0..Len(frames) + 1 |-> IF i = Len(frames) + 1 THEN to + 1 ELSE n[i]]
  <1>2. /\ Len(frames) \in Nat /\ Len(long) = Len(frames) + 1
        /\ \A i \in 1..Len(frames) : long[i] = frames[i]
        /\ long[Len(frames) + 1] = line[to + 1]
    BY AddedTo
  <1>4. m \in [0..Len(long) -> 0..Len(line)]
    BY <1>2
  <1>5. m[Len(frames) + 1] = to + 1 /\ \A i \in 0..Len(frames) : m[i] = n[i]
    BY <1>2
  <1> HIDE DEF m, long
  <1>6. Numbers(line, long, from, m)
    <2>1. m[0] = from
      BY <1>1, <1>2, <1>5 DEF Numbers
    <2>2. ASSUME NEW i \in 1..Len(long)
          PROVE  IF long[i] = 0 THEN m[i] = m[i - 1]
                 ELSE m[i] = m[i - 1] + 1 /\ long[i] = line[m[i]]
      <3>1. CASE i \in 1..Len(frames)
        <4>1. long[i] = frames[i] /\ m[i] = n[i] /\ m[i - 1] = n[i - 1]
          BY <1>2, <1>5, <3>1
        <4> QED BY <1>1, <3>1, <4>1 DEF Numbers
      <3>2. CASE i = Len(frames) + 1
        <4>1. m[i - 1] = n[Len(frames)]
          BY <1>2, <1>5, <3>2
        <4> QED BY <1>1, <1>2, <1>5, <3>2, <4>1
      <3> QED BY <1>2, <3>1, <3>2
    <2> QED BY <2>1, <2>2 DEF Numbers
  <1>7. Numbered(line, long, from, to + 1)
    BY <1>2, <1>4, <1>5, <1>6 DEF Numbered
  <1> QED BY <1>7 DEF long

(* The first frame is an event, or the reply to the first request.             *)
LEMMA NumberedFirst ==
  ASSUME NEW S, NEW line, NEW frames \in Seq(S), frames # <<>>, NEW from, NEW to,
         Len(line) \in Nat, Numbered(line, frames, from, to)
  PROVE  IF Head(frames) = 0 THEN Numbered(line, Tail(frames), from, to)
         ELSE /\ from \in Nat /\ from + 1 <= Len(line) /\ Head(frames) = line[from + 1]
              /\ Numbered(line, Tail(frames), from + 1, to)
  <1>1. PICK n \in [0..Len(frames) -> 0..Len(line)] :
          Numbers(line, frames, from, n) /\ n[Len(frames)] = to
    BY DEF Numbered
  <1>2. /\ Len(frames) \in Nat \ {0} /\ Len(Tail(frames)) = Len(frames) - 1
        /\ Head(frames) = frames[1]
        /\ \A i \in 1..Len(frames) - 1 : Tail(frames)[i] = frames[i + 1]
    BY TakenFrom
  <1> DEFINE rest == Tail(frames)
             m == [i \in 0..Len(frames) - 1 |-> n[i + 1]]
  <1>3. m \in [0..Len(rest) -> 0..Len(line)]
    BY <1>2
  <1>4. \A i \in 0..Len(frames) - 1 : m[i] = n[i + 1]
    OBVIOUS
  <1>5. n[0] \in 0..Len(line) /\ n[1] \in 0..Len(line)
    BY <1>2
  <1> HIDE DEF m, rest
  <1>6. Numbers(line, rest, n[1], m)
    <2>1. m[0] = n[1]
      BY <1>2, <1>4
    <2>2. ASSUME NEW i \in 1..Len(rest)
          PROVE  IF rest[i] = 0 THEN m[i] = m[i - 1]
                 ELSE m[i] = m[i - 1] + 1 /\ rest[i] = line[m[i]]
      <3>1. rest[i] = frames[i + 1] /\ i + 1 \in 1..Len(frames) /\ (i + 1) - 1 = i
            /\ m[i] = n[i + 1] /\ m[i - 1] = n[i]
        BY <1>2, <1>4 DEF rest
      <3> QED BY <1>1, <3>1 DEF Numbers
    <2> QED BY <2>1, <2>2 DEF Numbers
  <1>7. m[Len(rest)] = to
    BY <1>1, <1>2, <1>4 DEF rest
  <1>8. Numbered(line, rest, n[1], to)
    BY <1>3, <1>6, <1>7 DEF Numbered
  <1>9. IF frames[1] = 0 THEN n[1] = from ELSE n[1] = from + 1 /\ frames[1] = line[n[1]]
    BY <1>1, <1>2 DEF Numbers
  <1> QED BY <1>1, <1>2, <1>5, <1>8, <1>9 DEF rest, Numbers

-----------------------------------------------------------------------------
(* Every variable has its type                                                 *)

(* What the constants are.                                                     *)
LEMMA Sizes ==
  /\ Home \in Addresses /\ MaxRequests \in Nat /\ 0 \in 0..MaxRequests
  /\ OutboxCapacity \in Nat \ {0} /\ UpCapacity \in Nat \ {0}
  /\ RequestCapacity \in Nat \ {0} /\ DownCapacity \in Nat \ {0} /\ EventCapacity \in Nat \ {0}
  /\ Burst \in Nat \ {0} /\ TableCapacity \in Nat \ {0} /\ Strikes \in Nat \ {0}
  /\ MaxEvents \in Nat /\ MaxClock \in Nat /\ MaxSessions \in Nat /\ MaxElsewhere \in Nat
  BY IpcAssumption

ClientTyped ==
  /\ call \in [Requests -> {"new", "inserted", "awaiting", "done"}]
  /\ table \subseteq Requests
  /\ outbox \in Seq(Requests) /\ Len(outbox) <= OutboxCapacity
  /\ pump \in [at : {"off", "select", "write", "closed", "cleared", "ended"}, of : 0..MaxRequests]
  /\ pump.at = "write" => pump.of \in Requests

RelaysTyped ==
  /\ wire \in [client : BOOLEAN, server : BOOLEAN]
  /\ up \in Seq(Requests) /\ Len(up) <= UpCapacity
  /\ down \in Seq(0..MaxRequests) /\ Len(down) <= DownCapacity
  /\ order \in Seq(Requests) /\ replied \in Seq(Requests)

(* A connection that is not being ended has strikes left.                      *)
ServerTyped ==
  /\ loop \in [at : {"off", "welcomed", "select", "pass", "tell", "detach"}, held : Held]
  /\ pending \in Seq(Held) /\ Len(pending) <= RequestCapacity
  /\ dispatcher \in [at : {"off", "idle", "ask", "reply"}, of : 0..MaxRequests]
  /\ news \in 0..EventCapacity /\ strikes \in 0..Strikes
  /\ loop.at \in {"welcomed", "select", "tell"} => strikes < Strikes
  /\ loop.at = "pass" /\ ~loop.held.shed => strikes < Strikes

LimiterTyped ==
  /\ budgets \in [Addresses -> [tokens : 0..Burst, seen : 0..MaxClock] \cup {None}]
  /\ IsFiniteSet(Tracked(budgets)) /\ Cardinality(Tracked(budgets)) <= TableCapacity
  /\ clock \in 0..MaxClock
  /\ count \in [sessions : 0..MaxSessions, events : 0..MaxEvents, elsewhere : 0..MaxElsewhere]
  /\ served \in [Addresses -> Nat] /\ evicted \in [Addresses -> Nat]

SessionTyped == ClientTyped /\ RelaysTyped /\ ServerTyped /\ LimiterTyped

LEMMA InitTyped == Init => SessionTyped
  <1> SUFFICES ASSUME Init PROVE SessionTyped
    OBVIOUS
  <1> USE Sizes DEF Init
  <1>1. ClientTyped
    BY EmptySeq DEF ClientTyped
  <1>2. RelaysTyped
    BY EmptySeq DEF RelaysTyped, Shut
  <1>3. ServerTyped
    BY EmptySeq DEF ServerTyped, Held, Hold, Nothing
  <1>4. Tracked(budgets) = {}
    BY DEF Tracked
  <1>5. LimiterTyped
    <2>1. IsFiniteSet(Tracked(budgets)) /\ Cardinality(Tracked(budgets)) <= TableCapacity
      <3>1. IsFiniteSet({}) /\ Cardinality({}) = 0
        BY ONLY FS_EmptySet
      <3> QED BY ONLY <1>4, <3>1, Sizes
    <2> QED BY <2>1 DEF LimiterTyped
  <1> QED BY <1>1, <1>2, <1>3, <1>5 DEF SessionTyped

(* Which steps leave a part of the state alone.                                *)
LEMMA ClientAlone ==
  /\ UNCHANGED vars \/ TimePasses \/ Cut \/ Publish \/ ServerStep \/ DispatcherStep
       => UNCHANGED <<call, table, outbox, pump>>
  /\ \A a \in Addresses : Elsewhere(a) => UNCHANGED <<call, table, outbox, pump>>
  BY DEF vars, caller, Elsewhere, TimePasses, Cut, Publish, ServerStep, Subscribe, Admit, Pass,
     Notice, Tell, NoticesEnd, Ends, Detach, DispatcherStep, Dispatch, CoreReplies, Reply, ReplyFails

LEMMA RelaysAlone ==
  /\ UNCHANGED vars \/ TimePasses \/ Publish \/ Take \/ PumpEnds \/ Clear
       => UNCHANGED <<wire, up, down, order, replied>>
  /\ Subscribe \/ Pass \/ Notice \/ NoticesEnd \/ Dispatch \/ CoreReplies \/ ReplyFails
       => UNCHANGED <<wire, up, down, order, replied>>
  /\ \A a \in Addresses : Elsewhere(a) => UNCHANGED <<wire, up, down, order, replied>>
  /\ \A r \in Requests :
       Call(r) \/ CallLate(r) \/ Deadline(r) \/ QueueFails(r) \/ Dropped(r)
         => UNCHANGED <<wire, up, down, order, replied>>
  BY DEF vars, history, Elsewhere, TimePasses, Publish, Take, PumpEnds, Clear, Subscribe,
     Pass, Notice, NoticesEnd, Ends, Dispatch, CoreReplies, ReplyFails, Call, CallLate, Deadline,
     QueueFails, Dropped

LEMMA ServerAlone ==
  /\ UNCHANGED vars \/ TimePasses \/ Cut \/ Leave \/ PumpStep
       => UNCHANGED <<loop, pending, dispatcher, news, strikes>>
  /\ \A a \in Addresses : Elsewhere(a) => UNCHANGED <<loop, pending, dispatcher, news, strikes>>
  /\ \A r \in Requests :
       Call(r) \/ CallLate(r) \/ Deadline(r) \/ CallerStep(r)
         => UNCHANGED <<loop, pending, dispatcher, news, strikes>>
  BY DEF vars, server, Elsewhere, TimePasses, Cut, Leave, PumpStep, Take, Write, Receive, PumpEnds,
     Clear, PumpReturns, CallerStep, Call, CallLate, Deadline, Queue, QueueFails, Dropped

LEMMA LimiterAlone ==
  /\ UNCHANGED vars \/ Cut \/ Leave \/ PumpStep \/ DispatcherStep
       => UNCHANGED <<budgets, clock, count, served, evicted>>
  /\ Subscribe \/ Pass \/ Notice \/ Tell \/ NoticesEnd \/ Detach
       => UNCHANGED <<budgets, clock, count, served, evicted>>
  /\ \A r \in Requests :
       Call(r) \/ CallLate(r) \/ Deadline(r) \/ CallerStep(r)
         => UNCHANGED <<budgets, clock, count, served, evicted>>
  BY DEF vars, limiter, Cut, Leave, PumpStep, Take, Write, Receive, PumpEnds,
     Clear, PumpReturns, CallerStep, Call, CallLate, Deadline, Queue, QueueFails, Dropped,
     Subscribe, Pass, Notice, Tell, NoticesEnd, Ends, Detach,
     DispatcherStep, Dispatch, CoreReplies, Reply, ReplyFails

LEMMA ClientStep == SessionTyped /\ [Next]_vars => ClientTyped'
  <1> SUFFICES ASSUME SessionTyped, [Next]_vars PROVE ClientTyped'
    OBVIOUS
  <1> USE DEF SessionTyped, ClientTyped
  <1>1. CASE UNCHANGED <<call, table, outbox, pump>>
    BY <1>1
  <1>2. CASE Attach
    BY <1>2, Sizes DEF Attach, Connects, caller
  <1>3. CASE Leave
    BY <1>3, EmptySeq, Sizes DEF Leave
  <1>4. ASSUME NEW r \in Requests, Call(r) \/ CallLate(r) \/ Deadline(r) PROVE ClientTyped'
    BY <1>4 DEF Call, CallLate, Deadline
  <1>5. ASSUME NEW r \in Requests, Queue(r) PROVE ClientTyped'
    <2>1. outbox' \in Seq(Requests) /\ Len(outbox') = Len(outbox) + 1 /\ Len(outbox) \in Nat
      BY <1>5, AddedTo DEF Queue
    <2> QED BY <1>5, <2>1, Sizes DEF Queue
  <1>6. ASSUME NEW r \in Requests, QueueFails(r) \/ Dropped(r) PROVE ClientTyped'
    BY <1>6 DEF QueueFails, Dropped
  <1>7. CASE Take
    <2>1. /\ Head(outbox) \in Requests /\ outbox' \in Seq(Requests)
          /\ Len(outbox') = Len(outbox) - 1 /\ Len(outbox) \in Nat
      BY <1>7, TakenFrom DEF Take
    <2> QED BY <1>7, <2>1, Sizes DEF Take, Requests
  <1>8. CASE Write \/ PumpEnds \/ PumpReturns \/ Clear
    <2>1. /\ pump' \in [at : {"select", "closed", "cleared", "ended"}, of : {0}]
          /\ table' \in {table, {}} /\ outbox' \in {outbox, <<>>} /\ UNCHANGED call
      BY <1>8 DEF Write, PumpEnds, PumpReturns, Clear, caller
    <2>2. outbox' \in Seq(Requests) /\ Len(outbox') <= OutboxCapacity
      <3>1. CASE outbox' = <<>>
        BY ONLY <3>1, EmptySeq, Sizes
      <3>2. CASE outbox' = outbox
        BY <3>2
      <3> QED BY <2>1, <3>1, <3>2
    <2>3. pump'.at # "write" /\ pump' \in
            [at : {"off", "select", "write", "closed", "cleared", "ended"}, of : 0..MaxRequests]
      BY <2>1, Sizes
    <2>4. call' = call /\ table' \subseteq Requests
      BY <2>1
    <2> QED BY <2>2, <2>3, <2>4
  <1>9. CASE Receive
    BY <1>9 DEF Receive
  <1> QED BY <1>1, <1>2, <1>3, <1>4, <1>5, <1>6, <1>7, <1>8, <1>9, ClientAlone
          DEF Next, CallerStep, PumpStep

(* A frame sent down finds room, or nobody to read it.                         *)
LEMMA SentTyped ==
  ASSUME RelaysTyped, NEW frame \in 0..MaxRequests, Sent(frame)
  PROVE  down' \in Seq(0..MaxRequests) /\ Len(down') <= DownCapacity
  <1>1. CASE wire.client
    <2>1. down' = Append(down, frame) /\ Len(down) < DownCapacity
      BY <1>1 DEF Sent
    <2> QED BY <2>1, AddedTo, Sizes DEF RelaysTyped
  <1>2. CASE ~wire.client
    BY <1>2 DEF Sent, RelaysTyped
  <1> QED BY <1>1, <1>2

LEMMA RelaysStep == SessionTyped /\ [Next]_vars => RelaysTyped'
  <1> SUFFICES ASSUME SessionTyped, [Next]_vars PROVE RelaysTyped'
    OBVIOUS
  <1> USE DEF SessionTyped, RelaysTyped
  <1>1. CASE UNCHANGED <<wire, up, down, order, replied>>
    BY <1>1
  <1>2. CASE Attach
    BY <1>2, EmptySeq, Sizes DEF Attach, Connects, Open
  <1>3. CASE Cut
    <2>1. /\ up' \in Seq(Requests) /\ Len(up') <= Len(up) /\ Len(up') \in Nat /\ Len(up) \in Nat
          /\ down' \in Seq(0..MaxRequests) /\ Len(down') <= Len(down)
          /\ Len(down') \in Nat /\ Len(down) \in Nat
      BY <1>3, PartOf DEF Cut
    <2> QED BY <1>3, <2>1, Sizes DEF Cut, Shut, history
  <1>4. CASE Leave \/ PumpReturns
    BY <1>4 DEF Leave, PumpReturns, history
  <1>5. ASSUME NEW r \in Requests, Queue(r) PROVE RelaysTyped'
    <2>1. order' \in Seq(Requests)
      BY <1>5, AddedTo DEF Queue
    <2> QED BY <1>5, <2>1 DEF Queue
  <1>6. CASE Write
    <2>1. up' \in Seq(Requests) /\ Len(up') <= UpCapacity
      <3>1. CASE wire.server
        <4>1. up' = Append(up, pump.of) /\ Len(up) < UpCapacity /\ pump.of \in Requests
          BY <1>6, <3>1 DEF Write, ClientTyped
        <4> QED BY <4>1, AddedTo, Sizes
      <3>2. CASE ~wire.server
        BY <1>6, <3>2 DEF Write
      <3> QED BY <3>1, <3>2
    <2> QED BY <1>6, <2>1 DEF Write, history
  <1>7. CASE Receive
    <2>1. /\ Head(down) \in 0..MaxRequests /\ down' \in Seq(0..MaxRequests)
          /\ Len(down') = Len(down) - 1 /\ Len(down) \in Nat
      BY <1>7, TakenFrom DEF Receive
    <2>2. replied' \in Seq(Requests)
      <3>1. Head(down) # 0 => Head(down) \in Requests /\ replied' = Append(replied, Head(down))
        BY <1>7, <2>1, Sizes DEF Receive, Requests
      <3>2. CASE Head(down) # 0
        <4>1. replied \in Seq(Requests)
          OBVIOUS
        <4> QED BY ONLY <3>1, <3>2, <4>1, AddedTo
      <3>3. CASE Head(down) = 0
        BY <1>7, <3>3 DEF Receive
      <3> QED BY <3>2, <3>3
    <2> QED BY <1>7, <2>1, <2>2, Sizes DEF Receive
  <1>8. CASE Admit
    <2>1. up' \in Seq(Requests) /\ Len(up') = Len(up) - 1 /\ Len(up) \in Nat
      BY <1>8, TakenFrom DEF Admit
    <2> QED BY <1>8, <2>1, Sizes DEF Admit, history
  <1>9. CASE Tell
    <2>1. 0 \in 0..MaxRequests
      BY Sizes
    <2>2. down' \in Seq(0..MaxRequests) /\ Len(down') <= DownCapacity
      BY <1>9, <2>1, SentTyped DEF Tell
    <2> QED BY <1>9, <2>2 DEF Tell, history
  <1>10. CASE Reply
    <2>1. down' \in Seq(0..MaxRequests) /\ Len(down') <= DownCapacity
      BY <1>10, SentTyped DEF Reply, ServerTyped
    <2> QED BY <1>10, <2>1 DEF Reply, history
  <1>11. CASE Detach
    <2>1. down' \in Some(down) /\ up' = <<>> /\ UNCHANGED <<order, replied>>
          /\ wire' = [wire EXCEPT !.server = FALSE]
      BY <1>11 DEF Detach, history
    <2>2. down \in Seq(0..MaxRequests) /\ Len(down) <= DownCapacity
      OBVIOUS
    <2>3. down' \in Seq(0..MaxRequests) /\ Len(down') <= DownCapacity
      BY ONLY <2>1, <2>2, PartOf, Sizes
    <2>4. up' \in Seq(Requests) /\ Len(up') <= UpCapacity
      BY ONLY <2>1, EmptySeq, Sizes
    <2>5. wire' \in [client : BOOLEAN, server : BOOLEAN]
      BY <2>1
    <2> QED BY <2>1, <2>3, <2>4, <2>5
  <1> HIDE DEF SessionTyped, RelaysTyped
  <1>12. ASSUME NEW a \in Addresses, Elsewhere(a) PROVE RelaysTyped'
    BY <1>1, <1>12, RelaysAlone
  <1>13. ASSUME NEW r \in Requests,
                Call(r) \/ CallLate(r) \/ Deadline(r) \/ QueueFails(r) \/ Dropped(r)
         PROVE  RelaysTyped'
    BY <1>1, <1>13, RelaysAlone
  <1>14. CASE UNCHANGED vars \/ TimePasses \/ Publish
    BY <1>1, <1>14, RelaysAlone
  <1>15. CASE PumpStep
    BY <1>1, <1>4, <1>6, <1>7, <1>15, RelaysAlone DEF PumpStep
  <1>16. CASE ServerStep
    BY <1>1, <1>8, <1>9, <1>11, <1>16, RelaysAlone DEF ServerStep
  <1>17. CASE DispatcherStep
    BY <1>1, <1>10, <1>17, RelaysAlone DEF DispatcherStep
  <1> QED BY <1>2, <1>3, <1>4, <1>5, <1>12, <1>13, <1>14, <1>15, <1>16, <1>17
          DEF Next, CallerStep

LEMMA ServerStepTyped == SessionTyped /\ [Next]_vars => ServerTyped'
  <1> SUFFICES ASSUME SessionTyped, [Next]_vars PROVE ServerTyped'
    OBVIOUS
  <1> USE Sizes DEF SessionTyped, ServerTyped
  <1> DEFINE Loop == [at : {"off", "welcomed", "select", "pass", "tell", "detach"}, held : Held]
  <1>1. CASE UNCHANGED <<loop, pending, dispatcher, news, strikes>>
    BY <1>1
  <1>2. Nothing \in Held /\ Nothing.shed = FALSE
    BY DEF Nothing, Hold, Held
  <1>3. CASE Attach
    BY SMTT(30), <1>2, <1>3, EmptySeq DEF Attach, Welcomes
  <1>4. CASE Publish
    BY SMTT(30), <1>4 DEF Publish, Least
  <1>5. CASE Subscribe \/ Notice \/ Tell
    <2>1. /\ loop.at \in {"welcomed", "select", "tell"}
          /\ loop'.at \in {"select", "tell"} /\ loop' = [loop EXCEPT !.at = loop'.at]
          /\ UNCHANGED <<pending, dispatcher, strikes>> /\ news' \in {news, news - 1}
          /\ Notice => news > 0 /\ (news' = news - 1)
          /\ ~Notice => news' = news
      BY <1>5 DEF Subscribe, Notice, Tell
    <2>2. loop' \in Loop
      BY <2>1
    <2>3. news' \in 0..EventCapacity
      BY SMTT(30), <2>1
    <2> QED BY <2>1, <2>2, <2>3
  <1>7. CASE Admit
    <2>1. /\ loop' = [at |-> "pass", held |-> Hold(Head(up), ~Granted(Home))]
          /\ strikes' = strikes + (IF Granted(Home) THEN 0 ELSE 1)
          /\ loop.at = "select" /\ UNCHANGED <<pending, dispatcher, news>>
      BY <1>7 DEF Admit
    <2>2. Head(up) \in 0..MaxRequests
      BY <1>7, TakenFrom DEF Admit, RelaysTyped, Requests
    <2>3. \A shed \in BOOLEAN :
            Hold(Head(up), shed) \in Held /\ Hold(Head(up), shed).shed = shed
      BY <2>2 DEF Hold, Held
    <2>4. loop' \in Loop /\ loop'.at = "pass" /\ loop'.held.shed = ~Granted(Home)
      BY <2>1, <2>3
    <2>5. strikes' \in 0..Strikes /\ (Granted(Home) => strikes' < Strikes)
      BY <2>1
    <2> QED BY <2>1, <2>4, <2>5
  <1>8. CASE Pass
    <2>1. loop.held \in Held
      OBVIOUS
    <2>2. pending' \in Seq(Held) /\ Len(pending') = Len(pending) + 1 /\ Len(pending) \in Nat
      BY <1>8, <2>1, AddedTo DEF Pass
    <2>3. loop' \in Loop
      BY <1>2, <1>8 DEF Pass
    <2>4. loop'.at = "select" => strikes < Strikes
      BY <1>8 DEF Pass
    <2>5. loop'.at \in {"select", "detach"}
      BY <1>8 DEF Pass
    <2> QED BY <1>8, <2>2, <2>3, <2>4, <2>5 DEF Pass
  <1>9. CASE NoticesEnd
    BY <1>2, <1>9 DEF NoticesEnd, Ends
  <1>10. CASE Detach
    BY <1>2, <1>10, EmptySeq DEF Detach
  <1>11. CASE Dispatch
    <2>1. /\ Head(pending) \in Held /\ pending' \in Seq(Held)
          /\ Len(pending') = Len(pending) - 1 /\ Len(pending) \in Nat
      BY <1>11, TakenFrom DEF Dispatch
    <2>2. Head(pending).of \in 0..MaxRequests
      BY <2>1 DEF Held
    <2> QED BY <1>11, <2>1, <2>2 DEF Dispatch
  <1>12. CASE CoreReplies \/ Reply \/ ReplyFails
    <2>1. /\ dispatcher' \in [at : {"off", "idle", "reply"}, of : {0, dispatcher.of}]
          /\ UNCHANGED <<loop, pending, news, strikes>>
      BY <1>12 DEF CoreReplies, Reply, ReplyFails
    <2> QED BY <2>1
  <1> QED BY <1>1, <1>3, <1>4, <1>5, <1>7, <1>8, <1>9, <1>10, <1>11, <1>12, ServerAlone
          DEF Next, ServerStep, DispatcherStep

(* What a request leaves in a budget is no more than a burst.                  *)
LEMMA TokensInBurst ==
  ASSUME LimiterTyped, BudgetInv, NEW a \in Addresses
  PROVE  /\ Tokens(a) \in 0..Burst
         /\ Tokens(a) - (IF Granted(a) THEN 1 ELSE 0) \in 0..Burst
  <1>1. Tokens(a) \in Nat
    BY TokensWithinAllowance
  <1>2. Tokens(a) <= Burst
    <2>1. CASE Swept[a] = None
      BY <2>1, Sizes DEF Tokens
    <2>2. CASE Swept[a] # None
      <3>1. Tokens(a) = Least(Burst, Swept[a].tokens + Rate * (clock - Swept[a].seen))
        BY <2>2 DEF Tokens
      <3> DEFINE refill == Swept[a].tokens + Rate * (clock - Swept[a].seen)
      <3>2. refill \in Nat
        <4>1. Swept[a].tokens \in Nat /\ Swept[a].seen \in Nat /\ Swept[a].seen <= clock
          BY <2>2, SweepKeepsAllowance
        <4>2. Rate * (clock - Swept[a].seen) \in Nat
          BY <4>1, Amounts, Products DEF BudgetInv, BudgetsTyped
        <4> QED BY <4>1, <4>2
      <3>3. Tokens(a) = Least(Burst, refill)
        BY <3>1
      <3> HIDE DEF refill
      <3> QED BY <3>2, <3>3, Sizes DEF Least
    <2> QED BY <2>1, <2>2
  <1> QED BY <1>1, <1>2, Sizes DEF Granted

(* The sweep tracks no address that was not tracked, and a request at an       *)
(* address that is not tracked finds room or makes it.                         *)
LEMMA AcquireTyped ==
  ASSUME LimiterTyped, BudgetInv, NEW a \in Addresses, Acquire(a)
  PROVE  /\ budgets' \in [Addresses -> [tokens : 0..Burst, seen : 0..MaxClock] \cup {None}]
         /\ IsFiniteSet(Tracked(budgets')) /\ Cardinality(Tracked(budgets')) <= TableCapacity
         /\ served' \in [Addresses -> Nat] /\ evicted' \in [Addresses -> Nat]
  <1>1. PICK victim \in Victims(a) :
          /\ budgets' = [o \in Addresses |->
               IF o = a
               THEN [tokens |-> Tokens(a) - (IF Granted(a) THEN 1 ELSE 0), seen |-> clock]
               ELSE IF o = victim THEN None ELSE Swept[o]]
          /\ evicted' = [o \in Addresses |->
               IF o = victim THEN evicted[o] + 1 ELSE evicted[o]]
          /\ served' = [served EXCEPT ![a] = @ + (IF Granted(a) THEN 1 ELSE 0)]
    BY DEF Acquire
  <1> DEFINE Budget == [tokens : 0..Burst, seen : 0..MaxClock]
             spent == [tokens |-> Tokens(a) - (IF Granted(a) THEN 1 ELSE 0), seen |-> clock]
  <1>2. spent \in Budget /\ spent # None
    <2>1. clock \in 0..MaxClock
      BY DEF LimiterTyped
    <2>2. spent \in Budget
      BY <2>1, TokensInBurst
    <2>3. spent \in [tokens : Nat, seen : Nat]
      BY <2>2, Sizes
    <2> HIDE DEF spent
    <2> QED BY <2>2, <2>3, IpcAssumption
  <1> HIDE DEF spent
  <1>3. /\ Swept \in [Addresses -> Budget \cup {None}]
        /\ Tracked(Swept) \subseteq Tracked(budgets)
    BY DEF LimiterTyped, Swept, Tracked
  <1>4. /\ budgets'[a] = spent
        /\ \A o \in Addresses : o # a => budgets'[o] = IF o = victim THEN None ELSE Swept[o]
    BY <1>1 DEF spent
  <1>5. budgets' \in [Addresses -> Budget \cup {None}]
    BY <1>1, <1>2, <1>3 DEF spent
  <1>6. IsFiniteSet(Tracked(Swept)) /\ Cardinality(Tracked(Swept)) <= TableCapacity
        /\ Cardinality(Tracked(Swept)) \in Nat
    <2>1. /\ IsFiniteSet(Tracked(budgets)) /\ Cardinality(Tracked(budgets)) <= TableCapacity
          /\ Cardinality(Tracked(budgets)) \in Nat
      BY FS_CardinalityType DEF LimiterTyped
    <2>2. /\ IsFiniteSet(Tracked(Swept)) /\ Cardinality(Tracked(Swept)) \in Nat
          /\ Cardinality(Tracked(Swept)) <= Cardinality(Tracked(budgets))
      BY <1>3, <2>1, FS_Subset, FS_CardinalityType
    <2> QED BY <2>1, <2>2, Sizes
  <1>7. IsFiniteSet(Tracked(budgets')) /\ Cardinality(Tracked(budgets')) <= TableCapacity
    <2>1. Tracked(budgets') = (Tracked(Swept) \ {victim}) \cup {a}
      BY <1>2, <1>4 DEF Tracked
    <2>2. CASE Swept[a] # None
      <3>1. victim = None /\ a \in Tracked(Swept)
        BY <2>2 DEF Victims, NeedsRoom, Tracked
      <3>2. None \notin Tracked(Swept)
        BY IpcAssumption DEF Tracked
      <3>3. Tracked(budgets') = Tracked(Swept)
        BY <2>1, <3>1, <3>2
      <3> QED BY <1>6, <3>3
    <2>3. CASE Swept[a] = None /\ ~NeedsRoom(a)
      <3>1. Cardinality(Tracked(Swept)) < TableCapacity
        BY <1>6, <2>3, Sizes DEF NeedsRoom
      <3>2. victim = None /\ None \notin Tracked(Swept)
        BY <2>3, IpcAssumption DEF Victims, Tracked
      <3>3. Tracked(budgets') = Tracked(Swept) \cup {a} /\ a \notin Tracked(Swept)
        BY <2>1, <2>3, <3>2 DEF Tracked
      <3>4. /\ IsFiniteSet(Tracked(Swept) \cup {a})
            /\ Cardinality(Tracked(Swept) \cup {a}) = Cardinality(Tracked(Swept)) + 1
        BY <1>6, <3>3, FS_AddElement
      <3> QED BY <1>6, <3>1, <3>3, <3>4, Sizes
    <2>4. CASE NeedsRoom(a)
      <3>1. victim \in Tracked(Swept) /\ a \notin Tracked(Swept)
        BY <2>4 DEF Victims, NeedsRoom, Oldest, Tracked
      <3> DEFINE rest == Tracked(Swept) \ {victim}
      <3>2. IsFiniteSet(rest) /\ Cardinality(rest) = Cardinality(Tracked(Swept)) - 1
        BY <1>6, <3>1, FS_RemoveElement
      <3>3. /\ IsFiniteSet(rest \cup {a})
            /\ Cardinality(rest \cup {a}) = Cardinality(rest) + 1
        BY <3>1, <3>2, FS_AddElement
      <3>4. Cardinality(rest \cup {a}) <= TableCapacity
        <4> HIDE DEF rest
        <4> QED BY <1>6, <3>2, <3>3, Sizes
      <3> QED BY <2>1, <3>3, <3>4
    <2>5. NeedsRoom(a) => Swept[a] = None
      BY DEF NeedsRoom
    <2> QED BY <2>2, <2>3, <2>4, <2>5
  <1>8. served' \in [Addresses -> Nat] /\ evicted' \in [Addresses -> Nat]
    BY <1>1 DEF LimiterTyped
  <1> QED BY <1>5, <1>7, <1>8

LEMMA LimiterStep == SessionTyped /\ BudgetInv /\ [Next]_vars => LimiterTyped'
  <1> SUFFICES ASSUME SessionTyped, BudgetInv, [Next]_vars PROVE LimiterTyped'
    OBVIOUS
  <1> USE DEF SessionTyped
  <1>1. CASE UNCHANGED <<budgets, clock, count, served, evicted>>
    BY <1>1 DEF LimiterTyped
  <1>2. ASSUME NEW a \in Addresses, Elsewhere(a) PROVE LimiterTyped'
    <2>1. Acquire(a) /\ UNCHANGED clock /\ count.elsewhere < MaxElsewhere
          /\ count' = [count EXCEPT !.elsewhere = @ + 1]
      BY <1>2 DEF Elsewhere
    <2>2. count' \in
            [sessions : 0..MaxSessions, events : 0..MaxEvents, elsewhere : 0..MaxElsewhere]
      BY <2>1, Sizes DEF LimiterTyped
    <2> QED BY <2>1, <2>2, AcquireTyped DEF LimiterTyped
  <1>3. CASE Admit
    <2>1. Acquire(Home) /\ UNCHANGED <<clock, count>>
      BY <1>3 DEF Admit
    <2> QED BY <2>1, Sizes, AcquireTyped DEF LimiterTyped
  <1>4. CASE TimePasses
    BY <1>4, Sizes DEF TimePasses, limiter, LimiterTyped
  <1>5. CASE Attach \/ Publish
    <2>1. UNCHANGED <<budgets, clock, served, evicted>>
      BY <1>5 DEF Attach, Publish, limiter
    <2>2. count' \in
            [sessions : 0..MaxSessions, events : 0..MaxEvents, elsewhere : 0..MaxElsewhere]
      <3>1. CASE Attach
        <4>1. count.sessions < MaxSessions /\ count' = [count EXCEPT !.sessions = @ + 1]
          BY <3>1 DEF Attach
        <4> QED BY <4>1, Sizes DEF LimiterTyped
      <3>2. CASE Publish
        <4>1. count.events < MaxEvents /\ count' = [count EXCEPT !.events = @ + 1]
          BY <3>2 DEF Publish
        <4> QED BY <4>1, Sizes DEF LimiterTyped
      <3> QED BY <1>5, <3>1, <3>2
    <2> QED BY <2>1, <2>2 DEF LimiterTyped
  <1>6. ASSUME NEW r \in Requests, Call(r) \/ CallLate(r) \/ Deadline(r) \/ CallerStep(r)
        PROVE  LimiterTyped'
    BY <1>1, <1>6, LimiterAlone
  <1>7. CASE UNCHANGED vars \/ Cut \/ Leave \/ PumpStep \/ DispatcherStep
    BY <1>1, <1>7, LimiterAlone
  <1>8. CASE ServerStep
    BY <1>1, <1>3, <1>8, LimiterAlone DEF ServerStep
  <1> QED BY <1>2, <1>4, <1>5, <1>6, <1>7, <1>8 DEF Next

LEMMA TypedStep == SessionTyped /\ BudgetInv /\ [Next]_vars => SessionTyped'
  BY ClientStep, RelaysStep, ServerStepTyped, LimiterStep DEF SessionTyped

LEMMA TypedMeans == SessionTyped => TypeOK
  BY DEF SessionTyped, ClientTyped, RelaysTyped, ServerTyped, LimiterTyped, TypeOK

-----------------------------------------------------------------------------
(* Replies in the order of the requests                                        *)

(* What is closed stays closed: which end is open tells where the tasks are.   *)
EndInv ==
  /\ pump.at \in {"off", "ended"} => ~wire.client
  /\ pump.at = "off" => outbox = <<>>
  /\ pump.at \in {"closed", "cleared"} => ~wire.server
  /\ wire.client /\ ~wire.server => loop.at = "off" /\ dispatcher.at = "off"
  /\ loop.at = "off" => ~wire.server

(* Where a request of this session is, by its place in the order they were     *)
(* queued in: the replies to the first to are on their way or have arrived,    *)
(* the dispatcher holds the next one, then come those pending, the one the     *)
(* loop passes on, those on the way up, the one the pump writes, the outbox.   *)
One(b) == IF b THEN 1 ELSE 0
Busy == dispatcher.at \in {"ask", "reply"}
Passed(to) == to + One(Busy)
Kept(to) == Passed(to) + Len(pending)
Arrived(to) == Kept(to) + One(loop.at = "pass")
Taken(to) == Arrived(to) + Len(up)
Queued(to) == Taken(to) + One(pump.at = "write")

From(seq, n) == \A i \in 1..Len(seq) : seq[i] = order[n + i]
PendingFrom(n) == \A i \in 1..Len(pending) : pending[i].of = order[n + i]

InTurn(to) ==
  /\ Busy => dispatcher.of = order[to + 1]
  /\ PendingFrom(Passed(to))
  /\ loop.at = "pass" => loop.held.of = order[Kept(to) + 1]
  /\ From(up, Arrived(to))
  /\ pump.at = "write" => pump.of = order[Taken(to) + 1]
  /\ From(outbox, Queued(to))
  /\ Len(order) = Queued(to) + Len(outbox)

(* The replies that have arrived answer the first requests, those on their way *)
(* the next, and while the connection is open every other request is in turn.  *)
OrderInv ==
  /\ Len(replied) <= Len(order) /\ From(replied, 0)
  /\ \E to \in 0..Len(order) :
       /\ Numbered(order, down, Len(replied), to)
       /\ wire = Open => InTurn(to)

LEMMA EndStep == SessionTyped /\ EndInv /\ [Next]_vars => EndInv'
  <1> SUFFICES ASSUME SessionTyped, EndInv, [Next]_vars PROVE EndInv'
    OBVIOUS
  <1>1. /\ wire \in [client : BOOLEAN, server : BOOLEAN]
        /\ pump \in [at : {"off", "select", "write", "closed", "cleared", "ended"}, of : 0..MaxRequests]
        /\ loop \in [at : {"off", "welcomed", "select", "pass", "tell", "detach"}, held : Held]
        /\ dispatcher \in [at : {"off", "idle", "ask", "reply"}, of : 0..MaxRequests]
    BY DEF SessionTyped, ClientTyped, RelaysTyped, ServerTyped
  <1> USE DEF EndInv
  <1>2. CASE UNCHANGED <<pump, outbox, wire, loop, dispatcher>>
    BY <1>2
  <1>3. CASE Attach
    BY <1>1, <1>3 DEF Attach, Connects, Welcomes, Open
  <1>4. CASE Cut
    BY <1>1, <1>4 DEF Cut, Shut, Open, caller, server
  <1>5. CASE Leave
    BY <1>1, <1>5 DEF Leave, server
  <1>6. ASSUME NEW r \in Requests, Queue(r) PROVE EndInv'
    BY <1>1, <1>6 DEF Queue, server
  <1>7. CASE Take
    BY <1>1, <1>7 DEF Take, server
  <1>8. CASE Write \/ PumpEnds \/ Clear
    BY <1>1, <1>8 DEF Write, PumpEnds, Clear, server, caller
  <1>9. CASE PumpReturns
    BY <1>1, <1>9 DEF PumpReturns, server
  <1>10. CASE Detach
    BY <1>1, <1>10 DEF Detach, caller
  <1>11. CASE Subscribe \/ Admit \/ Pass \/ Notice \/ Tell \/ NoticesEnd
    <2>1. /\ UNCHANGED <<pump, outbox, wire, dispatcher>>
          /\ loop.at = "off" => NoticesEnd
          /\ loop'.at # "off"
      BY <1>1, <1>11 DEF Subscribe, Admit, Pass, Notice, Tell, NoticesEnd, Ends, caller
    <2>2. NoticesEnd => ~wire.client /\ loop.at # "off"
      BY DEF NoticesEnd
    <2> QED BY <1>1, <2>1, <2>2
  <1>12. CASE DispatcherStep
    <2>1. /\ UNCHANGED <<pump, outbox, wire, loop>>
          /\ dispatcher.at # "off"
      BY <1>1, <1>12
         DEF DispatcherStep, Dispatch, CoreReplies, Reply, ReplyFails, caller
    <2> QED BY <1>1, <2>1
  <1>13. ASSUME NEW a \in Addresses, Elsewhere(a) PROVE EndInv'
    BY <1>2, <1>13 DEF Elsewhere, caller, server
  <1>14. ASSUME NEW r \in Requests,
                Call(r) \/ CallLate(r) \/ Deadline(r) \/ QueueFails(r) \/ Dropped(r)
         PROVE  EndInv'
    BY <1>2, <1>14 DEF Call, CallLate, Deadline, QueueFails, Dropped, server
  <1>15. CASE TimePasses \/ Publish \/ UNCHANGED vars \/ Receive
    BY <1>2, <1>15 DEF TimePasses, Publish, Receive, vars, caller, server
  <1> QED BY <1>3, <1>4, <1>5, <1>6, <1>7, <1>8, <1>9, <1>10, <1>11, <1>12, <1>13, <1>14, <1>15
          DEF Next, CallerStep, PumpStep, ServerStep

LEMMA Places ==
  ASSUME SessionTyped, NEW to \in Nat
  PROVE  /\ Passed(to) \in Nat /\ Kept(to) \in Nat /\ Arrived(to) \in Nat
         /\ Taken(to) \in Nat /\ Queued(to) \in Nat
         /\ Len(pending) \in Nat /\ Len(up) \in Nat /\ Len(outbox) \in Nat
         /\ Len(order) \in Nat /\ Len(replied) \in Nat /\ Len(down) \in Nat
  <1>1. /\ Len(pending) \in Nat /\ Len(up) \in Nat /\ Len(outbox) \in Nat
        /\ Len(order) \in Nat /\ Len(replied) \in Nat /\ Len(down) \in Nat
    BY LenProperties DEF SessionTyped, ClientTyped, RelaysTyped, ServerTyped
  <1>2. One(Busy) \in Nat /\ One(loop.at = "pass") \in Nat /\ One(pump.at = "write") \in Nat
    BY DEF One
  <1>3. Passed(to) \in Nat
    BY ONLY <1>2, to \in Nat DEF Passed
  <1>4. Kept(to) \in Nat
    BY ONLY <1>1, <1>3 DEF Kept
  <1>5. Arrived(to) \in Nat
    BY ONLY <1>2, <1>4 DEF Arrived
  <1>6. Taken(to) \in Nat
    BY ONLY <1>1, <1>5 DEF Taken
  <1>7. Queued(to) \in Nat
    BY ONLY <1>2, <1>6 DEF Queued
  <1> QED BY <1>1, <1>3, <1>4, <1>5, <1>6, <1>7

LEMMA Steps ==
  ASSUME NEW to \in Nat
  PROVE  /\ Passed(to) = IF Busy THEN to + 1 ELSE to
         /\ Kept(to) = Passed(to) + Len(pending)
         /\ Arrived(to) = IF loop.at = "pass" THEN Kept(to) + 1 ELSE Kept(to) + 0
         /\ Taken(to) = Arrived(to) + Len(up)
         /\ Queued(to) = IF pump.at = "write" THEN Taken(to) + 1 ELSE Taken(to) + 0
  <1>1. Passed(to) = IF Busy THEN to + 1 ELSE to
    BY DEF Passed, One
  <1>2. Arrived(to) = IF loop.at = "pass" THEN Kept(to) + 1 ELSE Kept(to) + 0
    BY DEF Arrived, One
  <1>3. Queued(to) = IF pump.at = "write" THEN Taken(to) + 1 ELSE Taken(to) + 0
    BY DEF Queued, One
  <1> QED BY <1>1, <1>2, <1>3 DEF Kept, Taken

LEMMA PlacesInOrder ==
  ASSUME SessionTyped, NEW to \in Nat, InTurn(to)
  PROVE  /\ Passed(to) <= Kept(to) /\ Kept(to) <= Arrived(to) /\ Arrived(to) <= Taken(to)
         /\ Taken(to) <= Queued(to) /\ Queued(to) <= Len(order)
         /\ Busy => Passed(to) = to + 1
         /\ Kept(to) = Passed(to) + Len(pending) /\ Taken(to) = Arrived(to) + Len(up)
         /\ loop.at = "pass" => Arrived(to) = Kept(to) + 1
         /\ pump.at = "write" => Queued(to) = Taken(to) + 1
  <1>1. Len(order) = Queued(to) + Len(outbox)
    BY DEF InTurn
  <1>2. /\ Passed(to) \in Nat /\ Kept(to) \in Nat /\ Arrived(to) \in Nat
        /\ Taken(to) \in Nat /\ Queued(to) \in Nat
        /\ Len(pending) \in Nat /\ Len(up) \in Nat /\ Len(outbox) \in Nat /\ Len(order) \in Nat
    BY Places
  <1>3. /\ Passed(to) = IF Busy THEN to + 1 ELSE to
        /\ Kept(to) = Passed(to) + Len(pending)
        /\ Arrived(to) = IF loop.at = "pass" THEN Kept(to) + 1 ELSE Kept(to) + 0
        /\ Taken(to) = Arrived(to) + Len(up)
        /\ Queued(to) = IF pump.at = "write" THEN Taken(to) + 1 ELSE Taken(to) + 0
    BY Steps
  <1>4. Busy => Passed(to) = to + 1
    BY <1>3
  <1>5. Passed(to) <= Kept(to) /\ Arrived(to) <= Taken(to)
    BY ONLY <1>2, <1>3
  <1>6. Kept(to) <= Arrived(to) /\ (loop.at = "pass" => Arrived(to) = Kept(to) + 1)
    BY ONLY <1>2, <1>3
  <1>7. Taken(to) <= Queued(to) /\ (pump.at = "write" => Queued(to) = Taken(to) + 1)
    BY ONLY <1>2, <1>3
  <1>8. Queued(to) <= Len(order)
    BY ONLY <1>1, <1>2
  <1> QED BY <1>3, <1>4, <1>5, <1>6, <1>7, <1>8

(* The first of a queue in turn, and what it leaves; one more at its end.      *)
LEMMA FromFirst ==
  ASSUME NEW S, NEW s \in Seq(S), s # <<>>, NEW n \in Nat, From(s, n)
  PROVE  Head(s) = order[n + 1] /\ From(Tail(s), n + 1)
  <1>1. /\ Head(s) = s[1] /\ Len(s) \in Nat \ {0} /\ Len(Tail(s)) = Len(s) - 1
        /\ \A i \in 1..Len(s) - 1 : Tail(s)[i] = s[i + 1]
    BY TakenFrom
  <1>2. ASSUME NEW i \in 1..Len(Tail(s)) PROVE Tail(s)[i] = order[(n + 1) + i]
    <2>1. Tail(s)[i] = s[i + 1] /\ i + 1 \in 1..Len(s)
      BY <1>1
    <2>2. s[i + 1] = order[n + (i + 1)] /\ n + (i + 1) = (n + 1) + i
      BY <1>1, <2>1 DEF From
    <2> QED BY <2>1, <2>2
  <1> QED BY <1>1, <1>2 DEF From

LEMMA FromLonger ==
  ASSUME NEW S, NEW s \in Seq(S), NEW e \in S, NEW n \in Nat, From(s, n),
         e = order[n + Len(s) + 1]
  PROVE  From(Append(s, e), n)
  <1>1. /\ Len(s) \in Nat /\ Len(Append(s, e)) = Len(s) + 1
        /\ \A i \in 1..Len(s) : Append(s, e)[i] = s[i]
        /\ Append(s, e)[Len(s) + 1] = e
    BY AddedTo
  <1>2. ASSUME NEW i \in 1..Len(Append(s, e)) PROVE Append(s, e)[i] = order[n + i]
    <2>1. CASE i \in 1..Len(s)
      BY <1>1, <2>1 DEF From
    <2>2. CASE i = Len(s) + 1
      <3>1. n + i = n + Len(s) + 1
        BY <1>1, <2>2
      <3> QED BY <1>1, <2>2, <3>1
    <2> QED BY <1>1, <2>1, <2>2
  <1> QED BY <1>2 DEF From

(* One step of the dispatcher, of the loop or of the pump moves a request to   *)
(* the next place of the line.                                                 *)
LEMMA QuietTurn ==
  ASSUME NEW to \in Nat, InTurn(to),
         UNCHANGED <<dispatcher, pending, loop.held, up, pump.of, outbox, order>>,
         (loop.at = "pass") = (loop.at = "pass")', (pump.at = "write") = (pump.at = "write")'
  PROVE  InTurn(to)'
  <1>1. /\ Passed(to)' = Passed(to) /\ Kept(to)' = Kept(to) /\ Arrived(to)' = Arrived(to)
        /\ Taken(to)' = Taken(to) /\ Queued(to)' = Queued(to)
    BY DEF Passed, Kept, Arrived, Taken, Queued, Busy, One
  <1> QED BY <1>1 DEF InTurn, From, PendingFrom, Busy

LEMMA QueueTurn ==
  ASSUME SessionTyped, NEW to \in Nat, InTurn(to), NEW r \in Requests, Queue(r)
  PROVE  InTurn(to)'
  <1>1. /\ UNCHANGED <<dispatcher, pending, loop, up, pump>>
        /\ outbox' = Append(outbox, r) /\ order' = Append(order, r)
    BY DEF Queue, server
  <1>2. /\ Passed(to)' = Passed(to) /\ Kept(to)' = Kept(to) /\ Arrived(to)' = Arrived(to)
        /\ Taken(to)' = Taken(to) /\ Queued(to)' = Queued(to)
    BY <1>1 DEF Passed, Kept, Arrived, Taken, Queued, Busy, One
  <1>3. outbox \in Seq(Requests) /\ order \in Seq(Requests)
    BY DEF SessionTyped, ClientTyped, RelaysTyped
  <1>4. /\ Len(order') = Len(order) + 1 /\ Len(outbox') = Len(outbox) + 1
        /\ \A i \in 1..Len(order) : order'[i] = order[i]
        /\ \A i \in 1..Len(outbox) : outbox'[i] = outbox[i]
        /\ order'[Len(order) + 1] = r /\ outbox'[Len(outbox) + 1] = r
    BY ONLY <1>1, <1>3, AddedTo
  <1>5. Len(order) = Queued(to) + Len(outbox)
    BY DEF InTurn
  <1>6. /\ Passed(to) \in Nat /\ Kept(to) \in Nat /\ Arrived(to) \in Nat
        /\ Taken(to) \in Nat /\ Queued(to) \in Nat
        /\ Len(pending) \in Nat /\ Len(up) \in Nat /\ Len(outbox) \in Nat /\ Len(order) \in Nat
    BY Places
  <1>7. /\ Passed(to) <= Kept(to) /\ Kept(to) <= Arrived(to) /\ Arrived(to) <= Taken(to)
        /\ Taken(to) <= Queued(to) /\ Queued(to) <= Len(order)
        /\ Busy => Passed(to) = to + 1
        /\ Kept(to) = Passed(to) + Len(pending) /\ Taken(to) = Arrived(to) + Len(up)
        /\ loop.at = "pass" => Arrived(to) = Kept(to) + 1
        /\ pump.at = "write" => Queued(to) = Taken(to) + 1
    BY PlacesInOrder
  <1>8. Busy => dispatcher'.of = order'[to + 1]
    <2>1. Busy => to + 1 \in 1..Len(order) /\ dispatcher.of = order[to + 1]
      <3>1. Busy => dispatcher.of = order[to + 1]
        BY DEF InTurn
      <3> QED BY ONLY <1>6, <1>7, <3>1, to \in Nat
    <2> QED BY <1>1, <1>4, <2>1
  <1>9. PendingFrom(Passed(to))'
    <2> SUFFICES ASSUME NEW i \in 1..Len(pending)
                 PROVE  pending[i].of = order'[Passed(to) + i]
      BY <1>1, <1>2 DEF PendingFrom
    <2>1. Passed(to) + i \in 1..Len(order)
      BY ONLY <1>6, <1>7
    <2> QED BY <1>4, <2>1 DEF InTurn, PendingFrom
  <1>10. loop.at = "pass" => loop.held.of = order'[Kept(to) + 1]
    <2>1. loop.at = "pass" => Kept(to) + 1 \in 1..Len(order)
      BY ONLY <1>6, <1>7
    <2> QED BY <1>4, <2>1 DEF InTurn
  <1>11. From(up, Arrived(to))'
    <2> SUFFICES ASSUME NEW i \in 1..Len(up) PROVE up[i] = order'[Arrived(to) + i]
      BY <1>1, <1>2 DEF From
    <2>1. Arrived(to) + i \in 1..Len(order)
      BY ONLY <1>6, <1>7
    <2> QED BY <1>4, <2>1 DEF InTurn, From
  <1>12. pump.at = "write" => pump.of = order'[Taken(to) + 1]
    <2>1. pump.at = "write" => Taken(to) + 1 \in 1..Len(order)
      BY ONLY <1>6, <1>7
    <2> QED BY <1>4, <2>1 DEF InTurn
  <1>13. From(outbox, Queued(to))'
    <2> SUFFICES ASSUME NEW i \in 1..Len(outbox') PROVE outbox'[i] = order'[Queued(to) + i]
      BY <1>2 DEF From
    <2>1. CASE i \in 1..Len(outbox)
      <3>1. Queued(to) + i \in 1..Len(order)
        BY <1>5, <1>6, <2>1
      <3> QED BY <1>4, <2>1, <3>1 DEF InTurn, From
    <2>2. CASE i = Len(outbox) + 1
      <3>1. Queued(to) + i = Len(order) + 1
        BY <1>5, <1>6, <2>2
      <3> QED BY <1>4, <2>2, <3>1
    <2> QED BY <1>4, <1>6, <2>1, <2>2
  <1>14. (Len(order) = Queued(to) + Len(outbox))'
    BY <1>2, <1>4, <1>5, <1>6
  <1>15. (Busy => dispatcher.of = order[to + 1])'
    BY <1>1, <1>8 DEF Busy
  <1> QED BY <1>1, <1>2, <1>9, <1>10, <1>11, <1>12, <1>13, <1>14, <1>15 DEF InTurn

LEMMA TakeTurn ==
  ASSUME SessionTyped, NEW to \in Nat, InTurn(to), Take
  PROVE  InTurn(to)'
  <1>1. /\ UNCHANGED <<dispatcher, pending, loop, up, order>>
        /\ pump.at = "select" /\ pump' = [at |-> "write", of |-> Head(outbox)]
        /\ outbox # <<>> /\ outbox' = Tail(outbox)
    BY DEF Take, server, history
  <1>2. /\ Passed(to)' = Passed(to) /\ Kept(to)' = Kept(to) /\ Arrived(to)' = Arrived(to)
        /\ Taken(to)' = Taken(to)
    BY <1>1 DEF Passed, Kept, Arrived, Taken, Busy, One
  <1>3. Queued(to) = Taken(to) /\ Taken(to) \in Nat /\ Queued(to)' = Queued(to) + 1
    BY <1>1, <1>2, Places DEF Queued, One
  <1>4. outbox \in Seq(Requests) /\ From(outbox, Queued(to)) /\ Queued(to) \in Nat
    BY <1>3 DEF InTurn, SessionTyped, ClientTyped
  <1>5. /\ Head(outbox) = order[Queued(to) + 1] /\ From(Tail(outbox), Queued(to) + 1)
        /\ Len(outbox) \in Nat /\ Len(outbox') = Len(outbox) - 1
    BY ONLY <1>1, <1>4, FromFirst, TakenFrom
  <1>6. From(outbox, Queued(to))'
    BY <1>1, <1>3, <1>5 DEF From
  <1>7. (Len(order) = Queued(to) + Len(outbox))'
    BY <1>1, <1>3, <1>5 DEF InTurn
  <1> QED BY <1>1, <1>2, <1>3, <1>5, <1>6, <1>7 DEF InTurn, From, PendingFrom, Busy

LEMMA WriteTurn ==
  ASSUME SessionTyped, NEW to \in Nat, InTurn(to), Write, wire.server
  PROVE  InTurn(to)'
  <1>1. /\ UNCHANGED <<dispatcher, pending, loop, outbox, order>>
        /\ pump.at = "write" /\ pump' = [at |-> "select", of |-> 0]
        /\ up' = Append(up, pump.of)
    BY DEF Write, caller, server, history
  <1>2. Passed(to)' = Passed(to) /\ Kept(to)' = Kept(to) /\ Arrived(to)' = Arrived(to)
    BY <1>1 DEF Passed, Kept, Arrived, Busy, One
  <1>3. /\ up \in Seq(Requests) /\ pump.of \in Requests /\ Arrived(to) \in Nat
        /\ Taken(to) = Arrived(to) + Len(up) /\ Len(up) \in Nat
    BY <1>1, Places DEF SessionTyped, ClientTyped, RelaysTyped, Taken
  <1>4. pump.of = order[Arrived(to) + Len(up) + 1] /\ From(up, Arrived(to))
    BY <1>1, <1>3 DEF InTurn
  <1>5. From(Append(up, pump.of), Arrived(to)) /\ Len(up') = Len(up) + 1
    BY ONLY <1>1, <1>3, <1>4, FromLonger, AddedTo
  <1>6. Taken(to)' = Taken(to) + 1
    BY <1>2, <1>3, <1>5 DEF Taken
  <1>7. Queued(to)' = Queued(to)
    BY <1>1, <1>3, <1>6 DEF Queued, One
  <1>8. From(up, Arrived(to))'
    BY <1>1, <1>2, <1>5 DEF From
  <1> QED BY <1>1, <1>2, <1>7, <1>8 DEF InTurn, From, PendingFrom, Busy

LEMMA AdmitTurn ==
  ASSUME SessionTyped, NEW to \in Nat, InTurn(to), Admit
  PROVE  InTurn(to)'
  <1>1. /\ UNCHANGED <<dispatcher, pending, pump, outbox, order>>
        /\ loop.at = "select" /\ loop'.at = "pass" /\ loop'.held.of = Head(up)
        /\ up # <<>> /\ up' = Tail(up)
    BY DEF Admit, caller, history, Hold
  <1>2. Passed(to)' = Passed(to) /\ Kept(to)' = Kept(to)
    BY <1>1 DEF Passed, Kept, Busy
  <1>3. Arrived(to) = Kept(to) /\ Arrived(to) \in Nat /\ Arrived(to)' = Arrived(to) + 1
    BY <1>1, <1>2, Places DEF Arrived, One
  <1>4. up \in Seq(Requests) /\ From(up, Arrived(to))
    BY DEF InTurn, SessionTyped, RelaysTyped
  <1>5. /\ Head(up) = order[Arrived(to) + 1] /\ From(Tail(up), Arrived(to) + 1)
        /\ Len(up) \in Nat /\ Len(up') = Len(up) - 1
    BY ONLY <1>1, <1>3, <1>4, FromFirst, TakenFrom
  <1>6. Taken(to)' = Taken(to)
    BY <1>3, <1>5 DEF Taken
  <1>7. Queued(to)' = Queued(to)
    BY <1>1, <1>6 DEF Queued
  <1>8. From(up, Arrived(to))'
    BY <1>1, <1>3, <1>5 DEF From
  <1> QED BY <1>1, <1>2, <1>3, <1>5, <1>6, <1>7, <1>8 DEF InTurn, From, PendingFrom, Busy

LEMMA PassTurn ==
  ASSUME SessionTyped, NEW to \in Nat, InTurn(to), Pass
  PROVE  InTurn(to)'
  <1>1. /\ UNCHANGED <<dispatcher, up, pump, outbox, order>>
        /\ loop.at = "pass" /\ pending' = Append(pending, loop.held)
        /\ loop'.at # "pass"
    BY DEF Pass, caller, history
  <1>2. Passed(to)' = Passed(to) /\ Passed(to) \in Nat
    BY <1>1, Places DEF Passed, Busy
  <1>3. /\ Len(pending) \in Nat /\ Len(pending') = Len(pending) + 1
        /\ \A i \in 1..Len(pending) : pending'[i] = pending[i]
        /\ pending'[Len(pending) + 1] = loop.held
    <2>1. pending \in Seq(Held) /\ loop.held \in Held
      BY DEF SessionTyped, ServerTyped
    <2> QED BY ONLY <1>1, <2>1, AddedTo
  <1>4. Kept(to)' = Kept(to) + 1 /\ Kept(to) = Passed(to) + Len(pending)
    BY <1>2, <1>3 DEF Kept
  <1>5. Arrived(to)' = Arrived(to)
    <2>1. Arrived(to) = Kept(to) + 1
      BY <1>1 DEF Arrived, One
    <2>2. Arrived(to)' = Kept(to)' + 0
      BY <1>1 DEF Arrived, One
    <2> QED BY <1>2, <1>3, <1>4, <2>1, <2>2
  <1>6. Taken(to)' = Taken(to) /\ Queued(to)' = Queued(to)
    BY <1>1, <1>5 DEF Taken, Queued
  <1>7. PendingFrom(Passed(to))'
    <2> SUFFICES ASSUME NEW i \in 1..Len(pending')
                 PROVE  pending'[i].of = order[Passed(to) + i]
      BY <1>1, <1>2 DEF PendingFrom
    <2>1. CASE i \in 1..Len(pending)
      BY <1>3, <2>1 DEF InTurn, PendingFrom
    <2>2. CASE i = Len(pending) + 1
      <3>1. Passed(to) + i = Kept(to) + 1
        BY <1>2, <1>3, <1>4, <2>2
      <3> QED BY <1>1, <1>3, <2>2, <3>1 DEF InTurn
    <2> QED BY <1>3, <2>1, <2>2
  <1> QED BY <1>1, <1>2, <1>5, <1>6, <1>7 DEF InTurn, From, Busy

LEMMA DispatchTurn ==
  ASSUME SessionTyped, NEW to \in Nat, InTurn(to), Dispatch
  PROVE  InTurn(to)'
  <1>1. /\ UNCHANGED <<loop, up, pump, outbox, order>>
        /\ dispatcher.at = "idle" /\ pending # <<>> /\ pending' = Tail(pending)
        /\ dispatcher'.at \in {"ask", "reply"} /\ dispatcher'.of = Head(pending).of
    BY DEF Dispatch, caller, history
  <1>2. Passed(to) = to /\ Passed(to)' = to + 1
    BY <1>1 DEF Passed, Busy, One
  <1>3. /\ Len(pending) \in Nat \ {0} /\ Len(pending') = Len(pending) - 1
        /\ Head(pending) = pending[1]
        /\ \A i \in 1..Len(pending) - 1 : pending'[i] = pending[i + 1]
    <2>1. pending \in Seq(Held)
      BY DEF SessionTyped, ServerTyped
    <2> QED BY ONLY <1>1, <2>1, TakenFrom
  <1>4. Kept(to)' = Kept(to)
    <2>1. Kept(to) = to + Len(pending) /\ Kept(to)' = (to + 1) + Len(pending')
      BY <1>2 DEF Kept
    <2> QED BY ONLY <1>3, <2>1, to \in Nat
  <1>5. /\ Arrived(to)' = Arrived(to) /\ Taken(to)' = Taken(to) /\ Queued(to)' = Queued(to)
    BY <1>1, <1>4 DEF Arrived, Taken, Queued
  <1>6. PendingFrom(to)
    BY <1>2 DEF InTurn
  <1>7. dispatcher'.of = order[to + 1]
    BY <1>1, <1>3, <1>6 DEF PendingFrom
  <1>8. PendingFrom(Passed(to))'
    <2> SUFFICES ASSUME NEW i \in 1..Len(pending')
                 PROVE  pending'[i].of = order[(to + 1) + i]
      BY <1>1, <1>2 DEF PendingFrom
    <2>1. i + 1 \in 1..Len(pending) /\ pending'[i] = pending[i + 1] /\ to + (i + 1) = (to + 1) + i
      BY <1>3
    <2>2. pending[i + 1].of = order[to + (i + 1)]
      BY <1>6, <2>1 DEF PendingFrom
    <2> QED BY <2>1, <2>2
  <1> QED BY <1>1, <1>4, <1>5, <1>7, <1>8 DEF InTurn, From

(* The reply has been sent: the dispatcher is done with the next request.      *)
LEMMA ReplyTurn ==
  ASSUME SessionTyped, NEW to \in Nat, InTurn(to), Reply
  PROVE  InTurn(to + 1)'
  <1>1. /\ UNCHANGED <<loop, pending, up, pump, outbox, order>>
        /\ dispatcher.at = "reply" /\ dispatcher'.at = "idle"
    BY DEF Reply, caller, history
  <1>2. Passed(to) = to + 1 /\ Passed(to + 1)' = to + 1
    BY <1>1 DEF Passed, Busy, One
  <1>3. /\ Kept(to + 1)' = Kept(to) /\ Arrived(to + 1)' = Arrived(to)
        /\ Taken(to + 1)' = Taken(to) /\ Queued(to + 1)' = Queued(to)
    BY <1>1, <1>2 DEF Kept, Arrived, Taken, Queued
  <1>4. ~Busy'
    BY <1>1 DEF Busy
  <1> QED BY <1>1, <1>2, <1>3, <1>4 DEF InTurn, From, PendingFrom

LEMMA AttachTurn ==
  ASSUME SessionTyped, EndInv, Attach
  PROVE  InTurn(0)'
  <1>1. /\ dispatcher'.at = "idle" /\ pending' = <<>> /\ loop'.at = "welcomed" /\ up' = <<>>
        /\ pump'.at = "select" /\ outbox' = <<>> /\ order' = <<>>
    BY DEF Attach, Connects, Welcomes, EndInv, caller
  <1>2. Len(<<>>) = 0
    OBVIOUS
  <1>3. Passed(0)' = 0 /\ Kept(0)' = 0 /\ Arrived(0)' = 0 /\ Taken(0)' = 0 /\ Queued(0)' = 0
    BY <1>1, <1>2 DEF Passed, Kept, Arrived, Taken, Queued, Busy, One
  <1> QED BY <1>1, <1>2, <1>3 DEF InTurn, From, PendingFrom, Busy

LEMMA OpenOrNot ==
  ASSUME SessionTyped
  PROVE  wire.client /\ wire.server <=> wire = Open
  BY DEF SessionTyped, RelaysTyped, Open

(* Nothing arrives and nothing is sent down. *)
LEMMA LineKept ==
  ASSUME OrderInv, UNCHANGED <<order, replied, down>>,
         wire' = Open => wire = Open /\ \A to \in Nat : InTurn(to) => InTurn(to)'
  PROVE  OrderInv'
  <1>1. PICK to \in 0..Len(order) :
          Numbered(order, down, Len(replied), to) /\ (wire = Open => InTurn(to))
    BY DEF OrderInv
  <1>2. Len(replied') <= Len(order') /\ From(replied, 0)'
    BY DEF OrderInv, From
  <1>3. to \in 0..Len(order') /\ Numbered(order', down', Len(replied'), to)
    BY <1>1
  <1>4. wire' = Open => InTurn(to)'
    BY <1>1
  <1> QED BY <1>2, <1>3, <1>4 DEF OrderInv

(* The connection is over: what has been written may be lost. *)
LEMMA LinePart ==
  ASSUME SessionTyped, OrderInv, UNCHANGED <<order, replied>>, down' \in Some(down), wire' # Open
  PROVE  OrderInv'
  <1>1. PICK to \in 0..Len(order) : Numbered(order, down, Len(replied), to)
    BY DEF OrderInv
  <1>2. down \in Seq(0..MaxRequests) /\ Len(order) \in Nat
    BY LenProperties DEF SessionTyped, RelaysTyped
  <1>3. \E end \in 0..Len(order) : Numbered(order, down', Len(replied), end)
    BY ONLY <1>1, <1>2, down' \in Some(down), NumberedPart
  <1>4. Len(replied') <= Len(order') /\ From(replied, 0)'
    BY DEF OrderInv, From
  <1> QED BY <1>3, <1>4 DEF OrderInv

LEMMA LineQueue ==
  ASSUME SessionTyped, OrderInv, NEW r \in Requests, Queue(r)
  PROVE  OrderInv'
  <1>1. PICK to \in 0..Len(order) :
          Numbered(order, down, Len(replied), to) /\ (wire = Open => InTurn(to))
    BY DEF OrderInv
  <1>2. UNCHANGED <<replied, down, wire>> /\ order' = Append(order, r)
    BY DEF Queue
  <1>3. order \in Seq(Requests) /\ Len(down) \in Nat /\ Len(order) \in Nat /\ Len(replied) \in Nat
    BY LenProperties DEF SessionTyped, RelaysTyped
  <1>4. Len(order') = Len(order) + 1 /\ \A i \in 1..Len(order) : order'[i] = order[i]
    BY ONLY <1>2, <1>3, AddedTo, r \in Requests
  <1>5. Numbered(order', down', Len(replied'), to)
    BY ONLY <1>1, <1>2, <1>3, NumberedLonger, r \in Requests
  <1>6. Len(replied') <= Len(order')
    BY <1>2, <1>3, <1>4 DEF OrderInv
  <1>7. From(replied, 0)'
    BY <1>2, <1>3, <1>4 DEF OrderInv, From
  <1>8. wire' = Open => InTurn(to)'
    BY <1>1, <1>2, <1>3, QueueTurn
  <1>9. to \in 0..Len(order')
    BY <1>3, <1>4
  <1> QED BY <1>5, <1>6, <1>7, <1>8, <1>9 DEF OrderInv

LEMMA LineReceive ==
  ASSUME SessionTyped, OrderInv, Receive
  PROVE  OrderInv'
  <1>1. PICK to \in 0..Len(order) :
          Numbered(order, down, Len(replied), to) /\ (wire = Open => InTurn(to))
    BY DEF OrderInv
  <1>2. /\ UNCHANGED <<wire, dispatcher, pending, loop, up, pump, outbox, order>>
        /\ down # <<>> /\ down' = Tail(down)
        /\ replied' = IF Head(down) = 0 THEN replied ELSE Append(replied, Head(down))
    BY DEF Receive, server
  <1>3. /\ down \in Seq(0..MaxRequests) /\ replied \in Seq(Requests) /\ order \in Seq(Requests)
        /\ Len(order) \in Nat /\ Len(replied) \in Nat
    BY LenProperties DEF SessionTyped, RelaysTyped
  <1>4. IF Head(down) = 0 THEN Numbered(order, down', Len(replied), to)
        ELSE /\ Len(replied) + 1 <= Len(order) /\ Head(down) = order[Len(replied) + 1]
             /\ Numbered(order, down', Len(replied) + 1, to)
    BY ONLY <1>1, <1>2, <1>3, NumberedFirst
  <1>5. wire' = Open => InTurn(to)'
    BY <1>1, <1>2, QuietTurn
  <1>6. CASE Head(down) = 0
    <2>1. Len(replied') <= Len(order') /\ From(replied, 0)'
      BY <1>2, <1>6 DEF OrderInv, From
    <2> QED BY <1>1, <1>2, <1>4, <1>5, <1>6, <2>1 DEF OrderInv
  <1>7. CASE Head(down) # 0
    <2>1. replied' = Append(replied, order[Len(replied) + 1]) /\ order[Len(replied) + 1] \in Requests
      <3>1. Len(replied) + 1 \in 1..Len(order)
        BY <1>3, <1>4, <1>7
      <3>2. order[Len(replied) + 1] \in Requests
        BY ONLY <1>3, <3>1, ElementOfSeq
      <3> QED BY <1>2, <1>4, <1>7, <3>2
    <2>2. From(replied, 0) /\ order[0 + Len(replied) + 1] = order[Len(replied) + 1]
      BY <1>3 DEF OrderInv
    <2>3. From(replied', 0) /\ Len(replied') = Len(replied) + 1
      BY ONLY <1>3, <2>1, <2>2, FromLonger, AddedTo
    <2>4. From(replied, 0)'
      BY <1>2, <2>3 DEF From
    <2>5. Len(replied') <= Len(order')
      BY <1>2, <1>4, <1>7, <2>3
    <2> QED BY <1>1, <1>2, <1>4, <1>5, <1>7, <2>3, <2>4, <2>5 DEF OrderInv
  <1> QED BY <1>6, <1>7

LEMMA LineTell ==
  ASSUME SessionTyped, EndInv, OrderInv, Tell
  PROVE  OrderInv'
  <1>1. /\ UNCHANGED <<wire, dispatcher, pending, loop.held, up, pump, outbox, order, replied>>
        /\ loop.at = "tell" /\ loop'.at = "select" /\ Sent(0)
    <2>1. loop' = [loop EXCEPT !.at = "select"] /\ loop.at = "tell"
      BY DEF Tell
    <2>2. loop'.at = "select" /\ loop'.held = loop.held
      BY <2>1 DEF SessionTyped, ServerTyped
    <2> QED BY <2>1, <2>2 DEF Tell, caller, history
  <1>2. \A to \in Nat : InTurn(to) => InTurn(to)'
    BY <1>1, QuietTurn
  <1>3. CASE wire.client
    <2>1. wire = Open /\ down' = Append(down, 0)
      BY <1>1, <1>3, OpenOrNot DEF EndInv, Sent
    <2>2. PICK to \in 0..Len(order) : Numbered(order, down, Len(replied), to) /\ InTurn(to)
      BY <2>1 DEF OrderInv
    <2>3. down \in Seq(0..MaxRequests) /\ Len(order) \in Nat /\ 0 \in 0..MaxRequests
      BY LenProperties, Sizes DEF SessionTyped, RelaysTyped
    <2>4. Numbered(order', down', Len(replied'), to)
      BY ONLY <1>1, <2>1, <2>2, <2>3, NumberedEvent
    <2>5. Len(replied') <= Len(order') /\ From(replied, 0)'
      BY <1>1 DEF OrderInv, From
    <2>6. InTurn(to)'
      BY <1>2, <2>2, <2>3
    <2> QED BY <1>1, <2>2, <2>4, <2>5, <2>6 DEF OrderInv
  <1>4. CASE ~wire.client
    BY <1>1, <1>2, <1>4, LineKept DEF Sent
  <1> QED BY <1>3, <1>4

LEMMA LineReply ==
  ASSUME SessionTyped, EndInv, OrderInv, Reply
  PROVE  OrderInv'
  <1>1. /\ UNCHANGED <<wire, order, replied>>
        /\ dispatcher.at = "reply" /\ Sent(dispatcher.of)
    BY DEF Reply, history
  <1>2. CASE wire.client
    <2>1. wire = Open /\ down' = Append(down, dispatcher.of)
      BY <1>1, <1>2, OpenOrNot DEF EndInv, Sent
    <2>2. PICK to \in 0..Len(order) : Numbered(order, down, Len(replied), to) /\ InTurn(to)
      BY <2>1 DEF OrderInv
    <2>3. /\ down \in Seq(0..MaxRequests) /\ order \in Seq(Requests)
          /\ Len(order) \in Nat /\ to \in Nat
      BY LenProperties DEF SessionTyped, RelaysTyped
    <2>4. dispatcher.of = order[to + 1]
      BY <1>1, <2>2 DEF InTurn, Busy
    <2>5. to + 1 <= Len(order)
      <3>1. /\ Passed(to) \in Nat /\ Kept(to) \in Nat /\ Arrived(to) \in Nat
            /\ Taken(to) \in Nat /\ Queued(to) \in Nat
        BY <2>3, Places
      <3>2. /\ Passed(to) <= Kept(to) /\ Kept(to) <= Arrived(to) /\ Arrived(to) <= Taken(to)
            /\ Taken(to) <= Queued(to) /\ Queued(to) <= Len(order)
        BY <2>2, <2>3, PlacesInOrder
      <3>3. Passed(to) = to + 1
        BY <1>1 DEF Passed, Busy, One
      <3> QED BY ONLY <2>3, <3>1, <3>2, <3>3
    <2>6. order[to + 1] \in Requests /\ order[to + 1] # 0
      <3>1. order[to + 1] \in Requests
        BY ONLY <2>3, <2>5, ElementOfSeq
      <3> QED BY <3>1, Sizes DEF Requests
    <2>7. Numbered(order', down', Len(replied'), to + 1)
      <3>1. order[to + 1] \in 0..MaxRequests
        BY <2>6, Sizes DEF Requests
      <3>2. Numbered(order, Append(down, order[to + 1]), Len(replied), to + 1)
        BY ONLY <2>2, <2>3, <2>5, <2>6, <3>1, NumberedReply
      <3> QED BY <1>1, <2>1, <2>4, <3>2
    <2>8. Len(replied') <= Len(order') /\ From(replied, 0)'
      BY <1>1 DEF OrderInv, From
    <2>9. InTurn(to + 1)'
      BY <2>2, <2>3, ReplyTurn
    <2>10. to + 1 \in 0..Len(order')
      BY <1>1, <2>3, <2>5
    <2> QED BY <2>7, <2>8, <2>9, <2>10 DEF OrderInv
  <1>3. CASE ~wire.client
    <2>1. down' = down /\ wire # Open
      BY <1>1, <1>3, OpenOrNot DEF Sent
    <2> QED BY <1>1, <2>1, LineKept
  <1> QED BY <1>2, <1>3

LEMMA LineAttach ==
  ASSUME SessionTyped, EndInv, Attach
  PROVE  OrderInv'
  <1>1. order' = <<>> /\ replied' = <<>> /\ down' = <<>>
    BY DEF Attach, Connects
  <1>2. <<>> \in Seq(Requests) /\ Len(<<>>) = 0 /\ 0 \in 0..0
    BY EmptySeq
  <1>3. Numbered(<<>>, <<>>, 0, 0)
    BY ONLY <1>2, NumberedNothing
  <1>4. InTurn(0)'
    BY AttachTurn
  <1>5. From(replied, 0)'
    BY <1>1, <1>2 DEF From
  <1> QED BY <1>1, <1>2, <1>3, <1>4, <1>5 DEF OrderInv

LEMMA OrderStep == SessionTyped /\ EndInv /\ OrderInv /\ [Next]_vars => OrderInv'
  <1> SUFFICES ASSUME SessionTyped, EndInv, OrderInv, [Next]_vars PROVE OrderInv'
    OBVIOUS
  <1>1. CASE UNCHANGED <<wire, dispatcher, pending, loop, up, down, pump, outbox, order, replied>>
    <2>1. \A to \in Nat : InTurn(to) => InTurn(to)'
      BY <1>1, QuietTurn
    <2> QED BY <1>1, <2>1, LineKept
  <1>2. ASSUME UNCHANGED <<order, replied, down>>, wire' # Open PROVE OrderInv'
    BY <1>2, LineKept
  <1>3. ASSUME UNCHANGED <<order, replied, down, wire>>,
               \A to \in Nat : InTurn(to) => InTurn(to)'
        PROVE  OrderInv'
    BY <1>3, LineKept
  <1>4. CASE Attach
    BY <1>4, LineAttach
  <1>5. CASE Cut
    <2>1. UNCHANGED <<order, replied>> /\ down' \in Some(down) /\ wire' # Open
      BY <1>5 DEF Cut, Shut, Open, history
    <2> QED BY <2>1, LinePart
  <1>6. CASE Leave \/ PumpReturns
    <2>1. UNCHANGED <<order, replied, down>> /\ ~wire'.client
      BY <1>6 DEF Leave, PumpReturns, history, SessionTyped, RelaysTyped
    <2> QED BY <1>2, <2>1 DEF Open
  <1>7. ASSUME NEW r \in Requests, Queue(r) PROVE OrderInv'
    BY <1>7, LineQueue
  <1>8. CASE Take
    <2>1. UNCHANGED <<order, replied, down, wire>>
      BY <1>8 DEF Take, history
    <2> QED BY <1>3, <1>8, <2>1, TakeTurn
  <1>9. CASE Write
    <2>1. UNCHANGED <<order, replied, down, wire>>
      BY <1>9 DEF Write, history
    <2>2. CASE wire.server
      BY <1>3, <1>9, <2>1, <2>2, WriteTurn
    <2>3. CASE ~wire.server
      BY <1>2, <2>1, <2>3 DEF Open
    <2> QED BY <2>2, <2>3
  <1>10. CASE Receive
    BY <1>10, LineReceive
  <1>11. CASE PumpEnds \/ Clear
    <2>1. UNCHANGED <<order, replied, down, wire>> /\ ~wire.server
      BY <1>11 DEF PumpEnds, Clear, history, EndInv
    <2> QED BY <1>2, <2>1 DEF Open
  <1>12. CASE Subscribe \/ Notice
    <2>1. /\ UNCHANGED <<wire, dispatcher, pending, up, down, pump, outbox, order, replied>>
          /\ loop.at \in {"welcomed", "select"}
          /\ loop' \in {[loop EXCEPT !.at = "select"], [loop EXCEPT !.at = "tell"]}
      BY <1>12 DEF Subscribe, Notice, caller, history
    <2>2. loop'.held = loop.held /\ loop.at # "pass" /\ loop'.at # "pass"
      BY <2>1 DEF SessionTyped, ServerTyped
    <2>3. \A to \in Nat : InTurn(to) => InTurn(to)'
      BY <2>1, <2>2, QuietTurn
    <2> QED BY <1>3, <2>1, <2>3
  <1>13. CASE Admit
    <2>1. UNCHANGED <<order, replied, down, wire>>
      BY <1>13 DEF Admit, history
    <2> QED BY <1>3, <1>13, <2>1, AdmitTurn
  <1>14. CASE Pass
    <2>1. UNCHANGED <<order, replied, down, wire>>
      BY <1>14 DEF Pass, history
    <2> QED BY <1>3, <1>14, <2>1, PassTurn
  <1>15. CASE Tell
    BY <1>15, LineTell
  <1>16. CASE NoticesEnd \/ ReplyFails
    <2>1. UNCHANGED <<order, replied, down, wire>> /\ ~wire.client
      BY <1>16 DEF NoticesEnd, Ends, ReplyFails, history
    <2> QED BY <1>2, <2>1 DEF Open
  <1>17. CASE Detach
    <2>1. UNCHANGED <<order, replied>> /\ down' \in Some(down) /\ ~wire'.server
      BY <1>17 DEF Detach, history, SessionTyped, RelaysTyped
    <2> QED BY <2>1, LinePart DEF Open
  <1>18. CASE Dispatch
    <2>1. UNCHANGED <<order, replied, down, wire>>
      BY <1>18 DEF Dispatch, history
    <2> QED BY <1>3, <1>18, <2>1, DispatchTurn
  <1>19. CASE CoreReplies
    <2>1. /\ UNCHANGED <<order, replied, down, wire, pending, loop, up, pump, outbox>>
          /\ dispatcher.at = "ask" /\ dispatcher' = [dispatcher EXCEPT !.at = "reply"]
      BY <1>19 DEF CoreReplies, history, caller
    <2>2. dispatcher'.of = dispatcher.of /\ Busy /\ Busy'
      BY <2>1 DEF SessionTyped, ServerTyped, Busy
    <2>3. ASSUME NEW to \in Nat, InTurn(to) PROVE InTurn(to)'
      <3>1. /\ Passed(to)' = Passed(to) /\ Kept(to)' = Kept(to) /\ Arrived(to)' = Arrived(to)
            /\ Taken(to)' = Taken(to) /\ Queued(to)' = Queued(to)
        BY <2>1, <2>2 DEF Passed, Kept, Arrived, Taken, Queued, One
      <3> QED BY <2>1, <2>2, <2>3, <3>1 DEF InTurn, From, PendingFrom
    <2> QED BY <1>3, <2>1, <2>3
  <1>20. CASE Reply
    BY <1>20, LineReply
  <1>21. ASSUME NEW a \in Addresses, Elsewhere(a) PROVE OrderInv'
    BY <1>1, <1>21 DEF Elsewhere, caller, server, history
  <1>22. ASSUME NEW r \in Requests,
                Call(r) \/ CallLate(r) \/ Deadline(r) \/ QueueFails(r) \/ Dropped(r)
         PROVE  OrderInv'
    BY <1>1, <1>22 DEF Call, CallLate, Deadline, QueueFails, Dropped, server, history
  <1>23. CASE TimePasses \/ Publish \/ UNCHANGED vars
    BY <1>1, <1>23 DEF TimePasses, Publish, vars, caller, server, history
  <1> QED BY <1>4, <1>5, <1>6, <1>7, <1>8, <1>9, <1>10, <1>11, <1>12, <1>13, <1>14, <1>15, <1>16,
             <1>17, <1>18, <1>19, <1>20, <1>21, <1>22, <1>23
          DEF Next, CallerStep, PumpStep, ServerStep, DispatcherStep

LEMMA OrderMeans == SessionTyped /\ OrderInv => RepliesInOrder
  <1> SUFFICES ASSUME SessionTyped, OrderInv PROVE RepliesInOrder
    OBVIOUS
  <1>1. /\ replied \in Seq(Requests) /\ order \in Seq(Requests)
        /\ Len(replied) \in Nat /\ Len(order) \in Nat
        /\ Len(replied) <= Len(order) /\ \A i \in 1..Len(replied) : replied[i] = order[i]
    BY LenProperties DEF SessionTyped, RelaysTyped, OrderInv, From
  <1>2. \A s \in Seq(Requests) : \A n \in 0..Len(s) :
          /\ SubSeq(s, 1, n) \in Seq(Requests) /\ Len(SubSeq(s, 1, n)) = n
          /\ \A i \in 1..n : SubSeq(s, 1, n)[i] = s[i]
    <2> TAKE s \in Seq(Requests)
    <2> TAKE n \in 0..Len(s)
    <2>1. Len(s) \in Nat /\ \A i \in 1..n : s[i] \in Requests
      BY LenProperties, ElementOfSeq
    <2> QED BY <2>1, SubSeqProperties
  <1>3. SubSeq(replied, 1, Len(replied)) = SubSeq(order, 1, Len(replied))
    BY ONLY <1>1, <1>2, SeqEqual
  <1> QED BY <1>1, <1>3 DEF RepliesInOrder, IsPrefix

(* "Replies arrive in request order", for callers that still wait, whatever is  *)
(* cut, shed or given up, for queues of any size (RemoteClient::request, pump,   *)
(* serve_connection, the dispatcher).                                           *)
THEOREM RepliesStayMatched == Spec => []RepliesMatch
  <1> DEFINE Inv == SessionTyped /\ BudgetInv /\ EndInv /\ OrderInv
  <1>1. Init => Inv
    <2> SUFFICES ASSUME Init PROVE Inv
      OBVIOUS
    <2>1. SessionTyped
      BY InitTyped
    <2>2. BudgetInv
      BY InitBudgets
    <2>3. EndInv
      BY DEF Init, EndInv, Shut
    <2>4. OrderInv
      <3>1. order = <<>> /\ replied = <<>> /\ down = <<>> /\ wire # Open
        BY DEF Init, Shut, Open
      <3>2. <<>> \in Seq(Requests) /\ Len(<<>>) = 0 /\ 0 \in 0..0
        BY EmptySeq
      <3>3. Numbered(<<>>, <<>>, 0, 0)
        BY ONLY <3>2, NumberedNothing
      <3>4. From(replied, 0)
        BY <3>1, <3>2 DEF From
      <3> QED BY <3>1, <3>2, <3>3, <3>4 DEF OrderInv
    <2> QED BY <2>1, <2>2, <2>3, <2>4
  <1>2. Inv /\ [Next]_vars => Inv'
    BY TypedStep, StepKeepsBudgets, EndStep, OrderStep
  <1>3. Inv => TypeOK /\ RepliesInOrder
    BY TypedMeans, OrderMeans
  <1>4. TypeOK /\ RepliesInOrder /\ TableIsLive => RepliesMatch
    BY DEF RepliesMatch
  <1> QED BY <1>1, <1>2, <1>3, <1>4, RepliesAreAwaited, PTL DEF Spec
=============================================================================

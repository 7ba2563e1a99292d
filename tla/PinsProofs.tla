----------------------------- MODULE PinsProofs -----------------------------
(***************************************************************************)
(* Theorems about the pins and about the daemon that keeps them, for every   *)
(* set of nicknames, identities and readers, and every bound of the table:   *)
(* what a run pins reaches the file, and a nickname is written at most twice *)
(* in a run.  Every step of the daemon is a step of the pins or leaves them  *)
(* alone, so what holds of the pins holds in the daemon.                     *)
(*                                                                           *)
(* About the daemon itself: one identity is announced over all its runs,     *)
(* and it serves with a complete database only (invariant DaemonInv).        *)
(***************************************************************************)
EXTENDS Daemon, FiniteSetTheorems, TLAPS

(* A reader has something to write and has not copied the table yet. *)
Persisting == \E r \in Readers : at[r] = "persist"

(* The write lock is held by the reader that publishes, and by no other. *)
LockInv ==
  /\ \A r \in Readers : at[r] = "publish" <=> writing = r
  /\ ~serving => /\ writing = Free
                 /\ \A r \in Readers : at[r] = "idle"

(* A nickname that changed at most once is in the file, in the copy that is  *)
(* being published, or a reader that has not copied yet will publish it.     *)
CoveredInv ==
  \A n \in Pinned : changes[n] < 2 =>
    \/ Persisting
    \/ writing = Free /\ (failed \/ file[n] = pins[n].key)
    \/ writing \in Readers /\ snap[writing][n] = pins[n].key

(* What has been written is accounted for in the pin. *)
BudgetInv ==
  \A n \in Names :
    /\ pins[n].key = NoKey => ~pins[n].changeWritten
    /\ pins[n].changeWritten => changes[n] > 0
    /\ writes[n] <= 2
    /\ serving /\ pins[n].key = NoKey => writes[n] = 0
    /\ serving /\ ~pins[n].changeWritten => writes[n] <= 1

PinInv == PinTypeOK /\ LockInv /\ CoveredInv /\ BudgetInv

(* The initial states satisfy the invariant. *)
LEMMA PinInitInv == PinInit => PinInv
  <1> SUFFICES ASSUME PinInit PROVE PinInv
    OBVIOUS
  <1> USE PinConstants DEF PinInit
  <1>1. PinTypeOK
    <2>1. Nothing \in Table
      BY DEF Nothing, Table
    <2>2. pins \in [Names -> Pin]
      BY DEF Pin, Fresh
    <2>3. changes \in [Names -> 0..2] /\ writes \in [Names -> Nat]
      OBVIOUS
    <2>4. at \in [Readers -> {"idle", "persist", "publish"}]
      OBVIOUS
    <2>5. snap \in [Readers -> Table] /\ file \in Table /\ shown \in Table
      BY <2>1
    <2> QED BY <2>2, <2>3, <2>4, <2>5 DEF PinTypeOK
  <1>2. LockInv
    BY DEF LockInv
  <1>3. CoveredInv
    BY DEF CoveredInv, Pinned, Fresh
  <1>4. BudgetInv
    BY DEF BudgetInv, Fresh
  <1> QED BY <1>1, <1>2, <1>3, <1>4 DEF PinInv

(* A restart begins with the table the file holds, or with none. *)
LEMMA RestoreInv == PinInv /\ Restore => PinInv'
  <1> SUFFICES ASSUME PinInv, Restore PROVE PinInv'
    OBVIOUS
  <1> USE PinConstants DEF PinInv, Restore
  <1>1. PinTypeOK'
    BY DEF PinTypeOK, Table, Pin, Fresh
  <1>2. LockInv'
    BY DEF LockInv
  <1>3. CoveredInv'
    BY DEF LockInv, CoveredInv, PinTypeOK, Pinned, Table, Fresh
  <1>4. BudgetInv'
    BY DEF BudgetInv, Fresh, PinTypeOK
  <1> QED BY <1>1, <1>2, <1>3, <1>4

(* The end of a process leaves nothing pinned, and the lock free. *)
LEMMA LoseInv == PinInv /\ Lose => PinInv'
  <1> SUFFICES ASSUME PinInv, Lose PROVE PinInv'
    OBVIOUS
  <1> USE PinConstants DEF PinInv, Lose
  <1>1. PinTypeOK'
    BY DEF PinTypeOK, Table, Pin, Fresh, Nothing
  <1>2. LockInv'
    BY DEF LockInv
  <1>3. CoveredInv'
    BY DEF CoveredInv, Pinned, Fresh
  <1>4. BudgetInv'
    BY DEF BudgetInv, Fresh, PinTypeOK
  <1> QED BY <1>1, <1>2, <1>3, <1>4

(* An announcement: what it pins, its reader goes on to write. *)
LEMMA ObserveInv ==
  ASSUME NEW r \in Readers, NEW n \in Names, NEW k \in Keys, PinInv, Observe(r, n, k)
  PROVE  PinInv'
  <1> USE PinConstants DEF PinInv, ToWrite
  <1>1. CASE Known(r, n, k)
    BY <1>1 DEF Known, PinTypeOK, LockInv, CoveredInv, BudgetInv, Pinned, Persisting, Table
  <1>2. CASE Changed(r, n, k)
    <2> USE <1>2 DEF Changed
    <2>1. PinTypeOK'
      <3>1. pins' \in [Names -> Pin] /\ changes' \in [Names -> 0..2] /\ shown' \in Table
        BY DEF PinTypeOK, Table, Pin
      <3>2. at' \in [Readers -> {"idle", "persist", "publish"}] /\ writes' \in [Names -> Nat]
        BY DEF PinTypeOK
      <3> QED BY <3>1, <3>2 DEF PinTypeOK
    <2>2. LockInv'
      BY DEF LockInv, PinTypeOK
    <2>3. CoveredInv'
      <3>1. CASE pins[n].changeWritten
        <4>1. changes'[n] = 2
          BY <3>1 DEF BudgetInv, PinTypeOK
        <4>2. \A m \in Names : m # n => pins'[m] = pins[m] /\ changes'[m] = changes[m]
          BY DEF PinTypeOK
        <4>3. UNCHANGED <<at, writing, file, failed, snap>>
          BY <3>1
        <4> QED BY <4>1, <4>2, <4>3 DEF CoveredInv, Pinned, Persisting
      <3>2. CASE ~pins[n].changeWritten
        <4>1. at'[r] = "persist"
          BY <3>2 DEF PinTypeOK
        <4> QED BY <4>1 DEF CoveredInv, Persisting
      <3> QED BY <3>1, <3>2
    <2>4. BudgetInv'
      BY DEF BudgetInv, PinTypeOK
    <2> QED BY <2>1, <2>2, <2>3, <2>4
  <1>3. CASE FirstSeen(r, n, k)
    <2> USE <1>3 DEF FirstSeen
    <2>1. PinTypeOK'
      BY DEF PinTypeOK, Table, Pin, Fresh
    <2>2. LockInv'
      BY DEF LockInv, PinTypeOK
    <2>3. CoveredInv'
      <3>1. at'[r] = "persist"
        BY DEF PinTypeOK
      <3> QED BY <3>1 DEF CoveredInv, Persisting
    <2>4. BudgetInv'
      BY DEF BudgetInv, PinTypeOK, Fresh
    <2> QED BY <2>1, <2>2, <2>3, <2>4
  <1> QED BY <1>1, <1>2, <1>3 DEF Observe

(* A copy of the table holds every pin. *)
LEMMA SnapshotInv ==
  ASSUME NEW r \in Readers, PinInv, Snapshot(r)
  PROVE  PinInv'
  <1> USE PinConstants DEF PinInv, Snapshot
  <1>1. PinTypeOK'
    <2>1. [m \in Names |-> pins[m].key] \in Table
      BY DEF PinTypeOK, Table, Pin
    <2> QED BY <2>1 DEF PinTypeOK
  <1>2. LockInv'
    BY DEF LockInv, PinTypeOK
  <1>3. CoveredInv'
    <2>1. writing' = r /\ \A m \in Names : snap'[r][m] = pins'[m].key
      BY DEF PinTypeOK
    <2> QED BY <2>1 DEF CoveredInv, Pinned
  <1>4. BudgetInv'
    BY DEF BudgetInv
  <1> QED BY <1>1, <1>2, <1>3, <1>4

(* What is published is the copy; what is not in it, another reader writes. *)
LEMMA PublishInv ==
  ASSUME NEW r \in Readers, PinInv, Publish(r) \/ WriteFails(r)
  PROVE  PinInv'
  <1> USE PinConstants DEF PinInv, Publish, WriteFails
  <1>1. writing = r
    BY DEF LockInv
  <1>2. PinTypeOK'
    <2>1. Nothing \in Table
      BY DEF Nothing, Table
    <2>2. snap' \in [Readers -> Table] /\ file' \in Table
      BY <2>1 DEF PinTypeOK
    <2>3. at' \in [Readers -> {"idle", "persist", "publish"}]
      BY DEF PinTypeOK
    <2> QED BY <2>2, <2>3 DEF PinTypeOK
  <1>3. LockInv'
    BY <1>1 DEF LockInv, PinTypeOK
  <1>4. CoveredInv'
    <2>1. Persisting => Persisting'
      BY DEF Persisting, PinTypeOK
    <2>2. writing' = Free /\ (failed' \/ file' = snap[r])
      OBVIOUS
    <2>3. UNCHANGED <<pins, changes>>
      OBVIOUS
    <2> QED BY <1>1, <2>1, <2>2, <2>3 DEF CoveredInv, Pinned
  <1>5. BudgetInv'
    BY DEF BudgetInv
  <1> QED BY <1>2, <1>3, <1>4, <1>5

(* The invariant is inductive. *)
LEMMA PinStepInv == PinInv /\ [PinNext]_pinVars => PinInv'
  <1> SUFFICES ASSUME PinInv, [PinNext]_pinVars PROVE PinInv'
    OBVIOUS
  <1>1. CASE PinNext
    BY <1>1, RestoreInv, LoseInv, ObserveInv, SnapshotInv, PublishInv DEF PinNext, Reader
  <1>2. CASE UNCHANGED pinVars
    BY <1>2 DEF pinVars, PinInv, PinTypeOK, LockInv, CoveredInv, BudgetInv, Pinned, Persisting,
       Table, Pin
  <1> QED BY <1>1, <1>2

(* What the invariant says to a reader of the code. *)
LEMMA PinInvMeans == PinInv => PinTypeOK /\ Published /\ WrittenTwice
  <1> SUFFICES ASSUME PinInv PROVE PinTypeOK /\ Published /\ WrittenTwice
    OBVIOUS
  <1>1. Published
    <2> SUFFICES ASSUME Quiet, ~failed, NEW n \in Pinned, changes[n] < 2
                 PROVE  file[n] = pins[n].key
      BY DEF Published
    <2>1. ~Persisting
      BY DEF Quiet, Persisting
    <2>2. writing \notin Readers
      BY DEF PinInv, LockInv, Quiet
    <2> QED BY <2>1, <2>2 DEF PinInv, CoveredInv
  <1>2. WrittenTwice
    BY DEF PinInv, BudgetInv, WrittenTwice
  <1> QED BY <1>1, <1>2 DEF PinInv

(* Whatever the readers announce, and however their writes interleave, with  *)
(* failures and restarts in between: the variables have their types, what is *)
(* pinned reaches the file, and no nickname is written three times in a run. *)
THEOREM PinsPublished == PinSpec => [](PinTypeOK /\ Published /\ WrittenTwice)
  <1>1. PinSpec => []PinInv
    BY PinInitInv, PinStepInv, PTL DEF PinSpec
  <1> QED BY <1>1, PinInvMeans, PTL

----------------------------------------------------------------------------
(* The bound of the table.  A set of names is small if it fits the table; the *)
(* table, the file and every copy on its way to the file hold small sets.     *)
Small(S) == IsFiniteSet(S) /\ Cardinality(S) <= PinCapacity
Filled(table) == {n \in Names : table[n] # NoKey}
BoundInv == /\ Small(Pinned) /\ Small(Filled(file))
            /\ \A r \in Readers : Small(Filled(snap[r]))

(* No name at all fits any table. *)
LEMMA EmptyIsSmall == Small({})
  BY FS_EmptySet, PinConstants DEF Small

(* An empty table and an empty file fit. *)
LEMMA BoundInit == PinInit => BoundInv
  <1> SUFFICES ASSUME PinInit PROVE BoundInv
    OBVIOUS
  <1>1. Pinned = {} /\ Filled(file) = {} /\ \A r \in Readers : Filled(snap[r]) = {}
    BY DEF PinInit, Pinned, Filled, Fresh, Nothing
  <1> QED BY <1>1, EmptyIsSmall DEF BoundInv

(* A nickname is taken in while there is room. *)
LEMMA FirstSeenBound ==
  ASSUME NEW r \in Readers, NEW n \in Names, NEW k \in Keys, PinInv, BoundInv, FirstSeen(r, n, k)
  PROVE  BoundInv'
  <1>1. Pinned' = Pinned \union {n} /\ n \notin Pinned
    BY PinConstants DEF FirstSeen, Pinned, Fresh, PinInv, PinTypeOK
  <1>2. Cardinality(Pinned') = Cardinality(Pinned) + 1 /\ IsFiniteSet(Pinned')
    BY <1>1, FS_AddElement DEF BoundInv, Small
  <1>3. Cardinality(Pinned) \in Nat
    BY FS_CardinalityType DEF BoundInv, Small
  <1>4. Small(Pinned)'
    BY <1>2, <1>3, PinConstants DEF FirstSeen, Small
  <1>5. UNCHANGED <<file, snap>>
    BY DEF FirstSeen
  <1> QED BY <1>4, <1>5 DEF BoundInv, Small, Filled

(* Every other step moves a table that fits, or empties one. *)
LEMMA BoundStep == PinInv /\ BoundInv /\ [PinNext]_pinVars => BoundInv'
  <1> SUFFICES ASSUME PinInv, BoundInv, [PinNext]_pinVars PROVE BoundInv'
    OBVIOUS
  <1> USE DEF BoundInv
  <1>1. CASE Restore
    <2>1. Pinned' = Filled(file) \/ Pinned' = {}
      BY <1>1 DEF Restore, Pinned, Filled, Fresh
    <2>2. UNCHANGED <<file, snap>>
      BY <1>1 DEF Restore
    <2> QED BY <2>1, <2>2, EmptyIsSmall DEF Small, Filled
  <1>2. CASE Lose
    <2>1. Pinned' = {} /\ \A r \in Readers : Filled(snap[r])' = {}
      BY <1>2 DEF Lose, Pinned, Filled, Fresh, Nothing
    <2>2. UNCHANGED file
      BY <1>2 DEF Lose
    <2> QED BY <2>1, <2>2, EmptyIsSmall DEF Small, Filled
  <1>3. ASSUME NEW r \in Readers, NEW n \in Names, NEW k \in Keys, Observe(r, n, k)
        PROVE  BoundInv'
    <2>1. CASE Known(r, n, k)
      BY <2>1 DEF Known, Pinned, Filled, Small
    <2>2. CASE Changed(r, n, k)
      <3>1. Pinned' = Pinned
        BY <2>2, PinConstants DEF Changed, Pinned, PinInv, PinTypeOK
      <3>2. UNCHANGED <<file, snap>>
        BY <2>2 DEF Changed
      <3> QED BY <3>1, <3>2 DEF Small, Filled
    <2>3. CASE FirstSeen(r, n, k)
      BY <2>3, FirstSeenBound
    <2> QED BY <1>3, <2>1, <2>2, <2>3 DEF Observe
  <1>4. ASSUME NEW r \in Readers, Snapshot(r) PROVE BoundInv'
    <2>1. Filled(snap'[r]) = Pinned
      BY <1>4 DEF Snapshot, Filled, Pinned, PinInv, PinTypeOK
    <2>2. \A q \in Readers : q # r => snap'[q] = snap[q]
      BY <1>4 DEF Snapshot, PinInv, PinTypeOK
    <2>3. UNCHANGED <<pins, file>>
      BY <1>4 DEF Snapshot
    <2> QED BY <2>1, <2>2, <2>3 DEF Small, Filled, Pinned
  <1>5. ASSUME NEW r \in Readers, Publish(r) \/ WriteFails(r) PROVE BoundInv'
    <2>1. file' \in {file, snap[r]} /\ UNCHANGED pins
      BY <1>5 DEF Publish, WriteFails
    <2>2. \A q \in Readers : snap'[q] \in {snap[q], Nothing}
      BY <1>5 DEF Publish, WriteFails, PinInv, PinTypeOK
    <2>3. Filled(Nothing) = {}
      BY DEF Filled, Nothing
    <2>4. Filled(file') \in {Filled(file), Filled(snap[r])} /\ Pinned' = Pinned
      BY <2>1 DEF Pinned
    <2>5. \A q \in Readers : Filled(snap'[q]) \in {Filled(snap[q]), {}}
      BY <2>2, <2>3
    <2> QED BY <2>4, <2>5, EmptyIsSmall DEF Small, Filled
  <1>6. CASE UNCHANGED pinVars
    BY <1>6 DEF pinVars, Pinned, Filled, Small
  <1> QED BY <1>1, <1>2, <1>3, <1>4, <1>5, <1>6 DEF PinNext, Reader

(* However many nicknames announce themselves, over any number of restarts,   *)
(* neither the table nor its file outgrows the bound.                        *)
THEOREM PinsBounded == PinSpec => []Bounded
  <1>1. BoundInv => Bounded
    BY DEF BoundInv, Bounded, Small, Filled
  <1>2. PinSpec => [](PinInv /\ BoundInv)
    BY PinInitInv, PinStepInv, BoundInit, BoundStep, PTL DEF PinSpec
  <1> QED BY <1>1, <1>2, PTL

----------------------------------------------------------------------------
(* Every step of the daemon is a step of the pins, or none of theirs. *)
LEMMA DaemonStep == [Next]_vars => [PinNext]_pinVars
  <1> SUFFICES ASSUME [Next]_vars PROVE [PinNext]_pinVars
    OBVIOUS
  <1>1. CASE Start
    BY <1>1 DEF Start, Launch, Edit, LoadConfig, LoadPins, LoadIdentity, StoreIdentity,
       OpenDatabase, CreateMissing, AddColumns, Introduce, Bind, Attach, KeepPins, PinsEndWithRun, PinNext
  <1>2. CASE Greet
    BY <1>2 DEF Greet, KeepPins
  <1>3. CASE PinStep
    BY <1>3 DEF PinStep, PinNext
  <1>4. CASE Crash
    BY <1>4 DEF Crash, KeepPins, PinNext
  <1>5. CASE UNCHANGED vars
    BY <1>5 DEF vars
  <1> QED BY <1>1, <1>2, <1>3, <1>4, <1>5 DEF Next

(* The daemon keeps its pins as module Pins says, through starts that fail   *)
(* at any point, crashes and restarts.                                       *)
THEOREM DaemonKeepsPins == Spec => PinSpec
  <1>1. Init => PinInit
    BY DEF Init
  <1> QED BY <1>1, DaemonStep, PTL DEF Spec, PinSpec

(* In every state of the daemon, with no write under way and none failed,    *)
(* the file holds what the table holds for every nickname that changed at    *)
(* most once in the run.                                                     *)
THEOREM DaemonPublishes == Spec => []Published
  BY DaemonKeepsPins, PinsPublished, PTL

(* In no run of the daemon is a nickname written three times. *)
THEOREM DaemonWritesTwice == Spec => []WrittenTwice
  BY DaemonKeepsPins, PinsPublished, PTL

(* Nor do they in the daemon. *)
THEOREM DaemonIsBounded == Spec => []Bounded
  BY DaemonKeepsPins, PinsBounded, PTL

----------------------------------------------------------------------------
(* What a start has done by the time it stands at each phase: which identity *)
(* the run took, which the file holds and which the transport announces.     *)
Named == {"open", "migrate", "alter", "introduce", "bind", "attach", "serve"}
Introduced == {"bind", "attach", "serve"}
Opened == {"introduce", "bind", "attach", "serve"}

(* While the identity file has been neither unreadable nor unwritable, a run *)
(* that goes on past it has the identity in the file, and what was announced *)
(* to anybody is in the file too: an identity that is not stored yet belongs *)
(* to a run that still has to store it.                                      *)
IdentityInv ==
  /\ phase # "off" => run \in Ids
  /\ phase = "store" => own = run
  /\ phase \in Introduced => announced = own
  /\ ~idFailed => /\ heard \subseteq {idFile} \ {NoId}
                  /\ phase = "store" => idFile = NoId
                  /\ phase \in Named => own = idFile /\ own # NoId

(* A start gets past the database with every table and column, and past the  *)
(* CREATE statements with every table and index.                             *)
SchemaInv ==
  /\ phase \in Opened => Complete \subseteq schema
  /\ phase = "alter" => Tables \union Indexes \subseteq schema
  /\ refused = "schema" => ~migrations

(* The variables of the daemon that no property of the pins is about. *)
DaemonTypeOK ==
  /\ phase \in Phases /\ run \in 0..MaxRuns
  /\ config \in {"absent", "good", "bad"} /\ migrations \in BOOLEAN
  /\ {idFile, own, announced} \subseteq Ids \union {NoId}
  /\ heard \subseteq Ids \union {NoId} /\ idFailed \in BOOLEAN
  /\ schema \subseteq Complete \union Indexes
  /\ refused \in {"none", "config", "disk", "schema", "port", "interface", "ended"}

DaemonInv == DaemonTypeOK /\ IdentityInv /\ SchemaInv

(* A process that was never started has announced itself to nobody. *)
LEMMA DaemonInit == Init => DaemonInv
  <1> SUFFICES ASSUME Init PROVE DaemonInv
    OBVIOUS
  <1>1. DaemonTypeOK
    <2>1. schema \subseteq Complete \union Indexes
      BY DEF Init, Schemas, Complete, Tables
    <2>2. run \in 0..MaxRuns
      BY DaemonConstants DEF Init
    <2> QED BY <2>1, <2>2 DEF Init, DaemonTypeOK, Phases
  <1>2. IdentityInv
    BY DEF Init, IdentityInv, Named, Introduced
  <1>3. SchemaInv
    BY DEF Init, SchemaInv, Opened
  <1> QED BY <1>1, <1>2, <1>3 DEF DaemonInv

(* No step of a start makes the daemon ill-typed. *)
LEMMA DaemonTyped == DaemonInv /\ [Next]_vars => DaemonTypeOK'
  <1> SUFFICES ASSUME DaemonInv, [Next]_vars PROVE DaemonTypeOK'
    OBVIOUS
  <1> USE DaemonConstants DEF DaemonInv, DaemonTypeOK, Phases, Goto, Stop
  <1>1. CASE Launch
    BY <1>1 DEF Launch
  <1>2. CASE Edit
    BY <1>2 DEF Edit
  <1>3. CASE LoadConfig
    BY <1>3 DEF LoadConfig
  <1>4. CASE LoadPins
    BY <1>4 DEF LoadPins
  <1>5. CASE LoadIdentity
    BY <1>5 DEF LoadIdentity, IdentityInv
  <1>6. CASE StoreIdentity
    BY <1>6 DEF StoreIdentity
  <1>7. CASE OpenDatabase
    BY <1>7 DEF OpenDatabase
  <1>8. CASE CreateMissing
    BY <1>8 DEF CreateMissing, Creates, Complete, Tables, Indexes
  <1>9. CASE AddColumns
    BY <1>9 DEF AddColumns, Complete
  <1>10. CASE Introduce
    BY <1>10 DEF Introduce
  <1>11. CASE Bind
    BY <1>11 DEF Bind
  <1>12. CASE Attach
    BY <1>12 DEF Attach
  <1>13. CASE Greet
    BY <1>13 DEF Greet
  <1>14. CASE PinStep
    BY <1>14 DEF PinStep, daemonVars
  <1>15. CASE Crash
    BY <1>15 DEF Crash
  <1>16. CASE UNCHANGED vars
    BY <1>16 DEF vars, daemonVars
  <1> QED BY <1>1, <1>2, <1>3, <1>4, <1>5, <1>6, <1>7, <1>8, <1>9, <1>10, <1>11, <1>12,
             <1>13, <1>14, <1>15, <1>16 DEF Next, Start

(* A run takes the identity of the file, or makes one and stores it before it *)
(* goes on; only a run that has gone on announces it.                        *)
LEMMA IdentityStep == DaemonInv /\ [Next]_vars => IdentityInv'
  <1> SUFFICES ASSUME DaemonInv, [Next]_vars PROVE IdentityInv'
    OBVIOUS
  <1> USE DaemonConstants DEF DaemonInv, IdentityInv, Named, Introduced, Goto, Stop
  <1>1. CASE Launch
    BY <1>1 DEF Launch, DaemonTypeOK, Ids
  <1>2. CASE Edit
    BY <1>2 DEF Edit
  <1>3. CASE LoadConfig
    BY <1>3 DEF LoadConfig
  <1>4. CASE LoadPins
    BY <1>4 DEF LoadPins
  <1>5. CASE LoadIdentity
    <2>1. CASE idFile # NoId /\ own' = idFile /\ phase' = "open" /\ UNCHANGED idFailed
      BY <1>5, <2>1 DEF LoadIdentity
    <2>2. CASE own' = run /\ phase' = "store" /\ idFailed' = (idFailed \/ idFile # NoId)
      BY <1>5, <2>2 DEF LoadIdentity, DaemonTypeOK
    <2> QED BY <1>5, <2>1, <2>2 DEF LoadIdentity
  <1>6. CASE StoreIdentity
    BY <1>6 DEF StoreIdentity, Ids
  <1>7. CASE OpenDatabase
    BY <1>7 DEF OpenDatabase
  <1>8. CASE CreateMissing
    BY <1>8 DEF CreateMissing
  <1>9. CASE AddColumns
    BY <1>9 DEF AddColumns
  <1>10. CASE Introduce
    BY <1>10 DEF Introduce
  <1>11. CASE Bind
    BY <1>11 DEF Bind
  <1>12. CASE Attach
    BY <1>12 DEF Attach
  <1>13. CASE Greet
    BY <1>13 DEF Greet, Listening
  <1>14. CASE PinStep
    BY <1>14 DEF PinStep, daemonVars
  <1>15. CASE Crash
    BY <1>15 DEF Crash
  <1>16. CASE UNCHANGED vars
    BY <1>16 DEF vars, daemonVars
  <1> QED BY <1>1, <1>2, <1>3, <1>4, <1>5, <1>6, <1>7, <1>8, <1>9, <1>10, <1>11, <1>12,
             <1>13, <1>14, <1>15, <1>16 DEF Next, Start

(* Only the migrations add to the schema, and nothing takes from it. *)
LEMMA SchemaStep == DaemonInv /\ [Next]_vars => SchemaInv'
  <1> SUFFICES ASSUME DaemonInv, [Next]_vars PROVE SchemaInv'
    OBVIOUS
  <1> USE DEF DaemonInv, SchemaInv, Opened, Goto, Stop
  <1>1. CASE Launch
    BY <1>1 DEF Launch
  <1>2. CASE Edit
    BY <1>2 DEF Edit
  <1>3. CASE LoadConfig
    BY <1>3 DEF LoadConfig
  <1>4. CASE LoadPins
    BY <1>4 DEF LoadPins
  <1>5. CASE LoadIdentity
    BY <1>5 DEF LoadIdentity
  <1>6. CASE StoreIdentity
    BY <1>6 DEF StoreIdentity
  <1>7. CASE OpenDatabase
    BY <1>7 DEF OpenDatabase
  <1>8. CASE CreateMissing
    BY <1>8 DEF CreateMissing
  <1>9. CASE AddColumns
    BY <1>9 DEF AddColumns, Complete
  <1>10. CASE Introduce
    BY <1>10 DEF Introduce
  <1>11. CASE Bind
    BY <1>11 DEF Bind
  <1>12. CASE Attach
    BY <1>12 DEF Attach
  <1>13. CASE Greet
    BY <1>13 DEF Greet
  <1>14. CASE PinStep
    BY <1>14 DEF PinStep, daemonVars
  <1>15. CASE Crash
    BY <1>15 DEF Crash
  <1>16. CASE UNCHANGED vars
    BY <1>16 DEF vars, daemonVars
  <1> QED BY <1>1, <1>2, <1>3, <1>4, <1>5, <1>6, <1>7, <1>8, <1>9, <1>10, <1>11, <1>12,
             <1>13, <1>14, <1>15, <1>16 DEF Next, Start

(* The invariant of the start, in every run of the daemon. *)
LEMMA DaemonKeepsInv == Spec => []DaemonInv
  <1>1. DaemonInv /\ [Next]_vars => DaemonInv'
    BY DaemonTyped, IdentityStep, SchemaStep DEF DaemonInv
  <1> QED BY DaemonInit, <1>1, PTL DEF Spec

(* For any number of runs that end wherever they end, every peer is greeted   *)
(* with one identity, as long as the identity file can be read and written.  *)
THEOREM OneIdentityKept == Spec => []OneIdentity
  <1>1. DaemonInv => OneIdentity
    BY DEF DaemonInv, IdentityInv, OneIdentity
  <1> QED BY <1>1, DaemonKeepsInv, PTL

(* Whatever release or cut-off migration left the database, and for every    *)
(* set of added columns, a daemon that serves has all of it, and a migrating *)
(* one refuses none.                                                         *)
THEOREM StoreStaysUsable == Spec => []StoreIsUsable
  <1>1. PinInv /\ DaemonInv => StoreIsUsable
    <2> SUFFICES ASSUME PinInv, DaemonInv PROVE StoreIsUsable
      OBVIOUS
    <2>1. TypeOK
      BY DEF PinInv, DaemonInv, DaemonTypeOK, TypeOK
    <2>2. ServesCompleteStore
      BY DEF DaemonInv, SchemaInv, Opened, ServesCompleteStore, Listening
    <2>3. MigratesAgain
      BY DEF DaemonInv, SchemaInv, MigratesAgain
    <2> QED BY <2>1, <2>2, <2>3 DEF StoreIsUsable
  <1>2. PinSpec => []PinInv
    BY PinInitInv, PinStepInv, PTL DEF PinSpec
  <1> QED BY <1>1, <1>2, DaemonKeepsPins, DaemonKeepsInv, PTL
=============================================================================

-------------------------------- MODULE Pins --------------------------------
(***************************************************************************)
(* The identities peers announce, remembered under their nicknames: the    *)
(* table of meta-text-backend/src/trust.rs and its file net-peers.json.     *)
(* The reader task of every connection calls PinStore::observe; the table   *)
(* has a lock of its own, the file another, and a call holds the first      *)
(* only while it decides and the second while it copies the table and       *)
(* publishes the copy.  A nickname is written when it is first seen and     *)
(* once more when it changes: later changes of a run stay in memory.        *)
(***************************************************************************)
EXTENDS Naturals, FiniteSets

CONSTANTS
  Names,        \* nicknames, trimmed and lowercased
  Keys,         \* usable identities
  Readers,      \* reader tasks that may announce at the same time
  NoKey,        \* a nickname that is not in the table
  Free,         \* nobody holds the write lock
  PinCapacity   \* PIN_CAPACITY

ASSUME PinConstants == /\ NoKey \notin Keys
                       /\ Free \notin Readers
                       /\ PinCapacity \in Nat

VARIABLES
  pins,     \* the table
  file,     \* the file: the key under each nickname
  writing,  \* who holds the write lock
  snap,     \* the copy of the table each reader publishes
  at,       \* where each reader stands in observe and persist
  serving,  \* the readers run
  changes,  \* history: changes of each nickname in this run, up to two
  writes,   \* history: writes each nickname has caused in this run
  failed,   \* history: the last write failed, or the file was not read
  shown     \* history: the last identity heard under each nickname

pinVars == <<pins, file, writing, snap, at, serving, changes, writes, failed, shown>>

Pin == [key : Keys \union {NoKey}, changed : BOOLEAN, changeWritten : BOOLEAN]
Fresh(k) == [key |-> k, changed |-> FALSE, changeWritten |-> FALSE]
Table == [Names -> Keys \union {NoKey}]
Nothing == [n \in Names |-> NoKey]

Pinned == {n \in Names : pins[n].key # NoKey}

(* A store whose file does not exist yet, in a process that does not serve. *)
PinInit ==
  /\ pins = [n \in Names |-> Fresh(NoKey)]
  /\ file = Nothing
  /\ writing = Free
  /\ snap = [r \in Readers |-> Nothing]
  /\ at = [r \in Readers |-> "idle"]
  /\ serving = FALSE
  /\ changes = [n \in Names |-> 0]
  /\ writes = [n \in Names |-> 0]
  /\ failed = FALSE
  /\ shown = Nothing

(* PinStore::restore at the start of a run: the table is what the file says, *)
(* or empty when the file cannot be read or is of a layout this build does   *)
(* not know.  The file a run wrote holds what its table held, so the bound   *)
(* and the checks of single entries only concern files edited by hand.       *)
Restore ==
  /\ ~serving
  /\ \E readable \in BOOLEAN :
       /\ pins' = [n \in Names |-> Fresh(IF readable THEN file[n] ELSE NoKey)]
       /\ failed' = ~readable
  /\ serving' = TRUE
  /\ changes' = [n \in Names |-> 0]
  /\ writes' = [n \in Names |-> 0]
  /\ UNCHANGED <<file, writing, snap, at, shown>>

(* The process ends, wherever its readers stand. *)
Lose ==
  /\ serving
  /\ serving' = FALSE
  /\ pins' = [n \in Names |-> Fresh(NoKey)]
  /\ writing' = Free
  /\ at' = [r \in Readers |-> "idle"]
  /\ snap' = [r \in Readers |-> Nothing]
  /\ UNCHANGED <<file, changes, writes, failed, shown>>

----------------------------------------------------------------------------
(* PinStore::observe.  The decision is one scope of the table's lock; a call *)
(* that has something to write goes on in persist.                           *)

ToWrite(r, n) ==
  /\ at' = [at EXCEPT ![r] = "persist"]
  /\ writes' = [writes EXCEPT ![n] = @ + 1]

(* The key under the nickname is the one announced. *)
Known(r, n, k) ==
  /\ serving /\ at[r] = "idle"
  /\ pins[n].key = k
  /\ shown' = [shown EXCEPT ![n] = k]
  /\ UNCHANGED <<pins, file, writing, snap, at, serving, changes, writes, failed>>

(* Fault: every change is written. *)
ChangedAlwaysWritten(r, n, k) ==
  /\ serving /\ at[r] = "idle"
  /\ pins[n].key \notin {NoKey, k}
  /\ pins' = [pins EXCEPT ![n] = [key |-> k, changed |-> TRUE, changeWritten |-> TRUE]]
  /\ ToWrite(r, n)
  /\ changes' = [changes EXCEPT ![n] = IF @ = 0 THEN 1 ELSE 2]
  /\ shown' = [shown EXCEPT ![n] = k]
  /\ UNCHANGED <<file, writing, snap, serving, failed>>

(* Another key: the pin moves on, and is written unless a change was. *)
Changed(r, n, k) ==
  /\ serving /\ at[r] = "idle"
  /\ pins[n].key \notin {NoKey, k}
  /\ pins' = [pins EXCEPT ![n] = [key |-> k, changed |-> TRUE, changeWritten |-> TRUE]]
  /\ IF pins[n].changeWritten THEN UNCHANGED <<at, writes>> ELSE ToWrite(r, n)
  /\ changes' = [changes EXCEPT ![n] = IF @ = 0 THEN 1 ELSE 2]
  /\ shown' = [shown EXCEPT ![n] = k]
  /\ UNCHANGED <<file, writing, snap, serving, failed>>

(* Fault: one nickname too many. *)
FirstSeenPastBound(r, n, k) ==
  /\ serving /\ at[r] = "idle"
  /\ pins[n].key = NoKey
  /\ Cardinality(Pinned) <= PinCapacity
  /\ pins' = [pins EXCEPT ![n] = Fresh(k)]
  /\ ToWrite(r, n)
  /\ shown' = [shown EXCEPT ![n] = k]
  /\ UNCHANGED <<file, writing, snap, serving, changes, failed>>

(* A nickname that is new, while there is room for it. *)
FirstSeen(r, n, k) ==
  /\ serving /\ at[r] = "idle"
  /\ pins[n].key = NoKey
  /\ Cardinality(Pinned) < PinCapacity
  /\ pins' = [pins EXCEPT ![n] = Fresh(k)]
  /\ ToWrite(r, n)
  /\ shown' = [shown EXCEPT ![n] = k]
  /\ UNCHANGED <<file, writing, snap, serving, changes, failed>>

(* What is refused - no nickname, an unusable key, a full table - changes   *)
(* the counters of the store only, which nothing here reads.                *)
Observe(r, n, k) == Known(r, n, k) \/ Changed(r, n, k) \/ FirstSeen(r, n, k)

(* Fault: the table is copied before the write lock is taken. *)
SnapshotUnlocked(r) ==
  /\ at[r] = "persist"
  /\ snap' = [snap EXCEPT ![r] = [n \in Names |-> pins[n].key]]
  /\ at' = [at EXCEPT ![r] = "publish"]
  /\ UNCHANGED <<pins, file, writing, serving, changes, writes, failed, shown>>

(* PinStore::persist takes the write lock and copies the table inside it. *)
Snapshot(r) ==
  /\ at[r] = "persist" /\ writing = Free
  /\ writing' = r
  /\ snap' = [snap EXCEPT ![r] = [n \in Names |-> pins[n].key]]
  /\ at' = [at EXCEPT ![r] = "publish"]
  /\ UNCHANGED <<pins, file, serving, changes, writes, failed, shown>>

(* The temporary file is renamed over the file, and the lock released. *)
Publish(r) ==
  /\ at[r] = "publish"
  /\ file' = snap[r]
  /\ failed' = FALSE
  /\ writing' = Free
  /\ at' = [at EXCEPT ![r] = "idle"]
  /\ snap' = [snap EXCEPT ![r] = Nothing]
  /\ UNCHANGED <<pins, serving, changes, writes, shown>>

(* The directory, the temporary file or the rename fails: the file stays. *)
WriteFails(r) ==
  /\ at[r] = "publish"
  /\ failed' = TRUE
  /\ writing' = Free
  /\ at' = [at EXCEPT ![r] = "idle"]
  /\ snap' = [snap EXCEPT ![r] = Nothing]
  /\ UNCHANGED <<pins, file, serving, changes, writes, shown>>

Reader(r) ==
  \/ \E n \in Names, k \in Keys : Observe(r, n, k)
  \/ Snapshot(r) \/ Publish(r) \/ WriteFails(r)

PinNext == Restore \/ Lose \/ \E r \in Readers : Reader(r)
PinSpec == PinInit /\ [][PinNext]_pinVars

----------------------------------------------------------------------------
(* Properties *)

PinTypeOK ==
  /\ pins \in [Names -> Pin]
  /\ file \in Table /\ snap \in [Readers -> Table]
  /\ writing \in Readers \union {Free}
  /\ at \in [Readers -> {"idle", "persist", "publish"}]
  /\ serving \in BOOLEAN /\ failed \in BOOLEAN
  /\ changes \in [Names -> 0..2] /\ writes \in [Names -> Nat]
  /\ shown \in Table

(* Nothing is being written. *)
Quiet == \A r \in Readers : at[r] = "idle"

(* When no write is on its way, the file holds the identity of every pinned *)
(* nickname that changed at most once in this run, however many readers     *)
(* announced at once and in whatever order they reached the file, unless    *)
(* the last write failed: "a slower writer cannot publish a table that is   *)
(* missing a pin a faster one just added" (PinStore::persist).              *)
Published ==
  Quiet /\ ~failed =>
    \A n \in Pinned : changes[n] < 2 => file[n] = pins[n].key

(* A nickname is written at most twice in a run however often it is         *)
(* announced, so a peer's rate of frames does not decide how often the file *)
(* is written (PinStore::observe).                                          *)
WrittenTwice == \A n \in Names : writes[n] <= 2

(* The table stays within its bound over restarts, and so does the file     *)
(* (PIN_CAPACITY).                                                          *)
Bounded == /\ Cardinality(Pinned) <= PinCapacity
           /\ Cardinality({n \in Names : file[n] # NoKey}) <= PinCapacity
=============================================================================

------------------------------- MODULE Daemon -------------------------------
(***************************************************************************)
(* A run of the process from its command line to its end, over the files of *)
(* its data directory: main.rs, CoreService::new and CoreService::start, the *)
(* configuration (config.rs), the network identity (identity.rs), the peer   *)
(* pins (module Pins) and the schema of the database (database.rs).  A run   *)
(* may end anywhere; the next one finds what the files say.                  *)
(***************************************************************************)
EXTENDS Pins

CONSTANTS
  Columns,   \* columns of messages that came after the first release
  NoId,      \* no identity
  MaxRuns    \* bound: runs of the process

ASSUME DaemonConstants == /\ MaxRuns \in Nat
                          /\ NoId \notin 1..MaxRuns

VARIABLES
  phase,       \* what the process does next
  run,         \* runs started so far
  config,      \* the configuration file
  migrations,  \* its database.enable_migrations
  idFile,      \* net-identity.json
  own,         \* the identity of this run; its name is the run that made it
  announced,   \* the identity the transport greets with
  heard,       \* history: every identity a peer was greeted with
  idFailed,    \* history: the identity file was there and not readable, or not written
  schema,      \* tables and columns of the database
  refused      \* history: why the last start stopped

daemonVars == <<phase, run, config, migrations, idFile, own, announced, heard, idFailed,
                schema, refused>>
vars == <<pinVars, daemonVars>>

Ids == 1..MaxRuns

(* The database of nobody, of the first release, or of a migration that was *)
(* cut off after any statement.                                             *)
Tables == {"contacts", "messages"}
Indexes == {"created_at", "peer"}
Schemas == {{}, {"contacts"}}
             \union {Tables \union more : more \in SUBSET Columns}
             \union {Tables \union Indexes \union more : more \in SUBSET Columns}
Complete == Tables \union Columns

Phases == {"off", "config", "pins", "identity", "store", "open", "migrate", "alter",
           "introduce", "bind", "attach", "serve"}

Init ==
  /\ PinInit
  /\ phase = "off" /\ run = 0
  /\ config \in {"absent", "good"} /\ migrations = TRUE
  /\ idFile = NoId /\ own = NoId /\ announced = NoId
  /\ heard = {} /\ idFailed = FALSE
  /\ schema \in Schemas
  /\ refused = "none"

Stop(reason) == phase' = "off" /\ refused' = reason
Goto(next) == phase' = next /\ UNCHANGED refused
KeepPins == UNCHANGED pinVars
PinsEndWithRun == IF phase' = "off" THEN Lose ELSE KeepPins

(* The process is started. *)
Launch ==
  /\ phase = "off" /\ run < MaxRuns
  /\ run' = run + 1
  /\ phase' = "config" /\ refused' = "none"
  /\ own' = NoId /\ announced' = NoId
  /\ KeepPins /\ UNCHANGED <<config, migrations, idFile, heard, idFailed, schema>>

(* Between two runs somebody edits the configuration. *)
Edit ==
  /\ phase = "off" /\ config # "absent"
  /\ config' \in {"good", "bad"} /\ migrations' \in BOOLEAN
  /\ refused' = "none"
  /\ KeepPins
  /\ UNCHANGED <<phase, run, idFile, own, announced, heard, idFailed, schema>>

(* AppConfig::load writes the defaults when there is no file, and main stops *)
(* on a file that does not parse or does not validate.                      *)
LoadConfig ==
  /\ phase = "config"
  /\ \/ config = "bad" /\ Stop("config") /\ UNCHANGED config
     \/ config = "good" /\ Goto("pins") /\ UNCHANGED config
     \/ config = "absent" /\ config' = "good" /\ Goto("pins")
     \/ config = "absent" /\ Stop("disk") /\ UNCHANGED config
  /\ KeepPins
  /\ UNCHANGED <<run, migrations, idFile, own, announced, heard, idFailed, schema>>

(* CoreTransport::new loads the pins. *)
LoadPins ==
  /\ phase = "pins"
  /\ Restore
  /\ Goto("identity")
  /\ UNCHANGED <<run, config, migrations, idFile, own, announced, heard, idFailed, schema>>

(* Fault: a new identity is announced and not stored. *)
LoadIdentityOnly ==
  /\ phase = "identity"
  /\ \/ idFile # NoId /\ own' = idFile /\ UNCHANGED idFailed
     \/ own' = run /\ idFailed' = (idFailed \/ idFile # NoId)
  /\ Goto("open")
  /\ KeepPins
  /\ UNCHANGED <<run, config, migrations, idFile, announced, heard, schema>>

(* IdentityStore::load_or_create: what the file holds, or a new identity     *)
(* when there is no file or it cannot be used.                               *)
LoadIdentity ==
  /\ phase = "identity"
  /\ \/ /\ idFile # NoId
        /\ own' = idFile
        /\ Goto("open")
        /\ UNCHANGED idFailed
     \/ /\ own' = run
        /\ idFailed' = (idFailed \/ idFile # NoId)
        /\ Goto("store")
  /\ KeepPins
  /\ UNCHANGED <<run, config, migrations, idFile, announced, heard, schema>>

(* IdentityStore::store replaces the file; a failure is reported only. *)
StoreIdentity ==
  /\ phase = "store"
  /\ \/ idFile' = own /\ UNCHANGED idFailed
     \/ idFailed' = TRUE /\ UNCHANGED idFile
  /\ Goto("open")
  /\ KeepPins
  /\ UNCHANGED <<run, config, migrations, own, announced, heard, schema>>

(* Fault: only the tables are required. *)
OpenDatabaseByTables ==
  /\ phase = "open"
  /\ \/ Stop("disk")
     \/ migrations /\ Goto("migrate")
     \/ ~migrations /\ Tables \subseteq schema /\ Goto("introduce")
     \/ ~migrations /\ ~(Tables \subseteq schema) /\ Stop("schema")
  /\ PinsEndWithRun
  /\ UNCHANGED <<run, config, migrations, idFile, own, announced, heard, idFailed, schema>>

(* DatabaseManager::start opens the file, and either migrates it or requires *)
(* every table and column to be there (require_schema).                     *)
OpenDatabase ==
  /\ phase = "open"
  /\ \/ Stop("disk")
     \/ migrations /\ Goto("migrate")
     \/ ~migrations /\ Complete \subseteq schema /\ Goto("introduce")
     \/ ~migrations /\ ~(Complete \subseteq schema) /\ Stop("schema")
  /\ PinsEndWithRun
  /\ UNCHANGED <<run, config, migrations, idFile, own, announced, heard, idFailed, schema>>

(* What CREATE TABLE adds: the statement for messages names every column. *)
Creates(table) == IF table = "messages" THEN {table} \union Columns ELSE {table}

(* run_migrations, one statement at a time: CREATE ... IF NOT EXISTS. *)
CreateMissing ==
  /\ phase = "migrate"
  /\ \/ \E part \in {"contacts", "messages", "created_at", "peer"} \ schema :
          /\ part \in Indexes => Tables \subseteq schema
          /\ part = "messages" => "contacts" \in schema
          /\ schema' = schema \union Creates(part)
          /\ UNCHANGED <<phase, refused>>
     \/ Tables \union Indexes \subseteq schema /\ Goto("alter") /\ UNCHANGED schema
     \/ Stop("disk") /\ UNCHANGED schema
  /\ PinsEndWithRun
  /\ UNCHANGED <<run, config, migrations, idFile, own, announced, heard, idFailed>>

(* Fault: a column is added without asking whether it is there. *)
AddColumnsBlindly ==
  /\ phase = "alter"
  /\ IF Columns \intersect schema = {}
       THEN schema' = schema \union Columns /\ Goto("introduce")
       ELSE Stop("schema") /\ UNCHANGED schema
  /\ PinsEndWithRun
  /\ UNCHANGED <<run, config, migrations, idFile, own, announced, heard, idFailed>>

(* ALTER TABLE ... ADD COLUMN for each column that is missing. *)
AddColumns ==
  /\ phase = "alter"
  /\ \/ \E column \in Columns \ schema :
          schema' = schema \union {column} /\ UNCHANGED <<phase, refused>>
     \/ Columns \subseteq schema /\ Goto("introduce") /\ UNCHANGED schema
     \/ Stop("disk") /\ UNCHANGED schema
  /\ PinsEndWithRun
  /\ UNCHANGED <<run, config, migrations, idFile, own, announced, heard, idFailed>>

(* CoreService::start sets nickname, identity and status before it binds. *)
Introduce ==
  /\ phase = "introduce"
  /\ announced' = own
  /\ Goto("bind")
  /\ KeepPins /\ UNCHANGED <<run, config, migrations, idFile, own, heard, idFailed, schema>>

Listening == phase \in {"attach", "serve"}

(* The listener is bound and the peers on the command line are dialled. *)
Bind ==
  /\ phase = "bind"
  /\ Goto("attach") \/ Stop("port")
  /\ PinsEndWithRun
  /\ UNCHANGED <<run, config, migrations, idFile, own, announced, heard, idFailed, schema>>

(* main attaches the interface; a headless run refuses to expose an endpoint *)
(* without a token, and fails when the endpoint or the terminal does.        *)
Attach ==
  /\ phase = "attach"
  /\ \/ Goto("serve") /\ KeepPins
     \/ Stop("interface") /\ Lose
  /\ UNCHANGED <<run, config, migrations, idFile, own, announced, heard, idFailed, schema>>

(* A peer connects, and is greeted with what the transport announces. *)
Greet ==
  /\ Listening
  /\ heard' = heard \union {announced}
  /\ KeepPins
  /\ UNCHANGED <<phase, run, config, migrations, idFile, own, announced, idFailed, schema, refused>>

(* Peers announce their identities. *)
PinStep == Listening /\ (\E r \in Readers : Reader(r)) /\ UNCHANGED daemonVars

(* The process is killed, or ends as it was told to.  What is being written *)
(* is lost: every file is replaced by a rename.                             *)
Crash ==
  /\ phase # "off"
  /\ Stop("ended")
  /\ IF serving THEN Lose ELSE KeepPins
  /\ UNCHANGED <<run, config, migrations, idFile, own, announced, heard, idFailed, schema>>

Start == \/ Launch \/ Edit \/ LoadConfig \/ LoadPins \/ LoadIdentity \/ StoreIdentity
         \/ OpenDatabase \/ CreateMissing \/ AddColumns \/ Introduce \/ Bind \/ Attach

Next == Start \/ Greet \/ PinStep \/ Crash

Spec == Init /\ [][Next]_vars

----------------------------------------------------------------------------
(* Properties *)

TypeOK ==
  /\ PinTypeOK
  /\ phase \in Phases /\ run \in 0..MaxRuns
  /\ config \in {"absent", "good", "bad"} /\ migrations \in BOOLEAN
  /\ {idFile, own, announced} \subseteq Ids \union {NoId}
  /\ heard \subseteq Ids \union {NoId} /\ idFailed \in BOOLEAN
  /\ schema \subseteq Complete \union Indexes
  /\ refused \in {"none", "config", "disk", "schema", "port", "interface", "ended"}

(* Every peer, in every run, is greeted with one and the same identity, and  *)
(* never without one, unless the identity file could not be read or written: *)
(* a process that dies before its identity is stored has announced it to     *)
(* nobody (IdentityStore::load_or_create, CoreService::start).               *)
OneIdentity == ~idFailed => /\ NoId \notin heard
                            /\ \A i, j \in heard : i = j

(* A daemon that serves has a database with every table and column its       *)
(* statements use, whatever release or interrupted migration left the file:  *)
(* otherwise "every write fails for the rest of the session"                 *)
(* (DatabaseManager::start).                                                 *)
ServesCompleteStore == Listening => Complete \subseteq schema

(* With migrations enabled no database is ever refused for its schema: what *)
(* an interrupted migration left is taken up by the next one                 *)
(* (run_migrations).                                                         *)
MigratesAgain == refused = "schema" => ~migrations

(* The state is well-typed, and a database that is older than the build is  *)
(* migrated again rather than refused, and complete when it is served.      *)
StoreIsUsable == TypeOK /\ ServesCompleteStore /\ MigratesAgain
=============================================================================

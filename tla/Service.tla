------------------------------ MODULE Service ------------------------------
(***************************************************************************)
(* The server process as main.rs puts it together: it loads the            *)
(* configuration, migrates the schema, and then runs the panel and the     *)
(* worker until one of them fails.  Replicas share the configuration file  *)
(* and the database.  A process that ended may be started again.           *)
(***************************************************************************)
EXTENDS Migrations, ConfigUpdate

CONSTANT Bounds   \* the combinations of bounds a behaviour starts with

(* One combination: the processes that may start, the build of each, the   *)
(* windows in use, the edits and saves of all of them, and the faults.     *)
BoundRecord ==
  [processes : SUBSET Processes, build : [Processes -> Builds],
   windows : SUBSET Operators, edits : [EditKinds -> 0..MaxEdits],
   saves : 0..MaxSaves, faults : Nat]

ASSUME ServiceAssumption ==
  /\ Servers = Processes /\ Processes # {}
  /\ Bounds \subseteq BoundRecord

VARIABLES
  bound,     \* the bounds of this behaviour
  faults     \* the faults injected so far

vars == <<migrationVars, configVars, bound, faults>>

Init ==
  /\ bound \in Bounds
  /\ MigrationInit /\ build = bound.build
  /\ ConfigInit /\ edits = bound.edits /\ saves = bound.saves
  /\ faults = 0

Fault ==
  /\ faults < bound.faults
  /\ faults' = faults + 1

-----------------------------------------------------------------------------

Boot(p) ==
  /\ StartMigration(p) /\ LoadConfig(p)
  /\ UNCHANGED faults

Migrate(p) ==
  /\ MigrationStep(p)
  /\ IF cause' = cause THEN UNCHANGED faults ELSE Fault
  /\ UNCHANGED configVars

(* web::serve and worker::run start together, the worker with a load.      *)
Launch(p) ==
  /\ stage[p] = "migrated"
  /\ StartWorker(p)
  /\ UNCHANGED <<migrationVars, faults>>

PollOnce(p) ==
  /\ Poll(p)
  /\ UNCHANGED <<migrationVars, faults>>

(* A schema that is not its own, or a file the worker cannot use when it   *)
(* starts or polls, ends the process, panel and all.                       *)
Exit(p) ==
  /\ \/ stage[p] = "refused"
     \/ stage[p] = "migrated" /\ ~Usable
  /\ GoDown(p) /\ ForgetConfig(p)
  /\ UNCHANGED faults

Crash(p) ==
  /\ stage[p] # "down"
  /\ Fault
  /\ GoDown(p) /\ ForgetConfig(p)

(* The panel answers once the process has migrated.                        *)
Panel(o) ==
  /\ PanelNext(o)
  /\ stage[at'[o]] = "migrated"
  /\ UNCHANGED <<migrationVars, faults>>

DiskFull(o) ==
  /\ FailWrite(o)
  /\ Fault
  /\ UNCHANGED migrationVars

Next ==
  /\ \/ \E p \in bound.processes :
          Boot(p) \/ Migrate(p) \/ Launch(p) \/ PollOnce(p) \/ Exit(p)
            \/ Crash(p)
     \/ \E o \in bound.windows : Panel(o) \/ DiskFull(o)
     \/ EndDeadSession /\ UNCHANGED <<configVars, faults>>
     \/ RepairFile /\ UNCHANGED <<migrationVars, faults>>
  /\ UNCHANGED bound

Spec == Init /\ [][Next]_vars

Run(p) == Migrate(p) \/ Launch(p) \/ Exit(p)

(* A process goes on by itself, its loop keeps polling, a request runs to  *)
(* its end, and the database notices a dead session and grants its lock in *)
(* the order it was asked for.  Nobody has to start a process, repair the  *)
(* file or use the panel.                                                  *)
Fairness ==
  /\ \A p \in Processes :
       /\ WF_vars(Run(p) /\ UNCHANGED bound)
       /\ WF_vars(PollOnce(p) /\ UNCHANGED bound)
       /\ SF_vars(TakeLock(p) /\ UNCHANGED <<configVars, faults, bound>>)
  /\ \A o \in Operators :
       WF_vars(/\ SaveStep(o)
               /\ UNCHANGED <<migrationVars, faults, bound>>)
  /\ WF_vars(EndDeadSession /\ UNCHANGED <<configVars, faults, bound>>)

FairSpec == Spec /\ Fairness

-----------------------------------------------------------------------------
(* Properties.                                                             *)

(* Every variable keeps the values its column or local may have.           *)
TypeOK ==
  /\ MigrationTypeOK
  /\ bound \in Bounds /\ faults \in 0..bound.faults
  /\ worker \in [Processes -> {"off", "ready"}]
  /\ handler \in [Operators -> {"idle", "truncate", "write", "remember"}]
  /\ live \subseteq Processes \X Operators
  /\ at \in [Operators -> Processes]
  /\ crossed \in [Operators -> BOOLEAN]
  /\ file.state \in {"whole", "shorter", "torn"}
  /\ edits \in [EditKinds -> 0..MaxEdits] /\ saves \in 0..MaxSaves
  /\ mishap \subseteq
       {"stale", "reused", "several", "mailbox", "rekeyed", "moved"}
  /\ beside \subseteq Operators /\ apart \subseteq Processes
  /\ \A p \in Processes :
       (memory[p] = NoConfig) = (stage[p] = "down")

(* No save writes the placeholder over a secret, unless a form was out of  *)
(* date, gave the name of a server to another, gave a new name to a server *)
(* and removed or renamed another, gave a variable that showed the         *)
(* placeholder a name under which its server has no secret, or did so with *)
(* the id of a mailbox.                                                    *)
PlaceholderNeedsCause ==
  mishap = {} =>
    /\ file.state # "torn" => Placeholder \notin Stored(file.config)
    /\ \A p \in Processes :
         memory[p] # NoConfig => Placeholder \notin Stored(memory[p])

(* A server gets no other server's secret, unless a form was out of date,  *)
(* gave the name of a server to another, or gave new names to a server and *)
(* to a variable of it while another server went: the save may take it for *)
(* the one that went.                                                      *)
SecretsStayHome ==
  file.state # "torn" /\ mishap \cap {"stale", "reused", "moved"} = {} =>
    AtHome(file.config)

(* The panel shows what the file says, between saves: unless another       *)
(* process saved since, two requests overlapped, or a write was cut short. *)
PanelShowsFile ==
  \A p \in Processes \ apart :
    memory[p] # NoConfig /\ Busy = {} => file.config = memory[p]

(* What was saved last is what every worker polls with, from some poll on, *)
(* without a restart; but for the connection to the database, which is the *)
(* one the worker started with.  No process goes on beside a file that     *)
(* cannot be used.                                                         *)
SavedTakesEffect ==
  \A p \in Processes :
    []<>(\/ stage[p] = "down"
         \/ /\ Usable
            /\ [running[p] EXCEPT !.db = file.config.db] = file.config)
=============================================================================

----------------------------- MODULE Migrations -----------------------------
(***************************************************************************)
(* Schema migrations.  Every process migrates before it serves: it takes   *)
(* an advisory lock, reads which versions the ledger schema_migrations     *)
(* lists, compares the checksums of those and applies the others, each in  *)
(* a transaction that also writes its ledger row.  The lock belongs to the *)
(* database session: when a process dies the server frees the lock and     *)
(* rolls the open transaction back, but only once it notices.              *)
(*                                                                         *)
(* Processes may be of different builds, whose migrations were edited or   *)
(* added to.  A checksum stands for the SQL it is taken of.                *)
(***************************************************************************)
EXTENDS Naturals, Sequences

CONSTANTS
  Processes,   \* the server processes
  Builds       \* MIGRATIONS of each build: the SQL of versions 1, 2, ...

Nobody  == "nobody"
Dead    == "dead"
NoTable == <<>>

ASSUME BuildsAssumption ==
  /\ {Nobody, Dead} \cap Processes = {}
  /\ \A b \in Builds : b \in Seq({b[v] : v \in DOMAIN b})

VARIABLES
  build,       \* the build each process runs
  stage,       \* where each process stands
  version,     \* the version its loop is at
  seen,        \* the ledger as it read it
  holder,      \* the session that holds the advisory lock
  schema,      \* the SQL that took effect, in the order it did
  ledger,      \* schema_migrations: the checksum by version
  cause        \* history: the processes whose start met a fault

migrationVars ==
  <<build, stage, version, seen, holder, schema, ledger, cause>>

MigrationInit ==
  /\ build \in [Processes -> Builds]
  /\ stage = [p \in Processes |-> "down"]
  /\ version = [p \in Processes |-> 1]
  /\ seen = [p \in Processes |-> NoTable]
  /\ holder = Nobody
  /\ schema = <<>>
  /\ ledger = NoTable
  /\ cause = {}

Stage(p, s) == stage' = [stage EXCEPT ![p] = s]

(* INSERT INTO schema_migrations.                                          *)
Recorded(v, sql) ==
  [w \in DOMAIN ledger \cup {v} |-> IF w = v THEN sql ELSE ledger[w]]

-----------------------------------------------------------------------------

StartMigration(p) ==
  /\ stage[p] = "down"
  /\ Stage(p, "lock")
  /\ cause' = cause \ {p}
  /\ UNCHANGED <<build, version, seen, holder, schema, ledger>>

TakeLock(p) ==
  /\ stage[p] = "lock" /\ holder = Nobody
  /\ holder' = p
  /\ Stage(p, "read")
  /\ UNCHANGED <<build, version, seen, schema, ledger, cause>>

(* The ledger is created if it is missing, and read once.                  *)
ReadLedger(p) ==
  /\ stage[p] = "read"
  /\ seen' = [seen EXCEPT ![p] = ledger]
  /\ version' = [version EXCEPT ![p] = 1]
  /\ Stage(p, "check")
  /\ UNCHANGED <<build, holder, schema, ledger, cause>>

(* Slip: the checksum of an applied version is not compared.               *)
CheckVersionLax(p) ==
  LET v == version[p] IN
  /\ stage[p] = "check"
  /\ CASE v > Len(build[p]) -> Stage(p, "unlock") /\ UNCHANGED version
       [] v <= Len(build[p]) /\ v \in DOMAIN seen[p] ->
            version' = [version EXCEPT ![p] = v + 1] /\ UNCHANGED stage
       [] OTHER -> Stage(p, "run") /\ UNCHANGED version
  /\ UNCHANGED <<build, seen, holder, schema, ledger, cause>>

(* The loop over MIGRATIONS: an applied version must have the checksum the *)
(* build gives it, and one not applied is run.                             *)
CheckVersion(p) ==
  LET v == version[p] IN
  /\ stage[p] = "check"
  /\ \/ v > Len(build[p]) /\ Stage(p, "unlock") /\ UNCHANGED version
     \/ /\ v <= Len(build[p]) /\ v \in DOMAIN seen[p]
        /\ IF seen[p][v] = build[p][v]
           THEN version' = [version EXCEPT ![p] = v + 1] /\ UNCHANGED stage
           ELSE Stage(p, "unlockError") /\ UNCHANGED version
     \/ /\ v <= Len(build[p]) /\ v \notin DOMAIN seen[p]
        /\ Stage(p, "run") /\ UNCHANGED version
  /\ UNCHANGED <<build, seen, holder, schema, ledger, cause>>

(* Slip: the SQL is not in one transaction with the ledger row.            *)
RunMigrationLoose(p) ==
  LET v == version[p] IN
  /\ stage[p] = "run"
  /\ schema' = Append(schema, build[p][v])
  /\ \/ /\ ledger' = Recorded(v, build[p][v])
        /\ version' = [version EXCEPT ![p] = v + 1]
        /\ Stage(p, "check") /\ UNCHANGED cause
     \/ /\ Stage(p, "unlockError") /\ cause' = cause \cup {p}
        /\ UNCHANGED <<version, ledger>>
  /\ UNCHANGED <<build, seen, holder>>

(* BEGIN, the SQL, the ledger row, COMMIT.  Until the commit nobody sees   *)
(* anything.  The row of a version that has one violates the primary key.  *)
(* Every statement may fail, and the answer to the commit may be lost.     *)
RunMigration(p) ==
  LET v == version[p] IN
  /\ stage[p] = "run"
  /\ \/ /\ v \notin DOMAIN ledger
        /\ schema' = Append(schema, build[p][v])
        /\ ledger' = Recorded(v, build[p][v])
        /\ \/ /\ version' = [version EXCEPT ![p] = v + 1]
              /\ Stage(p, "check") /\ UNCHANGED cause
           \/ /\ Stage(p, "unlockError") /\ cause' = cause \cup {p}
              /\ UNCHANGED version
     \/ /\ v \in DOMAIN ledger
        /\ Stage(p, "unlockError")
        /\ UNCHANGED <<version, schema, ledger, cause>>
     \/ /\ Stage(p, "unlockError") /\ cause' = cause \cup {p}
        /\ UNCHANGED <<version, schema, ledger>>
  /\ UNCHANGED <<build, seen, holder>>

(* Unlocked on every path; after an error the process exits.               *)
Unlock(p) ==
  /\ stage[p] \in {"unlock", "unlockError"}
  /\ holder' = Nobody
  /\ Stage(p, IF stage[p] = "unlock" THEN "migrated" ELSE "refused")
  /\ UNCHANGED <<build, version, seen, schema, ledger, cause>>

(* The process goes away, with its session still open on the server.       *)
GoDown(p) ==
  /\ Stage(p, "down")
  /\ version' = [version EXCEPT ![p] = 1]
  /\ seen' = [seen EXCEPT ![p] = NoTable]
  /\ holder' = IF holder = p THEN Dead ELSE holder
  /\ cause' = IF stage[p] = "refused" THEN cause ELSE cause \cup {p}
  /\ UNCHANGED <<build, schema, ledger>>

EndDeadSession ==
  /\ holder = Dead
  /\ holder' = Nobody
  /\ UNCHANGED <<build, stage, version, seen, schema, ledger, cause>>

MigrationStep(p) ==
  \/ TakeLock(p) \/ ReadLedger(p) \/ CheckVersion(p)
  \/ RunMigration(p) \/ Unlock(p)

MigrationNext ==
  \/ \E p \in Processes :
       \/ StartMigration(p) \/ MigrationStep(p)
       \/ stage[p] # "down" /\ GoDown(p)
  \/ EndDeadSession

MigrationSpec == MigrationInit /\ [][MigrationNext]_migrationVars

-----------------------------------------------------------------------------
(* Properties.                                                             *)

Sqls == UNION {{b[v] : v \in DOMAIN b} : b \in Builds}

Stages == {"down", "lock", "read", "check", "run", "unlock", "unlockError",
           "migrated", "refused"}

(* Every variable keeps the values its column or local may have.           *)
MigrationTypeOK ==
  /\ build \in [Processes -> Builds]
  /\ stage \in [Processes -> Stages]
  /\ version \in [Processes -> Nat \ {0}]
  /\ seen \in [Processes -> Seq(Sqls)]
  /\ holder \in Processes \cup {Nobody, Dead}
  /\ schema \in Seq(Sqls)
  /\ ledger \in Seq(Sqls)
  /\ cause \subseteq Processes

(* The ledger tells what was done to the schema: the versions from the     *)
(* first on, each once and in order, whoever died in the middle.           *)
LedgerIsHistory == ledger = schema

(* A process that got past its migrations finds the schema its own build   *)
(* describes, whatever other builds did before, after or meanwhile.        *)
ServesOwnSchema ==
  \A p \in Processes : stage[p] \in {"unlock", "migrated"} =>
    /\ Len(build[p]) <= Len(schema)
    /\ \A v \in 1..Len(build[p]) : schema[v] = build[p][v]

=============================================================================

---------------------------- MODULE ServiceProofs ----------------------------
(***************************************************************************)
(* What the migrations and the configuration guarantee, for any processes, *)
(* builds, windows and files.  The ledger is the history of the schema,    *)
(* and whoever got past the migrations finds the schema of its own build.  *)
(* A save stores a secret where it was and nowhere else, and the panel     *)
(* shows the file.                                                         *)
(*                                                                         *)
(* The argument for the migrations is that of a lock and a loop.  A        *)
(* process between the lock and the unlock is the holder, so only one is   *)
(* in the loop at a time; and its loop has compared or applied every       *)
(* version below the one it is at, while the ledger is the one it read, or *)
(* has grown exactly that far.                                             *)
(*                                                                         *)
(* The argument for the secrets is that a form shows its base: every       *)
(* server of it is one of the base, under whatever name.  If no name       *)
(* passed from one to another, a server with a new name comes from one     *)
(* that is gone, so the only pair that can be found is the right one.  The *)
(* argument for the panel is that a request that is not beside another is  *)
(* alone with the file.                                                    *)
(***************************************************************************)
EXTENDS Service, TLAPS, SequenceTheorems, FiniteSetTheorems

Locked == {"read", "check", "run", "unlock", "unlockError"}

(* Whoever stands between lock and unlock is the session that holds it.    *)
LockOK == \A p \in Processes : stage[p] \in Locked => holder = p

(* The first n versions of the schema are those of the build of p.         *)
Matches(p, n) ==
  /\ n <= Len(schema) /\ n <= Len(build[p])
  /\ \A v \in 1..n : schema[v] = build[p][v]

(* What the loop of p knows: below its version the schema is its build's,  *)
(* what it read is still there, and what is new it applied itself.         *)
Loop(p) ==
  /\ version[p] \in Nat \ {0}
  /\ Matches(p, version[p] - 1)
  /\ Len(seen[p]) <= Len(schema)
  /\ \A v \in 1..Len(seen[p]) : seen[p][v] = schema[v]
  /\ Len(schema) <= Len(seen[p]) \/ Len(schema) = version[p] - 1
  /\ stage[p] = "run" =>
       version[p] <= Len(build[p]) /\ Len(schema) = version[p] - 1

LoopOK == \A p \in Processes : stage[p] \in {"check", "run"} => Loop(p)

MigrationInv ==
  MigrationTypeOK /\ LedgerIsHistory /\ LockOK /\ LoopOK /\ ServesOwnSchema

-----------------------------------------------------------------------------
(* Sequences.                                                              *)

(* A ledger row for the version after the last one is an appended value.   *)
LEMMA RecordAppends ==
  ASSUME NEW S, NEW s \in Seq(S), NEW x \in S
  PROVE  [w \in DOMAIN s \cup {Len(s) + 1} |->
            IF w = Len(s) + 1 THEN x ELSE s[w]] = Append(s, x)
<1> DEFINE row == [w \in 1..(Len(s) + 1) |->
                    IF w = Len(s) + 1 THEN x ELSE s[w]]
<1>1. DOMAIN s = 1..Len(s) /\ Len(s) \in Nat
  OBVIOUS
<1>2. DOMAIN s \cup {Len(s) + 1} = 1..(Len(s) + 1)
  BY <1>1
<1>3. row \in Seq(S) /\ Len(row) = Len(s) + 1
  BY <1>1
<1> DEFINE longer == Append(s, x)
<1>4. longer \in Seq(S) /\ Len(longer) = Len(s) + 1
  BY AppendProperties
<1>5. \A i \in 1..Len(row) : row[i] = longer[i]
  BY <1>1, <1>3, AppendProperties
<1>6. row = longer
  <2> HIDE DEF row, longer
  <2> QED
    BY <1>3, <1>4, <1>5, SeqEqual
<1> QED
  BY <1>2, <1>6

(* A build is a sequence of the versions' SQL.                             *)
LEMMA BuildIsSeq ==
  ASSUME NEW b \in Builds
  PROVE  /\ b \in Seq(Sqls) /\ Len(b) \in Nat /\ DOMAIN b = 1..Len(b)
         /\ \A v \in 1..Len(b) : b[v] \in Sqls
<1> DEFINE own == {b[v] : v \in DOMAIN b}
<1>1. b \in Seq(own)
  BY BuildsAssumption
<1>2. own \subseteq Sqls
  BY DEF Sqls
<1>3. Len(b) \in Nat /\ DOMAIN b = 1..Len(b)
  BY <1>1
<1>4. \A v \in 1..Len(b) : b[v] \in Sqls
  BY <1>2, <1>3
<1> QED
  BY <1>1, <1>3, <1>4

-----------------------------------------------------------------------------
(* The invariant.                                                          *)

LEMMA MigrationStarts == MigrationInit => MigrationInv
<1> SUFFICES ASSUME MigrationInit PROVE MigrationInv
  OBVIOUS
<1>1. MigrationTypeOK
  BY DEF MigrationInit, MigrationTypeOK, Stages, NoTable
<1>2. LedgerIsHistory
  BY DEF MigrationInit, LedgerIsHistory, NoTable
<1>3. \A p \in Processes : stage[p] = "down"
  BY DEF MigrationInit
<1>4. LockOK /\ LoopOK /\ ServesOwnSchema
  BY <1>3 DEF LockOK, Locked, LoopOK, ServesOwnSchema
<1> QED
  BY <1>1, <1>2, <1>4 DEF MigrationInv

(* Nobody but the holder is between lock and unlock.                       *)
LEMMA OnlyHolder ==
  ASSUME LockOK, NEW p \in Processes, NEW q \in Processes,
         stage[p] \in Locked, stage[q] \in Locked
  PROVE  p = q
  BY DEF LockOK

(* A version that runs is the one after the last: the SQL takes effect     *)
(* together with its row, or nothing does.                                 *)
LEMMA RunAppends ==
  ASSUME MigrationInv, NEW p \in Processes, RunMigration(p)
  PROVE  /\ build[p][version[p]] \in Sqls
         /\ \/ /\ schema' = Append(schema, build[p][version[p]])
               /\ ledger' = schema'
            \/ schema' = schema /\ ledger' = ledger
<1> DEFINE v == version[p]
           x == build[p][v]
<1>1. /\ ledger = schema /\ schema \in Seq(Sqls) /\ build[p] \in Builds
      /\ v \in Nat \ {0}
  BY DEF MigrationInv, LedgerIsHistory, MigrationTypeOK
<1>2. v <= Len(build[p]) /\ v = Len(schema) + 1
  BY <1>1 DEF MigrationInv, LoopOK, Loop, RunMigration
<1>3. x \in Sqls
  BY <1>1, <1>2, BuildIsSeq
<1>4. Recorded(v, x) = Append(schema, x)
  BY <1>1, <1>2, <1>3, RecordAppends DEF Recorded
<1> QED
  BY <1>3, <1>4 DEF RunMigration

LEMMA TypesStep ==
  ASSUME MigrationInv, [MigrationNext]_migrationVars
  PROVE  MigrationTypeOK'
<1> USE DEF MigrationTypeOK, Stages
<1>0. MigrationTypeOK
  BY DEF MigrationInv
<1>1. ASSUME NEW p \in Processes, StartMigration(p)
      PROVE  MigrationTypeOK'
  BY <1>0, <1>1 DEF StartMigration, Stage
<1>2. ASSUME NEW p \in Processes, TakeLock(p)
      PROVE  MigrationTypeOK'
  BY <1>0, <1>2 DEF TakeLock, Stage
<1>3. ASSUME NEW p \in Processes, ReadLedger(p)
      PROVE  MigrationTypeOK'
  BY <1>0, <1>3 DEF ReadLedger, Stage
<1>4. ASSUME NEW p \in Processes, CheckVersion(p)
      PROVE  MigrationTypeOK'
  <2>1. version' \in [Processes -> Nat \ {0}]
    BY <1>0, <1>4 DEF CheckVersion
  <2>2. stage' \in [Processes -> Stages]
    BY <1>0, <1>4 DEF CheckVersion, Stage
  <2> QED
    BY <1>0, <1>4, <2>1, <2>2 DEF CheckVersion
<1>5. ASSUME NEW p \in Processes, RunMigration(p)
      PROVE  MigrationTypeOK'
  <2>1. version' \in [Processes -> Nat \ {0}]
    BY <1>0, <1>5 DEF RunMigration
  <2>2. stage' \in [Processes -> Stages]
    BY <1>0, <1>5 DEF RunMigration, Stage
  <2>3. schema' \in Seq(Sqls) /\ ledger' \in Seq(Sqls)
    <3> DEFINE x == build[p][version[p]]
    <3>1. x \in Sqls /\ schema \in Seq(Sqls) /\ ledger \in Seq(Sqls)
      BY <1>0, <1>5, RunAppends
    <3>2. \/ schema' = Append(schema, x) /\ ledger' = schema'
          \/ schema' = schema /\ ledger' = ledger
      BY <1>5, RunAppends
    <3>3. Append(schema, x) \in Seq(Sqls)
      BY <3>1, AppendProperties
    <3> HIDE DEF x
    <3> QED
      BY <3>1, <3>2, <3>3
  <2> QED
    BY <1>0, <1>5, <2>1, <2>2, <2>3 DEF RunMigration
<1>6. ASSUME NEW p \in Processes, Unlock(p)
      PROVE  MigrationTypeOK'
  BY <1>0, <1>6 DEF Unlock, Stage
<1>7. ASSUME NEW p \in Processes, GoDown(p)
      PROVE  MigrationTypeOK'
  BY <1>0, <1>7 DEF GoDown, Stage, NoTable
<1>8. CASE EndDeadSession
  BY <1>0, <1>8 DEF EndDeadSession
<1>9. CASE UNCHANGED migrationVars
  BY <1>0, <1>9 DEF migrationVars
<1> QED
  BY <1>1, <1>2, <1>3, <1>4, <1>5, <1>6, <1>7, <1>8, <1>9
     DEF MigrationNext, MigrationStep

(* The lock: it is taken only when nobody has it, and left at the unlock   *)
(* or when the process goes down.                                          *)
LEMMA LockStep ==
  ASSUME MigrationInv, [MigrationNext]_migrationVars
  PROVE  LockOK'
<1> USE DEF LockOK, Locked
<1>0. LockOK /\ stage \in [Processes -> Stages]
      /\ Nobody \notin Processes /\ Dead \notin Processes
  BY BuildsAssumption DEF MigrationInv, MigrationTypeOK
<1>1. ASSUME NEW p \in Processes, StartMigration(p)
      PROVE  LockOK'
  BY <1>0, <1>1 DEF StartMigration, Stage
<1>2. ASSUME NEW p \in Processes, TakeLock(p)
      PROVE  LockOK'
  BY <1>0, <1>2 DEF TakeLock, Stage
<1>3. ASSUME NEW p \in Processes,
             ReadLedger(p) \/ CheckVersion(p) \/ RunMigration(p)
      PROVE  LockOK'
  BY <1>0, <1>3 DEF ReadLedger, CheckVersion, RunMigration, Stage
<1>4. ASSUME NEW p \in Processes, Unlock(p)
      PROVE  LockOK'
  BY <1>0, <1>4 DEF Unlock, Stage
<1>5. ASSUME NEW p \in Processes, GoDown(p)
      PROVE  LockOK'
  BY <1>0, <1>5 DEF GoDown, Stage
<1>6. CASE EndDeadSession
  BY <1>0, <1>6 DEF EndDeadSession
<1>7. CASE UNCHANGED migrationVars
  BY <1>0, <1>7 DEF migrationVars
<1> QED
  BY <1>1, <1>2, <1>3, <1>4, <1>5, <1>6, <1>7
     DEF MigrationNext, MigrationStep

(* The ledger and the schema grow together, by one version at the end.     *)
LEMMA LedgerStep ==
  ASSUME MigrationInv, [MigrationNext]_migrationVars
  PROVE  /\ LedgerIsHistory'
         /\ \/ UNCHANGED schema
            \/ \E p \in Processes, x \in Sqls :
                 RunMigration(p) /\ schema' = Append(schema, x)
<1>0. LedgerIsHistory
  BY DEF MigrationInv
<1>1. ASSUME NEW p \in Processes, RunMigration(p)
      PROVE  /\ LedgerIsHistory'
             /\ \/ UNCHANGED schema
                \/ \E x \in Sqls : schema' = Append(schema, x)
  BY <1>0, <1>1, RunAppends DEF LedgerIsHistory
<1>2. ASSUME NEW p \in Processes,
             \/ StartMigration(p) \/ TakeLock(p) \/ ReadLedger(p)
             \/ CheckVersion(p) \/ Unlock(p) \/ GoDown(p)
      PROVE  UNCHANGED <<schema, ledger>>
  BY <1>2 DEF StartMigration, TakeLock, ReadLedger, CheckVersion, Unlock,
              GoDown
<1>3. CASE EndDeadSession \/ UNCHANGED migrationVars
  BY <1>0, <1>3 DEF EndDeadSession, migrationVars, LedgerIsHistory
<1> QED
  BY <1>0, <1>1, <1>2, <1>3
     DEF MigrationNext, MigrationStep, LedgerIsHistory

(* What a process knows of the schema's beginning stays true.              *)
LEMMA MatchesStays ==
  ASSUME MigrationTypeOK, NEW p \in Processes, NEW n \in Nat, Matches(p, n),
         build' = build,
         \/ schema' = schema
         \/ \E x \in Sqls : schema' = Append(schema, x)
  PROVE  Matches(p, n)'
<1>1. schema \in Seq(Sqls) /\ Len(schema) \in Nat
  BY DEF MigrationTypeOK
<1>2. CASE schema' = schema
  BY <1>2 DEF Matches
<1>3. ASSUME NEW x \in Sqls, schema' = Append(schema, x)
      PROVE  Matches(p, n)'
  <2>1. /\ Len(schema') = Len(schema) + 1
        /\ \A i \in 1..Len(schema) : schema'[i] = schema[i]
    BY <1>1, <1>3, AppendProperties
  <2> QED
    BY <1>1, <2>1 DEF Matches
<1> QED
  BY <1>2, <1>3

(* A process in its loop is left alone by the steps of others.             *)
LEMMA OthersLoop ==
  ASSUME MigrationInv, NEW p \in Processes, NEW q \in Processes, q # p,
         UNCHANGED <<build, schema>>,
         stage'[q] = stage[q], version'[q] = version[q], seen'[q] = seen[q]
  PROVE  stage'[q] \in {"check", "run"} => Loop(q)'
  BY DEF MigrationInv, LoopOK, Loop, Matches

(* The loop starts with the ledger as it is.                               *)
LEMMA ReadKeepsLoop ==
  ASSUME MigrationInv, NEW p \in Processes, ReadLedger(p)
  PROVE  LoopOK'
<1>1. MigrationTypeOK /\ ledger = schema /\ Len(schema) \in Nat
      /\ Len(build[p]) \in Nat
  BY BuildIsSeq DEF MigrationInv, LedgerIsHistory, MigrationTypeOK
<1>2. /\ version'[p] = 1 /\ seen'[p] = schema /\ stage'[p] = "check"
      /\ UNCHANGED <<build, schema>>
  BY <1>1 DEF ReadLedger, Stage, MigrationTypeOK
<1>3. Loop(p)'
  BY <1>1, <1>2 DEF Loop, Matches
<1>4. ASSUME NEW q \in Processes, q # p
      PROVE  stage'[q] \in {"check", "run"} => Loop(q)'
  <2>1. stage'[q] = stage[q] /\ version'[q] = version[q] /\ seen'[q] = seen[q]
    BY <1>1, <1>4 DEF ReadLedger, Stage, MigrationTypeOK
  <2> QED
    BY <1>2, <1>4, <2>1, OthersLoop
<1> QED
  BY <1>3, <1>4 DEF LoopOK

(* The loop compares the version it is at, or finds it new.                *)
LEMMA CheckKeepsLoop ==
  ASSUME MigrationInv, NEW p \in Processes, CheckVersion(p)
  PROVE  LoopOK'
<1> DEFINE v == version[p]
<1>1. /\ MigrationTypeOK /\ LoopOK /\ build[p] \in Builds
      /\ Len(build[p]) \in Nat /\ DOMAIN build[p] = 1..Len(build[p])
  BY BuildIsSeq DEF MigrationInv, MigrationTypeOK
<1>2. /\ v \in Nat \ {0} /\ Len(schema) \in Nat /\ Len(seen[p]) \in Nat
      /\ DOMAIN seen[p] = 1..Len(seen[p])
  BY <1>1 DEF MigrationTypeOK
<1>3. UNCHANGED <<build, schema, seen>> /\ stage[p] = "check"
  BY DEF CheckVersion
<1>4. /\ Matches(p, v - 1)
      /\ Len(seen[p]) <= Len(schema)
      /\ \A u \in 1..Len(seen[p]) : seen[p][u] = schema[u]
      /\ Len(schema) <= Len(seen[p]) \/ Len(schema) = v - 1
  BY <1>1, <1>3 DEF LoopOK, Loop
<1>5. ASSUME NEW q \in Processes, q # p
      PROVE  stage'[q] \in {"check", "run"} => Loop(q)'
  <2>1. stage'[q] = stage[q] /\ version'[q] = version[q] /\ seen'[q] = seen[q]
    BY <1>1, <1>5 DEF CheckVersion, Stage, MigrationTypeOK
  <2> QED
    BY <1>3, <1>5, <2>1, OthersLoop
<1>6. ASSUME stage'[p] = "check"
      PROVE  Loop(p)'
  <2>1. /\ version' = [version EXCEPT ![p] = v + 1]
        /\ v <= Len(build[p]) /\ v \in DOMAIN seen[p]
        /\ seen[p][v] = build[p][v]
    BY <1>1, <1>6 DEF CheckVersion, Stage, MigrationTypeOK
  <2>2. version'[p] = v + 1
    BY <1>1, <2>1 DEF MigrationTypeOK
  <2>3. schema[v] = build[p][v] /\ v <= Len(schema)
    BY <1>2, <1>4, <2>1
  <2>4. Matches(p, v)
    <3>1. \A u \in 1..(v - 1) : schema[u] = build[p][u]
      BY <1>4 DEF Matches
    <3>2. \A u \in 1..v : u \in 1..(v - 1) \/ u = v
      BY <1>2
    <3>3. \A u \in 1..v : schema[u] = build[p][u]
      BY <2>3, <3>1, <3>2
    <3> HIDE DEF v
    <3> QED
      BY <2>1, <2>3, <3>3 DEF Matches
  <2>5. Len(schema) <= Len(seen[p])
    BY <1>2, <1>4, <2>1
  <2> QED
    BY <1>2, <1>3, <1>4, <1>6, <2>2, <2>4, <2>5 DEF Loop, Matches
<1>7. ASSUME stage'[p] = "run"
      PROVE  Loop(p)'
  <2>1. UNCHANGED version /\ v <= Len(build[p]) /\ v \notin DOMAIN seen[p]
    BY <1>1, <1>7 DEF CheckVersion, Stage, MigrationTypeOK
  <2>2. Len(schema) = v - 1
    BY <1>2, <1>4, <2>1 DEF Matches
  <2> QED
    BY <1>2, <1>3, <1>4, <1>7, <2>1, <2>2 DEF Loop, Matches
<1> QED
  BY <1>5, <1>6, <1>7 DEF LoopOK

(* A version that was applied is one the build describes.                  *)
LEMMA RunKeepsLoop ==
  ASSUME MigrationInv, NEW p \in Processes, RunMigration(p)
  PROVE  LoopOK'
<1> DEFINE v == version[p]
           x == build[p][v]
<1>0. MigrationTypeOK /\ LockOK /\ Loop(p)
  BY DEF MigrationInv, LoopOK, RunMigration
<1>1. /\ schema \in Seq(Sqls) /\ Len(schema) \in Nat /\ v \in Nat \ {0}
      /\ Len(build[p]) \in Nat /\ Len(seen[p]) \in Nat /\ x \in Sqls
  BY <1>0, BuildIsSeq, RunAppends DEF MigrationTypeOK
<1>2. stage[p] = "run" /\ UNCHANGED <<build, seen>>
  BY DEF RunMigration
<1>3. ASSUME NEW q \in Processes, q # p
      PROVE  stage'[q] \notin {"check", "run"}
  <2>1. stage'[q] = stage[q]
    BY <1>0, <1>3 DEF RunMigration, Stage, MigrationTypeOK
  <2> QED
    BY <1>0, <1>2, <1>3, <2>1, OnlyHolder DEF Locked
<1>4. ASSUME stage'[p] \in {"check", "run"}
      PROVE  Loop(p)'
  <2>1. stage'[p] = "check" /\ version'[p] = v + 1
    BY <1>0, <1>1, <1>4 DEF RunMigration, Stage, MigrationTypeOK
  <2>2. v \notin DOMAIN ledger /\ schema' = Append(schema, x)
    <3>1. stage' # [stage EXCEPT ![p] = "unlockError"]
      BY <1>0, <2>1 DEF MigrationTypeOK
    <3>2. /\ v \notin DOMAIN ledger
          /\ schema' = Append(schema, build[p][v])
      BY <3>1 DEF RunMigration, Stage
    <3> QED
      BY <3>2
  <2>3. /\ Len(schema') = Len(schema) + 1 /\ schema'[Len(schema) + 1] = x
        /\ \A i \in 1..Len(schema) : schema'[i] = schema[i]
    <3> HIDE DEF x
    <3> QED
      BY <1>1, <2>2, AppendProperties
  <2>4. Len(schema) = v - 1 /\ v <= Len(build[p])
    BY <1>0, <1>2 DEF Loop
  <2>5. /\ \A i \in 1..(v - 1) : schema[i] = build[p][i]
        /\ Len(seen[p]) <= Len(schema)
        /\ \A u \in 1..Len(seen[p]) : seen[p][u] = schema[u]
    BY <1>0 DEF Loop, Matches
  <2>6. Matches(p, version[p] - 1)'
    <3>0. schema'[v] = x
      BY <1>1, <2>3, <2>4
    <3>1. ASSUME NEW i \in 1..v
          PROVE  schema'[i] = build[p][i]
      <4>1. CASE i = v
        BY <3>0, <4>1
      <4>2. CASE i # v
        <5>1. i \in 1..(v - 1) /\ i \in 1..Len(schema)
          BY <1>1, <2>4, <4>2
        <5> QED
          BY <2>3, <2>5, <5>1
      <4> QED
        BY <4>1, <4>2
    <3>2. v <= Len(schema')
      BY <1>1, <2>3, <2>4
    <3> QED
      BY <1>1, <1>2, <2>1, <2>4, <3>1, <3>2 DEF Matches
  <2>7. \A u \in 1..Len(seen[p]) : seen[p][u] = schema'[u]
    BY <1>1, <2>3, <2>5
  <2> QED
    <3>1. Len(schema') \in Nat /\ version'[p] \in Nat \ {0}
      BY <1>1, <2>1, <2>3
    <3>2. Len(schema') = version'[p] - 1 /\ Len(seen[p]) <= Len(schema')
      BY <1>1, <2>1, <2>3, <2>4, <2>5
    <3>3. seen' = seen /\ stage'[p] = "check"
      BY <1>2, <2>1
    <3> QED
      BY <2>6, <2>7, <3>1, <3>2, <3>3 DEF Loop
<1> QED
  BY <1>3, <1>4 DEF LoopOK

LEMMA LoopStep ==
  ASSUME MigrationInv, [MigrationNext]_migrationVars
  PROVE  LoopOK'
<1>0. LoopOK /\ stage \in [Processes -> Stages]
  BY DEF MigrationInv, MigrationTypeOK
<1>1. ASSUME NEW p \in Processes, StartMigration(p) \/ TakeLock(p) \/ Unlock(p)
      PROVE  LoopOK'
  <2>1. UNCHANGED <<build, version, seen, schema>>
    BY <1>1 DEF StartMigration, TakeLock, Unlock
  <2>2. stage'[p] \notin {"check", "run"}
    BY <1>0, <1>1 DEF StartMigration, TakeLock, Unlock, Stage
  <2>3. \A q \in Processes \ {p} : stage'[q] = stage[q]
    BY <1>0, <1>1 DEF StartMigration, TakeLock, Unlock, Stage
  <2> QED
    BY <2>1, <2>2, <2>3, OthersLoop DEF LoopOK
<1>2. ASSUME NEW p \in Processes, GoDown(p)
      PROVE  LoopOK'
  <2>1. \A q \in Processes \ {p} : /\ stage'[q] = stage[q]
                                   /\ version'[q] = version[q]
                                   /\ seen'[q] = seen[q]
    BY <1>2 DEF GoDown, Stage, MigrationInv, MigrationTypeOK
  <2>2. stage'[p] = "down" /\ UNCHANGED <<build, schema>>
    BY <1>0, <1>2 DEF GoDown, Stage
  <2> QED
    BY <2>1, <2>2, OthersLoop DEF LoopOK
<1>3. CASE EndDeadSession \/ UNCHANGED migrationVars
  BY <1>0, <1>3 DEF EndDeadSession, migrationVars, LoopOK, Loop, Matches
<1> QED
  BY <1>1, <1>2, <1>3, ReadKeepsLoop, CheckKeepsLoop, RunKeepsLoop
     DEF MigrationNext, MigrationStep

(* Whoever leaves the loop has matched every version of its build.         *)
LEMMA SchemaStep ==
  ASSUME MigrationInv, [MigrationNext]_migrationVars
  PROVE  ServesOwnSchema'
<1> DEFINE Done(p) == stage[p] \in {"unlock", "migrated"}
           Own(p) == Matches(p, Len(build[p]))
<1>1. /\ MigrationTypeOK /\ UNCHANGED build
      /\ \A p \in Processes : Len(build[p]) \in Nat
  BY BuildIsSeq DEF MigrationInv, MigrationTypeOK, MigrationNext,
     MigrationStep, StartMigration, TakeLock, ReadLedger, CheckVersion,
     RunMigration, Unlock, GoDown, EndDeadSession, migrationVars
<1>2. ASSUME NEW p \in Processes, Own(p)
      PROVE  Own(p)'
  BY <1>1, <1>2, LedgerStep, MatchesStays DEF Matches
<1>3. \A p \in Processes : Done(p) => Own(p)
  BY <1>1 DEF MigrationInv, ServesOwnSchema, Matches
<1>4. ASSUME NEW p \in Processes, CheckVersion(p), Done(p)'
      PROVE  Own(p)
  <2>1. version[p] > Len(build[p]) /\ stage[p] = "check"
    BY <1>1, <1>4 DEF CheckVersion, Stage, MigrationTypeOK
  <2>2. Matches(p, version[p] - 1) /\ version[p] \in Nat \ {0}
    BY <2>1 DEF MigrationInv, LoopOK, Loop
  <2> QED
    BY <1>1, <2>1, <2>2 DEF Matches
<1>5. ASSUME NEW p \in Processes, Done(p)'
      PROVE  Done(p) \/ CheckVersion(p)
  <2>1. stage \in [Processes -> Stages]
    BY <1>1 DEF MigrationTypeOK
  <2>2. ASSUME NEW q \in Processes,
               \/ StartMigration(q) \/ TakeLock(q) \/ ReadLedger(q)
               \/ RunMigration(q) \/ GoDown(q)
        PROVE  Done(p)
    BY <1>5, <2>1, <2>2 DEF StartMigration, TakeLock, ReadLedger,
       RunMigration, GoDown, Stage
  <2>3. ASSUME NEW q \in Processes, Unlock(q)
        PROVE  Done(p)
    BY <1>5, <2>1, <2>3 DEF Unlock, Stage
  <2>4. ASSUME NEW q \in Processes, CheckVersion(q)
        PROVE  Done(p) \/ CheckVersion(p)
    BY <1>5, <2>1, <2>4 DEF CheckVersion, Stage
  <2>5. CASE EndDeadSession \/ UNCHANGED migrationVars
    BY <1>5, <2>5 DEF EndDeadSession, migrationVars
  <2> QED
    BY <2>2, <2>3, <2>4, <2>5 DEF MigrationNext, MigrationStep
<1>6. \A p \in Processes : Done(p)' => Own(p)'
  BY <1>2, <1>3, <1>4, <1>5
<1> QED
  BY <1>6 DEF ServesOwnSchema, Matches

-----------------------------------------------------------------------------
(* The service.                                                            *)

(* Every step of the service is one of the migrations, or leaves them.     *)
LEMMA ServiceMigrates ==
  ASSUME bound \in Bounds, [Next]_vars
  PROVE  (bound \in Bounds)' /\ [MigrationNext]_migrationVars
<1>1. bound.processes \subseteq Processes
  BY ServiceAssumption DEF BoundRecord
<1>2. ASSUME NEW p \in Processes,
             Boot(p) \/ Migrate(p) \/ Exit(p) \/ Crash(p)
      PROVE  MigrationNext
  BY <1>2 DEF Boot, Migrate, Exit, Crash, MigrationNext
<1>3. ASSUME NEW p \in Processes, Launch(p) \/ PollOnce(p)
      PROVE  UNCHANGED migrationVars
  BY <1>3 DEF Launch, PollOnce
<1>4. ASSUME NEW o, Panel(o) \/ DiskFull(o)
      PROVE  UNCHANGED migrationVars
  BY <1>4 DEF Panel, DiskFull
<1>5. EndDeadSession => MigrationNext
  BY DEF MigrationNext
<1>6. CASE UNCHANGED vars
  BY <1>6 DEF vars
<1>7. CASE Next
  <2>1. UNCHANGED bound
    BY <1>7 DEF Next
  <2> QED
    BY <1>1, <1>2, <1>3, <1>4, <1>5, <1>7, <2>1 DEF Next
<1> QED
  BY <1>6, <1>7

(* The service keeps the invariant of the migrations.                      *)
THEOREM MigrationsAreSound == Spec => []MigrationInv
<1>1. Init => MigrationInv /\ bound \in Bounds
  BY MigrationStarts DEF Init
<1>2. /\ MigrationInv /\ bound \in Bounds /\ [Next]_vars
      => MigrationInv' /\ (bound \in Bounds)'
  BY ServiceMigrates, TypesStep, LockStep, LedgerStep, LoopStep, SchemaStep
     DEF MigrationInv
<1> QED
  BY <1>1, <1>2, PTL DEF Spec

(* run_migrations: whichever processes die, of whichever builds, the       *)
(* ledger lists what was done to the schema, in the order it was done.     *)
THEOREM LedgerIsTrue == Spec => []LedgerIsHistory
<1>1. MigrationInv => LedgerIsHistory
  BY DEF MigrationInv
<1> QED
  BY <1>1, MigrationsAreSound, PTL

(* validate_migration_state: a process serves only on the schema of its    *)
(* own build, for ever, whatever other builds do.                          *)
THEOREM SchemaIsOwn == Spec => []ServesOwnSchema
<1>1. MigrationInv => ServesOwnSchema
  BY DEF MigrationInv
<1> QED
  BY <1>1, MigrationsAreSound, PTL

(* pg_advisory_lock: never are two processes between lock and unlock.      *)
THEOREM OneMigrates ==
  Spec => [](\A p, q \in Processes :
               stage[p] \in Locked /\ stage[q] \in Locked => p = q)
<1>1. MigrationInv => (\A p, q \in Processes :
               stage[p] \in Locked /\ stage[q] \in Locked => p = q)
  BY OnlyHolder DEF MigrationInv
<1> QED
  BY <1>1, MigrationsAreSound, PTL

-----------------------------------------------------------------------------
(* The configuration.                                                      *)

(* The functions are functions, and the rest of TypeOK.                    *)
ConfigTypes ==
  /\ bound \in Bounds /\ faults \in 0..bound.faults
  /\ memory = [p \in Processes |-> memory[p]]
  /\ worker \in [Processes -> {"off", "ready"}]
  /\ live \subseteq Processes \X Operators
  /\ at \in [Operators -> Processes]
  /\ form = [o \in Operators |-> form[o]]
  /\ base = [o \in Operators |-> base[o]]
  /\ handler \in [Operators -> {"idle", "truncate", "write", "remember"}]
  /\ draft = [o \in Operators |-> draft[o]]
  /\ crossed \in [Operators -> BOOLEAN]
  /\ file.state \in {"whole", "shorter", "torn"}
  /\ edits \in [EditKinds -> 0..MaxEdits] /\ saves \in 0..MaxSaves
  /\ mishap \subseteq
       {"stale", "reused", "several", "mailbox", "rekeyed", "moved"}
  /\ beside \subseteq Operators /\ apart \subseteq Processes

(* A form shows what its base has: it has no value that is not at home,    *)
(* and a server that shows a placeholder is one of the base, under         *)
(* whatever name.                                                          *)
MadeFrom(f, b) ==
  /\ IsConfig(f)
  /\ AtHome(b) => AtHome(f)
  /\ \A n \in DOMAIN f.servers :
       Hiding(f.servers[n]) # {} =>
         \E m \in DOMAIN b.servers : f.servers[n].home = b.servers[m].home

FormsOK ==
  \A o \in Operators : form[o] # NoConfig =>
    IsConfig(base[o]) /\ MadeFrom(form[o], base[o])

(* What is stored somewhere, or is going to be.                            *)
Kept(c) ==
  \/ file.state # "torn" /\ c = file.config
  \/ \E p \in Processes : memory[p] # NoConfig /\ c = memory[p]
  \/ \E o \in Operators : handler[o] # "idle" /\ c = draft[o]

KeptOK == \A c : Kept(c) => IsConfig(c)

(* A request stores something, and in a process that is there.             *)
DraftsOK ==
  \A o \in Operators : handler[o] # "idle" => draft[o] # NoConfig

MemoryOK ==
  \A p \in Processes : (memory[p] = NoConfig) = (stage[p] = "down")

(* While no form was out of order, no placeholder is stored.               *)
NoPlaceholder ==
  mishap = {} => \A c : Kept(c) => Placeholder \notin Stored(c)

(* While no form was out of date, took a name or made a server look like   *)
(* another that went, every secret is at home.                             *)
AllAtHome ==
  mishap \cap {"stale", "reused", "moved"} = {} => \A c : Kept(c) => AtHome(c)

(* A request that is not beside another is the only one.                   *)
Alone ==
  \A o, q \in Operators :
    handler[o] # "idle" /\ handler[q] # "idle" /\ o \notin beside => q = o

(* So nobody writes into the file while it does, and what it wrote stands. *)
Undisturbed ==
  \A o \in Operators \ beside :
    /\ handler[o] = "write" => ~crossed[o]
    /\ handler[o] = "remember" => file = Whole(draft[o])

(* Unless a request is about to write, or to remember what it wrote, a     *)
(* copy is the file.                                                       *)
Agreed ==
  (\A o \in Operators : handler[o] \notin {"write", "remember"}) =>
    \A p \in Processes \ apart :
      memory[p] # NoConfig => file.config = memory[p]

ConfigInv ==
  /\ ConfigTypes /\ MemoryOK /\ DraftsOK
  /\ FormsOK /\ KeptOK /\ NoPlaceholder /\ AllAtHome
  /\ Alone /\ Undisturbed /\ Agreed

-----------------------------------------------------------------------------
(* Redacting, editing and restoring.                                       *)

(* The parts of a configuration.                                           *)
LEMMA Parts ==
  ASSUME NEW c, IsConfig(c), NEW x
  PROVE  /\ [c EXCEPT !.db = x] =
              [db |-> x, servers |-> c.servers, mailboxes |-> c.mailboxes]
         /\ [c EXCEPT !.servers = x] =
              [db |-> c.db, servers |-> x, mailboxes |-> c.mailboxes]
         /\ [c EXCEPT !.mailboxes = x] =
              [db |-> c.db, servers |-> c.servers, mailboxes |-> x]
BY DEF IsConfig

(* Two fields at once.                                                     *)
LEMMA TwoParts ==
  ASSUME NEW c, IsConfig(c), NEW x, NEW y
  PROVE  [c EXCEPT !.servers = x, !.mailboxes = y] =
           [db |-> c.db, servers |-> x, mailboxes |-> y]
<1>1. c = [db |-> c.db, servers |-> c.servers, mailboxes |-> c.mailboxes]
  BY DEF IsConfig
<1> DEFINE d == [c EXCEPT !.servers = x]
<1>2. [c EXCEPT !.servers = x, !.mailboxes = y] = [d EXCEPT !.mailboxes = y]
  BY <1>1
<1>3. d = [db |-> c.db, servers |-> x, mailboxes |-> c.mailboxes]
  BY <1>1
<1> HIDE DEF d
<1>4. [d EXCEPT !.mailboxes = y] =
        [db |-> c.db, servers |-> x, mailboxes |-> y]
  BY <1>3
<1> QED
  BY <1>2, <1>4

(* A configuration with other fields.                                      *)
With(c, x, y, z) == [c EXCEPT !.db = x, !.servers = y, !.mailboxes = z]

(* All three at once.                                                      *)
LEMMA ThreeParts ==
  ASSUME NEW c, IsConfig(c), NEW x, NEW y, NEW z
  PROVE  With(c, x, y, z) = [db |-> x, servers |-> y, mailboxes |-> z]
<1>1. c = [db |-> c.db, servers |-> c.servers, mailboxes |-> c.mailboxes]
  BY DEF IsConfig
<1> DEFINE d == [c EXCEPT !.db = x]
           e == [d EXCEPT !.servers = y]
<1>2. With(c, x, y, z) = [e EXCEPT !.mailboxes = z]
  BY <1>1 DEF With
<1>3. d = [db |-> x, servers |-> c.servers, mailboxes |-> c.mailboxes]
  BY <1>1
<1> HIDE DEF d
<1>4. e = [db |-> x, servers |-> y, mailboxes |-> c.mailboxes]
  BY <1>3
<1> HIDE DEF e
<1>5. [e EXCEPT !.mailboxes = z] = [db |-> x, servers |-> y, mailboxes |-> z]
  BY <1>4
<1> QED
  BY <1>2, <1>5

(* A server with another environment.                                      *)
LEMMA ServerParts ==
  ASSUME NEW c, IsConfig(c), NEW n \in DOMAIN c.servers, NEW e
  PROVE  /\ [c.servers[n] EXCEPT !.env = e] =
              [home |-> c.servers[n].home, env |-> e]
BY DEF IsConfig

(* A mailbox with another password.                                        *)
LEMMA MailboxPassword ==
  ASSUME NEW c, IsConfig(c), NEW i \in DOMAIN c.mailboxes, NEW x
  PROVE  [c.mailboxes[i] EXCEPT !.password = x] =
           [password |-> x, uses |-> c.mailboxes[i].uses]
BY DEF IsConfig

(* A mailbox that uses other servers.                                      *)
LEMMA MailboxUses ==
  ASSUME NEW c, IsConfig(c), NEW i \in DOMAIN c.mailboxes, NEW x
  PROVE  [c.mailboxes[i] EXCEPT !.uses = x] =
           [password |-> c.mailboxes[i].password, uses |-> x]
BY DEF IsConfig

(* A form that was just opened shows its base.                             *)
LEMMA RedactedIsMade ==
  ASSUME NEW b, IsConfig(b)
  PROVE  MadeFrom(Redacted(b), b)
<1> DEFINE S == [n \in DOMAIN b.servers |->
             [b.servers[n] EXCEPT !.env = RedactedEnv(b.servers[n].env)]]
           M == [i \in DOMAIN b.mailboxes |->
             [b.mailboxes[i] EXCEPT
                !.password = Redact(b.mailboxes[i].password)]]
           f == [db |-> Redact(b.db), servers |-> S, mailboxes |-> M]
<1>1. Redacted(b) = f
  <2>1. Redacted(b) =
          [b EXCEPT !.db = Redact(b.db), !.servers = S, !.mailboxes = M]
    BY DEF Redacted
  <2> DEFINE d == Redact(b.db)
  <2>2. Redacted(b) = With(b, d, S, M)
    BY <2>1 DEF With
  <2>3. f = [db |-> d, servers |-> S, mailboxes |-> M]
    OBVIOUS
  <2> HIDE DEF S, M, d, f
  <2> QED
    BY <2>2, <2>3, ThreeParts
<1>2. \A n \in DOMAIN S :
        S[n] = [home |-> b.servers[n].home,
                env |-> RedactedEnv(b.servers[n].env)]
  BY ServerParts
<1>3. \A i \in DOMAIN M :
        M[i] = [password |-> Redact(b.mailboxes[i].password),
                uses |-> b.mailboxes[i].uses]
  <2> TAKE i \in DOMAIN M
  <2>1. i \in DOMAIN b.mailboxes
    OBVIOUS
  <2>2. M[i] = [b.mailboxes[i] EXCEPT
                  !.password = Redact(b.mailboxes[i].password)]
    BY <2>1
  <2> HIDE DEF M
  <2> QED
    BY <2>1, <2>2, MailboxPassword
<1>4. DOMAIN S = DOMAIN b.servers /\ DOMAIN M = DOMAIN b.mailboxes
      /\ IsFiniteSet(DOMAIN b.servers)
      /\ \A n, m \in DOMAIN b.servers :
           b.servers[n].home = b.servers[m].home => n = m
  BY DEF IsConfig
<1> HIDE DEF S, M
<1>5. IsConfig(f)
  BY <1>2, <1>3, <1>4 DEF IsConfig
<1>6. AtHome(b) => AtHome(f)
  <2>1. SUFFICES ASSUME AtHome(b), NEW n \in DOMAIN S,
                        NEW k \in DOMAIN S[n].env
                 PROVE  S[n].env[k] \in
                          {S[n].home, Typed, Placeholder, Empty}
    BY DEF AtHome
  <2>2. /\ S[n].home = b.servers[n].home
        /\ S[n].env = RedactedEnv(b.servers[n].env)
    BY <1>2
  <2>3. k \in DOMAIN b.servers[n].env
    BY <2>2 DEF RedactedEnv
  <2>4. S[n].env[k] \in {b.servers[n].env[k], Placeholder, Empty}
    BY <2>2, <2>3 DEF RedactedEnv, Redact
  <2>5. b.servers[n].env[k] \in
          {b.servers[n].home, Typed, Placeholder, Empty}
    BY <1>4, <2>1, <2>3 DEF AtHome
  <2> QED
    BY <2>2, <2>4, <2>5
<1>7. \A n \in DOMAIN S :
        \E m \in DOMAIN b.servers : S[n].home = b.servers[m].home
  <2> TAKE n \in DOMAIN S
  <2> DEFINE h == b.servers[n].home
             e == RedactedEnv(b.servers[n].env)
  <2>1. S[n] = [home |-> h, env |-> e] /\ n \in DOMAIN b.servers
    BY <1>2, <1>4
  <2> HIDE DEF e
  <2>2. S[n].home = b.servers[n].home
    BY <2>1
  <2> QED
    BY <2>1, <2>2
<1>8. MadeFrom(f, b)
  BY <1>5, <1>6, <1>7 DEF MadeFrom
<1> QED
  BY <1>1, <1>8

(* An environment with nothing in it but what was in another, or typed.    *)
Within(e, old) ==
  \A k \in DOMAIN e :
    e[k] \in {Typed, Empty} \cup {old[j] : j \in DOMAIN old}

(* Mailboxes are mailboxes.                                                *)
AreMailboxes(M) ==
  \A i \in DOMAIN M :
    M[i] = [password |-> M[i].password, uses |-> M[i].uses]

(* What an edit makes of a form.                                           *)
Edit(f, b, g) ==
  \/ g = [f EXCEPT !.db = Typed]
  \/ \E n \in DOMAIN f.servers, m \in Names \ DOMAIN f.servers :
       g = RenameServer(f, n, m)
  \/ \E n \in DOMAIN f.servers : g = RemoveServer(f, n)
  \/ \E m \in Names \ DOMAIN f.servers,
        h \in Homes \ (HomesOf(f) \cup HomesOf(b)) :
       g = AddServer(f, m, h)
  \/ \E n \in DOMAIN f.servers : \E e :
       Within(e, f.servers[n].env) /\ g = [f EXCEPT !.servers[n].env = e]
  \/ \E M : /\ g = [f EXCEPT !.mailboxes = M]
            /\ AreMailboxes(M)

(* A variable that is set, renamed or removed brings nothing new.          *)
LEMMA EnvEdits ==
  ASSUME NEW env
  PROVE  /\ \A k : \A v \in {Typed, Empty} : Within(SetKey(env, k, v), env)
         /\ \A k \in DOMAIN env : \A j : Within(RenameKey(env, k, j), env)
         /\ \A k : Within(WithoutKey(env, k), env)
<1>1. \A k : \A v \in {Typed, Empty} : Within(SetKey(env, k, v), env)
  BY DEF Within, SetKey
<1>2. ASSUME NEW k \in DOMAIN env, NEW j
      PROVE  Within(RenameKey(env, k, j), env)
  <2> DEFINE e == WithoutKey(env, k)
  <2>1. DOMAIN e = DOMAIN env \ {k} /\ \A x \in DOMAIN e : e[x] = env[x]
    BY DEF WithoutKey
  <2>2. RenameKey(env, k, j) = SetKey(e, j, env[k])
    BY DEF RenameKey
  <2> HIDE DEF e
  <2> QED
    BY <2>1, <2>2 DEF Within, SetKey
<1>3. \A k : Within(WithoutKey(env, k), env)
  BY DEF Within, WithoutKey
<1> QED
  BY <1>1, <1>2, <1>3

(* The mailboxes of a form stay mailboxes.                                 *)
LEMMA BoxEdits ==
  ASSUME NEW f, IsConfig(f)
  PROVE  /\ AreMailboxes(f.mailboxes)
         /\ \A i \in DOMAIN f.mailboxes : \A j :
              AreMailboxes(RenameKey(f.mailboxes, i, j))
         /\ \A i : AreMailboxes(WithoutKey(f.mailboxes, i))
         /\ \A i, p, u : AreMailboxes(
              SetKey(f.mailboxes, i, [password |-> p, uses |-> u]))
<1> DEFINE Box(m) == m = [password |-> m.password, uses |-> m.uses]
<1>1. \A i \in DOMAIN f.mailboxes : Box(f.mailboxes[i])
  BY DEF IsConfig
<1>2. \A p, u : Box([password |-> p, uses |-> u])
  OBVIOUS
<1>3. \A M : AreMailboxes(M) <=> \A i \in DOMAIN M : Box(M[i])
  BY DEF AreMailboxes
<1> HIDE DEF Box
<1>4. ASSUME NEW i \in DOMAIN f.mailboxes, NEW j
      PROVE  AreMailboxes(RenameKey(f.mailboxes, i, j))
  <2> DEFINE e == WithoutKey(f.mailboxes, i)
             M == RenameKey(f.mailboxes, i, j)
  <2>1. DOMAIN e = DOMAIN f.mailboxes \ {i}
        /\ \A x \in DOMAIN e : e[x] = f.mailboxes[x]
    BY DEF WithoutKey
  <2>2. M = SetKey(e, j, f.mailboxes[i])
    BY DEF RenameKey
  <2> HIDE DEF e, M
  <2>3. \A k \in DOMAIN M : Box(M[k])
    BY <1>1, <2>1, <2>2 DEF SetKey
  <2>4. AreMailboxes(M)
    BY <1>3, <2>3
  <2> QED
    BY <2>4 DEF M
<1>5. ASSUME NEW i
      PROVE  AreMailboxes(WithoutKey(f.mailboxes, i))
  <2>1. \A k \in DOMAIN WithoutKey(f.mailboxes, i) :
          Box(WithoutKey(f.mailboxes, i)[k])
    BY <1>1 DEF WithoutKey
  <2> QED
    BY <1>3, <2>1
<1>6. ASSUME NEW i, NEW p, NEW u
      PROVE  AreMailboxes(
               SetKey(f.mailboxes, i, [password |-> p, uses |-> u]))
  <2> DEFINE m == [password |-> p, uses |-> u]
             M == SetKey(f.mailboxes, i, m)
  <2>1. Box(m)
    BY <1>2
  <2> HIDE DEF m
  <2>2. \A k \in DOMAIN M : Box(M[k])
    BY <1>1, <2>1 DEF SetKey
  <2> HIDE DEF M
  <2>3. AreMailboxes(M)
    BY <1>3, <2>2
  <2> QED
    BY <2>3 DEF M, m
<1>7. AreMailboxes(f.mailboxes)
  BY <1>1, <1>3
<1> QED
  BY <1>4, <1>5, <1>6, <1>7

(* EditForm shows one of these.                                            *)
LEMMA EditsAreEdits ==
  ASSUME NEW o \in Operators, EditForm(o), IsConfig(form[o])
  PROVE  \E kind \in EditKinds : \E g :
           Show(o, kind, g) /\ Edit(form[o], base[o], g)
<1> DEFINE f == form[o]
           b == base[o]
<1>1. CASE Show(o, "database", [f EXCEPT !.db = Typed])
  BY <1>1 DEF Edit, EditKinds
<1>2. CASE EditServers(o)
  <2>1. \E g : Show(o, "server", g) /\ Edit(f, b, g)
    BY <1>2 DEF EditServers, Edit
  <2> QED
    BY <2>1 DEF EditKinds
<1>3. CASE EditVariables(o)
  <2>1. \E n \in DOMAIN f.servers : \E e :
          /\ Within(e, f.servers[n].env)
          /\ Show(o, "variable", [f EXCEPT !.servers[n].env = e])
    <3> DEFINE Env(n, e) ==
                 Show(o, "variable", [f EXCEPT !.servers[n].env = e])
    <3>1. PICK n \in DOMAIN f.servers :
            \/ \E k \in Variables, v \in {Typed, Empty} :
                 Env(n, SetKey(f.servers[n].env, k, v))
            \/ \E k \in DOMAIN f.servers[n].env, j \in Variables :
                 Env(n, RenameKey(f.servers[n].env, k, j))
            \/ \E k \in DOMAIN f.servers[n].env :
                 Env(n, WithoutKey(f.servers[n].env, k))
      BY <1>3 DEF EditVariables
    <3> HIDE DEF Env
    <3>2. \E e : Within(e, f.servers[n].env) /\ Env(n, e)
      BY <3>1, EnvEdits
    <3> QED
      BY <3>2 DEF Env
  <2>2. \A n \in DOMAIN f.servers : \A e :
          Within(e, f.servers[n].env) =>
            Edit(f, b, [f EXCEPT !.servers[n].env = e])
    BY DEF Edit
  <2> QED
    BY <2>1, <2>2 DEF EditKinds
<1>4. CASE EditMailboxes(o)
  <2>1. \E M : /\ AreMailboxes(M)
               /\ Show(o, "mailbox", [f EXCEPT !.mailboxes = M])
    <3> DEFINE Boxes(M) == Show(o, "mailbox", [f EXCEPT !.mailboxes = M])
    <3>1. \/ \E i \in DOMAIN f.mailboxes : \E j :
               Boxes(RenameKey(f.mailboxes, i, j))
          \/ \E i : Boxes(WithoutKey(f.mailboxes, i))
          \/ \E i, p, u :
               Boxes(SetKey(f.mailboxes, i, [password |-> p, uses |-> u]))
      BY <1>4 DEF EditMailboxes
    <3> HIDE DEF Boxes
    <3>2. \E M : AreMailboxes(M) /\ Boxes(M)
      BY <3>1, BoxEdits
    <3> QED
      BY <3>2 DEF Boxes
  <2>2. \A M : AreMailboxes(M) => Edit(f, b, [f EXCEPT !.mailboxes = M])
    BY DEF Edit
  <2> QED
    BY <2>1, <2>2 DEF EditKinds
<1> QED
  BY <1>1, <1>2, <1>3, <1>4 DEF EditForm

(* A form with other servers and mailboxes still shows its base, if each   *)
(* server is one the form had or one nobody knows.                         *)
LEMMA OtherServers ==
  ASSUME NEW b, NEW f, MadeFrom(f, b), NEW S, NEW M, IsFiniteSet(DOMAIN S),
         \A n \in DOMAIN S : S[n] = [home |-> S[n].home, env |-> S[n].env],
         \A n, m \in DOMAIN S : S[n].home = S[m].home => n = m,
         \A n \in DOMAIN S :
           \/ DOMAIN S[n].env = {}
           \/ \E m \in DOMAIN f.servers :
                /\ S[n].home = f.servers[m].home
                /\ Within(S[n].env, f.servers[m].env),
         AreMailboxes(M), NEW d
  PROVE  MadeFrom([db |-> d, servers |-> S, mailboxes |-> M], b)
<1> DEFINE g == [db |-> d, servers |-> S, mailboxes |-> M]
<1>1. /\ g.db = d /\ g.servers = S /\ g.mailboxes = M
      /\ g = [db |-> g.db, servers |-> g.servers, mailboxes |-> g.mailboxes]
  OBVIOUS
<1> HIDE DEF g
<1>2. IsConfig(g)
  BY <1>1 DEF IsConfig, AreMailboxes
<1>3. AtHome(b) => AtHome(g)
  <2>1. SUFFICES ASSUME AtHome(b), NEW n \in DOMAIN S,
                        NEW k \in DOMAIN S[n].env
                 PROVE  S[n].env[k] \in
                          {S[n].home, Typed, Placeholder, Empty}
    BY <1>1 DEF AtHome
  <2>2. PICK m \in DOMAIN f.servers :
          /\ S[n].home = f.servers[m].home
          /\ Within(S[n].env, f.servers[m].env)
    OBVIOUS
  <2>3. \A j \in DOMAIN f.servers[m].env :
          f.servers[m].env[j] \in
            {f.servers[m].home, Typed, Placeholder, Empty}
    BY <2>1 DEF MadeFrom, AtHome
  <2> QED
    BY <2>2, <2>3 DEF Within
<1>4. ASSUME NEW n \in DOMAIN S, Hiding(S[n]) # {}
      PROVE  \E m \in DOMAIN b.servers : S[n].home = b.servers[m].home
  <2>1. PICK k \in DOMAIN S[n].env : S[n].env[k] = Placeholder
    BY <1>4 DEF Hiding
  <2>2. PICK m \in DOMAIN f.servers :
          /\ S[n].home = f.servers[m].home
          /\ Within(S[n].env, f.servers[m].env)
    BY <2>1
  <2>3. \E j \in DOMAIN f.servers[m].env : f.servers[m].env[j] = Placeholder
    <3> DEFINE old == f.servers[m].env
    <3>1. S[n].env[k] \in {Typed, Empty} \cup {old[j] : j \in DOMAIN old}
      BY <2>1, <2>2 DEF Within
    <3>2. Typed # Placeholder /\ Placeholder # Empty
      BY SecretsAssumption, FirstAssumption
    <3> HIDE DEF old
    <3>3. \E j \in DOMAIN old : old[j] = Placeholder
      BY <2>1, <3>1, <3>2
    <3> QED
      BY <3>3 DEF old
  <2>4. Hiding(f.servers[m]) # {}
    BY <2>3 DEF Hiding
  <2> QED
    BY <2>2, <2>4 DEF MadeFrom
<1>5. MadeFrom(g, b)
  BY <1>1, <1>2, <1>3, <1>4 DEF MadeFrom
<1> QED
  BY <1>5 DEF g

(* Mailboxes that use other servers are mailboxes.                         *)
LEMMA OtherUses ==
  ASSUME NEW f, IsConfig(f), NEW M,
         DOMAIN M = DOMAIN f.mailboxes,
         \A i \in DOMAIN M :
           \E u : M[i] = [f.mailboxes[i] EXCEPT !.uses = u]
  PROVE  AreMailboxes(M)
<1> SUFFICES ASSUME NEW i \in DOMAIN M
             PROVE  M[i] = [password |-> M[i].password, uses |-> M[i].uses]
  BY DEF AreMailboxes
<1> DEFINE x == f.mailboxes[i].password
<1>1. PICK y : M[i] = [f.mailboxes[i] EXCEPT !.uses = y]
  OBVIOUS
<1>2. M[i] = [password |-> x, uses |-> y]
  BY <1>1, MailboxUses
<1> HIDE DEF x
<1> QED
  BY <1>2

(* renameMcpServer: the form keeps its servers, one of them with another   *)
(* name.                                                                   *)
LEMMA RenamedIsMade ==
  ASSUME NEW b, NEW f, MadeFrom(f, b), NEW n \in DOMAIN f.servers,
         NEW m, m \notin DOMAIN f.servers
  PROVE  MadeFrom(RenameServer(f, n, m), b)
<1> DEFINE U == [i \in DOMAIN f.mailboxes |->
                   IF n \in f.mailboxes[i].uses
                   THEN (f.mailboxes[i].uses \ {n}) \cup {m}
                   ELSE f.mailboxes[i].uses]
           S == RenameKey(f.servers, n, m)
           M == [i \in DOMAIN f.mailboxes |->
                   [f.mailboxes[i] EXCEPT !.uses = U[i]]]
<1>0. IsConfig(f)
  BY DEF MadeFrom
<1>1. RenameServer(f, n, m) = [f EXCEPT !.servers = S, !.mailboxes = M]
  <2>1. [i \in DOMAIN f.mailboxes |->
           [f.mailboxes[i] EXCEPT !.uses =
              IF n \in @ THEN (@ \ {n}) \cup {m} ELSE @]] = M
    OBVIOUS
  <2> QED
    BY <2>1 DEF RenameServer
<1>2. /\ DOMAIN S = (DOMAIN f.servers \ {n}) \cup {m}
      /\ S[m] = f.servers[n]
      /\ \A k \in DOMAIN f.servers \ {n} : S[k] = f.servers[k]
  <2> DEFINE e == WithoutKey(f.servers, n)
  <2>1. /\ DOMAIN e = DOMAIN f.servers \ {n}
        /\ \A x \in DOMAIN e : e[x] = f.servers[x]
    BY DEF WithoutKey
  <2>2. S = SetKey(e, m, f.servers[n])
    BY DEF RenameKey
  <2> HIDE DEF e, S
  <2> QED
    BY <2>1, <2>2 DEF SetKey
<1>3. AreMailboxes(M)
  <2> HIDE DEF U
  <2>1. DOMAIN M = DOMAIN f.mailboxes
    OBVIOUS
  <2>2. \A i \in DOMAIN M :
          \E u : M[i] = [f.mailboxes[i] EXCEPT !.uses = u]
    OBVIOUS
  <2> HIDE DEF M
  <2> QED
    BY <1>0, <2>1, <2>2, OtherUses
<1> HIDE DEF S, M
<1>4. IsFiniteSet(DOMAIN S)
  <2>1. IsFiniteSet(DOMAIN f.servers)
    BY <1>0 DEF IsConfig
  <2>2. IsFiniteSet(DOMAIN f.servers \ {n})
    BY <2>1, FS_RemoveElement
  <2> QED
    BY <1>2, <2>2, FS_AddElement
<1>5. RenameServer(f, n, m) = [db |-> f.db, servers |-> S, mailboxes |-> M]
  BY <1>0, <1>1, TwoParts
<1>6. /\ \A k \in DOMAIN S : S[k] = [home |-> S[k].home, env |-> S[k].env]
      /\ \A k, j \in DOMAIN S : S[k].home = S[j].home => k = j
  BY <1>0, <1>2 DEF IsConfig
<1>7. \A k \in DOMAIN S : \E j \in DOMAIN f.servers :
        S[k].home = f.servers[j].home /\ Within(S[k].env, f.servers[j].env)
  BY <1>2 DEF Within
<1>8. MadeFrom([db |-> f.db, servers |-> S, mailboxes |-> M], b)
  BY <1>3, <1>4, <1>6, <1>7, OtherServers
<1> QED
  BY <1>5, <1>8

(* removeMcpServer: the form keeps all its servers but one.                *)
LEMMA RemovedIsMade ==
  ASSUME NEW b, NEW f, MadeFrom(f, b), NEW n
  PROVE  MadeFrom(RemoveServer(f, n), b)
<1> DEFINE U == [i \in DOMAIN f.mailboxes |-> f.mailboxes[i].uses \ {n}]
           S == WithoutKey(f.servers, n)
           M == [i \in DOMAIN f.mailboxes |->
                   [f.mailboxes[i] EXCEPT !.uses = U[i]]]
<1>0. IsConfig(f)
  BY DEF MadeFrom
<1>1. RemoveServer(f, n) = [f EXCEPT !.servers = S, !.mailboxes = M]
  <2>1. [i \in DOMAIN f.mailboxes |->
           [f.mailboxes[i] EXCEPT !.uses = @ \ {n}]] = M
    OBVIOUS
  <2> QED
    BY <2>1 DEF RemoveServer
<1>2. /\ DOMAIN S = DOMAIN f.servers \ {n}
      /\ \A k \in DOMAIN f.servers \ {n} : S[k] = f.servers[k]
  BY DEF WithoutKey
<1>3. AreMailboxes(M)
  <2> HIDE DEF U
  <2>1. DOMAIN M = DOMAIN f.mailboxes
    OBVIOUS
  <2>2. \A i \in DOMAIN M :
          \E u : M[i] = [f.mailboxes[i] EXCEPT !.uses = u]
    OBVIOUS
  <2> HIDE DEF M
  <2> QED
    BY <1>0, <2>1, <2>2, OtherUses
<1> HIDE DEF S, M
<1>4. IsFiniteSet(DOMAIN S)
  BY <1>0, <1>2, FS_RemoveElement DEF IsConfig
<1>5. RemoveServer(f, n) = [db |-> f.db, servers |-> S, mailboxes |-> M]
  BY <1>0, <1>1, TwoParts
<1>6. /\ \A k \in DOMAIN S : S[k] = [home |-> S[k].home, env |-> S[k].env]
      /\ \A k, j \in DOMAIN S : S[k].home = S[j].home => k = j
  BY <1>0, <1>2 DEF IsConfig
<1>7. \A k \in DOMAIN S : \E j \in DOMAIN f.servers :
        S[k].home = f.servers[j].home /\ Within(S[k].env, f.servers[j].env)
  BY <1>2 DEF Within
<1>8. MadeFrom([db |-> f.db, servers |-> S, mailboxes |-> M], b)
  BY <1>3, <1>4, <1>6, <1>7, OtherServers
<1> QED
  BY <1>5, <1>8

(* addMcpServer: the new server shows nothing.                             *)
LEMMA AddedIsMade ==
  ASSUME NEW b, NEW f, MadeFrom(f, b), NEW m, m \notin DOMAIN f.servers,
         NEW h, h \notin HomesOf(f)
  PROVE  MadeFrom(AddServer(f, m, h), b)
<1> DEFINE s == [home |-> h, env |-> <<>>]
           S == SetKey(f.servers, m, s)
<1>0. IsConfig(f)
  BY DEF MadeFrom
<1>1. s.home = h /\ DOMAIN s.env = {} /\ s = [home |-> s.home, env |-> s.env]
  OBVIOUS
<1> HIDE DEF s
<1>2. /\ DOMAIN S = DOMAIN f.servers \cup {m} /\ S[m] = s
      /\ \A k \in DOMAIN f.servers : S[k] = f.servers[k]
  BY DEF SetKey
<1>3. AddServer(f, m, h) =
        [db |-> f.db, servers |-> S, mailboxes |-> f.mailboxes]
  <2>1. AddServer(f, m, h) = [f EXCEPT !.servers = S]
    BY DEF AddServer, s
  <2> HIDE DEF S
  <2> QED
    BY <1>0, <2>1, Parts
<1> HIDE DEF S
<1>4. IsFiniteSet(DOMAIN S)
  BY <1>0, <1>2, FS_AddElement DEF IsConfig
<1>5. \A k \in DOMAIN f.servers : f.servers[k].home # h
  BY DEF HomesOf
<1>6. /\ \A k \in DOMAIN S : S[k] = [home |-> S[k].home, env |-> S[k].env]
      /\ \A k, j \in DOMAIN S : S[k].home = S[j].home => k = j
  BY <1>0, <1>1, <1>2, <1>5 DEF IsConfig
<1>7. \A k \in DOMAIN S :
        \/ DOMAIN S[k].env = {}
        \/ \E j \in DOMAIN f.servers :
             /\ S[k].home = f.servers[j].home
             /\ Within(S[k].env, f.servers[j].env)
  BY <1>1, <1>2 DEF Within
<1>8. AreMailboxes(f.mailboxes)
  BY <1>0, BoxEdits
<1>9. MadeFrom([db |-> f.db, servers |-> S, mailboxes |-> f.mailboxes], b)
  BY <1>4, <1>6, <1>7, <1>8, OtherServers
<1> QED
  BY <1>3, <1>9

(* The environment editor: a server keeps its name, and gets nothing from  *)
(* another.                                                                *)
LEMMA RekeyedIsMade ==
  ASSUME NEW b, NEW f, MadeFrom(f, b), NEW n \in DOMAIN f.servers, NEW e,
         Within(e, f.servers[n].env)
  PROVE  MadeFrom([f EXCEPT !.servers[n].env = e], b)
<1> DEFINE s == [f.servers[n] EXCEPT !.env = e]
           S == [f.servers EXCEPT ![n] = s]
           g == [f EXCEPT !.servers[n].env = e]
<1>0. IsConfig(f)
  BY DEF MadeFrom
<1>1. s = [home |-> f.servers[n].home, env |-> e]
  BY <1>0, ServerParts
<1>2. g = [f EXCEPT !.servers = S]
  OBVIOUS
<1> HIDE DEF s
<1>3. /\ DOMAIN S = DOMAIN f.servers
      /\ S[n] = s /\ \A k \in DOMAIN f.servers \ {n} : S[k] = f.servers[k]
  BY <1>0 DEF IsConfig
<1> HIDE DEF S, g
<1>4. g = [db |-> f.db, servers |-> S, mailboxes |-> f.mailboxes]
  BY <1>0, <1>2, Parts
<1>5. /\ IsFiniteSet(DOMAIN S)
      /\ \A k \in DOMAIN S :
           /\ S[k] = [home |-> S[k].home, env |-> S[k].env]
           /\ S[k].home = f.servers[k].home
           /\ Within(S[k].env, f.servers[k].env)
  <2>1. s.home = f.servers[n].home /\ s.env = e
        /\ s = [home |-> s.home, env |-> s.env]
    BY <1>1
  <2> QED
    BY <1>0, <1>3, <2>1 DEF IsConfig, Within
<1>6. \A k, j \in DOMAIN S : S[k].home = S[j].home => k = j
  BY <1>0, <1>3, <1>5 DEF IsConfig
<1>7. AreMailboxes(f.mailboxes)
  BY <1>0, BoxEdits
<1>8. MadeFrom([db |-> f.db, servers |-> S, mailboxes |-> f.mailboxes], b)
  BY <1>3, <1>5, <1>6, <1>7, OtherServers
<1> QED
  BY <1>4, <1>8 DEF g

(* A form with another password, or with other mailboxes.                  *)
LEMMA OtherBoxes ==
  ASSUME NEW b, NEW f, MadeFrom(f, b), NEW d, NEW M,
         AreMailboxes(M)
  PROVE  MadeFrom([db |-> d, servers |-> f.servers, mailboxes |-> M], b)
<1> DEFINE S == f.servers
<1>0. IsConfig(f)
  BY DEF MadeFrom
<1>1. /\ IsFiniteSet(DOMAIN S)
      /\ \A k \in DOMAIN S :
           S[k] = [home |-> S[k].home, env |-> S[k].env]
      /\ \A k, j \in DOMAIN S : S[k].home = S[j].home => k = j
      /\ \A k \in DOMAIN S : \E j \in DOMAIN f.servers :
           S[k].home = f.servers[j].home /\ Within(S[k].env, f.servers[j].env)
  BY <1>0 DEF IsConfig, Within
<1> HIDE DEF S
<1>2. MadeFrom([db |-> d, servers |-> S, mailboxes |-> M], b)
  BY <1>1, OtherServers
<1> QED
  BY <1>2 DEF S

(* An edited form still shows its base.                                    *)
LEMMA EditedIsMade ==
  ASSUME NEW b, NEW f, MadeFrom(f, b), NEW g, Edit(f, b, g)
  PROVE  MadeFrom(g, b)
<1>0. IsConfig(f)
  BY DEF MadeFrom
<1>1. CASE g = [f EXCEPT !.db = Typed]
  <2>1. g = [db |-> Typed, servers |-> f.servers, mailboxes |-> f.mailboxes]
    BY <1>0, <1>1, Parts
  <2>2. AreMailboxes(f.mailboxes)
    BY <1>0, BoxEdits
  <2> QED
    BY <2>1, <2>2, OtherBoxes
<1>2. ASSUME NEW M, g = [f EXCEPT !.mailboxes = M], AreMailboxes(M)
      PROVE  MadeFrom(g, b)
  <2>1. g = [db |-> f.db, servers |-> f.servers, mailboxes |-> M]
    BY <1>0, <1>2, Parts
  <2>2. MadeFrom([db |-> f.db, servers |-> f.servers, mailboxes |-> M], b)
    BY <1>2, OtherBoxes
  <2> QED
    BY <2>1, <2>2
<1>3. ASSUME NEW n \in DOMAIN f.servers, NEW e, Within(e, f.servers[n].env),
             g = [f EXCEPT !.servers[n].env = e]
      PROVE  MadeFrom(g, b)
  BY <1>3, RekeyedIsMade
<1>4. ASSUME \/ \E n \in DOMAIN f.servers, m \in Names \ DOMAIN f.servers :
                  g = RenameServer(f, n, m)
             \/ \E n \in DOMAIN f.servers : g = RemoveServer(f, n)
             \/ \E m \in Names \ DOMAIN f.servers,
                   h \in Homes \ (HomesOf(f) \cup HomesOf(b)) :
                  g = AddServer(f, m, h)
      PROVE  MadeFrom(g, b)
  BY <1>4, RenamedIsMade, RemovedIsMade, AddedIsMade
<1> QED
  BY <1>1, <1>2, <1>3, <1>4 DEF Edit

(* Where no name was given to another server, a server with a placeholder  *)
(* keeps its name, or it has a new one and the name it had is gone.        *)
LEMMA OriginFound ==
  ASSUME NEW b, IsConfig(b), NEW f, MadeFrom(f, b), ~Renamed(f, b),
         NEW n \in DOMAIN f.servers \ DOMAIN b.servers,
         Hiding(f.servers[n]) # {}
  PROVE  \E m \in Removed(f, b) :
           f.servers[n].home = b.servers[m].home /\ <<n, m>> \in Made(f, b)
<1>1. PICK m \in DOMAIN b.servers : f.servers[n].home = b.servers[m].home
  BY DEF MadeFrom
<1>2. m \notin DOMAIN f.servers
  <2>1. SUFFICES ASSUME m \in DOMAIN f.servers PROVE FALSE
    OBVIOUS
  <2>2. f.servers[m].home = b.servers[m].home
    BY <2>1 DEF Renamed
  <2>3. n = m
    BY <1>1, <2>1, <2>2 DEF MadeFrom, IsConfig
  <2> QED
    BY <2>3
<1> QED
  BY <1>1, <1>2 DEF Removed, Made

(* The servers that show a placeholder their origin has no secret for.     *)
Rekeyings(f, b) ==
  {p \in Made(f, b) : Rekeyed(f.servers[p[1]], b.servers[p[2]])}

(* What keeps the guess of a save right.                                   *)
Settled(f, b) ==
  /\ ~Renamed(f, b)
  /\ ~\E p \in Rekeyings(f, b) :
        /\ p[1] \in Added(f, b) /\ p[2] \in Removed(f, b)
        /\ Cardinality(Removed(f, b)) > 1

(* A server that is not rekeyed may be what its origin became.             *)
LEMMA OriginIsCandidate ==
  ASSUME NEW b, NEW f, NEW n \in Added(f, b), NEW m \in Removed(f, b),
         Hiding(f.servers[n]) # {}, <<n, m>> \in Made(f, b),
         <<n, m>> \notin Rekeyings(f, b)
  PROVE  <<n, m>> \in Candidates(f, b)
<1>1. Hiding(f.servers[n]) \subseteq Sensitive \cap DOMAIN b.servers[m].env
  BY DEF Rekeyings, Rekeyed
<1>2. MayBeRenamed(f.servers[n], b.servers[m])
  BY <1>1 DEF MayBeRenamed
<1> QED
  BY <1>2 DEF Candidates

(* Not many are at most one.                                               *)
LEMMA NotMany ==
  ASSUME NEW D, IsFiniteSet(D), NEW S, S \subseteq D, ~(Cardinality(S) > 1),
         NEW x \in S, NEW y \in S
  PROVE  x = y
<1>1. IsFiniteSet(S) /\ Cardinality(S) \in Nat
  BY FS_Subset, FS_CardinalityType
<1>2. SUFFICES ASSUME x # y PROVE FALSE
  OBVIOUS
<1>3. IsFiniteSet({x, y}) /\ Cardinality({x, y}) = 2
  <2>1. IsFiniteSet({x}) /\ Cardinality({x}) = 1
    BY FS_Singleton
  <2>2. {x, y} = {x} \cup {y} /\ y \notin {x}
    BY <1>2
  <2>3. /\ IsFiniteSet({x} \cup {y})
        /\ Cardinality({x} \cup {y}) = Cardinality({x}) + 1
    BY <2>1, <2>2, FS_AddElement
  <2> QED
    BY <2>1, <2>2, <2>3
<1>4. Cardinality({x, y}) <= Cardinality(S)
  BY <1>1, FS_Subset
<1> QED
  BY <1>1, <1>3, <1>4

(* renamed_mcp_server_matches: a server is found under its own name, or it *)
(* is taken for the one it was.                                            *)
LEMMA SourceIsHome ==
  ASSUME NEW b, IsConfig(b), NEW f, MadeFrom(f, b), Settled(f, b),
         NEW n \in DOMAIN f.servers, Sources(f, b, n) # {}
  PROVE  \E m \in DOMAIN b.servers :
           /\ Sources(f, b, n) = {m}
           /\ f.servers[n].home = b.servers[m].home
           /\ <<n, m>> \in Made(f, b)
<1>1. CASE n \in DOMAIN b.servers
  <2>1. f.servers[n].home = b.servers[n].home
    BY <1>1 DEF Settled, Renamed
  <2> QED
    BY <1>1, <2>1 DEF Sources, Made
<1>2. CASE n \notin DOMAIN b.servers
  <2> DEFINE all == Candidates(f, b)
             mine == {q \in Renamings(f, b) : q[1] = n}
  <2>1. Sources(f, b, n) = {p[2] : p \in mine}
    BY <1>2 DEF Sources
  <2>2. PICK p \in Renamings(f, b) : p[1] = n
    BY <2>1
  <2>3. p \in all /\ \A q \in all : p[1] = q[1] \/ p[2] = q[2] => p = q
    BY <2>2 DEF Renamings
  <2>4. /\ p[2] \in Removed(f, b) /\ p = <<n, p[2]>> /\ n \in Added(f, b)
        /\ MayBeRenamed(f.servers[n], b.servers[p[2]])
    BY <2>2, <2>3 DEF Candidates
  <2>5. Sources(f, b, n) = {p[2]}
    <3>1. \A q \in mine : q = p
      BY <2>2, <2>3 DEF Renamings
    <3>2. p \in mine
      BY <2>2
    <3> HIDE DEF mine
    <3> QED
      BY <2>1, <3>1, <3>2
  <2>6. Hiding(f.servers[n]) # {}
    BY <2>4 DEF MayBeRenamed
  <2>7. PICK r \in Removed(f, b) :
          f.servers[n].home = b.servers[r].home /\ <<n, r>> \in Made(f, b)
    BY <1>2, <2>6, OriginFound DEF Settled
  <2>8. r = p[2]
    <3>1. SUFFICES ASSUME r # p[2] PROVE FALSE
      OBVIOUS
    <3>2. <<n, r>> \in Rekeyings(f, b)
      <4>1. SUFFICES ASSUME <<n, r>> \notin Rekeyings(f, b) PROVE FALSE
        OBVIOUS
      <4>2. <<n, r>> \in all
        BY <2>4, <2>6, <2>7, <4>1, OriginIsCandidate
      <4> QED
        BY <2>3, <2>4, <3>1, <4>2
    <3>3. Cardinality(Removed(f, b)) > 1
      <4>1. /\ IsFiniteSet(DOMAIN b.servers)
            /\ Removed(f, b) \subseteq DOMAIN b.servers
        BY DEF IsConfig, Removed
      <4> QED
        BY <2>4, <2>7, <3>1, <4>1, NotMany
    <3> QED
      BY <2>4, <2>7, <3>2, <3>3 DEF Settled
  <2> QED
    BY <2>5, <2>7, <2>8 DEF Removed
<1> QED
  BY <1>1, <1>2

(* What a save stores of a server.                                         *)
LEMMA RestoredServer ==
  ASSUME NEW b, NEW f, IsConfig(f), NEW n \in DOMAIN f.servers
  PROVE  /\ PreservedServer(f, b, n) =
              [home |-> f.servers[n].home,
               env |-> PreservedServer(f, b, n).env]
         /\ Sources(f, b, n) = {} =>
              PreservedServer(f, b, n) = f.servers[n]
         /\ \A m : Sources(f, b, n) = {m} =>
              PreservedServer(f, b, n).env =
                KeepEnv(f.servers[n].env, b.servers[m].env)
<1> DEFINE from == Sources(f, b, n)
           old == b.servers[CHOOSE m \in from : TRUE]
           e == KeepEnv(f.servers[n].env, old.env)
<1>1. f.servers[n] = [home |-> f.servers[n].home, env |-> f.servers[n].env]
  BY DEF IsConfig
<1>2. CASE from = {}
  BY <1>1, <1>2 DEF PreservedServer
<1>3. CASE from # {}
  <2>1. PreservedServer(f, b, n) = [f.servers[n] EXCEPT !.env = e]
    BY <1>3 DEF PreservedServer
  <2>2. PreservedServer(f, b, n) = [home |-> f.servers[n].home, env |-> e]
    <3> HIDE DEF e
    <3> QED
      BY <2>1, ServerParts
  <2>3. \A m : from = {m} => old = b.servers[m]
    OBVIOUS
  <2>4. PreservedServer(f, b, n).env = e
    <3> HIDE DEF e
    <3> QED
      BY <2>2
  <2>5. \A m : from = {m} => e = KeepEnv(f.servers[n].env, b.servers[m].env)
    BY <2>3
  <2> HIDE DEF e
  <2> QED
    BY <1>3, <2>2, <2>4, <2>5
<1> QED
  BY <1>2, <1>3

(* What a save stores.                                                     *)
LEMMA PreservedParts ==
  ASSUME NEW b, NEW f, IsConfig(f)
  PROVE  Preserved(f, b) =
           [db |-> Keep(f.db, b.db),
            servers |-> [n \in DOMAIN f.servers |-> PreservedServer(f, b, n)],
            mailboxes |-> [i \in DOMAIN f.mailboxes |->
                             PreservedMailbox(f, b, i)]]
<1> DEFINE S == [n \in DOMAIN f.servers |-> PreservedServer(f, b, n)]
           M == [i \in DOMAIN f.mailboxes |-> PreservedMailbox(f, b, i)]
           d == Keep(f.db, b.db)
<1>1. Preserved(f, b) = With(f, d, S, M)
  BY DEF Preserved, With
<1> HIDE DEF S, M, d
<1>2. Preserved(f, b) = [db |-> d, servers |-> S, mailboxes |-> M]
  BY <1>1, ThreeParts
<1> QED
  BY <1>2 DEF S, M, d

(* The password a save stores of a mailbox.                                *)
LEMMA RestoredMailbox ==
  ASSUME NEW b, NEW f, IsConfig(f), NEW i \in DOMAIN f.mailboxes
  PROVE  /\ PreservedMailbox(f, b, i) =
              [password |-> PreservedMailbox(f, b, i).password,
               uses |-> f.mailboxes[i].uses]
         /\ i \in DOMAIN b.mailboxes =>
              PreservedMailbox(f, b, i).password =
                Keep(f.mailboxes[i].password, b.mailboxes[i].password)
<1> DEFINE m == f.mailboxes[i]
           x == Keep(m.password, b.mailboxes[i].password)
<1>1. m = [password |-> m.password, uses |-> m.uses]
  BY DEF IsConfig
<1>2. CASE i \notin DOMAIN b.mailboxes
  <2>1. PreservedMailbox(f, b, i) = m
    BY <1>2 DEF PreservedMailbox
  <2> QED
    BY <1>1, <1>2, <2>1
<1>3. CASE i \in DOMAIN b.mailboxes
  <2>1. PreservedMailbox(f, b, i) = [m EXCEPT !.password = x]
    BY <1>3 DEF PreservedMailbox
  <2> HIDE DEF x
  <2>2. PreservedMailbox(f, b, i) = [password |-> x, uses |-> m.uses]
    BY <2>1, MailboxPassword
  <2>3. PreservedMailbox(f, b, i).password = x
    BY <2>2
  <2> QED
    BY <2>2, <2>3 DEF x
<1> QED
  BY <1>2, <1>3

(* A save stores a configuration, with the servers of the form.            *)
LEMMA PreservedIsConfig ==
  ASSUME NEW b, NEW f, IsConfig(f)
  PROVE  IsConfig(Preserved(f, b))
<1> DEFINE S == [n \in DOMAIN f.servers |-> PreservedServer(f, b, n)]
           M == [i \in DOMAIN f.mailboxes |-> PreservedMailbox(f, b, i)]
           d == Keep(f.db, b.db)
           c == Preserved(f, b)
<1>1. c = [db |-> d, servers |-> S, mailboxes |-> M]
  BY PreservedParts
<1>2. \A n \in DOMAIN f.servers :
        S[n] = [home |-> f.servers[n].home, env |-> S[n].env]
  BY RestoredServer
<1>3. \A i \in DOMAIN f.mailboxes :
        M[i] = [password |-> M[i].password, uses |-> f.mailboxes[i].uses]
  <2> TAKE i \in DOMAIN f.mailboxes
  <2>1. M[i] = PreservedMailbox(f, b, i)
    OBVIOUS
  <2> HIDE DEF M
  <2> QED
    BY <2>1, RestoredMailbox
<1>4. DOMAIN S = DOMAIN f.servers /\ DOMAIN M = DOMAIN f.mailboxes
  OBVIOUS
<1> HIDE DEF S, M, d, c
<1>5. \A n \in DOMAIN S :
        /\ S[n].home = f.servers[n].home
        /\ S[n] = [home |-> S[n].home, env |-> S[n].env]
  <2> TAKE n \in DOMAIN S
  <2> DEFINE h == f.servers[n].home
             e == S[n].env
  <2>1. S[n] = [home |-> h, env |-> e]
    BY <1>2, <1>4
  <2> HIDE DEF h, e
  <2>2. S[n].home = h
    BY <2>1
  <2> QED
    BY <2>1, <2>2 DEF h, e
<1>6. \A i \in DOMAIN M :
        M[i] = [password |-> M[i].password, uses |-> M[i].uses]
  <2> TAKE i \in DOMAIN M
  <2> DEFINE u == f.mailboxes[i].uses
             x == M[i].password
  <2>1. M[i] = [password |-> x, uses |-> u]
    BY <1>3, <1>4
  <2> HIDE DEF u, x
  <2>2. M[i].uses = u
    BY <2>1
  <2> QED
    BY <2>1, <2>2 DEF u, x
<1> QED
  BY <1>1, <1>4, <1>5, <1>6 DEF IsConfig, c

(* preserve_redacted_secrets: where no name was given to another server    *)
(* and none was made to look like another, no server gets the secret of    *)
(* another, whatever else was added, renamed or removed.                   *)
LEMMA PreservedAtHome ==
  ASSUME NEW b, IsConfig(b), AtHome(b), NEW f, MadeFrom(f, b), Settled(f, b)
  PROVE  AtHome(Preserved(f, b))
<1> DEFINE S == [n \in DOMAIN f.servers |-> PreservedServer(f, b, n)]
           c == Preserved(f, b)
<1>0. IsConfig(f) /\ AtHome(f)
  BY DEF MadeFrom
<1>1. c.servers = S
  BY <1>0, PreservedParts
<1>2. ASSUME NEW n \in DOMAIN S, NEW k \in DOMAIN S[n].env
      PROVE  S[n].env[k] \in {S[n].home, Typed, Placeholder, Empty}
  <2>0. n \in DOMAIN f.servers /\ IsConfig(f)
    BY <1>0
  <2>1. S[n] = PreservedServer(f, b, n)
    OBVIOUS
  <2>2. S[n].home = f.servers[n].home
    <3> DEFINE h == f.servers[n].home
               e == PreservedServer(f, b, n).env
    <3>1. PreservedServer(f, b, n) = [home |-> h, env |-> e]
      BY <2>0, RestoredServer
    <3> HIDE DEF h, e, S
    <3>2. S[n].home = h
      BY <2>1, <3>1
    <3> QED
      BY <3>2 DEF h
  <2>3. CASE Sources(f, b, n) = {}
    <3>0. PreservedServer(f, b, n) = f.servers[n]
      BY <2>0, <2>3, RestoredServer
    <3>1. S[n] = f.servers[n]
      BY <2>1, <3>0
    <3> HIDE DEF S
    <3> QED
      BY <1>0, <1>2, <2>0, <3>1 DEF AtHome
  <2>4. CASE Sources(f, b, n) # {}
    <3> HIDE DEF S, c
    <3>1. PICK m \in DOMAIN b.servers :
            /\ Sources(f, b, n) = {m}
            /\ f.servers[n].home = b.servers[m].home
            /\ <<n, m>> \in Made(f, b)
      <4>1. \E m \in DOMAIN b.servers :
              /\ Sources(f, b, n) = {m}
              /\ f.servers[n].home = b.servers[m].home
              /\ <<n, m>> \in Made(f, b)
        BY <2>0, <2>4, SourceIsHome
      <4> QED
        BY <4>1
    <3>2. S[n].env = KeepEnv(f.servers[n].env, b.servers[m].env)
      <4>1. Sources(f, b, n) = {m}
        BY <3>1
      <4>2. PreservedServer(f, b, n).env =
              KeepEnv(f.servers[n].env, b.servers[m].env)
        BY <2>0, <4>1, RestoredServer
      <4> QED
        BY <2>1, <4>2
    <3>3. k \in DOMAIN f.servers[n].env
      BY <1>2, <3>2 DEF KeepEnv
    <3>4. f.servers[n].env[k] \in
            {f.servers[n].home, Typed, Placeholder, Empty}
      BY <1>0, <2>0, <3>3 DEF AtHome
    <3>5. k \in DOMAIN b.servers[m].env =>
            b.servers[m].env[k] \in
              {b.servers[m].home, Typed, Placeholder, Empty}
      BY DEF AtHome
    <3> QED
      BY <2>2, <3>1, <3>2, <3>3, <3>4, <3>5 DEF KeepEnv, Keep
  <2> QED
    BY <2>3, <2>4
<1> QED
  BY <1>1, <1>2 DEF AtHome

(* What a save leaves out of order, when a form was in order.              *)
Orderly(f, b) ==
  /\ ~Renamed(f, b)
  /\ Rekeyings(f, b) = {}
  /\ ~(Cardinality(Guessed(f, b)) > 1)
  /\ Guessed(f, b) # {} => ~(Cardinality(Removed(f, b)) > 1)
  /\ \A i \in DOMAIN f.mailboxes \ DOMAIN b.mailboxes :
       f.mailboxes[i].password # Placeholder

(* One server with a new name and one that is gone are found to be the     *)
(* same, if there is anything to fill in.                                  *)
LEMMA OneRenaming ==
  ASSUME NEW b, IsConfig(b), NEW f, MadeFrom(f, b), Orderly(f, b),
         NEW n \in DOMAIN f.servers, Sources(f, b, n) = {}
  PROVE  Hiding(f.servers[n]) = {}
<1>1. SUFFICES ASSUME Hiding(f.servers[n]) # {} PROVE FALSE
  OBVIOUS
<1>2. n \notin DOMAIN b.servers /\ n \in Guessed(f, b) /\ n \in Added(f, b)
  BY <1>1 DEF Sources, Guessed, Added
<1>3. PICK m \in Removed(f, b) : <<n, m>> \in Made(f, b)
  BY <1>1, <1>2, OriginFound DEF Orderly
<1>4. <<n, m>> \in Candidates(f, b)
  BY <1>1, <1>2, <1>3, OriginIsCandidate DEF Orderly
<1>5. /\ \A x \in Guessed(f, b) : x = n
      /\ \A x \in Removed(f, b) : x = m
  <2>1. /\ IsFiniteSet(DOMAIN f.servers) /\ IsFiniteSet(DOMAIN b.servers)
        /\ Guessed(f, b) \subseteq DOMAIN f.servers
        /\ Removed(f, b) \subseteq DOMAIN b.servers
    BY DEF MadeFrom, IsConfig, Added, Removed, Guessed
  <2>2. \A x \in Guessed(f, b) : x = n
    BY <1>2, <2>1, NotMany DEF Orderly
  <2>3. \A x \in Removed(f, b) : x = m
    BY <1>2, <2>1, NotMany DEF Orderly
  <2> QED
    BY <2>2, <2>3
<1>6. \A q \in Candidates(f, b) : q = <<n, m>>
  BY <1>5 DEF Candidates, MayBeRenamed, Guessed
<1>7. <<n, m>> \in Renamings(f, b)
  BY <1>4, <1>6 DEF Renamings
<1>8. Sources(f, b, n) = {p[2] : p \in {q \in Renamings(f, b) : q[1] = n}}
  BY <1>2 DEF Sources
<1>9. m \in Sources(f, b, n)
  <2>1. <<n, m>> \in {q \in Renamings(f, b) : q[1] = n} /\ <<n, m>>[2] = m
    BY <1>7
  <2> QED
    BY <1>8, <2>1
<1> QED
  BY <1>9

(* preserve_redacted_secrets: a form in order is stored without            *)
(* placeholders.                                                           *)
LEMMA PreservedIsFilled ==
  ASSUME NEW b, IsConfig(b), Placeholder \notin Stored(b),
         NEW f, MadeFrom(f, b), Orderly(f, b)
  PROVE  Placeholder \notin Stored(Preserved(f, b))
<1> DEFINE S == [n \in DOMAIN f.servers |-> PreservedServer(f, b, n)]
           M == [i \in DOMAIN f.mailboxes |-> PreservedMailbox(f, b, i)]
           c == Preserved(f, b)
<1>0. IsConfig(f)
  BY DEF MadeFrom
<1>1. c.servers = S /\ c.mailboxes = M /\ c.db = Keep(f.db, b.db)
  BY <1>0, PreservedParts
<1>2. c.db # Placeholder
  <2>1. b.db # Placeholder
    BY DEF Stored
  <2> QED
    BY <1>1, <2>1 DEF Keep
<1>3. ASSUME NEW i \in DOMAIN M
      PROVE  M[i].password # Placeholder
  <2>1. i \in DOMAIN f.mailboxes /\ M[i] = PreservedMailbox(f, b, i)
    OBVIOUS
  <2> HIDE DEF M
  <2>2. CASE i \in DOMAIN b.mailboxes
    <3>1. M[i].password =
            Keep(f.mailboxes[i].password, b.mailboxes[i].password)
      BY <1>0, <2>1, <2>2, RestoredMailbox
    <3>2. b.mailboxes[i].password # Placeholder
      BY <2>2 DEF Stored
    <3> QED
      BY <3>1, <3>2 DEF Keep
  <2>3. CASE i \notin DOMAIN b.mailboxes
    BY <2>1, <2>3 DEF PreservedMailbox, Orderly
  <2> QED
    BY <2>2, <2>3
<1>4. ASSUME NEW n \in DOMAIN S, NEW k \in DOMAIN S[n].env
      PROVE  S[n].env[k] # Placeholder
  <2>0. n \in DOMAIN f.servers
    OBVIOUS
  <2>1. S[n] = PreservedServer(f, b, n)
    OBVIOUS
  <2> HIDE DEF S, M, c
  <2>2. CASE Sources(f, b, n) = {}
    <3>0. PreservedServer(f, b, n) = f.servers[n]
      BY <2>2 DEF PreservedServer
    <3>1. S[n] = f.servers[n]
      BY <2>1, <3>0
    <3>2. Hiding(f.servers[n]) = {}
      BY <2>0, <2>2, OneRenaming
    <3> QED
      BY <1>4, <3>1, <3>2 DEF Hiding
  <2>3. CASE Sources(f, b, n) # {}
    <3>1. Settled(f, b)
      BY DEF Settled, Orderly
    <3>2. PICK m \in DOMAIN b.servers :
            /\ Sources(f, b, n) = {m}
            /\ f.servers[n].home = b.servers[m].home
            /\ <<n, m>> \in Made(f, b)
      <4>1. \E m \in DOMAIN b.servers :
              /\ Sources(f, b, n) = {m}
              /\ f.servers[n].home = b.servers[m].home
              /\ <<n, m>> \in Made(f, b)
        BY <2>0, <2>3, <3>1, SourceIsHome
      <4> QED
        BY <4>1
    <3>3. Hiding(f.servers[n]) \subseteq DOMAIN b.servers[m].env
      BY <3>2 DEF Orderly, Rekeyings, Rekeyed
    <3>4. S[n].env = KeepEnv(f.servers[n].env, b.servers[m].env)
      <4>1. Sources(f, b, n) = {m}
        BY <3>2
      <4>2. PreservedServer(f, b, n).env =
              KeepEnv(f.servers[n].env, b.servers[m].env)
        BY <1>0, <2>0, <4>1, RestoredServer
      <4> QED
        BY <2>1, <4>2
    <3>5. k \in DOMAIN f.servers[n].env
      BY <1>4, <3>4 DEF KeepEnv
    <3>6. k \in DOMAIN b.servers[m].env => b.servers[m].env[k] # Placeholder
      BY DEF Stored
    <3> QED
      BY <3>3, <3>4, <3>5, <3>6 DEF KeepEnv, Keep, Hiding
  <2> QED
    BY <2>2, <2>3
<1> HIDE DEF S, M, c
<1>5. Placeholder \notin Stored(c)
  BY <1>1, <1>2, <1>3, <1>4 DEF Stored
<1> QED
  BY <1>5 DEF c

(* A file cut short holds nothing new.                                     *)
LEMMA ShorterConfig ==
  ASSUME NEW d, IsConfig(d)
  PROVE  LET c == [d EXCEPT !.mailboxes = <<>>] IN
         /\ IsConfig(c) /\ Stored(c) \subseteq Stored(d)
         /\ AtHome(d) => AtHome(c)
<1> DEFINE c == [d EXCEPT !.mailboxes = <<>>]
<1>1. c = [db |-> d.db, servers |-> d.servers, mailboxes |-> <<>>]
  BY Parts
<1>2. DOMAIN <<>> = {}
  OBVIOUS
<1> HIDE DEF c
<1>3. c.db = d.db /\ c.servers = d.servers /\ c.mailboxes = <<>>
      /\ DOMAIN c.mailboxes = {}
      /\ c = [db |-> c.db, servers |-> c.servers, mailboxes |-> c.mailboxes]
  BY <1>1, <1>2
<1>4. IsConfig(c)
  BY <1>3 DEF IsConfig
<1>5. Stored(c) \subseteq Stored(d)
  BY <1>3 DEF Stored
<1>6. AtHome(d) => AtHome(c)
  BY <1>3 DEF AtHome
<1> QED
  BY <1>4, <1>5, <1>6 DEF c

-----------------------------------------------------------------------------
(* The steps of the service, as far as the configuration goes.             *)

(* Nobody starts or ends.                                                  *)
SameUp == \A p \in Processes : (stage'[p] = "down") = (stage[p] = "down")

ConfigStep ==
  \/ \E p \in Processes :
       \/ LoadConfig(p) /\ StartMigration(p)
       \/ ForgetConfig(p) /\ GoDown(p)
       \/ (StartWorker(p) \/ Poll(p)) /\ SameUp
  \/ \E o \in Operators :
       \/ PanelNext(o) /\ stage[at'[o]] = "migrated" /\ SameUp
       \/ FailWrite(o) /\ SameUp
  \/ RepairFile /\ SameUp
  \/ UNCHANGED configVars /\ SameUp

(* A migration goes on or fails, but it does not start or end a process.   *)
LEMMA MigratingIsUp ==
  ASSUME stage \in [Processes -> Stages], NEW p \in Processes,
         MigrationStep(p)
  PROVE  SameUp
<1>1. \E s \in Stages \ {"down"} : stage' = [stage EXCEPT ![p] = s]
  BY DEF MigrationStep, TakeLock, ReadLedger, CheckVersion, RunMigration,
     Unlock, Stage, Stages
<1>2. stage[p] # "down"
  BY DEF MigrationStep, TakeLock, ReadLedger, CheckVersion, RunMigration,
     Unlock
<1> QED
  BY <1>1, <1>2 DEF SameUp

(* Every step of the service is one of these.                              *)
LEMMA ConfigSteps ==
  ASSUME stage \in [Processes -> Stages], bound \in Bounds, [Next]_vars
  PROVE  ConfigStep /\ UNCHANGED bound /\ (UNCHANGED faults \/ Fault)
<1>1. bound.processes \subseteq Processes /\ bound.windows \subseteq Operators
  BY ServiceAssumption DEF BoundRecord
<1>2. ASSUME NEW p \in Processes, Boot(p)
      PROVE  ConfigStep /\ UNCHANGED faults
  BY <1>2 DEF Boot, ConfigStep
<1>3. ASSUME NEW p \in Processes, Migrate(p)
      PROVE  ConfigStep /\ (UNCHANGED faults \/ Fault)
  BY <1>3, MigratingIsUp DEF Migrate, ConfigStep
<1>4. ASSUME NEW p \in Processes, Launch(p) \/ PollOnce(p)
      PROVE  ConfigStep /\ UNCHANGED faults
  BY <1>4 DEF Launch, PollOnce, ConfigStep, migrationVars, SameUp
<1>5. ASSUME NEW p \in Processes, Exit(p) \/ Crash(p)
      PROVE  ConfigStep /\ (UNCHANGED faults \/ Fault)
  BY <1>5 DEF Exit, Crash, ConfigStep
<1>6. ASSUME NEW o \in Operators, Panel(o) \/ DiskFull(o)
      PROVE  ConfigStep /\ (UNCHANGED faults \/ Fault)
  BY <1>6 DEF Panel, DiskFull, ConfigStep, migrationVars, SameUp
<1>7. ASSUME EndDeadSession /\ UNCHANGED <<configVars, faults>>
      PROVE  ConfigStep /\ UNCHANGED faults
  BY <1>7 DEF EndDeadSession, ConfigStep, SameUp
<1>8. ASSUME RepairFile /\ UNCHANGED <<migrationVars, faults>>
      PROVE  ConfigStep /\ UNCHANGED faults
  BY <1>8 DEF ConfigStep, migrationVars, SameUp
<1>9. CASE UNCHANGED vars
  BY <1>9 DEF vars, ConfigStep, migrationVars, SameUp
<1>10. CASE Next
  <2>1. UNCHANGED bound
    BY <1>10 DEF Next
  <2>2. \/ \E p \in Processes : \/ Boot(p) \/ Migrate(p) \/ Launch(p)
                               \/ PollOnce(p) \/ Exit(p) \/ Crash(p)
        \/ \E o \in Operators : Panel(o) \/ DiskFull(o)
        \/ EndDeadSession /\ UNCHANGED <<configVars, faults>>
        \/ RepairFile /\ UNCHANGED <<migrationVars, faults>>
    BY <1>1, <1>10 DEF Next
  <2> QED
    BY <1>2, <1>3, <1>4, <1>5, <1>6, <1>7, <1>8, <2>1, <2>2
<1> QED
  BY <1>9, <1>10


(* An edit is shown and counted.                                           *)
LEMMA EditShows ==
  ASSUME NEW o \in Operators, EditForm(o)
  PROVE  \E kind \in EditKinds : \E g : Show(o, kind, g)
BY DEF EditForm, EditServers, EditVariables, EditMailboxes, EditKinds

(* A process ends: its handlers are gone.                                  *)
LEMMA ForgetParts ==
  ASSUME ConfigTypes, NEW p \in Processes, ForgetConfig(p)
  PROVE  /\ memory' = [memory EXCEPT ![p] = NoConfig]
         /\ \A o \in Operators :
              \/ at[o] = p /\ handler'[o] = "idle" /\ ~crossed'[o]
              \/ /\ at[o] # p /\ handler'[o] = handler[o]
                 /\ draft'[o] = draft[o] /\ crossed'[o] = crossed[o]
         /\ UNCHANGED <<at, form, base, file, edits, saves, mishap, beside>>
         /\ \/ apart' = Processes
            \/ /\ apart' = apart \ {p}
               /\ \A o \in Operators :
                    at[o] = p => handler[o] \notin {"write", "remember"}
         /\ draft' = [o \in Operators |-> draft'[o]]
         /\ crossed' \in [Operators -> BOOLEAN]
<1> DEFINE gone == {o \in Operators : at[o] = p}
<1>1. /\ handler' = [o \in Operators |->
                      IF o \in gone THEN "idle" ELSE handler[o]]
      /\ draft' = [o \in Operators |->
                      IF o \in gone THEN NoConfig ELSE draft[o]]
      /\ crossed' = [o \in Operators |->
                      IF o \in gone THEN FALSE ELSE crossed[o]]
  BY DEF ForgetConfig
<1>2. \/ apart' = Processes
      \/ /\ apart' = apart \ {p}
         /\ \A o \in Operators :
              at[o] = p => handler[o] \notin {"write", "remember"}
  <2>1. apart' = (apart \ {p}) \cup
          IF \E o \in gone : handler[o] \in {"write", "remember"}
          THEN Servers ELSE {}
    BY DEF ForgetConfig
  <2>2. apart \subseteq Processes /\ Servers = Processes
    BY ServiceAssumption DEF ConfigTypes
  <2> QED
    BY <2>1, <2>2
<1>3. crossed \in [Operators -> BOOLEAN]
  BY DEF ConfigTypes
<1> QED
  BY <1>1, <1>2, <1>3 DEF ForgetConfig

-----------------------------------------------------------------------------
(* Every part of the invariant is kept.                                    *)

(* The bounds of the behaviour are kept.                                   *)
LEMMA CountersNext ==
  ASSUME ConfigTypes, ConfigStep, UNCHANGED bound, UNCHANGED faults \/ Fault
  PROVE  /\ bound' \in Bounds /\ faults' \in 0..bound'.faults
         /\ edits' \in [EditKinds -> 0..MaxEdits] /\ saves' \in 0..MaxSaves
<1>1. bound.faults \in Nat /\ MaxEdits \in Nat /\ MaxSaves \in Nat
  BY ServiceAssumption, FirstAssumption DEF ConfigTypes, BoundRecord
<1>2. faults' \in 0..bound'.faults
  BY <1>1 DEF ConfigTypes, Fault
<1>3. /\ \/ UNCHANGED edits
         \/ \E kind \in EditKinds :
              edits[kind] > 0 /\ edits' = [edits EXCEPT ![kind] = @ - 1]
      /\ UNCHANGED saves \/ (saves > 0 /\ saves' = saves - 1)
  <2>1. ASSUME NEW p \in Processes,
               LoadConfig(p) \/ ForgetConfig(p) \/ StartWorker(p) \/ Poll(p)
        PROVE  UNCHANGED <<edits, saves>>
    BY <2>1 DEF LoadConfig, ForgetConfig, StartWorker, Poll
  <2>2. ASSUME NEW o \in Operators, Login(o) \/ Logout(o) \/ OpenForm(o)
        PROVE  UNCHANGED <<edits, saves>>
    BY <2>2 DEF Login, Logout, OpenForm
  <2>3. ASSUME NEW o \in Operators, SaveStep(o) \/ FailWrite(o)
        PROVE  UNCHANGED <<edits, saves>>
    BY <2>3 DEF SaveStep, Truncate, WriteFile, Remember, FailWrite
  <2>4. ASSUME NEW o \in Operators, EditForm(o)
        PROVE  /\ UNCHANGED saves
               /\ \E kind \in EditKinds :
                    edits[kind] > 0 /\ edits' = [edits EXCEPT ![kind] = @ - 1]
    BY <2>4, EditShows DEF EditForm, Show
  <2>5. ASSUME NEW o \in Operators, BeginSave(o)
        PROVE  UNCHANGED edits /\ saves > 0 /\ saves' = saves - 1
    BY <2>5 DEF BeginSave
  <2>6. RepairFile \/ UNCHANGED configVars => UNCHANGED <<edits, saves>>
    BY DEF RepairFile, configVars
  <2> QED
    BY <2>1, <2>2, <2>3, <2>4, <2>5, <2>6 DEF ConfigStep, PanelNext
<1> QED
  BY <1>1, <1>2, <1>3 DEF ConfigTypes

(* The types are kept.                                                     *)
LEMMA ConfigTypesNext ==
  ASSUME ConfigTypes, ConfigStep, UNCHANGED bound, UNCHANGED faults \/ Fault
  PROVE  ConfigTypes'
<1>0. /\ bound' \in Bounds /\ faults' \in 0..bound'.faults
      /\ edits' \in [EditKinds -> 0..MaxEdits] /\ saves' \in 0..MaxSaves
  BY CountersNext
<1> USE ServiceAssumption DEF ConfigTypes
<1>1. ASSUME NEW p \in Processes, LoadConfig(p)
      PROVE  ConfigTypes'
  BY <1>0, <1>1 DEF LoadConfig, window
<1>2. ASSUME NEW p \in Processes, ForgetConfig(p)
      PROVE  ConfigTypes'
  <2>1. handler' \in [Operators -> {"idle", "truncate", "write", "remember"}]
    BY <1>2 DEF ForgetConfig
  <2>2. worker' \in [Processes -> {"off", "ready"}]
        /\ live' \subseteq Processes \X Operators
    BY <1>2 DEF ForgetConfig
  <2>3. memory' = [q \in Processes |-> memory'[q]]
        /\ apart' \subseteq Processes
        /\ draft' = [o \in Operators |-> draft'[o]]
        /\ crossed' \in [Operators -> BOOLEAN]
        /\ UNCHANGED <<at, form, base, file, edits, saves, mishap, beside>>
    BY <1>2, ForgetParts
  <2> QED
    BY <1>0, <2>1, <2>2, <2>3
<1>3. ASSUME NEW p \in Processes, StartWorker(p) \/ Poll(p)
      PROVE  ConfigTypes'
  BY <1>0, <1>3 DEF StartWorker, Poll, window
<1>4. ASSUME NEW o \in Operators, Login(o) \/ Logout(o)
      PROVE  ConfigTypes'
  BY <1>0, <1>4 DEF Login, Logout
<1>5. ASSUME NEW o \in Operators, OpenForm(o) \/ EditForm(o)
      PROVE  ConfigTypes'
  <2>1. form' = [q \in Operators |-> form'[q]]
    BY <1>5, EditShows DEF OpenForm, Show
  <2>2. base' = [q \in Operators |-> base'[q]]
    BY <1>5 DEF OpenForm, EditForm
  <2> QED
    BY <1>0, <1>5, <2>1, <2>2 DEF OpenForm, EditForm
<1>6. ASSUME NEW o \in Operators, BeginSave(o)
      PROVE  ConfigTypes'
  <2>1. mishap' \subseteq
          {"stale", "reused", "several", "mailbox", "rekeyed", "moved"}
    BY <1>6 DEF BeginSave, Mishaps
  <2>2. beside' \subseteq Operators
    BY <1>6 DEF BeginSave, Busy
  <2>3. draft' = [q \in Operators |-> draft'[q]]
    BY <1>6 DEF BeginSave
  <2>4. handler' \in [Operators -> {"idle", "truncate", "write", "remember"}]
    BY <1>6 DEF BeginSave
  <2> QED
    BY <1>0, <1>6, <2>1, <2>2, <2>3, <2>4 DEF BeginSave
<1>7. ASSUME NEW o \in Operators, Truncate(o) \/ WriteFile(o)
      PROVE  ConfigTypes'
  <2>1. file'.state \in {"whole", "shorter", "torn"}
    BY <1>7 DEF Truncate, WriteFile, Whole, Torn
  <2>2. crossed' \in [Operators -> BOOLEAN]
    <3>1. CASE Truncate(o)
      BY <3>1 DEF Truncate
    <3>2. CASE WriteFile(o)
      <4>1. crossed' = [q \in Operators |->
              q # o /\ (crossed[q] \/ q \in Writing)]
        BY <3>2 DEF WriteFile
      <4>2. \A q \in Operators :
              (q # o /\ (crossed[q] \/ q \in Writing)) \in BOOLEAN
        OBVIOUS
      <4> QED
        BY ONLY <4>1, <4>2
    <3> QED
      BY <1>7, <3>1, <3>2
  <2>3. handler' \in [Operators -> {"idle", "truncate", "write", "remember"}]
    BY <1>7 DEF Truncate, WriteFile
  <2> QED
    BY <1>0, <1>7, <2>1, <2>2, <2>3 DEF Truncate, WriteFile
<1>8. ASSUME NEW o \in Operators, Remember(o)
      PROVE  ConfigTypes'
  <2>1. apart' \subseteq Processes
    BY <1>8 DEF Remember
  <2>2. handler' \in [Operators -> {"idle", "truncate", "write", "remember"}]
    BY <1>8 DEF Remember
  <2>3. /\ memory' = [q \in Processes |-> memory'[q]]
        /\ base' = [q \in Operators |-> base'[q]]
        /\ form' = [q \in Operators |-> form'[q]]
        /\ draft' = [q \in Operators |-> draft'[q]]
    BY <1>8 DEF Remember
  <2> QED
    BY <1>0, <1>8, <2>1, <2>2, <2>3 DEF Remember
<1>9. ASSUME NEW o \in Operators, FailWrite(o)
      PROVE  ConfigTypes'
  <2>1. file'.state \in {"whole", "shorter", "torn"}
    BY <1>9 DEF FailWrite, Cuts, Torn
  <2> QED
    BY <1>0, <1>9, <2>1 DEF FailWrite, Writing
<1>10. CASE RepairFile
  BY <1>0, <1>10 DEF RepairFile, Whole, window
<1>11. CASE UNCHANGED configVars
  BY <1>0, <1>11 DEF configVars
<1> QED
  BY <1>1, <1>2, <1>3, <1>4, <1>5, <1>6, <1>7, <1>8, <1>9, <1>10, <1>11
     DEF ConfigStep, PanelNext, SaveStep

(* What was not stored before is the first configuration, the beginning of *)
(* a stored one, or a form with the secrets put in.                        *)
Fresh(c) ==
  \/ c = First
  \/ \E d : Kept(d) /\ c = [d EXCEPT !.mailboxes = <<>>]
  \/ \E o \in Operators :
       /\ BeginSave(o) /\ stage[at'[o]] = "migrated"
       /\ c = Preserved(form[o], memory[at[o]])

(* Every step stores what is stored somewhere else, or something fresh.    *)
LEMMA KeptNext ==
  ASSUME ConfigTypes, ConfigStep
  PROVE  \A c : Kept(c)' => Kept(c) \/ Fresh(c)
<1> SUFFICES ASSUME NEW c, Kept(c)' PROVE Kept(c) \/ Fresh(c)
  OBVIOUS
<1> USE DEF ConfigTypes
<1>0. \/ file'.state # "torn" /\ c = file'.config
      \/ \E p \in Processes : memory'[p] # NoConfig /\ c = memory'[p]
      \/ \E o \in Operators : handler'[o] # "idle" /\ c = draft'[o]
  BY DEF Kept
<1>1. ASSUME NEW p \in Processes, LoadConfig(p)
      PROVE  Kept(c)
  BY <1>0, <1>1 DEF LoadConfig, window, Kept, Usable
<1>2. ASSUME NEW p \in Processes, ForgetConfig(p)
      PROVE  Kept(c)
  BY <1>0, <1>2, ForgetParts DEF Kept
<1>3. CASE UNCHANGED <<file, memory, handler, draft>>
  BY <1>0, <1>3 DEF Kept
<1>4. ASSUME NEW o \in Operators, BeginSave(o), stage[at'[o]] = "migrated"
      PROVE  Kept(c) \/ Fresh(c)
  <2>1. draft'[o] = Preserved(form[o], memory[at[o]])
    BY <1>4 DEF BeginSave
  <2>2. /\ UNCHANGED <<file, memory>>
        /\ \A q \in Operators \ {o} :
             handler'[q] = handler[q] /\ draft'[q] = draft[q]
    BY <1>4 DEF BeginSave
  <2>3. CASE c = draft'[o]
    BY <1>4, <2>1, <2>3 DEF Fresh
  <2>4. CASE c # draft'[o]
    BY <1>0, <2>2, <2>4 DEF Kept
  <2> QED
    BY <2>3, <2>4
<1>5. ASSUME NEW o \in Operators, Truncate(o)
      PROVE  Kept(c)
  <2>1. \A q \in Operators : handler'[q] # "idle" => handler[q] # "idle"
    BY <1>5 DEF Truncate
  <2> QED
    BY <1>0, <1>5, <2>1 DEF Truncate, Torn, Kept
<1>6. ASSUME NEW o \in Operators, WriteFile(o)
      PROVE  Kept(c)
  <2>1. \A q \in Operators : handler'[q] # "idle" => handler[q] # "idle"
    BY <1>6 DEF WriteFile
  <2>2. handler[o] # "idle" /\ UNCHANGED <<memory, draft>>
        /\ (file' = Whole(draft[o]) \/ file' = Torn)
    BY <1>6 DEF WriteFile
  <2> QED
    BY <1>0, <2>1, <2>2 DEF Whole, Torn, Kept
<1>7. ASSUME NEW o \in Operators, Remember(o)
      PROVE  Kept(c)
  <2>1. handler[o] # "idle" /\ UNCHANGED file
    BY <1>7 DEF Remember
  <2>2. \A q \in Operators : handler'[q] # "idle" =>
          handler[q] # "idle" /\ draft'[q] = draft[q]
    BY <1>7 DEF Remember
  <2>3. \A p \in Processes : memory'[p] \in {memory[p], draft[o]}
    BY <1>7 DEF Remember
  <2> QED
    BY <1>0, <2>1, <2>2, <2>3 DEF Kept
<1>8. ASSUME NEW o \in Operators, FailWrite(o)
      PROVE  Kept(c) \/ Fresh(c)
  <2>1. handler[o] # "idle" /\ UNCHANGED memory
    BY <1>8 DEF FailWrite
  <2>2. \A q \in Operators : handler'[q] # "idle" =>
          handler[q] # "idle" /\ draft'[q] = draft[q]
    BY <1>8 DEF FailWrite
  <2>3. file'.state = "torn"
        \/ file'.config = [draft[o] EXCEPT !.mailboxes = <<>>]
    BY <1>8 DEF FailWrite, Cuts, Torn
  <2>4. Kept(draft[o])
    BY <2>1 DEF Kept
  <2>5. CASE file'.state # "torn" /\ c = file'.config
    BY <2>3, <2>4, <2>5 DEF Fresh
  <2>6. CASE \E p \in Processes : memory'[p] # NoConfig /\ c = memory'[p]
    BY <2>1, <2>6 DEF Kept
  <2>7. CASE \E q \in Operators : handler'[q] # "idle" /\ c = draft'[q]
    BY <2>2, <2>7 DEF Kept
  <2> QED
    BY <1>0, <2>5, <2>6, <2>7
<1>9. CASE RepairFile
  <2>1. file' = Whole(First) /\ UNCHANGED <<memory, handler, draft>>
    BY <1>9 DEF RepairFile, window
  <2>2. file'.config = First
    BY <2>1 DEF Whole
  <2> QED
    BY <1>0, <2>1, <2>2 DEF Kept, Fresh
<1>10. ASSUME NEW p \in Processes, StartWorker(p) \/ Poll(p)
       PROVE  UNCHANGED <<file, memory, handler, draft>>
  BY <1>10 DEF StartWorker, Poll, window
<1>11. ASSUME NEW o \in Operators,
              Login(o) \/ Logout(o) \/ OpenForm(o) \/ EditForm(o)
       PROVE  UNCHANGED <<file, memory, handler, draft>>
  BY <1>11 DEF Login, Logout, OpenForm, EditForm
<1>12. UNCHANGED configVars => UNCHANGED <<file, memory, handler, draft>>
  BY DEF configVars
<1> QED
  BY <1>1, <1>2, <1>3, <1>4, <1>5, <1>6, <1>7, <1>8, <1>9, <1>10, <1>11,
     <1>12 DEF ConfigStep, PanelNext, SaveStep

(* Whoever saves has a copy, and a form made from a configuration.         *)
LEMMA SaverKnows ==
  ASSUME ConfigTypes, MemoryOK, FormsOK, NEW o \in Operators,
         BeginSave(o), stage[at'[o]] = "migrated"
  PROVE  /\ Kept(memory[at[o]])
         /\ IsConfig(base[o]) /\ MadeFrom(form[o], base[o])
<1>1. at[o] \in Processes /\ at' = at /\ form[o] # NoConfig
  BY DEF ConfigTypes, BeginSave
<1>2. memory[at[o]] # NoConfig
  BY <1>1 DEF MemoryOK
<1> QED
  BY <1>1, <1>2 DEF Kept, FormsOK

(* A process has a copy from the moment it starts until it ends.           *)
LEMMA MemoryNext ==
  ASSUME ConfigTypes, MemoryOK, DraftsOK, ConfigStep,
         stage \in [Processes -> Stages]
  PROVE  MemoryOK'
<1> USE DEF MemoryOK, ConfigTypes
<1>1. ASSUME NEW p \in Processes, LoadConfig(p), StartMigration(p)
      PROVE  MemoryOK'
  <2>1. file.config # NoConfig
    BY <1>1 DEF LoadConfig, Usable, Valid, NoConfig
  <2> QED
    BY <1>1, <2>1 DEF LoadConfig, StartMigration, Stage
<1>2. ASSUME NEW p \in Processes, ForgetConfig(p), GoDown(p)
      PROVE  MemoryOK'
  BY <1>2 DEF ForgetConfig, GoDown, Stage
<1>3. ASSUME NEW o \in Operators, Remember(o), stage[at'[o]] = "migrated",
             SameUp
      PROVE  MemoryOK'
  <2>1. draft[o] # NoConfig /\ at' = at /\ at[o] \in Processes
    BY <1>3 DEF Remember, DraftsOK
  <2> QED
    BY <1>3, <2>1 DEF Remember, SameUp
<1>4. CASE UNCHANGED memory /\ SameUp
  BY <1>4 DEF SameUp
<1> QED
  BY <1>1, <1>2, <1>3, <1>4
     DEF ConfigStep, PanelNext, SaveStep, StartWorker, Poll, Login, Logout,
         OpenForm, EditForm, BeginSave, Truncate, WriteFile, FailWrite,
         RepairFile, configVars

(* update_config validates before it stores: there is something to store.  *)
LEMMA DraftsNext ==
  ASSUME ConfigTypes, DraftsOK, ConfigStep
  PROVE  DraftsOK'
<1> USE DEF DraftsOK, ConfigTypes
<1>1. ASSUME NEW p \in Processes, ForgetConfig(p)
      PROVE  DraftsOK'
  BY <1>1, ForgetParts
<1>2. ASSUME NEW o \in Operators, BeginSave(o)
      PROVE  DraftsOK'
  <2>1. draft'[o] # NoConfig
    <3> DEFINE next == Preserved(form[o], memory[at[o]])
    <3>1. Valid(next) /\ draft'[o] = next
      BY <1>2 DEF BeginSave
    <3> HIDE DEF next
    <3> QED
      BY <3>1 DEF Valid, NoConfig
  <2>2. \A q \in Operators \ {o} :
          handler'[q] = handler[q] /\ draft'[q] = draft[q]
    BY <1>2 DEF BeginSave
  <2> QED
    BY <2>1, <2>2
<1>3. ASSUME NEW o \in Operators, Truncate(o) \/ WriteFile(o)
      PROVE  DraftsOK'
  BY <1>3 DEF Truncate, WriteFile
<1>4. ASSUME NEW o \in Operators, Remember(o) \/ FailWrite(o)
      PROVE  DraftsOK'
  BY <1>4 DEF Remember, FailWrite
<1>5. CASE UNCHANGED <<handler, draft>>
  BY <1>5
<1> QED
  BY <1>1, <1>2, <1>3, <1>4, <1>5
     DEF ConfigStep, PanelNext, SaveStep, LoadConfig, StartWorker, Poll,
         Login, Logout, OpenForm, EditForm, RepairFile, configVars, window

(* A window shows a copy of a process, or what it saved, and its edits.    *)
LEMMA FormsNext ==
  ASSUME ConfigTypes, MemoryOK, FormsOK, KeptOK, ConfigStep
  PROVE  FormsOK'
<1> USE DEF FormsOK, ConfigTypes
<1>1. ASSUME NEW o \in Operators, OpenForm(o), stage[at'[o]] = "migrated"
      PROVE  FormsOK'
  <2> DEFINE b == memory[at[o]]
  <2>1. IsConfig(b)
    <3>1. at[o] \in Processes /\ at' = at
      BY <1>1 DEF OpenForm
    <3>2. b # NoConfig
      BY <1>1, <3>1 DEF MemoryOK
    <3> QED
      BY <3>1, <3>2 DEF Kept, KeptOK
  <2>2. base'[o] = b /\ form'[o] = Redacted(b)
    BY <1>1 DEF OpenForm
  <2>3. \A q \in Operators \ {o} : base'[q] = base[q] /\ form'[q] = form[q]
    BY <1>1 DEF OpenForm
  <2> HIDE DEF b
  <2>4. IsConfig(base'[o]) /\ MadeFrom(form'[o], base'[o])
    BY <2>1, <2>2, RedactedIsMade
  <2> QED
    BY <2>3, <2>4
<1>2. ASSUME NEW o \in Operators, EditForm(o)
      PROVE  FormsOK'
  <2>1. form[o] # NoConfig /\ base' = base
    BY <1>2 DEF EditForm
  <2>2. PICK g : /\ form' = [form EXCEPT ![o] = g]
                 /\ Edit(form[o], base[o], g)
    BY <1>2, <2>1, EditsAreEdits DEF Show, MadeFrom
  <2>3. IsConfig(base'[o]) /\ MadeFrom(form'[o], base'[o])
    <3>1. form'[o] = g
      BY <2>2
    <3> QED
      BY <2>1, <2>2, <3>1, EditedIsMade
  <2>4. \A q \in Operators \ {o} : form'[q] = form[q]
    BY <2>2
  <2> QED
    BY <2>1, <2>3, <2>4
<1>3. ASSUME NEW o \in Operators, Remember(o)
      PROVE  FormsOK'
  <2>1. IsConfig(draft[o])
    BY <1>3 DEF Remember, Kept, KeptOK
  <2>2. base'[o] = draft[o] /\ form'[o] = Redacted(draft[o])
    BY <1>3 DEF Remember
  <2>3. \A q \in Operators \ {o} : base'[q] = base[q] /\ form'[q] = form[q]
    BY <1>3 DEF Remember
  <2>4. IsConfig(base'[o]) /\ MadeFrom(form'[o], base'[o])
    BY <2>1, <2>2, RedactedIsMade
  <2> QED
    BY <2>3, <2>4
<1>4. CASE UNCHANGED <<form, base>>
  BY <1>4
<1> QED
  BY <1>1, <1>2, <1>3, <1>4
     DEF ConfigStep, PanelNext, SaveStep, LoadConfig, ForgetConfig,
         StartWorker, Poll, Login, Logout, BeginSave, Truncate, WriteFile,
         FailWrite, RepairFile, configVars, window

(* So what is stored is a configuration, with each server once.            *)
LEMMA KeptOKNext ==
  ASSUME ConfigTypes, MemoryOK, FormsOK, KeptOK, ConfigStep
  PROVE  KeptOK'
<1>1. ASSUME NEW c, Fresh(c)
      PROVE  IsConfig(c)
  <2>1. CASE c = First
    BY <2>1, FirstAssumption
  <2>2. ASSUME NEW d, Kept(d), c = [d EXCEPT !.mailboxes = <<>>]
        PROVE  IsConfig(c)
    BY <2>2, ShorterConfig DEF KeptOK
  <2>3. ASSUME NEW o \in Operators, BeginSave(o), stage[at'[o]] = "migrated",
               c = Preserved(form[o], memory[at[o]])
        PROVE  IsConfig(c)
    <3>1. IsConfig(form[o])
      BY <2>3, SaverKnows DEF MadeFrom
    <3> QED
      BY <2>3, <3>1, PreservedIsConfig
  <2> QED
    BY <1>1, <2>1, <2>2, <2>3 DEF Fresh
<1>2. \A c : Kept(c)' => Kept(c) \/ Fresh(c)
  BY KeptNext
<1>3. ASSUME NEW c, Kept(c)'
      PROVE  IsConfig(c)
  BY <1>1, <1>2, <1>3 DEF KeptOK
<1> QED
  BY <1>3 DEF KeptOK

(* What is held against a form is not forgotten.                           *)
LEMMA MishapsStay ==
  ASSUME ConfigStep
  PROVE  mishap \subseteq mishap'
BY DEF ConfigStep, PanelNext, SaveStep, LoadConfig, ForgetConfig,
       StartWorker, Poll, Login, Logout, OpenForm, EditForm, BeginSave,
       Truncate, WriteFile, Remember, FailWrite, RepairFile, configVars

(* A form that is saved in order shows the copy it is saved over.          *)
LEMMA SavedInOrder ==
  ASSUME NEW o \in Operators, BeginSave(o)
  PROVE  /\ mishap' \cap {"stale", "reused", "moved"} = {} =>
              memory[at[o]] = base[o] /\ Settled(form[o], base[o])
         /\ mishap' = {} =>
              memory[at[o]] = base[o] /\ Orderly(form[o], base[o])
<1> DEFINE f == form[o]
           b == base[o]
<1>1. mishap' = mishap \cup Mishaps(o)
  BY DEF BeginSave
<1>2. /\ memory[at[o]] # b => "stale" \in Mishaps(o)
      /\ Renamed(f, b) => "reused" \in Mishaps(o)
      /\ \/ Cardinality(Guessed(f, b)) > 1
         \/ Guessed(f, b) # {} /\ Cardinality(Removed(f, b)) > 1
         => "several" \in Mishaps(o)
      /\ (\E i \in DOMAIN f.mailboxes \ DOMAIN b.mailboxes :
            f.mailboxes[i].password = Placeholder)
         => "mailbox" \in Mishaps(o)
      /\ Rekeyings(f, b) # {} => "rekeyed" \in Mishaps(o)
      /\ (\E p \in Rekeyings(f, b) :
            /\ p[1] \in Added(f, b) /\ p[2] \in Removed(f, b)
            /\ Cardinality(Removed(f, b)) > 1)
         => "moved" \in Mishaps(o)
  BY DEF Mishaps, Rekeyings
<1> HIDE DEF f, b
<1>3. mishap' \cap {"stale", "reused", "moved"} = {} =>
        memory[at[o]] = b /\ Settled(f, b)
  BY <1>1, <1>2 DEF Settled
<1>4. mishap' = {} => memory[at[o]] = b /\ Orderly(f, b)
  BY <1>1, <1>2 DEF Orderly
<1> QED
  BY <1>3, <1>4 DEF f, b

(* And it has no placeholder, while every form was in order.               *)
LEMMA NoPlaceholderNext ==
  ASSUME ConfigTypes, MemoryOK, FormsOK, KeptOK, NoPlaceholder, ConfigStep
  PROVE  NoPlaceholder'
<1>1. SUFFICES ASSUME mishap' = {}, NEW c, Kept(c)'
               PROVE  Placeholder \notin Stored(c)
  BY DEF NoPlaceholder
<1>2. mishap = {} /\ \A d : Kept(d) => Placeholder \notin Stored(d)
  BY <1>1, MishapsStay DEF NoPlaceholder
<1>3. CASE c = First
  BY <1>3, FirstAssumption
<1>4. ASSUME NEW d, Kept(d), c = [d EXCEPT !.mailboxes = <<>>]
      PROVE  Placeholder \notin Stored(c)
  BY <1>2, <1>4, ShorterConfig DEF KeptOK
<1>5. ASSUME NEW o \in Operators, BeginSave(o), stage[at'[o]] = "migrated",
             c = Preserved(form[o], memory[at[o]])
      PROVE  Placeholder \notin Stored(c)
  <2>1. /\ Kept(memory[at[o]]) /\ IsConfig(base[o])
        /\ MadeFrom(form[o], base[o])
    BY <1>5, SaverKnows
  <2>2. memory[at[o]] = base[o] /\ Orderly(form[o], base[o])
    BY <1>1, <1>5, SavedInOrder
  <2> QED
    BY <1>2, <1>5, <2>1, <2>2, PreservedIsFilled
<1>6. Kept(c) \/ Fresh(c)
  BY <1>1, KeptNext
<1> QED
  BY <1>2, <1>3, <1>4, <1>5, <1>6 DEF Fresh

(* And no secret strays, while no form was stale, reused a name or made a  *)
(* server look like another.                                               *)
LEMMA AllAtHomeNext ==
  ASSUME ConfigTypes, MemoryOK, FormsOK, KeptOK, AllAtHome, ConfigStep
  PROVE  AllAtHome'
<1>1. SUFFICES ASSUME mishap' \cap {"stale", "reused", "moved"} = {},
                      NEW c, Kept(c)'
               PROVE  AtHome(c)
  BY DEF AllAtHome
<1>2. \A d : Kept(d) => AtHome(d)
  BY <1>1, MishapsStay DEF AllAtHome
<1>3. CASE c = First
  BY <1>3, FirstAssumption
<1>4. ASSUME NEW d, Kept(d), c = [d EXCEPT !.mailboxes = <<>>]
      PROVE  AtHome(c)
  BY <1>2, <1>4, ShorterConfig DEF KeptOK
<1>5. ASSUME NEW o \in Operators, BeginSave(o), stage[at'[o]] = "migrated",
             c = Preserved(form[o], memory[at[o]])
      PROVE  AtHome(c)
  <2>1. /\ Kept(memory[at[o]]) /\ IsConfig(base[o])
        /\ MadeFrom(form[o], base[o])
    BY <1>5, SaverKnows
  <2>2. memory[at[o]] = base[o] /\ Settled(form[o], base[o])
    BY <1>1, <1>5, SavedInOrder
  <2> QED
    BY <1>2, <1>5, <2>1, <2>2, PreservedAtHome
<1>6. Kept(c) \/ Fresh(c)
  BY <1>1, KeptNext
<1> QED
  BY <1>2, <1>3, <1>4, <1>5, <1>6 DEF Fresh

(* A request that starts beside another is known to, and so is the other.  *)
LEMMA AloneNext ==
  ASSUME ConfigTypes, Alone, ConfigStep
  PROVE  Alone'
<1> USE DEF Alone, ConfigTypes
<1>1. ASSUME NEW o \in Operators, BeginSave(o)
      PROVE  Alone'
  <2>1. \A q \in Operators \ {o} : handler'[q] = handler[q]
    BY <1>1 DEF BeginSave
  <2>2. CASE Busy = {}
    BY <1>1, <2>1, <2>2 DEF Busy
  <2>3. CASE Busy # {}
    <3>1. beside' = beside \cup Busy \cup {o}
      BY <1>1, <2>3 DEF BeginSave
    <3>2. \A q \in Operators : handler'[q] # "idle" => q \in beside'
      BY <2>1, <3>1 DEF Busy
    <3> QED
      BY <3>2
  <2> QED
    BY <2>2, <2>3
<1>2. CASE UNCHANGED beside
           /\ \A q \in Operators :
                handler'[q] # "idle" => handler[q] # "idle"
  BY <1>2
<1>3. ASSUME NEW p \in Processes, ForgetConfig(p)
      PROVE  UNCHANGED beside
             /\ \A q \in Operators :
                  handler'[q] # "idle" => handler[q] # "idle"
  BY <1>3, ForgetParts
<1>4. ASSUME NEW o \in Operators, SaveStep(o) \/ FailWrite(o)
      PROVE  UNCHANGED beside
             /\ \A q \in Operators :
                  handler'[q] # "idle" => handler[q] # "idle"
  BY <1>4 DEF SaveStep, Truncate, WriteFile, Remember, FailWrite
<1>5. ASSUME UNCHANGED <<handler, beside>>
      PROVE  UNCHANGED beside
             /\ \A q \in Operators :
                  handler'[q] # "idle" => handler[q] # "idle"
  BY <1>5
<1> QED
  BY <1>1, <1>2, <1>3, <1>4, <1>5
     DEF ConfigStep, PanelNext, LoadConfig, StartWorker, Poll, Login, Logout,
         OpenForm, EditForm, RepairFile, configVars, window

(* Whoever touches the file is under way, and so not alone with another.   *)
LEMMA UndisturbedNext ==
  ASSUME ConfigTypes, Alone, Undisturbed, ConfigStep
  PROVE  Undisturbed'
<1> USE DEF Undisturbed, ConfigTypes
<1>1. ASSUME NEW p \in Processes, ForgetConfig(p)
      PROVE  Undisturbed'
  <2>1. \A o \in Operators : handler'[o] # "idle" =>
          /\ handler'[o] = handler[o] /\ draft'[o] = draft[o]
          /\ crossed'[o] = crossed[o]
    BY <1>1, ForgetParts
  <2>2. UNCHANGED <<file, beside>>
    BY <1>1, ForgetParts
  <2> QED
    BY <2>1, <2>2
<1>2. ASSUME NEW o \in Operators, BeginSave(o)
      PROVE  Undisturbed'
  <2>1. /\ handler'[o] = "truncate" /\ UNCHANGED <<file, crossed>>
        /\ \A q \in Operators \ {o} :
             handler'[q] = handler[q] /\ draft'[q] = draft[q]
    BY <1>2 DEF BeginSave
  <2>2. beside \ {o} \subseteq beside'
    BY <1>2 DEF BeginSave
  <2> QED
    BY <2>1, <2>2
<1>3. ASSUME NEW o \in Operators, Truncate(o)
      PROVE  Undisturbed'
  <2>1. \A q \in Operators \ beside : q # o => handler[q] = "idle"
    BY <1>3 DEF Truncate, Alone
  <2>2. /\ UNCHANGED beside /\ handler'[o] = "write" /\ ~crossed'[o]
        /\ \A q \in Operators \ {o} : handler'[q] = handler[q]
    BY <1>3 DEF Truncate
  <2> QED
    BY <2>1, <2>2
<1>4. ASSUME NEW o \in Operators, WriteFile(o)
      PROVE  Undisturbed'
  <2>1. \A q \in Operators \ beside : q # o => handler[q] = "idle"
    BY <1>4 DEF WriteFile, Alone
  <2>2. /\ UNCHANGED <<beside, draft>> /\ handler'[o] = "remember"
        /\ \A q \in Operators \ {o} : handler'[q] = handler[q]
    BY <1>4 DEF WriteFile
  <2>3. o \notin beside => file' = Whole(draft[o])
    BY <1>4 DEF WriteFile
  <2> QED
    BY <2>1, <2>2, <2>3
<1>5. ASSUME NEW o \in Operators, Remember(o)
      PROVE  Undisturbed'
  <2>1. /\ UNCHANGED <<beside, file, crossed>> /\ handler'[o] = "idle"
        /\ \A q \in Operators \ {o} :
             handler'[q] = handler[q] /\ draft'[q] = draft[q]
    BY <1>5 DEF Remember
  <2> QED
    BY <2>1
<1>6. ASSUME NEW o \in Operators, FailWrite(o)
      PROVE  Undisturbed'
  <2>1. \A q \in Operators \ beside : q # o => handler[q] = "idle"
    BY <1>6 DEF FailWrite, Alone
  <2>2. /\ UNCHANGED beside /\ handler'[o] = "idle"
        /\ \A q \in Operators \ {o} : handler'[q] = handler[q]
    BY <1>6 DEF FailWrite
  <2> QED
    BY <2>1, <2>2
<1>7. CASE RepairFile
  BY <1>7 DEF RepairFile, window, Busy
<1>8. CASE UNCHANGED <<handler, draft, crossed, file, beside>>
  BY <1>8
<1> QED
  BY <1>1, <1>2, <1>3, <1>4, <1>5, <1>6, <1>7, <1>8
     DEF ConfigStep, PanelNext, SaveStep, LoadConfig, StartWorker, Poll,
         Login, Logout, OpenForm, EditForm, configVars, window

(* The copies agree with the file when the last write under way is over:   *)
(* it was alone and is remembered, or every copy is taken to be apart.     *)
LEMMA AgreedNext ==
  ASSUME ConfigTypes, MemoryOK, Alone, Undisturbed, Agreed, ConfigStep
  PROVE  Agreed'
<1> DEFINE Quiet ==
             \A o \in Operators : handler[o] \notin {"write", "remember"}
<1> USE DEF Agreed, ConfigTypes
<1>1. ASSUME NEW p \in Processes, LoadConfig(p)
      PROVE  Agreed'
  <2>1. /\ apart' = apart \ {p} /\ memory' = [memory EXCEPT ![p] = file.config]
        /\ UNCHANGED <<file, handler>>
    BY <1>1 DEF LoadConfig, window
  <2> QED
    BY <2>1
<1>2. ASSUME NEW p \in Processes, ForgetConfig(p)
      PROVE  Agreed'
  <2>1. CASE apart' = Processes
    BY <2>1
  <2>2. CASE /\ apart' = apart \ {p}
             /\ \A o \in Operators :
                  at[o] = p => handler[o] \notin {"write", "remember"}
    <3>1. Quiet' => Quiet
      BY <1>2, <2>2, ForgetParts
    <3>2. UNCHANGED file /\ memory' = [memory EXCEPT ![p] = NoConfig]
      BY <1>2, ForgetParts
    <3> QED
      BY <2>2, <3>1, <3>2
  <2> QED
    BY <1>2, <2>1, <2>2, ForgetParts
<1>3. ASSUME NEW o \in Operators, BeginSave(o)
      PROVE  Agreed'
  <2>1. Quiet' => Quiet
    BY <1>3 DEF BeginSave
  <2> QED
    BY <1>3, <2>1 DEF BeginSave
<1>4. ASSUME NEW o \in Operators, Truncate(o) \/ WriteFile(o)
      PROVE  Agreed'
  <2>1. ~Quiet'
    BY <1>4 DEF Truncate, WriteFile
  <2> QED
    BY <2>1
<1>5. ASSUME NEW o \in Operators, Remember(o)
      PROVE  Agreed'
  <2> DEFINE p == at[o]
  <2>1. /\ memory' = [memory EXCEPT ![p] = draft[o]] /\ UNCHANGED file
        /\ apart' = (Servers \ {p}) \cup (IF o \in beside THEN {p} ELSE {})
        /\ p \in Processes /\ Servers = Processes
    BY <1>5, ServiceAssumption DEF Remember
  <2>2. CASE o \in beside
    BY <2>1, <2>2
  <2>3. CASE o \notin beside
    <3>1. file = Whole(draft[o])
      BY <1>5, <2>3 DEF Remember, Undisturbed
    <3>2. file.config = draft[o]
      BY <3>1 DEF Whole
    <3>3. \A q \in Processes \ apart' : q = p
      BY <2>1
    <3> QED
      BY <2>1, <3>2, <3>3
  <2> QED
    BY <2>2, <2>3
<1>6. ASSUME NEW o \in Operators, FailWrite(o)
      PROVE  Agreed'
  BY <1>6, ServiceAssumption DEF FailWrite
<1>7. CASE RepairFile
  BY <1>7, ServiceAssumption DEF RepairFile
<1>8. CASE UNCHANGED <<handler, memory, file, apart>>
  BY <1>8
<1> QED
  BY <1>1, <1>2, <1>3, <1>4, <1>5, <1>6, <1>7, <1>8
     DEF ConfigStep, PanelNext, SaveStep, StartWorker, Poll, Login, Logout,
         OpenForm, EditForm, configVars, window

-----------------------------------------------------------------------------
(* The invariant of the service.                                           *)

(* The invariant holds at first.                                           *)
LEMMA ConfigStarts == Init => ConfigInv
<1> SUFFICES ASSUME Init PROVE ConfigInv
  OBVIOUS
<1> USE ServiceAssumption DEF Init, ConfigInit, MigrationInit
<1>1. ConfigTypes
  <2>1. bound \in Bounds /\ bound.faults \in Nat
        /\ edits \in [EditKinds -> 0..MaxEdits] /\ saves \in 0..MaxSaves
    BY DEF BoundRecord
  <2>2. (CHOOSE p \in Servers : TRUE) \in Processes
    OBVIOUS
  <2>3. file.state = "whole" /\ faults \in 0..bound.faults
    BY <2>1 DEF Whole
  <2>4. at \in [Operators -> Processes]
    BY <2>2
  <2>5. /\ memory = [p \in Processes |-> memory[p]]
        /\ form = [o \in Operators |-> form[o]]
        /\ base = [o \in Operators |-> base[o]]
        /\ draft = [o \in Operators |-> draft[o]]
    OBVIOUS
  <2>6. /\ worker \in [Processes -> {"off", "ready"}]
        /\ handler \in
             [Operators -> {"idle", "truncate", "write", "remember"}]
        /\ crossed \in [Operators -> BOOLEAN]
        /\ live = {} /\ mishap = {} /\ beside = {} /\ apart = {}
    OBVIOUS
  <2> QED
    BY ONLY <2>1, <2>3, <2>4, <2>5, <2>6 DEF ConfigTypes
<1>2. \A c : Kept(c) => c = First
  BY DEF Kept, Whole
<1>3. KeptOK /\ NoPlaceholder /\ AllAtHome
  BY <1>2, FirstAssumption DEF KeptOK, NoPlaceholder, AllAtHome
<1>4. MemoryOK /\ DraftsOK /\ FormsOK /\ Alone /\ Undisturbed /\ Agreed
  BY DEF MemoryOK, DraftsOK, FormsOK, Alone, Undisturbed, Agreed
<1> QED
  BY <1>1, <1>3, <1>4 DEF ConfigInv

(* It holds after every step.                                              *)
LEMMA ConfigNext ==
  ASSUME MigrationInv, ConfigInv, [Next]_vars
  PROVE  ConfigInv'
<1>1. stage \in [Processes -> Stages]
  BY DEF MigrationInv, MigrationTypeOK
<1>2. ConfigStep /\ UNCHANGED bound /\ (UNCHANGED faults \/ Fault)
  BY <1>1, ConfigSteps DEF ConfigInv, ConfigTypes
<1> QED
  BY <1>1, <1>2, ConfigTypesNext, MemoryNext, DraftsNext, FormsNext,
     KeptOKNext, NoPlaceholderNext, AllAtHomeNext, AloneNext,
     UndisturbedNext, AgreedNext
  DEF ConfigInv

(* update_config and load_config: what is stored anywhere is a             *)
(* configuration that was first there, or a form with its secrets put in,  *)
(* and a copy is the file unless a write is under way or went wrong.       *)
THEOREM ConfigIsSound == Spec => []ConfigInv
<1>1. MigrationInv /\ ConfigInv /\ [Next]_vars => ConfigInv'
  BY ConfigNext
<1> QED
  BY <1>1, ConfigStarts, MigrationsAreSound, PTL DEF Spec

(* main, web::serve and worker::run: every variable keeps its type, and a  *)
(* process has a configuration just as long as it is there.                *)
THEOREM ServiceTypes == Spec => []TypeOK
<1>1. MigrationInv /\ ConfigInv => TypeOK
  BY DEF MigrationInv, ConfigInv, ConfigTypes, MemoryOK, TypeOK
<1> QED
  BY <1>1, ConfigIsSound, MigrationsAreSound, PTL

(* update_config: no save of a form in order writes the placeholder over a *)
(* secret, in the file or in the copy of a process.                        *)
THEOREM NoPlaceholderStored == Spec => []PlaceholderNeedsCause
<1>1. ConfigInv => PlaceholderNeedsCause
  BY DEF ConfigInv, NoPlaceholder, Kept, PlaceholderNeedsCause
<1> QED
  BY <1>1, ConfigIsSound, PTL

(* renamed_mcp_server_matches: renaming, adding and removing servers and   *)
(* their variables gives none the secret of another, unless a form was     *)
(* stale, reused a name or made a server look like another that went.      *)
THEOREM SecretsAreHome == Spec => []SecretsStayHome
<1>1. ConfigInv => SecretsStayHome
  BY DEF ConfigInv, AllAtHome, Kept, SecretsStayHome
<1> QED
  BY <1>1, ConfigIsSound, PTL

(* update_config: between saves the panel of a process shows the file, but *)
(* for the other processes, overlapping saves and writes cut short.        *)
THEOREM PanelIsFile == Spec => []PanelShowsFile
<1>1. ConfigInv => PanelShowsFile
  BY DEF ConfigInv, ConfigTypes, Agreed, PanelShowsFile, Busy
<1> QED
  BY <1>1, ConfigIsSound, PTL
=============================================================================

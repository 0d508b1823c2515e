--------------------------- MODULE SentSyncProofs ---------------------------
(***************************************************************************)
(* Safety of SentSync for any number of workers, folders and mails and any *)
(* batch size: unless a batch overtook a widened window, the cursor covers *)
(* only stored mails, and the inbox is reached with the history stored.    *)
(***************************************************************************)
EXTENDS SentSync, TLAPS, FiniteSetTheorems, WellFoundedInduction

(* A cursor that promises no more than is stored.                          *)
Covers(c) ==
  c.folder # NoFolder =>
    /\ c.last \in 0..Len(date[c.folder])
    /\ raced \/ \A uid \in Window(c.folder, c.cutoff) :
                   uid <= c.last => <<c.folder, uid>> \in recorded

(* What is stored once the batch of w is.                                  *)
Stored(w) == recorded \cup ({batch[w].folder} \X batch[w].uids)

(* A batch closes the gap between the cursor and its last mail, and a      *)
(* complete one holds whatever of the window was not stored.               *)
BatchOK(w) ==
  LET b == batch[w] IN
  /\ b.folder \in Folders
  /\ b.uids \subseteq 1..Len(date[b.folder])
  /\ b.since <= want[w]
  /\ raced \/ \A uid \in Window(b.folder, b.since) :
                 uid <= LastUid(b.uids) => <<b.folder, uid>> \in Stored(w)
  /\ raced \/ (b.complete => owed[w] \subseteq Stored(w))

WorkerOK(w) ==
  /\ pc[w] \in {"idle", "read", "fetch"} => owed[w] = {}
  /\ pc[w] \in {"read", "fetch"} => conf[w].folder \in Folders
  /\ pc[w] = "fetch" => Covers(cursor[w])
  /\ pc[w] \in {"insert", "save"} => BatchOK(w)
  /\ pc[w] = "save" => Stored(w) \subseteq recorded
  /\ pc[w] = "inbox" => raced \/ owed[w] \subseteq recorded

IInv ==
  /\ TypeOK
  /\ now >= Start
  /\ Covers(row.cursor)
  /\ \A w \in Workers : WorkerOK(w)

-----------------------------------------------------------------------------
(* Days, windows and batches.                                              *)

(* An earlier cutoff, or one on the same day, opens as wide a window.      *)
LEMMA WindowGrows ==
  ASSUME NEW f \in Folders, NEW s, NEW t, Midnights(s) \subseteq Midnights(t)
  PROVE  Window(f, t) \subseteq Window(f, s)
  BY DEF Window, Since

(* A later tick is on the same day or a later one.                         *)
LEMMA MidnightsGrow ==
  ASSUME NEW s \in Nat, NEW t \in Nat, s <= t
  PROVE  Midnights(s) \subseteq Midnights(t)
  BY DEF Midnights

(* Some mails of a folder are a finite set of numbers.                     *)
LEMMA UidsFinite ==
  ASSUME NEW n \in Nat, NEW S \in SUBSET (1..n)
  PROVE  IsFiniteSet(S) /\ Cardinality(S) \in Nat
<1>1. IsFiniteSet(1..n)
  BY FS_Interval
<1> QED BY <1>1, FS_Subset, FS_CardinalityType

(* A truncated batch leaves no hole before its last mail.                  *)
LEMMA FirstsHaveNoHole ==
  ASSUME NEW n \in Nat, NEW S \in SUBSET (1..n), NEW u \in S,
         NEW v \in Firsts(S), u <= v
  PROVE  u \in Firsts(S)
<1> DEFINE Below(x) == {y \in S : y < x}
<1>1. v \in S /\ Cardinality(Below(v)) < BatchSize
  BY DEF Firsts
<1>2. Below(u) \subseteq Below(v) /\ Below(v) \in SUBSET (1..n)
  <2>1. \A y \in S : y \in Nat /\ (y < u => y < v)
    BY <1>1
  <2> QED BY <2>1
<1>3. IsFiniteSet(Below(v)) /\ Cardinality(Below(v)) \in Nat
  BY <1>2, UidsFinite
<1>4. Cardinality(Below(u)) <= Cardinality(Below(v))
  BY <1>2, <1>3, FS_Subset
<1>5. Cardinality(Below(u)) \in Nat
  BY <1>2, UidsFinite
<1> QED BY <1>1, <1>3, <1>4, <1>5, SyncAssumption DEF Firsts

(* A batch that need not be truncated is not.                              *)
LEMMA CompleteIsAll ==
  ASSUME NEW n \in Nat, NEW S \in SUBSET (1..n), Cardinality(S) <= BatchSize
  PROVE  Firsts(S) = S
<1>1. SUFFICES ASSUME NEW u \in S
               PROVE  Cardinality({y \in S : y < u}) < BatchSize
  BY DEF Firsts
<1> DEFINE Below == {y \in S : y < u}
<1>2. Below \subseteq S /\ Below # S
  BY <1>1
<1>3. IsFiniteSet(S) /\ Cardinality(S) \in Nat
  BY UidsFinite
<1>4. Cardinality(Below) < Cardinality(S)
  BY <1>2, <1>3, FS_Subset, FS_CardinalityType
<1>5. Cardinality(Below) \in Nat
  BY <1>2, UidsFinite
<1> QED BY <1>3, <1>4, <1>5, SyncAssumption

(* A set of numbers that is not empty has a smallest one.                  *)
LEMMA SmallestNumber ==
  ASSUME NEW T, T \subseteq Nat, T # {}
  PROVE  \E x \in T : \A y \in T : x <= y
<1> DEFINE R == OpToRel(<, Nat)
<1>1. IsWellFoundedOn(R, Nat)
  BY NatLessThanWellFounded
<1>2. \A x, y \in Nat : x < y => <<x, y>> \in R
  BY DEF OpToRel
<1> HIDE DEF R
<1>3. PICK x \in T : \A y \in T : ~(<<y, x>> \in R)
  BY <1>1, WFMin
<1>4. ASSUME NEW y \in T PROVE x <= y
  <2>1. x \in Nat /\ y \in Nat
    OBVIOUS
  <2>2. ~(y < x)
    BY <1>2, <1>3, <2>1
  <2> QED BY <2>1, <2>2
<1> QED BY <1>4

(* A set of UIDs that is not empty has a largest one.                      *)
LEMMA LargestUid ==
  ASSUME NEW n \in Nat, NEW S \in SUBSET (1..n), S # {}
  PROVE  \E u \in S : \A v \in S : v <= u
<1> DEFINE T == {n - v : v \in S}
<1>1. T \subseteq Nat /\ T # {}
  <2>1. \A v \in S : n - v \in Nat
    OBVIOUS
  <2> QED BY <2>1
<1>2. PICK k \in T : \A j \in T : k <= j
  <2> HIDE DEF T
  <2> QED BY <1>1, SmallestNumber
<1>3. PICK u \in S : k = n - u
  BY <1>2
<1>4. ASSUME NEW v \in S PROVE v <= u
  <2>1. n - v \in T
    OBVIOUS
  <2>2. n - u <= n - v
    BY <1>2, <1>3, <2>1
  <2> QED BY <2>2
<1> QED BY <1>4

(* The last UID of a batch is its largest.                                 *)
LEMMA LastUidIsLast ==
  ASSUME NEW n \in Nat, NEW S \in SUBSET (1..n)
  PROVE  /\ LastUid(S) \in 0..n
         /\ S # {} => LastUid(S) \in S
         /\ \A v \in S : v <= LastUid(S)
<1>1. CASE S = {}
  BY <1>1 DEF LastUid
<1>2. CASE S # {}
  <2>1. \E u \in S : \A v \in S : v <= u
    BY <1>2, LargestUid
  <2>2. LastUid(S) = CHOOSE u \in S : \A v \in S : v <= u
    BY <1>2 DEF LastUid
  <2>3. LastUid(S) \in S /\ \A v \in S : v <= LastUid(S)
    BY <2>1, <2>2, Zenon
  <2>4. LastUid(S) \in 1..n
    <3> DEFINE last == LastUid(S)
    <3>1. last \in S
      BY <2>3
    <3> HIDE DEF last
    <3>2. last \in 1..n
      BY <3>1
    <3> QED BY <3>2 DEF last
  <2>5. LastUid(S) \in 0..n
    BY <2>4
  <2> QED BY <2>3, <2>5, Zenon
<1> QED BY <1>1, <1>2
-----------------------------------------------------------------------------
(* Types.                                                                  *)

(* A poll that ends leaves well-typed local state.                         *)
LEMMA StopType ==
  ASSUME TypeOK, NEW w \in Workers, Stop(w)
  PROVE  /\ pc' \in [Workers ->
                     {"idle", "read", "fetch", "insert", "save", "inbox"}]
         /\ conf' \in [Workers -> [folder : Folders \cup {NoFolder},
                                   window : Windows \cup {0}]]
         /\ cursor' \in [Workers -> Cursor]
         /\ want' \in [Workers -> Nat]
         /\ batch' \in [Workers ->
                          [folder : Folders \cup {NoFolder}, since : Nat,
                           uids : SUBSET Nat, complete : BOOLEAN]]
         /\ owed' \in [Workers -> SUBSET (Folders \X Nat)]
  BY DEF TypeOK, Stop, NoConf, NoCursor, NoBatch, Cursor

(* The constants that types are made of.                                   *)
LEMMA ConstantsType ==
  /\ Start \in Nat /\ Dates \subseteq Nat
  /\ MaxTime \in Nat /\ MaxEdits \in Nat /\ MaxFaults \in Nat
  BY SyncAssumption

(* The fault budget is never overdrawn.                                    *)
LEMMA FaultType ==
  ASSUME faults \in 0..MaxFaults, Fault
  PROVE  faults' \in 0..MaxFaults
  BY ConstantsType DEF Fault

(* A window of days is a time before the clock.                            *)
LEMMA CutoffType ==
  ASSUME NEW d \in Windows \cup {0}, now \in Nat, now >= Start
  PROVE  now - d * DayLength \in Nat
<1>1. d \in Nat /\ d * DayLength <= Start
  BY SyncAssumption
<1>2. d * DayLength \in Nat
  BY <1>1, SyncAssumption
<1> QED BY <1>1, <1>2, SyncAssumption

(* Mails found are mails of the folder.                                    *)
LEMMA FoundType ==
  ASSUME date \in [Folders -> Seq(Nat)], NEW f \in Folders,
         NEW last, NEW cutoff
  PROVE  /\ Len(date[f]) \in Nat
         /\ Window(f, cutoff) \subseteq 1..Len(date[f])
         /\ Found(f, last, cutoff) \subseteq 1..Len(date[f])
         /\ Firsts(Found(f, last, cutoff)) \subseteq 1..Len(date[f])
  BY DEF Window, Found, Firsts

(* The merged row is a row.                                                *)
LEMMA MergedType ==
  ASSUME row \in Row, NEW b, b.folder \in Folders, b.complete \in BOOLEAN,
         LastUid(b.uids) \in Nat, NEW cutoff \in Nat
  PROVE  Merged(b, cutoff) \in Row
  BY DEF Merged, Row, Cursor

(* Every step keeps every type.                                            *)
LEMMA TypeStep ==
  ASSUME IInv, [Next]_vars
  PROVE  TypeOK' /\ now' >= Start
<1>. TypeOK /\ now >= Start /\ \A w \in Workers : WorkerOK(w)
  BY DEF IInv
<1> USE DEF TypeOK
<1>1. ASSUME NEW w \in Workers, Poll(w) PROVE TypeOK' /\ now' >= Start
  BY <1>1 DEF Poll, store, world
<1>2. ASSUME NEW w \in Workers, ReadCursor(w) PROVE TypeOK' /\ now' >= Start
  <2>1. CASE Stop(w) /\ Fault
    BY <1>2, <2>1, StopType, FaultType DEF ReadCursor, store, world
  <2>2. CASE ~(Stop(w) /\ Fault)
    <3>1. now - conf[w].window * DayLength \in Nat
      BY CutoffType
    <3>2. row.cursor \in Cursor
      BY DEF Row
    <3>3. want' \in [Workers -> Nat] /\ cursor' \in [Workers -> Cursor]
      <4> DEFINE cutoff == now - conf[w].window * DayLength
      <4>1. /\ want' = [want EXCEPT ![w] = cutoff]
            /\ cursor' = [cursor EXCEPT ![w] = row.cursor]
        BY <1>2, <2>2 DEF ReadCursor
      <4> HIDE DEF cutoff
      <4> QED BY <3>1, <3>2, <4>1 DEF cutoff
    <3> QED BY <1>2, <2>2, <3>3 DEF ReadCursor, store, world
  <2> QED BY <2>1, <2>2
<1>3. ASSUME NEW w \in Workers, FetchSent(w) PROVE TypeOK' /\ now' >= Start
  <2>1. CASE Stop(w) /\ Fault
    BY <1>3, <2>1, StopType, FaultType DEF FetchSent, store, world
  <2>2. CASE ~(Stop(w) /\ Fault)
    <3> DEFINE since(f) == FromDate(cursor[w], f, want[w])
               uids(f) == Found(f, FromUid(cursor[w], f, want[w]), since(f))
               found(f) == [folder |-> f, since |-> since(f),
                            uids |-> Firsts(uids(f)),
                            complete |-> Cardinality(uids(f)) <= BatchSize]
    <3>1. PICK f \in {conf[w].folder, folder} :
            /\ batch' = [batch EXCEPT ![w] = found(f)]
            /\ owed' = [owed EXCEPT ![w] = {f} \X Window(f, want[w])]
      BY <1>3, <2>2 DEF FetchSent
    <3>2. f \in Folders
      BY <1>3, <3>1 DEF WorkerOK, FetchSent
    <3>3. since(f) \in Nat
      BY DEF FromDate, Cursor
    <3>4. Window(f, want[w]) \subseteq Nat /\ Firsts(uids(f)) \subseteq Nat
      <4> DEFINE n == Len(date[f])
      <4>1. date \in [Folders -> Seq(Nat)]
        OBVIOUS
      <4>2. /\ n \in Nat
            /\ Window(f, want[w]) \subseteq 1..n
            /\ Firsts(uids(f)) \subseteq 1..n
        BY <3>2, <4>1, FoundType
      <4> HIDE DEF n, uids
      <4> QED BY <4>2
    <3> HIDE DEF since, uids
    <3>5. batch' \in [Workers ->
                        [folder : Folders \cup {NoFolder}, since : Nat,
                         uids : SUBSET Nat, complete : BOOLEAN]]
      <4>1. found(f) \in [folder : Folders \cup {NoFolder}, since : Nat,
                          uids : SUBSET Nat, complete : BOOLEAN]
        BY <3>2, <3>3, <3>4
      <4> QED BY <3>1, <4>1
    <3>6. owed' \in [Workers -> SUBSET (Folders \X Nat)]
      BY <3>1, <3>2, <3>4
    <3> QED BY <1>3, <2>2, <3>5, <3>6 DEF FetchSent, store, world
  <2> QED BY <2>1, <2>2
<1>4. ASSUME NEW w \in Workers, InsertSent(w) PROVE TypeOK' /\ now' >= Start
  <2>1. {batch[w].folder} \X batch[w].uids \subseteq Folders \X Nat
    BY <1>4 DEF InsertSent, WorkerOK, BatchOK
  <2>2. recorded' \subseteq Folders \X Nat
    BY <1>4, <2>1 DEF InsertSent
  <2>3. CASE Stop(w) /\ Fault
    BY <1>4, <2>2, <2>3, StopType, FaultType DEF InsertSent, world
  <2>4. CASE ~(Stop(w) /\ Fault)
    BY <1>4, <2>2, <2>4 DEF InsertSent, world
  <2> QED BY <2>3, <2>4
<1>5. ASSUME NEW w \in Workers, SaveCursor(w) PROVE TypeOK' /\ now' >= Start
  <2>1. /\ batch[w].folder \in Folders
        /\ LastUid(batch[w].uids) \in Nat
    <3>1. /\ batch[w].folder \in Folders
          /\ batch[w].uids \subseteq 1..Len(date[batch[w].folder])
      BY <1>5 DEF SaveCursor, WorkerOK, BatchOK
    <3>2. Len(date[batch[w].folder]) \in Nat
      BY <3>1
    <3>3. \A n \in Nat : \A S \in SUBSET (1..n) : LastUid(S) \in 0..n
      BY LastUidIsLast
    <3>4. LastUid(batch[w].uids) \in 0..Len(date[batch[w].folder])
      BY <3>1, <3>2, <3>3, Zenon
    <3> QED BY <3>1, <3>2, <3>4
  <2>2. Merged(batch[w], want[w]) \in Row
    BY <2>1, MergedType
  <2>3. row' \in Row /\ raced' \in BOOLEAN
    BY <1>5, <2>2 DEF SaveCursor, Overtakes
  <2>4. CASE Stop(w)
    BY <1>5, <2>3, <2>4, StopType, FaultType DEF SaveCursor, world
  <2>5. CASE ~Stop(w)
    BY <1>5, <2>3, <2>5 DEF SaveCursor, world
  <2> QED BY <2>4, <2>5
<1>6. ASSUME NEW w \in Workers, ProcessInbox(w) PROVE TypeOK' /\ now' >= Start
  BY <1>6, StopType DEF ProcessInbox, store, world
<1>7. ASSUME NEW w \in Workers, Crash(w) PROVE TypeOK' /\ now' >= Start
  BY <1>7, StopType, FaultType DEF Crash, store, world
<1>8. ASSUME NEW f \in Folders, Arrive(f) PROVE TypeOK' /\ now' >= Start
  <2>1. date' \in [Folders -> Seq(Nat)]
    BY <1>8, ConstantsType DEF Arrive
  <2> QED BY <1>8, <2>1 DEF Arrive, local, store
<1>9. ASSUME Tick PROVE TypeOK' /\ now' >= Start
  BY <1>9, ConstantsType DEF Tick, local, store
<1>10. ASSUME Edit PROVE TypeOK' /\ now' >= Start
  BY <1>10, ConstantsType DEF Edit, local, store
<1>11. CASE UNCHANGED vars
  BY <1>11 DEF vars, local, store, world
<1> QED
  BY <1>1, <1>2, <1>3, <1>4, <1>5, <1>6, <1>7, <1>8, <1>9, <1>10, <1>11
  DEF Next, Progress
-----------------------------------------------------------------------------
(* What a step does not disturb.                                           *)

(* Nothing stored is lost, no mail is renumbered or redated.               *)
Grows ==
  /\ recorded \subseteq recorded'
  /\ raced => raced'
  /\ \A f \in Folders :
       /\ Len(date[f]) <= Len(date'[f])
       /\ \A uid \in 1..Len(date[f]) : date'[f][uid] = date[f][uid]

(* The window over the mails that were there stays the same.               *)
LEMMA WindowKept ==
  ASSUME TypeOK, TypeOK', Grows, NEW f \in Folders, NEW cutoff
  PROVE  Window(f, cutoff)' \cap (1..Len(date[f])) = Window(f, cutoff)
<1>1. Len(date[f]) \in Nat /\ Len(date'[f]) \in Nat
  BY DEF TypeOK
<1>2. 1..Len(date[f]) \subseteq 1..Len(date'[f])
  BY <1>1 DEF Grows
<1>3. ASSUME NEW uid \in 1..Len(date[f])
      PROVE  Since(f, uid, cutoff)' <=> Since(f, uid, cutoff)
  BY <1>3 DEF Grows, Since, Midnights
<1> QED BY <1>2, <1>3 DEF Window

(* A cursor keeps its promise.                                             *)
LEMMA CoversKept ==
  ASSUME TypeOK, TypeOK', Grows, NEW c \in Cursor, Covers(c)
  PROVE  Covers(c)'
<1>1. SUFFICES ASSUME c.folder # NoFolder
               PROVE  /\ c.last \in 0..Len(date'[c.folder])
                      /\ raced' \/ \A uid \in Window(c.folder, c.cutoff)' :
                           uid <= c.last => <<c.folder, uid>> \in recorded'
  BY DEF Covers
<1>2. c.folder \in Folders
  BY <1>1 DEF Cursor
<1>3. Len(date[c.folder]) \in Nat /\ Len(date'[c.folder]) \in Nat
  BY <1>2 DEF TypeOK
<1>4. c.last \in 0..Len(date[c.folder])
  BY <1>1 DEF Covers
<1>5. c.last \in 0..Len(date'[c.folder])
  BY <1>2, <1>3, <1>4 DEF Grows
<1>6. ASSUME ~raced', NEW uid \in Window(c.folder, c.cutoff)', uid <= c.last
      PROVE  <<c.folder, uid>> \in recorded'
  <2>1. uid \in 1..Len(date[c.folder])
    BY <1>3, <1>4, <1>6 DEF Window
  <2>2. uid \in Window(c.folder, c.cutoff)
    BY <1>2, <1>6, <2>1, WindowKept
  <2> QED BY <1>1, <1>6, <2>2 DEF Covers, Grows
<1> QED BY <1>5, <1>6

(* So does a batch.                                                        *)
LEMMA BatchKept ==
  ASSUME TypeOK, TypeOK', Grows, NEW w \in Workers, BatchOK(w),
         batch'[w] = batch[w], want'[w] = want[w], owed'[w] = owed[w]
  PROVE  BatchOK(w)'
<1> DEFINE f == batch[w].folder
           n == Len(date[f])
           uids == batch[w].uids
<1>1. f \in Folders /\ uids \in SUBSET (1..n) /\ n \in Nat
  BY DEF BatchOK, TypeOK
<1>2. n <= Len(date'[f]) /\ Len(date'[f]) \in Nat
  BY <1>1 DEF Grows, TypeOK
<1>3. uids \subseteq 1..Len(date'[f])
  BY <1>1, <1>2
<1>4. LastUid(uids) \in 0..n
  <2> HIDE DEF n, uids
  <2> QED BY <1>1, LastUidIsLast
<1>5. Stored(w) \subseteq Stored(w)'
  BY DEF Stored, Grows
<1>6. ASSUME ~raced', NEW uid \in Window(f, batch[w].since)',
             uid <= LastUid(uids)
      PROVE  <<f, uid>> \in Stored(w)'
  <2>1. uid \in 1..n
    BY <1>1, <1>4, <1>6 DEF Window
  <2>2. uid \in Window(f, batch[w].since)
    BY <1>1, <1>6, <2>1, WindowKept
  <2> QED BY <1>5, <1>6, <2>2 DEF BatchOK, Grows
<1>7. raced' \/ (batch[w].complete => owed[w] \subseteq Stored(w)')
  BY <1>5 DEF BatchOK, Grows
<1>8. LastUid(batch[w].uids)' = LastUid(batch[w].uids)
  BY DEF LastUid
<1> QED BY <1>1, <1>3, <1>6, <1>7, <1>8 DEF BatchOK

(* A worker that does not move is not disturbed by growth.                 *)
LEMMA WorkerKept ==
  ASSUME TypeOK, TypeOK', Grows, NEW v \in Workers, WorkerOK(v),
         pc'[v] = pc[v], conf'[v] = conf[v], cursor'[v] = cursor[v],
         want'[v] = want[v], batch'[v] = batch[v], owed'[v] = owed[v]
  PROVE  WorkerOK(v)'
<1>1. pc[v] = "fetch" => Covers(cursor[v])'
  <2>1. SUFFICES ASSUME pc[v] = "fetch" PROVE Covers(cursor[v])'
    OBVIOUS
  <2>2. cursor[v] \in Cursor /\ Covers(cursor[v])
    BY <2>1 DEF TypeOK, WorkerOK
  <2>3. \A c \in Cursor : Covers(c) => Covers(c)'
    BY CoversKept
  <2> QED BY <2>2, <2>3 DEF Covers, Window, Since
<1>2. pc[v] \in {"insert", "save"} => BatchOK(v)'
  BY BatchKept DEF WorkerOK
<1>3. pc[v] = "save" => Stored(v)' \subseteq recorded'
  BY DEF WorkerOK, Stored, Grows
<1>4. pc[v] = "inbox" => raced' \/ owed[v] \subseteq recorded'
  BY DEF WorkerOK, Grows
<1> QED BY <1>1, <1>2, <1>3, <1>4 DEF WorkerOK
-----------------------------------------------------------------------------
(* The two halves of the argument: a batch closes the gap after the cursor *)
(* it was searched from, and the row it is merged into stays covered.      *)

LEMMA FetchCloses ==
  ASSUME TypeOK, ~raced, NEW c \in Cursor, Covers(c), NEW f \in Folders,
         NEW cutoff \in Nat,
         NEW since, since = FromDate(c, f, cutoff),
         NEW uids, uids = Found(f, FromUid(c, f, cutoff), since)
  PROVE  /\ since <= cutoff
         /\ \A uid \in Window(f, since) : uid <= LastUid(Firsts(uids)) =>
              <<f, uid>> \in recorded \cup ({f} \X Firsts(uids))
         /\ Cardinality(uids) <= BatchSize =>
              {f} \X Window(f, cutoff) \subseteq
                recorded \cup ({f} \X Firsts(uids))
<1> DEFINE n == Len(date[f])
<1>1. /\ n \in Nat /\ Window(f, since) \subseteq 1..n
      /\ uids \in SUBSET (1..n) /\ Firsts(uids) \in SUBSET (1..n)
  BY FoundType DEF TypeOK
<1>2. since \in Nat /\ since <= cutoff
  BY DEF FromDate, Resumes, Cursor
<1>3. ASSUME NEW uid \in Window(f, since), uid \notin uids
      PROVE  <<f, uid>> \in recorded
  <2>1. uid \in Nat /\ uid <= FromUid(c, f, cutoff)
    <3>1. uid \in 1..n /\ ~(uid > FromUid(c, f, cutoff))
      BY <1>1, <1>3 DEF Found
    <3>2. FromUid(c, f, cutoff) \in Nat
      BY DEF FromUid, Cursor
    <3> QED BY <3>1, <3>2
  <2>2. Resumes(c, f, cutoff)
    <3>1. uid # 0
      BY <1>1, <1>3
    <3> QED BY <2>1, <3>1 DEF FromUid
  <2>3. c.folder = f /\ since = c.cutoff /\ uid <= c.last /\ f # NoFolder
    BY <2>1, <2>2, SyncAssumption DEF FromUid, FromDate, Resumes
  <2> QED BY <1>3, <2>3 DEF Covers
<1>4. ASSUME NEW uid \in Window(f, since), uid <= LastUid(Firsts(uids))
      PROVE  <<f, uid>> \in recorded \cup ({f} \X Firsts(uids))
  <2>1. CASE uid \notin uids
    BY <1>3, <2>1
  <2>2. CASE uid \in uids
    <3>1. uid # 0
      BY <1>1
    <3>2. LastUid(Firsts(uids)) \in Firsts(uids)
      <4> HIDE DEF n
      <4>1. LastUid(Firsts(uids)) # 0
        <5>1. uid \in 1..n
          BY <1>1
        <5>2. LastUid(Firsts(uids)) \in 0..n
          BY <1>1, LastUidIsLast
        <5> QED BY <1>1, <1>4, <5>1, <5>2
      <4>2. Firsts(uids) # {}
        BY <4>1 DEF LastUid
      <4> QED BY <1>1, <4>2, LastUidIsLast
    <3>3. uid \in Firsts(uids)
      <4> HIDE DEF n
      <4> QED BY <1>1, <1>4, <2>2, <3>2, FirstsHaveNoHole
    <3> QED BY <3>3
  <2> QED BY <2>1, <2>2
<1>5. ASSUME Cardinality(uids) <= BatchSize
      PROVE  {f} \X Window(f, cutoff) \subseteq
               recorded \cup ({f} \X Firsts(uids))
  <2>1. Firsts(uids) = uids
    <3> HIDE DEF n
    <3> QED BY <1>1, <1>5, CompleteIsAll
  <2>2. Window(f, cutoff) \subseteq Window(f, since)
    BY <1>2, MidnightsGrow, WindowGrows
  <2> QED BY <1>3, <2>1, <2>2
<1> QED BY <1>2, <1>4, <1>5

(* The step of a worker that fetches.                                      *)
LEMMA FetchedIsOK ==
  ASSUME TypeOK, TypeOK', NEW w \in Workers, WorkerOK(w), FetchSent(w),
         ~Stop(w)
  PROVE  BatchOK(w)' /\ pc'[w] = "insert"
<1>1. PICK f, since, uids :
        /\ f \in {conf[w].folder, folder}
        /\ since = FromDate(cursor[w], f, want[w])
        /\ uids = Found(f, FromUid(cursor[w], f, want[w]), since)
        /\ batch'[w] = [folder |-> f, since |-> since, uids |-> Firsts(uids),
                        complete |-> Cardinality(uids) <= BatchSize]
        /\ owed'[w] = {f} \X Window(f, want[w])
        /\ pc'[w] = "insert"
  <2> DEFINE from(f) == FromDate(cursor[w], f, want[w])
             found(f) == Found(f, FromUid(cursor[w], f, want[w]), from(f))
  <2>1. PICK f \in {conf[w].folder, folder} :
          /\ batch'[w] = [folder |-> f, since |-> from(f),
                          uids |-> Firsts(found(f)),
                          complete |-> Cardinality(found(f)) <= BatchSize]
          /\ owed'[w] = {f} \X Window(f, want[w])
          /\ pc'[w] = "insert"
    BY DEF FetchSent, TypeOK
  <2> WITNESS f, from(f), found(f)
  <2> QED BY <2>1
<1>2. UNCHANGED <<recorded, date, raced>> /\ want'[w] = want[w]
  BY DEF FetchSent, store, world
<1>3. /\ f \in Folders /\ cursor[w] \in Cursor /\ Covers(cursor[w])
      /\ want[w] \in Nat
  BY <1>1 DEF FetchSent, WorkerOK, TypeOK
<1>4. Firsts(uids) \subseteq 1..Len(date[f])
  BY <1>1, <1>3, FoundType DEF TypeOK
<1>5. since <= want[w]
  BY <1>1, <1>3 DEF FromDate, Resumes, Cursor
<1>6. ~raced =>
        /\ \A uid \in Window(f, since) : uid <= LastUid(Firsts(uids)) =>
             <<f, uid>> \in recorded \cup ({f} \X Firsts(uids))
        /\ Cardinality(uids) <= BatchSize =>
             {f} \X Window(f, want[w]) \subseteq
               recorded \cup ({f} \X Firsts(uids))
  BY <1>1, <1>3, FetchCloses
<1>7. Window(f, since)' = Window(f, since)
  BY <1>2 DEF Window, Since
<1>8. Stored(w)' = recorded \cup ({f} \X Firsts(uids))
  BY <1>1, <1>2 DEF Stored
<1>9. /\ batch'[w].folder = f /\ batch'[w].since = since
      /\ batch'[w].uids = Firsts(uids)
      /\ batch'[w].complete = (Cardinality(uids) <= BatchSize)
  BY <1>1
<1>10. /\ batch'[w].folder \in Folders /\ batch'[w].since <= want'[w]
       /\ batch'[w].uids \subseteq 1..Len(date'[batch'[w].folder])
  BY <1>2, <1>3, <1>4, <1>5, <1>9
<1>11. raced' \/ \A uid \in Window(f, since)' : uid <= LastUid(Firsts(uids)) =>
                    <<f, uid>> \in Stored(w)'
  BY <1>2, <1>6, <1>7, <1>8
<1>12. raced' \/ (batch'[w].complete => owed'[w] \subseteq Stored(w)')
  BY <1>1, <1>2, <1>6, <1>8, <1>9
<1> QED BY <1>1, <1>9, <1>10, <1>11, <1>12 DEF BatchOK, Window, Since

(* A stored batch leaves a covered cursor, unless it overtakes.            *)
LEMMA MergeCovers ==
  ASSUME TypeOK, Covers(row.cursor), NEW w \in Workers, BatchOK(w),
         Stored(w) \subseteq recorded,
         NEW c, c = Merged(batch[w], want[w]).cursor
  PROVE  /\ c.folder \in Folders
         /\ c.last \in 0..Len(date[c.folder])
         /\ \/ raced \/ Overtakes(batch[w], want[w])
            \/ \A uid \in Window(c.folder, c.cutoff) :
                 uid <= c.last => <<c.folder, uid>> \in recorded
<1> DEFINE b == batch[w]
           f == b.folder
           n == Len(date[f])
           top == LastUid(b.uids)
           old == row.cursor
<1>1. /\ f \in Folders /\ f # NoFolder /\ n \in Nat
      /\ b.uids \in SUBSET (1..n)
      /\ b.since \in Nat /\ b.since <= want[w] /\ want[w] \in Nat
  <2>1. f \in Folders /\ b.uids \in SUBSET (1..n) /\ b.since <= want[w]
    BY DEF BatchOK
  <2>2. b.since \in Nat /\ want[w] \in Nat
    BY DEF TypeOK
  <2>3. n \in Nat
    BY <2>1 DEF TypeOK
  <2>4. f # NoFolder
    BY <2>1, SyncAssumption
  <2> QED BY <2>1, <2>2, <2>3, <2>4
<1>2. top \in 0..n
  <2> HIDE DEF n, b
  <2> QED BY <1>1, LastUidIsLast
<1>3. old \in Cursor /\ row \in Row
  BY DEF TypeOK, Row
<1>4. \A s \in Nat : Window(f, s) \subseteq 1..n
  BY DEF Window
<1>5. ~raced => \A uid \in Window(f, b.since) :
                   uid <= top => <<f, uid>> \in recorded
  BY DEF BatchOK
<1>6. CASE Resumes(old, f, want[w])
  <2>1. /\ c.folder = f /\ c.cutoff = old.cutoff
        /\ c.last = IF top > old.last THEN top ELSE old.last
    <3>1. c = [old EXCEPT !.last = IF top > @ THEN top ELSE @]
      BY <1>6 DEF Merged
    <3>2. old.folder = f
      BY <1>6 DEF Resumes
    <3> QED BY <1>3, <3>1, <3>2 DEF Cursor
  <2>2. old.folder = f /\ old.last \in 0..n /\ old.cutoff \in Nat
    BY <1>1, <1>3, <1>6 DEF Resumes, Covers, Cursor
  <2>3. c.last \in 0..n
    BY <1>2, <2>1, <2>2
  <2>4. ASSUME ~raced, ~Overtakes(b, want[w]),
               NEW uid \in Window(f, old.cutoff), uid <= c.last
        PROVE  <<f, uid>> \in recorded
    <3>1. CASE uid <= old.last
      BY <1>1, <2>2, <2>4, <3>1 DEF Covers
    <3>2. CASE ~(uid <= old.last)
      <4>1. uid \in 1..n
        BY <1>4, <2>2
      <4>2. top > old.last /\ uid <= top
        BY <1>2, <2>1, <2>2, <2>4, <3>2, <4>1
      <4>3. Midnights(b.since) \subseteq Midnights(old.cutoff)
        BY <1>6, <2>4, <4>2 DEF Overtakes
      <4>4. uid \in Window(f, b.since)
        BY <1>1, <2>4, <4>3, WindowGrows
      <4> QED BY <1>5, <2>4, <4>2, <4>4
    <3> QED BY <3>1, <3>2
  <2> QED BY <1>1, <2>1, <2>3, <2>4
<1>7. CASE ~Resumes(old, f, want[w])
  <2>1. c.folder = f /\ c.cutoff = want[w] /\ c.last = top
    BY <1>7 DEF Merged
  <2>2. Window(f, want[w]) \subseteq Window(f, b.since)
    BY <1>1, MidnightsGrow, WindowGrows
  <2> QED BY <1>1, <1>2, <1>5, <2>1, <2>2
<1> QED BY <1>6, <1>7
-----------------------------------------------------------------------------
(* The invariant is kept.                                                  *)

(* A poll that ends owes nothing.                                          *)
LEMMA StopOK ==
  ASSUME TypeOK, NEW w \in Workers, Stop(w)
  PROVE  WorkerOK(w)'
<1>1. pc'[w] = "idle" /\ owed'[w] = {}
  BY DEF Stop, TypeOK
<1> QED BY <1>1 DEF WorkerOK

(* A worker moves alone.                                                   *)
LEMMA OthersStay ==
  ASSUME TypeOK, NEW w \in Workers, Progress(w) \/ Crash(w),
         NEW v \in Workers, v # w
  PROVE  /\ pc'[v] = pc[v] /\ conf'[v] = conf[v] /\ cursor'[v] = cursor[v]
         /\ want'[v] = want[v] /\ batch'[v] = batch[v] /\ owed'[v] = owed[v]
<1>1. CASE Stop(w)
  BY <1>1 DEF Stop, TypeOK
<1>2. CASE ~Stop(w)
  <2>1. Poll(w) \/ ReadCursor(w) \/ FetchSent(w) \/ InsertSent(w)
        \/ SaveCursor(w)
    BY <1>2 DEF Progress, ProcessInbox, Crash
  <2>2. CASE Poll(w)
    BY <2>2 DEF Poll, TypeOK
  <2>3. CASE ReadCursor(w)
    BY <1>2, <2>3 DEF ReadCursor, TypeOK
  <2>4. CASE FetchSent(w)
    BY <1>2, <2>4 DEF FetchSent, TypeOK
  <2>5. CASE InsertSent(w)
    BY <1>2, <2>5 DEF InsertSent, TypeOK
  <2>6. CASE SaveCursor(w)
    BY <1>2, <2>6 DEF SaveCursor, TypeOK
  <2> QED BY <2>1, <2>2, <2>3, <2>4, <2>5, <2>6
<1> QED BY <1>1, <1>2

(* No step shrinks what is stored or rewrites a folder.                    *)
LEMMA StepGrows ==
  ASSUME TypeOK, Next
  PROVE  Grows
<1> USE DEF Grows
<1>1. \A f \in Folders : Len(date[f]) \in Nat
  BY DEF TypeOK
<1>2. ASSUME NEW w \in Workers, Progress(w) \/ Crash(w) PROVE Grows
  <2>1. date' = date /\ recorded \subseteq recorded'
    BY <1>2 DEF Progress, Poll, ReadCursor, FetchSent, InsertSent,
                SaveCursor, ProcessInbox, Crash, world, store
  <2>2. raced => raced'
    BY <1>2 DEF Progress, Poll, ReadCursor, FetchSent, InsertSent,
                SaveCursor, ProcessInbox, Crash, world, store
  <2> QED BY <1>1, <2>1, <2>2
<1>3. ASSUME NEW g \in Folders, Arrive(g) PROVE Grows
  <2>1. recorded' = recorded /\ raced' = raced
    BY <1>3 DEF Arrive, store
  <2>2. PICK d \in Nat : date' = [date EXCEPT ![g] = Append(@, d)]
    BY <1>3, SyncAssumption DEF Arrive
  <2>3. ASSUME NEW f \in Folders
        PROVE  /\ Len(date[f]) <= Len(date'[f])
               /\ \A uid \in 1..Len(date[f]) : date'[f][uid] = date[f][uid]
    <3>1. date[f] \in Seq(Nat)
      BY DEF TypeOK
    <3>2. CASE f = g
      <4>1. date'[f] = Append(date[f], d)
        BY <2>2, <3>2 DEF TypeOK
      <4> QED BY <3>1, <4>1
    <3>3. CASE f # g
      <4>1. date'[f] = date[f]
        BY <2>2, <3>3 DEF TypeOK
      <4> QED BY <3>1, <4>1
    <3> QED BY <3>2, <3>3
  <2> QED BY <2>1, <2>3
<1>4. ASSUME Tick \/ Edit PROVE Grows
  <2>1. date' = date /\ recorded' = recorded /\ raced' = raced
    BY <1>4 DEF Tick, Edit, store
  <2> QED BY <1>1, <2>1
<1> QED BY <1>2, <1>3, <1>4 DEF Next

(* The heart of the argument: a fetch closes the gap, an insert stores it, *)
(* a save moves the cursor over it.                                        *)
LEMMA MoverKept ==
  ASSUME IInv, TypeOK', Grows, NEW w \in Workers, Progress(w) \/ Crash(w)
  PROVE  Covers(row.cursor)' /\ WorkerOK(w)'
<1> DEFINE b == batch[w]
<1>1. TypeOK /\ Covers(row.cursor) /\ WorkerOK(w) /\ row.cursor \in Cursor
  BY DEF IInv, TypeOK, Row
<1>2. row' = row => Covers(row.cursor)'
  <2>1. \A c \in Cursor : Covers(c) => Covers(c)'
    BY <1>1, CoversKept
  <2> QED BY <1>1, <2>1 DEF Covers, Window, Since
<1>3. CASE Poll(w)
  <2>1. /\ row' = row /\ owed'[w] = {} /\ pc'[w] \in {"inbox", "read"}
        /\ conf'[w].folder \in Folders
    BY <1>1, <1>3 DEF Poll, store, TypeOK, WorkerOK
  <2> QED BY <1>2, <2>1 DEF WorkerOK
<1>4. CASE ReadCursor(w) /\ ~Stop(w)
  <2>1. /\ row' = row /\ owed'[w] = {} /\ pc'[w] = "fetch"
        /\ conf'[w].folder \in Folders /\ cursor'[w] = row'.cursor
    BY <1>1, <1>4 DEF ReadCursor, store, TypeOK, WorkerOK
  <2>2. Covers(cursor[w])'
    BY <1>2, <2>1 DEF Covers, Window, Since
  <2> QED BY <1>2, <2>1, <2>2 DEF WorkerOK
<1>5. CASE FetchSent(w) /\ ~Stop(w)
  <2>1. row' = row
    BY <1>5 DEF FetchSent, store
  <2> QED BY <1>1, <1>2, <1>5, <2>1, FetchedIsOK DEF WorkerOK
<1>6. CASE InsertSent(w) /\ ~Stop(w)
  <2>1. /\ row' = row /\ pc'[w] = "save" /\ recorded' = Stored(w)
        /\ batch' = batch /\ want' = want /\ owed' = owed
    BY <1>1, <1>6 DEF InsertSent, Stored, TypeOK
  <2>2. BatchOK(w)
    BY <1>1, <1>6 DEF InsertSent, WorkerOK
  <2>3. BatchOK(w)'
    BY <1>1, <2>1, <2>2, BatchKept
  <2>4. Stored(w)' \subseteq recorded'
    BY <2>1 DEF Stored
  <2> QED BY <1>2, <2>1, <2>3, <2>4 DEF WorkerOK
<1>7. CASE SaveCursor(w) /\ ~(Stop(w) /\ row' = row)
  <2>1. /\ row' = Merged(b, want[w])
        /\ raced' = (raced \/ Overtakes(b, want[w]))
        /\ recorded' = recorded /\ date' = date
    BY <1>7 DEF SaveCursor, world
  <2>2. BatchOK(w) /\ Stored(w) \subseteq recorded
    BY <1>1, <1>7 DEF SaveCursor, WorkerOK
  <2>3. Covers(row.cursor)'
    BY <1>1, <2>1, <2>2, MergeCovers DEF Covers, Window, Since
  <2>4. raced' \/ (b.complete => owed[w] \subseteq recorded')
    BY <2>1, <2>2 DEF BatchOK
  <2>5. CASE Stop(w)
    BY <1>1, <2>3, <2>5, StopOK
  <2>6. CASE ~Stop(w)
    <3>1. b.complete /\ pc'[w] = "inbox" /\ owed' = owed
      BY <1>1, <1>7, <2>6 DEF SaveCursor, TypeOK
    <3> QED BY <2>3, <2>4, <3>1 DEF WorkerOK
  <2> QED BY <2>5, <2>6
<1>8. CASE Stop(w) /\ row' = row
  BY <1>1, <1>2, <1>8, StopOK
<1>9. CASE ProcessInbox(w) \/ Crash(w)
  <2>1. Stop(w) /\ row' = row
    BY <1>9 DEF ProcessInbox, Crash, store
  <2> QED BY <1>8, <2>1
<1>10. ReadCursor(w) \/ FetchSent(w) \/ InsertSent(w) => row' = row
  BY DEF ReadCursor, FetchSent, InsertSent, store
<1> QED
  BY <1>3, <1>4, <1>5, <1>6, <1>7, <1>8, <1>9, <1>10 DEF Progress

(* Every step keeps the invariant.                                         *)
LEMMA SyncStep ==
  ASSUME IInv, [Next]_vars
  PROVE  IInv'
<1>1. TypeOK /\ TypeOK' /\ now' >= Start
  BY TypeStep DEF IInv
<1>2. ASSUME Grows, local' = local, owed' = owed, row' = row PROVE IInv'
  <2>1. ASSUME NEW v \in Workers PROVE WorkerOK(v)'
    BY <1>1, <1>2, <2>1, WorkerKept DEF IInv, local
  <2>2. row.cursor \in Cursor /\ Covers(row.cursor)
    BY DEF IInv, TypeOK, Row
  <2>3. \A c \in Cursor : Covers(c) => Covers(c)'
    BY <1>1, <1>2, CoversKept
  <2>4. Covers(row.cursor)'
    BY <1>2, <2>2, <2>3 DEF Covers, Window, Since
  <2> QED BY <1>1, <2>1, <2>4 DEF IInv
<1>3. ASSUME NEW w \in Workers, Progress(w) \/ Crash(w) PROVE IInv'
  <2>1. Grows
    BY <1>1, <1>3, StepGrows DEF Next
  <2>2. Covers(row.cursor)' /\ WorkerOK(w)'
    BY <1>1, <1>3, <2>1, MoverKept
  <2>3. ASSUME NEW v \in Workers, v # w PROVE WorkerOK(v)'
    <3>1. WorkerOK(v)
      BY DEF IInv
    <3>2. /\ pc'[v] = pc[v] /\ conf'[v] = conf[v] /\ cursor'[v] = cursor[v]
          /\ want'[v] = want[v] /\ batch'[v] = batch[v]
          /\ owed'[v] = owed[v]
      BY <1>1, <1>3, <2>3, OthersStay
    <3> QED BY <1>1, <2>1, <3>1, <3>2, WorkerKept
  <2> QED BY <1>1, <2>2, <2>3 DEF IInv
<1>4. CASE UNCHANGED vars
  <2>1. \A f \in Folders : Len(date[f]) \in Nat
    BY <1>1 DEF TypeOK
  <2>2. Grows
    BY <1>4, <2>1 DEF Grows, vars, store, world
  <2> QED BY <1>2, <1>4, <2>2 DEF vars, local, store
<1>5. ASSUME NEW f \in Folders, Arrive(f) PROVE IInv'
  BY <1>1, <1>2, <1>5, StepGrows DEF Next, Arrive, store
<1>6. CASE Tick \/ Edit
  BY <1>1, <1>2, <1>6, StepGrows DEF Next, Tick, Edit, store
<1> QED BY <1>3, <1>4, <1>5, <1>6 DEF Next

(* Nobody works, nothing is stored, the cursor does not exist.             *)
LEMMA SyncInit == Init => IInv
<1>1. SUFFICES ASSUME Init PROVE IInv
  OBVIOUS
<1>2. TypeOK
  <2>1. /\ NoConf \in [folder : Folders \cup {NoFolder},
                       window : Windows \cup {0}]
        /\ NoCursor \in Cursor
        /\ NoBatch \in [folder : Folders \cup {NoFolder}, since : Nat,
                        uids : SUBSET Nat, complete : BOOLEAN]
    BY DEF NoConf, NoCursor, NoBatch, Cursor
  <2>2. NoRow \in Row
    BY <2>1 DEF NoRow, Row
  <2>3. <<>> \in Seq(Nat)
    OBVIOUS
  <2>4. date \in [Folders -> Seq(Nat)]
    BY <1>1, <2>3 DEF Init
  <2>5. /\ now \in Nat /\ edits \in 0..MaxEdits /\ faults \in 0..MaxFaults
        /\ want \in [Workers -> Nat]
    BY <1>1, ConstantsType DEF Init
  <2>6. /\ conf \in [Workers -> [folder : Folders \cup {NoFolder},
                                 window : Windows \cup {0}]]
        /\ cursor \in [Workers -> Cursor]
        /\ batch \in [Workers ->
                        [folder : Folders \cup {NoFolder}, since : Nat,
                         uids : SUBSET Nat, complete : BOOLEAN]]
    BY <1>1, <2>1 DEF Init
  <2> QED BY <1>1, <2>2, <2>4, <2>5, <2>6 DEF Init, TypeOK
<1>3. now >= Start
  BY <1>1, ConstantsType DEF Init
<1>4. Covers(row.cursor)
  BY <1>1 DEF Init, Covers, NoRow, NoCursor
<1>5. ASSUME NEW w \in Workers PROVE WorkerOK(w)
  BY <1>1 DEF Init, WorkerOK
<1> QED BY <1>1, <1>2, <1>3, <1>4, <1>5 DEF IInv

(* The invariant holds in every state of every behaviour.                  *)
LEMMA SyncInvariant == Spec => []IInv
<1>1. IInv /\ [Next]_vars => IInv'
  BY SyncStep
<1> QED BY SyncInit, <1>1, PTL DEF Spec

-----------------------------------------------------------------------------

(* Every variable has its type, for any number of workers.                 *)
THEOREM SyncTypeCorrect == Spec => []TypeOK
<1>1. IInv => TypeOK
  BY DEF IInv
<1> QED BY SyncInvariant, <1>1, PTL

(* The stored cursor covers only stored mails, unless a batch overtook a   *)
(* widened window: record_sent_batch may be cut short, repeated or run by  *)
(* several workers in any order.                                           *)
THEOREM CursorIsCovered == Spec => []CursorCovers
<1>1. IInv => CursorCovers
  BY DEF IInv, Covers, CursorCovers
<1> QED BY SyncInvariant, <1>1, PTL

(* process_mailbox runs only with the window's history stored, unless a    *)
(* batch overtook a widened window: the gate of worker.rs:153-158.         *)
THEOREM InboxHasHistory == Spec => []HistoryUnlessRaced
<1>1. IInv => HistoryUnlessRaced
  BY DEF IInv, WorkerOK, HistoryUnlessRaced, HistoryBeforeInbox
<1> QED BY SyncInvariant, <1>1, PTL

-----------------------------------------------------------------------------
(* A process that polls alone.                                             *)

Alone == \A v, w \in Workers : v = w

(* Nobody moves the cursor between the read and the save of a worker.      *)
Undisturbed(w) ==
  /\ pc[w] = "fetch" => cursor[w] = row.cursor
  /\ pc[w] \in {"insert", "save"} =>
       batch[w].since = FromDate(row.cursor, batch[w].folder, want[w])

AloneInv == raced = FALSE /\ \A w \in Workers : Undisturbed(w)

(* A batch searched from the cursor it is merged into overtakes nothing.   *)
LEMMA AloneStep ==
  ASSUME Alone, TypeOK, AloneInv, [Next]_vars
  PROVE  AloneInv'
<1>1. ASSUME UNCHANGED <<local, row, raced>> PROVE AloneInv'
  BY <1>1 DEF AloneInv, Undisturbed, local, FromDate, Resumes
<1>2. ASSUME NEW w \in Workers, Progress(w) \/ Crash(w) PROVE AloneInv'
  <2>1. SUFFICES raced' = FALSE /\ Undisturbed(w)'
    BY DEF Alone, AloneInv
  <2>2. raced = FALSE /\ Undisturbed(w)
    BY DEF AloneInv
  <2>3. Stop(w) => Undisturbed(w)'
    BY DEF Stop, TypeOK, Undisturbed
  <2>4. CASE Poll(w)
    BY <2>2, <2>4 DEF Poll, TypeOK, Undisturbed
  <2>5. CASE ReadCursor(w)
    <3>1. CASE Stop(w)
      BY <2>2, <2>3, <2>5, <3>1 DEF ReadCursor
    <3>2. CASE ~Stop(w)
      BY <2>2, <2>5, <3>2 DEF ReadCursor, TypeOK, Undisturbed, store
    <3> QED BY <3>1, <3>2
  <2>6. CASE FetchSent(w)
    <3>1. CASE Stop(w)
      BY <2>2, <2>3, <2>6, <3>1 DEF FetchSent
    <3>2. CASE ~Stop(w)
      <4>1. /\ pc'[w] = "insert" /\ row' = row /\ raced' = raced
            /\ want'[w] = want[w]
        BY <2>6, <3>2 DEF FetchSent, TypeOK, store
      <4>2. batch'[w].since = FromDate(cursor[w], batch'[w].folder, want[w])
        BY <2>6, <3>2 DEF FetchSent, TypeOK
      <4>3. cursor[w] = row.cursor
        BY <2>2, <2>6 DEF FetchSent, Undisturbed
      <4> QED BY <2>2, <4>1, <4>2, <4>3
              DEF Undisturbed, FromDate, Resumes
    <3> QED BY <3>1, <3>2
  <2>7. CASE InsertSent(w)
    <3>1. CASE Stop(w)
      BY <2>2, <2>3, <2>7, <3>1 DEF InsertSent
    <3>2. CASE ~Stop(w)
      <4>1. /\ pc[w] = "insert" /\ pc'[w] = "save" /\ row' = row
            /\ raced' = raced /\ batch' = batch /\ want' = want
        BY <2>7, <3>2 DEF InsertSent, TypeOK
      <4> QED BY <2>2, <4>1 DEF Undisturbed, FromDate, Resumes
    <3> QED BY <3>1, <3>2
  <2>8. CASE SaveCursor(w)
    <3>1. ~Overtakes(batch[w], want[w])
      BY <2>2, <2>8 DEF SaveCursor, Overtakes, Undisturbed, FromDate
    <3>2. raced' = FALSE
      BY <2>2, <2>8, <3>1 DEF SaveCursor
    <3>3. CASE ~Stop(w)
      <4>1. pc'[w] = "inbox"
        BY <2>8, <3>3 DEF SaveCursor, TypeOK
      <4> QED BY <3>2, <4>1 DEF Undisturbed
    <3> QED BY <2>3, <3>2, <3>3
  <2>9. CASE ProcessInbox(w) \/ Crash(w)
    BY <2>2, <2>3, <2>9 DEF ProcessInbox, Crash
  <2> QED
    BY <1>2, <2>4, <2>5, <2>6, <2>7, <2>8, <2>9 DEF Progress
<1>3. ASSUME NEW f \in Folders, Arrive(f) PROVE AloneInv'
  BY <1>1, <1>3 DEF Arrive, store
<1>4. CASE Tick \/ Edit
  BY <1>1, <1>4 DEF Tick, Edit, store
<1>5. CASE UNCHANGED vars
  BY <1>1, <1>5 DEF vars, store
<1> QED BY <1>2, <1>3, <1>4, <1>5 DEF Next

(* A process that polls alone never reaches the inbox with a hole in its   *)
(* history: the gate of worker.rs:153-158 and README.md:173.               *)
THEOREM AloneHasHistory ==
  ASSUME Alone PROVE Spec => []HistoryBeforeInbox
<1>1. Init => AloneInv
  BY DEF Init, AloneInv, Undisturbed
<1>2. IInv /\ AloneInv /\ [Next]_vars => AloneInv'
  BY AloneStep DEF IInv
<1>3. IInv /\ AloneInv => HistoryBeforeInbox
  BY DEF IInv, AloneInv, WorkerOK, HistoryBeforeInbox
<1> QED BY SyncInvariant, <1>1, <1>2, <1>3, PTL DEF Spec
=============================================================================

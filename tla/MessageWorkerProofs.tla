------------------------ MODULE MessageWorkerProofs ------------------------
(***************************************************************************)
(* Safety of MessageWorker for any number of workers, mails and faults.    *)
(* The argument is an inductive invariant: a claim that no step outlived is*)
(* a lease on the row (LeaseOK), so what the row says and what its holder  *)
(* is about to do cannot drift apart (HandledOK, CountOK, EvidenceOK).     *)
(***************************************************************************)
EXTENDS MessageWorker, TLAPS

(* A worker names a mail exactly while it is inside process_message.       *)
MsgOK == \A w \in Workers : pc[w] = "idle" <=> msg[w] = NoMsg

(* What a worker plans to send and to write, by the step it is at.         *)
PlanOK == \A w \in Workers :
  /\ pc[w] \in {"claim", "reclaim"} => goal[w] \in {"absent", "banned_sender"}
  /\ pc[w] \in Holding \ {"record", "send", "update"} => goal[w] = "absent"
  /\ pc[w] \in {"record", "send"} => goal[w] \in Finished
  /\ pc[w] \in {"record", "send", "review"} => kind[w] # "none"
  /\ pc[w] = "update" => goal[w] \in Finished \cup Failed

(* An outcome precedes everything that acknowledges it.                    *)
HandledOK ==
  /\ \A w \in Workers :
       /\ pc[w] = "update" /\ goal[w] \in Finished => msg[w] \in handled
       /\ pc[w] = "ack" => \/ msg[w] \in handled
                           \/ "lost_claim" \in blame[msg[w]]
  /\ \A m \in Messages : status[m] \in Finished => m \in handled
  /\ SeenNeedsOutcome

(* The row of a held mail is in processing, fresh, and its holder's.       *)
LeaseOK ==
  \A w \in Workers : \A m \in Messages :
    Holds(w, m) /\ "slow_step" \notin blame[m] =>
      status[m] = "processing" /\ run[m] = w /\ ~stale[m]

Clean(m) == blame[m] \cap DuplicateCauses = {}

(* A sent mail is finished, or its sender is about to write that it is.    *)
CountedOK(m) ==
  /\ Sent(m) <= 1
  /\ Sent(m) = 1 => \/ status[m] \in Finished
                    \/ \E w \in Workers : msg[w] = m /\ SentUnrecorded(w)

CountOK == \A m \in Messages : Clean(m) => CountedOK(m)

(* What the holder of a mail learnt from the scan is in the row.           *)
EvidenceOK ==
  /\ EvidenceAgrees
  /\ \A w \in Workers : \A m \in Messages :
       Holds(w, m) /\ "slow_step" \notin blame[m] =>
         /\ goal[w] = "quarantined" => safety[m] = "unsafe" /\ m \in review
         /\ \/ goal[w] = "replied"
            \/ pc[w] \in {"thread", "handoff", "classify", "rule", "agent",
                          "review"}
            => safety[m] = "safe" \/ "safety_lost" \in blame[m]

IInv == /\ TypeOK /\ MsgOK /\ PlanOK /\ HandledOK
        /\ LeaseOK /\ CountOK /\ EvidenceOK

-----------------------------------------------------------------------------
(* Types.  The workers' local state and the shared state separately: most  *)
(* actions move one worker with one of three operators.                    *)

WorkOK ==
  /\ pc \in [Workers -> Steps]
  /\ msg \in [Workers -> Messages \cup {NoMsg}]
  /\ batch \in [Workers -> SUBSET Messages]
  /\ kind \in [Workers -> Kinds]
  /\ goal \in [Workers -> Statuses]
  /\ read \in [Workers -> Statuses]
  /\ MsgOK

DataOK ==
  /\ status \in [Messages -> Statuses]
  /\ stale \in [Messages -> BOOLEAN]
  /\ run \in [Messages -> Workers]
  /\ safety \in [Messages -> {"none", "safe", "unsafe"}]
  /\ review \subseteq Messages
  /\ seen \subseteq Messages
  /\ faults \in 0..MaxFaults
  /\ handled \subseteq Messages
  /\ replies \in [Messages -> 0..2]
  /\ forwards \in [Messages -> 0..2]
  /\ blame \in [Messages -> SUBSET Causes]

(* TypeOK and MsgOK, regrouped by worker state and shared state.           *)
LEMMA SplitType == TypeOK /\ MsgOK <=> WorkOK /\ DataOK
  BY DEF TypeOK, WorkOK, DataOK

(* The literals of the actions name steps, statuses and mails.             *)
LEMMA Names ==
  /\ Holding \cup {"claim", "reclaim", "ack"} \subseteq Steps \ {"idle"}
  /\ {"scan", "quarantine", "thread", "handoff", "classify", "rule", "agent",
      "review", "record", "send", "update"} \subseteq Holding
  /\ AiSteps \subseteq Holding
  /\ {"absent", "processing", "retryable_failed", "send_failed",
      "banned_sender", "quarantined", "forwarded", "replied", "noop",
      "handed_off"} \subseteq Statuses
  /\ NoMsg \notin Messages
  BY WorkerAssumption DEF Steps, Holding, AiSteps, Statuses, Failed, Finished,
       NoMsg

(* Moving to another step keeps the worker's types.                        *)
LEMMA GotoType ==
  ASSUME WorkOK, NEW w \in Workers, pc[w] # "idle",
         NEW s \in Steps \ {"idle"}, Goto(w, s)
  PROVE  WorkOK'
  BY Names DEF WorkOK, MsgOK, Goto

(* So does planning an outbound mail or a final status.                    *)
LEMMA PlanType ==
  ASSUME WorkOK, NEW w \in Workers, pc[w] # "idle",
         NEW s \in Steps \ {"idle"}, NEW k \in Kinds, NEW g \in Statuses,
         Plan(w, s, k, g)
  PROVE  WorkOK'
  BY Names DEF WorkOK, MsgOK, Plan

(* So does returning to the mail loop of process_mailbox.                  *)
LEMMA ReturnType ==
  ASSUME WorkOK, NEW w \in Workers, Return(w)
  PROVE  WorkOK'
  BY Names DEF WorkOK, MsgOK, Return, Kinds, Steps

(* So do the two ways out of an AI step that decided nothing.              *)
LEMMA GiveUpType ==
  ASSUME WorkOK, NEW w \in Workers, pc[w] # "idle", GiveUp(w) \/ ForwardOnly(w)
  PROVE  WorkOK'
  BY Names, PlanType DEF GiveUp, ForwardOnly, Kinds

(* So does recording a decision.                                           *)
LEMMA DecideType ==
  ASSUME WorkOK, NEW w \in Workers, pc[w] # "idle", NEW k \in Kinds,
         Decide(w, k)
  PROVE  WorkOK'
<1>1. CASE k = "none"
  BY <1>1, Names, PlanType DEF Decide, Kinds
<1>2. CASE k # "none"
  <2>1. goal[w] \in Statuses
    BY DEF WorkOK
  <2> QED BY <1>2, <2>1, Names, PlanType DEF Decide
<1> QED BY <1>1, <1>2

(* A worker inside process_message works on a mail of the mailbox.         *)
LEMMA BusyType ==
  ASSUME WorkOK, NEW w \in Workers, pc[w] # "idle"
  PROVE  msg[w] \in Messages
  BY DEF WorkOK, MsgOK

(* The fault budget is never overdrawn.                                    *)
LEMMA FaultType ==
  ASSUME faults \in 0..MaxFaults, Fault
  PROVE  faults' \in 0..MaxFaults
  BY WorkerAssumption DEF Fault

(* Touching a row keeps the type of the ages.                              *)
LEMMA TouchType ==
  ASSUME stale \in [Messages -> BOOLEAN], NEW m, Touch(m)
  PROVE  stale' \in [Messages -> BOOLEAN]
  BY DEF Touch

(* So does a write that may fail.                                          *)
LEMMA MayTouchType ==
  ASSUME stale \in [Messages -> BOOLEAN], NEW m, MayTouch(m)
  PROVE  stale' \in [Messages -> BOOLEAN]
  BY TouchType DEF MayTouch

(* Recording a cause keeps the type of the causes.                         *)
LEMMA BlameType ==
  ASSUME blame \in [Messages -> SUBSET Causes], NEW m, NEW c \in Causes,
         Blame(m, c)
  PROVE  blame' \in [Messages -> SUBSET Causes]
  BY DEF Blame

(* Every step keeps every type.                                            *)
LEMMA TypeStep ==
  ASSUME WorkOK, DataOK, [Next]_vars
  PROVE  WorkOK' /\ DataOK'
<1>1. ASSUME NEW w \in Workers, FetchUnseen(w) PROVE WorkOK' /\ DataOK'
  <2>1. WorkOK'
    BY <1>1, Names DEF FetchUnseen, WorkOK, MsgOK, Kinds, Steps
  <2>2. DataOK'
    BY <1>1, Names DEF DataOK, FetchUnseen, sends, rows
  <2> QED BY <2>1, <2>2
<1>2. ASSUME NEW w \in Workers, StartMessage(w) PROVE WorkOK' /\ DataOK'
  <2>1. WorkOK'
    BY <1>2, Names DEF StartMessage, WorkOK, MsgOK, Kinds, Steps
  <2>2. DataOK'
    BY <1>2, Names DEF DataOK, StartMessage, sends, rows
  <2> QED BY <2>1, <2>2
<1>3. ASSUME NEW w \in Workers, ClaimInsert(w) PROVE WorkOK' /\ DataOK'
  <2>1. WorkOK'
    BY <1>3, Names, GotoType, PlanType, ReturnType, GiveUpType DEF ClaimInsert,
       Claimed, BeginProcessing, Kinds
  <2>2. DataOK'
    BY <1>3, Names, FaultType, TouchType DEF DataOK, ClaimInsert, Claimed,
       TakeRow, sends
  <2> QED BY <2>1, <2>2
<1>4. ASSUME NEW w \in Workers, ClaimSelect(w) PROVE WorkOK' /\ DataOK'
  <2>1. WorkOK'
    <3>1. pc[w] = "claim" /\ msg[w] \in Messages
      BY <1>4, BusyType DEF ClaimSelect
    <3>2. CASE Return(w) \/ Goto(w, "ack")
      BY <3>1, <3>2, Names, ReturnType, GotoType
    <3>3. CASE /\ pc' = [pc EXCEPT ![w] = "reclaim"]
               /\ read' = [read EXCEPT ![w] = status[msg[w]]]
               /\ UNCHANGED <<msg, batch, kind, goal>>
      <4>1. status[msg[w]] \in Statuses
        BY <3>1 DEF DataOK
      <4> QED BY <3>1, <3>3, <4>1, Names DEF WorkOK, MsgOK
    <3> QED BY <1>4, <3>2, <3>3 DEF ClaimSelect
  <2>2. DataOK'
    BY <1>4, Names DEF DataOK, ClaimSelect, sends, rows
  <2> QED BY <2>1, <2>2
<1>5. ASSUME NEW w \in Workers, ClaimReclaim(w) PROVE WorkOK' /\ DataOK'
  <2>1. WorkOK'
    BY <1>5, Names, GotoType, PlanType, ReturnType, GiveUpType DEF
       ClaimReclaim, Claimed, BeginProcessing, Kinds
  <2>2. DataOK'
    BY <1>5, Names, FaultType, TouchType, BlameType DEF DataOK, ClaimReclaim,
       Claimed, TakeRow, sends, rows, Causes, DuplicateCauses
  <2> QED BY <2>1, <2>2
<1>6. ASSUME NEW w \in Workers, ClaimError(w) PROVE WorkOK' /\ DataOK'
  <2>1. WorkOK'
    BY <1>6, Names, ReturnType DEF ClaimError
  <2>2. DataOK'
    BY <1>6, Names, FaultType DEF DataOK, ClaimError, sends, rows
  <2> QED BY <2>1, <2>2
<1>7. ASSUME NEW w \in Workers, SafetyScan(w) PROVE WorkOK' /\ DataOK'
  <2>1. WorkOK'
    BY <1>7, Names, GotoType, GiveUpType DEF SafetyScan, Kinds
  <2>2. DataOK'
    BY <1>7, Names, FaultType, TouchType, MayTouchType, BlameType DEF DataOK,
       SafetyScan, RecordSafety, sends, Causes, DuplicateCauses
  <2> QED BY <2>1, <2>2
<1>8. ASSUME NEW w \in Workers, RecordQuarantine(w) PROVE WorkOK' /\ DataOK'
  <2>1. WorkOK'
    BY <1>8, Names, PlanType, GiveUpType DEF RecordQuarantine, WorkOK, Kinds
  <2>2. DataOK'
    BY <1>8, Names, BusyType, FaultType, TouchType DEF DataOK,
       RecordQuarantine, sends
  <2> QED BY <2>1, <2>2
<1>9. ASSUME NEW w \in Workers, LoadThread(w) PROVE WorkOK' /\ DataOK'
  <2>1. WorkOK'
    BY <1>9, Names, GotoType, GiveUpType DEF LoadThread, Kinds
  <2>2. DataOK'
    BY <1>9, Names, FaultType, MayTouchType DEF DataOK, LoadThread, sends
  <2> QED BY <2>1, <2>2
<1>10. ASSUME NEW w \in Workers, RouteHandoff(w) PROVE WorkOK' /\ DataOK'
  <2>1. WorkOK'
    BY <1>10, Names, PlanType, GiveUpType DEF RouteHandoff, Kinds
  <2>2. DataOK'
    BY <1>10, Names, BusyType, FaultType, MayTouchType DEF DataOK,
       RouteHandoff, sends
  <2> QED BY <2>1, <2>2
<1>11. ASSUME NEW w \in Workers, Classify(w) PROVE WorkOK' /\ DataOK'
  <2>1. WorkOK'
    BY <1>11, Names, GotoType, GiveUpType, DecideType DEF Classify, Undecided,
       Kinds
  <2>2. DataOK'
    BY <1>11, Names, BusyType, FaultType, MayTouchType DEF DataOK, Classify,
       Decide, Undecided, sends
  <2> QED BY <2>1, <2>2
<1>12. ASSUME NEW w \in Workers, RuleDecision(w) PROVE WorkOK' /\ DataOK'
  <2>1. WorkOK'
    BY <1>12, Names, GotoType, GiveUpType, DecideType DEF RuleDecision,
       Undecided, Kinds
  <2>2. DataOK'
    BY <1>12, Names, BusyType, FaultType, MayTouchType DEF DataOK,
       RuleDecision, Decide, Undecided, sends
  <2> QED BY <2>1, <2>2
<1>13. ASSUME NEW w \in Workers, AgentDecision(w) PROVE WorkOK' /\ DataOK'
  <2>1. WorkOK'
    BY <1>13, Names, GiveUpType, DecideType DEF AgentDecision, Undecided, Kinds
  <2>2. DataOK'
    BY <1>13, Names, BusyType, FaultType, MayTouchType DEF DataOK,
       AgentDecision, Decide, Undecided, sends
  <2> QED BY <2>1, <2>2
<1>14. ASSUME NEW w \in Workers, OutboundReview(w) PROVE WorkOK' /\ DataOK'
  <2>1. WorkOK'
    BY <1>14, Names, PlanType, GiveUpType DEF OutboundReview, OutboundStatus,
       WorkOK, Kinds
  <2>2. DataOK'
    BY <1>14, Names, FaultType, MayTouchType DEF DataOK, OutboundReview, sends
  <2> QED BY <2>1, <2>2
<1>15. ASSUME NEW w \in Workers, RecordOutbound(w) PROVE WorkOK' /\ DataOK'
  <2>1. WorkOK'
    BY <1>15, Names, GotoType DEF RecordOutbound
  <2>2. DataOK'
    BY <1>15, Names, MayTouchType DEF DataOK, RecordOutbound, sends
  <2> QED BY <2>1, <2>2
<1>16. ASSUME NEW w \in Workers, Send(w) PROVE WorkOK' /\ DataOK'
  <2>1. WorkOK'
    BY <1>16, Names, GotoType, PlanType DEF Send, WorkOK, Kinds
  <2>2. DataOK'
    BY <1>16, Names, BusyType, FaultType, BlameType DEF DataOK, Send, Deliver,
       Bump, sends, rows, Causes, DuplicateCauses
  <2> QED BY <2>1, <2>2
<1>17. ASSUME NEW w \in Workers, UpdateStatus(w) PROVE WorkOK' /\ DataOK'
  <2>1. WorkOK'
    BY <1>17, Names, GotoType, ReturnType DEF UpdateStatus
  <2>2. DataOK'
    BY <1>17, Names, FaultType, TouchType, BlameType DEF DataOK, UpdateStatus,
       WorkOK, sends, Causes, DuplicateCauses
  <2> QED BY <2>1, <2>2
<1>18. ASSUME NEW w \in Workers, MarkSeen(w) PROVE WorkOK' /\ DataOK'
  <2>1. WorkOK'
    BY <1>18, Names, ReturnType DEF MarkSeen
  <2>2. DataOK'
    BY <1>18, Names, BusyType, FaultType DEF DataOK, MarkSeen, sends, rows
  <2> QED BY <2>1, <2>2
<1>19. ASSUME NEW w \in Workers, Crash(w) PROVE WorkOK' /\ DataOK'
  <2>1. WorkOK'
    BY <1>19, Names DEF Crash, WorkOK, MsgOK, Kinds, Steps
  <2>2. DataOK'
    BY <1>19, Names, FaultType, BlameType DEF DataOK, Crash, sends, rows,
       Causes, DuplicateCauses
  <2> QED BY <2>1, <2>2
<1>20. ASSUME NEW w \in Workers, Heartbeat(w) PROVE WorkOK' /\ DataOK'
  <2>1. WorkOK'
    BY <1>20, Names DEF Heartbeat, WorkOK, MsgOK, work, Kinds, Steps
  <2>2. DataOK'
    BY <1>20, Names, TouchType DEF DataOK, Heartbeat, sends
  <2> QED BY <2>1, <2>2
<1>21. ASSUME NEW m \in Messages, Expire(m) PROVE WorkOK' /\ DataOK'
  BY <1>21, FaultType, BlameType DEF Expire, WorkOK, MsgOK, DataOK, work,
       rows, sends, Causes, DuplicateCauses
<1>22. ASSUME NEW m \in Messages, Overrun(m) PROVE WorkOK' /\ DataOK'
  BY <1>22, FaultType, BlameType DEF Overrun, WorkOK, MsgOK, DataOK, work,
       rows, sends, Causes, DuplicateCauses
<1>23. CASE UNCHANGED vars
  BY <1>23 DEF vars, WorkOK, MsgOK, DataOK, work, rows, sends
<1> QED
  BY <1>1, <1>2, <1>3, <1>4, <1>5, <1>6, <1>7, <1>8, <1>9, <1>10, <1>11,
       <1>12, <1>13, <1>14, <1>15, <1>16, <1>17, <1>18, <1>19, <1>20, <1>21,
       <1>22, <1>23 DEF Next, Progress

(* Frames.  A step of one worker leaves the others where they are, and an  *)
(* invariant about workers has to be shown of the moving one only.         *)

OthersStay(w) ==
  \A v \in Workers \ {w} :
    /\ pc'[v] = pc[v] /\ msg'[v] = msg[v]
    /\ kind'[v] = kind[v] /\ goal'[v] = goal[v]

BlameGrows == \A m \in Messages : blame[m] \subseteq blame'[m]

(* The three ways to move a worker, and a crash, leave the others alone.   *)
LEMMA OthersStayPut ==
  ASSUME WorkOK, NEW w \in Workers,
         \/ \E s : Goto(w, s)
         \/ \E s, k, g : Plan(w, s, k, g)
         \/ Return(w)
         \/ Crash(w)
  PROVE  OthersStay(w)
  BY DEF WorkOK, OthersStay, Goto, Plan, Return, Crash

(* A cause once recorded stays.                                            *)
LEMMA BlameOnlyGrows ==
  ASSUME blame \in [Messages -> SUBSET Causes],
         UNCHANGED blame \/ \E m, c : Blame(m, c)
  PROVE  BlameGrows
  BY DEF BlameGrows, Blame

(* What HandledOK asks of a step of w: the outcome before the final status *)
(* and before the acknowledgement.                                         *)
LEMMA HandledFrame ==
  ASSUME WorkOK, HandledOK, NEW w \in Workers, OthersStay(w), BlameGrows,
         handled \subseteq handled', UNCHANGED seen, seen \subseteq Messages,
         \A m \in Messages : status'[m] \in Finished =>
            status[m] \in Finished \/ m \in handled',
         pc'[w] = "update" /\ goal'[w] \in Finished => msg'[w] \in handled',
         pc'[w] = "ack" => \/ msg'[w] \in handled'
                           \/ "lost_claim" \in blame'[msg'[w]]
  PROVE  HandledOK'
<1>1. ASSUME NEW v \in Workers
      PROVE  /\ pc'[v] = "update" /\ goal'[v] \in Finished =>
                  msg'[v] \in handled'
             /\ pc'[v] = "ack" => \/ msg'[v] \in handled'
                                  \/ "lost_claim" \in blame'[msg'[v]]
  <2>1. CASE v = w
    BY <2>1
  <2>2. CASE v # w
    <3>1. pc[v] = "ack" => msg[v] \in Messages
      BY BusyType
    <3> QED BY <2>2, <3>1 DEF HandledOK, OthersStay, BlameGrows
  <2> QED BY <2>1, <2>2
<1>2. \A m \in Messages : status'[m] \in Finished => m \in handled'
  BY DEF HandledOK
<1>3. SeenNeedsOutcome'
  BY DEF HandledOK, SeenNeedsOutcome, BlameGrows
<1> QED BY <1>1, <1>2, <1>3 DEF HandledOK

(* The part of EvidenceOK about one worker.                                *)
Evidenced(w) ==
  \A m \in Messages :
    Holds(w, m) /\ "slow_step" \notin blame[m] =>
      /\ goal[w] = "quarantined" => safety[m] = "unsafe" /\ m \in review
      /\ \/ goal[w] = "replied"
         \/ pc[w] \in {"thread", "handoff", "classify", "rule", "agent",
                       "review"}
         => safety[m] = "safe" \/ "safety_lost" \in blame[m]

(* A step of w that leaves the evidence alone.                             *)
LEMMA EvidenceFrame ==
  ASSUME EvidenceOK, NEW w \in Workers, OthersStay(w), BlameGrows,
         UNCHANGED <<safety, review>>, EvidenceAgrees', Evidenced(w)'
  PROVE  EvidenceOK'
<1>1. ASSUME NEW v \in Workers, v # w
      PROVE  Evidenced(v)'
  BY <1>1 DEF EvidenceOK, Evidenced, OthersStay, BlameGrows, Holds
<1>2. \A v \in Workers : Evidenced(v)'
  BY <1>1
<1> QED BY <1>2 DEF EvidenceOK, Evidenced

(* Every step keeps the workers' plans well formed.                        *)
LEMMA PlanStep ==
  ASSUME WorkOK, PlanOK, [Next]_vars
  PROVE  PlanOK'
<1> USE DEF WorkOK, PlanOK, Holding, AiSteps, Finished, Failed, Kinds, Goto,
            Plan, GiveUp, ForwardOnly, Return
<1>1. ASSUME NEW w \in Workers, FetchUnseen(w) PROVE PlanOK'
  BY <1>1 DEF FetchUnseen, work
<1>2. ASSUME NEW w \in Workers, StartMessage(w) PROVE PlanOK'
  BY <1>2 DEF StartMessage
<1>3. ASSUME NEW w \in Workers, ClaimInsert(w) PROVE PlanOK'
  BY <1>3 DEF ClaimInsert, Claimed, BeginProcessing
<1>4. ASSUME NEW w \in Workers, ClaimSelect(w) PROVE PlanOK'
  BY <1>4 DEF ClaimSelect
<1>5. ASSUME NEW w \in Workers, ClaimReclaim(w) PROVE PlanOK'
  BY <1>5 DEF ClaimReclaim, Claimed, BeginProcessing
<1>6. ASSUME NEW w \in Workers, ClaimError(w) PROVE PlanOK'
  BY <1>6 DEF ClaimError
<1>7. ASSUME NEW w \in Workers, SafetyScan(w) PROVE PlanOK'
  BY <1>7 DEF SafetyScan
<1>8. ASSUME NEW w \in Workers, RecordQuarantine(w) PROVE PlanOK'
  BY <1>8 DEF RecordQuarantine
<1>9. ASSUME NEW w \in Workers, LoadThread(w) PROVE PlanOK'
  BY <1>9 DEF LoadThread
<1>10. ASSUME NEW w \in Workers, RouteHandoff(w) PROVE PlanOK'
  BY <1>10 DEF RouteHandoff
<1>11. ASSUME NEW w \in Workers, Classify(w) PROVE PlanOK'
  BY <1>11 DEF Classify, Decide, Undecided
<1>12. ASSUME NEW w \in Workers, RuleDecision(w) PROVE PlanOK'
  BY <1>12 DEF RuleDecision, Decide, Undecided
<1>13. ASSUME NEW w \in Workers, AgentDecision(w) PROVE PlanOK'
  BY <1>13 DEF AgentDecision, Decide, Undecided
<1>14. ASSUME NEW w \in Workers, OutboundReview(w) PROVE PlanOK'
  BY <1>14 DEF OutboundReview, OutboundStatus
<1>15. ASSUME NEW w \in Workers, RecordOutbound(w) PROVE PlanOK'
  BY <1>15 DEF RecordOutbound
<1>16. ASSUME NEW w \in Workers, Send(w) PROVE PlanOK'
  BY <1>16 DEF Send
<1>17. ASSUME NEW w \in Workers, UpdateStatus(w) PROVE PlanOK'
  BY <1>17 DEF UpdateStatus
<1>18. ASSUME NEW w \in Workers, MarkSeen(w) PROVE PlanOK'
  BY <1>18 DEF MarkSeen
<1>19. ASSUME NEW w \in Workers, Crash(w) PROVE PlanOK'
  BY <1>19 DEF Crash
<1>20. ASSUME NEW w \in Workers, Heartbeat(w) PROVE PlanOK'
  BY <1>20 DEF Heartbeat, work
<1>21. ASSUME NEW m \in Messages, Expire(m) PROVE PlanOK'
  BY <1>21 DEF Expire, work
<1>22. ASSUME NEW m \in Messages, Overrun(m) PROVE PlanOK'
  BY <1>22 DEF Overrun, work
<1>23. CASE UNCHANGED vars
  BY <1>23 DEF vars, work
<1> QED
  BY <1>1, <1>2, <1>3, <1>4, <1>5, <1>6, <1>7, <1>8, <1>9, <1>10, <1>11,
       <1>12, <1>13, <1>14, <1>15, <1>16, <1>17, <1>18, <1>19, <1>20, <1>21,
       <1>22, <1>23 DEF Next, Progress

(* Every step keeps the lease: only a failed or a stale row is taken.      *)
LEMMA LeaseStep ==
  ASSUME WorkOK, DataOK, LeaseOK, [Next]_vars
  PROVE  LeaseOK'
<1> USE Names DEF WorkOK, MsgOK, DataOK, LeaseOK, Holds, Holding, AiSteps,
     Failed, Goto, Plan, GiveUp, ForwardOnly, Return, Touch, MayTouch, Blame,
     work, rows, sends
<1>1. ASSUME NEW w \in Workers, FetchUnseen(w) PROVE LeaseOK'
  BY <1>1 DEF FetchUnseen
<1>2. ASSUME NEW w \in Workers, StartMessage(w) PROVE LeaseOK'
  BY <1>2 DEF StartMessage
<1>3. ASSUME NEW w \in Workers, ClaimInsert(w) PROVE LeaseOK'
  BY <1>3 DEF ClaimInsert, Claimed, TakeRow, BeginProcessing, CanReclaim
<1>4. ASSUME NEW w \in Workers, ClaimSelect(w) PROVE LeaseOK'
  BY <1>4 DEF ClaimSelect, CanReclaim
<1>5. ASSUME NEW w \in Workers, ClaimReclaim(w) PROVE LeaseOK'
  BY <1>5 DEF ClaimReclaim, Claimed, TakeRow, BeginProcessing, CanReclaim
<1>6. ASSUME NEW w \in Workers, ClaimError(w) PROVE LeaseOK'
  BY <1>6 DEF ClaimError
<1>7. ASSUME NEW w \in Workers, SafetyScan(w) PROVE LeaseOK'
  BY <1>7 DEF SafetyScan, RecordSafety
<1>8. ASSUME NEW w \in Workers, RecordQuarantine(w) PROVE LeaseOK'
  <2>1. /\ UNCHANGED <<status, run, blame>>
        /\ \A m \in Messages : stale'[m] => stale[m]
    BY <1>8 DEF RecordQuarantine
  <2>2. \A v \in Workers : \A m \in Messages : Holds(v, m)' => Holds(v, m)
    BY <1>8 DEF RecordQuarantine
  <2> QED BY <2>1, <2>2
<1>9. ASSUME NEW w \in Workers, LoadThread(w) PROVE LeaseOK'
  BY <1>9 DEF LoadThread
<1>10. ASSUME NEW w \in Workers, RouteHandoff(w) PROVE LeaseOK'
  BY <1>10 DEF RouteHandoff
<1>11. ASSUME NEW w \in Workers, Classify(w) PROVE LeaseOK'
  BY <1>11 DEF Classify, Decide, Undecided
<1>12. ASSUME NEW w \in Workers, RuleDecision(w) PROVE LeaseOK'
  BY <1>12 DEF RuleDecision, Decide, Undecided
<1>13. ASSUME NEW w \in Workers, AgentDecision(w) PROVE LeaseOK'
  BY <1>13 DEF AgentDecision, Decide, Undecided
<1>14. ASSUME NEW w \in Workers, OutboundReview(w) PROVE LeaseOK'
  BY <1>14 DEF OutboundReview, OutboundStatus
<1>15. ASSUME NEW w \in Workers, RecordOutbound(w) PROVE LeaseOK'
  BY <1>15 DEF RecordOutbound
<1>16. ASSUME NEW w \in Workers, Send(w) PROVE LeaseOK'
  <2>1. /\ UNCHANGED <<status, run, stale>>
        /\ \A m \in Messages : blame[m] \subseteq blame'[m]
    BY <1>16 DEF Send
  <2>2. \A v \in Workers : \A m \in Messages : Holds(v, m)' => Holds(v, m)
    BY <1>16 DEF Send
  <2> QED BY <2>1, <2>2
<1>17. ASSUME NEW w \in Workers, UpdateStatus(w) PROVE LeaseOK'
  <2>1. /\ run' = run
        /\ \A m \in Messages : blame[m] \subseteq blame'[m]
        /\ \A m \in Messages \ {msg[w]} :
             status'[m] = status[m] /\ stale'[m] = stale[m]
    BY <1>17 DEF UpdateStatus
  <2>2. \/ pc' = [pc EXCEPT ![w] = "ack"] /\ msg' = msg
        \/ /\ pc' = [pc EXCEPT ![w] = "idle"]
           /\ msg' = [msg EXCEPT ![w] = NoMsg]
    BY <1>17 DEF UpdateStatus
  <2>3. \A v \in Workers : \A m \in Messages :
          Holds(v, m)' => v # w /\ Holds(v, m)
    BY <2>2
  <2>4. \A v \in Workers : Holds(v, msg[w]) /\ v # w =>
          "slow_step" \in blame[msg[w]]
    <3>1. Holds(w, msg[w]) /\ msg[w] \in Messages
      BY <1>17, BusyType DEF UpdateStatus
    <3> QED BY <3>1
  <2> QED BY <2>1, <2>3, <2>4
<1>18. ASSUME NEW w \in Workers, MarkSeen(w) PROVE LeaseOK'
  BY <1>18 DEF MarkSeen
<1>19. ASSUME NEW w \in Workers, Crash(w) PROVE LeaseOK'
  <2>1. /\ UNCHANGED <<status, run, stale>>
        /\ \A m \in Messages : blame[m] \subseteq blame'[m]
    BY <1>19 DEF Crash
  <2>2. \A v \in Workers : \A m \in Messages : Holds(v, m)' => Holds(v, m)
    BY <1>19 DEF Crash
  <2> QED BY <2>1, <2>2
<1>20. ASSUME NEW w \in Workers, Heartbeat(w) PROVE LeaseOK'
  BY <1>20 DEF Heartbeat
<1>21. ASSUME NEW m \in Messages, Expire(m) PROVE LeaseOK'
  BY <1>21 DEF Expire
<1>22. ASSUME NEW m \in Messages, Overrun(m) PROVE LeaseOK'
  BY <1>22 DEF Overrun
<1>23. CASE UNCHANGED vars
  BY <1>23 DEF vars, work, rows, sends
<1> QED
  BY <1>1, <1>2, <1>3, <1>4, <1>5, <1>6, <1>7, <1>8, <1>9, <1>10, <1>11,
       <1>12, <1>13, <1>14, <1>15, <1>16, <1>17, <1>18, <1>19, <1>20, <1>21,
       <1>22, <1>23 DEF Next, Progress

(* The steps that take most of the argument, one lemma each.  A reclaim    *)
(* acknowledges only when it is lost, and then says so.                    *)
LEMMA HandledReclaim ==
  ASSUME WorkOK, DataOK, HandledOK, NEW w \in Workers, ClaimReclaim(w)
  PROVE  HandledOK'
<1>1. pc[w] = "reclaim" /\ msg[w] \in Messages
  BY BusyType DEF ClaimReclaim
<1>2. \/ Claimed(w, msg[w])
      \/ Return(w) /\ UNCHANGED <<blame, status, handled, seen>>
      \/ /\ Goto(w, "ack") /\ Blame(msg[w], "lost_claim")
         /\ UNCHANGED <<status, handled, seen>>
  BY DEF ClaimReclaim, rows
<1>3. OthersStay(w)
  <2>1. Claimed(w, msg[w]) =>
          (\E s : Goto(w, s)) \/ (\E s, k, g : Plan(w, s, k, g)) \/ Return(w)
    BY DEF Claimed, BeginProcessing, ForwardOnly
  <2> QED BY <1>2, <2>1, OthersStayPut
<1>4. BlameGrows
  BY <1>2, BlameOnlyGrows DEF Claimed, DataOK
<1>5. UNCHANGED <<seen, handled>> /\ seen \subseteq Messages
  BY <1>2 DEF Claimed, DataOK
<1>6. \A m \in Messages : status'[m] \in Finished => status[m] \in Finished
  BY <1>2 DEF Claimed, TakeRow, Finished, DataOK
<1>7. pc'[w] # "update"
  BY <1>2 DEF Claimed, BeginProcessing, ForwardOnly, Goto, Plan, Return, WorkOK
<1>8. pc'[w] = "ack" => "lost_claim" \in blame'[msg'[w]]
  <2>1. CASE Claimed(w, msg[w]) \/ Return(w)
    BY <2>1 DEF Claimed, BeginProcessing, ForwardOnly, Goto, Plan, Return,
                WorkOK
  <2>2. CASE Goto(w, "ack") /\ Blame(msg[w], "lost_claim")
    BY <1>1, <2>2 DEF Goto, Blame, DataOK
  <2> QED BY <1>2, <2>1, <2>2
<1> QED BY <1>3, <1>4, <1>5, <1>6, <1>7, <1>8, HandledFrame

(* The scan neither concludes nor acknowledges.                            *)
LEMMA HandledScan ==
  ASSUME WorkOK, DataOK, HandledOK, NEW w \in Workers, SafetyScan(w)
  PROVE  HandledOK'
<1>1. \/ \E s \in {"thread", "quarantine"} : Goto(w, s)
      \/ ForwardOnly(w)
      \/ GiveUp(w)
  BY DEF SafetyScan
<1>2. OthersStay(w)
  BY <1>1, OthersStayPut DEF ForwardOnly, GiveUp
<1>3. BlameGrows
  BY BlameOnlyGrows DEF SafetyScan, RecordSafety, DataOK
<1>4. UNCHANGED <<seen, handled, status>> /\ seen \subseteq Messages
  BY DEF SafetyScan, DataOK
<1>5. /\ pc'[w] = "update" => goal'[w] \notin Finished
      /\ pc'[w] # "ack"
  BY <1>1 DEF Goto, ForwardOnly, GiveUp, Plan, WorkOK, Finished
<1> QED BY <1>2, <1>3, <1>4, <1>5, HandledFrame

(* The plan of a send is written as finished only once it is sent.         *)
LEMMA HandledSend ==
  ASSUME WorkOK, DataOK, HandledOK, NEW w \in Workers, Send(w)
  PROVE  HandledOK'
<1>1. pc[w] = "send" /\ msg[w] \in Messages
  BY BusyType DEF Send
<1>2. \/ Goto(w, "update") /\ handled' = handled \cup {msg[w]}
      \/ Plan(w, "update", kind[w], "send_failed") /\ UNCHANGED handled
  BY DEF Send
<1>3. OthersStay(w)
  BY <1>2, OthersStayPut
<1>4. BlameGrows
  BY BlameOnlyGrows DEF Send, DataOK
<1>5. UNCHANGED <<seen, status>> /\ seen \subseteq Messages
  BY DEF Send, DataOK, rows
<1>6. /\ handled \subseteq handled' /\ pc'[w] = "update"
      /\ goal'[w] \in Finished => msg'[w] \in handled'
  BY <1>1, <1>2 DEF Goto, Plan, WorkOK, Finished
<1> QED BY <1>3, <1>4, <1>5, <1>6, HandledFrame

(* A crash loses the worker's plans and nothing else.                      *)
LEMMA HandledCrash ==
  ASSUME WorkOK, DataOK, HandledOK, NEW w \in Workers, Crash(w)
  PROVE  HandledOK'
<1>1. OthersStay(w)
  BY OthersStayPut
<1>2. BlameGrows
  BY BlameOnlyGrows DEF Crash, DataOK
<1>3. UNCHANGED <<seen, handled, status>> /\ seen \subseteq Messages
  BY DEF Crash, DataOK, rows
<1>4. pc'[w] = "idle"
  BY DEF Crash, WorkOK
<1> QED BY <1>1, <1>2, <1>3, <1>4, HandledFrame

(* Every step keeps outcomes ahead of acknowledgements.                    *)
LEMMA HandledStep ==
  ASSUME WorkOK, DataOK, PlanOK, HandledOK, [Next]_vars
  PROVE  HandledOK'
<1> USE Names DEF WorkOK, MsgOK, DataOK, PlanOK, HandledOK, SeenNeedsOutcome,
     Holding, AiSteps, Statuses, Finished, Failed, Goto, Plan, GiveUp,
     ForwardOnly, Return, Touch, MayTouch, Blame, work, rows, sends
<1>1. ASSUME NEW w \in Workers, FetchUnseen(w) PROVE HandledOK'
  BY <1>1 DEF FetchUnseen
<1>2. ASSUME NEW w \in Workers, StartMessage(w) PROVE HandledOK'
  BY <1>2 DEF StartMessage
<1>3. ASSUME NEW w \in Workers, ClaimInsert(w) PROVE HandledOK'
  BY <1>3 DEF ClaimInsert, Claimed, TakeRow, BeginProcessing, CanReclaim
<1>4. ASSUME NEW w \in Workers, ClaimSelect(w) PROVE HandledOK'
  BY <1>4 DEF ClaimSelect, CanReclaim
<1>5. ASSUME NEW w \in Workers, ClaimReclaim(w) PROVE HandledOK'
  BY <1>5, HandledReclaim
<1>6. ASSUME NEW w \in Workers, ClaimError(w) PROVE HandledOK'
  BY <1>6 DEF ClaimError
<1>7. ASSUME NEW w \in Workers, SafetyScan(w) PROVE HandledOK'
  BY <1>7, HandledScan
<1>8. ASSUME NEW w \in Workers, RecordQuarantine(w) PROVE HandledOK'
  BY <1>8 DEF RecordQuarantine
<1>9. ASSUME NEW w \in Workers, LoadThread(w) PROVE HandledOK'
  BY <1>9 DEF LoadThread
<1>10. ASSUME NEW w \in Workers, RouteHandoff(w) PROVE HandledOK'
  BY <1>10 DEF RouteHandoff
<1>11. ASSUME NEW w \in Workers, Classify(w) PROVE HandledOK'
  BY <1>11 DEF Classify, Decide, Undecided
<1>12. ASSUME NEW w \in Workers, RuleDecision(w) PROVE HandledOK'
  BY <1>12 DEF RuleDecision, Decide, Undecided
<1>13. ASSUME NEW w \in Workers, AgentDecision(w) PROVE HandledOK'
  <2>1. ASSUME NEW k \in Kinds, Decide(w, k) PROVE HandledOK'
    BY <1>13, <2>1 DEF AgentDecision, Decide
  <2>2. CASE Undecided(w)
    BY <1>13, <2>2 DEF AgentDecision, Undecided
  <2> QED BY <1>13, <2>1, <2>2 DEF AgentDecision
<1>14. ASSUME NEW w \in Workers, OutboundReview(w) PROVE HandledOK'
  BY <1>14 DEF OutboundReview, OutboundStatus
<1>15. ASSUME NEW w \in Workers, RecordOutbound(w) PROVE HandledOK'
  BY <1>15 DEF RecordOutbound
<1>16. ASSUME NEW w \in Workers, Send(w) PROVE HandledOK'
  BY <1>16, HandledSend
<1>17. ASSUME NEW w \in Workers, UpdateStatus(w) PROVE HandledOK'
  BY <1>17 DEF UpdateStatus, SentUnrecorded
<1>18. ASSUME NEW w \in Workers, MarkSeen(w) PROVE HandledOK'
  BY <1>18 DEF MarkSeen
<1>19. ASSUME NEW w \in Workers, Crash(w) PROVE HandledOK'
  BY <1>19, HandledCrash
<1>20. ASSUME NEW w \in Workers, Heartbeat(w) PROVE HandledOK'
  BY <1>20 DEF Heartbeat
<1>21. ASSUME NEW m \in Messages, Expire(m) PROVE HandledOK'
  BY <1>21 DEF Expire
<1>22. ASSUME NEW m \in Messages, Overrun(m) PROVE HandledOK'
  BY <1>22 DEF Overrun
<1>23. CASE UNCHANGED vars
  BY <1>23 DEF vars, work, rows, sends
<1> QED
  BY <1>1, <1>2, <1>3, <1>4, <1>5, <1>6, <1>7, <1>8, <1>9, <1>10, <1>11,
       <1>12, <1>13, <1>14, <1>15, <1>16, <1>17, <1>18, <1>19, <1>20, <1>21,
       <1>22, <1>23 DEF Next, Progress

-----------------------------------------------------------------------------
(* One mail, one send.                                                     *)

(* A mail whose step recorded a cause of duplicates is not clean after it. *)
LEMMA BlamedNotClean ==
  ASSUME blame \in [Messages -> SUBSET Causes], NEW m \in Messages,
         NEW c \in DuplicateCauses, Blame(m, c)
  PROVE  ~Clean(m)'
  BY DEF Clean, Blame

(* Causes are only added: a mail clean after a step was clean before.      *)
LEMMA CleanBefore ==
  ASSUME blame \in [Messages -> SUBSET Causes], NEW n \in Messages, Clean(n)',
         UNCHANGED blame \/ \E m, c : Blame(m, c)
  PROVE  Clean(n)
  BY DEF Clean, Blame

(* The clean row of a mail somebody holds is in processing; nobody else    *)
(* holds it.                                                               *)
LEMMA CleanLease ==
  ASSUME LeaseOK, NEW w \in Workers, NEW n \in Messages, Holds(w, n), Clean(n)
  PROVE  /\ status[n] = "processing" /\ ~stale[n]
         /\ \A v \in Workers : Holds(v, n) => v = w
  BY DEF LeaseOK, Clean, DuplicateCauses

(* CountedOK(n) survives a step that changes neither its counts nor its row*)
(* nor the workers at it.                                                  *)
LEMMA CountFrame ==
  ASSUME NEW n \in Messages, CountedOK(n), replies'[n] = replies[n],
         forwards'[n] = forwards[n], status'[n] = status[n],
         \A v \in Workers : msg[v] = n /\ SentUnrecorded(v) =>
            msg'[v] = n /\ SentUnrecorded(v)'
  PROVE  CountedOK(n)'
  BY DEF CountedOK, Sent

(* ... and a step of w on another mail is one.                             *)
LEMMA OtherMail ==
  ASSUME WorkOK, NEW w \in Workers, NEW n \in Messages, msg[w] # n,
         \/ \E s : Goto(w, s)
         \/ \E s, k, g : Plan(w, s, k, g)
         \/ Return(w)
  PROVE  \A v \in Workers : msg[v] = n /\ SentUnrecorded(v) =>
            msg'[v] = n /\ SentUnrecorded(v)'
  BY DEF WorkOK, Goto, Plan, Return, SentUnrecorded

(* Every step keeps the count of a clean mail's sends.                     *)
LEMMA CountStep ==
  ASSUME WorkOK, DataOK, PlanOK, LeaseOK, CountOK, [Next]_vars
  PROVE  CountOK'
<1> USE Names DEF WorkOK, MsgOK, DataOK, PlanOK, Holds, Holding, AiSteps,
     Finished, Failed, Goto, Plan, GiveUp, ForwardOnly, Return, Touch,
     MayTouch, Blame, work, rows, sends, CountOK, Clean, Sent, SentUnrecorded,
     DuplicateCauses
<1>1. ASSUME NEW w \in Workers, FetchUnseen(w) PROVE CountOK'
  BY <1>1 DEF FetchUnseen, CountedOK
<1>2. ASSUME NEW w \in Workers, StartMessage(w) PROVE CountOK'
  BY <1>2 DEF StartMessage, CountedOK
<1>3. ASSUME NEW w \in Workers, ClaimInsert(w) PROVE CountOK'
  BY <1>3 DEF ClaimInsert, Claimed, TakeRow, BeginProcessing, CanReclaim,
       CountedOK, LeaseOK
<1>4. ASSUME NEW w \in Workers, ClaimSelect(w) PROVE CountOK'
  BY <1>4 DEF ClaimSelect, CanReclaim, CountedOK
<1>5. ASSUME NEW w \in Workers, ClaimReclaim(w) PROVE CountOK'
  <2>1. msg[w] \in Messages /\ pc[w] = "reclaim"
    BY <1>5 DEF ClaimReclaim
  <2>2. CASE CanReclaim(status[msg[w]], stale[msg[w]]) /\ Claimed(w, msg[w])
    <3>1. Clean(msg[w]) => Sent(msg[w]) = 0
      <4>1. SUFFICES ASSUME Clean(msg[w]), Sent(msg[w]) = 1
                     PROVE  FALSE
        BY <2>1 DEF CountedOK
      <4>2. status[msg[w]] \notin Finished
        BY <2>2 DEF CanReclaim
      <4>3. PICK v \in Workers : msg[v] = msg[w] /\ SentUnrecorded(v)
        BY <2>1, <4>1, <4>2 DEF CountedOK
      <4>4. Holds(v, msg[w])
        BY <4>3
      <4> QED BY <2>1, <2>2, <4>1, <4>4, CleanLease DEF CanReclaim
    <3>2. UNCHANGED <<blame, replies, forwards>>
      BY <2>2 DEF Claimed
    <3>3. SUFFICES ASSUME NEW n \in Messages, Clean(n)
                   PROVE  CountedOK(n)'
      BY <3>2
    <3>4. CASE n = msg[w]
      BY <2>1, <3>1, <3>2, <3>3, <3>4 DEF CountedOK
    <3>5. CASE n # msg[w]
      <4>1. status'[n] = status[n]
        BY <2>2, <3>5 DEF Claimed, TakeRow
      <4>2. \/ \E s : Goto(w, s)
            \/ \E s, k, g : Plan(w, s, k, g)
            \/ Return(w)
        BY <2>2 DEF Claimed, BeginProcessing
      <4> QED BY <3>2, <3>3, <3>5, <4>1, <4>2, OtherMail, CountFrame
    <3> QED BY <3>4, <3>5
  <2>3. CASE UNCHANGED <<rows, replies, forwards>>
    <3>1. SUFFICES ASSUME NEW n \in Messages, Clean(n)'
                   PROVE  CountedOK(n)'
      OBVIOUS
    <3>2. Clean(n)
      <4>1. \/ UNCHANGED blame
            \/ blame' = [blame EXCEPT ![msg[w]] = @ \cup {"lost_claim"}]
        BY <1>5 DEF ClaimReclaim, Claimed
      <4> QED BY <3>1, <4>1
    <3>3. \A v \in Workers : msg[v] = n /\ SentUnrecorded(v) =>
             msg'[v] = n /\ SentUnrecorded(v)'
      BY <1>5, <2>1 DEF ClaimReclaim, Claimed, BeginProcessing
    <3> QED BY <2>3, <3>2, <3>3, CountFrame
  <2> QED BY <1>5, <2>2, <2>3 DEF ClaimReclaim
<1>6. ASSUME NEW w \in Workers, ClaimError(w) PROVE CountOK'
  BY <1>6 DEF ClaimError, CountedOK
<1>7. ASSUME NEW w \in Workers, SafetyScan(w) PROVE CountOK'
  <2>1. SUFFICES ASSUME NEW n \in Messages, Clean(n)'
                 PROVE  CountedOK(n)'
    OBVIOUS
  <2>2. UNCHANGED <<status, replies, forwards>> /\ pc[w] = "scan"
    BY <1>7 DEF SafetyScan
  <2>3. \/ UNCHANGED blame
        \/ blame' = [blame EXCEPT ![msg[w]] = @ \cup {"safety_lost"}]
    BY <1>7 DEF SafetyScan, RecordSafety
  <2>4. Clean(n)
    BY <2>1, <2>3
  <2>5. \A v \in Workers : msg[v] = n /\ SentUnrecorded(v) =>
           msg'[v] = n /\ SentUnrecorded(v)'
    BY <1>7, <2>2 DEF SafetyScan
  <2> QED BY <2>2, <2>4, <2>5, CountFrame
<1>8. ASSUME NEW w \in Workers, RecordQuarantine(w) PROVE CountOK'
  BY <1>8 DEF RecordQuarantine, CountedOK
<1>9. ASSUME NEW w \in Workers, LoadThread(w) PROVE CountOK'
  BY <1>9 DEF LoadThread, CountedOK
<1>10. ASSUME NEW w \in Workers, RouteHandoff(w) PROVE CountOK'
  BY <1>10 DEF RouteHandoff, CountedOK
<1>11. ASSUME NEW w \in Workers, Classify(w) PROVE CountOK'
  BY <1>11 DEF Classify, Decide, Undecided, CountedOK
<1>12. ASSUME NEW w \in Workers, RuleDecision(w) PROVE CountOK'
  BY <1>12 DEF RuleDecision, Decide, Undecided, CountedOK
<1>13. ASSUME NEW w \in Workers, AgentDecision(w) PROVE CountOK'
  BY <1>13 DEF AgentDecision, Decide, Undecided, CountedOK
<1>14. ASSUME NEW w \in Workers, OutboundReview(w) PROVE CountOK'
  BY <1>14 DEF OutboundReview, OutboundStatus, CountedOK
<1>15. ASSUME NEW w \in Workers, RecordOutbound(w) PROVE CountOK'
  BY <1>15 DEF RecordOutbound, CountedOK
<1>16. ASSUME NEW w \in Workers, Send(w) PROVE CountOK'
  <2>1. /\ pc[w] = "send" /\ msg[w] \in Messages /\ Holds(w, msg[w])
        /\ goal[w] \in Finished /\ kind[w] # "none"
    BY <1>16 DEF Send
  <2>2. SUFFICES ASSUME NEW n \in Messages, Clean(n)'
                 PROVE  CountedOK(n)'
    OBVIOUS
  <2>3. Clean(n) /\ UNCHANGED status
    <3>1. \/ UNCHANGED blame
          \/ blame' = [blame EXCEPT ![msg[w]] = @ \cup {"ambiguous_send"}]
      BY <1>16 DEF Send
    <3>2. UNCHANGED status
      BY <1>16 DEF Send
    <3> QED BY <2>2, <3>1, <3>2
  <2>4. CASE n # msg[w]
    <3>1. replies'[n] = replies[n] /\ forwards'[n] = forwards[n]
      BY <1>16, <2>4 DEF Send, Deliver
    <3>2. (\E s : Goto(w, s)) \/ (\E s, k, g : Plan(w, s, k, g))
      BY <1>16 DEF Send
    <3> QED BY <2>3, <2>4, <3>1, <3>2, OtherMail, CountFrame
  <2>5. CASE n = msg[w]
    <3>1. Sent(n) = 0
      <4>1. status[n] \notin Finished /\ ~SentUnrecorded(w)
        BY <2>1, <2>3, <2>5, CleanLease
      <4>2. \A v \in Workers : ~(msg[v] = n /\ SentUnrecorded(v))
        BY <2>1, <2>3, <2>5, <4>1, CleanLease
      <4> QED BY <2>3, <4>1, <4>2 DEF CountedOK
    <3>2. CASE Deliver(n, kind[w]) /\ Goto(w, "update")
      <4>1. Sent(n)' = 1
        BY <3>1, <3>2 DEF Deliver, Bump
      <4>2. (msg[w] = n /\ SentUnrecorded(w))'
        BY <2>1, <2>5, <3>2
      <4> QED BY <4>1, <4>2 DEF CountedOK
    <3>3. CASE UNCHANGED sends
      BY <3>1, <3>3 DEF CountedOK
    <3>4. ~Blame(n, "ambiguous_send")
      BY <2>2, BlamedNotClean
    <3> QED BY <1>16, <2>5, <3>2, <3>3, <3>4 DEF Send
  <2> QED BY <2>4, <2>5
<1>17. ASSUME NEW w \in Workers, UpdateStatus(w) PROVE CountOK'
  <2>1. pc[w] = "update" /\ msg[w] \in Messages /\ Holds(w, msg[w])
    BY <1>17 DEF UpdateStatus
  <2>2. SUFFICES ASSUME NEW n \in Messages, Clean(n)'
                 PROVE  CountedOK(n)'
    OBVIOUS
  <2>3. Clean(n) /\ UNCHANGED <<replies, forwards>>
    BY <1>17, <2>2, CleanBefore DEF UpdateStatus
  <2>4. CASE n # msg[w]
    <3>1. status'[n] = status[n]
      BY <1>17, <2>4 DEF UpdateStatus
    <3>2. (\E s : Goto(w, s)) \/ Return(w)
      BY <1>17 DEF UpdateStatus
    <3> QED BY <2>3, <2>4, <3>1, <3>2, OtherMail, CountFrame
  <2>5. CASE n = msg[w]
    <3>1. Sent(n) = 1 => SentUnrecorded(w)
      BY <2>1, <2>3, <2>5, CleanLease DEF CountedOK
    <3>2. ~(SentUnrecorded(w) /\ Blame(n, "lost_record"))
      BY <2>2, BlamedNotClean
    <3>3. Sent(n) = 1 => status'[n] \in Finished
      BY <1>17, <2>1, <2>5, <3>1, <3>2 DEF UpdateStatus
    <3> QED BY <2>3, <3>3 DEF CountedOK
  <2> QED BY <2>4, <2>5
<1>18. ASSUME NEW w \in Workers, MarkSeen(w) PROVE CountOK'
  BY <1>18 DEF MarkSeen, CountedOK
<1>19. ASSUME NEW w \in Workers, Crash(w) PROVE CountOK'
  <2>1. SUFFICES ASSUME NEW n \in Messages, Clean(n)'
                 PROVE  CountedOK(n)'
    OBVIOUS
  <2>2. Clean(n) /\ UNCHANGED <<replies, forwards, status>>
    BY <1>19, <2>1, CleanBefore DEF Crash
  <2>3. ~(msg[w] = n /\ SentUnrecorded(w))
    BY <1>19, <2>1, BlamedNotClean DEF Crash
  <2>4. \A v \in Workers \ {w} : msg[v] = n /\ SentUnrecorded(v) =>
           msg'[v] = n /\ SentUnrecorded(v)'
    BY <1>19 DEF Crash
  <2> QED BY <2>2, <2>3, <2>4, CountFrame
<1>20. ASSUME NEW w \in Workers, Heartbeat(w) PROVE CountOK'
  BY <1>20 DEF Heartbeat, CountedOK
<1>21. ASSUME NEW m \in Messages, Expire(m) PROVE CountOK'
  BY <1>21 DEF Expire, CountedOK
<1>22. ASSUME NEW m \in Messages, Overrun(m) PROVE CountOK'
  BY <1>22 DEF Overrun, CountedOK
<1>23. CASE UNCHANGED vars
  BY <1>23 DEF vars, work, rows, sends, CountedOK
<1> QED
  BY <1>1, <1>2, <1>3, <1>4, <1>5, <1>6, <1>7, <1>8, <1>9, <1>10, <1>11,
       <1>12, <1>13, <1>14, <1>15, <1>16, <1>17, <1>18, <1>19, <1>20, <1>21,
       <1>22, <1>23 DEF Next, Progress

(* A claim only takes the row: it has no evidence yet.                     *)
LEMMA EvidenceClaim ==
  ASSUME WorkOK, DataOK, PlanOK, EvidenceOK, NEW w \in Workers,
         pc[w] \in {"claim", "reclaim"}, Claimed(w, msg[w])
  PROVE  EvidenceOK'
<1>1. \/ Goto(w, "scan")
      \/ Plan(w, "record", "forward", "banned_sender")
      \/ Plan(w, "record", "forward", "forwarded")
      \/ Return(w)
  BY DEF Claimed, BeginProcessing, ForwardOnly
<1>2. OthersStay(w)
  BY <1>1, OthersStayPut
<1>3. UNCHANGED <<safety, review, blame>>
  BY DEF Claimed
<1>4. \A m \in Messages : status'[m] \in {status[m], "processing"}
  BY DEF Claimed, TakeRow, DataOK
<1>5. EvidenceAgrees'
  BY <1>3, <1>4 DEF EvidenceOK, EvidenceAgrees
<1>6. goal[w] \in {"absent", "banned_sender"}
  BY DEF PlanOK
<1>7. /\ goal'[w] \notin {"quarantined", "replied"}
      /\ pc'[w] \in {"scan", "record", "idle"}
  BY <1>1, <1>6 DEF Goto, Plan, Return, WorkOK
<1>8. Evidenced(w)'
  BY <1>7 DEF Evidenced
<1> QED BY <1>2, <1>3, <1>5, <1>8, EvidenceFrame DEF BlameGrows

(* A lost reclaim touches neither the row nor the evidence.                *)
LEMMA EvidenceLost ==
  ASSUME WorkOK, DataOK, EvidenceOK, NEW w \in Workers, ClaimReclaim(w),
         ~Claimed(w, msg[w])
  PROVE  EvidenceOK'
<1>1. /\ UNCHANGED <<status, safety, review>>
      /\ Return(w) \/ Goto(w, "ack")
      /\ UNCHANGED blame \/ Blame(msg[w], "lost_claim")
  BY DEF ClaimReclaim, rows
<1>2. OthersStay(w)
  BY <1>1, OthersStayPut
<1>3. BlameGrows
  BY <1>1, BlameOnlyGrows DEF DataOK
<1>4. EvidenceAgrees'
  BY <1>1, <1>3 DEF EvidenceOK, EvidenceAgrees, BlameGrows
<1>5. Evidenced(w)'
  BY <1>1 DEF Evidenced, Holds, Holding, AiSteps, Goto, Return, WorkOK
<1> QED BY <1>1, <1>2, <1>3, <1>4, <1>5, EvidenceFrame

(* A send keeps the plan it carries out, or gives it up.                   *)
LEMMA EvidenceSend ==
  ASSUME WorkOK, DataOK, EvidenceOK, NEW w \in Workers, Send(w)
  PROVE  EvidenceOK'
<1>1. /\ UNCHANGED <<status, safety, review>>
      /\ pc[w] = "send"
      /\ \/ Goto(w, "update")
         \/ Plan(w, "update", kind[w], "send_failed")
      /\ UNCHANGED blame \/ Blame(msg[w], "ambiguous_send")
  BY DEF Send, rows
<1>2. OthersStay(w)
  BY <1>1, OthersStayPut
<1>3. BlameGrows
  BY <1>1, BlameOnlyGrows DEF DataOK
<1>4. EvidenceAgrees'
  BY <1>1, <1>3 DEF EvidenceOK, EvidenceAgrees, BlameGrows
<1>5. Evidenced(w)
  BY DEF EvidenceOK, Evidenced
<1>6. /\ msg'[w] = msg[w] /\ pc'[w] = "update"
      /\ goal'[w] \in {goal[w], "send_failed"}
  BY <1>1 DEF Goto, Plan, WorkOK
<1>7. Evidenced(w)'
  BY <1>1, <1>3, <1>5, <1>6 DEF Evidenced, BlameGrows, Holds, Holding
<1> QED BY <1>1, <1>2, <1>3, <1>4, <1>7, EvidenceFrame

(* A status is written by a worker that has the evidence for it.           *)
LEMMA EvidenceUpdate ==
  ASSUME WorkOK, DataOK, EvidenceOK, NEW w \in Workers, UpdateStatus(w)
  PROVE  EvidenceOK'
<1>1. /\ UNCHANGED <<safety, review>>
      /\ pc[w] = "update"
      /\ Goto(w, "ack") \/ Return(w)
      /\ UNCHANGED blame \/ Blame(msg[w], "lost_record")
      /\ \/ UNCHANGED status
         \/ status' = [status EXCEPT ![msg[w]] = goal[w]]
  BY DEF UpdateStatus
<1>2. OthersStay(w)
  BY <1>1, OthersStayPut
<1>3. BlameGrows
  BY <1>1, BlameOnlyGrows DEF DataOK
<1>4. Evidenced(w) /\ Holds(w, msg[w])
  BY <1>1 DEF EvidenceOK, Evidenced, Holds, Holding
<1>5. ASSUME NEW m \in Messages, "slow_step" \notin blame'[m]
      PROVE  /\ status'[m] = "quarantined" =>
                  safety'[m] = "unsafe" /\ m \in review'
             /\ status'[m] = "replied" /\ "safety_lost" \notin blame'[m]
                  => safety'[m] = "safe"
  <2>1. "slow_step" \notin blame[m] /\ blame[m] \subseteq blame'[m]
    BY <1>3, <1>5 DEF BlameGrows
  <2>2. CASE status'[m] = status[m]
    BY <1>1, <2>1, <2>2 DEF EvidenceOK, EvidenceAgrees
  <2>3. CASE status'[m] # status[m]
    <3>1. m = msg[w] /\ status'[m] = goal[w]
      BY <1>1, <2>3 DEF DataOK
    <3> QED BY <1>1, <1>4, <2>1, <3>1 DEF Evidenced
  <2> QED BY <2>2, <2>3
<1>6. EvidenceAgrees'
  BY <1>5 DEF EvidenceAgrees
<1>7. Evidenced(w)'
  BY <1>1 DEF Evidenced, Holds, Holding, AiSteps, Goto, Return, WorkOK
<1> QED BY <1>1, <1>2, <1>3, <1>6, <1>7, EvidenceFrame

(* A crash loses no evidence.                                              *)
LEMMA EvidenceCrash ==
  ASSUME WorkOK, DataOK, EvidenceOK, NEW w \in Workers, Crash(w)
  PROVE  EvidenceOK'
<1>1. UNCHANGED <<status, safety, review>> /\ pc'[w] = "idle"
  BY DEF Crash, rows, WorkOK
<1>2. OthersStay(w)
  BY OthersStayPut
<1>3. BlameGrows
  BY BlameOnlyGrows DEF DataOK, Crash
<1>4. EvidenceAgrees'
  BY <1>1, <1>3 DEF EvidenceOK, EvidenceAgrees, BlameGrows
<1>5. Evidenced(w)'
  BY <1>1 DEF Evidenced, Holds, Holding, AiSteps
<1> QED BY <1>1, <1>2, <1>3, <1>4, <1>5, EvidenceFrame

(* Every step keeps row and evidence in agreement.                         *)
LEMMA EvidenceStep ==
  ASSUME WorkOK, DataOK, PlanOK, LeaseOK, EvidenceOK, [Next]_vars
  PROVE  EvidenceOK'
<1> USE Names DEF WorkOK, MsgOK, DataOK, PlanOK, LeaseOK, Holds, Holding,
     AiSteps, Finished, Failed, Goto, Plan, GiveUp, ForwardOnly, Return,
     Touch, MayTouch, Blame, work, rows, sends, EvidenceOK, EvidenceAgrees
<1>1. ASSUME NEW w \in Workers, FetchUnseen(w) PROVE EvidenceOK'
  BY <1>1 DEF FetchUnseen
<1>2. ASSUME NEW w \in Workers, StartMessage(w) PROVE EvidenceOK'
  BY <1>2 DEF StartMessage
<1>3. ASSUME NEW w \in Workers, ClaimInsert(w) PROVE EvidenceOK'
  BY <1>3, EvidenceClaim DEF ClaimInsert
<1>4. ASSUME NEW w \in Workers, ClaimSelect(w) PROVE EvidenceOK'
  BY <1>4 DEF ClaimSelect, CanReclaim
<1>5. ASSUME NEW w \in Workers, ClaimReclaim(w) PROVE EvidenceOK'
  <2>1. pc[w] = "reclaim"
    BY <1>5 DEF ClaimReclaim
  <2>2. CASE Claimed(w, msg[w])
    BY <2>1, <2>2, EvidenceClaim
  <2>3. CASE ~Claimed(w, msg[w])
    BY <1>5, <2>3, EvidenceLost
  <2> QED BY <2>2, <2>3
<1>6. ASSUME NEW w \in Workers, ClaimError(w) PROVE EvidenceOK'
  BY <1>6 DEF ClaimError
<1>7. ASSUME NEW w \in Workers, SafetyScan(w) PROVE EvidenceOK'
  <2>1. /\ pc[w] = "scan" /\ msg[w] \in Messages /\ Holds(w, msg[w])
        /\ goal[w] = "absent"
    BY <1>7 DEF SafetyScan
  <2>2. /\ UNCHANGED <<status, run, review>>
        /\ \A m \in Messages : /\ blame[m] \subseteq blame'[m]
                              /\ "slow_step" \in blame'[m]
                                   <=> "slow_step" \in blame[m]
        /\ \A m \in Messages \ {msg[w]} : /\ safety'[m] = safety[m]
                                           /\ blame'[m] = blame[m]
    BY <1>7 DEF SafetyScan, RecordSafety
  <2>3. \/ pc' = [pc EXCEPT ![w] = "thread"] /\ goal' = goal
           /\ \/ safety'[msg[w]] = "safe"
              \/ "safety_lost" \in blame'[msg[w]]
        \/ pc' = [pc EXCEPT ![w] = "quarantine"] /\ goal' = goal
        \/ pc' = [pc EXCEPT ![w] = "record"]
           /\ goal' = [goal EXCEPT ![w] = "forwarded"]
        \/ pc' = [pc EXCEPT ![w] = "update"]
           /\ goal' = [goal EXCEPT ![w] = "retryable_failed"]
    BY <1>7, <2>1 DEF SafetyScan, RecordSafety
  <2>4. msg' = msg
    BY <1>7 DEF SafetyScan
  <2>5. \A v \in Workers : Holds(v, msg[w]) /\ "slow_step" \notin blame[msg[w]]
          => v = w /\ status[msg[w]] = "processing"
    BY <2>1
  <2>6. EvidenceAgrees'
    BY <2>1, <2>2, <2>5
  <2>7. ASSUME NEW v \in Workers, NEW m \in Messages, Holds(v, m)',
               "slow_step" \notin blame'[m]
        PROVE  /\ goal'[v] = "quarantined" =>
                    safety'[m] = "unsafe" /\ m \in review'
               /\ \/ goal'[v] = "replied"
                  \/ pc'[v] \in {"thread", "handoff", "classify", "rule",
                                 "agent", "review"}
                  => safety'[m] = "safe" \/ "safety_lost" \in blame'[m]
    <3>1. CASE v = w
      BY <2>1, <2>3, <2>4, <2>7, <3>1
    <3>2. CASE v # w
      <4>1. pc'[v] = pc[v] /\ goal'[v] = goal[v] /\ Holds(v, m)
        BY <2>3, <2>4, <2>7, <3>2
      <4>2. m # msg[w]
        BY <2>2, <2>5, <2>7, <3>2, <4>1
      <4> QED BY <2>2, <2>7, <4>1, <4>2
    <3> QED BY <3>1, <3>2
  <2> QED BY <2>6, <2>7
<1>8. ASSUME NEW w \in Workers, RecordQuarantine(w) PROVE EvidenceOK'
  BY <1>8 DEF RecordQuarantine
<1>9. ASSUME NEW w \in Workers, LoadThread(w) PROVE EvidenceOK'
  BY <1>9 DEF LoadThread
<1>10. ASSUME NEW w \in Workers, RouteHandoff(w) PROVE EvidenceOK'
  BY <1>10 DEF RouteHandoff
<1>11. ASSUME NEW w \in Workers, Classify(w) PROVE EvidenceOK'
  BY <1>11 DEF Classify, Decide, Undecided
<1>12. ASSUME NEW w \in Workers, RuleDecision(w) PROVE EvidenceOK'
  BY <1>12 DEF RuleDecision, Decide, Undecided
<1>13. ASSUME NEW w \in Workers, AgentDecision(w) PROVE EvidenceOK'
  BY <1>13 DEF AgentDecision, Decide, Undecided
<1>14. ASSUME NEW w \in Workers, OutboundReview(w) PROVE EvidenceOK'
  BY <1>14 DEF OutboundReview, OutboundStatus
<1>15. ASSUME NEW w \in Workers, RecordOutbound(w) PROVE EvidenceOK'
  BY <1>15 DEF RecordOutbound
<1>16. ASSUME NEW w \in Workers, Send(w) PROVE EvidenceOK'
  BY <1>16, EvidenceSend
<1>17. ASSUME NEW w \in Workers, UpdateStatus(w) PROVE EvidenceOK'
  BY <1>17, EvidenceUpdate
<1>18. ASSUME NEW w \in Workers, MarkSeen(w) PROVE EvidenceOK'
  BY <1>18 DEF MarkSeen
<1>19. ASSUME NEW w \in Workers, Crash(w) PROVE EvidenceOK'
  BY <1>19, EvidenceCrash
<1>20. ASSUME NEW w \in Workers, Heartbeat(w) PROVE EvidenceOK'
  BY <1>20 DEF Heartbeat
<1>21. ASSUME NEW m \in Messages, Expire(m) PROVE EvidenceOK'
  BY <1>21 DEF Expire
<1>22. ASSUME NEW m \in Messages, Overrun(m) PROVE EvidenceOK'
  BY <1>22 DEF Overrun
<1>23. CASE UNCHANGED vars
  BY <1>23 DEF vars, work, rows, sends
<1> HIDE DEF WorkOK, MsgOK, DataOK, PlanOK, LeaseOK, EvidenceOK,
     EvidenceAgrees
<1> QED
  BY <1>1, <1>2, <1>3, <1>4, <1>5, <1>6, <1>7, <1>8, <1>9, <1>10, <1>11,
       <1>12, <1>13, <1>14, <1>15, <1>16, <1>17, <1>18, <1>19, <1>20, <1>21,
       <1>22, <1>23 DEF Next, Progress

-----------------------------------------------------------------------------
(* The theorems.                                                           *)

LEMMA Initially == Init => IInv
<1> SUFFICES ASSUME Init PROVE IInv
  OBVIOUS
<1>1. TypeOK
  BY WorkerAssumption DEF Init, TypeOK, Steps, Kinds, Statuses
<1>2. MsgOK /\ PlanOK /\ HandledOK /\ LeaseOK /\ EvidenceOK
  BY DEF Init, MsgOK, PlanOK, HandledOK, SeenNeedsOutcome, LeaseOK, Holds,
         EvidenceOK, EvidenceAgrees, Holding, AiSteps, Finished
<1>3. CountOK
  BY DEF Init, CountOK, CountedOK, Sent
<1> QED BY <1>1, <1>2, <1>3 DEF IInv

(* ... and every step keeps it.                                            *)
LEMMA Inductively == IInv /\ [Next]_vars => IInv'
<1> SUFFICES ASSUME IInv, [Next]_vars PROVE IInv'
  OBVIOUS
<1>1. WorkOK /\ DataOK
  BY SplitType DEF IInv
<1>2. TypeOK' /\ MsgOK'
  BY <1>1, TypeStep DEF TypeOK, WorkOK, DataOK
<1>3. PlanOK' /\ HandledOK' /\ LeaseOK' /\ CountOK' /\ EvidenceOK'
  BY <1>1, PlanStep, HandledStep, LeaseStep, CountStep, EvidenceStep DEF IInv
<1> QED BY <1>2, <1>3 DEF IInv

(* The inductive invariant holds in every reachable state.                 *)
THEOREM Invariant == Spec => []IInv
  BY Initially, Inductively, PTL DEF Spec

(* Every variable keeps its type, whatever the workers and faults.         *)
THEOREM TypeCorrect == Spec => []TypeOK
<1>1. IInv => TypeOK
  BY DEF IInv
<1> QED BY <1>1, Invariant, PTL

(* claim_message is a lease: two workers hold a mail only after a step     *)
(* without heartbeat outlived the stale window.                            *)
THEOREM ClaimIsExclusive == Spec => []ExclusiveClaim
<1>1. IInv => ExclusiveClaim
  BY DEF IInv, LeaseOK, ExclusiveClaim
<1> QED BY <1>1, Invariant, PTL

(* A second outbound mail for a message has one of the four causes.        *)
THEOREM DuplicatesHaveCause == Spec => []DuplicateNeedsCause
<1>1. IInv => DuplicateNeedsCause
  <2> SUFFICES ASSUME IInv, NEW m \in Messages, Sent(m) > 1, Clean(m)
               PROVE  FALSE
    BY DEF DuplicateNeedsCause, Clean
  <2>1. Sent(m) <= 1
    BY DEF IInv, CountOK, CountedOK
  <2>2. Sent(m) \in Nat
    BY DEF IInv, TypeOK, Sent
  <2> QED BY <2>1, <2>2
<1> QED BY <1>1, Invariant, PTL

(* A seen mail has an outcome, or a worker lost the reclaim of it.         *)
THEOREM SeenHasOutcome == Spec => []SeenNeedsOutcome
<1>1. IInv => SeenNeedsOutcome
  BY DEF IInv, HandledOK
<1> QED BY <1>1, Invariant, PTL

(* The final status of a row agrees with the recorded safety evidence.     *)
THEOREM EvidenceIsRecorded == Spec => []EvidenceAgrees
<1>1. IInv => EvidenceAgrees
  BY DEF IInv, EvidenceOK
<1> QED BY <1>1, Invariant, PTL

(* No step reopens or relabels a finished row nobody overran.              *)
THEOREM FinishedIsFinal == Spec => FinishedStaysFinished
<1>1. ASSUME IInv, Next, NEW m \in Messages, status[m] \in Finished,
             "slow_step" \notin blame'[m]
      PROVE  status'[m] = status[m]
  <2>1. status[m] # "processing" /\ status[m] # "absent"
        /\ status[m] \notin Failed
    BY <1>1 DEF Finished, Failed
  <2>2. DataOK /\ WorkOK
    BY <1>1, SplitType DEF IInv
  <2>3. ASSUME NEW w \in Workers, UpdateStatus(w)
        PROVE  status'[m] = status[m]
    <3>1. CASE msg[w] # m
      BY <2>2, <2>3, <3>1 DEF UpdateStatus, DataOK
    <3>2. CASE msg[w] = m
      <4>1. Holds(w, m)
        BY <2>3, <3>2, Names DEF UpdateStatus, Holds
      <4>2. "slow_step" \notin blame[m]
        BY <1>1, <2>2, <2>3 DEF UpdateStatus, Blame, DataOK
      <4> QED BY <1>1, <2>1, <4>1, <4>2 DEF IInv, LeaseOK
    <3> QED BY <3>1, <3>2
  <2>4. ASSUME NEW w \in Workers, ClaimInsert(w) \/ ClaimReclaim(w)
        PROVE  status'[m] = status[m]
    BY <2>1, <2>2, <2>4 DEF ClaimInsert, ClaimReclaim, Claimed, TakeRow,
       CanReclaim, DataOK, rows
  <2> QED BY <1>1, <2>3, <2>4 DEF Next, Progress, FetchUnseen, StartMessage,
       ClaimSelect, ClaimError, SafetyScan, RecordQuarantine, LoadThread,
       RouteHandoff, Classify, RuleDecision, AgentDecision, OutboundReview,
       RecordOutbound, Send, MarkSeen, Crash, Heartbeat, Expire, Overrun, rows
<1>2. IInv /\ [Next]_vars =>
        [\A m \in Messages : status[m] \in Finished
            /\ "slow_step" \notin blame'[m] => status'[m] = status[m]]_vars
  BY <1>1
<1> QED BY <1>2, Invariant, PTL DEF Spec, FinishedStaysFinished

-----------------------------------------------------------------------------
(* Mails the AI must not answer.                                           *)

(* Where a worker is tells what its mail is not: one that is too long never*)
(* enters the chain of AI steps, one that asks for a human never gets to   *)
(* the steps that may plan a reply, and between two mails nothing is       *)
(* planned.                                                                *)
ReplyOK ==
  /\ NeverAutoReplied
  /\ \A w \in Workers :
       /\ pc[w] = "idle" => kind[w] = "none"
       /\ pc[w] \in AiSteps \cup {"quarantine", "thread", "handoff"} =>
            msg[w] \notin Oversized
       /\ pc[w] \in {"rule", "agent"} => msg[w] \notin HumanReview
       /\ pc[w] \in {"claim", "reclaim", "scan", "quarantine", "thread",
                    "handoff", "classify"} => kind[w] = "none"
       /\ kind[w] = "reply" => msg[w] \notin Oversized \cup HumanReview

(* Every step keeps that.                                                  *)
LEMMA ReplyStep ==
  ASSUME WorkOK, DataOK, ReplyOK, [Next]_vars
  PROVE  ReplyOK'
<1> USE WorkerAssumption DEF WorkOK, DataOK, ReplyOK, NeverAutoReplied,
            AiSteps, Kinds, Goto, Plan, GiveUp, ForwardOnly, Return
<1>1. ASSUME NEW w \in Workers, FetchUnseen(w) PROVE ReplyOK'
  BY <1>1 DEF FetchUnseen, work, sends
<1>2. ASSUME NEW w \in Workers, StartMessage(w) PROVE ReplyOK'
  BY <1>2 DEF StartMessage, sends
<1>3. ASSUME NEW w \in Workers, ClaimInsert(w) PROVE ReplyOK'
  BY <1>3 DEF ClaimInsert, Claimed, BeginProcessing, sends
<1>4. ASSUME NEW w \in Workers, ClaimSelect(w) PROVE ReplyOK'
  BY <1>4 DEF ClaimSelect, sends
<1>5. ASSUME NEW w \in Workers, ClaimReclaim(w) PROVE ReplyOK'
  BY <1>5 DEF ClaimReclaim, Claimed, BeginProcessing, sends
<1>6. ASSUME NEW w \in Workers, ClaimError(w) PROVE ReplyOK'
  BY <1>6 DEF ClaimError, sends
<1>7. ASSUME NEW w \in Workers, SafetyScan(w) PROVE ReplyOK'
  BY <1>7 DEF SafetyScan, sends
<1>8. ASSUME NEW w \in Workers, RecordQuarantine(w) PROVE ReplyOK'
  BY <1>8 DEF RecordQuarantine, sends
<1>9. ASSUME NEW w \in Workers, LoadThread(w) PROVE ReplyOK'
  BY <1>9 DEF LoadThread, sends
<1>10. ASSUME NEW w \in Workers, RouteHandoff(w) PROVE ReplyOK'
  BY <1>10 DEF RouteHandoff, sends
<1>11. ASSUME NEW w \in Workers, Classify(w) PROVE ReplyOK'
  BY <1>11 DEF Classify, Decide, Undecided, sends
<1>12. ASSUME NEW w \in Workers, RuleDecision(w) PROVE ReplyOK'
  BY <1>12 DEF RuleDecision, Decide, Undecided, sends
<1>13. ASSUME NEW w \in Workers, AgentDecision(w) PROVE ReplyOK'
  BY <1>13 DEF AgentDecision, Decide, Undecided, sends
<1>14. ASSUME NEW w \in Workers, OutboundReview(w) PROVE ReplyOK'
  BY <1>14 DEF OutboundReview, sends
<1>15. ASSUME NEW w \in Workers, RecordOutbound(w) PROVE ReplyOK'
  BY <1>15 DEF RecordOutbound, sends
<1>16. ASSUME NEW w \in Workers, Send(w) PROVE ReplyOK'
  BY <1>16 DEF Send, Deliver, sends
<1>17. ASSUME NEW w \in Workers, UpdateStatus(w) PROVE ReplyOK'
  BY <1>17 DEF UpdateStatus, sends
<1>18. ASSUME NEW w \in Workers, MarkSeen(w) PROVE ReplyOK'
  BY <1>18 DEF MarkSeen, sends
<1>19. ASSUME NEW w \in Workers, Crash(w) PROVE ReplyOK'
  BY <1>19 DEF Crash, sends
<1>20. ASSUME NEW w \in Workers, Heartbeat(w) PROVE ReplyOK'
  BY <1>20 DEF Heartbeat, work, sends
<1>21. ASSUME NEW m \in Messages, Expire(m) \/ Overrun(m) PROVE ReplyOK'
  BY <1>21 DEF Expire, Overrun, work, sends
<1>22. CASE UNCHANGED vars
  BY <1>22 DEF vars, work, sends
<1> QED
  BY <1>1, <1>2, <1>3, <1>4, <1>5, <1>6, <1>7, <1>8, <1>9, <1>10, <1>11,
       <1>12, <1>13, <1>14, <1>15, <1>16, <1>17, <1>18, <1>19, <1>20, <1>21,
       <1>22 DEF Next, Progress

(* No reply is written to a mail that is too long or asks for a human.     *)
THEOREM NoAutomaticReply == Spec => []NeverAutoReplied
<1>1. Init => ReplyOK
  BY WorkerAssumption DEF Init, ReplyOK, NeverAutoReplied, AiSteps
<1>2. IInv /\ ReplyOK /\ [Next]_vars => ReplyOK'
  BY SplitType, ReplyStep DEF IInv
<1>3. ReplyOK => NeverAutoReplied
  BY DEF ReplyOK
<1> QED BY <1>1, <1>2, <1>3, Invariant, PTL DEF Spec

-----------------------------------------------------------------------------
(* One process.                                                            *)

(* While a single process polls, the row it has selected to reclaim is     *)
(* still in the state it read, so that the UPDATE never misses.            *)
SoloOK ==
  /\ \A w \in Workers :
       pc[w] = "reclaim" => CanReclaim(status[msg[w]], stale[msg[w]])
  /\ \A m \in Messages : "lost_claim" \notin blame[m]

(* Every step of a single process keeps that.                              *)
LEMMA SoloStep ==
  ASSUME WorkOK, DataOK, SoloOK, [Next]_vars, \A v, w \in Workers : v = w
  PROVE  SoloOK'
<1> USE DEF WorkOK, DataOK, SoloOK, CanReclaim, Failed, DuplicateCauses, Goto,
            MsgOK, Plan, GiveUp, ForwardOnly, Return, rows, TakeRow, Touch,
            MayTouch, Blame, RecordSafety, Holds, Holding, AiSteps
<1>1. ASSUME NEW w \in Workers, FetchUnseen(w) PROVE SoloOK'
  BY <1>1 DEF FetchUnseen, work, sends
<1>2. ASSUME NEW w \in Workers, StartMessage(w) PROVE SoloOK'
  BY <1>2 DEF StartMessage, sends
<1>3. ASSUME NEW w \in Workers, ClaimInsert(w) PROVE SoloOK'
  BY <1>3 DEF ClaimInsert, Claimed, BeginProcessing, sends
<1>4. ASSUME NEW w \in Workers, ClaimSelect(w) PROVE SoloOK'
  BY <1>4 DEF ClaimSelect, sends
<1>5. ASSUME NEW w \in Workers, ClaimReclaim(w) PROVE SoloOK'
  BY <1>5 DEF ClaimReclaim, Claimed, BeginProcessing, sends
<1>6. ASSUME NEW w \in Workers, ClaimError(w) PROVE SoloOK'
  BY <1>6 DEF ClaimError, sends
<1>7. ASSUME NEW w \in Workers, SafetyScan(w) PROVE SoloOK'
  BY <1>7 DEF SafetyScan, sends
<1>8. ASSUME NEW w \in Workers, RecordQuarantine(w) PROVE SoloOK'
  BY <1>8 DEF RecordQuarantine, sends
<1>9. ASSUME NEW w \in Workers, LoadThread(w) PROVE SoloOK'
  BY <1>9 DEF LoadThread, sends
<1>10. ASSUME NEW w \in Workers, RouteHandoff(w) PROVE SoloOK'
  BY <1>10 DEF RouteHandoff, sends
<1>11. ASSUME NEW w \in Workers, Classify(w) PROVE SoloOK'
  BY <1>11 DEF Classify, Decide, Undecided, sends
<1>12. ASSUME NEW w \in Workers, RuleDecision(w) PROVE SoloOK'
  BY <1>12 DEF RuleDecision, Decide, Undecided, sends
<1>13. ASSUME NEW w \in Workers, AgentDecision(w) PROVE SoloOK'
  BY <1>13 DEF AgentDecision, Decide, Undecided, sends
<1>14. ASSUME NEW w \in Workers, OutboundReview(w) PROVE SoloOK'
  BY <1>14 DEF OutboundReview, sends
<1>15. ASSUME NEW w \in Workers, RecordOutbound(w) PROVE SoloOK'
  BY <1>15 DEF RecordOutbound, sends
<1>16. ASSUME NEW w \in Workers, Send(w) PROVE SoloOK'
  BY <1>16 DEF Send, Deliver, sends
<1>17. ASSUME NEW w \in Workers, UpdateStatus(w) PROVE SoloOK'
  <2>1. \A v \in Workers : pc'[v] \in {"idle", "ack"}
    <3>1. \/ pc' = [pc EXCEPT ![w] = "ack"]
          \/ pc' = [pc EXCEPT ![w] = "idle"]
      BY <1>17 DEF UpdateStatus
    <3>2. \A v \in Workers : v = w
      OBVIOUS
    <3> QED BY <3>1, <3>2
  <2>2. \A m \in Messages : "lost_claim" \notin blame'[m]
    <3>1. \/ blame' = blame
          \/ blame' = [blame EXCEPT ![msg[w]] = @ \cup {"lost_record"}]
      BY <1>17 DEF UpdateStatus
    <3> QED BY <3>1
  <2> QED BY <2>1, <2>2
<1>18. ASSUME NEW w \in Workers, MarkSeen(w) PROVE SoloOK'
  BY <1>18 DEF MarkSeen, sends
<1>19. ASSUME NEW w \in Workers, Crash(w) PROVE SoloOK'
  <2>1. /\ UNCHANGED <<status, stale>>
        /\ pc' = [pc EXCEPT ![w] = "idle"]
        /\ msg' = [msg EXCEPT ![w] = NoMsg]
    BY <1>19 DEF Crash
  <2>2. \/ blame' = blame
        \/ blame' = [blame EXCEPT ![msg[w]] = @ \cup {"crash_unrecorded"}]
    BY <1>19 DEF Crash
  <2> QED BY <2>1, <2>2
<1>20. ASSUME NEW w \in Workers, Heartbeat(w) PROVE SoloOK'
  BY <1>20 DEF Heartbeat, work, sends
<1>21. ASSUME NEW m \in Messages, Expire(m) \/ Overrun(m) PROVE SoloOK'
  <2>1. /\ pc' = pc /\ msg' = msg /\ status' = status
        /\ stale' = [stale EXCEPT ![m] = TRUE]
    BY <1>21 DEF Expire, Overrun, work
  <2>2. \A n \in Messages : "lost_claim" \notin blame'[n]
    BY <1>21 DEF Expire, Overrun
  <2> QED BY <2>1, <2>2
<1>22. CASE UNCHANGED vars
  BY <1>22 DEF vars, work, sends
<1> QED
  BY <1>1, <1>2, <1>3, <1>4, <1>5, <1>6, <1>7, <1>8, <1>9, <1>10, <1>11,
       <1>12, <1>13, <1>14, <1>15, <1>16, <1>17, <1>18, <1>19, <1>20, <1>21,
       <1>22 DEF Next, Progress

(* A single process flags a mail seen only after its outcome: no exception.*)
THEOREM OneProcessFlagsHandled ==
  ASSUME \A v, w \in Workers : v = w
  PROVE  Spec => []SeenOnlyWhenHandled
<1>1. Init => SoloOK
  BY DEF Init, SoloOK
<1>2. IInv /\ SoloOK /\ [Next]_vars => SoloOK'
  BY SplitType, SoloStep DEF IInv
<1>3. IInv /\ SoloOK => SeenOnlyWhenHandled
  BY DEF IInv, TypeOK, HandledOK, SeenNeedsOutcome, SoloOK,
         SeenOnlyWhenHandled
<1> QED BY <1>1, <1>2, <1>3, Invariant, PTL DEF Spec
=============================================================================

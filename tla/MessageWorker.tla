--------------------------- MODULE MessageWorker ---------------------------
(***************************************************************************)
(* The worker's message pipeline for one mailbox: the poll loop of each    *)
(* server process, the claim of a processing_runs row, the chain of AI and *)
(* database steps, the SMTP send, the status write and the IMAP Seen flag. *)
(*                                                                         *)
(* A worker is one server process (a replica, or one process before and    *)
(* after a restart).  Every await on the database, the AI provider, SMTP   *)
(* or IMAP is a step of its own, so that the workers interleave there and  *)
(* a process can die between any two of them.  Messages are the mails the  *)
(* mailbox accepts, named by their IMAP UIDs under one UIDVALIDITY.        *)
(***************************************************************************)
EXTENDS Naturals, FiniteSets

CONSTANTS
  Workers,      \* the server processes polling the mailbox
  Messages,     \* the UIDs of the accepted mails, all unseen at first
  Oversized,    \* mails whose plain text exceeds the prompt limit
  HumanReview,  \* mails whose text asks for a human
  FetchLimit,   \* how many mails one poll fetches (10 in the code)
  MaxFaults     \* bound on injected faults; every fault action draws on it

ASSUME WorkerAssumption ==
  /\ Messages \subseteq Nat \ {0}       \* IMAP UIDs are positive
  /\ Oversized \subseteq Messages
  /\ HumanReview \subseteq Messages
  /\ FetchLimit \in Nat \ {0}
  /\ MaxFaults \in Nat

NoMsg == 0

(* The values of processing_runs.status; "absent" means there is no row.   *)
Failed   == {"retryable_failed", "send_failed"}
Finished == {"banned_sender", "quarantined", "forwarded", "replied", "noop",
             "handed_off"}
Statuses == {"absent", "processing"} \cup Failed \cup Finished

Kinds == {"none", "reply", "forward"}

(* Steps awaited through run_ai_step, which heartbeats the row.            *)
AiSteps == {"scan", "classify", "rule", "agent", "review"}
(* Between a successful claim and the write of the resulting status.       *)
Holding == AiSteps \cup {"quarantine", "thread", "handoff", "record", "send",
                         "update"}
Steps   == Holding \cup {"idle", "claim", "reclaim", "ack"}

(* What may let a message be sent twice, and two other mishaps the         *)
(* properties have to name.                                                *)
DuplicateCauses == {"ambiguous_send", "lost_record", "crash_unrecorded",
                    "slow_step"}
Causes == DuplicateCauses \cup {"lost_claim", "safety_lost"}

VARIABLES
  pc, msg, batch, kind, goal, read,       \* each worker's local state
  status, stale, run, safety,             \* processing_runs, one row a mail
  review,                                 \* mails whose sender is in review
  seen,                                   \* the \Seen flags of the mailbox
  faults,                                 \* faults injected so far
  handled, replies, forwards, blame       \* history, for the properties

work  == <<pc, msg, batch, kind, goal, read>>
rows  == <<status, stale, run, safety, review>>
sends == <<replies, forwards>>
vars  == <<work, rows, seen, faults, handled, sends, blame>>

Init ==
  /\ pc     = [w \in Workers |-> "idle"]
  /\ msg    = [w \in Workers |-> NoMsg]
  /\ batch  = [w \in Workers |-> {}]
  /\ kind   = [w \in Workers |-> "none"]
  /\ goal   = [w \in Workers |-> "absent"]
  /\ read   = [w \in Workers |-> "absent"]
  /\ status = [m \in Messages |-> "absent"]
  /\ stale  = [m \in Messages |-> FALSE]
  /\ run    \in [Messages -> Workers]     \* meaningless while there is no row
  /\ safety = [m \in Messages |-> "none"]
  /\ review = {}
  /\ seen   = {}
  /\ faults = 0
  /\ handled  = {}
  /\ replies  = [m \in Messages |-> 0]
  /\ forwards = [m \in Messages |-> 0]
  /\ blame    = [m \in Messages |-> {}]

-----------------------------------------------------------------------------
(* Control of one worker.                                                  *)

Goto(w, step) ==
  /\ pc' = [pc EXCEPT ![w] = step]
  /\ UNCHANGED <<msg, batch, kind, goal, read>>

(* Continue at `step' with the outbound mail k to send and the status g to *)
(* write once it is sent.                                                  *)
Plan(w, step, k, g) ==
  /\ pc' = [pc EXCEPT ![w] = step]
  /\ kind' = [kind EXCEPT ![w] = k]
  /\ goal' = [goal EXCEPT ![w] = g]
  /\ UNCHANGED <<msg, batch, read>>

GiveUp(w)      == Plan(w, "update", "none", "retryable_failed")
ForwardOnly(w) == Plan(w, "record", "forward", "forwarded")

(* Return from process_message to the loop over the fetched mails.         *)
Return(w) ==
  /\ pc'   = [pc EXCEPT ![w] = "idle"]
  /\ msg'  = [msg EXCEPT ![w] = NoMsg]
  /\ kind' = [kind EXCEPT ![w] = "none"]
  /\ goal' = [goal EXCEPT ![w] = "absent"]
  /\ read' = [read EXCEPT ![w] = "absent"]
  /\ UNCHANGED batch

Fault ==
  /\ faults < MaxFaults
  /\ faults' = faults + 1

Blame(m, cause) == blame' = [blame EXCEPT ![m] = @ \cup {cause}]

(* Every write to a row sets updated_at.                                   *)
Touch(m) == stale' = [stale EXCEPT ![m] = FALSE]

(* A write that is only logged when it fails, or the heartbeat of a step   *)
(* that may end before its first tick.                                     *)
MayTouch(m) == Touch(m) \/ UNCHANGED stale

Holds(w, m) == pc[w] \in Holding /\ msg[w] = m
Beating(m)  == \E w \in Workers : pc[w] \in AiSteps /\ msg[w] = m

-----------------------------------------------------------------------------
(* process_mailbox: fetch the first unseen mails, then take them one by    *)
(* one in UID order.  A poll that finds nothing changes nothing.           *)

FetchUnseen(w) ==
  /\ pc[w] = "idle" /\ batch[w] = {}
  /\ LET unseen == Messages \ seen IN
       batch' = [batch EXCEPT ![w] =
         {m \in unseen : Cardinality({k \in unseen : k < m}) < FetchLimit}]
  /\ UNCHANGED <<pc, msg, kind, goal, read, rows, seen, faults, handled,
                 sends, blame>>

(* precheck_sender reads the banned list of the configuration loaded for   *)
(* this poll; operators edit it between polls, so either answer is possible*)
(* at every attempt.                                                       *)
StartMessage(w) ==
  /\ pc[w] = "idle"
  /\ \E m \in batch[w] :
       /\ \A k \in batch[w] : m <= k
       /\ batch' = [batch EXCEPT ![w] = @ \ {m}]
       /\ msg' = [msg EXCEPT ![w] = m]
  /\ \E g \in {"absent", "banned_sender"} : goal' = [goal EXCEPT ![w] = g]
  /\ pc' = [pc EXCEPT ![w] = "claim"]
  /\ UNCHANGED <<kind, read, rows, seen, faults, handled, sends, blame>>

-----------------------------------------------------------------------------
(* claim_message: INSERT .. ON CONFLICT DO NOTHING, else SELECT, else the  *)
(* conditional UPDATE.                                                     *)

(* Slips the properties must catch: a dead worker's row is never taken     *)
(* over; the age of a row in processing is ignored; a finished row is      *)
(* taken for a failed one.                                                 *)
CanReclaimFailedOnly(st, old) == st \in Failed
CanReclaimFresh(st, old)      == st \in Failed \cup {"processing"}
CanReclaimForwarded(st, old)  ==
  st \in Failed \cup {"forwarded"} \/ (st = "processing" /\ old)

(* processing_status_can_reclaim, and the condition of the UPDATE.         *)
CanReclaim(st, old) == st \in Failed \/ (st = "processing" /\ old)

TakeRow(w, m) ==
  /\ status' = [status EXCEPT ![m] = "processing"]
  /\ run' = [run EXCEPT ![m] = w]
  /\ Touch(m)

(* What process_message does first with a mail it has claimed.             *)
BeginProcessing(w, m) ==
  IF goal[w] = "banned_sender" THEN Plan(w, "record", "forward", goal[w])
  ELSE IF m \in Oversized THEN ForwardOnly(w)
  ELSE Goto(w, "scan")

(* The row is taken before the conversation is upserted; when that fails   *)
(* the claim is an error, the mail is skipped and the row stays.           *)
Claimed(w, m) ==
  /\ TakeRow(w, m)
  /\ \/ BeginProcessing(w, m) /\ UNCHANGED faults
     \/ Return(w) /\ Fault
  /\ UNCHANGED <<safety, review, seen, handled, sends, blame>>

ClaimInsert(w) ==
  /\ pc[w] = "claim"
  /\ status[msg[w]] = "absent"
  /\ Claimed(w, msg[w])

(* Slip: a finished mail is skipped without being flagged seen.            *)
ClaimSelectSkips(w) ==
  LET m == msg[w] IN
  /\ pc[w] = "claim"
  /\ status[m] # "absent"
  /\ IF CanReclaim(status[m], stale[m])
       THEN /\ pc' = [pc EXCEPT ![w] = "reclaim"]
            /\ read' = [read EXCEPT ![w] = status[m]]
            /\ UNCHANGED <<msg, batch, kind, goal>>
       ELSE Return(w)
  /\ UNCHANGED <<rows, seen, faults, handled, sends, blame>>

ClaimSelect(w) ==
  LET m == msg[w] IN
  /\ pc[w] = "claim"
  /\ status[m] # "absent"
  /\ IF CanReclaim(status[m], stale[m])
       THEN /\ pc' = [pc EXCEPT ![w] = "reclaim"]
            /\ read' = [read EXCEPT ![w] = status[m]]
            /\ UNCHANGED <<msg, batch, kind, goal>>
       ELSE IF status[m] = "processing"
              THEN Return(w)              \* InProgress
              ELSE Goto(w, "ack")         \* AlreadyFinished
  /\ UNCHANGED <<rows, seen, faults, handled, sends, blame>>

(* Slip: the UPDATE trusts the SELECT.                                     *)
ClaimReclaimUnchecked(w) ==
  /\ pc[w] = "reclaim"
  /\ Claimed(w, msg[w])

(* The UPDATE repeats the reclaim condition.  When another worker took the *)
(* row since the SELECT, the answer is derived from the status read before *)
(* it: a retryable status then counts as AlreadyFinished.                  *)
ClaimReclaim(w) ==
  LET m == msg[w] IN
  /\ pc[w] = "reclaim"
  /\ \/ CanReclaim(status[m], stale[m]) /\ Claimed(w, m)
     \/ /\ ~CanReclaim(status[m], stale[m])
        /\ IF read[w] = "processing"
             THEN Return(w) /\ UNCHANGED blame
             ELSE Goto(w, "ack") /\ Blame(m, "lost_claim")
        /\ UNCHANGED <<rows, seen, faults, handled, sends>>

(* Any query of claim_message fails before it has changed the row.         *)
ClaimError(w) ==
  /\ pc[w] \in {"claim", "reclaim"}
  /\ Return(w)
  /\ Fault
  /\ UNCHANGED <<rows, seen, handled, sends, blame>>

-----------------------------------------------------------------------------
(* The safety scan and what follows from its verdict.                      *)

(* record_safety_result_for_history: a failure is only logged.             *)
RecordSafety(m, verdict) ==
  \/ /\ safety' = [safety EXCEPT ![m] = verdict]
     /\ Touch(m)
     /\ UNCHANGED <<faults, blame>>
  \/ /\ Fault
     /\ Blame(m, "safety_lost")
     /\ MayTouch(m)
     /\ UNCHANGED safety

SafetyScan(w) ==
  /\ pc[w] = "scan"
  /\ \/ /\ Goto(w, "thread")              \* the provider says safe
        /\ RecordSafety(msg[w], "safe")
     \/ /\ Goto(w, "quarantine")          \* any other category
        /\ RecordSafety(msg[w], "unsafe")
     \/ /\ ForwardOnly(w)                 \* context limit
        /\ MayTouch(msg[w])
        /\ UNCHANGED <<safety, faults, blame>>
     \/ /\ GiveUp(w)                      \* provider error, timeout, heartbeat
        /\ Fault
        /\ MayTouch(msg[w])
        /\ UNCHANGED <<safety, blame>>
  /\ UNCHANGED <<status, run, review, seen, handled, sends>>

(* Slip: the mail is forwarded although its verdict was not persisted.     *)
RecordQuarantineLax(w) ==
  LET m == msg[w] IN
  /\ pc[w] = "quarantine"
  /\ Plan(w, "record", "forward", "quarantined")
  /\ \/ safety' = [safety EXCEPT ![m] = "unsafe"] /\ UNCHANGED faults
     \/ UNCHANGED safety /\ Fault
  /\ review' = review \cup {m}
  /\ Touch(m)
  /\ UNCHANGED <<status, run, seen, handled, sends, blame>>

(* record_quarantine_state: both writes are tried; unless both succeed the *)
(* mail is not forwarded but retried.                                      *)
RecordQuarantine(w) ==
  LET m == msg[w] IN
  /\ pc[w] = "quarantine"
  /\ \/ /\ safety' = [safety EXCEPT ![m] = "unsafe"]
        /\ review' = review \cup {m}
        /\ Touch(m)
        /\ Plan(w, "record", "forward", "quarantined")
        /\ UNCHANGED faults
     \/ /\ \/ safety' = [safety EXCEPT ![m] = "unsafe"] /\ Touch(m)
              /\ UNCHANGED review
           \/ review' = review \cup {m} /\ UNCHANGED <<safety, stale>>
           \/ UNCHANGED <<safety, stale, review>>
        /\ GiveUp(w)
        /\ Fault
  /\ UNCHANGED <<status, run, seen, handled, sends, blame>>

(* load_thread_context and the handoff lookup.                             *)
LoadThread(w) ==
  /\ pc[w] = "thread"
  /\ \/ Goto(w, "classify") /\ UNCHANGED <<faults, stale>>
     \/ Goto(w, "handoff") /\ UNCHANGED <<faults, stale>>
     \/ ForwardOnly(w) /\ MayTouch(msg[w]) /\ UNCHANGED faults  \* truncated
     \/ GiveUp(w) /\ Fault /\ UNCHANGED stale
  /\ UNCHANGED <<status, run, safety, review, seen, handled, sends, blame>>

(* route_active_thread_handoff: the sender is the handoff destination, or  *)
(* the chain is too long to forward, or the chain is forwarded once the    *)
(* delivery row is begun.                                                  *)
RouteHandoff(w) ==
  /\ pc[w] = "handoff"
  /\ \/ /\ Plan(w, "update", "none", "handed_off")
        /\ handled' = handled \cup {msg[w]}
        /\ UNCHANGED <<faults, stale>>
     \/ ForwardOnly(w) /\ MayTouch(msg[w]) /\ UNCHANGED <<faults, handled>>
     \/ Plan(w, "record", "forward", "handed_off")
        /\ UNCHANGED <<faults, stale, handled>>
     \/ GiveUp(w) /\ Fault /\ UNCHANGED <<stale, handled>>
  /\ UNCHANGED <<status, run, safety, review, seen, sends, blame>>

-----------------------------------------------------------------------------
(* Classification, decision and outbound review.                           *)

(* The decision is recorded; a noop is concluded, a mail goes to review.   *)
Decide(w, k) ==
  /\ MayTouch(msg[w])
  /\ IF k = "none"
       THEN /\ Plan(w, "update", "none", "noop")
            /\ handled' = handled \cup {msg[w]}
       ELSE /\ Plan(w, "review", k, goal[w])
            /\ UNCHANGED handled
  /\ UNCHANGED faults

(* An AI step that ends without a decision.                                *)
Undecided(w) ==
  /\ \/ ForwardOnly(w) /\ UNCHANGED faults      \* context limit
     \/ GiveUp(w) /\ Fault
  /\ MayTouch(msg[w])
  /\ UNCHANGED handled

(* classify_message_for_rules; a request for a human decides at once.      *)
Classify(w) ==
  /\ pc[w] = "classify"
  /\ \/ /\ msg[w] \in HumanReview
        /\ Decide(w, "forward")
     \/ /\ msg[w] \notin HumanReview
        /\ \E next \in {"rule", "agent"} : Goto(w, next)
        /\ MayTouch(msg[w])
        /\ UNCHANGED <<faults, handled>>
     \/ Undecided(w)
  /\ UNCHANGED <<status, run, safety, review, seen, sends, blame>>

RuleDecision(w) ==
  /\ pc[w] = "rule"
  /\ \/ \E k \in Kinds : Decide(w, k)
     \/ /\ Goto(w, "agent")               \* the rule prompt is missing
        /\ MayTouch(msg[w])
        /\ UNCHANGED <<faults, handled>>
     \/ Undecided(w)
  /\ UNCHANGED <<status, run, safety, review, seen, sends, blame>>

AgentDecision(w) ==
  /\ pc[w] = "agent"
  /\ \/ \E k \in Kinds : Decide(w, k)
     \/ Undecided(w)
  /\ UNCHANGED <<status, run, safety, review, seen, sends, blame>>

OutboundStatus(k) == IF k = "reply" THEN "replied" ELSE "forwarded"

(* reviewed_outbound_action: disabled or approved, rejected or too long,   *)
(* failed.                                                                 *)
OutboundReview(w) ==
  /\ pc[w] = "review"
  /\ MayTouch(msg[w])
  /\ \/ /\ Plan(w, "record", kind[w], OutboundStatus(kind[w]))
        /\ UNCHANGED faults
     \/ ForwardOnly(w) /\ UNCHANGED faults
     \/ GiveUp(w) /\ Fault
  /\ UNCHANGED <<status, run, safety, review, seen, handled, sends, blame>>

-----------------------------------------------------------------------------
(* send_and_mark_seen.                                                     *)

(* record_outbound_action_for_history; a failure is only logged.           *)
RecordOutbound(w) ==
  /\ pc[w] = "record"
  /\ Goto(w, "send")
  /\ MayTouch(msg[w])
  /\ UNCHANGED <<status, run, safety, review, seen, faults, handled, sends,
                 blame>>

(* Slip, for the bound only: the count does not saturate.                  *)
BumpUnbounded(n) == n + 1

(* Deliveries of a mail are counted up to two: more than once is all the   *)
(* properties ask.                                                         *)
Bump(n) == IF n < 2 THEN n + 1 ELSE n

Deliver(m, k) ==
  IF k = "reply"
    THEN replies' = [replies EXCEPT ![m] = Bump(@)] /\ UNCHANGED forwards
    ELSE forwards' = [forwards EXCEPT ![m] = Bump(@)] /\ UNCHANGED replies

Send(w) ==
  LET m == msg[w] IN
  /\ pc[w] = "send"
  /\ \/ /\ Deliver(m, kind[w])            \* accepted by the SMTP server
        /\ Goto(w, "update")
        /\ handled' = handled \cup {m}
        /\ UNCHANGED <<faults, blame>>
     \/ /\ Plan(w, "update", kind[w], "send_failed")
        /\ Fault
        /\ \/ UNCHANGED <<sends, blame>>  \* refused
           \/ Deliver(m, kind[w]) /\ Blame(m, "ambiguous_send")
        /\ UNCHANGED handled
  /\ UNCHANGED <<rows, seen>>

(* Slip: a failed mail is flagged seen like a finished one.                *)
UpdateStatusThenAck(w) ==
  LET m == msg[w] IN
  /\ pc[w] = "update"
  /\ status' = [status EXCEPT ![m] = goal[w]]
  /\ Touch(m)
  /\ Goto(w, "ack")
  /\ UNCHANGED <<run, safety, review, seen, faults, handled, sends, blame>>

SentUnrecorded(w) ==
  pc[w] = "update" /\ goal[w] \in Finished /\ kind[w] # "none"

(* update_processing_status, not fenced by the run that claimed the row;   *)
(* a failure is only logged.  A finished mail is then marked seen, a       *)
(* failed one is left for the next poll.                                   *)
UpdateStatus(w) ==
  LET m == msg[w] IN
  /\ pc[w] = "update"
  /\ \/ /\ status' = [status EXCEPT ![m] = goal[w]]
        /\ Touch(m)
        /\ UNCHANGED <<faults, blame>>
     \/ /\ Fault
        /\ IF SentUnrecorded(w) THEN Blame(m, "lost_record")
                                ELSE UNCHANGED blame
        /\ UNCHANGED <<status, stale>>
  /\ IF goal[w] \in Finished THEN Goto(w, "ack") ELSE Return(w)
  /\ UNCHANGED <<run, safety, review, seen, handled, sends>>

(* mark_seen; a failure is only logged.                                    *)
MarkSeen(w) ==
  /\ pc[w] = "ack"
  /\ Return(w)
  /\ \/ seen' = seen \cup {msg[w]} /\ UNCHANGED faults
     \/ UNCHANGED seen /\ Fault
  /\ UNCHANGED <<rows, handled, sends, blame>>

-----------------------------------------------------------------------------
(* The environment.                                                        *)

(* The process dies and starts again: its local state is gone.             *)
Crash(w) ==
  /\ pc[w] # "idle" \/ batch[w] # {}
  /\ pc'    = [pc EXCEPT ![w] = "idle"]
  /\ msg'   = [msg EXCEPT ![w] = NoMsg]
  /\ batch' = [batch EXCEPT ![w] = {}]
  /\ kind'  = [kind EXCEPT ![w] = "none"]
  /\ goal'  = [goal EXCEPT ![w] = "absent"]
  /\ read'  = [read EXCEPT ![w] = "absent"]
  /\ Fault
  /\ IF SentUnrecorded(w) THEN Blame(msg[w], "crash_unrecorded")
                          ELSE UNCHANGED blame
  /\ UNCHANGED <<rows, seen, handled, sends>>

(* The heartbeat of run_ai_step; touch_processing only asks that the row   *)
(* be in processing, whoever holds it.                                     *)
Heartbeat(w) ==
  /\ pc[w] \in AiSteps
  /\ status[msg[w]] = "processing" /\ stale[msg[w]]
  /\ Touch(msg[w])
  /\ UNCHANGED <<work, status, run, safety, review, seen, faults, handled,
                 sends, blame>>

(* Three minutes pass without a write to a row nobody works on ...         *)
Expire(m) ==
  /\ status[m] = "processing" /\ ~stale[m]
  /\ \A w \in Workers : ~Holds(w, m)
  /\ stale' = [stale EXCEPT ![m] = TRUE]
  /\ UNCHANGED <<work, status, run, safety, review, seen, faults, handled,
                 sends, blame>>

(* ... or to a row a worker holds, in a step that does not heartbeat.      *)
Overrun(m) ==
  /\ status[m] = "processing" /\ ~stale[m]
  /\ \E w \in Workers : Holds(w, m)
  /\ ~Beating(m)
  /\ stale' = [stale EXCEPT ![m] = TRUE]
  /\ Fault
  /\ Blame(m, "slow_step")
  /\ UNCHANGED <<work, status, run, safety, review, seen, handled, sends>>

-----------------------------------------------------------------------------

Progress(w) ==
  \/ FetchUnseen(w) \/ StartMessage(w)
  \/ ClaimInsert(w) \/ ClaimSelect(w) \/ ClaimReclaim(w) \/ ClaimError(w)
  \/ SafetyScan(w) \/ RecordQuarantine(w) \/ LoadThread(w) \/ RouteHandoff(w)
  \/ Classify(w) \/ RuleDecision(w) \/ AgentDecision(w) \/ OutboundReview(w)
  \/ RecordOutbound(w) \/ Send(w) \/ UpdateStatus(w) \/ MarkSeen(w)

Next ==
  \/ \E w \in Workers : Progress(w) \/ Crash(w) \/ Heartbeat(w)
  \/ \E m \in Messages : Expire(m) \/ Overrun(m)

Spec == Init /\ [][Next]_vars

(* A process keeps polling, every await returns (AI steps by their 90 s    *)
(* timeout, SMTP and IMAP by their protocol timeouts), and an abandoned    *)
(* row grows old.  Nothing obliges a fault to happen.                      *)
Fairness ==
  /\ \A w \in Workers : WF_vars(Progress(w))
  /\ \A m \in Messages : WF_vars(Expire(m))

FairSpec == Spec /\ Fairness

-----------------------------------------------------------------------------
(* Properties.                                                             *)

(* The type of every variable.                                             *)
TypeOK ==
  /\ pc \in [Workers -> Steps]
  /\ msg \in [Workers -> Messages \cup {NoMsg}]
  /\ batch \in [Workers -> SUBSET Messages]
  /\ kind \in [Workers -> Kinds]
  /\ goal \in [Workers -> Statuses]
  /\ read \in [Workers -> Statuses]
  /\ status \in [Messages -> Statuses]
  /\ stale \in [Messages -> BOOLEAN]
  /\ run \in [Messages -> Workers]
  /\ safety \in [Messages -> {"none", "safe", "unsafe"}]
  /\ review \subseteq Messages
  /\ seen \subseteq Messages
  /\ faults \in 0..MaxFaults
  /\ handled \subseteq Messages
  /\ replies \in [Messages -> 0..2]
  /\ forwards \in [Messages -> 0..2]
  /\ blame \in [Messages -> SUBSET Causes]

(* Two workers never work on the same mail, unless one of them was slower  *)
(* than the stale window in a step without a heartbeat: the conditional    *)
(* UPDATE, the stale window and the heartbeat make the claim a lease.      *)
ExclusiveClaim ==
  \A m \in Messages : \A v, w \in Workers :
    Holds(v, m) /\ Holds(w, m) => v = w \/ "slow_step" \in blame[m]

Sent(m) == replies[m] + forwards[m]

(* A mail leads to a second outbound mail only after an ambiguous SMTP     *)
(* error, a status write lost after the send, a crash between the two, or  *)
(* a step that outlived the stale window; retries after any other failure  *)
(* are safe.                                                               *)
DuplicateNeedsCause ==
  \A m \in Messages : Sent(m) > 1 => blame[m] \cap DuplicateCauses # {}

(* A mail is flagged seen only after its outcome: one was sent, or it was  *)
(* decided that none is.  The exception is a worker that loses the reclaim *)
(* of a failed mail to another one.                                        *)
SeenNeedsOutcome ==
  \A m \in seen : m \in handled \/ "lost_claim" \in blame[m]

(* The same without the exception: it holds while one process polls.       *)
SeenOnlyWhenHandled == seen \subseteq handled

(* A mail whose run failed is still unseen, so that a later poll fetches it*)
(* again (worker/tests/chunk_3.rs:469 and :545), unless it was handled.    *)
FailedMailStaysUnseen ==
  \A m \in seen : status[m] \in Failed => m \in handled

(* A mail that is too long for the prompt or asks for a human never gets a *)
(* reply written by the AI, whatever failed and was retried on the way.    *)
NeverAutoReplied == \A m \in Oversized \cup HumanReview : replies[m] = 0

(* The row's final status agrees with the recorded scan: a quarantined     *)
(* mail has its unsafe verdict and its sender in review, and a replied one *)
(* is recorded safe unless that (non-fatal) write failed.                  *)
EvidenceAgrees ==
  \A m \in Messages : "slow_step" \notin blame[m] =>
    /\ status[m] = "quarantined" => safety[m] = "unsafe" /\ m \in review
    /\ status[m] = "replied" /\ "safety_lost" \notin blame[m]
         => safety[m] = "safe"

(* No worker reopens or relabels a finished row unless one overran.        *)
FinishedStaysFinished ==
  [][\A m \in Messages :
       status[m] \in Finished /\ "slow_step" \notin blame'[m]
         => status'[m] = status[m]]_vars

(* README.md:163: "so repeated polls do not send duplicate replies".       *)
NoDuplicateReplies == \A m \in Messages : replies[m] <= 1

(* Once faults stop, every mail reaches an outcome and is flagged seen.    *)
EventuallyHandled == \A m \in Messages : <>(m \in handled)
EventuallySeen    == \A m \in Messages : <>(m \in seen)

(* The pipeline implements the abstract promise: every step is one of its  *)
(* actions or changes nothing it speaks of.                                *)
Promise == INSTANCE OutboundPromise WITH
  Mails        <- Messages,
  answered     <- {m \in Messages : Sent(m) > 0},
  repeated     <- {m \in Messages : Sent(m) > 1},
  concluded    <- handled,
  acknowledged <- seen,
  excused      <- {m \in Messages : blame[m] \cap DuplicateCauses # {}},
  misled       <- {m \in Messages : "lost_claim" \in blame[m]}

KeepsPromise == Promise!Spec
=============================================================================

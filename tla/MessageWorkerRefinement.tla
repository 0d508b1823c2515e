---------------------- MODULE MessageWorkerRefinement ----------------------
(***************************************************************************)
(* MessageWorker implements OutboundPromise: each step is one action of the*)
(* promise, or it changes nothing the promise speaks of.                   *)
(***************************************************************************)
EXTENDS MessageWorkerProofs

Answered == {m \in Messages : Sent(m) > 0}
Repeated == {m \in Messages : Sent(m) > 1}
Excused  == {m \in Messages : blame[m] \cap DuplicateCauses # {}}
Misled   == {m \in Messages : "lost_claim" \in blame[m]}

Promised == <<Answered, Repeated, handled, seen, Excused, Misled>>

(* Without a send and without a cause recorded, three parts stay.          *)
LEMMA NothingSent ==
  ASSUME UNCHANGED <<replies, forwards>>
  PROVE  UNCHANGED <<Answered, Repeated>>
  BY DEF Answered, Repeated, Sent

LEMMA NothingBlamed ==
  ASSUME UNCHANGED blame
  PROVE  UNCHANGED <<Excused, Misled>>
  BY DEF Excused, Misled, Clean

(* A cause of duplicates excuses its mail and misleads nobody.             *)
LEMMA CauseExcuses ==
  ASSUME DataOK, NEW m \in Messages, NEW c \in DuplicateCauses, Blame(m, c)
  PROVE  Excused' = Excused \cup {m} /\ Misled' = Misled
<1>1. /\ \A n \in Messages \ {m} : blame'[n] = blame[n]
      /\ blame'[m] = blame[m] \cup {c}
  BY DEF DataOK, Blame
<1>2. c # "lost_claim"
  BY DEF DuplicateCauses
<1>3. Excused' = Excused \cup {m}
  BY <1>1 DEF Excused, Clean
<1>4. Misled' = Misled
  BY <1>1, <1>2 DEF Misled
<1> QED BY <1>3, <1>4

(* A lost claim misleads; a lost safety verdict does neither.              *)
LEMMA OtherBlame ==
  ASSUME DataOK, NEW m \in Messages
  PROVE  /\ Blame(m, "lost_claim") =>
              Excused' = Excused /\ Misled' = Misled \cup {m}
         /\ Blame(m, "safety_lost") => Excused' = Excused /\ Misled' = Misled
<1>1. ASSUME NEW c, Blame(m, c), c \notin DuplicateCauses
      PROVE  Excused' = Excused
  BY <1>1 DEF DataOK, Blame, Excused, Clean
<1>2. "lost_claim" \notin DuplicateCauses /\ "safety_lost" \notin DuplicateCauses
  BY DEF DuplicateCauses
<1>3. Blame(m, "lost_claim") => Misled' = Misled \cup {m}
  BY DEF DataOK, Blame, Misled
<1>4. Blame(m, "safety_lost") => Misled' = Misled
  BY DEF DataOK, Blame, Misled
<1> QED BY <1>1, <1>2, <1>3, <1>4

(* An outbound mail is posted; a repeated one belongs to an excused mail.  *)
LEMMA DeliverPosts ==
  ASSUME IInv, NEW w \in Workers, NEW m \in Messages, pc[w] = "send",
         msg[w] = m, Deliver(m, kind[w])
  PROVE  /\ m \in Answered => m \in Excused
         /\ Answered' = Answered \cup {m}
         /\ Repeated' = IF m \in Answered THEN Repeated \cup {m}
                                               ELSE Repeated
<1>1. WorkOK /\ DataOK /\ LeaseOK /\ CountOK
  BY SplitType DEF IInv
<1>2. Holds(w, m)
  BY Names DEF Holds
<1>3. ASSUME Clean(m), Sent(m) > 0
      PROVE  FALSE
  <2>1. Sent(m) = 1
    BY <1>1, <1>2, <1>3 DEF CountOK, CountedOK, DataOK, Sent
  <2>2. status[m] \notin Finished
    BY <1>1, <1>2, <1>3, CleanLease DEF Finished
  <2>3. PICK v \in Workers : msg[v] = m /\ SentUnrecorded(v)
    BY <1>1, <1>2, <1>3, <2>1, <2>2 DEF CountOK, CountedOK
  <2>4. Holds(v, m)
    BY <2>3, Names DEF SentUnrecorded, Holds
  <2>5. v = w
    BY <1>1, <1>2, <1>3, <2>4, CleanLease
  <2> QED BY <2>3, <2>5 DEF SentUnrecorded
<1>4. /\ \A n \in Messages \ {m} : Sent(n)' = Sent(n)
      /\ Sent(m)' > 0
      /\ Sent(m)' > 1 <=> Sent(m) > 0
  BY <1>1, <1>2 DEF DataOK, Deliver, Bump, Sent
<1>5. \A n \in Messages : Sent(n) \in Nat
  BY <1>1 DEF DataOK, Sent
<1>6. m \in Answered => m \in Excused
  BY <1>3, <1>5 DEF Answered, Excused, Clean
<1>7. Answered' = Answered \cup {m}
  BY <1>4, <1>5 DEF Answered
<1>8. Repeated' = IF m \in Answered THEN Repeated \cup {m} ELSE Repeated
  BY <1>4, <1>5 DEF Answered, Repeated
<1> QED BY <1>6, <1>7, <1>8

-----------------------------------------------------------------------------
(* The step of the promise a step of the pipeline stands for.              *)

Stutters == UNCHANGED Promised
Concludes(m) == handled' = handled \cup {m}
                /\ UNCHANGED <<Answered, Repeated, seen, Excused, Misled>>
Excuses(m)   == Excused' = Excused \cup {m}
                /\ UNCHANGED <<Answered, Repeated, handled, seen, Misled>>

(* The steps that write rows and local state only.                         *)
LEMMA QuietSteps ==
  ASSUME NEW w \in Workers,
         \/ FetchUnseen(w) \/ StartMessage(w) \/ ClaimInsert(w)
         \/ ClaimSelect(w) \/ ClaimError(w) \/ RecordQuarantine(w)
         \/ LoadThread(w) \/ OutboundReview(w) \/ RecordOutbound(w)
         \/ Heartbeat(w)
  PROVE  Stutters
<1>1. UNCHANGED <<replies, forwards, blame, handled, seen>>
  BY DEF FetchUnseen, StartMessage, ClaimInsert, ClaimSelect, ClaimError,
     RecordQuarantine, LoadThread, OutboundReview, RecordOutbound, Heartbeat,
     Claimed, sends
<1> QED BY <1>1, NothingSent, NothingBlamed DEF Stutters, Promised

(* Deciding to send nothing concludes a mail; other decisions are quiet.   *)
LEMMA DecisionSteps ==
  ASSUME NEW w \in Workers,
         \/ RouteHandoff(w) \/ Classify(w) \/ RuleDecision(w)
         \/ AgentDecision(w)
  PROVE  Stutters \/ Concludes(msg[w])
<1>1. /\ UNCHANGED <<replies, forwards, blame, seen>>
      /\ handled' = handled \/ handled' = handled \cup {msg[w]}
  BY DEF RouteHandoff, Classify, RuleDecision, AgentDecision, Decide,
     Undecided, sends
<1> QED BY <1>1, NothingSent, NothingBlamed DEF Stutters, Promised, Concludes

(* A lost status write, a crash and an overrun excuse the mail or nothing. *)
LEMMA MishapSteps ==
  ASSUME DataOK, WorkOK
  PROVE  /\ \A w \in Workers : UpdateStatus(w) \/ Crash(w) =>
               Stutters \/ (msg[w] \in Messages /\ Excuses(msg[w]))
         /\ \A m \in Messages : Overrun(m) => Excuses(m)
<1>1. ASSUME NEW w \in Workers, UpdateStatus(w) \/ Crash(w)
      PROVE  Stutters \/ (msg[w] \in Messages /\ Excuses(msg[w]))
  <2>1. UNCHANGED <<replies, forwards, handled, seen>>
    BY <1>1 DEF UpdateStatus, Crash, sends
  <2>2. \/ UNCHANGED blame
        \/ /\ pc[w] = "update"
           /\ \/ Blame(msg[w], "lost_record")
              \/ Blame(msg[w], "crash_unrecorded")
    BY <1>1 DEF UpdateStatus, Crash, SentUnrecorded
  <2>3. CASE UNCHANGED blame
    BY <2>1, <2>3, NothingSent, NothingBlamed DEF Stutters, Promised
  <2>4. CASE ~UNCHANGED blame
    <3>1. msg[w] \in Messages
      BY <2>2, <2>4, BusyType
    <3>2. PICK c \in DuplicateCauses : Blame(msg[w], c)
      BY <2>2, <2>4 DEF DuplicateCauses
    <3> QED BY <2>1, <3>1, <3>2, CauseExcuses, NothingSent DEF Excuses
  <2> QED BY <2>3, <2>4
<1>2. ASSUME NEW m \in Messages, Overrun(m)
      PROVE  Excuses(m)
  <2>1. UNCHANGED <<replies, forwards, handled, seen>>
    BY <1>2 DEF Overrun, sends
  <2>2. "slow_step" \in DuplicateCauses /\ Blame(m, "slow_step")
    BY <1>2 DEF Overrun, DuplicateCauses
  <2> QED BY <2>1, <2>2, CauseExcuses, NothingSent DEF Excuses
<1> QED BY <1>1, <1>2

(* Every step of the pipeline is a step of the promise.                    *)
LEMMA PromiseStep ==
  ASSUME IInv, [Next]_vars
  PROVE  [Promise!Next]_(Promise!vars)
<1> USE DEF Answered, Repeated, Excused, Misled
<1>1. WorkOK /\ DataOK /\ HandledOK
  BY SplitType DEF IInv
<1>2. Stutters => UNCHANGED Promise!vars
  BY DEF Stutters, Promised, Promise!vars
<1>3. ASSUME NEW m \in Messages, Concludes(m)
      PROVE  Promise!Next
  BY <1>3 DEF Concludes, Promise!Next, Promise!Conclude
<1>4. ASSUME NEW m \in Messages, Excuses(m)
      PROVE  Promise!Next
  BY <1>4 DEF Excuses, Promise!Next, Promise!Excuse
<1>5. ASSUME NEW w \in Workers, ClaimReclaim(w)
      PROVE  [Promise!Next]_(Promise!vars)
  <2>1. PICK m \in Messages : msg[w] = m
    BY <1>1, <1>5, BusyType DEF ClaimReclaim
  <2>2. UNCHANGED <<replies, forwards, handled, seen>>
    BY <1>5 DEF ClaimReclaim, Claimed, sends
  <2>3. UNCHANGED blame \/ Blame(msg[w], "lost_claim")
    BY <1>5 DEF ClaimReclaim, Claimed
  <2>4. CASE UNCHANGED blame
    <3>1. Stutters
      BY <2>2, <2>4, NothingSent, NothingBlamed DEF Stutters, Promised
    <3> QED BY <1>2, <3>1
  <2>5. CASE Blame(msg[w], "lost_claim")
    <3>1. Excused' = Excused /\ Misled' = Misled \cup {m}
      BY <1>1, <2>1, <2>5, OtherBlame
    <3>2. UNCHANGED <<Answered, Repeated>>
      BY <2>2, NothingSent
    <3>3. Promise!Mislead(m)
      BY <2>2, <3>1, <3>2 DEF Promise!Mislead
    <3> QED BY <2>1, <3>3 DEF Promise!Next
  <2> QED BY <2>3, <2>4, <2>5
<1>6. ASSUME NEW w \in Workers, SafetyScan(w)
      PROVE  Stutters
  <2>1. UNCHANGED <<replies, forwards, handled, seen>>
    BY <1>6 DEF SafetyScan, sends
  <2>2. msg[w] \in Messages
    BY <1>1, <1>6, BusyType DEF SafetyScan
  <2>3. UNCHANGED blame \/ Blame(msg[w], "safety_lost")
    BY <1>6 DEF SafetyScan, RecordSafety
  <2>4. UNCHANGED <<Excused, Misled>>
    BY <1>1, <2>2, <2>3, OtherBlame, NothingBlamed
  <2> QED BY <2>1, <2>4, NothingSent DEF Stutters, Promised
<1>7. ASSUME NEW w \in Workers, Send(w)
      PROVE  [Promise!Next]_(Promise!vars)
  <2>1. /\ msg[w] \in Messages
        /\ UNCHANGED seen /\ pc[w] = "send"
    BY <1>1, <1>7, BusyType DEF Send
  <2>2. CASE /\ Deliver(msg[w], kind[w])
             /\ handled' = handled \cup {msg[w]} /\ UNCHANGED blame
    <3>1. Promise!Post(msg[w])
      BY <2>1, <2>2, DeliverPosts DEF Promise!Post
    <3>2. Promise!Deliver(msg[w])
      BY <2>1, <2>2, <3>1, NothingBlamed DEF Promise!Deliver
    <3> QED BY <2>1, <3>2 DEF Promise!Next
  <2>3. CASE UNCHANGED <<replies, forwards, blame, handled>>
    <3>1. Stutters
      BY <2>1, <2>3, NothingSent, NothingBlamed DEF Stutters, Promised
    <3> QED BY <1>2, <3>1
  <2>4. CASE /\ Deliver(msg[w], kind[w]) /\ UNCHANGED handled
             /\ Blame(msg[w], "ambiguous_send")
    <3>1. Promise!Post(msg[w])
      BY <2>1, <2>4, DeliverPosts DEF Promise!Post
    <3>2. Excused' = Excused \cup {msg[w]} /\ Misled' = Misled
      BY <1>1, <2>1, <2>4, CauseExcuses DEF DuplicateCauses
    <3>3. PICK m \in Messages : msg[w] = m
      BY <2>1
    <3>4. Promise!DeliverUnsure(m)
      BY <2>1, <2>4, <3>1, <3>2, <3>3 DEF Promise!DeliverUnsure, Promise!Post
    <3> QED BY <3>4 DEF Promise!Next
  <2> QED BY <1>7, <2>2, <2>3, <2>4 DEF Send, sends
<1>8. ASSUME NEW w \in Workers, MarkSeen(w)
      PROVE  [Promise!Next]_(Promise!vars)
  <2>1. msg[w] \in Messages /\ UNCHANGED <<replies, forwards, blame, handled>>
    BY <1>1, <1>8, BusyType DEF MarkSeen, sends
  <2>2. msg[w] \in handled \cup Misled
    BY <1>1, <1>8, <2>1 DEF MarkSeen, HandledOK
  <2>3. CASE UNCHANGED seen
    <3>1. Stutters
      BY <2>1, <2>3, NothingSent, NothingBlamed DEF Stutters, Promised
    <3> QED BY <1>2, <3>1
  <2>4. CASE seen' = seen \cup {msg[w]}
    <3>1. Promise!Acknowledge(msg[w])
      BY <2>1, <2>2, <2>4, NothingSent, NothingBlamed DEF Promise!Acknowledge
    <3> QED BY <2>1, <3>1 DEF Promise!Next
  <2> QED BY <1>8, <2>3, <2>4 DEF MarkSeen
<1>9. ASSUME NEW w \in Workers,
             \/ RouteHandoff(w) \/ Classify(w) \/ RuleDecision(w)
             \/ AgentDecision(w)
      PROVE  [Promise!Next]_(Promise!vars)
  <2>1. msg[w] \in Messages
    BY <1>1, <1>9, BusyType DEF RouteHandoff, Classify, RuleDecision,
       AgentDecision
  <2> QED BY <1>2, <1>3, <1>9, <2>1, DecisionSteps
<1>10. ASSUME NEW m \in Messages, Expire(m)
       PROVE  Stutters
  BY <1>10, NothingSent, NothingBlamed DEF Expire, sends, Stutters, Promised
<1>11. CASE UNCHANGED vars
  <2>1. Stutters
    BY <1>11, NothingSent, NothingBlamed DEF vars, sends, Stutters, Promised
  <2> QED BY <1>2, <2>1
<1>12. ASSUME NEW w \in Workers, Progress(w) \/ Crash(w) \/ Heartbeat(w)
       PROVE  [Promise!Next]_(Promise!vars)
  <2>1. CASE \/ FetchUnseen(w) \/ StartMessage(w) \/ ClaimInsert(w)
             \/ ClaimSelect(w) \/ ClaimError(w) \/ RecordQuarantine(w)
             \/ LoadThread(w) \/ OutboundReview(w) \/ RecordOutbound(w)
             \/ Heartbeat(w)
    <3>1. Stutters
      BY <2>1, QuietSteps
    <3> QED BY <1>2, <3>1
  <2>2. CASE UpdateStatus(w) \/ Crash(w)
    <3>1. Stutters \/ (msg[w] \in Messages /\ Excuses(msg[w]))
      BY <1>1, <2>2, MishapSteps
    <3>2. CASE msg[w] \in Messages /\ Excuses(msg[w])
      <4>1. PICK m \in Messages : msg[w] = m
        BY <3>2
      <4>2. Excuses(m)
        BY <3>2, <4>1 DEF Excuses
      <4> QED BY <1>4, <4>2
    <3> QED BY <1>2, <3>1, <3>2
  <2>3. CASE ClaimReclaim(w)
    BY <1>5, <2>3
  <2>4. CASE SafetyScan(w)
    BY <1>2, <1>6, <2>4
  <2>5. CASE Send(w)
    BY <1>7, <2>5
  <2>6. CASE MarkSeen(w)
    BY <1>8, <2>6
  <2>7. CASE \/ RouteHandoff(w) \/ Classify(w) \/ RuleDecision(w)
             \/ AgentDecision(w)
    BY <1>9, <2>7
  <2> QED BY <1>12, <2>1, <2>2, <2>3, <2>4, <2>5, <2>6, <2>7 DEF Progress
<1>13. ASSUME NEW m \in Messages, Expire(m) \/ Overrun(m)
       PROVE  [Promise!Next]_(Promise!vars)
  BY <1>1, <1>2, <1>4, <1>10, <1>13, MishapSteps
<1> QED BY <1>11, <1>12, <1>13 DEF Next

(* The pipeline keeps the promise of OutboundPromise: a second mail only   *)
(* for an excused one, Seen only for a concluded one, nothing taken back.  *)
THEOREM PipelineKeepsPromise == Spec => KeepsPromise
<1>1. Init => Promise!Init
  BY DEF Init, Promise!Init, Sent
<1>2. IInv /\ [Next]_vars => [Promise!Next]_(Promise!vars)
  BY PromiseStep
<1> QED BY <1>1, <1>2, Invariant, PTL DEF Spec, KeepsPromise, Promise!Spec
=============================================================================

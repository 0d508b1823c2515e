------------------------ MODULE ThreadHandoffProofs ------------------------
(***************************************************************************)
(* What a handoff guarantees, for any handlers, workers, requests and      *)
(* bounds: whom an active handoff points at was mailed the thread, no      *)
(* request is mailed twice without a cause, no handoff mail is taken for a *)
(* part of the conversation, and the AI falls silent.                      *)
(*                                                                         *)
(* The argument follows one request.  While nothing went wrong with it,    *)
(* only one attempt is under way, the delivery row is that attempt's, and  *)
(* its mail is not out before the attempt has sent it.  Whatever breaks    *)
(* one of these leaves its name in the blame of the request.               *)
(***************************************************************************)
EXTENDS ThreadHandoff, TLAPS, FiniteSetTheorems, SequenceTheorems,
        WellFoundedInduction

Causes == {"overlap", "error", "interrupt"}

Clean(r) == blame[r] \cap Causes = {}

Opened == {"send", "sent", "failed"}

(* What a handler's locals hold at each await.                             *)
HandlerOK(o) ==
  /\ step[o] \in {"idle", "target", "load", "begin"} \cup Opened
  /\ step[o] # "idle" =>
       request[o] \in Requests /\ try[o] \in 1..MaxAttempts /\ to[o] \in Humans
  /\ step[o] \in {"load", "begin"} \cup Opened => target[o] \in Addresses
  /\ step[o] \in {"begin"} \cup Opened => about[o] \in Mails

(* What a worker's locals hold at each await.                              *)
WorkerOK(w) ==
  /\ step[w] \in {"idle", "scan", "lookup", "decide", "begin", "routed",
                  "unsent"} \cup Opened
  /\ step[w] # "idle" => mail[w] \in 2..Len(rows)
  /\ step[w] \in {"begin"} \cup Opened =>
       to[w] \in Humans /\ target[w] \in Addresses /\ about[w] \in Mails
  /\ IF step[w] \in {"routed", "unsent"} \cup Opened
     THEN request[w] \in Fresh ELSE request[w] = None
  /\ step[w] \in Opened => try[w] = 1

LocalsOK ==
  (\A o \in Operators : HandlerOK(o)) /\ \A w \in Workers : WorkerOK(w)

(* The first mail of the thread stays as it was found.                     *)
FirstMail == rows[1].safety = "safe" /\ rows[1].status = "answered"

(* Once a delivery is open, it has its row, and the thread has its own.    *)
OpenedOK ==
  \A a \in Actors : step[a] \in Opened =>
    delivery[request[a]] # NoRow /\ handoff # NoHandoff

(* A request id no attempt has used left no trace.                         *)
Unused ==
  \A r \in Ids : tries[r] = 0 =>
    /\ delivery[r] = NoRow
    /\ \A a \in Actors : step[a] # "idle" => request[a] # r

(* Whoever is about to answer had looked before the handoff was there.     *)
Overtaken ==
  handoff # NoHandoff =>
    answered \cup {mail[w] : w \in {v \in Workers : step[v] = "decide"}}
      \subseteq excused

(* The delivery row and the attempts of a request name the same human, or  *)
(* the request is known to have come with two.                             *)
SameHuman ==
  \A a \in Actors : step[a] # "idle" =>
    /\ request[a] \in Ids /\ delivery[request[a]] # NoRow =>
         \/ delivery[request[a]].to = to[a]
         \/ "retarget" \in blame[request[a]]
    /\ \A b \in Actors :
         step[b] # "idle" /\ request[b] = request[a] /\ request[a] \in Ids =>
           to[a] = to[b] \/ "retarget" \in blame[request[a]]

(* Only a request of an operator comes with two humans.                    *)
OnlyAsked == \A r \in Ids : "retarget" \in blame[r] => r \in Requests

(* Who has sent has a mail in the outbox.                                  *)
SentMail ==
  \A a \in Actors : step[a] = "sent" => \E m \in outbox : m.to = to[a]

(* Every mail that went out belongs to a delivery row.                     *)
MailHasRow == \A m \in outbox : delivery[m.request] # NoRow

(* A clean request has one attempt at a time.                              *)
OneAttempt ==
  \A a, b \in Actors :
    /\ step[a] # "idle" /\ step[b] # "idle"
    /\ request[a] \in Ids /\ request[a] = request[b] /\ Clean(request[a])
    => a = b

(* While a clean request is on its way its delivery row is this attempt's, *)
(* open, and until it is sent there is no mail of it.                      *)
OwnRow ==
  \A a \in Actors : step[a] \in Opened /\ Clean(request[a]) =>
    /\ step[a] # "failed"
    /\ delivery[request[a]].status = "sending"
    /\ delivery[request[a]].try = try[a]
    /\ step[a] = "send" => \A m \in outbox : m.request # request[a]

(* A clean request of an operator with an open row is under way.           *)
RowInUse ==
  \A r \in Requests : Clean(r) =>
    /\ delivery[r].status # "failed"
    /\ delivery[r].status = "sending" =>
         \E o \in Operators : step[o] \in Opened /\ request[o] = r

(* The row a clean request finds, before it opens one, is a sent one.      *)
FoundSent ==
  \A o \in Operators :
    /\ step[o] \in {"target", "load", "begin"} /\ Clean(request[o])
    => delivery[request[o]] = NoRow \/ delivery[request[o]].status = "sent"

(* A clean request has at most one mail.                                   *)
OneMail ==
  \A m, k \in outbox : m.request = k.request /\ Clean(m.request) => m = k

Shape == LocalsOK /\ FirstMail /\ OpenedOK /\ Unused

Attempts == OneAttempt /\ OwnRow /\ RowInUse /\ FoundSent

HandoffInv ==
  /\ TypeOK /\ Shape
  /\ Overtaken
  /\ SameHuman /\ OnlyAsked /\ SentMail /\ ActiveIsDelivered
  /\ Attempts /\ MailHasRow /\ OneMail /\ HandoffMailHidden

-----------------------------------------------------------------------------
(* Types.                                                                  *)

TypeLocals ==
  /\ step \in [Actors -> {"idle", "target", "load", "scan", "lookup",
                          "decide", "begin", "send", "sent", "failed",
                          "routed", "unsent"}]
  /\ request \in [Actors -> Ids \cup {None}]
  /\ try \in [Actors -> 0..MaxAttempts]
  /\ to \in [Actors -> Humans \cup {None}]
  /\ target \in [Actors -> Addresses \cup {None}]
  /\ about \in [Actors -> Mails \cup {0}]
  /\ mail \in [Actors -> Mails \cup {0}]

TypeRows == rows \in Seq(Row) /\ Len(rows) \in Mails

TypeStore == handoff \in Handoff /\ delivery \in [Ids -> Delivery]

TypeCounts ==
  /\ tries \in [Ids -> 0..MaxAttempts]
  /\ bound \in Bounds
  /\ faults \in 0..bound.faults

TypePast ==
  /\ outbox \subseteq HandoffMail
  /\ answered \subseteq Mails /\ excused \subseteq Mails
  /\ blame \in [Ids -> SUBSET {"overlap", "retarget", "error", "interrupt"}]

(* The types in five parts: locals, rows, stores, counters and history.    *)
LEMMA TypeParts ==
  TypeOK <=> TypeLocals /\ TypeRows /\ TypeStore /\ TypeCounts /\ TypePast
  BY DEF TypeOK, TypeLocals, TypeRows, TypeStore, TypeCounts, TypePast

LEMMA TypePartsNext ==
  TypeOK' <=>
    TypeLocals' /\ TypeRows' /\ TypeStore' /\ TypeCounts' /\ TypePast'
  BY DEF TypeOK, TypeLocals, TypeRows, TypeStore, TypeCounts, TypePast

(* What TLC takes from a configuration, every combination of bounds obeys. *)
LEMMA BoundTypes ==
  ASSUME TypeOK
  PROVE  /\ bound.actors \subseteq Actors
         /\ bound.attempts \in [Requests -> 0..MaxAttempts]
         /\ bound.fresh \subseteq Fresh
         /\ bound.mails \in Mails /\ bound.faults \in Nat
  BY HandoffAssumption DEF TypeOK, BoundRecord, Actors, Mails

(* A set of numbers that is not empty has a smallest one.                  *)
LEMMA SmallestNumber ==
  ASSUME NEW T, T \subseteq Nat, T # {}
  PROVE  \E x \in T : \A y \in T : x <= y
<1> DEFINE R == OpToRel(<, Nat)
<1>1. IsWellFoundedOn(R, Nat)
  BY NatLessThanWellFounded
<1>2. \A x, y \in Nat : x < y => <<x, y>> \in R
  BY DEF OpToRel
<1> HIDE DEF R
<1>3. PICK x \in T : \A y \in T : ~(<<y, x>> \in R)
  BY <1>1, WFMin
<1>4. ASSUME NEW y \in T PROVE x <= y
  <2>1. x \in Nat /\ y \in Nat
    OBVIOUS
  <2>2. ~(y < x)
    BY <1>2, <1>3, <2>1
  <2> QED BY <2>1, <2>2
<1> QED BY <1>4

(* A set of positions that is not empty has a last one.                    *)
LEMMA LatestIsMember ==
  ASSUME NEW n \in Nat, NEW S \in SUBSET (1..n), S # {}
  PROVE  Latest(S) \in S
<1> DEFINE T == {n - v : v \in S}
<1>1. T \subseteq Nat /\ T # {}
  <2>1. \A v \in S : n - v \in Nat
    OBVIOUS
  <2> QED BY <2>1
<1>2. PICK x \in T : \A y \in T : x <= y
  <2> HIDE DEF T
  <2> QED BY <1>1, SmallestNumber
<1>3. PICK u \in S : x = n - u
  BY <1>2
<1>4. ASSUME NEW v \in S PROVE v <= u
  <2>1. n - v \in T /\ u \in Nat /\ v \in Nat
    OBVIOUS
  <2> QED BY <1>2, <1>3, <2>1
<1> QED
  BY <1>4 DEF Latest

(* The rows a step leaves: as many or more, with the first one as it was.  *)
RowsKept == TypeRows' /\ FirstMail' /\ Len(rows) <= Len(rows')

(* A row of a later mail may change: the first mail's row stays.           *)
LEMMA UpdateKeeps ==
  ASSUME TypeRows, FirstMail, NEW m \in 2..Len(rows), NEW x \in Row,
         rows' = [rows EXCEPT ![m] = x]
  PROVE  RowsKept
<1>1. rows' \in Seq(Row) /\ Len(rows') = Len(rows)
  BY ExceptSeq DEF TypeRows
<1>2. rows'[1] = rows[1]
  BY DEF TypeRows, Mails
<1> QED
  BY <1>1, <1>2 DEF RowsKept, TypeRows, FirstMail

LEMMA StatusKeeps ==
  ASSUME TypeRows, FirstMail, NEW m \in 2..Len(rows),
         NEW s \in Settled \cup {"processing", "failed"}, SetStatus(m, s)
  PROVE  RowsKept
<1>1. rows[m] \in Row
  BY DEF TypeRows
<1>2. [rows[m] EXCEPT !.status = s] \in Row
  BY <1>1 DEF Row
<1>3. rows' = [rows EXCEPT ![m] = [rows[m] EXCEPT !.status = s]]
  BY DEF SetStatus
<1> QED
  BY <1>2, <1>3, UpdateKeeps

(* Rows nobody touches are kept.                                           *)
LEMMA SameKeeps ==
  ASSUME TypeRows, FirstMail, UNCHANGED rows
  PROVE  RowsKept
  BY DEF RowsKept, TypeRows, FirstMail, Mails

(* A scan changes the safety verdict of its own mail.                      *)
LEMMA ScanKeeps ==
  ASSUME TypeRows, FirstMail, NEW w \in Workers, WorkerOK(w), ScanMail(w)
  PROVE  RowsKept
<1> DEFINE m == mail[w]
<1>1. m \in 2..Len(rows) /\ rows[m] \in Row
  BY DEF ScanMail, WorkerOK, TypeRows, Mails
<1>2. CASE rows' = [rows EXCEPT ![m].safety = "safe"]
  <2>1. [rows[m] EXCEPT !.safety = "safe"] \in Row
    BY <1>1 DEF Row
  <2>2. rows' = [rows EXCEPT ![m] = [rows[m] EXCEPT !.safety = "safe"]]
    BY <1>2
  <2> QED
    BY <1>1, <2>1, <2>2, UpdateKeeps
<1>3. CASE rows' = [rows EXCEPT ![m].safety = "unsafe",
                                ![m].status = "quarantined"]
  <2> DEFINE x == [rows[m] EXCEPT !.safety = "unsafe",
                                  !.status = "quarantined"]
  <2>1. x \in Row
    BY <1>1 DEF Row, Settled
  <2>2. rows' = [rows EXCEPT ![m] = x]
    BY <1>1, <1>3 DEF TypeRows
  <2> QED
    BY <1>1, <2>1, <2>2, UpdateKeeps
<1> QED
  BY <1>2, <1>3, SameKeeps DEF ScanMail

(* A claimed mail that is new gets the next number.                        *)
LEMMA NewMailKeeps ==
  ASSUME TypeOK, FirstMail, NEW w \in Workers, ClaimNew(w)
  PROVE  RowsKept /\ Len(rows') = Len(rows) + 1
<1>1. PICK s \in Addresses :
        rows' = Append(rows, [from |-> s, safety |-> None,
                              status |-> "processing"])
  BY DEF ClaimNew
<1>2. [from |-> s, safety |-> None, status |-> "processing"] \in Row
  BY DEF Row
<1>3. /\ rows' \in Seq(Row) /\ Len(rows') = Len(rows) + 1
      /\ \A i \in 1..Len(rows) : rows'[i] = rows[i]
  BY <1>1, <1>2, AppendProperties DEF TypeOK
<1>4. Len(rows') \in Mails /\ 1 \in 1..Len(rows)
  BY <1>3, BoundTypes, HandoffAssumption DEF ClaimNew, TypeOK, Mails
<1> QED
  BY <1>3, <1>4 DEF RowsKept, TypeRows, FirstMail, TypeOK, Mails

(* Who acts, and with what.                                                *)
HandlerAct(o) == OperatorStep(o) \/ Interrupt(o)

WorkerAct(w) == WorkerStep(w) \/ ClaimNew(w) \/ PollNothing(w) \/ FailMail(w)

(* A step is a handler's, a worker's, or nobody's.                         *)
LEMMA StepCases ==
  ASSUME TypeOK, [Next]_vars
  PROVE  /\ UNCHANGED bound
         /\ \/ \E o \in Operators : HandlerAct(o)
            \/ \E w \in Workers : WorkerAct(w)
            \/ UNCHANGED vars
  BY DEF Next, vars, Acting, HandlerAct, WorkerAct

(* No handler changes what is known of a mail.                             *)
LEMMA HandlerRows ==
  ASSUME TypeOK, FirstMail, NEW o \in Operators, HandlerAct(o)
  PROVE  RowsKept
  BY TypeParts, SameKeeps DEF HandlerAct, OperatorStep, Validate, ReadTarget,
     LoadThread, OpenDelivery, SendHandoff, CloseDelivery, Interrupt, store

(* A worker changes only mails after the first.                            *)
LEMMA WorkerRows ==
  ASSUME TypeOK, FirstMail, NEW w \in Workers, WorkerOK(w), WorkerAct(w)
  PROVE  RowsKept
<1> USE TypeParts
<1>2. step[w] # "idle" => mail[w] \in 2..Len(rows)
  BY DEF WorkerOK
<1>3. CASE ClaimAgain(w)
  <2>1. PICK m \in DOMAIN rows : rows[m].status \notin Settled
                                 /\ SetStatus(m, "processing")
    BY <1>3 DEF ClaimAgain
  <2>2. m \in 2..Len(rows)
    BY <2>1 DEF FirstMail, Settled, TypeRows
  <2> QED
    BY <2>1, <2>2, StatusKeeps
<1>4. CASE LookUp(w)
  BY <1>2, <1>4, StatusKeeps, SameKeeps DEF LookUp, Settled
<1>5. CASE Decide(w)
  BY <1>2, <1>5, StatusKeeps, SameKeeps DEF Decide, Settled
<1>6. CASE RecordStatus(w)
  BY <1>2, <1>6, StatusKeeps, SameKeeps DEF RecordStatus, Settled
<1>7. CASE FailMail(w)
  BY <1>2, <1>7, StatusKeeps, SameKeeps DEF FailMail
<1>8. CASE OpenRouting(w) \/ SendRouted(w) \/ CloseRouting(w)
  BY <1>8, SameKeeps DEF OpenRouting, SendRouted, CloseRouting, store
<1>9. CASE PollNothing(w)
  BY <1>9, SameKeeps DEF PollNothing, vars, store
<1> QED
  BY <1>3, <1>4, <1>5, <1>6, <1>7, <1>8, <1>9, ScanKeeps, NewMailKeeps
  DEF WorkerAct, WorkerStep

-----------------------------------------------------------------------------
(* The locals.                                                             *)

(* A step moves one actor and leaves the locals of the others.             *)
Others(a) ==
  \A b \in Actors \ {a} :
    /\ step'[b] = step[b] /\ request'[b] = request[b] /\ try'[b] = try[b]
    /\ to'[b] = to[b] /\ target'[b] = target[b] /\ about'[b] = about[b]
    /\ mail'[b] = mail[b]

(* Whoever returns is idle and holds no request.                           *)
LEMMA ReturnIsIdle ==
  ASSUME TypeLocals, NEW a \in Actors, Return(a)
  PROVE  /\ TypeLocals' /\ Others(a)
         /\ step'[a] = "idle" /\ request'[a] = None
<1>1. TypeLocals'
  BY HandoffAssumption DEF TypeLocals, Return
<1> QED
  BY <1>1 DEF TypeLocals, Return, Others

(* The thread has a safe mail, its first, and the last one is one of it.   *)
LEMMA LatestSafe ==
  ASSUME TypeOK, FirstMail
  PROVE  /\ Latest(SafeRows) \in Mails
         /\ rows[Latest(SafeRows)].from \in Addresses
<1>1. Len(rows) \in Nat /\ DOMAIN rows = 1..Len(rows) /\ 1 \in DOMAIN rows
  BY DEF TypeOK, Mails
<1>2. SafeRows \subseteq 1..Len(rows) /\ 1 \in SafeRows
  BY <1>1 DEF SafeRows, FirstMail
<1>3. Latest(SafeRows) \in 1..Len(rows)
  BY <1>1, <1>2, LatestIsMember
<1>4. rows[Latest(SafeRows)] \in Row
  BY <1>3 DEF TypeOK
<1> QED
  BY <1>1, <1>3, <1>4, HandoffAssumption DEF TypeOK, Mails, Row

(* A handler's step leaves the others' locals alone, and its own in order. *)
LEMMA HandlerMoves ==
  ASSUME TypeOK, LocalsOK, FirstMail, NEW o \in Operators, HandlerAct(o)
  PROVE  TypeLocals' /\ Others(o) /\ HandlerOK(o)'
<1>1. o \in Actors /\ HandlerOK(o) /\ TypeLocals /\ TypeCounts
  BY TypeParts DEF LocalsOK, Actors
<1> USE <1>1 DEF TypeLocals, Others, HandlerOK, Goto, Opened
<1>2. CASE Validate(o)
  <2>1. PICK r \in Requests, h \in Humans :
          /\ tries[r] < bound.attempts[r]
          /\ request' = [request EXCEPT ![o] = r]
          /\ try' = [try EXCEPT ![o] = tries[r] + 1]
          /\ to' = [to EXCEPT ![o] = h]
    BY <1>2 DEF Validate
  <2>2. tries[r] + 1 \in 1..MaxAttempts
    BY <2>1, BoundTypes, HandoffAssumption DEF TypeCounts, Ids
  <2>3. r \in Ids
    BY DEF Ids
  <2> QED
    BY <1>2, <2>1, <2>2, <2>3 DEF Validate
<1>3. CASE ReadTarget(o)
  BY <1>3, LatestSafe, ReturnIsIdle DEF ReadTarget
<1>4. CASE LoadThread(o)
  BY <1>4, LatestSafe DEF LoadThread
<1>5. CASE OpenDelivery(o)
  BY <1>5, ReturnIsIdle DEF OpenDelivery
<1>6. CASE SendHandoff(o)
  BY <1>6 DEF SendHandoff, Smtp
<1>7. CASE CloseDelivery(o) \/ Interrupt(o)
  BY <1>7, ReturnIsIdle DEF CloseDelivery, Interrupt
<1> QED
  BY <1>2, <1>3, <1>4, <1>5, <1>6, <1>7 DEF HandlerAct, OperatorStep

(* So does a worker's.                                                     *)
LEMMA WorkerMoves ==
  ASSUME TypeOK, LocalsOK, FirstMail, NEW w \in Workers, WorkerAct(w)
  PROVE  TypeLocals' /\ Others(w) /\ WorkerOK(w)'
<1>1. w \in Actors /\ WorkerOK(w) /\ TypeLocals /\ TypeRows
  BY TypeParts DEF LocalsOK, Actors
<1>2. /\ Len(rows) \in Mails /\ Len(rows') \in Mails
      /\ Len(rows) <= Len(rows') /\ MaxMails \in Nat
  BY <1>1, WorkerRows, HandoffAssumption DEF RowsKept, TypeRows, Mails
<1>3. step[w] # "idle" => mail[w] \in 2..Len(rows')
  BY <1>1, <1>2 DEF WorkerOK, Mails
<1> USE <1>1 DEF TypeLocals, Others, WorkerOK, Goto, Opened
<1>4. CASE ClaimNew(w)
  <2>1. Len(rows') = Len(rows) + 1
    BY <1>4, NewMailKeeps
  <2> QED
    BY <1>2, <1>4, <2>1 DEF ClaimNew, Mails
<1>5. CASE ClaimAgain(w)
  <2>1. PICK m \in DOMAIN rows : /\ rows[m].status \notin Settled
                                 /\ mail' = [mail EXCEPT ![w] = m]
    BY <1>5 DEF ClaimAgain
  <2>2. m \in 2..Len(rows) /\ m \in Mails /\ m \in 2..Len(rows')
    BY <1>2, <2>1 DEF FirstMail, Settled, TypeRows, Mails
  <2> QED
    BY <1>5, <2>1, <2>2 DEF ClaimAgain
<1>6. CASE ScanMail(w)
  BY <1>3, <1>6, ReturnIsIdle DEF ScanMail
<1>7. CASE LookUp(w)
  <2>1. Routed => handoff.to \in Humans /\ handoff.target \in Addresses
    BY DEF TypeOK, Handoff, Routed, NoHandoff, None
  <2>2. mail[w] \in Mails
    BY <1>2, <1>3, <1>7 DEF LookUp, Mails
  <2>3. CASE Return(w)
    BY <1>3, <2>3, ReturnIsIdle
  <2>4. CASE ~Routed /\ Goto(w, "decide")
    BY <1>3, <1>7, <2>4 DEF LookUp, Return
  <2>5. CASE Routed /\ Goto(w, "begin")
    <3>1. /\ to' = [to EXCEPT ![w] = handoff.to]
          /\ target' = [target EXCEPT ![w] = handoff.target]
          /\ about' = [about EXCEPT ![w] = mail[w]]
          /\ UNCHANGED <<request, try, mail>>
      BY <1>7, <2>5 DEF LookUp, Return
    <3> QED
      BY <1>3, <1>7, <2>1, <2>2, <2>5, <3>1 DEF LookUp
  <2> QED
    BY <1>7, <2>3, <2>4, <2>5 DEF LookUp
<1>8. CASE OpenRouting(w)
  BY <1>3, <1>8, BoundTypes, HandoffAssumption DEF OpenRouting, Ids
<1>9. CASE SendRouted(w)
  BY <1>3, <1>9 DEF SendRouted, Smtp
<1>10. CASE CloseRouting(w)
  BY <1>3, <1>10 DEF CloseRouting
<1>11. CASE Decide(w) \/ RecordStatus(w) \/ FailMail(w)
  BY <1>11, ReturnIsIdle DEF Decide, RecordStatus, FailMail
<1>12. CASE PollNothing(w)
  BY <1>3, <1>12 DEF PollNothing, vars, local
<1> QED
  BY <1>4, <1>5, <1>6, <1>7, <1>8, <1>9, <1>10, <1>11, <1>12
  DEF WorkerAct, WorkerStep

-----------------------------------------------------------------------------
(* The tables, the bounds and the history keep their types.                *)

(* A delivery that begins has a row, and the thread has a handoff.         *)
LEMMA BeginTypes ==
  ASSUME TypeOK, NEW a \in Actors, NEW r \in Ids, NEW k \in 1..MaxAttempts,
         to[a] \in Humans, target[a] \in Addresses, BeginDelivery(a, r, k),
         \A w \in Workers : step[w] = "decide" => mail[w] \in Mails
  PROVE  /\ TypeStore' /\ excused' \subseteq Mails
         /\ delivery'[r] # NoRow /\ handoff' # NoHandoff
         /\ \A q \in Ids : delivery[q] # NoRow => delivery'[q] # NoRow
<1> DEFINE row == [status |-> "sending", try |-> k, to |-> to[a],
                   target |-> target[a]]
           hand == [state |-> "sending", to |-> to[a], target |-> target[a]]
<1>1. row \in Delivery /\ row # NoRow /\ hand \in Handoff /\ hand # NoHandoff
  BY DEF Delivery, NoRow, None, Handoff, NoHandoff
<1>2. delivery' = IF delivery[r] # NoRow THEN delivery
                  ELSE [delivery EXCEPT ![r] = row]
  BY DEF BeginDelivery
<1>3. handoff' = IF handoff.state = "active" THEN handoff ELSE hand
  BY DEF BeginDelivery
<1>4. excused' \subseteq Mails
  BY DEF BeginDelivery, TypeOK
<1> HIDE DEF row, hand
<1>5. handoff' # NoHandoff
  BY <1>1, <1>3 DEF NoHandoff, None
<1> QED
  BY <1>1, <1>2, <1>3, <1>4, <1>5 DEF TypeStore, TypeOK

(* A delivery that ends keeps its row.                                     *)
LEMMA FinishTypes ==
  ASSUME TypeOK, NEW r \in Ids, delivery[r] # NoRow, handoff # NoHandoff,
         NEW s \in {"sent", "failed"}, FinishDelivery(r, s)
  PROVE  /\ TypeStore' /\ handoff' # NoHandoff
         /\ \A q \in Ids : delivery[q] # NoRow => delivery'[q] # NoRow
         /\ delivery' = [delivery EXCEPT
              ![r] = [status |-> s, try |-> delivery[r].try,
                      to |-> delivery[r].to, target |-> delivery[r].target]]
<1> DEFINE row == [status |-> s, try |-> delivery[r].try,
                   to |-> delivery[r].to, target |-> delivery[r].target]
<1>1. delivery[r] \in [status : {"sending", "sent", "failed"},
                       try : 1..MaxAttempts, to : Humans, target : Addresses]
  BY DEF TypeOK, Delivery
<1>2. row \in Delivery /\ row # NoRow
  BY <1>1 DEF Delivery, NoRow, None
<1>3. [delivery[r] EXCEPT !.status = s] = row
  BY <1>1
<1>4. delivery' = [delivery EXCEPT ![r] = row]
  BY <1>3 DEF FinishDelivery
<1>5. handoff \in [state : {"sending", "active", "uncertain"}, to : Humans,
                   target : Addresses]
  BY DEF TypeOK, Handoff
<1>6. CASE s = "sent"
  <2>1. handoff' = [state |-> "active", to |-> delivery[r].to,
                    target |-> delivery[r].target]
    BY <1>6 DEF FinishDelivery
  <2> QED
    BY <1>1, <1>2, <1>4, <2>1
    DEF TypeStore, TypeOK, Handoff, NoHandoff, None
<1>7. CASE s = "failed"
  <2>1. handoff' = IF handoff.state # "active"
                   THEN [handoff EXCEPT !.state = "uncertain"] ELSE handoff
    BY <1>7 DEF FinishDelivery
  <2>2. handoff' \in Handoff /\ handoff' # NoHandoff
    BY <1>5, <2>1 DEF Handoff, NoHandoff, None
  <2>3. /\ delivery' \in [Ids -> Delivery]
        /\ \A q \in Ids : delivery[q] # NoRow => delivery'[q] # NoRow
    <3> HIDE DEF row
    <3> QED
      BY <1>2, <1>4 DEF TypeOK
  <2> QED
    BY <1>4, <2>2, <2>3 DEF TypeStore
<1> QED
  BY <1>6, <1>7

(* Faults stay within the bound of the behaviour.                          *)
LEMMA FaultTypes ==
  ASSUME TypeOK, Fault \/ UNCHANGED faults, UNCHANGED bound
  PROVE  faults' \in 0..bound'.faults
  BY BoundTypes DEF TypeOK, Fault

(* A mail that is sent is a handoff mail, and blame is never taken back.   *)
LEMMA SmtpTypes ==
  ASSUME TypeOK, NEW a \in Actors, request[a] \in Ids,
         try[a] \in 1..MaxAttempts, to[a] \in Humans, target[a] \in Addresses,
         about[a] \in Mails, Smtp(a)
  PROVE  /\ outbox' \subseteq HandoffMail
         /\ blame' \in
              [Ids -> SUBSET {"overlap", "retarget", "error", "interrupt"}]
         /\ \A r \in Ids : /\ blame[r] \subseteq blame'[r]
                           /\ blame'[r] \subseteq blame[r] \cup {"error"}
<1> DEFINE m == [request |-> request[a], try |-> try[a], to |-> to[a],
                 target |-> target[a], about |-> about[a], by |-> a]
<1>1. m \in HandoffMail
  BY DEF HandoffMail
<1>2. outbox' = outbox \/ outbox' = outbox \cup {m}
  BY DEF Smtp, Accept
<1>3. outbox' \subseteq HandoffMail
  BY <1>1, <1>2 DEF TypeOK
<1>4. \/ blame' = blame
      \/ blame' = [blame EXCEPT ![request[a]] = @ \cup {"error"}]
  BY DEF Smtp
<1> DEFINE S == {"overlap", "retarget", "error", "interrupt"}
<1>5. blame \in [Ids -> SUBSET S] /\ {"error"} \subseteq S
  BY DEF TypeOK
<1>6. /\ blame' \in [Ids -> SUBSET S]
      /\ \A r \in Ids : /\ blame[r] \subseteq blame'[r]
                        /\ blame'[r] \subseteq blame[r] \cup {"error"}
  <2> HIDE DEF S
  <2> QED
    BY <1>4, <1>5
<1> QED
  BY <1>3, <1>6

TypeTables == TypeStore' /\ TypeCounts' /\ TypePast'

(* The tables keep their types in a handler's step.                        *)
LEMMA HandlerTypes ==
  ASSUME TypeOK, LocalsOK, OpenedOK, NEW o \in Operators, HandlerAct(o),
         UNCHANGED bound
  PROVE  TypeTables
<1>1. o \in Actors /\ HandlerOK(o) /\ Requests \subseteq Ids
  BY DEF LocalsOK, Actors, Ids
<1>2. faults' \in 0..bound'.faults
  BY FaultTypes DEF HandlerAct, OperatorStep, Validate, ReadTarget,
     LoadThread, OpenDelivery, SendHandoff, CloseDelivery, Interrupt, Smtp
<1> USE <1>1, <1>2, TypeParts DEF TypeTables, HandlerOK, Opened
<1>3. CASE Validate(o)
  <2>1. PICK r \in Requests, h \in Humans :
          /\ tries[r] < bound.attempts[r]
          /\ tries' = [tries EXCEPT ![r] = @ + 1]
          /\ blame' = [blame EXCEPT ![r] = @ \cup Mishaps(r, h)]
    BY <1>3 DEF Validate
  <2>2. tries[r] + 1 \in 0..MaxAttempts
    BY <2>1, BoundTypes, HandoffAssumption DEF TypeCounts
  <2>3. Mishaps(r, h) \subseteq {"overlap", "retarget"}
    BY DEF Mishaps
  <2>4. TypeCounts'
    BY <2>1, <2>2 DEF TypeCounts
  <2>5. TypePast'
    BY <1>3, <2>1, <2>3 DEF Validate, TypePast
  <2> QED
    BY <1>3, <2>4, <2>5 DEF Validate, store, TypeStore
<1>4. CASE ReadTarget(o) \/ LoadThread(o)
  BY <1>4 DEF ReadTarget, LoadThread, store, past, TypeStore, TypeCounts,
     TypePast
<1>5. CASE OpenDelivery(o)
  <2>1. \A w \in Workers : step[w] = "decide" => mail[w] \in Mails
    BY HandoffAssumption DEF LocalsOK, WorkerOK, TypeRows, Mails
  <2>2. TypeStore' /\ excused' \subseteq Mails
    BY <1>5, <2>1, BeginTypes DEF OpenDelivery
  <2> QED
    BY <1>5, <2>2 DEF OpenDelivery, TypeCounts, TypePast
<1>6. CASE SendHandoff(o)
  <2>1. /\ outbox' \subseteq HandoffMail
        /\ blame' \in
             [Ids -> SUBSET {"overlap", "retarget", "error", "interrupt"}]
    BY <1>6, SmtpTypes DEF SendHandoff
  <2> QED
    BY <1>6, <2>1 DEF SendHandoff, store, TypeStore, TypeCounts, TypePast
<1>7. CASE CloseDelivery(o)
  <2>1. delivery[request[o]] # NoRow /\ handoff # NoHandoff
    BY <1>7 DEF CloseDelivery, OpenedOK
  <2>2. TypeStore'
    BY <1>7, <2>1, FinishTypes DEF CloseDelivery
  <2> QED
    BY <1>7, <2>2 DEF CloseDelivery, past, TypeCounts, TypePast
<1>8. CASE Interrupt(o)
  <2>1. TypePast'
    BY <1>8 DEF Interrupt, TypePast
  <2> QED
    BY <1>8, <2>1 DEF Interrupt, store, TypeStore, TypeCounts
<1> QED
  BY <1>3, <1>4, <1>5, <1>6, <1>7, <1>8 DEF HandlerAct, OperatorStep

(* And in a worker's.                                                      *)
LEMMA WorkerTypes ==
  ASSUME TypeOK, LocalsOK, OpenedOK, NEW w \in Workers, WorkerAct(w),
         UNCHANGED bound
  PROVE  TypeTables
<1>1. w \in Actors /\ WorkerOK(w) /\ Fresh \subseteq Ids
  BY DEF LocalsOK, Actors, Ids
<1>2. faults' \in 0..bound'.faults
  <2>1. Fault \/ UNCHANGED faults
    BY DEF WorkerAct, WorkerStep, ClaimAgain, ScanMail, LookUp, Decide,
       OpenRouting, SendRouted, CloseRouting, RecordStatus, ClaimNew,
       PollNothing, FailMail, Smtp, vars
  <2> QED
    BY <2>1, FaultTypes
<1>3. \A v \in Workers : step[v] # "idle" => mail[v] \in Mails
  BY TypeParts, HandoffAssumption DEF LocalsOK, WorkerOK, TypeRows, Mails
<1> USE <1>1, <1>2, TypeParts DEF TypeTables, WorkerOK, Opened
<1>4. CASE \/ ClaimNew(w) \/ ClaimAgain(w) \/ ScanMail(w) \/ LookUp(w)
           \/ RecordStatus(w) \/ FailMail(w) \/ PollNothing(w)
  <2>1. UNCHANGED <<handoff, delivery, tries, past>>
    BY <1>4 DEF ClaimNew, ClaimAgain, ScanMail, LookUp, RecordStatus,
       FailMail, PollNothing, vars, store
  <2> QED
    BY <2>1 DEF past, TypeStore, TypeCounts, TypePast
<1>5. CASE Decide(w)
  BY <1>3, <1>5 DEF Decide, TypeStore, TypeCounts, TypePast
<1>6. CASE OpenRouting(w)
  <2>1. PICK r \in bound.fresh :
          tries' = [tries EXCEPT ![r] = 1] /\ BeginDelivery(w, r, 1)
    BY <1>6 DEF OpenRouting
  <2>2. r \in Ids /\ 1 \in 1..MaxAttempts
    BY BoundTypes, HandoffAssumption
  <2>3. TypeStore' /\ excused' \subseteq Mails
    BY <1>3, <1>6, <2>1, <2>2, BeginTypes DEF OpenRouting
  <2>4. TypeCounts'
    <3>1. tries \in [Ids -> 0..MaxAttempts] /\ 1 \in 0..MaxAttempts
      BY <2>2, HandoffAssumption DEF TypeCounts
    <3> QED
      BY <2>1, <3>1 DEF TypeCounts
  <2> QED
    BY <1>6, <2>3, <2>4 DEF OpenRouting, TypePast
<1>7. CASE SendRouted(w)
  <2>1. try[w] \in 1..MaxAttempts
    BY <1>7, HandoffAssumption DEF SendRouted
  <2>2. /\ outbox' \subseteq HandoffMail
        /\ blame' \in
             [Ids -> SUBSET {"overlap", "retarget", "error", "interrupt"}]
    BY <1>7, <2>1, SmtpTypes DEF SendRouted
  <2> QED
    BY <1>7, <2>2 DEF SendRouted, store, TypeStore, TypeCounts, TypePast
<1>8. CASE CloseRouting(w)
  <2>1. delivery[request[w]] # NoRow /\ handoff # NoHandoff
    BY <1>8 DEF CloseRouting, OpenedOK
  <2>2. TypeStore'
    BY <1>8, <2>1, FinishTypes DEF CloseRouting, TypeStore
  <2> QED
    BY <1>8, <2>2 DEF CloseRouting, past, TypeCounts, TypePast
<1> QED
  BY <1>4, <1>5, <1>6, <1>7, <1>8 DEF WorkerAct, WorkerStep

-----------------------------------------------------------------------------
(* The six kinds of steps, as the delivery tables see them.                *)

Blamed ==
  \A r \in Ids : /\ blame[r] \subseteq blame'[r]
                 /\ "retarget" \in blame'[r] => "retarget" \in blame[r]

(* A request of an operator begins.                                        *)
AskStep(o) ==
  \E r \in Requests, h \in Humans :
    /\ step[o] = "idle" /\ step'[o] = "target"
    /\ request'[o] = r /\ to'[o] = h
    /\ \A q \in Ids : tries'[q] = 0 => tries[q] = 0 /\ q # r
    /\ blame' = [blame EXCEPT ![r] = @ \cup Mishaps(r, h)]
    /\ UNCHANGED <<handoff, delivery, outbox>>

(* A step that opens, mails and closes nothing.                            *)
PassStep(a) ==
  /\ UNCHANGED <<delivery, tries, outbox>>
  /\ handoff'.state = "active" => handoff' = handoff
  /\ handoff # NoHandoff => handoff' # NoHandoff
  /\ step'[a] \notin Opened
  /\ \/ step'[a] = "idle"
     \/ /\ a \in Operators /\ request'[a] = request[a] /\ to'[a] = to[a]
        /\ step[a] \in {"target", "load", "begin"}
     \/ a \in Workers /\ request'[a] = None
  /\ Blamed
  /\ a \in Operators /\ step[a] \in Opened =>
       "interrupt" \in blame'[request[a]]

(* A delivery is opened, of the operator's request or of a fresh one.      *)
OpenStep(a) ==
  \E r \in Ids, k \in 1..MaxAttempts :
    /\ step[a] = "begin" /\ step'[a] = "send"
    /\ request'[a] = r /\ try'[a] = k /\ to'[a] = to[a]
    /\ BeginDelivery(a, r, k)
    /\ \/ /\ a \in Operators /\ request[a] = r /\ r \in Requests
          /\ delivery[r].status # "sent" /\ tries' = tries
       \/ /\ a \in Workers /\ tries[r] = 0
          /\ \A q \in Ids : tries'[q] = 0 => tries[q] = 0 /\ q # r
    /\ UNCHANGED <<outbox, blame>>

(* A handoff mail is given to the server.                                  *)
SendStep(a) ==
  /\ step[a] = "send" /\ Smtp(a) /\ step'[a] \in {"sent", "failed"}
  /\ request'[a] = request[a] /\ try'[a] = try[a] /\ to'[a] = to[a]
  /\ UNCHANGED <<handoff, delivery, tries>>
  /\ Blamed

(* A delivery is closed, or its closing was lost and nobody looks.         *)
CloseStep(a) ==
  /\ step[a] \in {"sent", "failed"} /\ step'[a] \notin Opened
  /\ \/ step'[a] = "idle"
     \/ a \in Workers /\ request'[a] = request[a] /\ to'[a] = to[a]
  /\ \/ FinishDelivery(request[a], step[a])
     \/ a \in Workers /\ UNCHANGED <<handoff, delivery>>
  /\ UNCHANGED <<tries, outbox, blame>>

Kind(a) ==
  \/ a \in Operators /\ AskStep(a)
  \/ PassStep(a) \/ OpenStep(a) \/ SendStep(a) \/ CloseStep(a)

(* Every step of a handler is of one of the kinds.                         *)
LEMMA HandlerKind ==
  ASSUME TypeOK, LocalsOK, FirstMail, NEW o \in Operators, HandlerAct(o)
  PROVE  Kind(o)
<1>1. /\ o \in Actors /\ HandlerOK(o) /\ TypeLocals /\ TypePast /\ TypeCounts
      /\ Requests \subseteq Ids
  BY TypeParts DEF LocalsOK, Actors, Ids
<1>2. Return(o) => step'[o] = "idle"
  BY <1>1, ReturnIsIdle
<1>3. CASE Validate(o)
  <2>1. PICK r \in Requests, h \in Humans :
          /\ tries' = [tries EXCEPT ![r] = @ + 1]
          /\ request' = [request EXCEPT ![o] = r]
          /\ to' = [to EXCEPT ![o] = h]
          /\ blame' = [blame EXCEPT ![r] = @ \cup Mishaps(r, h)]
    BY <1>3 DEF Validate
  <2>2. \A q \in Ids : tries'[q] = 0 => tries[q] = 0 /\ q # r
    BY <1>1, <2>1, HandoffAssumption DEF TypeCounts
  <2>3. /\ step[o] = "idle" /\ step'[o] = "target"
        /\ request'[o] = r /\ to'[o] = h
    BY <1>1, <1>3, <2>1 DEF Validate, Goto, TypeLocals
  <2> QED
    BY <1>3, <2>1, <2>2, <2>3 DEF Kind, AskStep, Validate, store
<1>4. CASE ReadTarget(o) \/ LoadThread(o)
  <2>1. /\ step'[o] \in {"idle", "load", "begin"}
        /\ UNCHANGED <<delivery, tries, outbox, handoff, blame>>
        /\ step[o] \in {"target", "load"}
        /\ step'[o] = "idle" \/ UNCHANGED <<request, to>>
    BY <1>1, <1>2, <1>4
    DEF ReadTarget, LoadThread, Goto, store, past, TypeLocals
  <2> QED
    BY <2>1 DEF Kind, PassStep, Opened, Blamed
<1>5. CASE OpenDelivery(o)
  <2>1. /\ step[o] = "begin" /\ BeginDelivery(o, request[o], try[o])
        /\ UNCHANGED <<tries, outbox, blame>>
        /\ request[o] \in Requests /\ try[o] \in 1..MaxAttempts
    BY <1>1, <1>5 DEF OpenDelivery, HandlerOK
  <2>2. CASE delivery[request[o]].status = "sent"
    <3>1. delivery' = delivery /\ step'[o] = "idle"
      BY <1>2, <1>5, <2>1, <2>2
      DEF OpenDelivery, BeginDelivery, NoRow, None
    <3>2. /\ handoff'.state = "active" => handoff' = handoff
          /\ handoff # NoHandoff => handoff' # NoHandoff
      BY <2>1 DEF BeginDelivery, NoHandoff, None
    <3> QED
      BY <2>1, <3>1, <3>2 DEF Kind, PassStep, Opened, Blamed
  <2>3. CASE delivery[request[o]].status # "sent"
    <3>1. step'[o] = "send" /\ UNCHANGED <<request, try, to>>
      BY <1>1, <1>5, <2>3 DEF OpenDelivery, Goto, TypeLocals
    <3> QED
      BY <1>1, <2>1, <2>3, <3>1 DEF Kind, OpenStep
  <2> QED
    BY <2>2, <2>3
<1>6. CASE SendHandoff(o)
  <2>1. step'[o] \in {"sent", "failed"}
    BY <1>1, <1>6 DEF SendHandoff, Smtp, Goto, TypeLocals
  <2>2. Blamed
    BY <1>1, <1>6, SmtpTypes DEF SendHandoff, HandlerOK, Opened, Blamed
  <2> QED
    BY <1>6, <2>1, <2>2 DEF SendHandoff, Kind, SendStep, store
<1>7. CASE CloseDelivery(o)
  BY <1>2, <1>7 DEF CloseDelivery, Kind, CloseStep, Opened, past
<1>8. CASE Interrupt(o)
  <2>1. request[o] \in Ids
    BY <1>1, <1>8 DEF Interrupt, HandlerOK
  <2>2. Blamed /\ "interrupt" \in blame'[request[o]]
    BY <1>1, <1>8, <2>1 DEF Interrupt, TypePast, Blamed
  <2> QED
    BY <1>2, <1>8, <2>2 DEF Interrupt, Kind, PassStep, Opened, store
<1> QED
  BY <1>3, <1>4, <1>5, <1>6, <1>7, <1>8 DEF HandlerAct, OperatorStep

(* So is every step of a worker.                                           *)
LEMMA WorkerKind ==
  ASSUME TypeOK, LocalsOK, FirstMail, NEW w \in Workers, WorkerAct(w)
  PROVE  Kind(w)
<1>1. /\ w \in Actors /\ WorkerOK(w) /\ TypeLocals /\ TypePast /\ TypeCounts
      /\ w \notin Operators
  BY TypeParts, HandoffAssumption DEF LocalsOK, Actors
<1>2. Return(w) => step'[w] = "idle"
  BY <1>1, ReturnIsIdle
<1>3. CASE OpenRouting(w)
  <2>1. PICK r \in bound.fresh :
          /\ tries[r] = 0
          /\ tries' = [tries EXCEPT ![r] = 1]
          /\ request' = [request EXCEPT ![w] = r]
          /\ try' = [try EXCEPT ![w] = 1]
          /\ BeginDelivery(w, r, 1)
    BY <1>3 DEF OpenRouting
  <2>2. r \in Ids /\ 1 \in 1..MaxAttempts
    BY BoundTypes, HandoffAssumption DEF Ids
  <2>3. \A q \in Ids : tries'[q] = 0 => tries[q] = 0 /\ q # r
    BY <1>1, <2>1, <2>2 DEF TypeCounts
  <2>4. /\ step[w] = "begin" /\ step'[w] = "send"
        /\ request'[w] = r /\ try'[w] = 1 /\ to'[w] = to[w]
        /\ UNCHANGED <<outbox, blame>>
    BY <1>1, <1>3, <2>1 DEF OpenRouting, Goto, TypeLocals
  <2> QED
    BY <2>1, <2>2, <2>3, <2>4 DEF Kind, OpenStep
<1>4. CASE SendRouted(w)
  <2>1. step'[w] \in {"sent", "failed"}
    BY <1>1, <1>4 DEF SendRouted, Smtp, Goto, TypeLocals
  <2>2. Blamed
    BY <1>1, <1>4, SmtpTypes, HandoffAssumption
    DEF SendRouted, WorkerOK, Opened, Blamed, Ids
  <2> QED
    BY <1>4, <2>1, <2>2 DEF SendRouted, Kind, SendStep, store
<1>5. CASE CloseRouting(w)
  <2>1. /\ step'[w] \in {"routed", "unsent"}
        /\ UNCHANGED <<request, to, tries, outbox, blame>>
    BY <1>1, <1>5 DEF CloseRouting, Goto, TypeLocals, past
  <2> QED
    BY <1>5, <2>1 DEF CloseRouting, Kind, CloseStep, Opened
<1>6. CASE \/ ClaimNew(w) \/ ClaimAgain(w) \/ ScanMail(w) \/ LookUp(w)
           \/ Decide(w) \/ RecordStatus(w) \/ FailMail(w) \/ PollNothing(w)
  <2>1. UNCHANGED <<handoff, delivery, tries, outbox, blame>>
    BY <1>6 DEF ClaimNew, ClaimAgain, ScanMail, LookUp, Decide, RecordStatus,
       FailMail, PollNothing, vars, store, past
  <2>2. step'[w] = "idle" \/ (step'[w] \notin Opened /\ request'[w] = None)
    BY <1>1, <1>2, <1>6 DEF ClaimNew, ClaimAgain, ScanMail, LookUp, Decide,
       RecordStatus, FailMail, PollNothing, vars, local, Goto, Opened,
       TypeLocals, WorkerOK
  <2> QED
    BY <1>1, <2>1, <2>2 DEF Kind, PassStep, Opened, Blamed
<1> QED
  BY <1>3, <1>4, <1>5, <1>6 DEF WorkerAct, WorkerStep

-----------------------------------------------------------------------------
(* The parts of the invariant, one kind of step after the other.           *)

StepOf(a) == HandoffInv /\ TypeOK' /\ LocalsOK' /\ Others(a) /\ Kind(a)

(* Whose request an actor has, before the step and after it.               *)
LEMMA Requested ==
  ASSUME LocalsOK
  PROVE  /\ \A o \in Operators : step[o] # "idle" =>
              request[o] \in Requests /\ request[o] \in Ids
         /\ \A w \in Workers : /\ w \notin Operators
                               /\ step[w] # "idle" =>
                                    request[w] \notin Requests
         /\ \A a \in Actors : /\ step[a] \in Opened => request[a] \in Ids
                              /\ a \in Operators \/ a \in Workers
  BY HandoffAssumption
  DEF LocalsOK, HandlerOK, WorkerOK, Opened, Actors, Ids

(* Handlers work on operators' requests, workers on ids of their own.      *)
LEMMA RequestedNext ==
  ASSUME LocalsOK'
  PROVE  /\ \A o \in Operators : step'[o] # "idle" =>
              request'[o] \in Requests /\ request'[o] \in Ids
         /\ \A w \in Workers : step'[w] # "idle" => request'[w] \notin Requests
         /\ \A a \in Actors : step'[a] \in Opened => request'[a] \in Ids
  BY HandoffAssumption
  DEF LocalsOK, HandlerOK, WorkerOK, Opened, Actors, Ids

(* Blame only grows.                                                       *)
LEMMA CleanBefore ==
  ASSUME NEW a \in Actors, StepOf(a)
  PROVE  \A r \in Ids : /\ blame[r] \subseteq blame'[r]
                        /\ blame'[r] \cap Causes = {} => Clean(r)
<1>1. \A r \in Ids : blame[r] \subseteq blame'[r]
  <2>1. CASE AskStep(a)
    BY <2>1 DEF AskStep, StepOf, HandoffInv, TypeOK
  <2>2. CASE OpenStep(a) \/ CloseStep(a)
    BY <2>2 DEF OpenStep, CloseStep
  <2>3. CASE PassStep(a) \/ SendStep(a)
    BY <2>3 DEF PassStep, SendStep, Blamed
  <2> QED
    BY <2>1, <2>2, <2>3 DEF StepOf, Kind
<1> QED
  BY <1>1 DEF Clean

(* What an opening does to the tables.                                     *)
LEMMA OpenRow ==
  ASSUME NEW a \in Actors, StepOf(a), NEW r \in Ids, NEW k \in 1..MaxAttempts,
         step[a] = "begin", request'[a] = r, BeginDelivery(a, r, k)
  PROVE  /\ delivery[r] # NoRow => delivery' = delivery
         /\ delivery[r] = NoRow =>
              /\ delivery'[r].status = "sending" /\ delivery'[r].try = k
              /\ delivery'[r].to = to[a]
         /\ delivery'[r] # NoRow /\ handoff' # NoHandoff
         /\ \A q \in Ids \ {r} : delivery'[q] = delivery[q]
         /\ handoff'.state = "active" => handoff' = handoff
<1>1. delivery \in [Ids -> Delivery]
  BY DEF StepOf, HandoffInv, TypeOK
<1>2. to[a] \in Humans /\ target[a] \in Addresses
  BY DEF StepOf, HandoffInv, Shape, LocalsOK, HandlerOK, WorkerOK, Actors
<1>3. \A w \in Workers : step[w] = "decide" => mail[w] \in Mails
  BY HandoffAssumption
  DEF StepOf, HandoffInv, Shape, LocalsOK, WorkerOK, TypeOK, Mails
<1>4. delivery'[r] # NoRow /\ handoff' # NoHandoff
  BY <1>2, <1>3, BeginTypes DEF StepOf, HandoffInv
<1> QED
  BY <1>1, <1>4 DEF BeginDelivery

(* What a closing does to the tables.                                      *)
LEMMA CloseRow ==
  ASSUME NEW a \in Actors, StepOf(a), CloseStep(a)
  PROVE  /\ request[a] \in Ids
         /\ \A q \in Ids : /\ q # request[a] => delivery'[q] = delivery[q]
                           /\ delivery'[q] = NoRow <=> delivery[q] = NoRow
                           /\ delivery'[q].try = delivery[q].try
                           /\ delivery'[q].to = delivery[q].to
         /\ delivery'[request[a]].status \in
              {delivery[request[a]].status, step[a]}
         /\ a \in Operators => delivery'[request[a]].status = step[a]
         /\ handoff' # NoHandoff
<1>1. TypeOK /\ LocalsOK /\ OpenedOK
  BY DEF StepOf, HandoffInv, Shape
<1>2. request[a] \in Ids /\ step[a] \in {"sent", "failed"}
  BY <1>1, Requested DEF CloseStep, Opened
<1>3. delivery[request[a]] # NoRow /\ handoff # NoHandoff
  BY <1>1, <1>2 DEF OpenedOK, Opened
<1>4. CASE FinishDelivery(request[a], step[a])
  <2>1. /\ delivery' = [delivery EXCEPT
              ![request[a]] = [status |-> step[a],
                 try |-> delivery[request[a]].try,
                 to |-> delivery[request[a]].to,
                 target |-> delivery[request[a]].target]]
        /\ handoff' # NoHandoff
        /\ \A q \in Ids : delivery[q] # NoRow => delivery'[q] # NoRow
    BY <1>1, <1>2, <1>3, <1>4, FinishTypes
  <2>2. delivery \in [Ids -> Delivery]
    BY <1>1 DEF TypeOK
  <2> QED
    BY <1>2, <1>3, <2>1, <2>2
<1>5. CASE UNCHANGED <<handoff, delivery>> /\ a \in Workers
  BY <1>1, <1>2, <1>3, <1>5, Requested
<1> QED
  BY <1>4, <1>5 DEF CloseStep

(* An opened delivery has its row, after the step too.                     *)
LEMMA OpenedNext ==
  ASSUME NEW a \in Actors, StepOf(a)
  PROVE  OpenedOK'
<1> USE DEF OpenedOK, Others, Opened
<1>1. /\ Others(a) /\ OpenedOK
      /\ \A b \in Actors : step'[b] \in Opened => request'[b] \in Ids
      /\ \A b \in Actors : step[b] \in Opened => request[b] \in Ids
  BY Requested, RequestedNext DEF StepOf, HandoffInv, Shape
<1>2. CASE AskStep(a)
  BY <1>1, <1>2 DEF AskStep
<1>3. CASE PassStep(a)
  BY <1>1, <1>3 DEF PassStep
<1>4. CASE OpenStep(a)
  <2>1. PICK r \in Ids, k \in 1..MaxAttempts :
          /\ step[a] = "begin" /\ request'[a] = r /\ BeginDelivery(a, r, k)
    BY <1>4 DEF OpenStep
  <2> QED
    BY <1>1, <2>1, OpenRow
<1>5. CASE SendStep(a)
  BY <1>1, <1>5 DEF SendStep
<1>6. CASE CloseStep(a)
  BY <1>1, <1>6, CloseRow DEF CloseStep
<1> QED
  BY <1>2, <1>3, <1>4, <1>5, <1>6 DEF StepOf, Kind

(* An id no attempt has used still has left no trace.                      *)
LEMMA UnusedNext ==
  ASSUME NEW a \in Actors, StepOf(a)
  PROVE  Unused'
<1> USE DEF Unused, Others
<1>1. Others(a) /\ Unused /\ None \notin Ids
  BY HandoffAssumption DEF StepOf, HandoffInv, Shape, Ids
<1>2. CASE AskStep(a)
  BY <1>1, <1>2 DEF AskStep
<1>3. CASE PassStep(a)
  BY <1>1, <1>3 DEF PassStep
<1>4. CASE OpenStep(a)
  <2>1. PICK r \in Ids, k \in 1..MaxAttempts :
          /\ step[a] = "begin" /\ request'[a] = r /\ BeginDelivery(a, r, k)
          /\ \/ request[a] = r /\ tries' = tries
             \/ \A q \in Ids : tries'[q] = 0 => tries[q] = 0 /\ q # r
    BY <1>4 DEF OpenStep
  <2> QED
    BY <1>1, <2>1, OpenRow
<1>5. CASE SendStep(a)
  BY <1>1, <1>5 DEF SendStep
<1>6. CASE CloseStep(a)
  BY <1>1, <1>6, CloseRow DEF CloseStep
<1> QED
  BY <1>2, <1>3, <1>4, <1>5, <1>6 DEF StepOf, Kind

(* The destination of a request: SameHuman and OnlyAsked.                  *)
LEMMA HumanNext ==
  ASSUME NEW a \in Actors, StepOf(a)
  PROVE  SameHuman' /\ OnlyAsked'
<1>1. /\ Others(a) /\ SameHuman /\ OnlyAsked /\ LocalsOK /\ LocalsOK'
      /\ None \notin Ids /\ Unused /\ TypePast
      /\ \A r \in Ids : blame[r] \subseteq blame'[r]
  BY HandoffAssumption, CleanBefore, TypeParts
  DEF StepOf, HandoffInv, Shape, Ids
<1>2. CASE a \in Operators /\ AskStep(a)
  <2>1. PICK r \in Requests, h \in Humans :
          /\ step[a] = "idle" /\ step'[a] = "target"
          /\ request'[a] = r /\ to'[a] = h
          /\ blame' = [blame EXCEPT ![r] = @ \cup Mishaps(r, h)]
          /\ UNCHANGED <<handoff, delivery, outbox>>
    BY <1>2 DEF AskStep
  <2>2. r \in Ids /\ blame'[r] = blame[r] \cup Mishaps(r, h)
    BY <1>1, <2>1 DEF TypePast, Ids
  <2>3. delivery[r] # NoRow => delivery[r].to = h \/ "retarget" \in blame'[r]
    BY <2>2 DEF Mishaps
  <2>4. ASSUME NEW b \in Actors, b # a, step[b] # "idle", request[b] = r
        PROVE  to[b] = h \/ "retarget" \in blame'[r]
    <3>1. b \in Operators
      BY <1>1, <2>4, Requested
    <3> QED
      BY <2>2, <2>4, <3>1 DEF Mishaps, Busy
  <2>5. SameHuman'
    BY <1>1, <2>1, <2>3, <2>4 DEF SameHuman, Others
  <2>6. OnlyAsked'
    BY <1>1, <2>1 DEF OnlyAsked, TypePast
  <2> QED
    BY <2>5, <2>6
<1>3. CASE PassStep(a)
  BY <1>1, <1>3 DEF PassStep, Blamed, SameHuman, OnlyAsked, Others
<1>4. CASE OpenStep(a)
  <2>1. PICK r \in Ids, k \in 1..MaxAttempts :
          /\ step[a] = "begin" /\ request'[a] = r /\ BeginDelivery(a, r, k)
          /\ to'[a] = to[a]
          /\ request[a] = r \/ tries[r] = 0
          /\ UNCHANGED blame
    BY <1>4 DEF OpenStep
  <2>2. CASE request[a] = r
    BY <1>1, <2>1, <2>2, OpenRow DEF SameHuman, OnlyAsked, Others
  <2>3. CASE tries[r] = 0
    <3>1. delivery[r] = NoRow
      BY <1>1, <2>3 DEF Unused
    <3>2. \A b \in Actors : step[b] # "idle" => request[b] # r
      BY <1>1, <2>3 DEF Unused
    <3> QED
      BY <1>1, <2>1, <3>1, <3>2, OpenRow DEF SameHuman, OnlyAsked, Others
  <2> QED
    BY <2>1, <2>2, <2>3
<1>5. CASE SendStep(a)
  BY <1>1, <1>5 DEF SendStep, Blamed, SameHuman, OnlyAsked, Others
<1>6. CASE CloseStep(a)
  BY <1>1, <1>6, CloseRow DEF CloseStep, SameHuman, OnlyAsked, Others
<1> QED
  BY <1>2, <1>3, <1>4, <1>5, <1>6 DEF StepOf, Kind

(* What a send adds to the outbox.                                         *)
LEMMA SentNext ==
  ASSUME NEW a \in Actors, StepOf(a)
  PROVE  /\ SentMail' /\ outbox \subseteq outbox'
         /\ ~SendStep(a) => outbox' = outbox
         /\ SendStep(a) =>
              \A m \in outbox' \ outbox :
                m.request = request[a] /\ m.try = try[a] /\ m.to = to[a]
<1> DEFINE m == [request |-> request[a], try |-> try[a], to |-> to[a],
                 target |-> target[a], about |-> about[a], by |-> a]
<1>1. CASE SendStep(a)
  <2>1. /\ outbox' = outbox \/ outbox' = outbox \cup {m}
        /\ step'[a] = "sent" => outbox' = outbox \cup {m}
    BY <1>1 DEF SendStep, Smtp, Accept, Goto, StepOf, HandoffInv, TypeOK
  <2>2. m.request = request[a] /\ m.try = try[a] /\ m.to = to[a]
    OBVIOUS
  <2> HIDE DEF m
  <2>3. /\ outbox \subseteq outbox'
        /\ \A k \in outbox' \ outbox : k = m
    BY <2>1
  <2>4. SentMail'
    BY <1>1, <2>1, <2>2
    DEF SentMail, SendStep, StepOf, HandoffInv, Others
  <2> QED
    BY <1>1, <2>2, <2>3, <2>4
<1>2. CASE ~SendStep(a)
  BY <1>2 DEF SentMail, StepOf, HandoffInv, Others, Kind, AskStep, PassStep,
     OpenStep, CloseStep, Opened
<1> QED
  BY <1>1, <1>2

(* An active handoff was mailed.                                           *)
LEMMA ActiveNext ==
  ASSUME NEW a \in Actors, StepOf(a)
  PROVE  ActiveIsDelivered'
<1>1. /\ ActiveIsDelivered /\ outbox \subseteq outbox'
      /\ Requests \subseteq Ids
      /\ \A r \in Ids : blame[r] \subseteq blame'[r]
  BY CleanBefore, SentNext DEF StepOf, HandoffInv, Ids
<1>2. CASE handoff'.state = "active" => handoff' = handoff
  BY <1>1, <1>2 DEF ActiveIsDelivered
<1>3. CASE CloseStep(a) /\ FinishDelivery(request[a], step[a])
  <2>1. CASE step[a] = "sent"
    <3>1. handoff'.to = delivery[request[a]].to
      BY <1>3, <2>1 DEF FinishDelivery
    <3>2. request[a] \in Ids /\ delivery[request[a]] # NoRow
      BY <2>1, Requested
      DEF StepOf, HandoffInv, Shape, OpenedOK, Opened
    <3>3. \/ delivery[request[a]].to = to[a]
          \/ "retarget" \in blame[request[a]] /\ request[a] \in Requests
      BY <2>1, <3>2 DEF StepOf, HandoffInv, SameHuman, OnlyAsked
    <3>4. PICK m \in outbox : m.to = to[a]
      BY <2>1 DEF StepOf, HandoffInv, SentMail
    <3> QED
      BY <1>1, <3>1, <3>2, <3>3, <3>4 DEF ActiveIsDelivered
  <2>2. CASE step[a] = "failed"
    <3>1. handoff' = IF handoff.state # "active"
                     THEN [handoff EXCEPT !.state = "uncertain"] ELSE handoff
      BY <1>3, <2>2 DEF FinishDelivery
    <3>2. handoff \in Handoff
      BY DEF StepOf, HandoffInv, TypeOK
    <3>3. handoff'.state = "active" => handoff' = handoff
      BY <3>1, <3>2 DEF Handoff, NoHandoff
    <3> QED
      BY <1>2, <3>3
  <2> QED
    BY <1>3, <2>1, <2>2 DEF CloseStep
<1>4. CASE OpenStep(a)
  <2>1. handoff'.state = "active" => handoff' = handoff
    BY <1>4 DEF OpenStep, BeginDelivery
  <2> QED
    BY <1>2, <2>1
<1> QED
  BY <1>2, <1>3, <1>4
  DEF StepOf, Kind, AskStep, PassStep, SendStep, CloseStep

(* A clean request still has one attempt at a time.                        *)
LEMMA OneAttemptNext ==
  ASSUME NEW a \in Actors, StepOf(a)
  PROVE  OneAttempt'
<1>1. /\ Others(a) /\ OneAttempt /\ LocalsOK /\ LocalsOK'
      /\ None \notin Ids /\ Unused /\ TypePast
      /\ \A r \in Ids : blame'[r] \cap Causes = {} => Clean(r)
  BY HandoffAssumption, CleanBefore, TypeParts
  DEF StepOf, HandoffInv, Shape, Ids, Attempts
<1>2. CASE a \in Operators /\ AskStep(a)
  <2>1. PICK r \in Requests, h \in Humans :
          /\ step[a] = "idle" /\ step'[a] = "target" /\ request'[a] = r
          /\ blame' = [blame EXCEPT ![r] = @ \cup Mishaps(r, h)]
    BY <1>2 DEF AskStep
  <2>2. r \in Ids /\ blame'[r] = blame[r] \cup Mishaps(r, h)
    BY <1>1, <2>1 DEF TypePast, Ids
  <2>3. ASSUME NEW b \in Actors, b # a, step[b] # "idle", request[b] = r
        PROVE  blame'[r] \cap Causes # {}
    <3>1. b \in Operators
      BY <1>1, <2>3, Requested
    <3> QED
      BY <2>2, <2>3, <3>1 DEF Mishaps, Busy, Causes
  <2> QED
    BY <1>1, <2>1, <2>3 DEF OneAttempt, Others, Clean
<1>3. CASE PassStep(a)
  BY <1>1, <1>3 DEF PassStep, OneAttempt, Others, Clean
<1>4. CASE OpenStep(a)
  <2>1. PICK r \in Ids :
          /\ step[a] = "begin" /\ request'[a] = r
          /\ request[a] = r \/ tries[r] = 0
    BY <1>4 DEF OpenStep
  <2>2. tries[r] = 0 => \A b \in Actors : step[b] # "idle" => request[b] # r
    BY <1>1, <2>1 DEF Unused
  <2> QED
    BY <1>1, <2>1, <2>2 DEF OneAttempt, Others, Clean
<1>5. CASE SendStep(a)
  BY <1>1, <1>5 DEF SendStep, OneAttempt, Others, Clean
<1>6. CASE CloseStep(a)
  BY <1>1, <1>6 DEF CloseStep, OneAttempt, Others, Clean
<1> QED
  BY <1>2, <1>3, <1>4, <1>5, <1>6 DEF StepOf, Kind

(* A clean request that is opened finds no row.                            *)
LEMMA OpensClean ==
  ASSUME NEW a \in Actors, StepOf(a), NEW r \in Ids, Clean(r),
         step[a] = "begin",
         \/ /\ a \in Operators /\ request[a] = r
            /\ delivery[r].status # "sent"
         \/ tries[r] = 0
  PROVE  /\ delivery[r] = NoRow
         /\ \A m \in outbox : m.request # r
         /\ \A b \in Actors : b # a /\ step[b] # "idle" => request[b] # r
<1>1. FoundSent /\ Unused /\ MailHasRow /\ OneAttempt
  BY DEF StepOf, HandoffInv, Shape, Attempts
<1>2. delivery[r] = NoRow
  BY <1>1 DEF FoundSent, Unused
<1> QED
  BY <1>1, <1>2 DEF MailHasRow, OneAttempt, Unused

(* Whoever closes or sends a clean request is alone with it.               *)
LEMMA AloneWith ==
  ASSUME NEW a \in Actors, StepOf(a), step[a] # "idle", NEW b \in Actors,
         b # a, step[b] # "idle", request[b] \in Ids, Clean(request[b])
  PROVE  request[a] # request[b]
  BY DEF StepOf, HandoffInv, Attempts, OneAttempt

(* The row of such an attempt is its own.                                  *)
LEMMA OwnRowNext ==
  ASSUME NEW a \in Actors, StepOf(a)
  PROVE  OwnRow'
<1>1. /\ Others(a) /\ OwnRow /\ LocalsOK /\ LocalsOK'
      /\ \A r \in Ids : blame'[r] \cap Causes = {} => Clean(r)
      /\ \A b \in Actors : step'[b] \in Opened => request'[b] \in Ids
      /\ \A b \in Actors : step[b] \in Opened => request[b] \in Ids
  BY CleanBefore, Requested, RequestedNext
  DEF StepOf, HandoffInv, Shape, Attempts
<1> USE DEF OwnRow, Others, Clean
<1>2. CASE AskStep(a)
  BY <1>1, <1>2 DEF AskStep, Opened
<1>3. CASE PassStep(a)
  BY <1>1, <1>3 DEF PassStep
<1>4. CASE OpenStep(a)
  <2>1. PICK r \in Ids, k \in 1..MaxAttempts :
          /\ step[a] = "begin" /\ step'[a] = "send"
          /\ request'[a] = r /\ try'[a] = k /\ BeginDelivery(a, r, k)
          /\ \/ /\ a \in Operators /\ request[a] = r
                /\ delivery[r].status # "sent"
             \/ tries[r] = 0
          /\ UNCHANGED <<outbox, blame>>
    BY <1>4 DEF OpenStep
  <2>2. CASE Clean(r)
    <3>1. /\ delivery[r] = NoRow /\ \A m \in outbox : m.request # r
          /\ \A b \in Actors : b # a /\ step[b] # "idle" => request[b] # r
      BY <2>1, <2>2, OpensClean
    <3>2. /\ delivery'[r].status = "sending" /\ delivery'[r].try = k
          /\ \A q \in Ids \ {r} : delivery'[q] = delivery[q]
      BY <2>1, <3>1, OpenRow
    <3> QED
      BY <1>1, <2>1, <3>1, <3>2 DEF Opened
  <2>3. CASE ~Clean(r)
    <3>1. \A q \in Ids \ {r} : delivery'[q] = delivery[q]
      BY <2>1, OpenRow
    <3> QED
      BY <1>1, <2>1, <2>3, <3>1 DEF Opened
  <2> QED
    BY <2>2, <2>3
<1>5. CASE SendStep(a)
  <2>1. /\ step[a] = "send" /\ step'[a] \in {"sent", "failed"}
        /\ request'[a] = request[a] /\ try'[a] = try[a]
        /\ delivery' = delivery
    BY <1>5 DEF SendStep
  <2>2. \A m \in outbox' \ outbox : m.request = request[a]
    BY <1>5, SentNext
  <2>3. step'[a] = "failed" => "error" \in blame'[request[a]]
    <3>1. \/ step' = [step EXCEPT ![a] = "sent"]
          \/ /\ step' = [step EXCEPT ![a] = "failed"]
             /\ blame' = [blame EXCEPT ![request[a]] = @ \cup {"error"}]
      BY <1>5 DEF SendStep, Smtp, Goto
    <3>2. request[a] \in Ids
      BY <1>1, <2>1 DEF Opened
    <3> QED
      BY <3>1, <3>2 DEF StepOf, HandoffInv, TypeOK
  <2>4. ASSUME NEW b \in Actors, step'[b] \in Opened, Clean(request[b]), b # a
        PROVE  request[a] # request[b]
    BY <1>1, <2>1, <2>4, AloneWith DEF Opened
  <2> QED
    BY <1>1, <2>1, <2>2, <2>3, <2>4 DEF Opened, Causes
<1>6. CASE CloseStep(a)
  <2>1. /\ step[a] # "idle" /\ step'[a] \notin Opened
        /\ UNCHANGED <<outbox, blame>>
    BY <1>6 DEF CloseStep
  <2>2. \A q \in Ids : q # request[a] => delivery'[q] = delivery[q]
    BY <1>6, CloseRow
  <2>3. ASSUME NEW b \in Actors, step[b] \in Opened, Clean(request[b]), b # a
        PROVE  request[a] # request[b]
    BY <1>1, <2>1, <2>3, AloneWith DEF Opened
  <2> QED
    BY <1>1, <2>1, <2>2, <2>3
<1> QED
  BY <1>2, <1>3, <1>4, <1>5, <1>6 DEF StepOf, Kind

(* A clean row that says sending belongs to a handler that is at it.       *)
LEMMA RowInUseNext ==
  ASSUME NEW a \in Actors, StepOf(a)
  PROVE  RowInUse'
<1>1. /\ Others(a) /\ RowInUse /\ OwnRow /\ LocalsOK /\ LocalsOK'
      /\ \A r \in Ids : blame'[r] \cap Causes = {} => Clean(r)
      /\ Requests \subseteq Ids /\ Operators \subseteq Actors
      /\ a \in Operators \/ (a \in Workers /\ a \notin Operators)
  BY CleanBefore, HandoffAssumption
  DEF StepOf, HandoffInv, Shape, Attempts, Ids, Actors
<1> USE DEF RowInUse, Others, Clean
<1>2. CASE AskStep(a)
  BY <1>1, <1>2 DEF AskStep, Opened
<1>3. CASE PassStep(a)
  <2>1. \A r \in Requests : blame'[r] \cap Causes = {} =>
          ~(a \in Operators /\ step[a] \in Opened /\ request[a] = r)
    BY <1>1, <1>3 DEF PassStep, Causes
  <2> QED
    BY <1>1, <1>3, <2>1 DEF PassStep
<1>4. CASE OpenStep(a)
  <2>1. PICK r \in Ids, k \in 1..MaxAttempts :
          /\ step[a] = "begin" /\ step'[a] = "send"
          /\ request'[a] = r /\ BeginDelivery(a, r, k)
          /\ \/ a \in Operators /\ request[a] = r
             \/ a \in Workers /\ tries[r] = 0
          /\ UNCHANGED <<outbox, blame>>
    BY <1>4 DEF OpenStep
  <2>2. /\ delivery[r] # NoRow => delivery' = delivery
        /\ delivery[r] = NoRow => delivery'[r].status = "sending"
        /\ \A q \in Ids \ {r} : delivery'[q] = delivery[q]
    BY <2>1, OpenRow
  <2>3. a \in Workers => r \notin Requests
    BY <1>1, <2>1, RequestedNext
  <2> QED
    BY <1>1, <2>1, <2>2, <2>3 DEF Opened
<1>5. CASE SendStep(a)
  BY <1>1, <1>5 DEF SendStep, Opened
<1>6. CASE CloseStep(a)
  <2>1. /\ step[a] \in {"sent", "failed"} /\ UNCHANGED <<outbox, blame>>
    BY <1>6 DEF CloseStep
  <2>2. /\ request[a] \in Ids
        /\ \A q \in Ids : q # request[a] => delivery'[q] = delivery[q]
        /\ a \in Operators => delivery'[request[a]].status = step[a]
    BY <1>6, CloseRow
  <2>3. a \in Workers => request[a] \notin Requests
    BY <1>1, <2>1, Requested
  <2>4. Clean(request[a]) => step[a] # "failed"
    BY <1>1, <2>1 DEF OwnRow, Opened
  <2> QED
    BY <1>1, <2>1, <2>2, <2>3, <2>4
<1> QED
  BY <1>2, <1>3, <1>4, <1>5, <1>6 DEF StepOf, Kind

(* What a clean request finds before it opens a row is a sent one.         *)
LEMMA FoundSentNext ==
  ASSUME NEW a \in Actors, StepOf(a)
  PROVE  FoundSent'
<1>1. /\ Others(a) /\ FoundSent /\ RowInUse /\ LocalsOK /\ LocalsOK'
      /\ \A r \in Ids : blame'[r] \cap Causes = {} => Clean(r)
      /\ Requests \subseteq Ids /\ Operators \subseteq Actors
      /\ delivery \in [Ids -> Delivery] /\ TypePast
      /\ \/ a \in Operators /\ a \notin Workers
         \/ a \in Workers /\ a \notin Operators
  BY CleanBefore, HandoffAssumption, TypeParts
  DEF StepOf, HandoffInv, Shape, Attempts, Ids, Actors, TypeStore
<1>2. ASSUME NEW o \in Operators,
             step'[o] \in {"target", "load", "begin"}
      PROVE  request'[o] \in Requests /\ request'[o] \in Ids
  BY <1>1, <1>2, RequestedNext
<1> USE DEF FoundSent, Others, Clean
<1>3. CASE a \in Operators /\ AskStep(a)
  <2>1. PICK r \in Requests, h \in Humans :
          /\ step[a] = "idle" /\ step'[a] = "target" /\ request'[a] = r
          /\ blame' = [blame EXCEPT ![r] = @ \cup Mishaps(r, h)]
          /\ UNCHANGED delivery
    BY <1>3 DEF AskStep
  <2>2. blame'[r] \cap Causes = {} =>
          \A o \in Operators : request[o] # r
    BY <1>1, <2>1 DEF TypePast, Mishaps, Busy, Causes
  <2>3. blame'[r] \cap Causes = {} =>
          delivery[r] = NoRow \/ delivery[r].status = "sent"
    <3>1. delivery[r] = NoRow \/ delivery[r].status \in
            {"sending", "sent", "failed"}
      BY <1>1 DEF Delivery
    <3> QED
      BY <1>1, <2>2, <3>1 DEF RowInUse
  <2> QED
    BY <1>1, <1>2, <2>1, <2>3
<1>4. CASE PassStep(a)
  <2>1. \A o \in Operators : step'[o] \in {"target", "load", "begin"} =>
          /\ step[o] \in {"target", "load", "begin"}
          /\ request'[o] = request[o]
    BY <1>1, <1>4 DEF PassStep
  <2>2. delivery' = delivery
    BY <1>4 DEF PassStep
  <2> QED
    BY <1>1, <1>2, <2>1, <2>2
<1>5. CASE OpenStep(a)
  <2>1. PICK r \in Ids, k \in 1..MaxAttempts :
          /\ step[a] = "begin" /\ step'[a] = "send"
          /\ request'[a] = r /\ BeginDelivery(a, r, k)
          /\ \/ /\ a \in Operators /\ request[a] = r
                /\ delivery[r].status # "sent"
             \/ a \in Workers /\ tries[r] = 0
          /\ UNCHANGED <<outbox, blame>>
    BY <1>5 DEF OpenStep
  <2>2. \A q \in Ids \ {r} : delivery'[q] = delivery[q]
    BY <2>1, OpenRow
  <2>3. Clean(r) => \A b \in Actors : b # a /\ step[b] # "idle" =>
                      request[b] # r
    BY <2>1, OpensClean
  <2>4. \A o \in Operators : step'[o] \in {"target", "load", "begin"} =>
          /\ o # a /\ step[o] \in {"target", "load", "begin"}
          /\ request'[o] = request[o]
    BY <1>1, <2>1
  <2> QED
    BY <1>1, <1>2, <2>1, <2>2, <2>3, <2>4
<1>6. CASE SendStep(a)
  BY <1>1, <1>2, <1>6 DEF SendStep
<1>7. CASE CloseStep(a)
  <2>1. /\ step[a] # "idle" /\ UNCHANGED blame
        /\ step'[a] = "idle" \/ a \in Workers
    BY <1>7 DEF CloseStep
  <2>2. \A q \in Ids : q # request[a] => delivery'[q] = delivery[q]
    BY <1>7, CloseRow
  <2>3. ASSUME NEW o \in Operators, o # a, step[o] # "idle",
               Clean(request[o]), request[o] \in Ids
        PROVE  request[a] # request[o]
    BY <1>1, <2>1, <2>3, AloneWith
  <2>4. \A o \in Operators : step'[o] \in {"target", "load", "begin"} =>
          /\ o # a /\ step[o] \in {"target", "load", "begin"}
          /\ request'[o] = request[o]
    BY <1>1, <2>1
  <2> QED
    BY <1>1, <1>2, <2>1, <2>2, <2>3, <2>4
<1> QED
  BY <1>3, <1>4, <1>5, <1>6, <1>7 DEF StepOf, Kind

(* The outbox: MailHasRow, OneMail and HandoffMailHidden.                  *)
LEMMA OutboxNext ==
  ASSUME NEW a \in Actors, StepOf(a)
  PROVE  MailHasRow' /\ OneMail' /\ HandoffMailHidden'
<1>0. \A r \in Ids : blame'[r] \cap Causes = {} => Clean(r)
  BY CleanBefore
<1>1. /\ MailHasRow /\ OneMail /\ HandoffMailHidden /\ OwnRow /\ OpenedOK
      /\ LocalsOK
      /\ \A r \in Ids : blame'[r] \cap Causes = {} => Clean(r)
      /\ \A m \in outbox : m.request \in Ids
  <2>1. /\ MailHasRow /\ OneMail /\ HandoffMailHidden
        /\ TypeOK /\ Shape /\ Attempts
    BY DEF StepOf, HandoffInv
  <2>2. \A m \in outbox : m.request \in Ids
    BY <2>1 DEF TypeOK, HandoffMail
  <2> QED
    BY <1>0, <2>1, <2>2 DEF Shape, Attempts
<1> USE DEF MailHasRow, OneMail, HandoffMailHidden, Clean, Causes
<1>2. CASE AskStep(a) \/ PassStep(a)
  BY <1>1, <1>2 DEF AskStep, PassStep
<1>3. CASE OpenStep(a)
  <2>1. PICK r \in Ids, k \in 1..MaxAttempts :
          /\ step[a] = "begin" /\ request'[a] = r /\ BeginDelivery(a, r, k)
          /\ UNCHANGED <<outbox, blame>>
    BY <1>3 DEF OpenStep
  <2>2. \A q \in Ids : delivery[q] # NoRow => delivery'[q] = delivery[q]
    BY <2>1, OpenRow
  <2> QED
    BY <1>1, <2>1, <2>2
<1>4. CASE SendStep(a)
  <2>1. /\ step[a] = "send" /\ UNCHANGED delivery
    BY <1>4 DEF SendStep
  <2>2. request[a] \in Ids /\ delivery[request[a]] # NoRow
    BY <1>1, <2>1, Requested DEF OpenedOK, Opened
  <2>3. \A m \in outbox' \ outbox : m.request = request[a] /\ m.try = try[a]
    BY <1>4, SentNext
  <2>4. Clean(request[a]) =>
          /\ delivery[request[a]].status = "sending"
          /\ delivery[request[a]].try = try[a]
          /\ \A m \in outbox : m.request # request[a]
    BY <1>1, <2>1 DEF OwnRow, Opened
  <2>5. \A m, k \in outbox' \ outbox : m = k
    BY <1>4 DEF SendStep, Smtp, Accept
  <2>6. MailHasRow'
    BY <1>1, <2>1, <2>2, <2>3
  <2>7. OneMail'
    BY <1>1, <2>2, <2>3, <2>4, <2>5
  <2>8. HandoffMailHidden'
    BY <1>1, <2>1, <2>2, <2>3, <2>4
  <2> QED
    BY <2>6, <2>7, <2>8
<1>5. CASE CloseStep(a)
  <2>1. step[a] \in {"sent", "failed"} /\ UNCHANGED <<outbox, blame>>
    BY <1>5 DEF CloseStep
  <2>2. Clean(request[a]) => step[a] # "failed"
    BY <1>1, <2>1 DEF OwnRow, Opened
  <2> QED
    BY <1>1, <1>5, <2>1, <2>2, CloseRow
<1> QED
  BY <1>2, <1>3, <1>4, <1>5 DEF StepOf, Kind

(* The AI: an answer after the first row is one that had been decided on.  *)
Deciding == {mail[w] : w \in {v \in Workers : step[v] = "decide"}}

(* A delivery that begins excuses every worker that is deciding.           *)
LEMMA BeginOvertakes ==
  ASSUME Overtaken, NEW a \in Actors, NEW r, NEW k, BeginDelivery(a, r, k),
         answered' = answered,
         \A w \in Workers : step'[w] = "decide" =>
           step[w] = "decide" /\ mail'[w] = mail[w]
  PROVE  Overtaken'
<1>1. {mail'[w] : w \in {v \in Workers : step'[v] = "decide"}}
        \subseteq Deciding
  BY DEF Deciding
<1> QED
  BY <1>1 DEF Overtaken, BeginDelivery, Deciding

(* A step that answers no mail and opens no handoff overtakes nobody.      *)
LEMMA QuietOvertakes ==
  ASSUME Overtaken, UNCHANGED <<answered, excused>>,
         handoff = NoHandoff => handoff' = NoHandoff,
         \A w \in Workers : step'[w] = "decide" =>
           step[w] = "decide" /\ mail'[w] = mail[w]
  PROVE  Overtaken'
  BY DEF Overtaken

(* Mails answered during a handoff were being decided when it began: a     *)
(* handler's steps.                                                        *)
LEMMA HandlerOvertaken ==
  ASSUME HandoffInv, NEW o \in Operators, HandlerAct(o)
  PROVE  Overtaken'
<1>1. /\ TypeOK /\ LocalsOK /\ FirstMail /\ OpenedOK /\ Overtaken
      /\ o \in Actors /\ o \notin Workers
  BY HandoffAssumption DEF HandoffInv, Shape, Actors
<1>2. \A w \in Workers : step'[w] = "decide" =>
        step[w] = "decide" /\ mail'[w] = mail[w]
  BY <1>1, HandlerMoves DEF Others, Actors
<1>3. CASE OpenDelivery(o)
  BY <1>1, <1>2, <1>3, BeginOvertakes DEF OpenDelivery
<1>4. CASE CloseDelivery(o)
  BY <1>1, <1>2, <1>4, QuietOvertakes
  DEF CloseDelivery, OpenedOK, Opened, past
<1>5. CASE Validate(o) \/ ReadTarget(o) \/ LoadThread(o) \/ SendHandoff(o)
           \/ Interrupt(o)
  BY <1>1, <1>2, <1>5, QuietOvertakes
  DEF Validate, ReadTarget, LoadThread, SendHandoff, Interrupt, store, past
<1> QED
  BY <1>3, <1>4, <1>5 DEF HandlerAct, OperatorStep

(* The same for a worker's steps, the answer included.                     *)
LEMMA WorkerOvertaken ==
  ASSUME HandoffInv, NEW w \in Workers, WorkerAct(w)
  PROVE  Overtaken'
<1>1. /\ TypeOK /\ LocalsOK /\ FirstMail /\ OpenedOK /\ Overtaken
      /\ TypeLocals /\ w \in Actors
  BY TypeParts DEF HandoffInv, Shape, Actors
<1>2. \A v \in Workers \ {w} : step'[v] = step[v] /\ mail'[v] = mail[v]
  BY <1>1, WorkerMoves DEF Others, Actors
<1>3. Return(w) => step'[w] = "idle"
  BY <1>1, ReturnIsIdle
<1>4. CASE LookUp(w) /\ ~Routed
  <2>1. handoff = NoHandoff /\ handoff' = handoff
    BY <1>1, <1>4 DEF LookUp, Routed, TypeOK, Handoff
  <2> QED
    BY <2>1 DEF Overtaken
<1>5. CASE Decide(w)
  <2>1. step[w] = "decide" /\ answered' \subseteq answered \cup {mail[w]}
    BY <1>5 DEF Decide
  <2>2. \A v \in Workers : step'[v] = "decide" =>
          step[v] = "decide" /\ mail'[v] = mail[v]
    BY <1>2, <1>3, <1>5 DEF Decide
  <2>3. UNCHANGED <<handoff, excused>>
    BY <1>5 DEF Decide
  <2> QED
    BY <1>1, <2>1, <2>2, <2>3 DEF Overtaken
<1>6. CASE /\ WorkerAct(w)
           /\ ~(LookUp(w) /\ ~Routed) /\ ~Decide(w) /\ ~PollNothing(w)
  <2>1. step'[w] # "decide"
    BY <1>1, <1>3, <1>6
    DEF WorkerAct, WorkerStep, ClaimAgain, ScanMail, LookUp, OpenRouting,
        SendRouted, Smtp, CloseRouting, RecordStatus, ClaimNew, FailMail,
        Goto, TypeLocals
  <2>2. \A v \in Workers : step'[v] = "decide" =>
          step[v] = "decide" /\ mail'[v] = mail[v]
    BY <1>2, <2>1
  <2>3. CASE OpenRouting(w)
    BY <1>1, <2>2, <2>3, BeginOvertakes DEF OpenRouting
  <2>4. CASE CloseRouting(w)
    BY <1>1, <2>2, <2>4, QuietOvertakes
    DEF CloseRouting, OpenedOK, Opened, past
  <2>5. CASE ~OpenRouting(w) /\ ~CloseRouting(w)
    BY <1>1, <1>6, <2>2, <2>5, QuietOvertakes
    DEF WorkerAct, WorkerStep, ClaimAgain, ScanMail, LookUp, SendRouted,
        RecordStatus, ClaimNew, FailMail, store, past
  <2> QED
    BY <2>3, <2>4, <2>5
<1>7. CASE PollNothing(w)
  BY <1>1, <1>7 DEF PollNothing, Overtaken, vars, local, store, past
<1> QED
  BY <1>4, <1>5, <1>6, <1>7

-----------------------------------------------------------------------------
(* The invariant and what follows from it.                                 *)

(* The invariant holds at first.                                           *)
LEMMA HandoffStarts == Init => HandoffInv
<1> SUFFICES ASSUME Init PROVE HandoffInv
  OBVIOUS
<1> USE HandoffAssumption DEF Init
<1>1. /\ \A a \in Actors : step[a] = "idle" /\ request[a] = None
      /\ \A r \in Ids : delivery[r] = NoRow /\ blame[r] = {} /\ tries[r] = 0
      /\ handoff = NoHandoff /\ outbox = {}
      /\ Operators \subseteq Actors /\ Workers \subseteq Actors
      /\ Requests \subseteq Ids
  BY DEF Actors, Ids
<1>2. PICK s \in Addresses :
        rows = <<[from |-> s, safety |-> "safe", status |-> "answered"]>>
  OBVIOUS
<1>3. TypeRows /\ FirstMail
  BY <1>2 DEF TypeRows, FirstMail, Row, Settled, Mails
<1>4. TypeLocals /\ TypeStore
  BY DEF TypeLocals, TypeStore, Handoff, Delivery
<1>5. TypePast
  BY DEF TypePast, Mails
<1>6. TypeCounts
  BY DEF TypeCounts, BoundRecord
<1>7. TypeOK
  BY <1>3, <1>4, <1>5, <1>6, TypeParts
<1>8. Shape
  BY <1>1, <1>3
  DEF Shape, LocalsOK, HandlerOK, WorkerOK, OpenedOK, Unused, Opened
<1>9. Overtaken /\ SameHuman /\ OnlyAsked /\ SentMail /\ ActiveIsDelivered
  BY <1>1 DEF Overtaken, SameHuman, OnlyAsked, SentMail, ActiveIsDelivered,
     NoHandoff, None
<1>10. Attempts
  BY <1>1 DEF Attempts, OneAttempt, OwnRow, RowInUse, FoundSent, NoRow, None,
     Opened
<1>11. MailHasRow /\ OneMail /\ HandoffMailHidden
  BY <1>1 DEF MailHasRow, OneMail, HandoffMailHidden
<1> QED
  BY <1>7, <1>8, <1>9, <1>10, <1>11 DEF HandoffInv

(* The locals of those who do not move.                                    *)
LEMMA LocalsNext ==
  ASSUME LocalsOK, TypeOK, RowsKept, NEW a \in Actors, Others(a),
         a \in Operators => HandlerOK(a)', a \in Workers => WorkerOK(a)'
  PROVE  LocalsOK'
<1>1. ASSUME NEW o \in Operators PROVE HandlerOK(o)'
  <2>1. HandlerOK(o) /\ o \in Actors
    BY DEF LocalsOK, Actors
  <2> QED
    BY <2>1 DEF Others, HandlerOK
<1>2. ASSUME NEW w \in Workers PROVE WorkerOK(w)'
  <2>1. WorkerOK(w) /\ w \in Actors
    BY DEF LocalsOK, Actors
  <2>2. 2..Len(rows) \subseteq 2..Len(rows')
    BY HandoffAssumption DEF RowsKept, TypeRows, TypeOK, Mails
  <2> QED
    BY <2>1, <2>2 DEF Others, WorkerOK
<1> QED
  BY <1>1, <1>2 DEF LocalsOK

(* It holds when nothing changes.                                          *)
LEMMA HandoffStutters ==
  ASSUME HandoffInv, UNCHANGED vars
  PROVE  HandoffInv'
<1> USE DEF vars, local, store, past, HandoffInv
<1>1. TypeOK'
  BY DEF TypeOK
<1>2. Shape'
  BY DEF Shape, LocalsOK, HandlerOK, WorkerOK, FirstMail, OpenedOK, Unused
<1>3. (Overtaken /\ SameHuman /\ OnlyAsked /\ SentMail)'
  BY DEF Overtaken, SameHuman, OnlyAsked, SentMail
<1>4. ActiveIsDelivered'
  BY DEF ActiveIsDelivered
<1>5. Attempts'
  BY DEF Attempts, OneAttempt, OwnRow, RowInUse, FoundSent, Clean
<1>6. (MailHasRow /\ OneMail /\ HandoffMailHidden)'
  BY DEF MailHasRow, OneMail, HandoffMailHidden, Clean
<1> QED
  BY <1>1, <1>2, <1>3, <1>4, <1>5, <1>6

(* It holds after every step.                                              *)
LEMMA HandoffStep == HandoffInv /\ [Next]_vars => HandoffInv'
<1> SUFFICES ASSUME HandoffInv, [Next]_vars PROVE HandoffInv'
  OBVIOUS
<1>1. /\ TypeOK /\ LocalsOK /\ FirstMail /\ OpenedOK
      /\ Operators \subseteq Actors /\ Workers \subseteq Actors
  BY DEF HandoffInv, Shape, Actors
<1>2. ASSUME NEW a \in Actors, StepOf(a), FirstMail', Overtaken'
      PROVE  HandoffInv'
  <2>1. Shape'
    BY <1>2, OpenedNext, UnusedNext DEF Shape, StepOf
  <2>2. (SameHuman /\ OnlyAsked /\ SentMail /\ ActiveIsDelivered)'
    BY <1>2, HumanNext, SentNext, ActiveNext
  <2>3. Attempts'
    BY <1>2, OneAttemptNext, OwnRowNext, RowInUseNext, FoundSentNext
    DEF Attempts
  <2>4. (MailHasRow /\ OneMail /\ HandoffMailHidden)'
    BY <1>2, OutboxNext
  <2> QED
    BY <1>2, <2>1, <2>2, <2>3, <2>4 DEF HandoffInv, StepOf
<1>3. ASSUME NEW o \in Operators, HandlerAct(o), UNCHANGED bound
      PROVE  HandoffInv'
  <2>1. TypeLocals' /\ Others(o) /\ HandlerOK(o)'
    BY <1>1, <1>3, HandlerMoves
  <2>2. TypeTables
    BY <1>1, <1>3, HandlerTypes
  <2>3. RowsKept
    BY <1>1, <1>3, HandlerRows
  <2>4. TypeOK'
    BY <2>1, <2>2, <2>3, TypePartsNext DEF TypeTables, RowsKept
  <2>5. LocalsOK'
    BY <1>1, <2>1, <2>3, LocalsNext, HandoffAssumption
  <2>6. Kind(o) /\ Overtaken'
    BY <1>1, <1>3, HandlerKind, HandlerOvertaken
  <2> QED
    BY <1>1, <1>2, <2>1, <2>3, <2>4, <2>5, <2>6 DEF StepOf, RowsKept
<1>4. ASSUME NEW w \in Workers, WorkerAct(w), UNCHANGED bound
      PROVE  HandoffInv'
  <2>1. TypeLocals' /\ Others(w) /\ WorkerOK(w)'
    BY <1>1, <1>4, WorkerMoves
  <2>2. TypeTables
    BY <1>1, <1>4, WorkerTypes
  <2>3. RowsKept
    BY <1>1, <1>4, WorkerRows DEF LocalsOK
  <2>4. TypeOK'
    BY <2>1, <2>2, <2>3, TypePartsNext DEF TypeTables, RowsKept
  <2>5. LocalsOK'
    BY <1>1, <2>1, <2>3, LocalsNext, HandoffAssumption
  <2>6. Kind(w) /\ Overtaken'
    BY <1>1, <1>4, WorkerKind, WorkerOvertaken
  <2> QED
    BY <1>1, <1>2, <2>1, <2>3, <2>4, <2>5, <2>6 DEF StepOf, RowsKept
<1>5. CASE UNCHANGED vars
  BY <1>5, HandoffStutters
<1> QED
  BY <1>1, <1>3, <1>4, <1>5, StepCases

(* One mail at most is no more than one.                                   *)
LEMMA OneMailCounts ==
  ASSUME OneMail, NEW r \in Ids, Clean(r)
  PROVE  ~(Cardinality({o \in outbox : o.request = r}) > 1)
<1> DEFINE S == {o \in outbox : o.request = r}
<1>1. CASE S = {}
  BY <1>1, FS_EmptySet
<1>2. CASE S # {}
  <2>1. PICK m \in S : TRUE
    BY <1>2
  <2>2. \A k \in S : k = m
    BY DEF OneMail
  <2>3. S = {m}
    BY <2>1, <2>2
  <2>4. Cardinality(S) = 1
    BY <2>3, FS_Singleton
  <2> QED
    BY <2>4
<1> QED
  BY <1>1, <1>2

(* begin_delivery, finish_delivery and send: a clean request has one       *)
(* attempt at a time, the row that attempt opened is its own, and every    *)
(* handoff mail has its delivery row, whatever handlers, workers and       *)
(* faults do.                                                              *)
THEOREM HandoffInvariant == Spec => []HandoffInv
  BY HandoffStarts, HandoffStep, PTL DEF Spec

(* Every variable of the handoff keeps the values its column or local may  *)
(* have: in particular no handler mails a thread to nobody.                *)
THEOREM HandoffTypes == Spec => []TypeOK
<1>1. HandoffInv => TypeOK
  BY DEF HandoffInv
<1> QED
  BY <1>1, HandoffInvariant, PTL

(* The AI answers a mail of a handed-off thread only if its worker had     *)
(* looked for a handoff before the first row of it was written.            *)
THEOREM AnswersStop == Spec => []AnsweredOnlyIfOvertaken
<1>1. HandoffInv => AnsweredOnlyIfOvertaken
  BY DEF HandoffInv, Overtaken, AnsweredOnlyIfOvertaken
<1> QED
  BY <1>1, HandoffInvariant, PTL

(* However often a request is sent and whoever else is at work, it is      *)
(* mailed twice only if two of its attempts overlapped or one of them      *)
(* ended without recording what it had sent.                               *)
THEOREM ResendIsExplained == Spec => []ResentNeedsCause
<1>1. HandoffInv => ResentNeedsCause
  BY OneMailCounts DEF HandoffInv, ResentNeedsCause, Clean, Causes
<1> QED
  BY <1>1, HandoffInvariant, PTL

(* The human an active handoff names was mailed the thread.                *)
THEOREM ActiveWasMailed == Spec => []ActiveIsDelivered
<1>1. HandoffInv => ActiveIsDelivered
  BY DEF HandoffInv
<1> QED
  BY <1>1, HandoffInvariant, PTL

(* A handoff mail is hidden from the AI by its delivery row, unless the    *)
(* request was cut off, failed or overlapped.                              *)
THEOREM HandoffIsHidden == Spec => []HandoffMailHidden
<1>1. HandoffInv => HandoffMailHidden
  BY DEF HandoffInv
<1> QED
  BY <1>1, HandoffInvariant, PTL
=============================================================================

--------------------------- MODULE ThreadHandoff ---------------------------
(***************************************************************************)
(* Handing one thread over to a human.  An operator asks the web panel for *)
(* it: the handler checks the thread, reads whom the human should answer,  *)
(* loads the thread, opens a delivery row, mails the thread to the human   *)
(* and closes the row.  From then on every worker that gets a mail of the  *)
(* thread mails it to the same human instead of letting the AI answer.     *)
(*                                                                         *)
(* Handlers and workers meet in two tables: the handoff row of the thread  *)
(* and the delivery rows, keyed by request id.  Begin and finish are one   *)
(* database transaction each; everything else is a statement of its own.   *)
(***************************************************************************)
EXTENDS Naturals, Sequences, FiniteSets

CONSTANTS
  Operators,     \* the web handlers that can run at once
  Workers,       \* the server processes polling the mailbox
  Requests,      \* the request ids operators send
  Fresh,         \* the request ids workers draw; bounds their deliveries
  Addresses,     \* mail addresses other than the mailbox's own
  Humans,        \* the addresses operators hand threads to
  MaxMails,      \* bound on the mails of the thread
  MaxAttempts,   \* bound on how often one request is sent to the server
  Bounds         \* the combinations of bounds a behaviour starts with

(* One combination: who acts, how often each request may be sent, the ids  *)
(* workers may draw, the mails of the thread and the injected faults.      *)
BoundRecord ==
  [actors : SUBSET (Operators \cup Workers),
   attempts : [Requests -> 0..MaxAttempts], fresh : SUBSET Fresh,
   mails : 1..MaxMails, faults : Nat]

None == "none"

(* A handler is not a worker, and the absence of an id is no id.           *)
ASSUME HandoffAssumption ==
  /\ Operators \cap Workers = {}
  /\ Humans \subseteq Addresses
  /\ Requests \cap Fresh = {} /\ None \notin Requests \cup Fresh
  /\ {MaxMails, MaxAttempts} \subseteq Nat \ {0}
  /\ Bounds \subseteq BoundRecord

VARIABLES
  step, request, try, to, target, about,   \* what each actor is doing
  mail,                                    \* the mail a worker processes
  rows,            \* processing_runs of the thread, oldest first
  handoff,         \* the row of thread_handoffs, or NoHandoff
  delivery,        \* thread_handoff_deliveries by request id
  bound,           \* the bounds of this behaviour
  tries, faults,   \* what the bounds count
  outbox,          \* the handoff mails SMTP accepted
  answered,        \* the mails that got an automatic answer
  excused, blame   \* history, for the properties

local == <<step, request, try, to, target, about, mail>>
store == <<rows, handoff, delivery>>
past  == <<outbox, answered, excused, blame>>
vars  == <<local, store, bound, tries, faults, past>>

Ids    == Requests \cup Fresh
Actors == Operators \cup Workers
Mails  == 1..MaxMails

NoHandoff == [state |-> None, to |-> None, target |-> None]
NoRow     == [status |-> None, try |-> 0, to |-> None, target |-> None]

(* A mail that was scanned once and found safe, and whose handling ended.  *)
Settled == {"answered", "handed_off", "forwarded", "quarantined"}

Init ==
  /\ step    = [a \in Actors |-> "idle"]
  /\ request = [a \in Actors |-> None]
  /\ try     = [a \in Actors |-> 0]
  /\ to      = [a \in Actors |-> None]
  /\ target  = [a \in Actors |-> None]
  /\ about   = [a \in Actors |-> 0]
  /\ mail    = [a \in Actors |-> 0]
  /\ \E s \in Addresses :
       rows = <<[from |-> s, safety |-> "safe", status |-> "answered"]>>
  /\ handoff  = NoHandoff
  /\ delivery = [r \in Ids |-> NoRow]
  /\ bound \in Bounds
  /\ tries = [r \in Ids |-> 0]
  /\ faults = 0
  /\ outbox = {}
  /\ answered = {1}
  /\ excused = {1}
  /\ blame = [r \in Ids |-> {}]

-----------------------------------------------------------------------------
(* Helpers.                                                                *)

Fault ==
  /\ faults < bound.faults
  /\ faults' = faults + 1

Goto(a, s) == step' = [step EXCEPT ![a] = s]

(* The handler or the run of process_message returns.                      *)
Return(a) ==
  /\ step'    = [step EXCEPT ![a] = "idle"]
  /\ request' = [request EXCEPT ![a] = None]
  /\ try'     = [try EXCEPT ![a] = 0]
  /\ to'      = [to EXCEPT ![a] = None]
  /\ target'  = [target EXCEPT ![a] = None]
  /\ about'   = [about EXCEPT ![a] = 0]
  /\ mail'    = [mail EXCEPT ![a] = 0]

SafeRows == {m \in DOMAIN rows : rows[m].safety = "safe"}

(* ORDER BY created_at DESC LIMIT 1, and the last inbound message of the   *)
(* loaded thread.                                                          *)
Latest(S) == CHOOSE m \in S : \A k \in S : k <= m

(* The transaction that opens a delivery: the delivery row is inserted     *)
(* unless the request has one, and the handoff row is created or, unless   *)
(* it is active, taken over.                                               *)
BeginDelivery(a, r, k) ==
  /\ delivery' = IF delivery[r] # NoRow THEN delivery ELSE
       [delivery EXCEPT ![r] = [status |-> "sending", try |-> k,
                                to |-> to[a], target |-> target[a]]]
  /\ handoff' = IF handoff.state = "active" THEN handoff ELSE
       [state |-> "sending", to |-> to[a], target |-> target[a]]
  /\ excused' = IF handoff # NoHandoff THEN excused ELSE
       answered \cup {mail[w] : w \in {v \in Workers : step[v] = "decide"}}

(* Slip: a failed delivery activates the handoff as a sent one does.       *)
FinishDeliveryEager(r, result) ==
  /\ delivery' = [delivery EXCEPT ![r].status = result]
  /\ handoff' = [state |-> "active", to |-> delivery[r].to,
                 target |-> delivery[r].target]

(* Slip: a failed delivery gives the handoff the state of a delivery.      *)
FinishDeliveryState(r, result) ==
  /\ delivery' = [delivery EXCEPT ![r].status = result]
  /\ handoff' =
       IF result = "sent"
       THEN [state |-> "active", to |-> delivery[r].to,
             target |-> delivery[r].target]
       ELSE [handoff EXCEPT !.state = result]

(* The transaction that closes a delivery.  A sent one makes the handoff   *)
(* active with what the delivery row says, a failed one makes it uncertain.*)
FinishDelivery(r, result) ==
  /\ delivery' = [delivery EXCEPT ![r].status = result]
  /\ handoff' =
       CASE result = "sent" -> [state |-> "active", to |-> delivery[r].to,
                                target |-> delivery[r].target]
         [] result = "failed" /\ handoff.state # "active" ->
              [handoff EXCEPT !.state = "uncertain"]
         [] OTHER -> handoff

(* One SMTP send.  An error may come after the server took the mail.       *)
Accept(a) ==
  outbox' = outbox \cup
    {[request |-> request[a], try |-> try[a], to |-> to[a],
      target |-> target[a], about |-> about[a], by |-> a]}

Smtp(a) ==
  \/ /\ Accept(a) /\ Goto(a, "sent")
     /\ UNCHANGED <<faults, blame>>
  \/ /\ Fault /\ Goto(a, "failed")
     /\ Accept(a) \/ UNCHANGED outbox
     /\ blame' = [blame EXCEPT ![request[a]] = @ \cup {"error"}]

-----------------------------------------------------------------------------
(* create_handoff, one await after the other.                              *)

(* The handlers already busy with the request, and what this attempt adds  *)
(* to the mishaps that can befall it.                                      *)
Busy(r) == {o \in Operators : request[o] = r}

Mishaps(r, h) ==
  (IF Busy(r) # {} THEN {"overlap"} ELSE {}) \cup
  (IF \/ delivery[r] # NoRow /\ delivery[r].to # h
      \/ \E o \in Busy(r) : to[o] # h
   THEN {"retarget"} ELSE {})

(* The request arrives and the thread is checked: every stored mail of it  *)
(* must have been found safe.                                              *)
Validate(o) ==
  /\ step[o] = "idle"
  /\ \E r \in Requests, h \in Humans :
       /\ tries[r] < bound.attempts[r]
       /\ tries' = [tries EXCEPT ![r] = @ + 1]
       /\ request' = [request EXCEPT ![o] = r]
       /\ try' = [try EXCEPT ![o] = tries[r] + 1]
       /\ to' = [to EXCEPT ![o] = h]
       /\ blame' = [blame EXCEPT ![r] = @ \cup Mishaps(r, h)]
  /\ SafeRows = DOMAIN rows
  /\ Goto(o, "target")
  /\ UNCHANGED <<target, about, mail, store, faults, outbox, answered,
                 excused>>

(* latest_thread_remote_target; a human who is the sender is refused.      *)
ReadTarget(o) ==
  /\ step[o] = "target"
  /\ LET sender == rows[Latest(SafeRows)].from IN
       \/ /\ sender # to[o]
          /\ target' = [target EXCEPT ![o] = sender]
          /\ Goto(o, "load")
          /\ UNCHANGED <<request, try, to, about, mail>>
       \/ sender = to[o] /\ Return(o)
  /\ UNCHANGED <<store, tries, faults, past>>

(* load_thread_context_by_id, and handoff_action on the thread it returns. *)
LoadThread(o) ==
  /\ step[o] = "load"
  /\ about' = [about EXCEPT ![o] = Latest(SafeRows)]
  /\ Goto(o, "begin")
  /\ UNCHANGED <<request, try, to, target, mail, store, tries, faults, past>>

(* Slip: the stored status is not looked at.                               *)
OpenDeliveryAnyway(o) ==
  /\ step[o] = "begin"
  /\ BeginDelivery(o, request[o], try[o])
  /\ Goto(o, "send")
  /\ UNCHANGED <<request, try, to, target, about, mail, rows, tries, faults,
                 outbox, answered, blame>>

(* A request whose delivery was sent answers without sending again.        *)
OpenDelivery(o) ==
  /\ step[o] = "begin"
  /\ BeginDelivery(o, request[o], try[o])
  /\ IF delivery[request[o]].status = "sent"
     THEN Return(o)
     ELSE /\ Goto(o, "send")
          /\ UNCHANGED <<request, try, to, target, about, mail>>
  /\ UNCHANGED <<rows, tries, faults, outbox, answered, blame>>

SendHandoff(o) ==
  /\ step[o] = "send"
  /\ Smtp(o)
  /\ UNCHANGED <<request, try, to, target, about, mail, store, tries,
                 answered, excused>>

CloseDelivery(o) ==
  /\ step[o] \in {"sent", "failed"}
  /\ FinishDelivery(request[o], step[o])
  /\ Return(o)
  /\ UNCHANGED <<rows, tries, faults, past>>

(* The handler ends early: a query fails, the thread cannot be mailed      *)
(* whole, the client goes away, or the process dies.                       *)
Interrupt(o) ==
  /\ step[o] # "idle"
  /\ Fault
  /\ Return(o)
  /\ blame' = [blame EXCEPT ![request[o]] = @ \cup {"interrupt"}]
  /\ UNCHANGED <<store, tries, outbox, answered, excused>>

-----------------------------------------------------------------------------
(* The worker's side: process_message on a mail of the thread.  Its claim  *)
(* and the steps after a decision are those of MessageWorker, in brief.    *)

Working(m) == \E w \in Workers : mail[w] = m

SetStatus(m, s) == rows' = [rows EXCEPT ![m].status = s]

(* A poll finds a new mail of the thread.                                  *)
ClaimNew(w) ==
  /\ step[w] = "idle"
  /\ Len(rows) < bound.mails
  /\ \E s \in Addresses :
       rows' = Append(rows, [from |-> s, safety |-> None,
                             status |-> "processing"])
  /\ mail' = [mail EXCEPT ![w] = Len(rows) + 1]
  /\ Goto(w, "scan")
  /\ UNCHANGED <<request, try, to, target, about, handoff, delivery, tries,
                 faults, past>>

(* Slip: a run that failed is not taken up again, only one that died.      *)
ClaimStale(w) ==
  /\ step[w] = "idle"
  /\ \E m \in DOMAIN rows :
       /\ rows[m].status = "processing" /\ ~Working(m)
       /\ mail' = [mail EXCEPT ![w] = m]
  /\ Goto(w, "scan")
  /\ UNCHANGED <<request, try, to, target, about, store, tries, faults, past>>

(* A poll finds a mail whose last run failed or died.                      *)
ClaimAgain(w) ==
  /\ step[w] = "idle"
  /\ \E m \in DOMAIN rows :
       /\ rows[m].status \notin Settled /\ ~Working(m)
       /\ SetStatus(m, "processing")
       /\ mail' = [mail EXCEPT ![w] = m]
  /\ Goto(w, "scan")
  /\ UNCHANGED <<request, try, to, target, about, handoff, delivery, tries,
                 faults, past>>

(* A poll that finds nothing, or fails, changes nothing.                   *)
PollNothing(w) == step[w] = "idle" /\ UNCHANGED vars

(* The verdict is written to the row, which may fail without consequence.  *)
ScanMail(w) ==
  /\ step[w] = "scan"
  /\ \/ /\ \/ rows' = [rows EXCEPT ![mail[w]].safety = "safe"]
              /\ UNCHANGED faults
           \/ Fault /\ UNCHANGED rows
        /\ Goto(w, "lookup")
        /\ UNCHANGED <<request, try, to, target, about, mail>>
     \/ /\ rows' = [rows EXCEPT ![mail[w]].safety = "unsafe",
                                ![mail[w]].status = "quarantined"]
        /\ Return(w)
        /\ UNCHANGED faults
  /\ UNCHANGED <<handoff, delivery, tries, past>>

(* Slip: only a handoff whose first mail went out routes.                  *)
RoutedIfActive == handoff.state = "active"

(* Any state of the handoff row routes the mail.  The human's own mail is  *)
(* not sent back, and a thread too long to mail goes to the forward        *)
(* address instead.                                                        *)
Routed == handoff.state \in {"active", "sending", "uncertain"}

LookUp(w) ==
  /\ step[w] = "lookup"
  /\ \/ /\ ~Routed
        /\ Goto(w, "decide")
        /\ UNCHANGED <<request, try, to, target, about, mail, rows>>
     \/ /\ Routed /\ rows[mail[w]].from = handoff.to
        /\ SetStatus(mail[w], "handed_off")
        /\ Return(w)
     \/ /\ Routed /\ rows[mail[w]].from # handoff.to
        /\ to' = [to EXCEPT ![w] = handoff.to]
        /\ target' = [target EXCEPT ![w] = handoff.target]
        /\ about' = [about EXCEPT ![w] = mail[w]]
        /\ Goto(w, "begin")
        /\ UNCHANGED <<request, try, mail, rows>>
     \/ /\ Routed /\ rows[mail[w]].from # handoff.to
        /\ SetStatus(mail[w], "forwarded")
        /\ Return(w)
  /\ UNCHANGED <<handoff, delivery, tries, faults, past>>

(* Classification, decision, review, send and status write.                *)
Decide(w) ==
  /\ step[w] = "decide"
  /\ \/ answered' = answered \cup {mail[w]} /\ SetStatus(mail[w], "answered")
     \/ UNCHANGED answered /\ SetStatus(mail[w], "forwarded")
  /\ Return(w)
  /\ UNCHANGED <<handoff, delivery, tries, faults, outbox, excused, blame>>

(* Every routing draws a request id of its own.                            *)
OpenRouting(w) ==
  /\ step[w] = "begin"
  /\ \E r \in bound.fresh :
       /\ tries[r] = 0
       /\ tries' = [tries EXCEPT ![r] = 1]
       /\ request' = [request EXCEPT ![w] = r]
       /\ try' = [try EXCEPT ![w] = 1]
       /\ BeginDelivery(w, r, 1)
  /\ Goto(w, "send")
  /\ UNCHANGED <<to, target, about, mail, rows, faults, outbox, answered,
                 blame>>

SendRouted(w) ==
  /\ step[w] = "send"
  /\ Smtp(w)
  /\ UNCHANGED <<request, try, to, target, about, mail, store, tries,
                 answered, excused>>

(* The result of closing the delivery is ignored.                          *)
CloseRouting(w) ==
  /\ step[w] \in {"sent", "failed"}
  /\ \/ FinishDelivery(request[w], step[w]) /\ UNCHANGED faults
     \/ Fault /\ UNCHANGED <<handoff, delivery>>
  /\ Goto(w, IF step[w] = "sent" THEN "routed" ELSE "unsent")
  /\ UNCHANGED <<request, try, to, target, about, mail, rows, tries, past>>

RecordStatus(w) ==
  /\ step[w] \in {"routed", "unsent"}
  /\ SetStatus(mail[w],
       IF step[w] = "routed" THEN "handed_off" ELSE "failed")
  /\ Return(w)
  /\ UNCHANGED <<handoff, delivery, tries, faults, past>>

(* An AI step or a query fails and the mail is left for another run, or    *)
(* the process dies.                                                       *)
FailMail(w) ==
  /\ step[w] # "idle"
  /\ Fault
  /\ SetStatus(mail[w], "failed") \/ UNCHANGED rows
  /\ Return(w)
  /\ UNCHANGED <<handoff, delivery, tries, past>>

-----------------------------------------------------------------------------

OperatorStep(o) ==
  \/ Validate(o) \/ ReadTarget(o) \/ LoadThread(o)
  \/ OpenDelivery(o) \/ SendHandoff(o) \/ CloseDelivery(o)

WorkerStep(w) ==
  \/ ClaimAgain(w) \/ ScanMail(w) \/ LookUp(w) \/ Decide(w)
  \/ OpenRouting(w) \/ SendRouted(w) \/ CloseRouting(w) \/ RecordStatus(w)

Acting(S) == S \cap bound.actors

Next ==
  /\ \/ \E o \in Acting(Operators) : OperatorStep(o) \/ Interrupt(o)
     \/ \E w \in Acting(Workers) :
          WorkerStep(w) \/ ClaimNew(w) \/ PollNothing(w) \/ FailMail(w)
  /\ UNCHANGED bound

Spec == Init /\ [][Next]_vars

(* The loop of `run' keeps polling and each of its awaits returns.  Nobody *)
(* has to ask for a handoff, and no fault has to happen.                   *)
Fairness ==
  \A w \in Workers :
    WF_vars(w \in bound.actors /\ WorkerStep(w) /\ UNCHANGED bound)

FairSpec == Spec /\ Fairness
-----------------------------------------------------------------------------
(* Types.                                                                  *)

Row == [from : Addresses, safety : {None, "safe", "unsafe"},
        status : Settled \cup {"processing", "failed"}]

Handoff == {NoHandoff} \cup
  [state : {"sending", "active", "uncertain"}, to : Humans,
   target : Addresses]

Delivery == {NoRow} \cup
  [status : {"sending", "sent", "failed"}, try : 1..MaxAttempts,
   to : Humans, target : Addresses]

HandoffMail ==
  [request : Ids, try : 1..MaxAttempts, to : Humans, target : Addresses,
   about : Mails, by : Actors]

(* Every variable keeps the values its column or local may have.           *)
TypeOK ==
  /\ step \in [Actors -> {"idle", "target", "load", "scan", "lookup",
                          "decide", "begin", "send", "sent", "failed",
                          "routed", "unsent"}]
  /\ request \in [Actors -> Ids \cup {None}]
  /\ try \in [Actors -> 0..MaxAttempts]
  /\ to \in [Actors -> Humans \cup {None}]
  /\ target \in [Actors -> Addresses \cup {None}]
  /\ about \in [Actors -> Mails \cup {0}]
  /\ mail \in [Actors -> Mails \cup {0}]
  /\ rows \in Seq(Row) /\ Len(rows) \in Mails
  /\ handoff \in Handoff
  /\ delivery \in [Ids -> Delivery]
  /\ tries \in [Ids -> 0..MaxAttempts]
  /\ bound \in Bounds
  /\ faults \in 0..bound.faults
  /\ outbox \subseteq HandoffMail
  /\ answered \subseteq Mails /\ excused \subseteq Mails
  /\ blame \in [Ids -> SUBSET {"overlap", "retarget", "error", "interrupt"}]

-----------------------------------------------------------------------------
(* Properties.                                                             *)

(* A handed-off thread gets no automatic answer, except to mails whose     *)
(* worker had already looked for a handoff when the first row was written. *)
AnsweredOnlyIfOvertaken == handoff # NoHandoff => answered \subseteq excused

(* A request is mailed twice only if its attempts overlapped, or one of    *)
(* them ended without recording that it had sent.                          *)
ResentNeedsCause ==
  \A r \in Ids :
    Cardinality({o \in outbox : o.request = r}) > 1 =>
      blame[r] \cap {"overlap", "error", "interrupt"} # {}

(* An active handoff points at a human who was mailed the thread, unless   *)
(* one request id came with two different destinations: the row then takes *)
(* the first one, and the mail went to the second.                         *)
ActiveIsDelivered ==
  handoff.state = "active" =>
    \/ \E o \in outbox : o.to = handoff.to
    \/ \E r \in Requests : "retarget" \in blame[r]

(* The thread loader leaves out the Sent mail a delivery row names, so the *)
(* AI never reads a handoff as part of the conversation; only a request    *)
(* that was cut off, failed or overlapped has a mail no row names.         *)
HandoffMailHidden ==
  \A o \in outbox :
    \/ /\ delivery[o.request].try = o.try
       /\ delivery[o.request].status \in {"sending", "sent", "uncertain"}
    \/ blame[o.request] \cap {"overlap", "error", "interrupt"} # {}

(* Every claimed mail of the thread is settled in the end, whatever is     *)
(* handed over, fails or is retried meanwhile.                             *)
MailSettles ==
  \A m \in Mails :
    m \in DOMAIN rows ~>
      m \in DOMAIN rows /\ rows[m].status \in Settled
=============================================================================

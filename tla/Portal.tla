------------------------------- MODULE Portal -------------------------------
(***************************************************************************)
(* The portal: an operator reads a conversation and answers or forwards    *)
(* it.  A conversation carries a revision; a request names the revision    *)
(* its operator saw and is refused when the conversation has another one.  *)
(* The message row is inserted under the request's id before SMTP is       *)
(* called, and only the handler that inserted it sends.                    *)
(*                                                                         *)
(* No handler locks anything and every statement is a step: the summary    *)
(* with the revision, the timeline, the child conversation of a forward,   *)
(* the insert, each bump of a revision, the send and the final status.     *)
(* Workers add mails to the conversations meanwhile, first the row, then   *)
(* the revision.                                                           *)
(***************************************************************************)
EXTENDS Naturals, Sequences, FiniteSets

CONSTANTS
  Operators,     \* the operators' windows, each with one request at a time
  Workers,       \* the server processes that claim mail
  Requests,      \* the request ids the windows use
  Root,          \* the conversation that exists at first
  MaxTries,      \* bound on how often one request is sent to the server
  MaxMails,      \* bound on inbound mails
  Bounds         \* the combinations of bounds a behaviour starts with

(* One combination: how often each request may be sent, the mails that     *)
(* arrive, and the injected faults.                                        *)
BoundRecord ==
  [tries : [Requests -> 0..MaxTries], mails : 1..MaxMails, faults : Nat]

ASSUME PortalAssumption ==
  /\ Root \notin Requests
  /\ {MaxTries, MaxMails} \subseteq Nat \ {0}
  /\ Bounds \subseteq BoundRecord

VARIABLES
  step, view, form,      \* each window: what it does, shows, and submitted
  known, quoted,         \* what its handler has read: checked, then quoted
  busy, mail,            \* each worker's step and mail
  conv, message, rows,   \* email_conversations, portal_messages, and the
                         \* rows of processing_runs
  bound,                 \* the bounds of this behaviour
  tries, faults,         \* what the bounds count
  outbox,                \* the portal mails SMTP accepted
  behind, beside, cut    \* history, for the properties

window == <<step, view, form, known, quoted>>
worker == <<busy, mail>>
store  == <<conv, message, rows>>
past   == <<outbox, behind, beside, cut>>
vars   == <<window, worker, store, bound, tries, faults, past>>

(* A child conversation has the id of the request that forwarded.          *)
Convs == {Root} \cup Requests
Mails == 1..MaxMails

NoConv    == [revision |-> 0, thread |-> 0]
NoView    == [conv |-> Root, revision |-> 0, mails |-> {}]
NoForm    == [request |-> Root, try |-> 0, action |-> "none",
              confirmed |-> FALSE]
NoMessage == [conv |-> Root, action |-> "none", status |-> "none",
              id |-> 0, saw |-> NoView, known |-> {}, quoted |-> {},
              confirmed |-> FALSE]

(* The root conversation has one mail, claimed and scanned.  A revision of *)
(* 0 stands for no row: the first claim bumps it to 1.                     *)
Init ==
  /\ step   = [o \in Operators |-> "idle"]
  /\ view   = [o \in Operators |-> NoView]
  /\ form   = [o \in Operators |-> NoForm]
  /\ known  = [o \in Operators |-> {}]
  /\ quoted = [o \in Operators |-> {}]
  /\ busy = [w \in Workers |-> "idle"]
  /\ mail = [w \in Workers |-> 0]
  /\ conv = [c \in Convs |->
       IF c = Root THEN [revision |-> 1, thread |-> 0] ELSE NoConv]
  /\ message = [r \in Requests |-> NoMessage]
  /\ \E s \in {"safe", "unsafe"} : rows = <<[conv |-> Root, safety |-> s]>>
  /\ bound \in Bounds
  /\ tries = [r \in Requests |-> 0]
  /\ faults = 0
  /\ outbox = {}
  /\ behind = {}
  /\ beside = [r \in Requests |-> {}]
  /\ cut = {}

-----------------------------------------------------------------------------
(* Helpers.                                                                *)

Fault ==
  /\ faults < bound.faults
  /\ faults' = faults + 1

Goto(o, s) == step' = [step EXCEPT ![o] = s]

(* The handler answers; the window keeps what it showed.                   *)
Return(o) ==
  /\ step'   = [step EXCEPT ![o] = "idle"]
  /\ form'   = [form EXCEPT ![o] = NoForm]
  /\ known'  = [known EXCEPT ![o] = {}]
  /\ quoted' = [quoted EXCEPT ![o] = {}]

Exists(c)  == conv[c] # NoConv
MailsOf(c) == {m \in DOMAIN rows : rows[m].conv = c}
Unsafe(c)  == \E m \in MailsOf(c) : rows[m].safety = "unsafe"
Bump(c)    == conv' = [conv EXCEPT ![c].revision = @ + 1]

(* The conversation a window's request writes its message to.              *)
Target(o) == IF form[o].action = "forward" THEN form[o].request
             ELSE view[o].conv

Handling(r) == {o \in Operators : form[o].request = r}

-----------------------------------------------------------------------------
(* The operator's window: portal_conversation_detail is two statements,    *)
(* the summary with its revision first and the timeline after it.          *)

OpenSummary(o) ==
  /\ step[o] = "idle"
  /\ \E c \in Convs :
       /\ Exists(c)
       /\ view' = [view EXCEPT ![o] =
            [conv |-> c, revision |-> conv[c].revision, mails |-> {}]]
  /\ Goto(o, "open")
  /\ UNCHANGED <<form, known, quoted, worker, store, tries, faults, past>>

OpenTimeline(o) ==
  /\ step[o] = "open"
  /\ view' = [view EXCEPT ![o].mails = MailsOf(view[o].conv)]
  /\ Goto(o, "idle")
  /\ UNCHANGED <<form, known, quoted, worker, store, tries, faults, past>>

(* A request may be sent again under its id, from any window.              *)
Submit(o) ==
  /\ step[o] = "idle" /\ view[o] # NoView
  /\ \E r \in Requests, a \in {"reply", "forward"}, yes \in BOOLEAN :
       /\ tries[r] < bound.tries[r]
       /\ a = "forward" => ~yes
       /\ tries' = [tries EXCEPT ![r] = @ + 1]
       /\ form' = [form EXCEPT ![o] =
            [request |-> r, try |-> tries[r] + 1, action |-> a,
             confirmed |-> yes]]
  /\ Goto(o, "check")
  /\ UNCHANGED <<view, known, quoted, worker, store, faults, past>>

-----------------------------------------------------------------------------
(* send_portal_message.                                                    *)

(* Handlers that have passed the check and not yet moved the revision.     *)
Passed == {"load", "child", "insert", "bump"}

(* Slip: a newer revision is good enough.                                  *)
MayAnswerNewer(o) ==
  LET c == view[o].conv IN
  /\ conv[c].revision >= view[o].revision
  /\ form[o].action = "reply" =>
       /\ Unsafe(c) => form[o].confirmed
       /\ MailsOf(c) # {}

(* The summary is read again: another revision is a conflict, a reply in a *)
(* conversation with unsafe mail needs its confirmation, and a reply needs *)
(* a correspondent.                                                        *)
MayAnswer(o) ==
  LET c == view[o].conv IN
  /\ conv[c].revision = view[o].revision
  /\ form[o].action = "reply" =>
       /\ Unsafe(c) => form[o].confirmed
       /\ MailsOf(c) # {}

Check(o) ==
  /\ step[o] = "check"
  /\ \/ /\ MayAnswer(o)
        /\ known' = [known EXCEPT ![o] = MailsOf(view[o].conv) \ behind]
        /\ beside' = [beside EXCEPT ![form[o].request] = @ \cup
             {form[p].request : p \in {q \in Operators : step[q] \in Passed}}]
        /\ Goto(o, "load")
        /\ UNCHANGED <<form, quoted>>
     \/ ~MayAnswer(o) /\ Return(o) /\ UNCHANGED beside
  /\ UNCHANGED <<view, worker, store, tries, faults, outbox, behind, cut>>

(* The timeline gives the quote and the parent of the reply.               *)
LoadTimeline(o) ==
  /\ step[o] = "load"
  /\ quoted' = [quoted EXCEPT ![o] = MailsOf(view[o].conv)]
  /\ Goto(o, IF form[o].action = "forward" THEN "child" ELSE "insert")
  /\ UNCHANGED <<view, form, known, worker, store, tries, faults, past>>

(* create_child_conversation keeps the row a former attempt made.  A       *)
(* statement that collides with another attempt's does not see its row and *)
(* fails.                                                                  *)
CreateChild(o) ==
  LET r == form[o].request IN
  /\ step[o] = "child"
  /\ \/ /\ IF Exists(r) THEN UNCHANGED conv ELSE
             conv' = [conv EXCEPT ![r] =
               [revision |-> 0, thread |-> form[o].try]]
        /\ Goto(o, "insert")
        /\ UNCHANGED <<form, known, quoted>>
     \/ /\ Exists(r) /\ Handling(r) # {o}
        /\ Return(o)
        /\ UNCHANGED conv
  /\ UNCHANGED <<view, worker, message, rows, tries, faults, past>>

(* Slip: a forward goes out with the id just generated.                    *)
MailIdNew(o) == form[o].try

(* Slip: a reply goes out without an id.                                   *)
MailIdUnset(o) ==
  IF form[o].action = "forward" THEN conv[form[o].request].thread ELSE 0

(* The id the mail goes out with: a forward takes the thread id that the   *)
(* child conversation has stored, a reply the one just generated.          *)
MailId(o) ==
  IF form[o].action = "forward" THEN conv[form[o].request].thread
  ELSE form[o].try

(* Slip: a message still in sending is taken over by the next attempt.     *)
InsertOrResend(o) ==
  LET r == form[o].request IN
  /\ step[o] = "insert"
  /\ \/ /\ message[r].status \in {"none", "sending"}
        /\ message' = [message EXCEPT ![r] =
             [conv |-> Target(o), action |-> form[o].action,
              status |-> "sending", id |-> MailId(o), saw |-> view[o],
              known |-> known[o], quoted |-> quoted[o],
              confirmed |-> form[o].confirmed]]
        /\ Goto(o, "bump")
        /\ UNCHANGED <<form, known, quoted>>
     \/ /\ message[r].status \notin {"none", "sending"}
        /\ Return(o)
        /\ UNCHANGED message
  /\ UNCHANGED <<view, worker, conv, rows, tries, faults, past>>

(* begin_portal_message: a request that already has a row is answered with *)
(* it and sends nothing.                                                   *)
InsertMessage(o) ==
  LET r == form[o].request IN
  /\ step[o] = "insert"
  /\ \/ /\ message[r] = NoMessage
        /\ message' = [message EXCEPT ![r] =
             [conv |-> Target(o), action |-> form[o].action,
              status |-> "sending", id |-> MailId(o), saw |-> view[o],
              known |-> known[o], quoted |-> quoted[o],
              confirmed |-> form[o].confirmed]]
        /\ Goto(o, "bump")
        /\ UNCHANGED <<form, known, quoted>>
     \/ /\ message[r] # NoMessage
        /\ Return(o)
        /\ UNCHANGED message
  /\ UNCHANGED <<view, worker, conv, rows, tries, faults, past>>

(* Slip: only the finished message moves the revision.                     *)
BumpLater(o) ==
  /\ step[o] = "bump"
  /\ Goto(o, "send")
  /\ UNCHANGED <<view, form, known, quoted, worker, store, tries, faults,
                 past>>

BumpBegun(o) ==
  /\ step[o] = "bump"
  /\ Bump(Target(o))
  /\ Goto(o, "send")
  /\ UNCHANGED <<view, form, known, quoted, worker, message, rows, tries,
                 faults, past>>

(* An SMTP error may come after the server took the mail.                  *)
Accept(o) ==
  outbox' = outbox \cup
    {[request |-> form[o].request, by |-> o, try |-> form[o].try,
      id |-> MailId(o)]}

SendComposed(o) ==
  /\ step[o] = "send"
  /\ \/ Accept(o) /\ Goto(o, "sent") /\ UNCHANGED faults
     \/ /\ Fault /\ Goto(o, "uncertain")
        /\ Accept(o) \/ UNCHANGED outbox
  /\ UNCHANGED <<view, form, known, quoted, worker, store, tries, behind,
                 beside, cut>>

(* Slip: the message is sent, whatever SMTP answered.                      *)
FinishAsSent(o) ==
  LET r == form[o].request IN
  /\ step[o] \in {"sent", "uncertain"}
  /\ message' = [message EXCEPT ![r].status =
       IF message[r].conv = Target(o) THEN "sent" ELSE @]
  /\ Goto(o, "bumpDone")
  /\ UNCHANGED <<view, form, known, quoted, worker, conv, rows, tries,
                 faults, past>>

(* UPDATE ... WHERE conversation_id = ... AND request_id = ...             *)
FinishMessage(o) ==
  LET r == form[o].request IN
  /\ step[o] \in {"sent", "uncertain"}
  /\ message' = [message EXCEPT ![r].status =
       IF message[r].conv = Target(o) THEN step[o] ELSE @]
  /\ Goto(o, "bumpDone")
  /\ UNCHANGED <<view, form, known, quoted, worker, conv, rows, tries,
                 faults, past>>

BumpFinished(o) ==
  /\ step[o] = "bumpDone"
  /\ Bump(Target(o))
  /\ IF form[o].action = "forward" /\ view[o].conv # Target(o)
     THEN Goto(o, "source") /\ UNCHANGED <<form, known, quoted>>
     ELSE Return(o)
  /\ UNCHANGED <<view, worker, message, rows, tries, faults, past>>

(* A forward also moves the revision of the conversation it came from.     *)
BumpSource(o) ==
  /\ step[o] = "source"
  /\ Bump(view[o].conv)
  /\ Return(o)
  /\ UNCHANGED <<view, worker, message, rows, tries, faults, past>>

(* Handlers that have inserted their message and not yet written its final *)
(* status.                                                                 *)
Unfinished == {"bump", "send", "sent", "uncertain"}

(* A query fails, the client goes away, or the process dies.               *)
Interrupt(o) ==
  /\ step[o] \notin {"idle", "open"}
  /\ Fault
  /\ Return(o)
  /\ cut' = IF step[o] \in Unfinished THEN cut \cup {form[o].request} ELSE cut
  /\ UNCHANGED <<view, worker, store, tries, outbox, behind, beside>>

-----------------------------------------------------------------------------
(* claim_message and the scan: the row, the revision, the verdict.         *)

InHand(m) == \E w \in Workers : mail[w] = m

Take(w, m, s) ==
  /\ busy' = [busy EXCEPT ![w] = s]
  /\ mail' = [mail EXCEPT ![w] = m]

ClaimInsert(w) ==
  /\ busy[w] = "idle"
  /\ Len(rows) < bound.mails
  /\ \E c \in Convs : Exists(c) /\
       rows' = Append(rows, [conv |-> c, safety |-> "none"])
  /\ behind' = behind \cup {Len(rows) + 1}
  /\ Take(w, Len(rows) + 1, "bump")
  /\ UNCHANGED <<window, conv, message, tries, faults, outbox, beside, cut>>

(* A row whose claim or scan ended half way is claimed again later.        *)
ClaimAgain(w) ==
  /\ busy[w] = "idle"
  /\ \E m \in DOMAIN rows :
       /\ rows[m].safety = "none" /\ ~InHand(m)
       /\ Take(w, m, "bump")
  /\ UNCHANGED <<window, store, tries, faults, past>>

ClaimBump(w) ==
  /\ busy[w] = "bump"
  /\ Bump(rows[mail[w]].conv)
  /\ behind' = behind \ {mail[w]}
  /\ Take(w, mail[w], "scan")
  /\ UNCHANGED <<window, message, rows, tries, faults, outbox, beside, cut>>

Scan(w) ==
  /\ busy[w] = "scan"
  /\ \E s \in {"safe", "unsafe"} :
       rows' = [rows EXCEPT ![mail[w]].safety = s]
  /\ Take(w, 0, "idle")
  /\ UNCHANGED <<window, conv, message, tries, faults, past>>

FailMail(w) ==
  /\ busy[w] # "idle"
  /\ Fault
  /\ Take(w, 0, "idle")
  /\ UNCHANGED <<window, store, tries, past>>

-----------------------------------------------------------------------------

(* What the code does by itself once a request has arrived.                *)
Handle(o) ==
  \/ Check(o) \/ LoadTimeline(o) \/ CreateChild(o) \/ InsertMessage(o)
  \/ BumpBegun(o) \/ SendComposed(o) \/ FinishMessage(o)
  \/ BumpFinished(o) \/ BumpSource(o)

Next ==
  /\ \/ \E o \in Operators :
          OpenSummary(o) \/ OpenTimeline(o) \/ Submit(o) \/ Handle(o)
            \/ Interrupt(o)
     \/ \E w \in Workers :
          ClaimInsert(w) \/ ClaimAgain(w) \/ ClaimBump(w) \/ Scan(w)
            \/ FailMail(w)
  /\ UNCHANGED bound

Spec == Init /\ [][Next]_vars

-----------------------------------------------------------------------------
(* Types.                                                                  *)

View == [conv : Convs, revision : Nat, mails : SUBSET Mails]
Form == {NoForm} \cup
  [request : Requests, try : 1..MaxTries, action : {"reply", "forward"},
   confirmed : BOOLEAN]
Message == {NoMessage} \cup
  [conv : Convs, action : {"reply", "forward"},
   status : {"sending", "sent", "uncertain"}, id : 1..MaxTries, saw : View,
   known : SUBSET Mails, quoted : SUBSET Mails, confirmed : BOOLEAN]
Row == [conv : Convs, safety : {"none", "safe", "unsafe"}]
PortalMail ==
  [request : Requests, by : Operators, try : 1..MaxTries, id : 1..MaxTries]

(* Every variable keeps the values its column or local may have.           *)
TypeOK ==
  /\ step \in [Operators -> {"idle", "open", "check", "load", "child",
       "insert", "bump", "send", "sent", "uncertain", "bumpDone", "source"}]
  /\ view \in [Operators -> View]
  /\ form \in [Operators -> Form]
  /\ known \in [Operators -> SUBSET Mails]
  /\ quoted \in [Operators -> SUBSET Mails]
  /\ busy \in [Workers -> {"idle", "bump", "scan"}]
  /\ mail \in [Workers -> Mails \cup {0}]
  /\ conv \in [Convs -> [revision : Nat, thread : 0..MaxTries]]
  /\ message \in [Requests -> Message]
  /\ rows \in Seq(Row) /\ Len(rows) \in Mails
  /\ tries \in [Requests -> 0..MaxTries]
  /\ bound \in Bounds
  /\ faults \in 0..bound.faults
  /\ outbox \subseteq PortalMail
  /\ behind \subseteq Mails
  /\ beside \in [Requests -> SUBSET Requests]
  /\ cut \subseteq Requests

-----------------------------------------------------------------------------
(* Properties.                                                             *)

(* However often a request is repeated, from however many windows, and     *)
(* whatever is interrupted, at most one mail goes out for it.              *)
SentOnce ==
  \A x, y \in outbox : x.request = y.request => x = y

(* What the row of a request tells: sent, and its mail is out; sending, and *)
(* a handler is about to say more, or was cut off before it could; and     *)
(* without a row nothing went out.                                         *)
StatusIsTrue ==
  \A r \in Requests :
    LET out == \E x \in outbox : x.request = r IN
    /\ message[r].status = "sent" => out
    /\ message[r].status = "sending" =>
         r \in cut \/ \E o \in Handling(r) : step[o] \in Unfinished
    /\ message[r].status = "none" => ~out

(* A request that passes the revision check was written by an operator who *)
(* had every mail whose claim was complete at the check on his screen.     *)
SeenWhatWasClaimed ==
  \A r \in Requests : message[r].known \subseteq message[r].saw.mails

(* Two replies to the same revision of a conversation are both sent only   *)
(* if one passed the check while the other stood between its own check and *)
(* its bump.                                                               *)
OneReplyPerView ==
  \A x, y \in outbox :
    LET p == message[x.request]
        q == message[y.request] IN
    /\ x.request # y.request
    /\ {p.action, q.action} = {"reply"}
    /\ p.conv = q.conv /\ p.saw.revision = q.saw.revision
    => \/ x.request \in beside[y.request]
       \/ y.request \in beside[x.request]

(* The mail of a forward carries the id under which answers to it are      *)
(* filed in the child conversation, whichever attempt created that.        *)
ForwardLandsInChild ==
  \A x \in outbox :
    message[x.request].action = "forward" =>
      x.id = conv[x.request].thread /\ x.id = message[x.request].id
=============================================================================

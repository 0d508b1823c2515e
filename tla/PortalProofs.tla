---------------------------- MODULE PortalProofs ----------------------------
(***************************************************************************)
(* What the portal guarantees, for any windows, workers and requests, any  *)
(* number of repetitions and any faults: a request is sent at most once, a *)
(* forward is filed where its answers go, a message's status tells what    *)
(* became of it, nobody's request passes the revision check without his    *)
(* having seen what was claimed before it, and two answers to one view     *)
(* overlapped.                                                             *)
(*                                                                         *)
(* The types come first, with what a handler has at each step.  Then four  *)
(* invariants on top of them: SentInv (who may still send), StatusInv (who *)
(* may still write a status), SeenInv (what a screen shows) and RaceInv    *)
(* (who passed the check next to whom).                                    *)
(***************************************************************************)
EXTENDS Portal, TLAPS

Steps == {"idle", "open", "check", "load", "child", "insert", "bump", "send",
          "sent", "uncertain", "bumpDone", "source"}

(* The parts of TypeOK that belong together.                               *)
WindowType ==
  /\ step \in [Operators -> Steps]
  /\ view \in [Operators -> View]
  /\ form \in [Operators -> Form]
  /\ known \in [Operators -> SUBSET Mails]
  /\ quoted \in [Operators -> SUBSET Mails]
WorkerType ==
  /\ busy \in [Workers -> {"idle", "bump", "scan"}]
  /\ mail \in [Workers -> Mails \cup {0}]
StoreType ==
  /\ conv \in [Convs -> [revision : Nat, thread : 0..MaxTries]]
  /\ message \in [Requests -> Message]
  /\ rows \in Seq(Row) /\ Len(rows) \in Mails
CountType ==
  /\ tries \in [Requests -> 0..MaxTries]
  /\ bound \in Bounds
  /\ faults \in 0..bound.faults
PastType ==
  /\ outbox \subseteq PortalMail
  /\ behind \subseteq Mails
  /\ beside \in [Requests -> SUBSET Requests]
  /\ cut \subseteq Requests

(* A handler has a form, of a conversation that exists, and from the       *)
(* insert on a forward's child conversation has its thread.                *)
Filed == {"insert", "bump", "send", "sent", "uncertain", "bumpDone",
          "source"}
Stored == Filed \ {"insert"}

FormAt(o) ==
  /\ step[o] \notin {"idle", "open"} => form[o] # NoForm
  /\ step[o] \in Filed /\ form[o].action = "forward" =>
       conv[form[o].request].thread # 0
  /\ step[o] \in Stored => message[form[o].request] # NoMessage
FormOK == \A o \in Operators : FormAt(o)

(* A worker that is busy has a mail with a row.                            *)
HandOK == \A w \in Workers : busy[w] # "idle" => mail[w] \in DOMAIN rows

(* A child conversation that exists has a thread, and what a window shows  *)
(* and a row names exists.                                                 *)
Live(c) == c = Root \/ conv[c].thread # 0

ChildOK == \A c \in Convs : Exists(c) => Live(c)
ShownOK == \A o \in Operators : Live(view[o].conv)
RowOK   == \A m \in DOMAIN rows : Live(rows[m].conv)
LiveOK  == ChildOK /\ ShownOK /\ RowOK

TypeInv == TypeOK /\ FormOK /\ HandOK /\ LiveOK

(* TypeOK is the conjunction of its parts.                                 *)
LEMMA TypeParts ==
  TypeOK <=> WindowType /\ WorkerType /\ StoreType /\ CountType /\ PastType
  BY DEF TypeOK, WindowType, WorkerType, StoreType, CountType, PastType, Steps

(* The constants, without the sets they are members of.                    *)
LEMMA Constant ==
  /\ Root \in Convs /\ Requests \subseteq Convs /\ Root \notin Requests
  /\ MaxTries \in Nat \ {0} /\ MaxMails \in Nat \ {0}
  /\ Mails = 1..MaxMails
  /\ bound \in Bounds => /\ bound.tries \in [Requests -> 0..MaxTries]
                         /\ bound.mails \in 1..MaxMails
                         /\ bound.faults \in Nat
  BY PortalAssumption DEF Convs, BoundRecord, Mails

(* The first state.                                                        *)
LEMMA TypeStarts == Init => TypeInv
<1> SUFFICES ASSUME Init PROVE TypeInv
  OBVIOUS
<1> USE DEF Init
<1>1. WindowType
  BY Constant DEF WindowType, NoView, NoForm, View, Form, Steps
<1>2. WorkerType
  BY DEF WorkerType
<1>3. StoreType
  <2>1. rows \in Seq(Row) /\ Len(rows) = 1
    BY Constant DEF Row
  <2> QED
    BY Constant, <2>1 DEF StoreType, NoConv, Message
<1>4. CountType
  BY Constant DEF CountType
<1>5. PastType
  BY DEF PastType
<1>6. FormOK /\ HandOK
  BY DEF FormOK, FormAt, HandOK, Filed, Stored
<1>7. LiveOK
  BY Constant DEF LiveOK, ChildOK, ShownOK, RowOK, Live, Exists, NoConv, NoView
<1> QED
  BY <1>1, <1>2, <1>3, <1>4, <1>5, <1>6, <1>7, TypeParts DEF TypeInv

-----------------------------------------------------------------------------

(* What every step may use of the invariant.                               *)
LEMMA TypeFacts ==
  ASSUME TypeInv
  PROVE  /\ WindowType /\ WorkerType /\ StoreType /\ CountType /\ PastType
         /\ FormOK /\ HandOK /\ LiveOK
         /\ MaxTries \in Nat \ {0} /\ MaxMails \in Nat \ {0}
         /\ Mails = 1..MaxMails
         /\ bound.tries \in [Requests -> 0..MaxTries]
         /\ bound.mails \in 1..MaxMails /\ bound.faults \in Nat
         /\ DOMAIN rows = 1..Len(rows) /\ DOMAIN rows \subseteq Mails
  BY TypeParts, Constant DEF TypeInv, CountType, StoreType

(* A busy handler's request and attempt, and its target conversation.      *)
LEMMA HandlerForm ==
  ASSUME TypeInv, NEW o \in Operators, step[o] \notin {"idle", "open"}
  PROVE  /\ form[o].request \in Requests /\ form[o].try \in 1..MaxTries
         /\ form[o].action \in {"reply", "forward"}
         /\ form[o].confirmed \in BOOLEAN
         /\ view[o].conv \in Convs /\ Target(o) \in Convs
         /\ step[o] \in Filed => MailId(o) \in 1..MaxTries
<1>1. form[o] \in Form /\ form[o] # NoForm /\ view[o] \in View
  BY TypeFacts DEF WindowType, FormOK, FormAt
<1>2. /\ form[o].request \in Requests /\ form[o].try \in 1..MaxTries
      /\ form[o].action \in {"reply", "forward"}
      /\ form[o].confirmed \in BOOLEAN
  BY <1>1 DEF Form
<1>3. view[o].conv \in Convs /\ form[o].request \in Convs
  BY <1>1, <1>2, Constant DEF View
<1>4. ASSUME step[o] \in Filed, form[o].action = "forward"
      PROVE  conv[form[o].request].thread \in 1..MaxTries
  <2>1. conv[form[o].request].thread \in 0..MaxTries
    BY <1>3, TypeFacts DEF StoreType
  <2>2. conv[form[o].request].thread # 0
    BY <1>4, TypeFacts DEF FormOK, FormAt
  <2> QED
    BY <2>1, <2>2, TypeFacts
<1> QED
  BY <1>2, <1>3, <1>4 DEF Target, MailId

(* The mails of a conversation are mails.                                  *)
LEMMA MailsOfType ==
  ASSUME TypeInv, NEW c
  PROVE  MailsOf(c) \subseteq Mails
  BY TypeFacts DEF MailsOf

(* A bumped conversation keeps its thread.                                 *)
LEMMA BumpType ==
  ASSUME StoreType, NEW c \in Convs, Bump(c)
  PROVE  /\ conv' \in [Convs -> [revision : Nat, thread : 0..MaxTries]]
         /\ \A d \in Convs : conv'[d].thread = conv[d].thread
         /\ \A d \in Convs \ {c} : conv'[d] = conv[d]
         /\ conv'[c].revision = conv[c].revision + 1
  BY DEF StoreType, Bump

(* A fault is counted within its bound.                                    *)
LEMMA FaultType ==
  ASSUME TypeInv, Fault, UNCHANGED bound
  PROVE  faults' \in 0..bound'.faults
  BY TypeFacts DEF Fault, CountType

(* The steps of a window and of a worker.                                  *)
WindowAct(o) == OpenSummary(o) \/ OpenTimeline(o) \/ Submit(o) \/ Handle(o)
                  \/ Interrupt(o)
WorkerAct(w) == ClaimInsert(w) \/ ClaimAgain(w) \/ ClaimBump(w) \/ Scan(w)
                  \/ FailMail(w)

(* A step is a window's, a worker's, or none.                              *)
LEMMA StepCases ==
  ASSUME [Next]_vars
  PROVE  /\ UNCHANGED bound
         /\ \/ \E o \in Operators : WindowAct(o)
            \/ \E w \in Workers : WorkerAct(w)
            \/ UNCHANGED vars
  BY DEF Next, WindowAct, WorkerAct, vars

(* A window's step leaves the other windows and the workers alone.         *)
LEMMA WindowFrame ==
  ASSUME WindowType, NEW o \in Operators, WindowAct(o)
  PROVE  /\ UNCHANGED worker
         /\ \A p \in Operators \ {o} :
              /\ step'[p] = step[p] /\ view'[p] = view[p]
              /\ form'[p] = form[p] /\ known'[p] = known[p]
<1> USE DEF WindowType, Goto, Return
<1>1. CASE OpenSummary(o) \/ OpenTimeline(o) \/ Submit(o)
  BY <1>1 DEF OpenSummary, OpenTimeline, Submit
<1>2. CASE Check(o) \/ LoadTimeline(o) \/ CreateChild(o)
  BY <1>2 DEF Check, LoadTimeline, CreateChild
<1>3. CASE InsertMessage(o) \/ BumpBegun(o) \/ SendComposed(o)
  BY <1>3 DEF InsertMessage, BumpBegun, SendComposed
<1>4. CASE FinishMessage(o) \/ BumpFinished(o) \/ BumpSource(o)
  BY <1>4 DEF FinishMessage, BumpFinished, BumpSource
<1>5. CASE Interrupt(o)
  BY <1>5 DEF Interrupt
<1> QED
  BY <1>1, <1>2, <1>3, <1>4, <1>5 DEF WindowAct, Handle

(* A worker's step leaves the windows and the portal's messages alone.     *)
LEMMA WorkerFrame ==
  ASSUME NEW w \in Workers, WorkerAct(w)
  PROVE  UNCHANGED <<window, message, tries, outbox, beside, cut>>
  BY DEF WorkerAct, ClaimInsert, ClaimAgain, ClaimBump, Scan, FailMail,
         window, store, past

-----------------------------------------------------------------------------
(* Types.                                                                  *)

(* A handler goes on, or returns.                                          *)
LEMMA MoveType ==
  ASSUME WindowType, NEW o \in Operators, UNCHANGED view,
         \/ Return(o)
         \/ /\ \E s \in Steps : Goto(o, s)
            /\ UNCHANGED <<form, known, quoted>>
  PROVE  WindowType'
<1>1. CASE Return(o)
  <2>1. NoForm \in Form /\ "idle" \in Steps
    BY DEF Form, Steps
  <2> QED
    BY <1>1, <2>1 DEF WindowType, Return
<1>2. CASE (\E s \in Steps : Goto(o, s)) /\ UNCHANGED <<form, known, quoted>>
  BY <1>2 DEF WindowType, Goto
<1> QED
  BY <1>1, <1>2

(* The window's own variables.                                             *)
LEMMA WindowTypeStep ==
  ASSUME TypeInv, NEW o \in Operators, WindowAct(o)
  PROVE  WindowType'
<1>0. WindowType
  BY TypeFacts
<1>1. CASE OpenSummary(o)
  <2>1. \A c \in Convs : [conv |-> c, revision |-> conv[c].revision,
                          mails |-> {}] \in View
    BY TypeFacts DEF View, StoreType
  <2> QED
    BY <1>0, <1>1, <2>1 DEF OpenSummary, Goto, WindowType, Steps
<1>2. CASE OpenTimeline(o)
  <2>1. MailsOf(view[o].conv) \subseteq Mails
    BY MailsOfType
  <2>2. view[o] \in View
    BY <1>0 DEF WindowType
  <2>3. [view[o] EXCEPT !.mails = MailsOf(view[o].conv)] \in View
    BY <2>1, <2>2, Zenon DEF View
  <2>4. view' = [view EXCEPT ![o] =
                   [view[o] EXCEPT !.mails = MailsOf(view[o].conv)]]
    BY <1>2 DEF OpenTimeline
  <2>5. view' \in [Operators -> View]
    BY <1>0, <2>3, <2>4 DEF WindowType
  <2> QED
    BY <1>0, <1>2, <2>5 DEF OpenTimeline, Goto, WindowType, Steps
<1>3. CASE Submit(o)
  <2>1. PICK r \in Requests, a \in {"reply", "forward"}, yes \in BOOLEAN :
          /\ tries[r] < bound.tries[r]
          /\ form' = [form EXCEPT ![o] =
               [request |-> r, try |-> tries[r] + 1, action |-> a,
                confirmed |-> yes]]
    BY <1>3 DEF Submit
  <2>2. tries[r] + 1 \in 1..MaxTries
    BY <2>1, TypeFacts DEF CountType
  <2>3. [request |-> r, try |-> tries[r] + 1, action |-> a,
         confirmed |-> yes] \in Form
    BY <2>2 DEF Form
  <2> QED
    BY <1>0, <1>3, <2>1, <2>3 DEF Submit, Goto, WindowType, Steps
<1>4. CASE Check(o)
  <2>1. CASE MayAnswer(o)
    <3>1. MailsOf(view[o].conv) \ behind \subseteq Mails
      BY MailsOfType
    <3>2. /\ UNCHANGED <<view, form, quoted>> /\ Goto(o, "load")
          /\ known' = [known EXCEPT ![o] = MailsOf(view[o].conv) \ behind]
      BY <1>4, <2>1 DEF Check
    <3> QED
      BY <1>0, <3>1, <3>2 DEF Goto, WindowType, Steps
  <2>2. CASE ~MayAnswer(o)
    BY <1>0, <1>4, <2>2, MoveType DEF Check
  <2> QED
    BY <2>1, <2>2
<1>5. CASE LoadTimeline(o)
  <2>1. MailsOf(view[o].conv) \subseteq Mails
    BY MailsOfType
  <2> QED
    BY <1>0, <1>5, <2>1 DEF LoadTimeline, Goto, WindowType, Steps
<1>6. CASE CreateChild(o)
  BY <1>0, <1>6, MoveType DEF CreateChild, Steps
<1>7. CASE InsertMessage(o)
  <2>1. \/ Return(o)
        \/ Goto(o, "bump") /\ UNCHANGED <<form, known, quoted>>
    BY <1>7 DEF InsertMessage
  <2>2. UNCHANGED view
    BY <1>7 DEF InsertMessage
  <2> QED
    BY <1>0, <2>1, <2>2, MoveType DEF Steps
<1>8. CASE BumpBegun(o) \/ SendComposed(o) \/ FinishMessage(o)
  BY <1>0, <1>8, MoveType DEF BumpBegun, SendComposed, FinishMessage, Steps
<1>9. CASE BumpFinished(o) \/ BumpSource(o) \/ Interrupt(o)
  BY <1>0, <1>9, MoveType DEF BumpFinished, BumpSource, Interrupt, Steps
<1> QED
  BY <1>1, <1>2, <1>3, <1>4, <1>5, <1>6, <1>7, <1>8, <1>9
     DEF WindowAct, Handle

(* The tables, under a window's step.                                      *)
LEMMA WindowStoreStep ==
  ASSUME TypeInv, NEW o \in Operators, WindowAct(o)
  PROVE  StoreType'
<1> USE TypeFacts
<1>0. StoreType
  OBVIOUS
<1>1. CASE CreateChild(o)
  <2>1. form[o].request \in Requests /\ form[o].try \in 1..MaxTries
    BY <1>1, HandlerForm DEF CreateChild
  <2>2. [revision |-> 0, thread |-> form[o].try] \in
           [revision : Nat, thread : 0..MaxTries]
    BY <2>1
  <2>3. /\ UNCHANGED <<message, rows>>
        /\ \/ UNCHANGED conv
           \/ conv' = [conv EXCEPT ![form[o].request] =
                [revision |-> 0, thread |-> form[o].try]]
    BY <1>1 DEF CreateChild
  <2> DEFINE T == [revision : Nat, thread : 0..MaxTries]
  <2>4. conv' \in [Convs -> T]
    <3>1. conv \in [Convs -> T]
      BY <1>0 DEF StoreType
    <3> HIDE DEF T
    <3> QED
      BY <2>2, <2>3, <3>1 DEF T
  <2> QED
    BY <1>0, <2>3, <2>4 DEF StoreType
<1>2. CASE InsertMessage(o)
  <2>1. step[o] = "insert"
    BY <1>2 DEF InsertMessage
  <2>2. view[o] \in View /\ known[o] \in SUBSET Mails
        /\ quoted[o] \in SUBSET Mails
    BY DEF WindowType
  <2>3. [conv |-> Target(o), action |-> form[o].action,
         status |-> "sending", id |-> MailId(o), saw |-> view[o],
         known |-> known[o], quoted |-> quoted[o],
         confirmed |-> form[o].confirmed] \in Message
    BY <2>1, <2>2, HandlerForm DEF Message, Filed
  <2>4. /\ UNCHANGED <<conv, rows>>
        /\ \/ UNCHANGED message
           \/ message' = [message EXCEPT ![form[o].request] =
             [conv |-> Target(o), action |-> form[o].action,
              status |-> "sending", id |-> MailId(o), saw |-> view[o],
              known |-> known[o], quoted |-> quoted[o],
              confirmed |-> form[o].confirmed]]
    BY <1>2 DEF InsertMessage
  <2> QED
    BY <1>0, <2>3, <2>4 DEF StoreType
<1>3. CASE BumpBegun(o) \/ BumpFinished(o) \/ BumpSource(o)
  <2>1. PICK c \in Convs : Bump(c)
    BY <1>3, HandlerForm DEF BumpBegun, BumpFinished, BumpSource
  <2>2. UNCHANGED <<message, rows>>
    BY <1>3 DEF BumpBegun, BumpFinished, BumpSource
  <2> QED
    BY <1>0, <2>1, <2>2, BumpType DEF StoreType
<1>4. CASE FinishMessage(o)
  <2>1. /\ form[o].request \in Requests
        /\ step[o] \in {"sent", "uncertain"}
        /\ message[form[o].request] # NoMessage
    BY <1>4, HandlerForm DEF FinishMessage, FormOK, FormAt, Stored, Filed
  <2>2. message[form[o].request] \in Message \ {NoMessage}
    BY <2>1 DEF StoreType
  <2>3. message' = [message EXCEPT ![form[o].request] =
             [message[form[o].request] EXCEPT !.status =
               IF message[form[o].request].conv = Target(o) THEN step[o]
               ELSE message[form[o].request].status]]
    BY <1>4 DEF FinishMessage
  <2>4. [message[form[o].request] EXCEPT !.status =
               IF message[form[o].request].conv = Target(o) THEN step[o]
               ELSE message[form[o].request].status] \in Message
    BY <2>1, <2>2 DEF Message
  <2>5. UNCHANGED <<conv, rows>>
    BY <1>4 DEF FinishMessage
  <2>6. message' \in [Requests -> Message]
    BY <1>0, <2>1, <2>3, <2>4 DEF StoreType
  <2> QED
    BY <1>0, <2>5, <2>6 DEF StoreType
<1>5. CASE \/ OpenSummary(o) \/ OpenTimeline(o) \/ Submit(o) \/ Check(o)
           \/ LoadTimeline(o) \/ SendComposed(o) \/ Interrupt(o)
  <2>1. UNCHANGED store
    BY <1>5 DEF OpenSummary, OpenTimeline, Submit, Check, LoadTimeline,
                SendComposed, Interrupt
  <2> QED
    BY <2>1 DEF store, StoreType
<1> QED
  BY <1>1, <1>2, <1>3, <1>4, <1>5 DEF WindowAct, Handle

(* A thread or a message that is there stays, with what names it.          *)
Lasting ==
  /\ \A c \in Convs : conv[c].thread # 0 => conv'[c].thread = conv[c].thread
  /\ \A r \in Requests : message[r] # NoMessage =>
       /\ message'[r] # NoMessage
       /\ message'[r].action = message[r].action
       /\ message'[r].conv = message[r].conv
       /\ message'[r].id = message[r].id
       /\ message'[r].known = message[r].known
       /\ message'[r].saw = message[r].saw

(* A window's step takes no thread and rewrites no message.                *)
LEMMA WindowLasting ==
  ASSUME TypeInv, NEW o \in Operators, WindowAct(o)
  PROVE  Lasting
<1> USE TypeFacts
<1>0. StoreType
  OBVIOUS
<1>1. CASE CreateChild(o)
  BY <1>1, HandlerForm DEF CreateChild, Lasting, StoreType, Exists, NoConv
<1>2. CASE InsertMessage(o)
  BY <1>2, HandlerForm DEF InsertMessage, Lasting, StoreType
<1>3. CASE BumpBegun(o) \/ BumpFinished(o) \/ BumpSource(o)
  <2>1. PICK c \in Convs : Bump(c)
    BY <1>3, HandlerForm DEF BumpBegun, BumpFinished, BumpSource
  <2>2. UNCHANGED message
    BY <1>3 DEF BumpBegun, BumpFinished, BumpSource
  <2> QED
    BY <1>0, <2>1, <2>2, BumpType DEF Lasting
<1>4. CASE FinishMessage(o)
  <2>1. /\ form[o].request \in Requests
        /\ step[o] \in {"sent", "uncertain"}
        /\ message[form[o].request] # NoMessage
    BY <1>4, HandlerForm DEF FinishMessage, FormOK, FormAt, Stored, Filed
  <2>2. message[form[o].request] \in Message \ {NoMessage}
    BY <2>1 DEF StoreType
  <2> DEFINE m == message[form[o].request]
             s == IF m.conv = Target(o) THEN step[o] ELSE m.status
             n == [m EXCEPT !.status = s]
  <2>3. message' = [message EXCEPT ![form[o].request] = n]
    BY <1>4 DEF FinishMessage
  <2>4. s \in {"sent", "uncertain", "sending"}
    BY <2>1, <2>2 DEF Message
  <2>5. /\ n # NoMessage
        /\ n.action = m.action /\ n.conv = m.conv /\ n.id = m.id
        /\ n.known = m.known /\ n.saw = m.saw
    <3> HIDE DEF s
    <3> QED
      BY <2>2, <2>4 DEF Message, NoMessage
  <2>6. UNCHANGED conv
    BY <1>4 DEF FinishMessage
  <2> HIDE DEF n
  <2> QED
    BY <1>0, <2>1, <2>3, <2>5, <2>6 DEF StoreType, Lasting
<1>5. CASE \/ OpenSummary(o) \/ OpenTimeline(o) \/ Submit(o) \/ Check(o)
           \/ LoadTimeline(o) \/ SendComposed(o) \/ Interrupt(o)
  <2>1. UNCHANGED store
    BY <1>5 DEF OpenSummary, OpenTimeline, Submit, Check, LoadTimeline,
                SendComposed, Interrupt
  <2> QED
    BY <2>1 DEF store, Lasting
<1> QED
  BY <1>1, <1>2, <1>3, <1>4, <1>5 DEF WindowAct, Handle


(* The counts and the history, under a window's step.                      *)
LEMMA WindowCountStep ==
  ASSUME TypeInv, NEW o \in Operators, WindowAct(o), UNCHANGED bound
  PROVE  CountType'
<1>0. CountType
  BY TypeFacts
<1>1. CASE Submit(o)
  <2>1. PICK r \in Requests :
          /\ tries[r] < bound.tries[r]
          /\ tries' = [tries EXCEPT ![r] = @ + 1]
    BY <1>1 DEF Submit
  <2>2. tries[r] + 1 \in 0..MaxTries
    BY <1>0, <2>1, TypeFacts DEF CountType
  <2>3. UNCHANGED faults
    BY <1>1 DEF Submit
  <2> QED
    BY <1>0, <2>1, <2>2, <2>3 DEF CountType
<1>2. CASE SendComposed(o) \/ Interrupt(o)
  <2>1. UNCHANGED tries /\ (UNCHANGED faults \/ Fault)
    BY <1>2 DEF SendComposed, Interrupt
  <2> QED
    BY <1>0, <2>1, FaultType DEF CountType
<1>3. CASE \/ OpenSummary(o) \/ OpenTimeline(o) \/ Check(o)
           \/ LoadTimeline(o) \/ CreateChild(o) \/ InsertMessage(o)
           \/ BumpBegun(o) \/ FinishMessage(o) \/ BumpFinished(o)
           \/ BumpSource(o)
  <2>1. UNCHANGED <<tries, faults>>
    BY <1>3 DEF OpenSummary, OpenTimeline, Check, LoadTimeline, CreateChild,
                InsertMessage, BumpBegun, FinishMessage, BumpFinished,
                BumpSource
  <2> QED
    BY <1>0, <2>1 DEF CountType
<1> QED
  BY <1>1, <1>2, <1>3 DEF WindowAct, Handle

(* The history of what was sent and checked, under a window's step.        *)
LEMMA WindowPastStep ==
  ASSUME TypeInv, NEW o \in Operators, WindowAct(o)
  PROVE  PastType'
<1>0. PastType
  BY TypeFacts
<1>1. CASE SendComposed(o)
  <2>1. step[o] = "send"
    BY <1>1 DEF SendComposed
  <2>2. [request |-> form[o].request, by |-> o, try |-> form[o].try,
         id |-> MailId(o)] \in PortalMail
    BY <2>1, HandlerForm DEF PortalMail, Filed
  <2>3. /\ UNCHANGED <<behind, beside, cut>>
        /\ Accept(o) \/ UNCHANGED outbox
    BY <1>1 DEF SendComposed
  <2> QED
    BY <1>0, <2>2, <2>3 DEF Accept, PastType
<1>2. CASE Check(o)
  <2>1. CASE MayAnswer(o)
    <3> DEFINE near ==
          {form[p].request : p \in {q \in Operators : step[q] \in Passed}}
    <3>1. near \subseteq Requests
      BY HandlerForm DEF Passed
    <3>2. form[o].request \in Requests
      BY <1>2, HandlerForm DEF Check
    <3>3. /\ UNCHANGED <<outbox, behind, cut>>
          /\ beside' = [beside EXCEPT ![form[o].request] = @ \cup near]
      BY <1>2, <2>1 DEF Check
    <3> HIDE DEF near
    <3> QED
      BY <1>0, <3>1, <3>2, <3>3 DEF PastType
  <2>2. CASE ~MayAnswer(o)
    BY <1>0, <1>2, <2>2 DEF Check, PastType
  <2> QED
    BY <2>1, <2>2
<1>3. CASE \/ OpenSummary(o) \/ OpenTimeline(o) \/ Submit(o)
           \/ LoadTimeline(o) \/ CreateChild(o) \/ InsertMessage(o)
           \/ BumpBegun(o) \/ FinishMessage(o) \/ BumpFinished(o)
           \/ BumpSource(o)
  <2>1. UNCHANGED past
    BY <1>3 DEF OpenSummary, OpenTimeline, Submit, LoadTimeline, CreateChild,
                InsertMessage, BumpBegun, FinishMessage, BumpFinished,
                BumpSource, past
  <2> QED
    BY <1>0, <2>1 DEF past, PastType
<1>4. CASE Interrupt(o)
  <2>1. form[o].request \in Requests
    BY <1>4, HandlerForm DEF Interrupt
  <2>2. /\ UNCHANGED <<outbox, behind, beside>>
        /\ cut' \in {cut, cut \cup {form[o].request}}
    BY <1>4 DEF Interrupt
  <2> QED
    BY <1>0, <2>1, <2>2 DEF PastType
<1> QED
  BY <1>1, <1>2, <1>3, <1>4 DEF WindowAct, Handle

(* What a worker changes of the tables and of its own variables.           *)
LEMMA WorkerStoreStep ==
  ASSUME TypeInv, NEW w \in Workers, WorkerAct(w)
  PROVE  StoreType' /\ WorkerType' /\ HandOK' /\ Lasting
<1> USE TypeFacts
<1>0. StoreType /\ WorkerType /\ HandOK
  OBVIOUS
<1>1. CASE ClaimInsert(w)
  <2>1. PICK c \in Convs :
          rows' = Append(rows, [conv |-> c, safety |-> "none"])
    BY <1>1 DEF ClaimInsert
  <2>2. [conv |-> c, safety |-> "none"] \in Row
    BY DEF Row
  <2>3. rows' \in Seq(Row) /\ Len(rows') = Len(rows) + 1
    BY <1>0, <2>1, <2>2 DEF StoreType
  <2>4. Len(rows) + 1 \in Mails
    BY <1>1, <1>0 DEF ClaimInsert, StoreType
  <2>5. UNCHANGED <<conv, message>>
    BY <1>1 DEF ClaimInsert
  <2>6. /\ busy' = [busy EXCEPT ![w] = "bump"]
        /\ mail' = [mail EXCEPT ![w] = Len(rows) + 1]
    BY <1>1 DEF ClaimInsert, Take
  <2>7. DOMAIN rows' = 1..(Len(rows) + 1)
    BY <2>3
  <2>8. StoreType' /\ Lasting
    BY <1>0, <2>3, <2>4, <2>5 DEF StoreType, Lasting
  <2>9. WorkerType'
    BY <1>0, <2>4, <2>6 DEF WorkerType
  <2>10. HandOK'
    BY <1>0, <2>4, <2>6, <2>7 DEF HandOK, WorkerType
  <2> QED
    BY <2>8, <2>9, <2>10
<1>2. CASE ClaimAgain(w)
  <2>1. PICK m \in DOMAIN rows : Take(w, m, "bump")
    BY <1>2 DEF ClaimAgain
  <2>2. UNCHANGED store
    BY <1>2 DEF ClaimAgain
  <2> QED
    BY <1>0, <2>1, <2>2 DEF Take, store, StoreType, WorkerType, HandOK, Lasting
<1>3. CASE ClaimBump(w)
  <2>1. mail[w] \in DOMAIN rows
    BY <1>0, <1>3 DEF ClaimBump, HandOK
  <2>2. rows[mail[w]].conv \in Convs
    <3>1. rows[mail[w]] \in Row
      BY <1>0, <2>1 DEF StoreType
    <3> QED
      BY <3>1 DEF Row
  <2>3. /\ Bump(rows[mail[w]].conv) /\ Take(w, mail[w], "scan")
        /\ UNCHANGED <<message, rows>>
    BY <1>3 DEF ClaimBump
  <2>4. StoreType' /\ Lasting
    BY <1>0, <2>2, <2>3, BumpType DEF StoreType, Lasting
  <2> QED
    BY <1>0, <2>1, <2>3, <2>4 DEF Take, WorkerType, HandOK
<1>4. CASE Scan(w)
  <2>1. PICK s \in {"safe", "unsafe"} :
          rows' = [rows EXCEPT ![mail[w]].safety = s]
    BY <1>4 DEF Scan
  <2>2. mail[w] \in 1..Len(rows)
    BY <1>0, <1>4 DEF Scan, HandOK
  <2>3. rows[mail[w]] \in Row
    BY <1>0, <2>2 DEF StoreType
  <2>4. [rows[mail[w]] EXCEPT !.safety = s] \in Row
    BY <2>3 DEF Row
  <2>5. rows' = [rows EXCEPT ![mail[w]] =
                   [rows[mail[w]] EXCEPT !.safety = s]]
    BY <2>1
  <2>6. rows' \in Seq(Row) /\ Len(rows') = Len(rows)
        /\ DOMAIN rows' = DOMAIN rows
    BY <1>0, <2>2, <2>4, <2>5 DEF StoreType
  <2>7. UNCHANGED <<conv, message>> /\ Take(w, 0, "idle")
    BY <1>4 DEF Scan
  <2> QED
    BY <1>0, <2>6, <2>7 DEF StoreType, Take, WorkerType, HandOK, Lasting
<1>5. CASE FailMail(w)
  <2>1. UNCHANGED store /\ Take(w, 0, "idle")
    BY <1>5 DEF FailMail
  <2> QED
    BY <1>0, <2>1 DEF Take, store, StoreType, WorkerType, HandOK, Lasting
<1> QED
  BY <1>1, <1>2, <1>3, <1>4, <1>5 DEF WorkerAct

(* The counts and the history, under a worker's step.                      *)
LEMMA WorkerCountStep ==
  ASSUME TypeInv, NEW w \in Workers, WorkerAct(w), UNCHANGED bound
  PROVE  CountType' /\ PastType'
<1> USE TypeFacts
<1>0. CountType /\ PastType
  OBVIOUS
<1>1. UNCHANGED <<tries, outbox, beside, cut>>
  BY WorkerFrame
<1>2. UNCHANGED faults \/ Fault
  BY DEF WorkerAct, ClaimInsert, ClaimAgain, ClaimBump, Scan, FailMail
<1>3. behind' \subseteq behind \cup {Len(rows) + 1}
      /\ (behind' \subseteq behind \/ Len(rows) + 1 \in Mails)
  BY DEF WorkerAct, ClaimInsert, ClaimAgain, ClaimBump, Scan, FailMail, past,
         StoreType
<1>4. faults' \in 0..bound'.faults
  BY <1>0, <1>2, FaultType DEF CountType
<1> QED
  BY <1>0, <1>1, <1>3, <1>4 DEF CountType, PastType

-----------------------------------------------------------------------------
(* Handlers have what they go on with.                                     *)

(* Of a handler that a step leaves where it is, nothing is taken away.     *)
LEMMA LastingForm ==
  ASSUME TypeInv, Lasting, NEW o \in Operators,
         step'[o] = step[o], form'[o] = form[o]
  PROVE  FormAt(o)'
<1>1. FormAt(o)
  BY TypeFacts DEF FormOK
<1>2. CASE step[o] \in {"idle", "open"}
  BY <1>2 DEF FormAt, Filed, Stored
<1>3. CASE step[o] \notin {"idle", "open"}
  <2>1. form[o].request \in Requests /\ form[o].request \in Convs
    BY <1>3, HandlerForm, Constant
  <2> QED
    BY <1>1, <2>1 DEF FormAt, Lasting
<1> QED
  BY <1>2, <1>3

(* A handler that goes on, with what it needs there.                       *)
LEMMA FormGoesOn ==
  ASSUME TypeInv, Lasting, NEW o \in Operators, NEW s \in Steps,
         step[o] \notin {"idle", "open"}, Goto(o, s), UNCHANGED form,
         s \in Filed => \/ step[o] \in Filed
                        \/ form[o].action # "forward"
                        \/ conv'[form[o].request].thread # 0,
         s \in Stored => \/ step[o] \in Stored
                         \/ message'[form[o].request] # NoMessage
  PROVE  FormAt(o)'
<1>1. FormAt(o) /\ step'[o] = s /\ form'[o] = form[o]
  BY TypeFacts DEF FormOK, Goto, WindowType
<1>2. form[o].request \in Requests /\ form[o].request \in Convs
  BY HandlerForm, Constant
<1> QED
  BY <1>1, <1>2 DEF FormAt, Lasting

(* A handler that returned needs nothing.                                  *)
LEMMA FormReturns ==
  ASSUME TypeInv, NEW o \in Operators, Return(o)
  PROVE  FormAt(o)'
<1>1. step'[o] = "idle"
  BY TypeFacts DEF Return, WindowType
<1> QED
  BY <1>1 DEF FormAt, Filed, Stored

(* Every handler has what it needs, under a window's step.                 *)
LEMMA WindowFormStep ==
  ASSUME TypeInv, NEW o \in Operators, WindowAct(o)
  PROVE  FormOK'
<1> USE TypeFacts
<1>0. Lasting /\ WindowType /\ StoreType
  BY WindowLasting
<1> SUFFICES FormAt(o)'
  <2>1. \A q \in Operators \ {o} : FormAt(q)'
    BY <1>0, WindowFrame, LastingForm
  <2> QED
    BY <2>1 DEF FormOK
<1>1. CASE OpenSummary(o) \/ OpenTimeline(o)
  <2>1. step'[o] \in {"open", "idle"}
    BY <1>0, <1>1 DEF OpenSummary, OpenTimeline, Goto, WindowType
  <2> QED
    BY <2>1 DEF FormAt, Filed, Stored
<1>2. CASE Submit(o)
  <2>1. step'[o] = "check" /\ form'[o].action \in {"reply", "forward"}
    BY <1>0, <1>2 DEF Submit, Goto, WindowType
  <2> QED
    BY <2>1 DEF FormAt, Filed, Stored, NoForm
<1>3. CASE Check(o)
  BY <1>0, <1>3, FormGoesOn, FormReturns DEF Check, Filed, Stored, Steps
<1>4. CASE LoadTimeline(o)
  <2>1. step[o] = "load" /\ UNCHANGED form
    BY <1>4 DEF LoadTimeline
  <2>2. CASE form[o].action = "forward"
    <3>1. Goto(o, "child")
      BY <1>4, <2>2 DEF LoadTimeline
    <3> QED
      BY <1>0, <2>1, <3>1, FormGoesOn DEF Filed, Stored, Steps
  <2>3. CASE form[o].action # "forward"
    <3>1. Goto(o, "insert")
      BY <1>4, <2>3 DEF LoadTimeline
    <3> QED
      BY <1>0, <2>1, <2>3, <3>1, FormGoesOn DEF Filed, Stored, Steps
  <2> QED
    BY <2>2, <2>3
<1>5. CASE CreateChild(o)
  <2>1. CASE Return(o)
    BY <2>1, FormReturns
  <2>2. CASE ~Return(o)
    <3>1. /\ step[o] = "child" /\ Goto(o, "insert") /\ UNCHANGED form
          /\ IF Exists(form[o].request) THEN UNCHANGED conv
             ELSE conv' = [conv EXCEPT ![form[o].request] =
                    [revision |-> 0, thread |-> form[o].try]]
      BY <1>5, <2>2 DEF CreateChild
    <3>2. /\ form[o].request \in Convs /\ form[o].try \in 1..MaxTries
          /\ form[o].request # Root
      BY <3>1, HandlerForm, Constant
    <3>3. conv'[form[o].request].thread # 0
      <4>1. CASE Exists(form[o].request)
        BY <1>0, <3>1, <3>2, <4>1 DEF LiveOK, ChildOK, Live
      <4>2. CASE ~Exists(form[o].request)
        BY <1>0, <3>1, <3>2, <4>2 DEF StoreType
      <4> QED
        BY <4>1, <4>2
    <3> QED
      BY <1>0, <3>1, <3>3, FormGoesOn DEF Filed, Stored, Steps
  <2> QED
    BY <2>1, <2>2
<1>6. CASE InsertMessage(o)
  <2>1. CASE Return(o)
    BY <2>1, FormReturns
  <2>2. CASE ~Return(o)
    <3> DEFINE r == form[o].request
               new == [conv |-> Target(o), action |-> form[o].action,
                 status |-> "sending", id |-> MailId(o), saw |-> view[o],
                 known |-> known[o], quoted |-> quoted[o],
                 confirmed |-> form[o].confirmed]
    <3>1. /\ step[o] = "insert" /\ Goto(o, "bump") /\ UNCHANGED form
          /\ message' = [message EXCEPT ![r] = new]
      BY <1>6, <2>2 DEF InsertMessage
    <3>2. r \in Requests /\ form[o].action \in {"reply", "forward"}
      BY <3>1, HandlerForm
    <3>3. new # NoMessage
      BY <3>2 DEF NoMessage
    <3>4. message'[r] # NoMessage
      BY <1>0, <3>1, <3>2, <3>3 DEF StoreType
    <3> QED
      BY <1>0, <3>1, <3>4, FormGoesOn DEF Filed, Stored, Steps
  <2> QED
    BY <2>1, <2>2
<1>7. CASE BumpBegun(o) \/ SendComposed(o) \/ FinishMessage(o)
  <2>1. /\ step[o] \in Stored /\ step[o] \notin {"idle", "open"}
        /\ UNCHANGED form /\ \E s \in Steps : Goto(o, s)
    BY <1>7 DEF BumpBegun, SendComposed, FinishMessage, Stored, Filed, Steps
  <2> QED
    BY <1>0, <2>1, FormGoesOn DEF Stored
<1>8. CASE BumpFinished(o) \/ BumpSource(o) \/ Interrupt(o)
  <2>1. \/ Return(o)
        \/ /\ step[o] = "bumpDone"
           /\ UNCHANGED form /\ Goto(o, "source")
    BY <1>8 DEF BumpFinished, BumpSource, Interrupt
  <2> QED
    BY <1>0, <2>1, FormReturns, FormGoesOn DEF Stored, Filed, Steps
<1> QED
  BY <1>1, <1>2, <1>3, <1>4, <1>5, <1>6, <1>7, <1>8 DEF WindowAct, Handle

-----------------------------------------------------------------------------
(* Conversations that are shown, named or written to exist.                *)

(* A conversation that exists stays.                                       *)
LEMMA LiveLasts ==
  ASSUME Lasting, NEW c \in Convs, Live(c)
  PROVE  Live(c)'
  BY DEF Lasting, Live

(* A bump creates no conversation.                                         *)
LEMMA BumpLive ==
  ASSUME TypeInv, NEW c \in Convs, Live(c), Bump(c)
  PROVE  ChildOK'
<1>1. StoreType /\ ChildOK
  BY TypeFacts DEF LiveOK
<1>2. \A d \in Convs : Live(d) => Live(d)'
  BY <1>1, BumpType DEF Live
<1>3. \A d \in Convs \ {c} : Exists(d)' => Exists(d)
  BY <1>1, BumpType DEF Exists, NoConv
<1> QED
  BY <1>1, <1>2, <1>3 DEF ChildOK

(* A handler writes to conversations that exist.                           *)
LEMMA TargetLive ==
  ASSUME TypeInv, NEW o \in Operators, step[o] \in Filed
  PROVE  Live(Target(o)) /\ Target(o) \in Convs /\ Live(view[o].conv)
<1>1. step[o] \notin {"idle", "open"}
  BY DEF Filed
<1>2. Live(view[o].conv) /\ FormAt(o)
  BY TypeFacts DEF LiveOK, ShownOK, FormOK
<1> QED
  BY <1>1, <1>2, HandlerForm DEF Target, FormAt, Live

(* Existence, under a window's step.                                       *)
LEMMA WindowLiveStep ==
  ASSUME TypeInv, NEW o \in Operators, WindowAct(o)
  PROVE  LiveOK' /\ HandOK'
<1> USE TypeFacts
<1>0. Lasting /\ WindowType /\ StoreType /\ LiveOK /\ HandOK
  BY WindowLasting
<1>1. UNCHANGED rows
  BY DEF WindowAct, Handle, OpenSummary, OpenTimeline, Submit, Check,
         LoadTimeline, CreateChild, InsertMessage, BumpBegun, SendComposed,
         FinishMessage, BumpFinished, BumpSource, Interrupt, store
<1>2. RowOK'
  <2>1. \A m \in DOMAIN rows : rows[m] \in Row
    BY <1>0 DEF StoreType
  <2>2. \A m \in DOMAIN rows : rows[m].conv \in Convs
    BY <2>1 DEF Row
  <2> QED
    BY <1>0, <1>1, <2>2, LiveLasts DEF LiveOK, RowOK
<1>3. HandOK'
  BY <1>0, <1>1, WindowFrame DEF HandOK, worker
<1>4. ChildOK'
  <2>1. CASE CreateChild(o)
    <3>1. form[o].request \in Convs /\ form[o].try \in 1..MaxTries
      BY <2>1, HandlerForm, Constant DEF CreateChild
    <3>2. \/ UNCHANGED conv
          \/ conv' = [conv EXCEPT ![form[o].request] =
               [revision |-> 0, thread |-> form[o].try]]
      BY <2>1 DEF CreateChild
    <3>3. CASE UNCHANGED conv
      BY <1>0, <3>3 DEF LiveOK, ChildOK, Live, Exists
    <3>4. CASE conv' = [conv EXCEPT ![form[o].request] =
                 [revision |-> 0, thread |-> form[o].try]]
      <4>1. \A c \in Convs : c # form[o].request => conv'[c] = conv[c]
        BY <1>0, <3>1, <3>4 DEF StoreType
      <4>2. conv'[form[o].request].thread # 0
        BY <1>0, <3>1, <3>4 DEF StoreType
      <4> QED
        BY <1>0, <4>1, <4>2 DEF LiveOK, ChildOK, Live, Exists
    <3> QED
      BY <3>2, <3>3, <3>4
  <2>2. CASE BumpBegun(o) \/ BumpFinished(o) \/ BumpSource(o)
    <3>1. step[o] \in Filed
      BY <2>2 DEF BumpBegun, BumpFinished, BumpSource, Filed
    <3>2. view[o].conv \in Convs
      BY <3>1, HandlerForm DEF Filed
    <3>3. Bump(Target(o)) \/ Bump(view[o].conv)
      BY <2>2 DEF BumpBegun, BumpFinished, BumpSource
    <3> QED
      BY <3>1, <3>2, <3>3, TargetLive, BumpLive
  <2>3. CASE \/ OpenSummary(o) \/ OpenTimeline(o) \/ Submit(o) \/ Check(o)
             \/ LoadTimeline(o) \/ InsertMessage(o) \/ SendComposed(o)
             \/ FinishMessage(o) \/ Interrupt(o)
    <3>1. UNCHANGED conv
      BY <2>3 DEF OpenSummary, OpenTimeline, Submit, Check, LoadTimeline,
                  InsertMessage, SendComposed, FinishMessage, Interrupt, store
    <3> QED
      BY <1>0, <3>1 DEF LiveOK, ChildOK, Live, Exists
  <2> QED
    BY <2>1, <2>2, <2>3 DEF WindowAct, Handle
<1>5. ShownOK'
  <2>0. \A q \in Operators : view[q].conv \in Convs /\ Live(view[q].conv)
    <3>1. \A q \in Operators : view[q] \in View
      BY <1>0 DEF WindowType
    <3> QED
      BY <1>0, <3>1 DEF View, LiveOK, ShownOK
  <2>1. \A q \in Operators \ {o} : Live(view[q].conv)'
    BY <1>0, <2>0, WindowFrame, LiveLasts DEF Live, Lasting
  <2>2. Live(view[o].conv)'
    <3>1. CASE OpenSummary(o)
      <4>1. PICK c \in Convs :
              /\ Exists(c)
              /\ view' = [view EXCEPT ![o] =
                [conv |-> c, revision |-> conv[c].revision, mails |-> {}]]
        BY <3>1 DEF OpenSummary
      <4>2. view'[o].conv = c /\ Live(c)
        BY <1>0, <4>1 DEF WindowType, LiveOK, ChildOK
      <4> QED
        BY <1>0, <4>2 DEF Live, Lasting
    <3>2. CASE ~OpenSummary(o)
      <4>1. view'[o].conv = view[o].conv
        <5>1. view[o] \in View
          BY <1>0 DEF WindowType
        <5>2. \/ UNCHANGED view
              \/ view' = [view EXCEPT ![o].mails = MailsOf(view[o].conv)]
          BY <3>2 DEF WindowAct, Handle, OpenTimeline, Submit, Check,
             LoadTimeline, CreateChild, InsertMessage, BumpBegun,
             SendComposed, FinishMessage, BumpFinished, BumpSource, Interrupt
        <5> QED
          BY <1>0, <5>1, <5>2 DEF WindowType, View
      <4> QED
        BY <1>0, <2>0, <4>1 DEF Live, Lasting
    <3> QED
      BY <3>1, <3>2
  <2> QED
    BY <2>1, <2>2 DEF ShownOK
<1> QED
  BY <1>2, <1>3, <1>4, <1>5 DEF LiveOK

(* Every handler has what it needs, under a worker's step.                 *)
LEMMA WorkerFormStep ==
  ASSUME TypeInv, NEW w \in Workers, WorkerAct(w)
  PROVE  FormOK'
<1>1. Lasting /\ UNCHANGED window
  BY WorkerStoreStep, WorkerFrame
<1>2. \A o \in Operators : FormAt(o)'
  BY <1>1, LastingForm DEF window
<1> QED
  BY <1>2 DEF FormOK

(* Existence, under a worker's step.                                       *)
LEMMA WorkerLiveStep ==
  ASSUME TypeInv, NEW w \in Workers, WorkerAct(w)
  PROVE  LiveOK'
<1>0. Lasting /\ WindowType /\ StoreType /\ LiveOK /\ HandOK
      /\ DOMAIN rows = 1..Len(rows)
  BY TypeFacts, WorkerStoreStep
<1>1. \A m \in DOMAIN rows :
        /\ rows[m].conv \in Convs
        /\ rows[m].conv = Root \/ conv'[rows[m].conv].thread # 0
  <2>1. \A m \in DOMAIN rows : rows[m] \in Row
    BY <1>0 DEF StoreType
  <2>2. \A m \in DOMAIN rows : rows[m].conv \in Convs
    BY <2>1 DEF Row
  <2> QED
    BY <1>0, <2>2 DEF LiveOK, RowOK, Live, Lasting
<1>2. ShownOK'
  <2>1. \A o \in Operators : view[o] \in View
    BY <1>0 DEF WindowType
  <2>2. \A o \in Operators : view[o].conv \in Convs
    BY <2>1 DEF View
  <2>3. \A o \in Operators : Live(view[o].conv)'
    BY <1>0, <2>2, WorkerFrame, LiveLasts DEF LiveOK, ShownOK, window, Live,
       Lasting
  <2> QED
    BY <2>3 DEF ShownOK
<1>3. CASE ClaimInsert(w)
  <2>1. PICK c \in Convs :
          Exists(c) /\ rows' = Append(rows, [conv |-> c, safety |-> "none"])
    BY <1>3 DEF ClaimInsert
  <2>2. UNCHANGED conv
    BY <1>3 DEF ClaimInsert
  <2>3. Live(c)
    BY <1>0, <2>1 DEF LiveOK, ChildOK
  <2>4. \A m \in DOMAIN rows' : rows'[m].conv = c \/
          (m \in DOMAIN rows /\ rows'[m] = rows[m])
    BY <1>0, <2>1 DEF StoreType
  <2>5. RowOK'
    BY <1>1, <2>2, <2>3, <2>4 DEF RowOK, Live
  <2>6. ChildOK'
    BY <1>0, <2>2 DEF LiveOK, ChildOK, Exists, Live
  <2> QED
    BY <1>2, <2>5, <2>6 DEF LiveOK
<1>4. CASE ClaimBump(w)
  <2>1. mail[w] \in DOMAIN rows
    BY <1>0, <1>4 DEF ClaimBump, HandOK
  <2>2. Bump(rows[mail[w]].conv) /\ UNCHANGED rows
    BY <1>4 DEF ClaimBump
  <2>3. rows[mail[w]].conv \in Convs /\ Live(rows[mail[w]].conv)
    BY <1>0, <1>1, <2>1 DEF LiveOK, RowOK
  <2>4. ChildOK'
    BY <2>2, <2>3, BumpLive
  <2>5. RowOK'
    BY <1>1, <2>2 DEF RowOK, Live
  <2> QED
    BY <1>2, <2>4, <2>5 DEF LiveOK
<1>5. CASE Scan(w)
  <2>1. PICK s \in {"safe", "unsafe"} :
          rows' = [rows EXCEPT ![mail[w]].safety = s]
    BY <1>5 DEF Scan
  <2>2. mail[w] \in DOMAIN rows /\ UNCHANGED conv
    BY <1>0, <1>5 DEF Scan, HandOK
  <2>3. \A m \in DOMAIN rows : rows'[m].conv = rows[m].conv
    <3>1. \A m \in DOMAIN rows : rows[m] \in Row
      BY <1>0 DEF StoreType
    <3> QED
      BY <2>1, <3>1 DEF Row
  <2>4. DOMAIN rows' = DOMAIN rows
    BY <2>1
  <2>5. RowOK'
    BY <1>1, <2>3, <2>4 DEF RowOK, Live
  <2>6. ChildOK'
    BY <1>0, <2>2 DEF LiveOK, ChildOK, Exists, Live
  <2> QED
    BY <1>2, <2>5, <2>6 DEF LiveOK
<1>6. CASE ClaimAgain(w) \/ FailMail(w)
  <2>1. UNCHANGED store
    BY <1>6 DEF ClaimAgain, FailMail
  <2>2. ChildOK' /\ RowOK'
    BY <1>0, <2>1 DEF store, LiveOK, ChildOK, RowOK, Exists, Live
  <2> QED
    BY <1>2, <2>2 DEF LiveOK
<1> QED
  BY <1>3, <1>4, <1>5, <1>6 DEF WorkerAct

(* The parts make the whole after a step, too.                             *)
LEMMA TypePartsNext ==
  ASSUME WindowType', WorkerType', StoreType', CountType', PastType'
  PROVE  TypeOK'
  BY DEF TypeOK, WindowType, WorkerType, StoreType, CountType, PastType, Steps

(* Every step keeps the types.                                             *)
LEMMA TypeStep == TypeInv /\ [Next]_vars => TypeInv'
<1> SUFFICES ASSUME TypeInv, [Next]_vars PROVE TypeInv'
  OBVIOUS
<1>0. UNCHANGED bound
  BY StepCases
<1>1. ASSUME NEW o \in Operators, WindowAct(o)
      PROVE  TypeInv'
  <2>1. WindowType' /\ StoreType' /\ CountType' /\ PastType'
    BY <1>0, <1>1, WindowTypeStep, WindowStoreStep, WindowCountStep,
       WindowPastStep
  <2>2. WorkerType'
    BY <1>1, TypeFacts, WindowFrame DEF worker, WorkerType
  <2> QED
    BY <1>1, <2>1, <2>2, TypePartsNext, WindowFormStep, WindowLiveStep
       DEF TypeInv
<1>2. ASSUME NEW w \in Workers, WorkerAct(w)
      PROVE  TypeInv'
  <2>1. WindowType'
    BY <1>2, TypeFacts, WorkerFrame DEF window, WindowType
  <2>2. StoreType' /\ WorkerType' /\ CountType' /\ PastType' /\ HandOK'
    BY <1>0, <1>2, WorkerStoreStep, WorkerCountStep
  <2> QED
    BY <1>2, <2>1, <2>2, TypePartsNext, WorkerFormStep, WorkerLiveStep
       DEF TypeInv
<1>3. CASE UNCHANGED vars
  BY <1>3 DEF vars, window, worker, store, past, TypeInv, TypeOK, FormOK,
     FormAt, HandOK, LiveOK, ChildOK, ShownOK, RowOK, Live, Exists
<1> QED
  BY <1>1, <1>2, <1>3, StepCases

(* The tables, the windows' forms and the workers keep values their        *)
(* columns, parameters and locals may have.                                *)
THEOREM PortalTypeCorrect == Spec => []TypeOK
<1>1. TypeInv => TypeOK
  BY DEF TypeInv
<1> QED
  BY <1>1, TypeStarts, TypeStep, PTL DEF Spec

-----------------------------------------------------------------------------
(* A request is sent at most once.                                         *)

(* Who has inserted the message of a request and not yet sent it.          *)
Sending == {"bump", "send"}

(* Such a handler is the only one of its request, whose mail is not out,   *)
(* and the stored message says how it will go out.                         *)
SoleOK ==
  \A o, p \in Operators :
    /\ step[o] \in Sending /\ step[p] \in Sending
    /\ form[o].request = form[p].request
    => o = p
ComposedAt(o) ==
  step[o] \in Sending =>
    /\ message[form[o].request].action = form[o].action
    /\ message[form[o].request].id = MailId(o)
    /\ \A x \in outbox : x.request # form[o].request
ComposedOK == \A o \in Operators : ComposedAt(o)

(* A mail that went out has its message.                                   *)
OutOK == \A x \in outbox : message[x.request] # NoMessage

SentInv ==
  SoleOK /\ ComposedOK /\ OutOK /\ SentOnce /\ ForwardLandsInChild

(* Nothing is sent at first.                                               *)
LEMMA SentStarts == Init => SentInv
  BY DEF Init, SentInv, SoleOK, ComposedOK, ComposedAt, OutOK, SentOnce,
         ForwardLandsInChild, Sending

(* What is named by a mail that went out.                                  *)
LEMMA OutFacts ==
  ASSUME TypeInv, NEW x \in outbox
  PROVE  /\ x.request \in Requests /\ x.request \in Convs
         /\ x.id \in 1..MaxTries
  BY TypeFacts, Constant DEF PastType, PortalMail

(* What stays when the thread and the message stay.                        *)
LEMMA OutLasts ==
  ASSUME TypeInv, SentInv, Lasting, NEW x \in outbox
  PROVE  /\ message'[x.request] # NoMessage
         /\ message'[x.request].action = "forward" =>
              x.id = conv'[x.request].thread /\ x.id = message'[x.request].id
<1>1. message[x.request] # NoMessage
  BY DEF SentInv, OutOK
<1>2. message[x.request].action = "forward" =>
        x.id = conv[x.request].thread /\ x.id = message[x.request].id
  BY DEF SentInv, ForwardLandsInChild
<1>3. x.id # 0
  BY OutFacts
<1> QED
  BY <1>1, <1>2, <1>3, OutFacts DEF Lasting

(* What is composed stays until it is sent.                                *)
LEMMA ComposedLasts ==
  ASSUME TypeInv, SentInv, Lasting, NEW o \in Operators,
         step'[o] \in Sending, step[o] \in Sending, form'[o] = form[o],
         \A x \in outbox' : x \in outbox \/ x.request # form[o].request
  PROVE  ComposedAt(o)'
<1>1. ComposedAt(o) /\ FormAt(o)
  BY TypeFacts DEF SentInv, ComposedOK, FormOK
<1>2. form[o].request \in Requests /\ form[o].request \in Convs
  BY HandlerForm, Constant DEF Sending
<1>3. message[form[o].request] # NoMessage
  BY <1>1 DEF FormAt, Stored, Filed, Sending
<1>4. form[o].action = "forward" => conv[form[o].request].thread # 0
  BY <1>1 DEF FormAt, Filed, Sending
<1>5. MailId(o)' = MailId(o)
  BY <1>2, <1>4 DEF MailId, Lasting
<1> QED
  BY <1>1, <1>2, <1>3, <1>5 DEF ComposedAt, Lasting

(* A step that sends nothing and brings nobody to the point of sending.    *)
LEMMA QuietStep ==
  ASSUME TypeInv, SentInv, Lasting, UNCHANGED outbox,
         \A o \in Operators : step'[o] \in Sending =>
           step[o] \in Sending /\ form'[o] = form[o]
  PROVE  SentInv'
<1>1. SoleOK'
  BY DEF SentInv, SoleOK
<1>2. ComposedOK'
  <2>1. ASSUME NEW o \in Operators PROVE ComposedAt(o)'
    <3>1. CASE step'[o] \in Sending
      BY <3>1, ComposedLasts
    <3>2. CASE step'[o] \notin Sending
      BY <3>2 DEF ComposedAt
    <3> QED
      BY <3>1, <3>2
  <2> QED
    BY <2>1 DEF ComposedOK
<1>3. OutOK' /\ ForwardLandsInChild'
  BY OutLasts DEF OutOK, ForwardLandsInChild
<1>4. SentOnce'
  BY DEF SentInv, SentOnce
<1> QED
  BY <1>1, <1>2, <1>3, <1>4 DEF SentInv

(* The handler that inserts is the first of its request.                   *)
LEMMA InsertSent ==
  ASSUME TypeInv, SentInv, NEW o \in Operators, InsertMessage(o)
  PROVE  SentInv'
<1> DEFINE r == form[o].request
           new == [conv |-> Target(o), action |-> form[o].action,
                 status |-> "sending", id |-> MailId(o), saw |-> view[o],
                 known |-> known[o], quoted |-> quoted[o],
                 confirmed |-> form[o].confirmed]
<1>0. Lasting /\ WindowType /\ StoreType
  BY TypeFacts, WindowLasting DEF WindowAct, Handle
<1>1. UNCHANGED <<outbox, conv>>
  BY DEF InsertMessage, past
<1>2. CASE Return(o)
  <2>1. \A p \in Operators : step'[p] \in Sending =>
           step[p] \in Sending /\ form'[p] = form[p]
    BY <1>0, <1>2 DEF Return, WindowType, Sending
  <2> QED
    BY <1>0, <1>1, <2>1, QuietStep
<1>3. CASE ~Return(o)
  <2>1. /\ message[r] = NoMessage /\ message' = [message EXCEPT ![r] = new]
        /\ UNCHANGED form /\ Goto(o, "bump") /\ step[o] = "insert"
    BY <1>3 DEF InsertMessage
  <2>2. r \in Requests
    BY <2>1, HandlerForm
  <2>3. message'[r].action = form[o].action /\ message'[r].id = MailId(o)
    BY <1>0, <2>1, <2>2 DEF StoreType
  <2>4. \A p \in Operators : p # o => step'[p] = step[p]
    BY <1>0, <2>1 DEF Goto, WindowType
  <2>5. \A p \in Operators : step[p] \in Sending => form[p].request # r
    BY <2>1, TypeFacts DEF FormOK, FormAt, Stored, Filed, Sending
  <2>6. \A x \in outbox : x.request # r
    BY <2>1 DEF SentInv, OutOK
  <2>7. SoleOK'
    BY <2>1, <2>4, <2>5 DEF SentInv, SoleOK
  <2>8. ComposedAt(o)'
    BY <1>1, <2>1, <2>3, <2>6 DEF ComposedAt, MailId
  <2>9. \A p \in Operators : p # o => ComposedAt(p)'
    <3>1. ASSUME NEW p \in Operators, p # o PROVE ComposedAt(p)'
      <4>1. CASE step[p] \in Sending
        BY <1>0, <1>1, <2>1, <2>4, <3>1, <4>1, ComposedLasts
      <4>2. CASE step[p] \notin Sending
        BY <2>4, <3>1, <4>2 DEF ComposedAt
      <4> QED
        BY <4>1, <4>2
    <3> QED
      BY <3>1
  <2>10. OutOK' /\ ForwardLandsInChild'
    BY <1>0, <1>1, OutLasts DEF OutOK, ForwardLandsInChild
  <2>11. SentOnce'
    BY <1>1 DEF SentInv, SentOnce
  <2> QED
    BY <2>7, <2>8, <2>9, <2>10, <2>11 DEF SentInv, ComposedOK
<1> QED
  BY <1>2, <1>3

(* The one handler that may send does so once.                             *)
LEMMA SendSent ==
  ASSUME TypeInv, SentInv, NEW o \in Operators, SendComposed(o)
  PROVE  SentInv'
<1> DEFINE r == form[o].request
           x == [request |-> r, by |-> o, try |-> form[o].try,
                 id |-> MailId(o)]
<1>0. Lasting /\ WindowType
  BY TypeFacts, WindowLasting DEF WindowAct, Handle
<1>1. /\ step[o] = "send" /\ UNCHANGED <<form, conv, message>>
      /\ Goto(o, "sent") \/ Goto(o, "uncertain")
      /\ UNCHANGED outbox \/ outbox' = outbox \cup {x}
  BY DEF SendComposed, store, Accept
<1>2. step'[o] \notin Sending
      /\ \A p \in Operators : p # o => step'[p] = step[p]
  BY <1>0, <1>1 DEF Goto, WindowType, Sending
<1>3. SoleOK'
  BY <1>1, <1>2 DEF SentInv, SoleOK
<1>4. \A p \in Operators : ComposedAt(p)'
  <2>1. ASSUME NEW p \in Operators, step'[p] \in Sending
        PROVE  ComposedAt(p)'
    <3>1. p # o /\ step[p] \in Sending
      BY <1>2, <2>1
    <3>2. form[p].request # r
      BY <1>1, <3>1 DEF SentInv, SoleOK, Sending
    <3>3. \A y \in outbox' : y \in outbox \/ y.request # form[p].request
      BY <1>1, <3>2
    <3> QED
      BY <1>0, <1>1, <2>1, <3>1, <3>3, ComposedLasts
  <2> QED
    BY <2>1 DEF ComposedAt
<1>5. message[r] # NoMessage /\ ComposedAt(o)
  BY <1>1, TypeFacts DEF FormOK, FormAt, Stored, Filed, SentInv, ComposedOK
<1>6. OutOK'
  BY <1>1, <1>5 DEF SentInv, OutOK
<1>7. ForwardLandsInChild'
  BY <1>1, <1>5 DEF SentInv, ForwardLandsInChild, ComposedAt, Sending, MailId
<1>8. SentOnce'
  BY <1>1, <1>5 DEF SentInv, SentOnce, ComposedAt, Sending
<1> QED
  BY <1>3, <1>4, <1>6, <1>7, <1>8 DEF SentInv, ComposedOK

(* Every step keeps SentInv.                                               *)
LEMMA SentStep == TypeInv /\ SentInv /\ [Next]_vars => SentInv'
<1> SUFFICES ASSUME TypeInv, SentInv, [Next]_vars PROVE SentInv'
  OBVIOUS
<1>1. ASSUME NEW o \in Operators, WindowAct(o)
      PROVE  SentInv'
  <2>0. Lasting /\ WindowType
    BY <1>1, TypeFacts, WindowLasting
  <2>1. CASE InsertMessage(o) \/ SendComposed(o)
    BY <2>1, InsertSent, SendSent
  <2>2. CASE ~(InsertMessage(o) \/ SendComposed(o))
    <3>1. UNCHANGED outbox
      BY <1>1, <2>2 DEF WindowAct, Handle, OpenSummary, OpenTimeline, Submit,
         Check, LoadTimeline, CreateChild, BumpBegun, FinishMessage,
         BumpFinished, BumpSource, Interrupt, past
    <3>2. step'[o] \in Sending => step[o] \in Sending /\ form'[o] = form[o]
      <4>1. CASE OpenSummary(o) \/ OpenTimeline(o) \/ Submit(o)
        BY <2>0, <4>1 DEF OpenSummary, OpenTimeline, Submit, Goto, WindowType,
           Sending
      <4>2. CASE Check(o) \/ LoadTimeline(o) \/ CreateChild(o)
        BY <2>0, <4>2 DEF Check, LoadTimeline, CreateChild, Goto, Return,
           WindowType, Sending
      <4>3. CASE BumpBegun(o)
        BY <2>0, <4>3 DEF BumpBegun, Goto, WindowType, Sending
      <4>4. CASE FinishMessage(o) \/ BumpFinished(o) \/ BumpSource(o)
        BY <2>0, <4>4 DEF FinishMessage, BumpFinished, BumpSource, Goto,
           Return, WindowType, Sending
      <4>5. CASE Interrupt(o)
        BY <2>0, <4>5 DEF Interrupt, Return, WindowType, Sending
      <4> QED
        BY <1>1, <2>2, <4>1, <4>2, <4>3, <4>4, <4>5 DEF WindowAct, Handle
    <3>3. \A p \in Operators \ {o} : step'[p] = step[p] /\ form'[p] = form[p]
      BY <1>1, <2>0, WindowFrame
    <3> QED
      BY <2>0, <3>1, <3>2, <3>3, QuietStep
  <2> QED
    BY <2>1, <2>2
<1>2. ASSUME NEW w \in Workers, WorkerAct(w)
      PROVE  SentInv'
  BY <1>2, WorkerStoreStep, WorkerFrame, QuietStep DEF window
<1>3. CASE UNCHANGED vars
  BY <1>3, QuietStep DEF vars, window, store, past, Lasting
<1> QED
  BY <1>1, <1>2, <1>3, StepCases

(* SentInv with the types is an invariant.                                 *)
LEMMA SentAlways == Spec => [](TypeInv /\ SentInv)
  BY TypeStarts, TypeStep, SentStarts, SentStep, PTL DEF Spec

(* send_portal_message, begin_portal_message: however often a request is   *)
(* repeated, from any windows, with crashes and ambiguous sends, at most   *)
(* one mail goes out for it.                                               *)
THEOREM RequestIsSentOnce == Spec => []SentOnce
<1>1. SentInv => SentOnce
  BY DEF SentInv
<1> QED
  BY <1>1, SentAlways, PTL

(* create_child_conversation: the mail of a forward carries the thread id  *)
(* the child conversation keeps, whichever attempt created it.             *)
THEOREM ForwardIsFiled == Spec => []ForwardLandsInChild
<1>1. SentInv => ForwardLandsInChild
  BY DEF SentInv
<1> QED
  BY <1>1, SentAlways, PTL

-----------------------------------------------------------------------------
(* The status of a request is what became of it.                           *)

IsOut(r) == \E x \in outbox : x.request = r

(* A handler that has yet to write the status will find its row, and knows *)
(* of the mail it is about to call sent.                                   *)
HeldAt(o) ==
  step[o] \in Unfinished =>
    /\ message[form[o].request].conv = Target(o)
    /\ step[o] = "sent" => IsOut(form[o].request)
HeldOK == \A o \in Operators : HeldAt(o)

(* Somebody will write the status of a request, or was cut off.            *)
Pending(r) == r \in cut \/ \E o \in Handling(r) : step[o] \in Unfinished
TrueAt(r) ==
  /\ message[r].status = "sent" => IsOut(r)
  /\ message[r].status = "sending" => Pending(r)
  /\ message[r].status = "none" => ~IsOut(r)

StatusInv == HeldOK /\ \A r \in Requests : TrueAt(r)

(* The property is a part of the invariant.                                *)
LEMMA StatusMeans == StatusInv => StatusIsTrue
  BY DEF StatusInv, TrueAt, StatusIsTrue, IsOut, Pending

(* Nothing is begun at first.                                              *)
LEMMA StatusStarts == Init => StatusInv
  BY DEF Init, StatusInv, HeldOK, HeldAt, TrueAt, IsOut, NoMessage,
         Unfinished

(* A handler that has yet to write the status has a row.                   *)
LEMMA HolderHas ==
  ASSUME TypeInv, NEW o \in Operators, step[o] \in Unfinished
  PROVE  /\ form[o].request \in Requests
         /\ message[form[o].request] # NoMessage
         /\ message[form[o].request].status # "none"
<1>1. /\ form[o].request \in Requests
      /\ message[form[o].request] # NoMessage
  BY HandlerForm, TypeFacts DEF Unfinished, FormOK, FormAt, Stored, Filed
<1>2. message[form[o].request] \in Message
  BY <1>1, TypeFacts DEF StoreType
<1> QED
  BY <1>1, <1>2 DEF Message

(* A handler that goes on keeps what it holds.                             *)
LEMMA HeldLasts ==
  ASSUME TypeInv, StatusInv, Lasting, NEW o \in Operators,
         outbox \subseteq outbox',
         step'[o] \in Unfinished =>
           /\ step[o] \in Unfinished
           /\ form'[o] = form[o] /\ view'[o] = view[o]
           /\ step'[o] = "sent" => step[o] = "sent"
  PROVE  HeldAt(o)'
<1> SUFFICES ASSUME step'[o] \in Unfinished PROVE HeldAt(o)'
  BY DEF HeldAt
<1>1. HeldAt(o) /\ step[o] \in Unfinished
  BY DEF StatusInv, HeldOK
<1>2. message'[form[o].request].conv = message[form[o].request].conv
  BY <1>1, HolderHas DEF Lasting
<1>3. Target(o)' = Target(o)
  BY DEF Target
<1> QED
  BY <1>1, <1>2, <1>3 DEF HeldAt, IsOut

(* Who has yet to write the status of a request, after a step of another   *)
(* or a step that goes on.                                                 *)
LEMMA PendingLasts ==
  ASSUME NEW r, Pending(r), cut \subseteq cut',
         \A o \in Operators : step[o] \in Unfinished /\ form[o].request = r =>
           \/ step'[o] \in Unfinished /\ form'[o] = form[o]
           \/ r \in cut'
  PROVE  Pending(r)'
  BY DEF Pending, Handling

(* A step that writes no message and sends nothing, and after which who    *)
(* had yet to write a status still has, or was cut off.                    *)
LEMMA StatusQuiet ==
  ASSUME TypeInv, StatusInv, Lasting, UNCHANGED <<message, outbox>>,
         cut \subseteq cut',
         \A o \in Operators : step'[o] \in Unfinished =>
           /\ step[o] \in Unfinished
           /\ form'[o] = form[o] /\ view'[o] = view[o]
           /\ step'[o] = "sent" => step[o] = "sent",
         \A o \in Operators : step[o] \in Unfinished =>
           \/ step'[o] \in Unfinished /\ form'[o] = form[o]
           \/ form[o].request \in cut'
  PROVE  StatusInv'
<1>1. HeldOK'
  BY HeldLasts DEF HeldOK
<1>2. ASSUME NEW r \in Requests PROVE TrueAt(r)'
  <2>1. Pending(r) => Pending(r)'
    BY PendingLasts
  <2> QED
    BY <2>1 DEF StatusInv, TrueAt, IsOut
<1> QED
  BY <1>1, <1>2 DEF StatusInv

(* Whoever inserts the message is about to write its status.               *)
LEMMA InsertStatus ==
  ASSUME TypeInv, SentInv, StatusInv, NEW o \in Operators, InsertMessage(o)
  PROVE  StatusInv'
<1> DEFINE r0 == form[o].request
           new == [conv |-> Target(o), action |-> form[o].action,
                 status |-> "sending", id |-> MailId(o), saw |-> view[o],
                 known |-> known[o], quoted |-> quoted[o],
                 confirmed |-> form[o].confirmed]
<1>0. Lasting /\ WindowType /\ StoreType
  BY TypeFacts, WindowLasting DEF WindowAct, Handle
<1>1. UNCHANGED <<view, outbox, cut>> /\ step[o] = "insert"
  BY DEF InsertMessage, past
<1>2. \A p \in Operators \ {o} :
        step'[p] = step[p] /\ form'[p] = form[p] /\ view'[p] = view[p]
  BY <1>0, WindowFrame DEF WindowAct, Handle
<1>3. step[o] \notin Unfinished
  BY <1>1 DEF Unfinished
<1>4. CASE Return(o)
  <2>1. UNCHANGED message \/ message[r0] = NoMessage
    BY DEF InsertMessage
  <2>2. step'[o] = "idle"
    BY <1>0, <1>4 DEF Return, WindowType
  <2>3. step'[o] \notin Unfinished
    BY <2>2 DEF Unfinished
  <2>4. UNCHANGED message
    BY <1>0, <1>4, <2>2 DEF InsertMessage, Goto, WindowType
  <2> QED
    BY <1>0, <1>1, <1>2, <1>3, <2>3, <2>4, StatusQuiet
<1>5. CASE ~Return(o)
  <2>1. /\ message[r0] = NoMessage /\ message' = [message EXCEPT ![r0] = new]
        /\ UNCHANGED form /\ Goto(o, "bump")
    BY <1>5 DEF InsertMessage
  <2>2. r0 \in Requests
    BY <1>1, HandlerForm
  <2>3. message'[r0].status = "sending" /\ message'[r0].conv = Target(o)
    BY <1>0, <2>1, <2>2 DEF StoreType
  <2>4. step'[o] = "bump" /\ step'[o] \in Unfinished
    BY <1>0, <2>1 DEF Goto, WindowType, Unfinished
  <2>5. HeldAt(o)'
    BY <1>1, <2>1, <2>3, <2>4 DEF HeldAt, Target
  <2>6. HeldOK'
    <3>1. ASSUME NEW p \in Operators, p # o PROVE HeldAt(p)'
      BY <1>0, <1>1, <1>2, <3>1, HeldLasts
    <3> QED
      BY <2>5, <3>1 DEF HeldOK
  <2>7. TrueAt(r0)'
    BY <2>1, <2>3, <2>4 DEF TrueAt, Pending, Handling
  <2>8. ASSUME NEW r \in Requests, r # r0 PROVE TrueAt(r)'
    <3>1. message'[r] = message[r]
      BY <1>0, <2>1, <2>8 DEF StoreType
    <3>2. Pending(r) => Pending(r)'
      BY <1>1, <1>2, <1>3, PendingLasts
    <3>3. IsOut(r)' <=> IsOut(r)
      BY <1>1 DEF IsOut
    <3>4. TrueAt(r)
      BY DEF StatusInv
    <3> QED
      BY <3>1, <3>2, <3>3, <3>4 DEF TrueAt
  <2> QED
    BY <2>1, <2>6, <2>7, <2>8 DEF StatusInv
<1> QED
  BY <1>4, <1>5

(* Whoever calls the message sent has sent it.                             *)
LEMMA SendStatus ==
  ASSUME TypeInv, SentInv, StatusInv, NEW o \in Operators, SendComposed(o)
  PROVE  StatusInv'
<1> DEFINE r0 == form[o].request
           x == [request |-> r0, by |-> o, try |-> form[o].try,
                 id |-> MailId(o)]
<1>0. Lasting /\ WindowType
  BY TypeFacts, WindowLasting DEF WindowAct, Handle
<1>1. /\ step[o] = "send" /\ UNCHANGED <<form, view, message, cut>>
      /\ \/ Goto(o, "sent") /\ outbox' = outbox \cup {x}
         \/ /\ Goto(o, "uncertain")
            /\ UNCHANGED outbox \/ outbox' = outbox \cup {x}
  BY DEF SendComposed, store, Accept
<1>2. /\ step[o] \in Unfinished /\ step'[o] \in Unfinished
      /\ step'[o] \in {"sent", "uncertain"}
      /\ \A p \in Operators : p # o => step'[p] = step[p]
  BY <1>0, <1>1 DEF Goto, WindowType, Unfinished
<1>3. outbox \subseteq outbox' /\ (step'[o] = "sent" => IsOut(r0)')
  <2>1. step'[o] = "sent" => outbox' = outbox \cup {x}
    BY <1>0, <1>1 DEF Goto, WindowType
  <2>2. x.request = r0 /\ UNCHANGED r0
    BY <1>1
  <2> HIDE DEF r0, x
  <2>3. outbox \subseteq outbox'
    BY <1>1
  <2>4. step'[o] = "sent" => \E y \in outbox' : y.request = r0
    BY <2>1, <2>2
  <2> QED
    BY <2>2, <2>3, <2>4 DEF IsOut
<1>4. HeldOK'
  <2>1. HeldAt(o)'
    <3>1. message[r0].conv = Target(o)
      BY <1>2 DEF StatusInv, HeldOK, HeldAt
    <3>2. Target(o)' = Target(o)
      BY <1>1 DEF Target
    <3> QED
      BY <1>1, <1>3, <3>1, <3>2 DEF HeldAt
  <2>2. ASSUME NEW p \in Operators, p # o PROVE HeldAt(p)'
    BY <1>0, <1>1, <1>2, <1>3, <2>2, HeldLasts
  <2> QED
    BY <2>1, <2>2 DEF HeldOK
<1>5. ASSUME NEW r \in Requests PROVE TrueAt(r)'
  <2>1. Pending(r) => Pending(r)'
    BY <1>1, <1>2, PendingLasts
  <2>2. message[r].status = "none" => r # r0
    BY <1>2, HolderHas
  <2>3. r # r0 => (IsOut(r)' => IsOut(r))
    BY <1>1 DEF IsOut
  <2>4. IsOut(r) => IsOut(r)'
    BY <1>3 DEF IsOut
  <2> QED
    BY <1>1, <2>1, <2>2, <2>3, <2>4 DEF StatusInv, TrueAt
<1> QED
  BY <1>4, <1>5 DEF StatusInv

(* The final status finds its row.                                         *)
LEMMA FinishStatus ==
  ASSUME TypeInv, SentInv, StatusInv, NEW o \in Operators, FinishMessage(o)
  PROVE  StatusInv'
<1> DEFINE r0 == form[o].request
<1>0. Lasting /\ WindowType /\ StoreType
  BY TypeFacts, WindowLasting DEF WindowAct, Handle
<1>1. /\ step[o] \in {"sent", "uncertain"} /\ Goto(o, "bumpDone")
      /\ UNCHANGED <<view, form, outbox, cut>>
  BY DEF FinishMessage, past
<1>2. /\ step[o] \in Unfinished /\ step'[o] \notin Unfinished
      /\ \A p \in Operators : p # o => step'[p] = step[p]
  BY <1>0, <1>1 DEF Goto, WindowType, Unfinished
<1>3. r0 \in Requests /\ message[r0] \in Message \ {NoMessage}
  BY <1>0, <1>2, HolderHas DEF StoreType
<1>4. /\ message[r0].conv = Target(o)
      /\ step[o] = "sent" => IsOut(r0)
  BY <1>2 DEF StatusInv, HeldOK, HeldAt
<1>5. message' = [message EXCEPT ![r0] =
                    [message[r0] EXCEPT !.status = step[o]]]
  BY <1>4 DEF FinishMessage
<1>6. message'[r0].status = step[o]
  BY <1>0, <1>3, <1>5 DEF StoreType, Message
<1>7. HeldOK'
  BY <1>0, <1>1, <1>2, HeldLasts DEF HeldOK
<1>8. TrueAt(r0)'
  BY <1>1, <1>4, <1>6 DEF TrueAt, IsOut
<1>9. ASSUME NEW r \in Requests, r # r0 PROVE TrueAt(r)'
  <2>1. message'[r] = message[r]
    BY <1>0, <1>5, <1>9 DEF StoreType
  <2>2. Pending(r) => Pending(r)'
    BY <1>1, <1>2, <1>9, PendingLasts
  <2>3. IsOut(r)' <=> IsOut(r)
    BY <1>1 DEF IsOut
  <2>4. TrueAt(r)
    BY DEF StatusInv
  <2> QED
    BY <2>1, <2>2, <2>3, <2>4 DEF TrueAt
<1> QED
  BY <1>1, <1>7, <1>8, <1>9 DEF StatusInv

(* The other steps of a window.                                            *)
LEMMA OtherStatus ==
  ASSUME TypeInv, SentInv, StatusInv, NEW o \in Operators, WindowAct(o),
         ~(InsertMessage(o) \/ SendComposed(o) \/ FinishMessage(o))
  PROVE  StatusInv'
<1>0. Lasting /\ WindowType
  BY TypeFacts, WindowLasting
<1>1. \A p \in Operators \ {o} :
        step'[p] = step[p] /\ form'[p] = form[p] /\ view'[p] = view[p]
  BY <1>0, WindowFrame
<1>2. /\ UNCHANGED <<message, outbox>> /\ cut \subseteq cut'
      /\ step'[o] \in Unfinished =>
           /\ step[o] \in Unfinished
           /\ form'[o] = form[o] /\ view'[o] = view[o]
           /\ step'[o] = "sent" => step[o] = "sent"
      /\ step[o] \in Unfinished =>
           \/ step'[o] \in Unfinished /\ form'[o] = form[o]
           \/ form[o].request \in cut'
  <2>1. CASE OpenSummary(o) \/ OpenTimeline(o) \/ Submit(o)
    BY <1>0, <2>1 DEF OpenSummary, OpenTimeline, Submit, Goto, WindowType,
       Unfinished, store, past
  <2>2. CASE Check(o) \/ LoadTimeline(o) \/ CreateChild(o)
    BY <1>0, <2>2 DEF Check, LoadTimeline, CreateChild, Goto, Return,
       WindowType, Unfinished, store, past
  <2>3. CASE BumpBegun(o)
    BY <1>0, <2>3 DEF BumpBegun, Goto, WindowType, Unfinished, past
  <2>4. CASE BumpFinished(o) \/ BumpSource(o)
    BY <1>0, <2>4 DEF BumpFinished, BumpSource, Goto, Return, WindowType,
       Unfinished, past
  <2>5. CASE Interrupt(o)
    BY <1>0, <2>5 DEF Interrupt, Return, WindowType, Unfinished, store
  <2> QED
    BY <2>1, <2>2, <2>3, <2>4, <2>5 DEF WindowAct, Handle
<1> QED
  BY <1>0, <1>1, <1>2, StatusQuiet

(* Every step keeps StatusInv.                                             *)
LEMMA StatusStep ==
  TypeInv /\ SentInv /\ StatusInv /\ [Next]_vars => StatusInv'
<1> SUFFICES ASSUME TypeInv, SentInv, StatusInv, [Next]_vars
             PROVE  StatusInv'
  OBVIOUS
<1>1. ASSUME NEW o \in Operators, WindowAct(o)
      PROVE  StatusInv'
  BY <1>1, InsertStatus, SendStatus, FinishStatus, OtherStatus
<1>2. ASSUME NEW w \in Workers, WorkerAct(w)
      PROVE  StatusInv'
  BY <1>2, WorkerStoreStep, WorkerFrame, StatusQuiet DEF window
<1>3. CASE UNCHANGED vars
  BY <1>3, StatusQuiet DEF vars, window, store, past, Lasting
<1> QED
  BY <1>1, <1>2, <1>3, StepCases

(* send_portal_message, finish_portal_message: a message called sent is    *)
(* out, one left in sending has a handler or lost it after the insert, and *)
(* nothing is out without its row.                                         *)
THEOREM StatusTellsTruth == Spec => []StatusIsTrue
<1>1. Init => TypeInv /\ SentInv /\ StatusInv
  BY TypeStarts, SentStarts, StatusStarts
<1>2. /\ TypeInv /\ SentInv /\ StatusInv /\ [Next]_vars
      => (TypeInv /\ SentInv /\ StatusInv)'
  BY TypeStep, SentStep, StatusStep
<1> QED
  BY <1>1, <1>2, StatusMeans, PTL DEF Spec

-----------------------------------------------------------------------------
(* Who passes the check has seen what was claimed before it.               *)

(* The mails of a conversation whose claim is complete: the revision has   *)
(* been moved for them.                                                    *)
Claimed(c) == MailsOf(c) \ behind

(* A window whose revision is still the conversation's shows all of them,  *)
(* and what its handler noted at the check was shown.                      *)
ViewAt(o) ==
  LET c == view[o].conv IN
  /\ view[o].revision <= conv[c].revision
  /\ view[o].revision = conv[c].revision /\ step[o] # "open" =>
       Claimed(c) \subseteq view[o].mails
KnownAt(o) ==
  /\ known[o] \subseteq view[o].mails
  /\ step[o] \in {"idle", "open"} => known[o] = {}

ScreenOK == \A o \in Operators : ViewAt(o) /\ KnownAt(o)

SeenInv == SeenWhatWasClaimed /\ ScreenOK

(* A window that shows nothing answers nothing.                            *)
LEMMA SeenStarts == Init => SeenInv
<1> SUFFICES ASSUME Init PROVE SeenInv
  OBVIOUS
<1>1. SeenWhatWasClaimed
  BY DEF Init, SeenWhatWasClaimed, NoMessage
<1>2. \A o \in Operators : ViewAt(o)
  BY Constant DEF Init, ViewAt, NoView
<1>3. \A o \in Operators : KnownAt(o)
  BY DEF Init, KnownAt
<1> QED
  BY <1>1, <1>2, <1>3 DEF SeenInv, ScreenOK

(* A revision only grows, and while it stays no mail becomes claimed.      *)
Grown ==
  \A c \in Convs :
    /\ conv[c].revision <= conv'[c].revision
    /\ conv'[c].revision = conv[c].revision =>
         Claimed(c)' \subseteq Claimed(c)

(* Revisions are numbers.                                                  *)
LEMMA ConvRevision ==
  ASSUME StoreType, NEW c \in Convs
  PROVE  conv[c].revision \in Nat
  BY DEF StoreType

(* Revisions grow, under a window's step.                                  *)
LEMMA WindowGrown ==
  ASSUME TypeInv, NEW o \in Operators, WindowAct(o)
  PROVE  Grown /\ UNCHANGED behind
<1>0. StoreType
  BY TypeFacts
<1>1. UNCHANGED <<rows, behind>>
  BY DEF WindowAct, Handle, OpenSummary, OpenTimeline, Submit, Check,
         LoadTimeline, CreateChild, InsertMessage, BumpBegun, SendComposed,
         FinishMessage, BumpFinished, BumpSource, Interrupt, store, past
<1>2. \A c \in Convs : Claimed(c)' = Claimed(c)
  BY <1>1 DEF Claimed, MailsOf
<1>3. \A c \in Convs : conv[c].revision <= conv'[c].revision
  <2>1. CASE CreateChild(o)
    <3>1. form[o].request \in Convs
      BY <2>1, HandlerForm, Constant DEF CreateChild
    <3>2. CASE UNCHANGED conv
      BY <1>0, <3>2, ConvRevision
    <3>3. CASE /\ ~Exists(form[o].request)
               /\ conv' = [conv EXCEPT ![form[o].request] =
                    [revision |-> 0, thread |-> form[o].try]]
      <4>1. conv[form[o].request].revision = 0
        BY <3>3 DEF Exists, NoConv
      <4> QED
        BY <1>0, <3>1, <3>3, <4>1, ConvRevision DEF StoreType
    <3> QED
      BY <2>1, <3>2, <3>3 DEF CreateChild
  <2>2. CASE BumpBegun(o) \/ BumpFinished(o) \/ BumpSource(o)
    <3>1. PICK c \in Convs : Bump(c)
      BY <2>2, HandlerForm DEF BumpBegun, BumpFinished, BumpSource
    <3> QED
      BY <1>0, <3>1, BumpType, ConvRevision
  <2>3. CASE \/ OpenSummary(o) \/ OpenTimeline(o) \/ Submit(o) \/ Check(o)
             \/ LoadTimeline(o) \/ InsertMessage(o) \/ SendComposed(o)
             \/ FinishMessage(o) \/ Interrupt(o)
    <3>1. UNCHANGED conv
      BY <2>3 DEF OpenSummary, OpenTimeline, Submit, Check, LoadTimeline,
                  InsertMessage, SendComposed, FinishMessage, Interrupt, store
    <3> QED
      BY <1>0, <3>1, ConvRevision
  <2> QED
    BY <2>1, <2>2, <2>3 DEF WindowAct, Handle
<1> QED
  BY <1>1, <1>2, <1>3 DEF Grown

(* Revisions grow with what becomes claimed, under a worker's step.        *)
LEMMA WorkerGrown ==
  ASSUME TypeInv, NEW w \in Workers, WorkerAct(w)
  PROVE  Grown
<1> USE TypeFacts
<1>0. StoreType /\ HandOK /\ DOMAIN rows = 1..Len(rows)
  OBVIOUS
<1>1. CASE ClaimInsert(w)
  <2>1. PICK c \in Convs :
          rows' = Append(rows, [conv |-> c, safety |-> "none"])
    BY <1>1 DEF ClaimInsert
  <2>2. UNCHANGED conv /\ behind' = behind \cup {Len(rows) + 1}
    BY <1>1 DEF ClaimInsert
  <2>3. \A m \in DOMAIN rows' : m = Len(rows) + 1 \/
          (m \in DOMAIN rows /\ rows'[m] = rows[m])
    BY <1>0, <2>1 DEF StoreType
  <2>4. \A d \in Convs : Claimed(d)' \subseteq Claimed(d)
    BY <2>2, <2>3 DEF Claimed, MailsOf
  <2> QED
    BY <1>0, <2>2, <2>4, ConvRevision DEF Grown
<1>2. CASE ClaimBump(w)
  <2> DEFINE c == rows[mail[w]].conv
  <2>1. mail[w] \in DOMAIN rows
    BY <1>0, <1>2 DEF ClaimBump, HandOK
  <2>2. c \in Convs
    <3>1. rows[mail[w]] \in Row
      BY <1>0, <2>1 DEF StoreType
    <3> QED
      BY <3>1 DEF Row
  <2>3. Bump(c) /\ UNCHANGED rows /\ behind' = behind \ {mail[w]}
    BY <1>2 DEF ClaimBump
  <2>4. \A d \in Convs \ {c} : Claimed(d)' \subseteq Claimed(d)
    BY <2>1, <2>3 DEF Claimed, MailsOf
  <2>5. /\ \A d \in Convs \ {c} : conv'[d] = conv[d]
        /\ conv'[c].revision = conv[c].revision + 1
    BY <1>0, <2>2, <2>3, BumpType
  <2>6. \A d \in Convs : conv[d].revision \in Nat
    BY <1>0, ConvRevision
  <2> HIDE DEF c
  <2> QED
    BY <2>2, <2>4, <2>5, <2>6 DEF Grown
<1>3. CASE Scan(w)
  <2>1. PICK s \in {"safe", "unsafe"} :
          rows' = [rows EXCEPT ![mail[w]].safety = s]
    BY <1>3 DEF Scan
  <2>2. \A m \in DOMAIN rows : rows'[m].conv = rows[m].conv
    <3>1. \A m \in DOMAIN rows : rows[m] \in Row
      BY <1>0 DEF StoreType
    <3> QED
      BY <2>1, <3>1 DEF Row
  <2>3. DOMAIN rows' = DOMAIN rows
    BY <2>1
  <2>4. UNCHANGED <<conv, behind>>
    BY <1>3 DEF Scan, past
  <2>5. \A d \in Convs : Claimed(d)' = Claimed(d)
    BY <2>2, <2>3, <2>4 DEF Claimed, MailsOf
  <2> QED
    BY <1>0, <2>4, <2>5, ConvRevision DEF Grown
<1>4. CASE ClaimAgain(w) \/ FailMail(w)
  <2>1. UNCHANGED <<conv, rows, behind>>
    BY <1>4 DEF ClaimAgain, FailMail, store, past
  <2> QED
    BY <1>0, <2>1, ConvRevision DEF Grown, Claimed, MailsOf
<1> QED
  BY <1>1, <1>2, <1>3, <1>4 DEF WorkerAct

(* A screen that was whole or outdated stays so.                           *)
LEMMA ViewLasts ==
  ASSUME TypeInv, StoreType', Grown, NEW o \in Operators, ViewAt(o),
         view'[o] = view[o], step'[o] # "open" => step[o] # "open"
  PROVE  ViewAt(o)'
<1>1. view[o] \in View
  BY TypeFacts DEF WindowType
<1>2. view[o].conv \in Convs /\ view[o].revision \in Nat
  BY <1>1 DEF View
<1>3. /\ conv[view[o].conv].revision \in Nat
      /\ conv'[view[o].conv].revision \in Nat
  BY <1>2, TypeFacts DEF StoreType
<1>4. /\ conv[view[o].conv].revision <= conv'[view[o].conv].revision
      /\ conv'[view[o].conv].revision = conv[view[o].conv].revision =>
         \A m : m \in MailsOf(view[o].conv)' /\ m \notin behind' =>
           m \in Claimed(view[o].conv)
  BY <1>2 DEF Grown, Claimed
<1> QED
  BY <1>2, <1>3, <1>4 DEF ViewAt, Claimed

(* A step that leaves the window of o as it is, or that of its handler     *)
(* which goes on or returns.                                               *)
LEMMA ScreenLasts ==
  ASSUME TypeInv, ScreenOK, StoreType', Grown, NEW o \in Operators,
         view'[o] = view[o],
         \/ step'[o] = step[o] /\ known'[o] = known[o]
         \/ /\ step'[o] # "open" /\ step[o] # "open"
            /\ \/ known'[o] = {}
               \/ step'[o] # "idle" /\ known'[o] = known[o]
  PROVE  ViewAt(o)' /\ KnownAt(o)'
<1>1. ViewAt(o) /\ KnownAt(o)
  BY DEF ScreenOK
<1>2. ViewAt(o)'
  BY <1>1, ViewLasts
<1>3. KnownAt(o)'
  BY <1>1 DEF KnownAt
<1> QED
  BY <1>2, <1>3

(* The window's own step.                                                  *)
LEMMA WindowScreen ==
  ASSUME TypeInv, ScreenOK, StoreType', NEW o \in Operators, WindowAct(o)
  PROVE  ViewAt(o)' /\ KnownAt(o)'
<1>0. WindowType /\ StoreType /\ ViewAt(o) /\ KnownAt(o)
      /\ Grown /\ UNCHANGED behind
  BY TypeFacts, WindowGrown DEF ScreenOK
<1>1. CASE OpenSummary(o)
  <2>1. PICK c \in Convs : view' = [view EXCEPT ![o] =
          [conv |-> c, revision |-> conv[c].revision, mails |-> {}]]
    BY <1>1 DEF OpenSummary
  <2>2. /\ step[o] = "idle" /\ step'[o] = "open"
        /\ UNCHANGED <<conv, known>>
    BY <1>0, <1>1 DEF OpenSummary, Goto, WindowType, store
  <2>3. view'[o].conv = c /\ view'[o].revision = conv[c].revision
    BY <1>0, <2>1 DEF WindowType
  <2>4. conv[c].revision \in Nat
    BY <1>0, ConvRevision
  <2> QED
    BY <1>0, <2>2, <2>3, <2>4 DEF ViewAt, KnownAt
<1>2. CASE OpenTimeline(o)
  <2>1. view' = [view EXCEPT ![o].mails = MailsOf(view[o].conv)]
    BY <1>2 DEF OpenTimeline
  <2>2. /\ step[o] = "open" /\ UNCHANGED <<conv, rows, behind, known>>
    BY <1>2 DEF OpenTimeline, store, past
  <2>3. view[o] \in View
    BY <1>0 DEF WindowType
  <2>4. /\ view'[o].conv = view[o].conv /\ view'[o].revision = view[o].revision
        /\ view'[o].mails = MailsOf(view[o].conv)
    BY <1>0, <2>1, <2>3 DEF WindowType, View
  <2>5. Claimed(view[o].conv)' \subseteq MailsOf(view'[o].conv)
    BY <2>2 DEF Claimed, MailsOf
  <2>6. Claimed(view[o].conv)' \subseteq view'[o].mails
    BY <2>4, <2>5
  <2>7. ViewAt(o)'
    BY <1>0, <2>2, <2>4, <2>6 DEF ViewAt
  <2>8. KnownAt(o)'
    BY <1>0, <2>2 DEF KnownAt
  <2> QED
    BY <2>7, <2>8
<1>3. CASE Check(o)
  <2>1. /\ step[o] = "check" /\ UNCHANGED <<view, store, behind>>
    BY <1>3 DEF Check
  <2>2. CASE MayAnswer(o)
    <3>1. /\ known'[o] = Claimed(view[o].conv) /\ step'[o] = "load"
      BY <1>0, <1>3, <2>2 DEF Check, Goto, WindowType, Claimed
    <3>2. view[o].revision = conv[view[o].conv].revision
      BY <2>2 DEF MayAnswer
    <3>3. known'[o] \subseteq view'[o].mails
      BY <1>0, <2>1, <3>1, <3>2 DEF ViewAt
    <3>4. KnownAt(o)'
      BY <3>1, <3>3 DEF KnownAt
    <3>5. ViewAt(o)'
      BY <1>0, <2>1, <3>1, ViewLasts
    <3> QED
      BY <3>4, <3>5
  <2>3. CASE ~MayAnswer(o)
    <3>1. step'[o] = "idle" /\ known'[o] = {}
      BY <1>0, <1>3, <2>3 DEF Check, Return, WindowType
    <3> QED
      BY <1>0, <2>1, <3>1, ScreenLasts
  <2> QED
    BY <2>2, <2>3
<1>4. CASE ~(OpenSummary(o) \/ OpenTimeline(o) \/ Check(o))
  <2>1. UNCHANGED view
    BY <1>4 DEF WindowAct, Handle, Submit, LoadTimeline, CreateChild,
       InsertMessage, BumpBegun, SendComposed, FinishMessage, BumpFinished,
       BumpSource, Interrupt
  <2>2. step[o] # "open"
    BY <1>4 DEF WindowAct, Handle, Submit, LoadTimeline, CreateChild,
       InsertMessage, BumpBegun, SendComposed, FinishMessage, BumpFinished,
       BumpSource, Interrupt
  <2>3. \/ Return(o)
        \/ UNCHANGED known /\ \E s \in Steps \ {"idle", "open"} : Goto(o, s)
    <3>1. CASE Submit(o) \/ LoadTimeline(o) \/ CreateChild(o)
      BY <3>1 DEF Submit, LoadTimeline, CreateChild, Steps
    <3>2. CASE InsertMessage(o) \/ BumpBegun(o) \/ SendComposed(o)
      BY <3>2 DEF InsertMessage, BumpBegun, SendComposed, Steps
    <3>3. CASE FinishMessage(o) \/ BumpFinished(o)
      BY <3>3 DEF FinishMessage, BumpFinished, Steps
    <3>4. CASE BumpSource(o) \/ Interrupt(o)
      BY <3>4 DEF BumpSource, Interrupt
    <3> QED
      BY <1>4, <3>1, <3>2, <3>3, <3>4 DEF WindowAct, Handle
  <2>4. \/ step'[o] = "idle" /\ known'[o] = {}
        \/ step'[o] \notin {"idle", "open"} /\ known'[o] = known[o]
    BY <1>0, <2>3 DEF Return, Goto, WindowType
  <2> QED
    BY <1>0, <2>1, <2>2, <2>4, ScreenLasts
<1> QED
  BY <1>1, <1>2, <1>3, <1>4

(* The stored message keeps what its handler knew and saw.                 *)
LEMMA MessageSeen ==
  ASSUME TypeInv, SeenInv, NEW o \in Operators, WindowAct(o)
  PROVE  SeenWhatWasClaimed'
<1>0. StoreType /\ Lasting /\ ScreenOK
  BY TypeFacts, WindowLasting DEF SeenInv
<1>1. CASE InsertMessage(o)
  <2> DEFINE r == form[o].request
             new == [conv |-> Target(o), action |-> form[o].action,
                 status |-> "sending", id |-> MailId(o), saw |-> view[o],
                 known |-> known[o], quoted |-> quoted[o],
                 confirmed |-> form[o].confirmed]
  <2>1. UNCHANGED message \/ message' = [message EXCEPT ![r] = new]
    BY <1>1 DEF InsertMessage
  <2>2. new.known \subseteq new.saw.mails
    BY <1>0 DEF ScreenOK, KnownAt
  <2> HIDE DEF new
  <2> QED
    BY <1>0, <2>1, <2>2 DEF StoreType, SeenInv, SeenWhatWasClaimed
<1>2. CASE ~InsertMessage(o)
  <2>1. ASSUME NEW r \in Requests
        PROVE  message'[r].known = message[r].known
               /\ message'[r].saw = message[r].saw
    <3>1. CASE FinishMessage(o)
      <4>1. form[o].request \in Requests
            /\ message[form[o].request] # NoMessage
        BY <3>1, HandlerForm, TypeFacts
           DEF FinishMessage, FormOK, FormAt, Stored, Filed
      <4>2. CASE r = form[o].request
        BY <1>0, <4>1, <4>2 DEF Lasting
      <4>3. CASE r # form[o].request
        BY <1>0, <3>1, <4>3 DEF FinishMessage, StoreType
      <4> QED
        BY <4>2, <4>3
    <3>2. CASE ~FinishMessage(o)
      <4>1. UNCHANGED message
        BY <1>2, <3>2 DEF WindowAct, Handle, OpenSummary, OpenTimeline,
           Submit, Check, LoadTimeline, CreateChild, BumpBegun, SendComposed,
           BumpFinished, BumpSource, Interrupt, store
      <4> QED
        BY <4>1
    <3> QED
      BY <3>1, <3>2
  <2> QED
    BY <2>1 DEF SeenInv, SeenWhatWasClaimed
<1> QED
  BY <1>1, <1>2

(* Every step keeps SeenInv.                                               *)
LEMMA SeenStep == TypeInv /\ SeenInv /\ [Next]_vars => SeenInv'
<1> SUFFICES ASSUME TypeInv, SeenInv, [Next]_vars PROVE SeenInv'
  OBVIOUS
<1>0. ScreenOK
  BY DEF SeenInv
<1>1. ASSUME NEW o \in Operators, WindowAct(o)
      PROVE  SeenInv'
  <2>1. StoreType' /\ Grown /\ WindowType
    BY <1>1, TypeFacts, WindowStoreStep, WindowGrown
  <2>2. ViewAt(o)' /\ KnownAt(o)'
    BY <1>0, <1>1, <2>1, WindowScreen
  <2>3. \A p \in Operators \ {o} : ViewAt(p)' /\ KnownAt(p)'
    BY <1>0, <1>1, <2>1, WindowFrame, ScreenLasts
  <2> QED
    BY <1>1, <2>2, <2>3, MessageSeen DEF SeenInv, ScreenOK
<1>2. ASSUME NEW w \in Workers, WorkerAct(w)
      PROVE  SeenInv'
  <2>1. StoreType' /\ Grown /\ UNCHANGED window /\ UNCHANGED message
    BY <1>2, WorkerStoreStep, WorkerGrown, WorkerFrame
  <2>2. \A o \in Operators : ViewAt(o)' /\ KnownAt(o)'
    BY <1>0, <2>1, ScreenLasts DEF window
  <2>3. SeenWhatWasClaimed'
    BY <2>1 DEF SeenInv, SeenWhatWasClaimed
  <2> QED
    BY <2>2, <2>3 DEF SeenInv, ScreenOK
<1>3. CASE UNCHANGED vars
  BY <1>3 DEF vars, window, store, past, SeenInv, SeenWhatWasClaimed,
     ScreenOK, ViewAt, KnownAt, Claimed, MailsOf
<1> QED
  BY <1>1, <1>2, <1>3, StepCases

(* send_portal_message, claim_message: whose request passes the revision   *)
(* check had every mail on his screen whose claim was complete then.       *)
THEOREM OperatorHasSeen == Spec => []SeenWhatWasClaimed
<1>1. SeenInv => SeenWhatWasClaimed
  BY DEF SeenInv
<1> QED
  BY <1>1, TypeStarts, TypeStep, SeenStarts, SeenStep, PTL DEF Spec

-----------------------------------------------------------------------------
(* Two answers to one view.                                                *)

(* One of two requests passed the check while the other was between its    *)
(* own check and its bump.                                                 *)
Related(r, s) == r \in beside[s] \/ s \in beside[r]

(* The handler that inserted the message of r has moved the revision, and  *)
(* sends now or has sent.                                                  *)
Moved(r) ==
  \/ \E x \in outbox : x.request = r
  \/ \E o \in Operators : step[o] = "send" /\ form[o].request = r

(* Handlers between check and bump know of each other.                     *)
PassedOK ==
  \A o, p \in Operators :
    o # p /\ step[o] \in Passed /\ step[p] \in Passed =>
      Related(form[o].request, form[p].request)
(* What was inserted is what the window shows.                             *)
DraftAt(o) ==
  step[o] = "bump" => /\ message[form[o].request].saw = view[o]
                      /\ message[form[o].request].conv = Target(o)
DraftOK == \A o \in Operators : DraftAt(o)
(* A reply that moved the revision left the one its operator saw behind.   *)
MovedOK ==
  \A r \in Requests : Moved(r) /\ message[r].action = "reply" =>
    message[r].saw.revision < conv[message[r].conv].revision
(* Who still is between check and bump with that revision knows of it, and *)
(* so do two that moved it.                                                *)
RacesWith(o, r) ==
  /\ step[o] \in Passed /\ form[o].action = "reply" /\ form[o].request # r
  /\ Moved(r) /\ message[r].action = "reply"
  /\ view[o].conv = message[r].conv
  /\ view[o].revision = message[r].saw.revision
RaceOK ==
  \A o \in Operators : \A r \in Requests :
    RacesWith(o, r) => Related(form[o].request, r)
SameView(r, s) ==
  /\ r # s /\ Moved(r) /\ Moved(s)
  /\ message[r].action = "reply" /\ message[s].action = "reply"
  /\ message[r].conv = message[s].conv
  /\ message[r].saw.revision = message[s].saw.revision
PairOK == \A r, s \in Requests : SameView(r, s) => Related(r, s)

RaceInv == PassedOK /\ DraftOK /\ MovedOK /\ RaceOK /\ PairOK

(* Nobody has passed the check at first.                                   *)
LEMMA RaceStarts == Init => RaceInv
<1> SUFFICES ASSUME Init PROVE RaceInv
  OBVIOUS
<1>1. \A r : ~Moved(r)
  BY DEF Init, Moved
<1>2. \A o \in Operators : step[o] = "idle"
  BY DEF Init
<1> QED
  BY <1>1, <1>2 DEF RaceInv, PassedOK, DraftOK, DraftAt, MovedOK, RaceOK,
     RacesWith, PairOK, SameView, Passed

(* The invariant implies the property.                                     *)
LEMMA RaceMeans == TypeInv /\ RaceInv => OneReplyPerView
<1> SUFFICES ASSUME TypeInv, RaceInv,
             NEW x \in outbox, NEW y \in outbox, x.request # y.request,
             {message[x.request].action, message[y.request].action}
               = {"reply"},
             message[x.request].conv = message[y.request].conv,
             message[x.request].saw.revision =
               message[y.request].saw.revision
             PROVE  Related(x.request, y.request)
  BY DEF OneReplyPerView, Related
<1>1. x.request \in Requests /\ y.request \in Requests
  BY OutFacts
<1>2. Moved(x.request) /\ Moved(y.request)
  BY DEF Moved
<1> QED
  BY <1>1, <1>2 DEF RaceInv, PairOK, SameView

(* What moved the revision has its message.                                *)
LEMMA MovedHas ==
  ASSUME TypeInv, SentInv, NEW r \in Requests, Moved(r)
  PROVE  /\ message[r] # NoMessage /\ message[r].conv \in Convs
         /\ message[r].saw.revision \in Nat
<1>1. message[r] # NoMessage
  BY TypeFacts DEF Moved, SentInv, OutOK, FormOK, FormAt, Stored, Filed
<1>2. message[r] \in Message \ {NoMessage}
  BY <1>1, TypeFacts DEF StoreType
<1> QED
  BY <1>2 DEF Message, View

(* Steps in which nobody passes the check or moves the revision.           *)
LEMMA RaceQuiet ==
  ASSUME TypeInv, SentInv, RaceInv, Lasting, Grown, StoreType',
         UNCHANGED beside, \A r \in Requests : Moved(r)' => Moved(r),
         \A o \in Operators : step'[o] \in Passed =>
           step[o] \in Passed /\ form'[o] = form[o] /\ view'[o] = view[o]
  PROVE  PassedOK' /\ MovedOK' /\ RaceOK' /\ PairOK'
<1>1. \A r \in Requests : Moved(r)' =>
        /\ Moved(r) /\ message[r].conv \in Convs
        /\ message'[r].action = message[r].action
        /\ message'[r].conv = message[r].conv
        /\ message'[r].saw = message[r].saw
        /\ message[r].saw.revision \in Nat
  BY MovedHas DEF Lasting
<1>2. PassedOK'
  BY DEF RaceInv, PassedOK, Related
<1>3. MovedOK'
  <2>1. \A c \in Convs : /\ conv[c].revision \in Nat
                         /\ conv'[c].revision \in Nat
                         /\ conv[c].revision <= conv'[c].revision
    BY TypeFacts DEF StoreType, Grown
  <2> QED
    BY <1>1, <2>1 DEF RaceInv, MovedOK
<1>4. RaceOK'
  <2>1. ASSUME NEW o \in Operators, NEW r \in Requests, RacesWith(o, r)'
        PROVE  Related(form[o].request, r)'
    <3>1. RacesWith(o, r) /\ form'[o] = form[o]
      BY <1>1, <2>1 DEF RacesWith
    <3> QED
      BY <3>1 DEF RaceInv, RaceOK, Related
  <2>2. ASSUME NEW o \in Operators, NEW r \in Requests, RacesWith(o, r)'
        PROVE  form'[o] = form[o]
    BY <2>2 DEF RacesWith
  <2> QED
    BY <2>1, <2>2 DEF RaceOK
<1>5. PairOK'
  <2>1. ASSUME NEW r \in Requests, NEW s \in Requests, SameView(r, s)'
        PROVE  SameView(r, s)
    BY <1>1, <2>1 DEF SameView
  <2> QED
    BY <2>1 DEF RaceInv, PairOK, Related
<1> QED
  BY <1>2, <1>3, <1>4, <1>5

(* What was inserted stays what the window shows.                          *)
LEMMA DraftLasts ==
  ASSUME TypeInv, DraftOK, Lasting, NEW o \in Operators,
         step'[o] = "bump" => /\ step[o] = "bump"
                              /\ form'[o] = form[o] /\ view'[o] = view[o]
  PROVE  DraftAt(o)'
<1>1. CASE step'[o] = "bump"
  <2>1. step[o] = "bump" /\ form'[o] = form[o] /\ view'[o] = view[o]
    BY <1>1
  <2>2. /\ form[o].request \in Requests
        /\ message[form[o].request] # NoMessage
    BY <2>1, HandlerForm, TypeFacts DEF FormOK, FormAt, Stored, Filed
  <2> QED
    BY <2>1, <2>2 DEF DraftOK, DraftAt, Lasting, Target
<1> QED
  BY <1>1 DEF DraftAt

(* Who passes the check finds the revision he saw, so nobody moved it, and *)
(* notes who else has passed.                                              *)
LEMMA CheckRaces ==
  ASSUME TypeInv, SentInv, RaceInv, NEW o \in Operators, Check(o),
         MayAnswer(o)
  PROVE  RaceInv'
<1> DEFINE near ==
      {form[p].request : p \in {q \in Operators : step[q] \in Passed}}
<1>0. WindowType /\ PastType /\ Lasting
  BY TypeFacts, WindowLasting DEF WindowAct, Handle
<1>1. /\ step[o] = "check" /\ Goto(o, "load")
      /\ UNCHANGED <<view, form, conv, message, outbox>>
      /\ beside' = [beside EXCEPT ![form[o].request] = @ \cup near]
  BY DEF Check, store
<1>2. form[o].request \in Requests
  BY <1>1, HandlerForm
<1>3. /\ step'[o] = "load"
      /\ \A p \in Operators : p # o => step'[p] = step[p]
  BY <1>0, <1>1 DEF Goto, WindowType
<1>4. /\ \A r \in Requests : beside[r] \subseteq beside'[r]
      /\ beside'[form[o].request] = beside[form[o].request] \cup near
  BY <1>0, <1>1, <1>2 DEF PastType
<1>5. \A r, s \in Requests : Related(r, s) => Related(r, s)'
  BY <1>4 DEF Related
<1>6. \A p \in Operators : step[p] \in Passed => form[p].request \in Requests
  BY HandlerForm DEF Passed
<1>7. \A r \in Requests : Moved(r)' <=> Moved(r)
  BY <1>1, <1>3 DEF Moved
<1>8. PassedOK'
  <2>1. ASSUME NEW p \in Operators, p # o, step[p] \in Passed
        PROVE  form[p].request \in beside'[form[o].request]
    BY <1>4, <2>1
  <2> HIDE DEF near
  <2>2. ASSUME NEW p \in Operators, NEW q \in Operators, p # q,
               step'[p] \in Passed, step'[q] \in Passed
        PROVE  \/ form[p].request \in beside'[form[q].request]
               \/ form[q].request \in beside'[form[p].request]
    <3>1. CASE p # o /\ q # o
      <4>1. Related(form[p].request, form[q].request)
        BY <1>3, <2>2, <3>1 DEF RaceInv, PassedOK
      <4> QED
        BY <1>3, <1>4, <1>6, <2>2, <3>1, <4>1 DEF Related
    <3>2. CASE p = o \/ q = o
      BY <1>3, <2>1, <2>2, <3>2
    <3> QED
      BY <3>1, <3>2
  <2> QED
    BY <1>1, <2>2 DEF PassedOK, Related
<1>9. DraftOK'
  BY <1>0, <1>1, <1>3, DraftLasts DEF RaceInv, DraftOK
<1>10. MovedOK'
  BY <1>1, <1>7 DEF RaceInv, MovedOK
<1>11. RaceOK'
  <2>1. ASSUME NEW p \in Operators, NEW r \in Requests, RacesWith(p, r)'
        PROVE  Related(form[p].request, r)'
    <3>1. CASE p = o
      <4>1. /\ view[o].conv = message[r].conv /\ Moved(r)
            /\ view[o].revision = message[r].saw.revision
            /\ message[r].action = "reply"
        BY <1>1, <1>7, <2>1, <3>1 DEF RacesWith
      <4>2. message[r].saw.revision < conv[message[r].conv].revision
        BY <4>1 DEF RaceInv, MovedOK
      <4>3. conv[view[o].conv].revision = view[o].revision
        BY DEF MayAnswer
      <4>4. message[r].saw.revision \in Nat
        BY <4>1, MovedHas
      <4> QED
        BY <4>1, <4>2, <4>3, <4>4
    <3>2. CASE p # o
      <4>1. RacesWith(p, r)
        BY <1>1, <1>3, <1>7, <2>1, <3>2 DEF RacesWith
      <4>2. Related(form[p].request, r) /\ form[p].request \in Requests
        BY <1>6, <4>1 DEF RaceInv, RaceOK, RacesWith
      <4> QED
        BY <1>1, <1>4, <4>2 DEF Related
    <3> QED
      BY <3>1, <3>2
  <2> QED
    BY <1>1, <2>1 DEF RaceOK
<1>12. PairOK'
  BY <1>1, <1>5, <1>7 DEF RaceInv, PairOK, SameView
<1> QED
  BY <1>8, <1>9, <1>10, <1>11, <1>12 DEF RaceInv

(* Who moves the revision is known to all who still race with him, and to  *)
(* those who moved it before him.                                          *)
LEMMA BumpRaces ==
  ASSUME TypeInv, SentInv, SeenInv, RaceInv, NEW o \in Operators,
         BumpBegun(o)
  PROVE  RaceInv'
<1> DEFINE r0 == form[o].request
<1>0. WindowType /\ StoreType /\ Lasting
  BY TypeFacts, WindowLasting DEF WindowAct, Handle
<1>1. /\ step[o] = "bump" /\ Goto(o, "send") /\ Bump(Target(o))
      /\ UNCHANGED <<view, form, message, outbox, beside>>
  BY DEF BumpBegun, past
<1>2. r0 \in Requests /\ Target(o) \in Convs
  BY <1>1, HandlerForm
<1>3. /\ step'[o] = "send"
      /\ \A p \in Operators : p # o => step'[p] = step[p]
  BY <1>0, <1>1 DEF Goto, WindowType
<1>4. \A r \in Requests : Moved(r)' => Moved(r) \/ r = r0
  BY <1>1, <1>3 DEF Moved
<1>5. \A p \in Operators : step'[p] \in Passed => p # o /\ step[p] \in Passed
  BY <1>3 DEF Passed
<1>6. /\ message[r0].saw = view[o] /\ message[r0].conv = Target(o)
      /\ message[r0].action = form[o].action
  BY <1>1 DEF RaceInv, DraftOK, DraftAt, SentInv, ComposedOK, ComposedAt,
              Sending
<1>7. form[o].action = "reply" => Target(o) = view[o].conv
  BY DEF Target
<1>8. /\ \A c \in Convs \ {Target(o)} : conv'[c] = conv[c]
      /\ conv'[Target(o)].revision = conv[Target(o)].revision + 1
      /\ \A c \in Convs : conv[c].revision \in Nat
  BY <1>0, <1>1, <1>2, BumpType, ConvRevision
<1>9. step[o] \in Passed
  BY <1>1 DEF Passed
<1>10. PassedOK'
  BY <1>1, <1>3, <1>5 DEF RaceInv, PassedOK, Related
<1>11. DraftOK'
  BY <1>0, <1>1, <1>3, DraftLasts DEF RaceInv, DraftOK
<1>12. MovedOK'
  <2>1. ASSUME message[r0].action = "reply"
        PROVE  message[r0].saw.revision < conv'[message[r0].conv].revision
    <3>1. view[o].revision <= conv[view[o].conv].revision
      BY DEF SeenInv, ScreenOK, ViewAt
    <3>2. view[o] \in View
      BY <1>0 DEF WindowType
    <3>3. view[o].revision \in Nat
      BY <3>2 DEF View
    <3>4. conv'[Target(o)].revision = conv[Target(o)].revision + 1
          /\ conv[Target(o)].revision \in Nat
      BY <1>2, <1>8
    <3> QED
      BY <1>6, <1>7, <2>1, <3>1, <3>3, <3>4
  <2>2. ASSUME NEW r \in Requests, Moved(r), message[r].action = "reply"
        PROVE  message[r].saw.revision < conv'[message[r].conv].revision
    <3>1. message[r].saw.revision < conv[message[r].conv].revision
      BY <2>2 DEF RaceInv, MovedOK
    <3>2. message[r].conv \in Convs /\ message[r].saw.revision \in Nat
      BY <2>2, MovedHas
    <3>3. conv[message[r].conv].revision <= conv'[message[r].conv].revision
          /\ conv'[message[r].conv].revision \in Nat
      BY <1>2, <1>8, <3>2
    <3>4. conv[message[r].conv].revision \in Nat
      BY <1>8, <3>2
    <3> QED
      BY <3>1, <3>2, <3>3, <3>4
  <2> QED
    BY <1>1, <1>4, <2>1, <2>2 DEF MovedOK
<1>13. RaceOK'
  <2>1. ASSUME NEW p \in Operators, NEW r \in Requests, RacesWith(p, r)'
        PROVE  Related(form[p].request, r)
    <3>1. p # o /\ step[p] \in Passed /\ (Moved(r) \/ r = r0)
      BY <1>4, <1>5, <2>1 DEF RacesWith
    <3>2. CASE r = r0
      BY <1>9, <3>1, <3>2 DEF RaceInv, PassedOK
    <3>3. CASE Moved(r)
      <4>1. RacesWith(p, r)
        BY <1>1, <2>1, <3>1, <3>3 DEF RacesWith
      <4> QED
        BY <4>1 DEF RaceInv, RaceOK
    <3> QED
      BY <3>1, <3>2, <3>3
  <2> QED
    BY <1>1, <2>1 DEF RaceOK, Related
<1>14. PairOK'
  <2>1. ASSUME NEW s \in Requests, Moved(s), s # r0,
               message[s].action = "reply", message[r0].action = "reply",
               message[s].conv = message[r0].conv,
               message[s].saw.revision = message[r0].saw.revision
        PROVE  Related(r0, s)
    <3>1. RacesWith(o, s)
      BY <1>6, <1>7, <1>9, <2>1 DEF RacesWith
    <3> QED
      BY <3>1 DEF RaceInv, RaceOK
  <2>2. ASSUME NEW r \in Requests, NEW s \in Requests, SameView(r, s)'
        PROVE  Related(r, s)
    <3>1. CASE Moved(r) /\ Moved(s)
      BY <1>1, <2>2, <3>1 DEF SameView, RaceInv, PairOK
    <3>2. CASE r = r0 \/ s = r0
      BY <1>1, <1>4, <2>1, <2>2, <3>2 DEF SameView, Related
    <3> QED
      BY <1>4, <2>2, <3>1, <3>2 DEF SameView
  <2> QED
    BY <1>1, <2>2 DEF PairOK, Related
<1> QED
  BY <1>10, <1>11, <1>12, <1>13, <1>14 DEF RaceInv

(* The insert keeps with the message what the window shows.                *)
LEMMA InsertDraft ==
  ASSUME TypeInv, SentInv, RaceInv, NEW o \in Operators, InsertMessage(o)
  PROVE  DraftOK'
<1>0. Lasting /\ WindowType /\ StoreType
  BY TypeFacts, WindowLasting DEF WindowAct, Handle
<1>1. \A p \in Operators \ {o} : DraftAt(p)'
  BY <1>0, WindowFrame, DraftLasts DEF WindowAct, Handle, RaceInv
<1>2. DraftAt(o)'
  <2>1. CASE Return(o)
    BY <1>0, <2>1 DEF Return, WindowType, DraftAt
  <2>2. CASE ~Return(o)
    <3> DEFINE r == form[o].request
               new == [conv |-> Target(o), action |-> form[o].action,
                 status |-> "sending", id |-> MailId(o), saw |-> view[o],
                 known |-> known[o], quoted |-> quoted[o],
                 confirmed |-> form[o].confirmed]
    <3>1. /\ message' = [message EXCEPT ![r] = new]
          /\ UNCHANGED <<form, view>> /\ step[o] = "insert"
      BY <2>2 DEF InsertMessage
    <3>2. r \in Requests
      BY <3>1, HandlerForm
    <3>3. message'[r].saw = view[o] /\ message'[r].conv = Target(o)
      BY <1>0, <3>1, <3>2 DEF StoreType
    <3> QED
      BY <3>1, <3>3 DEF DraftAt, Target
  <2> QED
    BY <2>1, <2>2
<1> QED
  BY <1>1, <1>2 DEF DraftOK

(* The other steps of a window.                                            *)
LEMMA WindowQuiet ==
  ASSUME TypeInv, SentInv, RaceInv, NEW o \in Operators, WindowAct(o),
         ~BumpBegun(o), ~(Check(o) /\ MayAnswer(o))
  PROVE  RaceInv'
<1>0. WindowType /\ Lasting /\ Grown /\ StoreType'
  BY TypeFacts, WindowLasting, WindowGrown, WindowStoreStep
<1>1. \A p \in Operators \ {o} : /\ step'[p] = step[p] /\ form'[p] = form[p]
                                 /\ view'[p] = view[p]
  BY <1>0, WindowFrame
<1>2. UNCHANGED beside
  BY DEF WindowAct, Handle, OpenSummary, OpenTimeline, Submit, Check,
         LoadTimeline, CreateChild, InsertMessage, SendComposed,
         FinishMessage, BumpFinished, BumpSource, Interrupt, past
<1>3. /\ step'[o] # "send"
      /\ step'[o] \in Passed =>
           step[o] \in Passed /\ form'[o] = form[o] /\ view'[o] = view[o]
      /\ step'[o] = "bump" => InsertMessage(o)
  <2>1. CASE OpenSummary(o) \/ OpenTimeline(o) \/ Submit(o)
    BY <1>0, <2>1 DEF OpenSummary, OpenTimeline, Submit, Goto, WindowType,
       Passed
  <2>2. CASE Check(o)
    BY <1>0, <2>2 DEF Check, Return, WindowType, Passed
  <2>3. CASE LoadTimeline(o)
    BY <1>0, <2>3 DEF LoadTimeline, Goto, WindowType, Passed
  <2>4. CASE CreateChild(o)
    BY <1>0, <2>4 DEF CreateChild, Goto, Return, WindowType, Passed
  <2>5. CASE InsertMessage(o)
    <3>1. CASE Return(o)
      BY <1>0, <2>5, <3>1 DEF Return, WindowType, Passed
    <3>2. CASE ~Return(o)
      <4>1. /\ step[o] = "insert" /\ Goto(o, "bump")
            /\ UNCHANGED <<form, view>>
        BY <2>5, <3>2 DEF InsertMessage
      <4> QED
        BY <1>0, <2>5, <4>1 DEF Goto, WindowType, Passed
    <3> QED
      BY <3>1, <3>2
  <2>6. CASE SendComposed(o) \/ FinishMessage(o)
    BY <1>0, <2>6 DEF SendComposed, FinishMessage, Goto, WindowType, Passed
  <2>7. CASE BumpFinished(o) \/ BumpSource(o) \/ Interrupt(o)
    BY <1>0, <2>7 DEF BumpFinished, BumpSource, Interrupt, Goto, Return,
       WindowType, Passed
  <2> QED
    BY <2>1, <2>2, <2>3, <2>4, <2>5, <2>6, <2>7 DEF WindowAct, Handle
<1>4. \A r \in Requests : Moved(r)' => Moved(r)
  <2>1. \A x \in outbox' : x \in outbox \/
          (step[o] = "send" /\ x.request = form[o].request)
    <3>1. CASE SendComposed(o)
      BY <3>1 DEF SendComposed, Accept
    <3>2. CASE ~SendComposed(o)
      <4>1. UNCHANGED outbox
        BY <3>2 DEF WindowAct, Handle, OpenSummary, OpenTimeline, Submit,
           Check, LoadTimeline, CreateChild, InsertMessage, FinishMessage,
           BumpFinished, BumpSource, Interrupt, past
      <4> QED
        BY <4>1
    <3> QED
      BY <3>1, <3>2
  <2> QED
    BY <1>1, <1>3, <2>1 DEF Moved
<1>5. PassedOK' /\ MovedOK' /\ RaceOK' /\ PairOK'
  BY <1>0, <1>1, <1>2, <1>3, <1>4, RaceQuiet
<1>6. DraftOK'
  <2>1. CASE InsertMessage(o)
    BY <2>1, InsertDraft
  <2>2. CASE ~InsertMessage(o)
    BY <1>0, <1>1, <1>3, <2>2, DraftLasts DEF RaceInv, DraftOK
  <2> QED
    BY <2>1, <2>2
<1> QED
  BY <1>5, <1>6 DEF RaceInv

(* Every step keeps RaceInv.                                               *)
LEMMA RaceStep ==
  TypeInv /\ SentInv /\ SeenInv /\ RaceInv /\ [Next]_vars => RaceInv'
<1> SUFFICES ASSUME TypeInv, SentInv, SeenInv, RaceInv, [Next]_vars
             PROVE  RaceInv'
  OBVIOUS
<1>1. ASSUME NEW o \in Operators, WindowAct(o)
      PROVE  RaceInv'
  BY <1>1, CheckRaces, BumpRaces, WindowQuiet
<1>2. ASSUME NEW w \in Workers, WorkerAct(w)
      PROVE  RaceInv'
  <2>1. /\ Lasting /\ Grown /\ StoreType' /\ UNCHANGED <<outbox, beside>>
        /\ UNCHANGED <<step, view, form>>
    BY <1>2, WorkerStoreStep, WorkerGrown, WorkerFrame DEF window
  <2>2. \A r \in Requests : Moved(r)' => Moved(r)
    BY <2>1 DEF Moved
  <2>3. PassedOK' /\ MovedOK' /\ RaceOK' /\ PairOK'
    BY <2>1, <2>2, RaceQuiet
  <2>4. DraftOK'
    BY <2>1, DraftLasts DEF RaceInv, DraftOK
  <2> QED
    BY <2>3, <2>4 DEF RaceInv
<1>3. CASE UNCHANGED vars
  <2>1. UNCHANGED <<step, view, form, conv, message, outbox, beside>>
    BY <1>3 DEF vars, window, store, past
  <2>2. \A r \in Requests : Moved(r)' <=> Moved(r)
    BY <2>1 DEF Moved
  <2>3. PassedOK' /\ DraftOK' /\ MovedOK'
    BY <2>1, <2>2 DEF RaceInv, PassedOK, DraftOK, DraftAt, Target, MovedOK,
       Related
  <2>4. RaceOK' /\ PairOK'
    BY <2>1, <2>2 DEF RaceInv, RaceOK, RacesWith, PairOK, SameView, Related
  <2> QED
    BY <2>3, <2>4 DEF RaceInv
<1> QED
  BY <1>1, <1>2, <1>3, StepCases

(* send_portal_message: two replies to the same revision of a conversation *)
(* are both sent only if one passed the revision check while the other was *)
(* between its own check and its bump.                                     *)
THEOREM RepliesToOneViewRace == Spec => []OneReplyPerView
<1>1. Init => TypeInv /\ SentInv /\ SeenInv /\ RaceInv
  BY TypeStarts, SentStarts, SeenStarts, RaceStarts
<1>2. /\ TypeInv /\ SentInv /\ SeenInv /\ RaceInv /\ [Next]_vars
      => (TypeInv /\ SentInv /\ SeenInv /\ RaceInv)'
  BY TypeStep, SentStep, SeenStep, RaceStep
<1> QED
  BY <1>1, <1>2, RaceMeans, PTL DEF Spec
=============================================================================

---------------------------- MODULE ThreadIndex ----------------------------
(***************************************************************************)
(* Thread ids and what a thread's history holds.  Mails name earlier mails *)
(* by Message-ID; the program looks the named ones up in three tables, one *)
(* statement each, to find the thread of a mail when it claims it, when it *)
(* stores a mail of the Sent folder, and again when it loads the thread's  *)
(* history for the AI, which three more statements read.                   *)
(*                                                                         *)
(* One mailbox.  A mail is its number in the order of composition, every   *)
(* mail has a Message-ID, and the scan's verdict on a mail is fixed when   *)
(* it is written.  Only one worker handles a mail at a time, and handoff   *)
(* mails are left out: MessageWorker and ThreadHandoff are about those.    *)
(***************************************************************************)
EXTENDS Naturals, Sequences, FiniteSets, Functions

CONSTANTS
  Workers,       \* the server processes
  MaxMails,      \* bound on the mails of the mailbox
  Bounds         \* the combinations of bounds a behaviour starts with

(* One combination: the workers that run, the mails of each kind, and the  *)
(* injected faults.                                                        *)
Kinds == {"in", "own", "reply", "portal", "forward"}
BoundRecord ==
  [workers : SUBSET Workers, mails : [Kinds -> Nat], faults : Nat]

ASSUME IndexAssumption ==
  /\ MaxMails \in Nat
  /\ Bounds \subseteq BoundRecord

VARIABLES
  mails,                 \* every mail composed, in order
  mailed,                \* those of the program that SMTP accepted
  copied,                \* those of them the server put in the Sent folder
  runs, sent, portal,    \* processing_runs, sent_messages, portal_messages
  step, job, mail,       \* each worker: what it does, what for, which mail
  found, history,        \* the thread it found, the mails it has read
  bound, faults,         \* the bounds, and what they count
  due, astray            \* history, for the properties

world  == <<mails, mailed, copied>>
tables == <<runs, sent, portal>>
worker == <<step, job, mail, found, history>>
vars   == <<world, tables, worker, bound, faults, due, astray>>

Ids   == 1..MaxMails
Known == 1..Len(mails)

NoRun    == [thread |-> 0, out |-> 0, state |-> "none"]
NoPortal == [thread |-> 0, status |-> "none"]

Init ==
  /\ mails = <<>>
  /\ mailed = {}
  /\ copied = {}
  /\ runs   = [i \in Ids |-> NoRun]
  /\ sent   = [i \in Ids |-> 0]
  /\ portal = [i \in Ids |-> NoPortal]
  /\ step    = [w \in Workers |-> "idle"]
  /\ job     = [w \in Workers |-> "none"]
  /\ mail    = [w \in Workers |-> 0]
  /\ found   = [w \in Workers |-> 0]
  /\ history = [w \in Workers |-> {}]
  /\ bound \in Bounds
  /\ faults = 0
  /\ due = [w \in Workers |-> {}]
  /\ astray = {}

-----------------------------------------------------------------------------
(* Helpers.                                                                *)

(* The states of a run that was found safe, and of a finished one.         *)
Safe  == {"safe", "handled", "replied"}
Final == {"unsafe", "handled", "replied"}

Goto(w, s) == step' = [step EXCEPT ![w] = s]

Stop(w) ==
  /\ step'    = [step EXCEPT ![w] = "idle"]
  /\ job'     = [job EXCEPT ![w] = "none"]
  /\ mail'    = [mail EXCEPT ![w] = 0]
  /\ found'   = [found EXCEPT ![w] = 0]
  /\ history' = [history EXCEPT ![w] = {}]
  /\ due'     = [due EXCEPT ![w] = {}]

(* What a mail names: References and In-Reply-To, 0 for none.              *)
Related(m) == (Range(mails[m].refs) \cup {mails[m].parent}) \ {0}

(* MessageMetadata::thread_id: the first reference, else the mail that is  *)
(* answered, else the mail itself.                                         *)
Fallback(m) ==
  IF mails[m].refs # <<>> THEN Head(mails[m].refs)
  ELSE IF mails[m].parent # 0 THEN mails[m].parent ELSE m

(* Slip: the reply names itself instead of the mail it answers.            *)
ReplyRefsOwn(p) == Append(mails[p].refs, Len(mails) + 1)
(* reply_references: those of the mail that is answered, and the mail.     *)
ReplyRefs(p) == Append(mails[p].refs, p)

(* A mail of the given kind; a root starts a conversation of its own.      *)
Compose(kind, p, refs, safe) ==
  LET m == Len(mails) + 1 IN
  /\ m \in Ids
  /\ Cardinality({n \in Known : mails[n].kind = kind}) < bound.mails[kind]
  /\ mails' = Append(mails,
       [kind |-> kind, parent |-> p, refs |-> refs, safe |-> safe,
        root |-> IF p = 0 THEN m ELSE mails[p].root])

InSent(m) == mails[m].kind = "own" \/ m \in copied

(* Slip: the ids of the program's own replies are not looked at.           *)
InRunsInbound(ids) == {r \in Ids : runs[r].thread # 0 /\ r \in ids}

(* The rows of each table that some of the given mails match.              *)
InRuns(ids) ==
  {r \in Ids : runs[r].thread # 0 /\ {r, runs[r].out} \cap ids # {}}
InSentRows(ids) == {s \in ids : sent[s] # 0}
InPortal(ids)   == {p \in ids : portal[p].thread # 0}

-----------------------------------------------------------------------------
(* The correspondent and the mailbox's owner write mail with clients that  *)
(* send References, or only In-Reply-To; the server keeps copies.          *)

Habit(p) == {<<>>} \cup (IF p = 0 THEN {} ELSE {ReplyRefs(p)})

MailArrives ==
  /\ \E p \in {0} \cup {m \in Known : mails[m].kind \in {"in", "own"}}
              \cup mailed, safe \in BOOLEAN :
       \E refs \in Habit(p) : Compose("in", p, refs, safe)
  /\ UNCHANGED <<mailed, copied, tables, worker, faults, due, astray>>

OwnerWrites ==
  /\ \E p \in {0} \cup {m \in Known : mails[m].kind \in {"in", "own"}}
              \cup copied :
       \E refs \in Habit(p) : Compose("own", p, refs, TRUE)
  /\ UNCHANGED <<mailed, copied, tables, worker, faults, due, astray>>

CopyToSent ==
  /\ \E m \in mailed \ copied : copied' = copied \cup {m}
  /\ UNCHANGED <<mails, mailed, tables, worker, faults, due, astray>>

-----------------------------------------------------------------------------
(* thread_id_for_message: runs first, then Sent rows, then portal rows.    *)

(* The mails the history of m should hold: its conversation's, recorded so *)
(* that the program counts them as received safely, or as sent.            *)
Recorded(m) ==
  {i \in Known \ {m} :
     /\ mails[i].root = mails[m].root
     /\ \/ runs[i].state \in Safe
        \/ \E r \in Ids : runs[r].out = i /\ runs[r].state = "replied"
        \/ sent[i] # 0
        \/ mails[i].kind = "portal" /\ portal[i].status \in
                                         {"sent", "uncertain"}}

(* The mails some row is about.                                            *)
Indexed ==
  {i \in Known : runs[i].thread # 0 \/ sent[i] # 0 \/ portal[i].thread # 0}
    \cup {runs[r].out : r \in Ids}

(* A conversation goes astray when one of its mails is looked up while     *)
(* nothing it names is recorded and the mail alone does not tell the root. *)
Strays(m) ==
  /\ Related(m) # {}
  /\ Related(m) \cap Indexed = {}
  /\ Fallback(m) # mails[m].root

Begin(w, j, m) ==
  /\ job'   = [job EXCEPT ![w] = j]
  /\ mail'  = [mail EXCEPT ![w] = m]
  /\ found' = [found EXCEPT ![w] = 0]
  /\ Goto(w, "runs")

Claim(w) ==
  /\ step[w] = "idle" /\ w \in bound.workers
  /\ \E m \in Known : mails[m].kind = "in" /\ Begin(w, "claim", m)
  /\ UNCHANGED <<world, tables, history, faults, due, astray>>

(* A mail the folder's search returned, stored before or not.              *)
SyncSent(w) ==
  /\ step[w] = "idle" /\ w \in bound.workers
  /\ \E m \in Known : InSent(m) /\ Begin(w, "sync", m)
  /\ UNCHANGED <<world, tables, history, faults, due, astray>>

(* The oldest of the rows that match decides; times are not modelled.  A   *)
(* mail that names nothing is not looked up.                               *)
LookInRuns(w) ==
  LET m == mail[w]
      rows == InRuns(Related(m))
  IN
  /\ step[w] = "runs"
  /\ IF rows = {} THEN UNCHANGED found
     ELSE \E r \in rows : found' = [found EXCEPT ![w] = runs[r].thread]
  /\ Goto(w, IF rows = {} /\ Related(m) # {} THEN "sent" ELSE "use")
  /\ due' = [due EXCEPT ![w] =
       IF job[w] = "context" THEN Recorded(m) ELSE {}]
  /\ astray' = IF Strays(m) THEN astray \cup {mails[m].root} ELSE astray
  /\ UNCHANGED <<world, tables, job, mail, history, faults>>

LookInSent(w) ==
  LET rows == InSentRows(Related(mail[w])) IN
  /\ step[w] = "sent"
  /\ IF rows = {} THEN UNCHANGED found
     ELSE \E s \in rows : found' = [found EXCEPT ![w] = sent[s]]
  /\ Goto(w, IF rows = {} THEN "portal" ELSE "use")
  /\ UNCHANGED <<world, tables, job, mail, history, faults, due, astray>>

LookInPortal(w) ==
  LET rows == InPortal(Related(mail[w])) IN
  /\ step[w] = "portal"
  /\ IF rows = {} THEN UNCHANGED found
     ELSE \E p \in rows : found' = [found EXCEPT ![w] = portal[p].thread]
  /\ Goto(w, "use")
  /\ UNCHANGED <<world, tables, job, mail, history, faults, due, astray>>

Thread(w) == IF found[w] = 0 THEN Fallback(mail[w]) ELSE found[w]

-----------------------------------------------------------------------------
(* The three uses of a thread id.                                          *)

(* claim_message inserts the row, or takes over one that is not finished,  *)
(* thread id included.                                                     *)
SaveRun(w) ==
  LET m == mail[w] IN
  /\ step[w] = "use" /\ job[w] = "claim"
  /\ \/ /\ runs[m].state \notin Final
        /\ \A v \in Workers \ {w} : mail[v] = m => job[v] # "context"
        /\ runs' = [runs EXCEPT ![m].thread = Thread(w),
             ![m].state = IF @ = "none" THEN "claimed" ELSE @]
        /\ job' = [job EXCEPT ![w] = "context"]
        /\ Goto(w, "scan")
        /\ UNCHANGED <<mail, found, history, due>>
     \/ /\ \/ runs[m].state \in Final
           \/ \E v \in Workers \ {w} : mail[v] = m /\ job[v] = "context"
        /\ Stop(w) /\ UNCHANGED runs
  /\ UNCHANGED <<world, sent, portal, faults, astray>>

(* record_sent_batch: an upsert, thread id included.                       *)
SaveSent(w) ==
  /\ step[w] = "use" /\ job[w] = "sync"
  /\ sent' = [sent EXCEPT ![mail[w]] = Thread(w)]
  /\ Stop(w)
  /\ UNCHANGED <<world, runs, portal, faults, astray>>

(* The scan's verdict is stored; only a safe mail has its thread loaded.   *)
(* A quarantine that fails is a scan that gave up.                         *)
Scan(w) ==
  LET m == mail[w] IN
  /\ step[w] = "scan"
  /\ runs' = [runs EXCEPT ![m].state =
       IF mails[m].safe THEN "safe" ELSE "unsafe"]
  /\ IF mails[m].safe
     THEN /\ Begin(w, "context", m)
          /\ UNCHANGED <<history, due>>
     ELSE Stop(w)
  /\ UNCHANGED <<world, sent, portal, faults, astray>>

-----------------------------------------------------------------------------
(* load_thread_messages_impl: each mail read as <<table, mail>>.           *)

(* The ids of mails read from processing_runs.                             *)
Application(w) == {i \in Ids : <<"runs", i>> \in history[w]}

(* Safe runs of the thread other than the mail's own, and the reply of     *)
(* each that was sent.                                                     *)
ReadRuns(w) ==
  LET rows == {r \in Ids \ {mail[w]} :
                 /\ runs[r].thread = Thread(w)
                 /\ runs[r].state \in Safe}
      outs == {runs[r].out : r \in {q \in rows : runs[q].state = "replied"}}
  IN
  /\ step[w] = "use" /\ job[w] = "context"
  /\ history' = [history EXCEPT ![w] = {"runs"} \X (rows \cup (outs \ {0}))]
  /\ Goto(w, "readSent")
  /\ UNCHANGED <<world, tables, job, mail, found, faults, due, astray>>

(* Slip: a mail already read from processing_runs is read again.           *)
ReadSentAgain(w) ==
  /\ step[w] = "readSent"
  /\ history' = [history EXCEPT ![w] =
       @ \cup {<<"sent", s>> : s \in {i \in Ids : sent[i] = Thread(w)}}]
  /\ Goto(w, "readPortal")
  /\ UNCHANGED <<world, tables, job, mail, found, faults, due, astray>>

(* Sent rows of the thread, without the program's own mails.               *)
ReadSent(w) ==
  /\ step[w] = "readSent"
  /\ history' = [history EXCEPT ![w] = @ \cup
       {<<"sent", s>> :
          s \in {i \in Ids \ Application(w) : sent[i] = Thread(w)}}]
  /\ Goto(w, "readPortal")
  /\ UNCHANGED <<world, tables, job, mail, found, faults, due, astray>>

(* Portal replies that were sent, or may have been; one that is also in    *)
(* the Sent folder is read a second time.                                  *)
ReadPortal(w) ==
  LET rows == {p \in Ids \ Application(w) :
                 /\ portal[p].thread = Thread(w)
                 /\ mails[p].kind = "portal"
                 /\ portal[p].status \in {"sent", "uncertain"}}
  IN
  /\ step[w] = "readPortal"
  /\ history' = [history EXCEPT ![w] = @ \cup ({"portal"} \X rows)]
  /\ Goto(w, "loaded")
  /\ UNCHANGED <<world, tables, job, mail, found, faults, due, astray>>

-----------------------------------------------------------------------------
(* The program's own mails.                                                *)

(* The reply gets its Message-ID; a forward to humans, or no mail at all,   *)
(* has none.                                                               *)
ComposeReply(w) ==
  /\ step[w] = "loaded"
  /\ \/ /\ Compose("reply", mail[w], ReplyRefs(mail[w]), TRUE)
        /\ found' = [found EXCEPT ![w] = Len(mails')]
     \/ found' = [found EXCEPT ![w] = 0] /\ UNCHANGED mails
  /\ Goto(w, "record")
  /\ UNCHANGED <<mailed, copied, tables, job, mail, history, faults, due,
                 astray>>

(* record_outbound_action, before anything is sent; when it fails, the     *)
(* mail is sent all the same.                                              *)
RecordOutbound(w) ==
  /\ step[w] = "record"
  /\ \/ /\ runs' = [runs EXCEPT ![mail[w]].out = found[w]]
        /\ UNCHANGED faults
     \/ /\ faults < bound.faults /\ faults' = faults + 1
        /\ UNCHANGED runs
  /\ Goto(w, "send")
  /\ UNCHANGED <<world, sent, portal, job, mail, found, history, due, astray>>

SendMail(w) ==
  /\ step[w] = "send"
  /\ mailed' = mailed \cup ({found[w]} \ {0})
  /\ Goto(w, "mark")
  /\ UNCHANGED <<mails, copied, tables, job, mail, found, history, faults,
                 due, astray>>

(* update_message_status: replied, or forwarded or noop.                   *)
MarkRun(w) ==
  /\ step[w] = "mark"
  /\ runs' = [runs EXCEPT ![mail[w]].state =
       IF found[w] = 0 THEN "handled" ELSE "replied"]
  /\ Stop(w)
  /\ UNCHANGED <<world, sent, portal, faults, astray>>

(* A statement or the send fails, or the process dies; the mail may be     *)
(* claimed again, at once or when the row is stale.                        *)
GiveUp(w) ==
  /\ step[w] # "idle"
  /\ faults < bound.faults /\ faults' = faults + 1
  /\ Stop(w)
  /\ UNCHANGED <<world, tables, astray>>

(* prepare_reply: an operator answers the latest mail of a conversation    *)
(* some inbound mail is in; runs, what was to answer them, and portal      *)
(* mails are its timeline.  The row is inserted before the mail is sent.   *)
PortalReply ==
  /\ \E t \in {runs[r].thread : r \in Ids} \ {0} :
       LET rows == {r \in Ids : runs[r].thread = t}
           timeline == rows \cup ({runs[r].out : r \in rows} \ {0})
                         \cup {p \in Ids : portal[p].thread = t}
       IN \E p \in timeline :
            /\ Compose("portal", p, ReplyRefs(p), TRUE)
            /\ portal' = [portal EXCEPT ![Len(mails')] =
                 [thread |-> t, status |-> "sending"]]
  /\ UNCHANGED <<mailed, copied, runs, sent, worker, faults, due, astray>>

(* prepare_forward: a new conversation, whose thread id is the mail.       *)
PortalForward ==
  /\ \E r \in Ids : runs[r].thread # 0
  /\ Compose("forward", 0, <<>>, TRUE)
  /\ portal' = [portal EXCEPT ![Len(mails')] =
       [thread |-> Len(mails'), status |-> "sending"]]
  /\ UNCHANGED <<mailed, copied, runs, sent, worker, faults, due, astray>>

(* SMTP accepts the mail; the handler may learn of it or not.              *)
PortalAccepted ==
  /\ \E p \in Known \ mailed :
       /\ portal[p].status = "sending"
       /\ mailed' = mailed \cup {p}
  /\ UNCHANGED <<mails, copied, tables, worker, faults, due, astray>>

PortalFinish ==
  /\ \E p \in Known, s \in {"sent", "uncertain"} :
       /\ portal[p].status = "sending"
       /\ s = "sent" => p \in mailed
       /\ portal' = [portal EXCEPT ![p].status = s]
  /\ UNCHANGED <<world, runs, sent, worker, faults, due, astray>>

-----------------------------------------------------------------------------
Next ==
  /\ \/ MailArrives \/ OwnerWrites \/ CopyToSent
     \/ PortalReply \/ PortalForward \/ PortalAccepted \/ PortalFinish
     \/ \E w \in Workers :
          \/ Claim(w) \/ SyncSent(w)
          \/ LookInRuns(w) \/ LookInSent(w) \/ LookInPortal(w)
          \/ SaveRun(w) \/ SaveSent(w) \/ Scan(w)
          \/ ReadRuns(w) \/ ReadSent(w) \/ ReadPortal(w)
          \/ ComposeReply(w) \/ RecordOutbound(w) \/ SendMail(w)
          \/ MarkRun(w) \/ GiveUp(w)
  /\ UNCHANGED bound

Spec == Init /\ [][Next]_vars

-----------------------------------------------------------------------------
(* Properties.                                                             *)

(* The tables and the workers hold what their columns allow, and a mail    *)
(* names only mails that were composed before it.                          *)
TypeOK ==
  /\ Len(mails) \in 0..MaxMails
  /\ \A m \in Known :
       /\ mails[m].kind \in Kinds
       /\ mails[m].safe \in BOOLEAN
       /\ mails[m].root \in 1..m
       /\ mails[m].parent \in 0..(m - 1)
       /\ mails[m].refs \in Seq(1..(m - 1))
  /\ mailed \subseteq Known /\ copied \subseteq mailed
  /\ runs \in [Ids -> [thread : 0..MaxMails, out : 0..MaxMails,
                       state : {"none", "claimed", "safe", "unsafe",
                                "handled", "replied"}]]
  /\ sent \in [Ids -> 0..MaxMails]
  /\ portal \in [Ids -> [thread : 0..MaxMails,
                         status : {"none", "sending", "sent", "uncertain"}]]
  /\ step \in [Workers -> {"idle", "runs", "sent", "portal", "use", "scan",
                           "readSent", "readPortal", "loaded",
                           "record", "send", "mark"}]
  /\ job \in [Workers -> {"none", "claim", "sync", "context"}]
  /\ mail \in [Workers -> 0..MaxMails]
  /\ found \in [Workers -> 0..MaxMails]
  /\ history \in [Workers -> SUBSET ({"runs", "sent", "portal"} \X Ids)]
  /\ bound \in Bounds
  /\ faults \in 0..bound.faults
  /\ due \in [Workers -> SUBSET Ids]
  /\ astray \subseteq Ids

(* Every row of a conversation, and every history loaded for one, is under *)
(* the conversation's root, in whatever order mails arrive, are stored and *)
(* are looked up, unless some mail of it was looked up before all it names *)
(* and could not tell the root.                                            *)
OneThread ==
  \A m \in Known : mails[m].root \in astray \/
    /\ runs[m].thread \in {0, mails[m].root}
    /\ sent[m] \in {0, mails[m].root}
    /\ portal[m].thread \in {0, mails[m].root}
    /\ \A w \in Workers :
         mail[w] = m /\ step[w] \in {"use", "readSent", "readPortal"} =>
           Thread(w) = mails[m].root

(* The history the AI is given for a mail holds every mail of its          *)
(* conversation that was recorded when the loading began, unless the       *)
(* conversation went astray.  It never holds a mail twice, but a portal    *)
(* reply the server put in the Sent folder, nor one of another             *)
(* conversation.                                                           *)
ContextWhole ==
  \A w \in Workers : step[w] = "loaded" =>
    LET root == mails[mail[w]].root IN
    /\ root \in astray \/ due[w] \subseteq {h[2] : h \in history[w]}
    /\ \A g, h \in history[w] :
         g[2] = h[2] /\ g # h => {g[1], h[1]} = {"sent", "portal"}
    /\ \A h \in history[w] : mails[h[2]].root = root
=============================================================================

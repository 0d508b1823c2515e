------------------------- MODULE ThreadIndexProofs -------------------------
(***************************************************************************)
(* Safety of ThreadIndex for any number of workers, mails and faults.      *)
(* Three facts carry the argument: whatever thread id a row or a worker    *)
(* holds names a mail of its own conversation (RunsOK, SentOK, PortalOK);  *)
(* of a conversation that did not go astray that id is the root (RowsTrue, *)
(* LookOK); and rows are never taken back, so that what was recorded when  *)
(* a load began is met by one of its three statements (DueOK).             *)
(***************************************************************************)
EXTENDS ThreadIndex, SequenceTheorems, TLAPS

(* A mail, and the sequence of them: a mail names earlier mails of its own *)
(* conversation, and one that names none starts a conversation.            *)
Mail == [kind : Kinds, parent : Nat, refs : Seq(Nat), safe : BOOLEAN,
         root : Nat]

MailsOK ==
  /\ mails \in Seq(Mail)
  /\ Len(mails) <= MaxMails
  /\ \A m \in Known :
       /\ mails[m].root \in 1..m
       /\ mails[m].parent \in 0..(m - 1)
       /\ mails[m].refs \in Seq(1..(m - 1))
       /\ \A i \in Related(m) : mails[i].root = mails[m].root
       /\ Related(m) = {} => mails[m].root = m

(* The rest of TypeOK, by owner.                                           *)
TablesOK ==
  /\ mailed \subseteq Known /\ copied \subseteq mailed
  /\ runs \in [Ids -> [thread : 0..MaxMails, out : 0..MaxMails,
                       state : {"none", "claimed", "safe", "unsafe",
                                "handled", "replied"}]]
  /\ sent \in [Ids -> 0..MaxMails]
  /\ portal \in [Ids -> [thread : 0..MaxMails,
                         status : {"none", "sending", "sent", "uncertain"}]]
  /\ bound \in Bounds
  /\ faults \in 0..bound.faults
  /\ astray \subseteq Ids

LocalOK ==
  /\ step \in [Workers -> {"idle", "runs", "sent", "portal", "use", "scan",
                           "readSent", "readPortal", "loaded",
                           "record", "send", "mark"}]
  /\ job \in [Workers -> {"none", "claim", "sync", "context"}]
  /\ mail \in [Workers -> 0..MaxMails]
  /\ found \in [Workers -> 0..MaxMails]
  /\ history \in [Workers -> SUBSET ({"runs", "sent", "portal"} \X Ids)]
  /\ due \in [Workers -> SUBSET Ids]

(* Two mails of one conversation, the first of them composed.              *)
Akin(i, m) == i \in Known /\ mails[i].root = mails[m].root

(* A row is about a mail that was composed, and its thread id names a mail *)
(* of the same conversation, even of one that went astray.                 *)
RunsOK ==
  \A r \in Ids :
    /\ runs[r].thread = 0 => runs[r] = NoRun
    /\ runs[r].thread # 0 => r \in Known /\ Akin(runs[r].thread, r)
    /\ runs[r].out # 0 => Akin(runs[r].out, r)
    /\ runs[r].state \in Safe => mails[r].safe

SentOK ==
  \A s \in Ids : sent[s] # 0 => s \in Known /\ Akin(sent[s], s)

PortalOK ==
  \A p \in Ids :
    /\ portal[p].thread = 0 => portal[p].status = "none"
    /\ portal[p].thread # 0 => p \in Known /\ Akin(portal[p].thread, p)

(* The rows of a conversation that did not go astray are under its root.   *)
RowsTrue ==
  \A m \in Known : mails[m].root \in astray \/
    /\ runs[m].thread \in {0, mails[m].root}
    /\ sent[m] \in {0, mails[m].root}
    /\ portal[m].thread \in {0, mails[m].root}

(* Where a worker is, what it works on, and what its row says.             *)
AtContext == {"scan", "readSent", "readPortal", "loaded", "record", "send",
              "mark"}

StageOf(w) ==
  /\ step[w] # "idle" => mail[w] \in Known
  /\ step[w] = "idle" =>
       job[w] = "none" /\ found[w] = 0 /\ history[w] = {} /\ due[w] = {}
  /\ step[w] \in AtContext => job[w] = "context"
  /\ job[w] = "context" =>
       /\ mail[w] \in Known /\ runs[mail[w]].thread # 0
       /\ runs[mail[w]].state \in
            IF step[w] = "scan" THEN {"claimed", "safe"} ELSE {"safe"}
  /\ step[w] \in {"runs", "sent", "portal"} => found[w] = 0
  /\ found[w] # 0 => Akin(found[w], mail[w])

StageOK == \A w \in Workers : StageOf(w)

OneHandler ==
  \A v, w \in Workers :
    job[v] = "context" /\ job[w] = "context" /\ mail[v] = mail[w] => v = w

(* A mail that names something recorded is sure to meet it.                *)
Rooted(w) == Fallback(mail[w]) = mails[mail[w]].root

LookOf(w) ==
  step[w] # "idle" => mails[mail[w]].root \in astray \/
    /\ step[w] = "sent" =>
         \/ Rooted(w)
         \/ \E i \in Related(mail[w]) : sent[i] # 0 \/ portal[i].thread # 0
    /\ step[w] = "portal" =>
         Rooted(w) \/ \E i \in Related(mail[w]) : portal[i].thread # 0
    /\ step[w] \in {"use", "readSent", "readPortal"} =>
         Thread(w) = mails[mail[w]].root

LookOK == \A w \in Workers : LookOf(w)

(* What a worker has read is of the mail's conversation, and read once.    *)
HistoryOf(w) ==
  /\ \A h \in history[w] : Akin(h[2], mail[w])
  /\ step[w] = "readSent" => \A h \in history[w] : h[1] = "runs"
  /\ step[w] = "readPortal" => \A h \in history[w] : h[1] \in {"runs", "sent"}
  /\ \A g, h \in history[w] :
       g[2] = h[2] /\ g # h => {g[1], h[1]} = {"sent", "portal"}

HistoryOK == \A w \in Workers : HistoryOf(w)

(* What it must read is recorded still, and is read or still to be read.   *)
InReply(i)   == \E r \in Ids : runs[r].out = i /\ runs[r].state = "replied"
ByPortal(i)  == mails[i].kind = "portal" /\ portal[i].status \in
                                              {"sent", "uncertain"}
IsRecorded(i) ==
  runs[i].state \in Safe \/ InReply(i) \/ sent[i] # 0 \/ ByPortal(i)

Read(w) == {h[2] : h \in history[w]}

DueOf(w) ==
  /\ \A i \in due[w] : Akin(i, mail[w]) /\ i # mail[w] /\ IsRecorded(i)
  /\ step[w] \in AtContext => mails[mail[w]].root \in astray \/
       \A i \in due[w] :
         /\ step[w] = "readSent" =>
              i \in Read(w) \/ sent[i] # 0 \/ ByPortal(i)
         /\ step[w] = "readPortal" => i \in Read(w) \/ ByPortal(i)
         /\ step[w] = "loaded" => i \in Read(w)

DueOK == \A w \in Workers : DueOf(w)

IndexInv ==
  /\ MailsOK /\ TablesOK /\ LocalOK
  /\ RunsOK /\ SentOK /\ PortalOK /\ RowsTrue
  /\ StageOK /\ OneHandler /\ LookOK /\ HistoryOK /\ DueOK

-----------------------------------------------------------------------------
(* Mails.                                                                  *)

(* What a sequence holds, and one that got an element more.                *)
LEMMA EmptyRange == Range(<<>>) = {}
  BY DEF Range

(* One element more.                                                       *)
LEMMA AppendRange ==
  ASSUME NEW S, NEW s \in Seq(S), NEW e \in S
  PROVE  /\ Append(s, e) \in Seq(S)
         /\ Range(Append(s, e)) = Range(s) \cup {e}
<1>1. /\ Append(s, e) \in Seq(S) /\ Len(Append(s, e)) = Len(s) + 1
      /\ \A i \in 1..Len(s) : Append(s, e)[i] = s[i]
      /\ Append(s, e)[Len(s) + 1] = e /\ Len(s) \in Nat
  BY AppendProperties, LenProperties
<1>2. Range(Append(s, e)) = {Append(s, e)[i] : i \in 1..(Len(s) + 1)}
  BY <1>1, RangeEquality
<1>3. Range(s) = {s[i] : i \in 1..Len(s)}
  BY RangeEquality
<1> HIDE DEF Range
<1> QED BY <1>1, <1>2, <1>3

(* The first of a mail's names, else the mail itself, is of the mail's     *)
(* conversation, as all its names are.                                     *)
LEMMA Kin ==
  ASSUME MailsOK, NEW m \in Known
  PROVE  /\ Related(m) \subseteq Known /\ m \in Ids /\ Known \subseteq Ids
         /\ Related(m) \subseteq 1..(m - 1)
         /\ \A i \in Related(m) : Akin(i, m)
         /\ Fallback(m) \in Known /\ Akin(Fallback(m), m)
         /\ Related(m) = {} => Fallback(m) = mails[m].root
         /\ mails[m].root \in Ids
<1>1. /\ Len(mails) \in Nat /\ Len(mails) <= MaxMails /\ MaxMails \in Nat
      /\ mails[m].root \in 1..m /\ mails[m].parent \in 0..(m - 1)
      /\ mails[m].refs \in Seq(1..(m - 1))
      /\ \A i \in Related(m) : mails[i].root = mails[m].root
      /\ Related(m) = {} => mails[m].root = m
  BY IndexAssumption DEF MailsOK
<1>2. Range(mails[m].refs) = {mails[m].refs[k] : k \in 1..Len(mails[m].refs)}
  BY <1>1, RangeEquality
<1>3. Range(mails[m].refs) \subseteq 1..(m - 1)
  BY <1>1, RangeOfSeq
<1>4. Related(m) \subseteq 1..(m - 1)
  BY <1>1, <1>3 DEF Related
<1>5. 1..(m - 1) \subseteq Known /\ m \in Ids /\ Known \subseteq Ids
  BY <1>1 DEF Known, Ids
<1>6. Fallback(m) \in Related(m) \cup {m}
  <2>1. CASE mails[m].refs # <<>>
    <3>1. /\ 1 \in 1..Len(mails[m].refs)
          /\ Head(mails[m].refs) = mails[m].refs[1]
      BY <1>1, <2>1
    <3>2. Head(mails[m].refs) \in Range(mails[m].refs)
      BY <1>2, <3>1
    <3>3. Head(mails[m].refs) # 0
      BY <1>3, <3>2
    <3> QED BY <2>1, <3>2, <3>3 DEF Fallback, Related
  <2>2. CASE mails[m].refs = <<>>
    BY <2>2 DEF Fallback, Related
  <2> QED BY <2>1, <2>2
<1>7. Related(m) = {} => Fallback(m) = mails[m].root
  BY <1>1, <1>6
<1>8. mails[m].root \in Ids
  BY <1>1, <1>5 DEF Ids
<1> QED BY <1>1, <1>4, <1>5, <1>6, <1>7, <1>8 DEF Akin

(* The mailbox only grows.                                                 *)
Grows == \A m \in Known : m \in Known' /\ mails'[m] = mails[m]

(* What is known of a mail stays known.                                    *)
LEMMA Stays ==
  ASSUME Grows
  PROVE  \A m \in Known :
           /\ Related(m)' = Related(m) /\ Fallback(m)' = Fallback(m)
           /\ \A i : Akin(i, m) => Akin(i, m)'
           /\ mails'[m].root = mails[m].root
<1>1. \A m \in Known : /\ Related(m)' = Related(m)
                       /\ Fallback(m)' = Fallback(m)
  BY DEF Grows, Related, Fallback
<1>2. \A m \in Known : \A i : Akin(i, m) => Akin(i, m)'
  BY DEF Grows, Akin
<1> QED BY <1>1, <1>2 DEF Grows

(* Composing an answer to a mail, with its references or none, or a mail   *)
(* that answers none.                                                      *)
Names(p, refs) ==
  IF p = 0 THEN refs = <<>> ELSE p \in Known /\ refs \in {<<>>, ReplyRefs(p)}

(* A composed mail is the next one, in the conversation of the mail it     *)
(* answers or in one of its own, and changes no other.                     *)
LEMMA Composes ==
  ASSUME MailsOK, NEW k \in Kinds, NEW p, NEW refs, NEW s \in BOOLEAN,
         Names(p, refs), Compose(k, p, refs, s)
  PROVE  /\ MailsOK' /\ Grows
         /\ Len(mails') = Len(mails) + 1 /\ Len(mails') \in Ids
         /\ Known' = Known \cup {Len(mails')} /\ Len(mails') \notin Known
         /\ mails'[Len(mails')].root =
              IF p = 0 THEN Len(mails') ELSE mails[p].root
         /\ mails'[Len(mails')].kind = k
<1>0. PICK n : n = Len(mails) + 1
  OBVIOUS
<1> DEFINE x == [kind |-> k, parent |-> p, refs |-> refs, safe |-> s,
                 root |-> IF p = 0 THEN n ELSE mails[p].root]
<1>1. /\ mails \in Seq(Mail) /\ Len(mails) \in Nat /\ MaxMails \in Nat
      /\ n \in Ids /\ n \in Nat \ {0} /\ mails' = Append(mails, x)
  BY <1>0, IndexAssumption DEF MailsOK, Compose
<1>2. CASE p # 0
  <2>1. /\ p \in Known /\ p < n /\ p \in Nat /\ p >= 1
        /\ refs \in {<<>>, ReplyRefs(p)}
    BY <1>0, <1>1, <1>2 DEF Names, Known
  <2>2. /\ mails[p].root \in 1..p /\ mails[p].refs \in Seq(1..(p - 1))
        /\ \A i \in Related(p) : mails[i].root = mails[p].root
    BY <2>1 DEF MailsOK
  <2>3. /\ ReplyRefs(p) \in Seq(1..p)
        /\ Range(ReplyRefs(p)) \subseteq Range(mails[p].refs) \cup {p}
    <3>1. mails[p].refs \in Seq(1..p) /\ p \in 1..p
      BY <2>1, <2>2, 1..(p - 1) \subseteq 1..p, SeqMonotonic
    <3> QED BY <3>1, AppendRange DEF ReplyRefs
  <2>4. \A i \in Range(refs) : i = p \/ i \in Range(mails[p].refs)
    BY <2>1, <2>3, EmptyRange
  <2>5. \A i \in Range(mails[p].refs) : i \in 1..(p - 1)
    BY <2>2, RangeOfSeq
  <2>6. \A i \in Range(refs) \cup {p} :
          i \in Known /\ mails[i].root = mails[p].root
    <3>1. \A i \in Range(mails[p].refs) :
            i \in Known /\ i \in Related(p)
      BY <2>1, <2>5 DEF Related, Known
    <3> QED BY <2>1, <2>2, <2>4, <3>1
  <2>7. refs \in Seq(1..(n - 1)) /\ refs \in Seq(Nat)
    <3>1. 1..p \subseteq 1..(n - 1) /\ 1..p \subseteq Nat
      BY <1>1, <2>1
    <3>2. <<>> \in Seq(1..(n - 1)) /\ <<>> \in Seq(Nat)
      BY EmptySeq
    <3>3. /\ ReplyRefs(p) \in Seq(1..(n - 1))
          /\ ReplyRefs(p) \in Seq(Nat)
      BY <2>3, <3>1, SeqMonotonic
    <3> QED BY <2>1, <3>2, <3>3
  <2>8. x \in Mail /\ x.root \in 1..n /\ x.parent \in 0..(n - 1)
    <3>1. mails[p].root \in Nat /\ mails[p].root \in 1..n /\ p \in 0..(n - 1)
      BY <1>1, <2>1, <2>2
    <3>2. x = [kind |-> k, parent |-> p, refs |-> refs, safe |-> s,
               root |-> mails[p].root]
      BY <1>2
    <3> HIDE DEF x
    <3>3. x \in Mail
      BY <2>1, <2>7, <3>1, <3>2 DEF Mail
    <3> QED BY <3>1, <3>2, <3>3
  <2> HIDE DEF x
  <2>9. /\ mails' \in Seq(Mail) /\ Len(mails') = n /\ mails'[n] = x
        /\ \A m \in Known : mails'[m] = mails[m]
    BY <1>0, <1>1, <2>8, AppendProperties DEF Known
  <2>10. Known' = Known \cup {n} /\ n \notin Known
    BY <1>0, <1>1, <2>9 DEF Known
  <2>11. Grows
    BY <2>9, <2>10 DEF Grows
  <2>12. Related(n)' = (Range(refs) \cup {p}) \ {0}
    <3>1. mails'[n].refs = refs /\ mails'[n].parent = p
      BY <2>9 DEF x
    <3> QED BY <3>1 DEF Related
  <2>13. \A i \in Related(n)' : mails'[i].root = mails'[n].root
    BY <1>2, <2>6, <2>9, <2>12 DEF x
  <2>14. Related(n)' # {}
    BY <1>2, <2>12
  <2>15. \A m \in Known : /\ \A i \in Related(m) : i \in Known
                          /\ Related(m)' = Related(m)
    BY <2>11, Kin, Stays
  <2>16. MailsOK'
    <3>1. Len(mails') <= MaxMails
      BY <1>1, <2>9 DEF Ids
    <3>2. \A m \in Known :
            /\ mails'[m].root \in 1..m
            /\ mails'[m].parent \in 0..(m - 1)
            /\ mails'[m].refs \in Seq(1..(m - 1))
            /\ \A i \in Related(m)' : mails'[i].root = mails'[m].root
            /\ Related(m)' = {} => mails'[m].root = m
      <4> SUFFICES ASSUME NEW m \in Known
                   PROVE  /\ mails'[m].root \in 1..m
                          /\ mails'[m].parent \in 0..(m - 1)
                          /\ mails'[m].refs \in Seq(1..(m - 1))
                          /\ \A i \in Related(m)' :
                               mails'[i].root = mails'[m].root
                          /\ Related(m)' = {} => mails'[m].root = m
        OBVIOUS
      <4>1. mails'[m] = mails[m] /\ Related(m)' = Related(m)
            /\ \A i \in Related(m) : mails'[i] = mails[i]
        BY <2>9, <2>15
      <4> QED BY <4>1 DEF MailsOK
    <3>3. /\ mails'[n].root \in 1..n
          /\ mails'[n].parent \in 0..(n - 1)
          /\ mails'[n].refs \in Seq(1..(n - 1))
      BY <2>7, <2>8, <2>9 DEF x
    <3> QED BY <2>9, <2>10, <2>13, <2>14, <3>1, <3>2, <3>3 DEF MailsOK
  <2> QED BY <1>0, <1>1, <1>2, <2>9, <2>10, <2>11, <2>16 DEF x
<1>3. CASE p = 0
  <2>1. refs = <<>>
    BY <1>3 DEF Names
  <2>2. x \in Mail /\ x.root = n /\ x.parent = 0 /\ x.refs = <<>>
    <3>1. <<>> \in Seq(Nat)
      BY EmptySeq
    <3> QED BY <1>1, <1>3, <2>1, <3>1 DEF Mail
  <2>3. n \in Nat /\ n >= 1 /\ n <= MaxMails
    BY <1>1 DEF Ids
  <2> HIDE DEF x
  <2>4. /\ mails' \in Seq(Mail) /\ Len(mails') = n /\ mails'[n] = x
        /\ \A m \in Known : mails'[m] = mails[m]
    BY <1>0, <1>1, <2>2, AppendProperties DEF Known
  <2>5. Known' = Known \cup {n} /\ n \notin Known
    BY <1>0, <1>1, <2>4 DEF Known
  <2>6. Grows
    BY <2>4, <2>5 DEF Grows
  <2>7. Related(n)' = {}
    <3>1. mails'[n].refs = <<>> /\ mails'[n].parent = 0
      BY <2>2, <2>4
    <3> QED BY <3>1, EmptyRange DEF Related
  <2>8. \A m \in Known : /\ \A i \in Related(m) : i \in Known
                         /\ Related(m)' = Related(m)
    BY <2>6, Kin, Stays
  <2>9. MailsOK'
    <3>1. \A m \in Known :
            /\ mails'[m].root \in 1..m
            /\ mails'[m].parent \in 0..(m - 1)
            /\ mails'[m].refs \in Seq(1..(m - 1))
            /\ \A i \in Related(m)' : mails'[i].root = mails'[m].root
            /\ Related(m)' = {} => mails'[m].root = m
      <4> SUFFICES ASSUME NEW m \in Known
                   PROVE  /\ mails'[m].root \in 1..m
                          /\ mails'[m].parent \in 0..(m - 1)
                          /\ mails'[m].refs \in Seq(1..(m - 1))
                          /\ \A i \in Related(m)' :
                               mails'[i].root = mails'[m].root
                          /\ Related(m)' = {} => mails'[m].root = m
        OBVIOUS
      <4>1. mails'[m] = mails[m] /\ Related(m)' = Related(m)
            /\ \A i \in Related(m) : mails'[i] = mails[i]
        BY <2>4, <2>8
      <4> QED BY <4>1 DEF MailsOK
    <3>2. /\ mails'[n].root = n /\ n \in 1..n
          /\ mails'[n].parent = 0 /\ 0 \in 0..(n - 1)
          /\ mails'[n].refs \in Seq(1..(n - 1))
      <4>1. <<>> \in Seq(1..(n - 1))
        BY EmptySeq
      <4>2. n \in 1..n /\ 0 \in 0..(n - 1)
        BY <2>3
      <4> QED BY <2>2, <2>4, <4>1, <4>2
    <3> QED BY <2>3, <2>4, <2>5, <2>7, <3>1, <3>2 DEF MailsOK
  <2> QED BY <1>0, <1>1, <1>3, <2>2, <2>4, <2>5, <2>6, <2>9 DEF x
<1> QED BY <1>2, <1>3

-----------------------------------------------------------------------------
(* What the world does: it writes mails, and moves a portal mail on.       *)

(* A new portal mail is under the root of its conversation, unless that    *)
(* went astray, and in any case under the name of a mail of it.            *)
PortalMoves ==
  \/ portal' = portal
  \/ \E n \in Known' \ Known, t \in Ids :
       /\ portal' = [portal EXCEPT ![n] =
                       [thread |-> t, status |-> "sending"]]
       /\ t \in Known' /\ mails'[t].root = mails'[n].root
       /\ mails'[n].root \in astray \/ t = mails'[n].root
  \/ \E p \in Known, s \in {"sent", "uncertain"} :
       /\ portal[p].status = "sending"
       /\ portal' = [portal EXCEPT ![p].status = s]

World ==
  \/ MailArrives \/ OwnerWrites \/ CopyToSent
  \/ PortalReply \/ PortalForward \/ PortalAccepted \/ PortalFinish

WorldMoves ==
  /\ MailsOK' /\ Grows /\ PortalMoves
  /\ mailed' \subseteq Known' /\ copied' \subseteq mailed'
  /\ UNCHANGED <<runs, sent, step, job, mail, found, history, faults, due,
                 astray>>

(* Most steps write no mail.                                               *)
LEMMA NoMail ==
  ASSUME MailsOK, mails' = mails
  PROVE  MailsOK' /\ Grows /\ Known' = Known
<1>1. Known' = Known /\ Grows
  BY DEF Known, Grows
<1>2. \A m : Related(m)' = Related(m)
  BY DEF Related
<1>3. MailsOK'
  BY <1>1, <1>2 DEF MailsOK
<1> QED BY <1>1, <1>3

(* The mails of a conversation's timeline are of one conversation.         *)
LEMMA Timeline ==
  ASSUME MailsOK, TablesOK, RunsOK, PortalOK, RowsTrue,
         NEW t \in {runs[r].thread : r \in Ids} \ {0},
         NEW p \in {r \in Ids : runs[r].thread = t}
                     \cup ({runs[r].out : r \in {q \in Ids :
                                                   runs[q].thread = t}} \ {0})
                     \cup {q \in Ids : portal[q].thread = t}
  PROVE  /\ p \in Known /\ t \in Known /\ t \in Ids
         /\ mails[t].root = mails[p].root
         /\ mails[p].root \in astray \/ t = mails[p].root
<1>1. PICK r \in Ids : runs[r].thread = t
  OBVIOUS
<1>2. t # 0 /\ t \in Known /\ t \in Ids
  BY <1>1, Kin DEF RunsOK, Akin
<1>3. CASE p \in Ids /\ runs[p].thread = t
  BY <1>2, <1>3 DEF RunsOK, RowsTrue, Akin
<1>4. CASE p \in Ids /\ portal[p].thread = t
  BY <1>2, <1>4 DEF PortalOK, RowsTrue, Akin
<1>5. CASE \E q \in Ids : runs[q].thread = t /\ runs[q].out = p /\ p # 0
  <2>1. PICK q \in Ids : runs[q].thread = t /\ runs[q].out = p /\ p # 0
    BY <1>5
  <2>2. q \in Known /\ Akin(t, q) /\ Akin(p, q)
    BY <1>2, <2>1 DEF RunsOK
  <2>3. mails[q].root \in astray \/ runs[q].thread \in {0, mails[q].root}
    BY <2>2 DEF RowsTrue
  <2> QED BY <1>2, <2>1, <2>2, <2>3 DEF Akin
<1> QED BY <1>3, <1>4, <1>5

(* The clients, the server and the portal leave the workers and the other  *)
(* tables alone.                                                           *)
LEMMA WorldStep ==
  ASSUME MailsOK, TablesOK, RunsOK, PortalOK, RowsTrue, World
  PROVE  WorldMoves
<1> USE DEF world, tables, worker, TablesOK
<1>1. MaxMails \in Nat
  BY IndexAssumption
<1>2. CASE MailArrives
  <2>1. PICK p \in {0} \cup {m \in Known : mails[m].kind \in {"in", "own"}}
              \cup mailed, safe \in BOOLEAN :
          \E refs \in Habit(p) : Compose("in", p, refs, safe)
    BY <1>2 DEF MailArrives
  <2>2. PICK refs \in Habit(p) : Compose("in", p, refs, safe)
    BY <2>1
  <2>3. Names(p, refs) /\ "in" \in Kinds
    BY <2>2 DEF Names, Habit, Kinds
  <2>4. MailsOK' /\ Grows /\ Known \subseteq Known'
    BY <2>2, <2>3, Composes
  <2> QED BY <1>2, <2>4 DEF MailArrives, WorldMoves, PortalMoves
<1>3. CASE OwnerWrites
  <2>1. PICK p \in {0} \cup {m \in Known : mails[m].kind \in {"in", "own"}}
              \cup copied :
          \E refs \in Habit(p) : Compose("own", p, refs, TRUE)
    BY <1>3 DEF OwnerWrites
  <2>2. PICK refs \in Habit(p) : Compose("own", p, refs, TRUE)
    BY <2>1
  <2>3. Names(p, refs) /\ "own" \in Kinds
    BY <2>2 DEF Names, Habit, Kinds
  <2>4. MailsOK' /\ Grows /\ Known \subseteq Known'
    BY <2>2, <2>3, Composes
  <2> QED BY <1>3, <2>4 DEF OwnerWrites, WorldMoves, PortalMoves
<1>4. CASE CopyToSent
  <2>1. mails' = mails
    BY <1>4 DEF CopyToSent
  <2>2. MailsOK' /\ Grows /\ Known' = Known
    BY <2>1, NoMail
  <2> QED BY <1>4, <2>2 DEF CopyToSent, WorldMoves, PortalMoves
<1>5. CASE PortalReply
  <2>1. PICK t \in {runs[r].thread : r \in Ids} \ {0} :
          \E p \in {r \in Ids : runs[r].thread = t}
                     \cup ({runs[r].out : r \in {q \in Ids :
                                                   runs[q].thread = t}} \ {0})
                     \cup {q \in Ids : portal[q].thread = t} :
            /\ Compose("portal", p, ReplyRefs(p), TRUE)
            /\ portal' = [portal EXCEPT ![Len(mails')] =
                 [thread |-> t, status |-> "sending"]]
    BY <1>5 DEF PortalReply
  <2>2. PICK p \in {r \in Ids : runs[r].thread = t}
                     \cup ({runs[r].out : r \in {q \in Ids :
                                                   runs[q].thread = t}} \ {0})
                     \cup {q \in Ids : portal[q].thread = t} :
            /\ Compose("portal", p, ReplyRefs(p), TRUE)
            /\ portal' = [portal EXCEPT ![Len(mails')] =
                 [thread |-> t, status |-> "sending"]]
    BY <2>1
  <2>3. /\ p \in Known /\ t \in Known /\ t \in Ids
        /\ mails[t].root = mails[p].root
        /\ mails[p].root \in astray \/ t = mails[p].root
    BY Timeline
  <2>4. Names(p, ReplyRefs(p)) /\ "portal" \in Kinds /\ p # 0
    BY <2>3 DEF Names, Kinds, Known
  <2>5. /\ MailsOK' /\ Grows /\ Known \subseteq Known'
        /\ Len(mails') \in Known' \ Known
        /\ mails'[Len(mails')].root = mails[p].root
    BY <2>2, <2>4, Composes
  <2>6. t \in Known' /\ mails'[t].root = mails[t].root
    BY <2>3, <2>5 DEF Grows
  <2>7. PortalMoves
    BY <2>2, <2>3, <2>5, <2>6 DEF PortalMoves
  <2> QED BY <1>5, <2>5, <2>7 DEF PortalReply, WorldMoves
<1>6. CASE PortalForward
  <2>1. Compose("forward", 0, <<>>, TRUE)
    BY <1>6 DEF PortalForward
  <2>2. Names(0, <<>>) /\ "forward" \in Kinds
    BY DEF Names, Kinds
  <2>3. /\ MailsOK' /\ Grows /\ Known \subseteq Known'
        /\ Len(mails') \in Known' \ Known /\ Len(mails') \in Ids
        /\ mails'[Len(mails')].root = Len(mails')
    BY <2>1, <2>2, Composes
  <2>4. PortalMoves
    BY <1>6, <2>3 DEF PortalMoves, PortalForward
  <2> QED BY <1>6, <2>3, <2>4 DEF PortalForward, WorldMoves
<1>7. CASE PortalAccepted
  <2>1. mails' = mails
    BY <1>7 DEF PortalAccepted
  <2>2. MailsOK' /\ Grows /\ Known' = Known
    BY <2>1, NoMail
  <2> QED BY <1>7, <2>2 DEF PortalAccepted, WorldMoves, PortalMoves
<1>8. CASE PortalFinish
  <2>1. mails' = mails
    BY <1>8 DEF PortalFinish
  <2>2. MailsOK' /\ Grows /\ Known' = Known
    BY <2>1, NoMail
  <2> QED BY <1>8, <2>2 DEF PortalFinish, WorldMoves, PortalMoves
<1> QED BY <1>2, <1>3, <1>4, <1>5, <1>6, <1>7, <1>8 DEF World

-----------------------------------------------------------------------------
(* What the workers do: one at a time moves, and only the one that answers *)
(* writes a mail.                                                          *)

WorkerDoes(w) ==
  \/ Claim(w) \/ SyncSent(w)
  \/ LookInRuns(w) \/ LookInSent(w) \/ LookInPortal(w)
  \/ SaveRun(w) \/ SaveSent(w) \/ Scan(w)
  \/ ReadRuns(w) \/ ReadSent(w) \/ ReadPortal(w)
  \/ ComposeReply(w) \/ RecordOutbound(w) \/ SendMail(w)
  \/ MarkRun(w) \/ GiveUp(w)

Waits(v) ==
  /\ step'[v] = step[v] /\ job'[v] = job[v] /\ mail'[v] = mail[v]
  /\ found'[v] = found[v] /\ history'[v] = history[v] /\ due'[v] = due[v]

WorkerMoves(w) ==
  /\ MailsOK' /\ Grows /\ portal' = portal
  /\ \A v \in Workers \ {w} : Waits(v)

(* No worker's step touches what another worker holds, or portal rows.     *)
LEMMA WorkerStep ==
  ASSUME MailsOK, LocalOK, StageOK, NEW w \in Workers, WorkerDoes(w)
  PROVE  WorkerMoves(w)
<1> USE DEF world, tables, worker, LocalOK
<1>1. CASE ComposeReply(w)
  <2>1. mail[w] \in Known /\ mail[w] # 0
    BY <1>1 DEF ComposeReply, StageOK, StageOf, Known
  <2>2. Names(mail[w], ReplyRefs(mail[w])) /\ "reply" \in Kinds
    BY <2>1 DEF Names, Kinds
  <2>3. MailsOK' /\ Grows
    BY <1>1, <2>2, Composes, NoMail DEF ComposeReply
  <2>4. \A v \in Workers \ {w} : Waits(v)
    BY <1>1 DEF ComposeReply, Goto, Waits
  <2> QED BY <1>1, <2>3, <2>4 DEF ComposeReply, WorkerMoves
<1>2. CASE ~ComposeReply(w)
  <2>1. mails' = mails /\ portal' = portal
    BY <1>2 DEF WorkerDoes, Claim, SyncSent, LookInRuns, LookInSent,
       LookInPortal, SaveRun, SaveSent, Scan, ReadRuns, ReadSent, ReadPortal,
       RecordOutbound, SendMail, MarkRun, GiveUp
  <2>2. MailsOK' /\ Grows
    BY <2>1, NoMail
  <2>3. ASSUME Claim(w) PROVE \A v \in Workers \ {w} : Waits(v)
    BY <2>3 DEF Claim, Begin, Goto, Waits
  <2>4. ASSUME SyncSent(w) PROVE \A v \in Workers \ {w} : Waits(v)
    BY <2>4 DEF SyncSent, Begin, Goto, Waits
  <2>5. ASSUME LookInRuns(w) PROVE \A v \in Workers \ {w} : Waits(v)
    BY <2>5 DEF LookInRuns, Goto, Waits
  <2>6. ASSUME LookInSent(w) PROVE \A v \in Workers \ {w} : Waits(v)
    BY <2>6 DEF LookInSent, Goto, Waits
  <2>7. ASSUME LookInPortal(w) PROVE \A v \in Workers \ {w} : Waits(v)
    BY <2>7 DEF LookInPortal, Goto, Waits
  <2>8. ASSUME SaveRun(w) PROVE \A v \in Workers \ {w} : Waits(v)
    BY <2>8 DEF SaveRun, Stop, Goto, Waits
  <2>9. ASSUME SaveSent(w) PROVE \A v \in Workers \ {w} : Waits(v)
    BY <2>9 DEF SaveSent, Stop, Waits
  <2>10. ASSUME Scan(w) PROVE \A v \in Workers \ {w} : Waits(v)
    BY <2>10 DEF Scan, Begin, Stop, Goto, Waits
  <2>11. ASSUME ReadRuns(w) PROVE \A v \in Workers \ {w} : Waits(v)
    BY <2>11 DEF ReadRuns, Goto, Waits
  <2>12. ASSUME ReadSent(w) PROVE \A v \in Workers \ {w} : Waits(v)
    BY <2>12 DEF ReadSent, Goto, Waits
  <2>13. ASSUME ReadPortal(w) PROVE \A v \in Workers \ {w} : Waits(v)
    BY <2>13 DEF ReadPortal, Goto, Waits
  <2>14. ASSUME RecordOutbound(w) PROVE \A v \in Workers \ {w} : Waits(v)
    BY <2>14 DEF RecordOutbound, Goto, Waits
  <2>15. ASSUME SendMail(w) PROVE \A v \in Workers \ {w} : Waits(v)
    BY <2>15 DEF SendMail, Goto, Waits
  <2>16. ASSUME MarkRun(w) PROVE \A v \in Workers \ {w} : Waits(v)
    BY <2>16 DEF MarkRun, Stop, Waits
  <2>17. ASSUME GiveUp(w) PROVE \A v \in Workers \ {w} : Waits(v)
    BY <2>17 DEF GiveUp, Stop, Waits
  <2>18. \A v \in Workers \ {w} : Waits(v)
    BY <1>2, <2>3, <2>4, <2>5, <2>6, <2>7, <2>8, <2>9,
       <2>10, <2>11, <2>12, <2>13, <2>14, <2>15, <2>16, <2>17 DEF WorkerDoes
  <2> QED BY <2>1, <2>2, <2>18 DEF WorkerMoves
<1> QED BY <1>1, <1>2

-----------------------------------------------------------------------------
(* Types.                                                                  *)

(* The thread a worker settles on names a mail.                            *)
LEMMA ThreadType ==
  ASSUME MailsOK, LocalOK, StageOK, NEW w \in Workers, step[w] # "idle"
  PROVE  /\ mail[w] \in Known /\ mail[w] \in Ids /\ Ids \subseteq 0..MaxMails
         /\ Thread(w) \in Ids /\ 0 \in 0..MaxMails
<1>1. mail[w] \in Known
  BY DEF StageOK, StageOf
<1>2. mail[w] \in Ids /\ Fallback(mail[w]) \in Ids
  BY <1>1, Kin
<1>3. Ids \subseteq 0..MaxMails /\ 0 \in 0..MaxMails
  BY IndexAssumption DEF Ids
<1>4. found[w] \in 0..MaxMails
  BY DEF LocalOK
<1> QED BY <1>1, <1>2, <1>3, <1>4 DEF Thread, Ids

(* The world's steps keep the types.                                       *)
LEMMA WorldTypes ==
  ASSUME MailsOK, TablesOK, LocalOK, WorldMoves, bound' = bound
  PROVE  TablesOK' /\ LocalOK'
<1>1. LocalOK'
  BY DEF LocalOK, WorldMoves
<1>2. Known \subseteq Ids /\ Ids \subseteq 0..MaxMails
  BY IndexAssumption DEF MailsOK, Known, Ids
<1>3. portal' \in [Ids -> [thread : 0..MaxMails,
                           status : {"none", "sending", "sent", "uncertain"}]]
  <2>1. CASE portal' = portal
    BY <2>1 DEF TablesOK
  <2>2. CASE \E n, t \in Ids :
               portal' = [portal EXCEPT ![n] =
                            [thread |-> t, status |-> "sending"]]
    BY <1>2, <2>2 DEF TablesOK
  <2>3. CASE \E p \in Ids, s \in {"sent", "uncertain"} :
               portal' = [portal EXCEPT ![p].status = s]
    BY <2>3 DEF TablesOK
  <2>4. Known' \subseteq Ids
    BY IndexAssumption DEF WorldMoves, MailsOK, Known, Ids
  <2> QED BY <1>2, <2>1, <2>2, <2>3, <2>4 DEF WorldMoves, PortalMoves
<1> QED BY <1>1, <1>3 DEF TablesOK, WorldMoves

(* The same fault budget as in the other modules.                          *)
LEMMA FaultBudget ==
  ASSUME TablesOK, bound' = bound,
         faults' = faults \/ (faults < bound.faults /\ faults' = faults + 1)
  PROVE  faults' \in 0..bound'.faults
<1>1. bound.faults \in Nat
  BY IndexAssumption DEF TablesOK, BoundRecord
<1> QED BY <1>1 DEF TablesOK

(* A run after one of the three writes.                                    *)
RunStates == {"none", "claimed", "safe", "unsafe", "handled", "replied"}
Run == [thread : 0..MaxMails, out : 0..MaxMails, state : RunStates]

Saved(m, t, s) == [runs EXCEPT ![m].thread = t, ![m].state = s]

(* A run by its fields.                                                    *)
LEMMA RunFields ==
  ASSUME TablesOK, NEW m \in Ids
  PROVE  /\ runs \in [Ids -> Run]
         /\ runs[m] = [thread |-> runs[m].thread, out |-> runs[m].out,
                       state |-> runs[m].state]
         /\ runs[m].out \in 0..MaxMails /\ runs[m].thread \in 0..MaxMails
         /\ runs[m].state \in RunStates
<1>1. runs \in [Ids -> Run]
  BY DEF TablesOK, Run, RunStates
<1> QED BY <1>1 DEF Run

(* A run whose state is written, in full.                                  *)
LEMMA StateWrite ==
  ASSUME TablesOK, NEW m \in Ids, NEW s \in RunStates
  PROVE  [runs EXCEPT ![m].state = s] =
           [runs EXCEPT ![m] = [thread |-> runs[m].thread,
                                out |-> runs[m].out, state |-> s]]
<1>0. runs[m] = [thread |-> runs[m].thread, out |-> runs[m].out,
                 state |-> runs[m].state]
  BY RunFields
<1>1. [runs[m] EXCEPT !.state = s] =
         [thread |-> runs[m].thread, out |-> runs[m].out, state |-> s]
  BY <1>0
<1>2. [runs EXCEPT ![m].state = s] =
        [runs EXCEPT ![m] = [runs[m] EXCEPT !.state = s]]
  OBVIOUS
<1> QED BY <1>1, <1>2

(* A run whose reply is written, in full.                                  *)
LEMMA OutWrite ==
  ASSUME TablesOK, NEW m \in Ids, NEW o \in 0..MaxMails
  PROVE  [runs EXCEPT ![m].out = o] =
           [runs EXCEPT ![m] = [thread |-> runs[m].thread, out |-> o,
                                state |-> runs[m].state]]
<1>0. runs[m] = [thread |-> runs[m].thread, out |-> runs[m].out,
                 state |-> runs[m].state]
  BY RunFields
<1>1. [runs[m] EXCEPT !.out = o] =
         [thread |-> runs[m].thread, out |-> o, state |-> runs[m].state]
  BY <1>0
<1>2. [runs EXCEPT ![m].out = o] =
        [runs EXCEPT ![m] = [runs[m] EXCEPT !.out = o]]
  OBVIOUS
<1> QED BY <1>1, <1>2

(* A run whose thread id and state are written, in full.                   *)
LEMMA SavedWrite ==
  ASSUME TablesOK, NEW m \in Ids, NEW t \in 0..MaxMails, NEW s \in RunStates
  PROVE  Saved(m, t, s) =
           [runs EXCEPT ![m] = [thread |-> t, out |-> runs[m].out,
                                state |-> s]]
<1> DEFINE X == [thread |-> t, out |-> runs[m].out, state |-> runs[m].state]
           Y == [thread |-> t, out |-> runs[m].out, state |-> s]
<1>0. runs[m] = [thread |-> runs[m].thread, out |-> runs[m].out,
                 state |-> runs[m].state]
  BY RunFields
<1>1. [runs[m] EXCEPT !.thread = t] = X
  BY <1>0
<1>2. [X EXCEPT !.state = s] = Y
  OBVIOUS
<1>3. [runs EXCEPT ![m].thread = t, ![m].state = s] =
        [[runs EXCEPT ![m] = [runs[m] EXCEPT !.thread = t]]
           EXCEPT ![m].state = s]
  OBVIOUS
<1>4. runs \in [Ids -> Run]
  BY RunFields
<1> HIDE DEF X, Y
<1>5. [[runs EXCEPT ![m] = X] EXCEPT ![m].state = s] =
        [runs EXCEPT ![m] = [X EXCEPT !.state = s]]
  BY <1>4
<1>6. [runs EXCEPT ![m].thread = t, ![m].state = s] =
        [runs EXCEPT ![m] = Y]
  BY <1>1, <1>2, <1>3, <1>5
<1> QED BY <1>6 DEF Y, Saved

(* The four writers of a run, in one form.                                 *)
RunBecomes(m, t, o, s) ==
  runs' = [runs EXCEPT ![m] = [thread |-> t, out |-> o, state |-> s]]

(* SaveRun, Scan, RecordOutbound and MarkRun write the run of the worker's *)
(* own mail, or nothing.                                                   *)
LEMMA RunWriters ==
  ASSUME TablesOK, MailsOK, LocalOK, StageOK, NEW w \in Workers
  PROVE  /\ SaveRun(w) =>
              \/ runs' = runs /\ Stop(w)
              \/ /\ RunBecomes(mail[w], Thread(w), runs[mail[w]].out,
                      IF runs[mail[w]].state = "none" THEN "claimed"
                      ELSE runs[mail[w]].state)
                 /\ runs[mail[w]].state \notin Final
                 /\ \A v \in Workers \ {w} :
                      mail[v] = mail[w] => job[v] # "context"
                 /\ job' = [job EXCEPT ![w] = "context"]
                 /\ step' = [step EXCEPT ![w] = "scan"]
                 /\ UNCHANGED <<mail, found, history, due>>
         /\ Scan(w) =>
              RunBecomes(mail[w], runs[mail[w]].thread, runs[mail[w]].out,
                IF mails[mail[w]].safe THEN "safe" ELSE "unsafe")
         /\ RecordOutbound(w) =>
              \/ runs' = runs
              \/ RunBecomes(mail[w], runs[mail[w]].thread, found[w],
                   runs[mail[w]].state)
         /\ MarkRun(w) =>
              RunBecomes(mail[w], runs[mail[w]].thread, runs[mail[w]].out,
                IF found[w] = 0 THEN "handled" ELSE "replied")
<1>1. \A m \in Ids : runs[m].state \in RunStates
  BY DEF TablesOK, RunStates
<1>2. ASSUME SaveRun(w), ~(runs' = runs /\ Stop(w))
      PROVE  RunBecomes(mail[w], Thread(w), runs[mail[w]].out,
               IF runs[mail[w]].state = "none" THEN "claimed"
               ELSE runs[mail[w]].state)
  <2>1. step[w] # "idle"
    BY <1>2 DEF SaveRun
  <2>2. mail[w] \in Ids /\ Thread(w) \in 0..MaxMails
    BY <2>1, ThreadType
  <2> DEFINE m == mail[w]
             s == IF runs[m].state = "none" THEN "claimed"
                  ELSE runs[m].state
  <2>3. s \in RunStates
    BY <1>1, <2>2 DEF RunStates
  <2>4. runs' = [runs EXCEPT ![m].thread = Thread(w), ![m].state = s]
    BY <1>2 DEF SaveRun
  <2>5. [runs EXCEPT ![m].thread = Thread(w), ![m].state = s] =
          [runs EXCEPT ![m] = [thread |-> Thread(w), out |-> runs[m].out,
                               state |-> s]]
    <3> HIDE DEF s
    <3>1. Saved(m, Thread(w), s) =
            [runs EXCEPT ![m] = [thread |-> Thread(w), out |-> runs[m].out,
                                 state |-> s]]
      BY <2>2, <2>3, SavedWrite
    <3> QED BY <3>1 DEF Saved
  <2> QED BY <2>4, <2>5 DEF RunBecomes
<1>3. ASSUME Scan(w)
      PROVE  RunBecomes(mail[w], runs[mail[w]].thread, runs[mail[w]].out,
               IF mails[mail[w]].safe THEN "safe" ELSE "unsafe")
  <2>1. step[w] # "idle"
    BY <1>3 DEF Scan
  <2>2. mail[w] \in Ids /\ 0 \in 0..MaxMails
    BY <2>1, ThreadType
  <2> DEFINE m == mail[w]
             s == IF mails[m].safe THEN "safe" ELSE "unsafe"
  <2>3. s \in RunStates /\ runs' = [runs EXCEPT ![m].state = s]
    BY <1>3 DEF RunStates, Scan
  <2>4. [runs EXCEPT ![m].state = s] =
          [runs EXCEPT ![m] = [thread |-> runs[m].thread,
                               out |-> runs[m].out, state |-> s]]
    BY <2>2, <2>3, StateWrite
  <2> QED BY <2>3, <2>4 DEF RunBecomes
<1>4. ASSUME RecordOutbound(w), runs' # runs
      PROVE  RunBecomes(mail[w], runs[mail[w]].thread, found[w],
               runs[mail[w]].state)
  <2>1. step[w] # "idle" /\ found[w] \in 0..MaxMails
    BY <1>4 DEF RecordOutbound, LocalOK
  <2>2. mail[w] \in Ids
    BY <2>1, ThreadType
  <2>3. runs' = [runs EXCEPT ![mail[w]].out = found[w]]
    BY <1>4 DEF RecordOutbound
  <2>5. [runs EXCEPT ![mail[w]].out = found[w]] =
          [runs EXCEPT ![mail[w]] = [thread |-> runs[mail[w]].thread,
             out |-> found[w], state |-> runs[mail[w]].state]]
    BY <2>1, <2>2, OutWrite
  <2> QED BY <2>3, <2>5 DEF RunBecomes
<1>5. ASSUME MarkRun(w)
      PROVE  RunBecomes(mail[w], runs[mail[w]].thread, runs[mail[w]].out,
               IF found[w] = 0 THEN "handled" ELSE "replied")
  <2>1. step[w] # "idle"
    BY <1>5 DEF MarkRun
  <2>2. mail[w] \in Ids /\ 0 \in 0..MaxMails
    BY <2>1, ThreadType
  <2> DEFINE m == mail[w]
             s == IF found[w] = 0 THEN "handled" ELSE "replied"
  <2>3. s \in RunStates /\ runs' = [runs EXCEPT ![m].state = s]
    BY <1>5 DEF RunStates, MarkRun
  <2>4. [runs EXCEPT ![m].state = s] =
          [runs EXCEPT ![m] = [thread |-> runs[m].thread,
                               out |-> runs[m].out, state |-> s]]
    BY <2>2, <2>3, StateWrite
  <2> QED BY <2>3, <2>4 DEF RunBecomes
<1>6. SaveRun(w) /\ ~(runs' = runs /\ Stop(w)) =>
        /\ runs[mail[w]].state \notin Final
        /\ \A v \in Workers \ {w} : mail[v] = mail[w] => job[v] # "context"
        /\ job' = [job EXCEPT ![w] = "context"]
        /\ step' = [step EXCEPT ![w] = "scan"]
        /\ UNCHANGED <<mail, found, history, due>>
  BY DEF SaveRun, Goto
<1> QED BY <1>2, <1>3, <1>4, <1>5, <1>6

(* They keep the table's type.                                             *)
LEMMA RunBecomesType ==
  ASSUME TablesOK, NEW m \in Ids, NEW t \in 0..MaxMails,
         NEW o \in 0..MaxMails, NEW s \in RunStates, RunBecomes(m, t, o, s)
  PROVE  runs' \in [Ids -> Run]
  BY DEF TablesOK, RunBecomes, Run, RunStates

(* The columns of a row.                                                   *)
LEMMA RunType ==
  ASSUME TablesOK, NEW m \in Ids
  PROVE  /\ runs[m].thread \in 0..MaxMails /\ runs[m].out \in 0..MaxMails
         /\ runs[m].state \in RunStates /\ sent[m] \in 0..MaxMails
         /\ portal[m].thread \in 0..MaxMails
  BY DEF TablesOK, RunStates

(* What a worker reads off a row names a mail.                             *)
LEMMA Rows ==
  ASSUME MailsOK, TablesOK, RunsOK, SentOK, PortalOK, NEW ids,
         ids \subseteq Ids
  PROVE  /\ \A r \in InRuns(ids) :
              /\ r \in Ids /\ r \in Known /\ runs[r].thread # 0
              /\ runs[r].thread \in 0..MaxMails /\ Akin(runs[r].thread, r)
              /\ r \in ids \/ (runs[r].out \in ids /\ runs[r].out # 0
                                /\ Akin(runs[r].out, r))
         /\ \A s \in InSentRows(ids) :
              /\ s \in ids /\ s \in Known /\ sent[s] # 0
              /\ sent[s] \in 0..MaxMails /\ Akin(sent[s], s)
         /\ \A p \in InPortal(ids) :
              /\ p \in ids /\ p \in Known /\ portal[p].thread # 0
              /\ portal[p].thread \in 0..MaxMails /\ Akin(portal[p].thread, p)
<1>1. 0 \notin Ids
  BY IndexAssumption DEF Ids
<1>2. ASSUME NEW r \in InRuns(ids)
      PROVE  /\ r \in Ids /\ r \in Known /\ runs[r].thread # 0
             /\ runs[r].thread \in 0..MaxMails /\ Akin(runs[r].thread, r)
             /\ r \in ids \/ (runs[r].out \in ids /\ runs[r].out # 0
                               /\ Akin(runs[r].out, r))
  <2>1. r \in Ids /\ runs[r].thread # 0 /\ (r \in ids \/ runs[r].out \in ids)
    BY <1>2 DEF InRuns
  <2>2. runs[r].thread \in 0..MaxMails
    BY <2>1, RunType
  <2> QED BY <1>1, <2>1, <2>2 DEF RunsOK
<1>3. ASSUME NEW s \in InSentRows(ids)
      PROVE  /\ s \in ids /\ s \in Known /\ sent[s] # 0
             /\ sent[s] \in 0..MaxMails /\ Akin(sent[s], s)
  <2>1. s \in ids /\ s \in Ids /\ sent[s] # 0
    BY <1>3 DEF InSentRows
  <2> QED BY <2>1, RunType DEF SentOK
<1>4. ASSUME NEW p \in InPortal(ids)
      PROVE  /\ p \in ids /\ p \in Known /\ portal[p].thread # 0
             /\ portal[p].thread \in 0..MaxMails /\ Akin(portal[p].thread, p)
  <2>1. p \in ids /\ p \in Ids /\ portal[p].thread # 0
    BY <1>4 DEF InPortal
  <2> QED BY <2>1, RunType DEF PortalOK
<1> QED BY <1>2, <1>3, <1>4

(* The names of a worker's mail are mails.                                 *)
LEMMA NamesAreIds ==
  ASSUME MailsOK, StageOK, NEW w \in Workers, step[w] # "idle"
  PROVE  /\ mail[w] \in Known /\ Related(mail[w]) \subseteq Ids
         /\ \A i \in Related(mail[w]) : Akin(i, mail[w]) /\ i # 0
         /\ mails[mail[w]].root \in Ids
<1>1. mail[w] \in Known
  BY DEF StageOK, StageOf
<1>2. 0 \notin Ids
  BY IndexAssumption DEF Ids
<1> QED BY <1>1, <1>2, Kin

(* The workers' steps keep the types.                                      *)
LEMMA WorkerTypes ==
  ASSUME MailsOK, TablesOK, LocalOK, RunsOK, SentOK, PortalOK, StageOK,
         NEW w \in Workers, WorkerDoes(w), bound' = bound
  PROVE  TablesOK' /\ LocalOK'
<1> USE DEF world, tables, worker
<1>1. Known \subseteq Ids /\ Ids \subseteq 0..MaxMails /\ 0 \in 0..MaxMails
  BY IndexAssumption DEF MailsOK, Known, Ids
<1>2. /\ \A v \in Workers : Waits(v) \/ v = w
      /\ MailsOK' /\ Grows /\ portal' = portal
  BY WorkerStep DEF WorkerMoves
<1>3. Known \subseteq Known' /\ Known' \subseteq Ids
  BY <1>2, IndexAssumption DEF Grows, MailsOK, Known, Ids
<1>4. ASSUME Claim(w) \/ SyncSent(w) PROVE TablesOK' /\ LocalOK'
  <2>1. PICK m \in Known, j \in {"claim", "sync"} : Begin(w, j, m)
    BY <1>4 DEF Claim, SyncSent
  <2>2. /\ UNCHANGED <<mails, mailed, copied, runs, sent, portal, history,
                       faults, due, astray>>
    BY <1>4 DEF Claim, SyncSent
  <2>3. TablesOK'
    BY <2>2, <1>3 DEF TablesOK
  <2>4. LocalOK'
    BY <2>1, <2>2, <1>1 DEF LocalOK, Begin, Goto
  <2> QED BY <2>3, <2>4
<1>5. ASSUME LookInRuns(w) PROVE TablesOK' /\ LocalOK'
  <2>1. step[w] # "idle"
    BY <1>5 DEF LookInRuns
  <2>2. /\ mail[w] \in Known /\ Related(mail[w]) \subseteq Ids
        /\ mails[mail[w]].root \in Ids
    BY <2>1, NamesAreIds
  <2>3. /\ UNCHANGED <<mails, mailed, copied, runs, sent, portal, job, mail,
                       history, faults>>
        /\ \/ found' = found
           \/ \E r \in InRuns(Related(mail[w])) :
                found' = [found EXCEPT ![w] = runs[r].thread]
        /\ \E s \in {"sent", "use"} : step' = [step EXCEPT ![w] = s]
        /\ due' = [due EXCEPT ![w] =
             IF job[w] = "context" THEN Recorded(mail[w]) ELSE {}]
        /\ astray' \subseteq astray \cup {mails[mail[w]].root}
    BY <1>5 DEF LookInRuns, Goto
  <2>4. TablesOK'
    BY <2>2, <2>3, <1>3 DEF TablesOK
  <2>5. found' \in [Workers -> 0..MaxMails]
    BY <2>2, <2>3, Rows DEF LocalOK
  <2>6. Recorded(mail[w]) \subseteq Ids
    BY <1>1 DEF Recorded
  <2>7. due' \in [Workers -> SUBSET Ids]
    BY <2>3, <2>6 DEF LocalOK
  <2> QED BY <2>3, <2>4, <2>5, <2>7 DEF LocalOK
<1>6. ASSUME LookInSent(w) PROVE TablesOK' /\ LocalOK'
  <2>1. step[w] # "idle"
    BY <1>6 DEF LookInSent
  <2>2. Related(mail[w]) \subseteq Ids
    BY <2>1, NamesAreIds
  <2>3. /\ UNCHANGED <<mails, mailed, copied, runs, sent, portal, job, mail,
                       history, faults, due, astray>>
        /\ \/ found' = found
           \/ \E s \in InSentRows(Related(mail[w])) :
                found' = [found EXCEPT ![w] = sent[s]]
        /\ \E s \in {"portal", "use"} : step' = [step EXCEPT ![w] = s]
    BY <1>6 DEF LookInSent, Goto
  <2>4. TablesOK'
    BY <2>3, <1>3 DEF TablesOK
  <2>5. found' \in [Workers -> 0..MaxMails]
    BY <2>2, <2>3, Rows DEF LocalOK
  <2> QED BY <2>3, <2>4, <2>5 DEF LocalOK
<1>7. ASSUME LookInPortal(w) PROVE TablesOK' /\ LocalOK'
  <2>1. step[w] # "idle"
    BY <1>7 DEF LookInPortal
  <2>2. Related(mail[w]) \subseteq Ids
    BY <2>1, NamesAreIds
  <2>3. /\ UNCHANGED <<mails, mailed, copied, runs, sent, portal, job, mail,
                       history, faults, due, astray>>
        /\ \/ found' = found
           \/ \E p \in InPortal(Related(mail[w])) :
                found' = [found EXCEPT ![w] = portal[p].thread]
        /\ step' = [step EXCEPT ![w] = "use"]
    BY <1>7 DEF LookInPortal, Goto
  <2>4. TablesOK'
    BY <2>3, <1>3 DEF TablesOK
  <2>5. found' \in [Workers -> 0..MaxMails]
    BY <2>2, <2>3, Rows DEF LocalOK
  <2> QED BY <2>3, <2>4, <2>5 DEF LocalOK
<1>8. ASSUME Stop(w) PROVE LocalOK'
  BY <1>1, <1>8 DEF Stop, LocalOK
<1>9. ASSUME SaveRun(w) PROVE TablesOK' /\ LocalOK'
  <2>1. step[w] # "idle"
    BY <1>9 DEF SaveRun
  <2>2. mail[w] \in Ids /\ Thread(w) \in 0..MaxMails
    BY <2>1, ThreadType
  <2>3. UNCHANGED <<mails, mailed, copied, sent, portal, faults, astray>>
    BY <1>9 DEF SaveRun
  <2>4. CASE runs' = runs /\ Stop(w)
    BY <1>3, <1>8, <2>3, <2>4 DEF TablesOK
  <2>5. CASE ~(runs' = runs /\ Stop(w))
    <3>1. /\ RunBecomes(mail[w], Thread(w), runs[mail[w]].out,
               IF runs[mail[w]].state = "none" THEN "claimed"
               ELSE runs[mail[w]].state)
          /\ job' = [job EXCEPT ![w] = "context"]
          /\ step' = [step EXCEPT ![w] = "scan"]
          /\ UNCHANGED <<mail, found, history, due>>
      BY <1>9, <2>5, RunWriters
    <3>2. /\ runs[mail[w]].out \in 0..MaxMails
          /\ (IF runs[mail[w]].state = "none" THEN "claimed"
              ELSE runs[mail[w]].state) \in RunStates
      BY <2>2, RunType DEF RunStates
    <3>3. runs' \in [Ids -> Run]
      BY <2>2, <3>1, <3>2, RunBecomesType
    <3>4. LocalOK'
      BY <3>1 DEF LocalOK
    <3> QED BY <1>3, <2>3, <3>3, <3>4 DEF TablesOK, Run, RunStates
  <2> QED BY <2>4, <2>5
<1>10. ASSUME SaveSent(w) PROVE TablesOK' /\ LocalOK'
  <2>1. step[w] # "idle"
    BY <1>10 DEF SaveSent
  <2>2. mail[w] \in Ids /\ Thread(w) \in 0..MaxMails
    BY <2>1, ThreadType
  <2>3. /\ UNCHANGED <<mails, mailed, copied, runs, portal, faults, astray>>
        /\ sent' = [sent EXCEPT ![mail[w]] = Thread(w)] /\ Stop(w)
    BY <1>10 DEF SaveSent
  <2> QED BY <1>3, <1>8, <2>2, <2>3 DEF TablesOK
<1>11. ASSUME Scan(w) PROVE TablesOK' /\ LocalOK'
  <2>1. step[w] # "idle"
    BY <1>11 DEF Scan
  <2>2. mail[w] \in Ids /\ mail[w] \in Known
    BY <2>1, ThreadType
  <2>3. UNCHANGED <<mails, mailed, copied, sent, portal, faults, astray>>
    BY <1>11 DEF Scan
  <2>4. RunBecomes(mail[w], runs[mail[w]].thread, runs[mail[w]].out,
          IF mails[mail[w]].safe THEN "safe" ELSE "unsafe")
    BY <1>11, RunWriters
  <2>5. /\ runs[mail[w]].out \in 0..MaxMails
        /\ runs[mail[w]].thread \in 0..MaxMails
        /\ (IF mails[mail[w]].safe THEN "safe" ELSE "unsafe") \in RunStates
    BY <2>2, RunType DEF RunStates
  <2>6. runs' \in [Ids -> Run]
    BY <2>2, <2>4, <2>5, RunBecomesType
  <2>7. TablesOK'
    BY <1>3, <2>3, <2>6 DEF TablesOK, Run, RunStates
  <2>8. CASE Stop(w)
    BY <1>8, <2>7, <2>8
  <2>9. CASE Begin(w, "context", mail[w]) /\ UNCHANGED <<history, due>>
    <3>1. LocalOK'
      BY <1>1, <2>2, <2>9 DEF LocalOK, Begin, Goto
    <3> QED BY <2>7, <3>1
  <2> QED BY <1>11, <2>8, <2>9 DEF Scan
<1>12. ASSUME ReadRuns(w) PROVE TablesOK' /\ LocalOK'
  <2> DEFINE rows == {r \in Ids \ {mail[w]} :
                        /\ runs[r].thread = Thread(w)
                        /\ runs[r].state \in Safe}
             outs == {runs[r].out : r \in {q \in rows :
                                             runs[q].state = "replied"}}
  <2>1. /\ UNCHANGED <<mails, mailed, copied, runs, sent, portal, job, mail,
                       found, faults, due, astray>>
        /\ history' = [history EXCEPT ![w] =
                         {"runs"} \X (rows \cup (outs \ {0}))]
        /\ step' = [step EXCEPT ![w] = "readSent"]
    BY <1>12 DEF ReadRuns, Goto
  <2>2. rows \cup (outs \ {0}) \subseteq Ids
    <3>1. \A r \in Ids : runs[r].out \in 0..MaxMails
      BY RunType
    <3>2. \A o \in 0..MaxMails : o # 0 => o \in Ids
      BY IndexAssumption DEF Ids
    <3> QED BY <3>1, <3>2
  <2> HIDE DEF rows, outs
  <2>3. {"runs"} \X (rows \cup (outs \ {0})) \in
          SUBSET ({"runs", "sent", "portal"} \X Ids)
    BY <2>2
  <2>4. LocalOK'
    BY <2>1, <2>3 DEF LocalOK
  <2>5. TablesOK'
    BY <1>3, <2>1 DEF TablesOK
  <2> QED BY <2>4, <2>5
<1>13. ASSUME ReadSent(w) PROVE TablesOK' /\ LocalOK'
  <2> DEFINE new == {<<"sent", s>> :
               s \in {i \in Ids \ Application(w) : sent[i] = Thread(w)}}
  <2>1. /\ UNCHANGED <<mails, mailed, copied, runs, sent, portal, job, mail,
                       found, faults, due, astray>>
        /\ history' = [history EXCEPT ![w] = @ \cup new]
        /\ step' = [step EXCEPT ![w] = "readPortal"]
    BY <1>13 DEF ReadSent, Goto
  <2>2. new \in SUBSET ({"runs", "sent", "portal"} \X Ids)
    OBVIOUS
  <2> HIDE DEF new
  <2>3. LocalOK'
    BY <2>1, <2>2 DEF LocalOK
  <2>4. TablesOK'
    BY <1>3, <2>1 DEF TablesOK
  <2> QED BY <2>3, <2>4
<1>14. ASSUME ReadPortal(w) PROVE TablesOK' /\ LocalOK'
  <2> DEFINE new == {"portal"} \X {p \in Ids \ Application(w) :
                       /\ portal[p].thread = Thread(w)
                       /\ mails[p].kind = "portal"
                       /\ portal[p].status \in {"sent", "uncertain"}}
  <2>1. /\ UNCHANGED <<mails, mailed, copied, runs, sent, portal, job, mail,
                       found, faults, due, astray>>
        /\ history' = [history EXCEPT ![w] = @ \cup new]
        /\ step' = [step EXCEPT ![w] = "loaded"]
    BY <1>14 DEF ReadPortal, Goto
  <2>2. new \in SUBSET ({"runs", "sent", "portal"} \X Ids)
    OBVIOUS
  <2> HIDE DEF new
  <2>3. LocalOK'
    BY <2>1, <2>2 DEF LocalOK
  <2>4. TablesOK'
    BY <1>3, <2>1 DEF TablesOK
  <2> QED BY <2>3, <2>4
<1>15. ASSUME ComposeReply(w) PROVE TablesOK' /\ LocalOK'
  <2>1. /\ UNCHANGED <<mailed, copied, runs, sent, portal, job, mail,
                       history, faults, due, astray>>
        /\ \/ found' = [found EXCEPT ![w] = Len(mails')]
           \/ found' = [found EXCEPT ![w] = 0]
        /\ step' = [step EXCEPT ![w] = "record"]
    BY <1>15 DEF ComposeReply, Goto
  <2>2. Len(mails') \in 0..MaxMails
    BY <1>2, IndexAssumption DEF MailsOK
  <2>3. LocalOK'
    BY <1>1, <2>1, <2>2 DEF LocalOK
  <2>4. TablesOK'
    BY <1>3, <2>1 DEF TablesOK
  <2> QED BY <2>3, <2>4
<1>16. ASSUME RecordOutbound(w) PROVE TablesOK' /\ LocalOK'
  <2>1. step[w] # "idle"
    BY <1>16 DEF RecordOutbound
  <2>2. mail[w] \in Ids /\ found[w] \in 0..MaxMails
    BY <2>1, ThreadType DEF LocalOK
  <2>3. /\ UNCHANGED <<mails, mailed, copied, sent, portal, job, mail, found,
                       history, due, astray>>
        /\ step' = [step EXCEPT ![w] = "send"]
        /\ \/ faults' = faults
           \/ faults < bound.faults /\ faults' = faults + 1
    BY <1>16 DEF RecordOutbound, Goto
  <2>4. runs' \in [Ids -> Run]
    <3>1. CASE runs' = runs
      BY <3>1, <2>2, RunFields
    <3>2. CASE runs' # runs
      <4>1. RunBecomes(mail[w], runs[mail[w]].thread, found[w],
                       runs[mail[w]].state)
        BY <1>16, <3>2, RunWriters
      <4>2. /\ runs[mail[w]].thread \in 0..MaxMails
            /\ runs[mail[w]].state \in RunStates
        BY <2>2, RunType
      <4> QED BY <2>2, <4>1, <4>2, RunBecomesType
    <3> QED BY <3>1, <3>2
  <2>5. faults' \in 0..bound'.faults
    BY <2>3, FaultBudget
  <2>6. TablesOK'
    BY <1>3, <2>3, <2>4, <2>5 DEF TablesOK, Run, RunStates
  <2>7. LocalOK'
    BY <2>3 DEF LocalOK
  <2> QED BY <2>6, <2>7
<1>17. ASSUME SendMail(w) PROVE TablesOK' /\ LocalOK'
  <2>1. /\ UNCHANGED <<mails, copied, runs, sent, portal, job, mail, found,
                       history, faults, due, astray>>
        /\ mailed' = mailed \cup ({found[w]} \ {0})
        /\ step' = [step EXCEPT ![w] = "mark"]
    BY <1>17 DEF SendMail, Goto
  <2>2. found[w] # 0 => found[w] \in Known
    BY DEF StageOK, StageOf, Akin
  <2>3. LocalOK'
    BY <2>1 DEF LocalOK
  <2>4. TablesOK'
    BY <1>3, <2>1, <2>2 DEF TablesOK
  <2> QED BY <2>3, <2>4
<1>18. ASSUME MarkRun(w) PROVE TablesOK' /\ LocalOK'
  <2>1. step[w] # "idle"
    BY <1>18 DEF MarkRun
  <2>2. mail[w] \in Ids
    BY <2>1, ThreadType
  <2>3. /\ UNCHANGED <<mails, mailed, copied, sent, portal, faults, astray>>
        /\ Stop(w)
    BY <1>18 DEF MarkRun
  <2>4. RunBecomes(mail[w], runs[mail[w]].thread, runs[mail[w]].out,
          IF found[w] = 0 THEN "handled" ELSE "replied")
    BY <1>18, RunWriters
  <2>5. /\ runs[mail[w]].out \in 0..MaxMails
        /\ runs[mail[w]].thread \in 0..MaxMails
        /\ (IF found[w] = 0 THEN "handled" ELSE "replied") \in RunStates
    BY <2>2, RunType DEF RunStates
  <2>6. runs' \in [Ids -> Run]
    BY <2>2, <2>4, <2>5, RunBecomesType
  <2>7. TablesOK'
    BY <1>3, <2>3, <2>6 DEF TablesOK, Run, RunStates
  <2> QED BY <1>8, <2>3, <2>7
<1>19. ASSUME GiveUp(w) PROVE TablesOK' /\ LocalOK'
  <2>1. /\ UNCHANGED <<mails, mailed, copied, runs, sent, portal, astray>>
        /\ faults < bound.faults /\ faults' = faults + 1 /\ Stop(w)
    BY <1>19 DEF GiveUp
  <2>2. faults' \in 0..bound'.faults
    BY <2>1, FaultBudget
  <2> QED BY <1>3, <1>8, <2>1, <2>2 DEF TablesOK
<1> QED BY <1>4, <1>5, <1>6, <1>7, <1>9, <1>10, <1>11, <1>12, <1>13, <1>14,
           <1>15, <1>16, <1>17, <1>18, <1>19 DEF WorkerDoes

-----------------------------------------------------------------------------
(* Rows: what a step may write, and what no step takes back.               *)

(* The thread id t may be written for mail m.                              *)
MayFile(m, t) ==
  /\ m \in Known /\ m \in Ids /\ t \in Ids /\ Akin(t, m)
  /\ mails[m].root \in astray \/ t = mails[m].root

RowMoves ==
  \/ UNCHANGED <<runs, sent>>
  \/ /\ sent' = sent
     /\ \E m \in Ids, t \in Ids, o \in 0..MaxMails,
           s \in RunStates \ {"none"} :
          /\ RunBecomes(m, t, o, s) /\ MayFile(m, t)
          /\ o # 0 => Akin(o, m)
          /\ s \in Safe => mails[m].safe
          /\ runs[m].state \in Safe => s \in Safe
          /\ runs[m].state # "replied"
  \/ /\ runs' = runs
     /\ \E m \in Ids, t \in Ids :
          sent' = [sent EXCEPT ![m] = t] /\ MayFile(m, t)

(* The thread a worker settles on, and that of its own row.                *)
LEMMA Settles ==
  ASSUME MailsOK, LocalOK, StageOK, LookOK, NEW w \in Workers,
         step[w] = "use"
  PROVE  MayFile(mail[w], Thread(w))
<1>1. mail[w] \in Known /\ mail[w] \in Ids /\ Thread(w) \in Ids
  BY ThreadType
<1>2. Akin(Thread(w), mail[w])
  BY <1>1, Kin DEF Thread, StageOK, StageOf
<1>3. mails[mail[w]].root \in astray \/ Thread(w) = mails[mail[w]].root
  BY DEF LookOK, LookOf
<1> QED BY <1>1, <1>2, <1>3 DEF MayFile

(* The row of the mail a worker handles is the one it took: claimed, and   *)
(* safe once the scan is through.                                          *)
LEMMA OwnRow ==
  ASSUME MailsOK, TablesOK, LocalOK, RunsOK, RowsTrue, StageOK,
         NEW w \in Workers, job[w] = "context"
  PROVE  /\ MayFile(mail[w], runs[mail[w]].thread)
         /\ runs[mail[w]].out \in 0..MaxMails
         /\ runs[mail[w]].out # 0 => Akin(runs[mail[w]].out, mail[w])
         /\ runs[mail[w]].state \in {"claimed", "safe"}
         /\ step[w] # "scan" => runs[mail[w]].state = "safe"
         /\ runs[mail[w]].state = "safe" => mails[mail[w]].safe
<1>1. /\ mail[w] \in Known /\ runs[mail[w]].thread # 0
      /\ runs[mail[w]].state \in
           IF step[w] = "scan" THEN {"claimed", "safe"} ELSE {"safe"}
  BY DEF StageOK, StageOf
<1>2. mail[w] \in Ids
  BY <1>1, Kin
<1>3. /\ runs[mail[w]].thread \in 0..MaxMails
      /\ runs[mail[w]].out \in 0..MaxMails
  BY <1>2, RunType
<1>4. runs[mail[w]].thread \in Ids
  BY <1>1, <1>3, IndexAssumption DEF Ids
<1>5. /\ Akin(runs[mail[w]].thread, mail[w])
      /\ runs[mail[w]].out # 0 => Akin(runs[mail[w]].out, mail[w])
      /\ runs[mail[w]].state \in Safe => mails[mail[w]].safe
  BY <1>1, <1>2 DEF RunsOK
<1>6. \/ mails[mail[w]].root \in astray
      \/ runs[mail[w]].thread = mails[mail[w]].root
  BY <1>1 DEF RowsTrue
<1> QED BY <1>1, <1>2, <1>3, <1>4, <1>5, <1>6 DEF MayFile, Safe

(* Every write of a worker is one of RowMoves.                             *)
LEMMA RowStep ==
  ASSUME MailsOK, TablesOK, LocalOK, RunsOK, RowsTrue, StageOK, LookOK,
         NEW w \in Workers, WorkerDoes(w)
  PROVE  RowMoves /\ astray \subseteq astray'
<1> USE DEF world, tables, worker
<1>1. CASE SaveRun(w)
  <2>1. CASE runs' = runs
    BY <1>1, <2>1 DEF SaveRun, RowMoves
  <2>2. CASE runs' # runs
    <3>1. /\ RunBecomes(mail[w], Thread(w), runs[mail[w]].out,
               IF runs[mail[w]].state = "none" THEN "claimed"
               ELSE runs[mail[w]].state)
          /\ runs[mail[w]].state \notin Final
      BY <1>1, <2>2, RunWriters
    <3>2. MayFile(mail[w], Thread(w))
      BY <1>1, Settles DEF SaveRun
    <3>3. mail[w] \in Ids /\ Thread(w) \in Ids
      BY <3>2 DEF MayFile
    <3>4. /\ runs[mail[w]].out \in 0..MaxMails
          /\ runs[mail[w]].state \in RunStates
          /\ runs[mail[w]].out # 0 => Akin(runs[mail[w]].out, mail[w])
          /\ runs[mail[w]].state \in Safe => mails[mail[w]].safe
      BY <3>3, RunType DEF RunsOK
    <3> DEFINE s == IF runs[mail[w]].state = "none" THEN "claimed"
                    ELSE runs[mail[w]].state
    <3>5. /\ s \in RunStates \ {"none"}
          /\ s \in Safe => mails[mail[w]].safe
          /\ runs[mail[w]].state \in Safe => s \in Safe
          /\ runs[mail[w]].state # "replied"
      BY <3>1, <3>4 DEF Safe, Final, RunStates
    <3>6. RunBecomes(mail[w], Thread(w), runs[mail[w]].out, s)
      BY <3>1
    <3> HIDE DEF s
    <3> QED BY <1>1, <3>2, <3>3, <3>4, <3>5, <3>6 DEF RowMoves, SaveRun
  <2> QED BY <2>1, <2>2
<1>2. CASE SaveSent(w)
  <2>1. MayFile(mail[w], Thread(w))
    BY <1>2, Settles DEF SaveSent
  <2>2. mail[w] \in Ids /\ Thread(w) \in Ids
    BY <2>1 DEF MayFile
  <2> QED BY <1>2, <2>1, <2>2 DEF SaveSent, RowMoves
<1>3. CASE Scan(w)
  <2>1. job[w] = "context"
    BY <1>3 DEF Scan, StageOK, StageOf, AtContext
  <2> DEFINE s == IF mails[mail[w]].safe THEN "safe" ELSE "unsafe"
  <2>2. /\ s \in RunStates \ {"none"}
        /\ s \in Safe => mails[mail[w]].safe
        /\ runs[mail[w]].state \in Safe => s \in Safe
        /\ runs[mail[w]].state # "replied"
    BY <2>1, OwnRow DEF Safe, RunStates
  <2>3. RunBecomes(mail[w], runs[mail[w]].thread, runs[mail[w]].out, s)
    BY <1>3, RunWriters
  <2>4. /\ MayFile(mail[w], runs[mail[w]].thread)
        /\ mail[w] \in Ids /\ runs[mail[w]].thread \in Ids
        /\ runs[mail[w]].out \in 0..MaxMails
        /\ runs[mail[w]].out # 0 => Akin(runs[mail[w]].out, mail[w])
    BY <2>1, OwnRow DEF MayFile
  <2> HIDE DEF s
  <2> QED BY <1>3, <2>2, <2>3, <2>4 DEF Scan, RowMoves
<1>4. CASE RecordOutbound(w)
  <2>1. job[w] = "context" /\ step[w] # "scan"
    BY <1>4 DEF RecordOutbound, StageOK, StageOf, AtContext
  <2>2. CASE runs' = runs
    BY <1>4, <2>2 DEF RecordOutbound, RowMoves
  <2>3. CASE runs' # runs
    <3>1. RunBecomes(mail[w], runs[mail[w]].thread, found[w],
                     runs[mail[w]].state)
      BY <1>4, <2>3, RunWriters
    <3>2. /\ MayFile(mail[w], runs[mail[w]].thread)
          /\ mail[w] \in Ids /\ runs[mail[w]].thread \in Ids
          /\ runs[mail[w]].state = "safe" /\ mails[mail[w]].safe
      BY <2>1, OwnRow DEF MayFile
    <3>3. /\ found[w] \in 0..MaxMails
          /\ found[w] # 0 => Akin(found[w], mail[w])
      BY DEF LocalOK, StageOK, StageOf
    <3>4. "safe" \in RunStates \ {"none"} /\ "safe" # "replied"
      BY DEF RunStates
    <3> QED BY <1>4, <3>1, <3>2, <3>3, <3>4 DEF RecordOutbound, RowMoves
  <2> QED BY <2>2, <2>3
<1>5. CASE MarkRun(w)
  <2>1. job[w] = "context" /\ step[w] # "scan"
    BY <1>5 DEF MarkRun, StageOK, StageOf, AtContext
  <2> DEFINE s == IF found[w] = 0 THEN "handled" ELSE "replied"
  <2>2. /\ s \in RunStates \ {"none"} /\ s \in Safe
        /\ mails[mail[w]].safe
        /\ runs[mail[w]].state # "replied"
    BY <2>1, OwnRow DEF Safe, RunStates
  <2>3. RunBecomes(mail[w], runs[mail[w]].thread, runs[mail[w]].out, s)
    BY <1>5, RunWriters
  <2>4. /\ MayFile(mail[w], runs[mail[w]].thread)
        /\ mail[w] \in Ids /\ runs[mail[w]].thread \in Ids
        /\ runs[mail[w]].out \in 0..MaxMails
        /\ runs[mail[w]].out # 0 => Akin(runs[mail[w]].out, mail[w])
    BY <2>1, OwnRow DEF MayFile
  <2> HIDE DEF s
  <2> QED BY <1>5, <2>2, <2>3, <2>4 DEF MarkRun, RowMoves
<1>6. CASE /\ ~SaveRun(w) /\ ~SaveSent(w) /\ ~Scan(w)
           /\ ~RecordOutbound(w) /\ ~MarkRun(w)
  BY <1>6 DEF WorkerDoes, RowMoves, Claim, SyncSent, LookInRuns, LookInSent,
     LookInPortal, ReadRuns, ReadSent, ReadPortal, ComposeReply, SendMail,
     GiveUp
<1> QED BY <1>1, <1>2, <1>3, <1>4, <1>5, <1>6

(* Rows stay, found safe stays found safe, and a reply stays a reply.      *)
RowsGrow ==
  /\ \A i \in Ids : /\ runs[i].thread # 0 => runs'[i].thread # 0
                    /\ runs[i].state \in Safe => runs'[i].state \in Safe
                    /\ runs[i].state = "replied" => runs'[i] = runs[i]
                    /\ sent[i] # 0 => sent'[i] # 0
                    /\ portal[i].thread # 0 => portal'[i].thread # 0
                    /\ portal[i].status \in {"sent", "uncertain"} =>
                         portal'[i].status \in {"sent", "uncertain"}
  /\ astray \subseteq astray'

(* Two mails of one conversation, after the step.                          *)
WillBeAkin(i, m) == i \in Known' /\ mails'[i].root = mails'[m].root

(* Filing keeps the rows of a table home, and those under the root there.  *)
LEMMA Filed ==
  ASSUME MailsOK, Grows, astray \subseteq astray', NEW m, NEW t, MayFile(m, t)
  PROVE  /\ t # 0 /\ m \in Known' /\ WillBeAkin(t, m)
         /\ mails'[m].root \in astray' \/ t = mails'[m].root
<1>1. /\ m \in Known /\ Akin(t, m) /\ t \in Ids
      /\ mails[m].root \in astray \/ t = mails[m].root
  BY DEF MayFile
<1>2. m \in Known' /\ WillBeAkin(t, m) /\ mails'[m].root = mails[m].root
  BY <1>1 DEF Grows, Akin, WillBeAkin
<1> QED BY <1>1, <1>2, IndexAssumption DEF Ids

(* Rows stay what RunsOK, SentOK, PortalOK and RowsTrue say, and grow.     *)
LEMMA RowsKept ==
  ASSUME MailsOK, TablesOK, RunsOK, SentOK, PortalOK, RowsTrue, MailsOK',
         Grows, RowMoves, PortalMoves, astray \subseteq astray'
  PROVE  RunsOK' /\ SentOK' /\ PortalOK' /\ RowsTrue' /\ RowsGrow
<1>1. /\ \A m \in Known : /\ m \in Known' /\ mails'[m] = mails[m]
                          /\ \A i : Akin(i, m) => WillBeAkin(i, m)
      /\ Known' \subseteq Ids /\ Known \subseteq Ids /\ 0 \notin Ids
  <2>1. \A m \in Known : \A i : Akin(i, m) => WillBeAkin(i, m)
    BY DEF Grows, Akin, WillBeAkin
  <2> QED BY <2>1, IndexAssumption DEF Grows, MailsOK, Known, Ids
<1>2. /\ \A i \in Ids : /\ runs'[i].thread = 0 => runs'[i] = NoRun
                        /\ runs'[i].thread # 0 =>
                             i \in Known' /\ WillBeAkin(runs'[i].thread, i)
                        /\ runs'[i].out # 0 => WillBeAkin(runs'[i].out, i)
                        /\ runs'[i].state \in Safe => mails'[i].safe
      /\ \A i \in Ids : /\ runs[i].thread # 0 => runs'[i].thread # 0
                        /\ runs[i].state \in Safe => runs'[i].state \in Safe
                        /\ runs[i].state = "replied" => runs'[i] = runs[i]
      /\ \A i \in Known' : \/ mails'[i].root \in astray'
                           \/ runs'[i].thread \in {0, mails'[i].root}
  <2>1. ASSUME NEW i \in Ids
        PROVE  /\ runs[i].thread = 0 => runs[i] = NoRun
               /\ runs[i].thread # 0 =>
                    /\ i \in Known /\ i \in Known'
                    /\ WillBeAkin(runs[i].thread, i)
               /\ runs[i].out # 0 => WillBeAkin(runs[i].out, i)
               /\ runs[i].state \in Safe => mails'[i].safe
               /\ i \in Known' => \/ mails'[i].root \in astray'
                                  \/ runs[i].thread \in {0, mails'[i].root}
    <3>1. /\ runs[i].thread = 0 => runs[i] = NoRun
          /\ runs[i].thread # 0 => i \in Known /\ Akin(runs[i].thread, i)
          /\ runs[i].out # 0 => Akin(runs[i].out, i)
          /\ runs[i].state \in Safe => mails[i].safe
          /\ i \in Known => \/ mails[i].root \in astray
                            \/ runs[i].thread \in {0, mails[i].root}
      BY <2>1 DEF RunsOK, RowsTrue
    <3>2. /\ runs[i].state \in Safe => runs[i].thread # 0
          /\ runs[i].out # 0 => runs[i].thread # 0
      BY <3>1 DEF NoRun, Safe
    <3> QED BY <1>1, <3>1, <3>2
  <2>2. CASE runs' = runs
    <3>1. \A i \in Ids : i \in Known' => i \in Ids
      BY <1>1
    <3> QED BY <1>1, <2>1, <2>2
  <2>3. ASSUME NEW m \in Ids, NEW t \in Ids, NEW o \in 0..MaxMails,
               NEW s \in RunStates \ {"none"},
               RunBecomes(m, t, o, s), MayFile(m, t), o # 0 => Akin(o, m),
               s \in Safe => mails[m].safe,
               runs[m].state \in Safe => s \in Safe,
               runs[m].state # "replied"
        PROVE  <1>2!:
    <3>1. /\ runs'[m] = [thread |-> t, out |-> o, state |-> s]
          /\ \A i \in Ids \ {m} : runs'[i] = runs[i]
      BY <2>3 DEF RunBecomes, TablesOK
    <3>2. /\ t # 0 /\ m \in Known' /\ WillBeAkin(t, m)
          /\ mails'[m].root \in astray' \/ t = mails'[m].root
      BY <2>3, Filed
    <3>3. o # 0 => WillBeAkin(o, m)
      BY <1>1, <2>3 DEF MayFile
    <3>4. s \in Safe => mails'[m].safe
      BY <1>1, <2>3 DEF MayFile
    <3>5. /\ runs'[m].thread = t /\ runs'[m].out = o /\ runs'[m].state = s
      BY <3>1
    <3>6. ASSUME NEW i \in Ids
          PROVE  /\ runs'[i].thread = 0 => runs'[i] = NoRun
                 /\ runs'[i].thread # 0 =>
                      i \in Known' /\ WillBeAkin(runs'[i].thread, i)
                 /\ runs'[i].out # 0 => WillBeAkin(runs'[i].out, i)
                 /\ runs'[i].state \in Safe => mails'[i].safe
                 /\ runs[i].thread # 0 => runs'[i].thread # 0
                 /\ runs[i].state \in Safe => runs'[i].state \in Safe
                 /\ runs[i].state = "replied" => runs'[i] = runs[i]
                 /\ i \in Known' =>
                      \/ mails'[i].root \in astray'
                      \/ runs'[i].thread \in {0, mails'[i].root}
      <4>1. CASE i = m
        BY <2>3, <3>2, <3>3, <3>4, <3>5, <4>1
      <4>2. CASE i # m
        <5>1. runs'[i] = runs[i]
          BY <3>1, <4>2
        <5> QED BY <2>1, <5>1
      <4> QED BY <4>1, <4>2
    <3> QED BY <1>1, <3>6
  <2> QED BY <2>2, <2>3 DEF RowMoves
<1>3. /\ \A i \in Ids : sent'[i] # 0 => i \in Known' /\ WillBeAkin(sent'[i], i)
      /\ \A i \in Ids : sent[i] # 0 => sent'[i] # 0
      /\ \A i \in Known' : \/ mails'[i].root \in astray'
                           \/ sent'[i] \in {0, mails'[i].root}
  <2>1. ASSUME NEW i \in Ids
        PROVE  /\ sent[i] # 0 => i \in Known' /\ WillBeAkin(sent[i], i)
               /\ i \in Known' => \/ mails'[i].root \in astray'
                                  \/ sent[i] \in {0, mails'[i].root}
    <3>1. /\ sent[i] # 0 => i \in Known /\ Akin(sent[i], i)
          /\ i \in Known => \/ mails[i].root \in astray
                            \/ sent[i] \in {0, mails[i].root}
      BY <2>1 DEF SentOK, RowsTrue
    <3> QED BY <1>1, <3>1
  <2>2. CASE sent' = sent
    BY <1>1, <2>1, <2>2
  <2>3. ASSUME NEW m \in Ids, NEW t \in Ids,
               sent' = [sent EXCEPT ![m] = t], MayFile(m, t)
        PROVE  <1>3!:
    <3>1. sent'[m] = t /\ \A i \in Ids \ {m} : sent'[i] = sent[i]
      BY <2>3 DEF TablesOK
    <3>2. /\ t # 0 /\ m \in Known' /\ WillBeAkin(t, m)
          /\ mails'[m].root \in astray' \/ t = mails'[m].root
      BY <2>3, Filed
    <3> QED BY <1>1, <2>1, <3>1, <3>2
  <2> QED BY <2>2, <2>3 DEF RowMoves
<1>4. /\ \A i \in Ids : /\ portal'[i].thread = 0 =>
                             portal'[i].status = "none"
                        /\ portal'[i].thread # 0 =>
                             i \in Known' /\ WillBeAkin(portal'[i].thread, i)
      /\ \A i \in Ids : /\ portal[i].thread # 0 => portal'[i].thread # 0
                        /\ portal[i].status \in {"sent", "uncertain"} =>
                             portal'[i].status \in {"sent", "uncertain"}
      /\ \A i \in Known' : \/ mails'[i].root \in astray'
                           \/ portal'[i].thread \in {0, mails'[i].root}
  <2>1. ASSUME NEW i \in Ids
        PROVE  /\ portal[i].thread = 0 => portal[i].status = "none"
               /\ portal[i].thread # 0 =>
                    /\ i \in Known /\ i \in Known'
                    /\ WillBeAkin(portal[i].thread, i)
               /\ i \in Known' => \/ mails'[i].root \in astray'
                                  \/ portal[i].thread \in {0, mails'[i].root}
    <3>1. /\ portal[i].thread = 0 => portal[i].status = "none"
          /\ portal[i].thread # 0 => i \in Known /\ Akin(portal[i].thread, i)
          /\ i \in Known => \/ mails[i].root \in astray
                            \/ portal[i].thread \in {0, mails[i].root}
      BY <2>1 DEF PortalOK, RowsTrue
    <3> QED BY <1>1, <3>1
  <2>2. CASE portal' = portal
    BY <1>1, <2>1, <2>2
  <2>3. ASSUME NEW n \in Known' \ Known, NEW t \in Ids,
               portal' = [portal EXCEPT ![n] =
                            [thread |-> t, status |-> "sending"]],
               t \in Known', mails'[t].root = mails'[n].root,
               mails'[n].root \in astray \/ t = mails'[n].root
        PROVE  <1>4!:
    <3>1. /\ n \in Ids /\ portal'[n] = [thread |-> t, status |-> "sending"]
          /\ \A i \in Ids \ {n} : portal'[i] = portal[i]
      BY <1>1, <2>3 DEF TablesOK
    <3>2. /\ portal'[n].thread = t /\ portal'[n].status = "sending"
          /\ t # 0 /\ WillBeAkin(t, n)
      BY <1>1, <2>3, <3>1 DEF WillBeAkin
    <3>3. portal[n].thread = 0 /\ portal[n].status = "none"
      BY <2>1, <2>3, <3>1
    <3>4. ASSUME NEW i \in Ids
          PROVE  /\ portal'[i].thread = 0 => portal'[i].status = "none"
                 /\ portal'[i].thread # 0 =>
                      i \in Known' /\ WillBeAkin(portal'[i].thread, i)
                 /\ portal[i].thread # 0 => portal'[i].thread # 0
                 /\ portal[i].status \in {"sent", "uncertain"} =>
                      portal'[i].status \in {"sent", "uncertain"}
                 /\ i \in Known' =>
                      \/ mails'[i].root \in astray'
                      \/ portal'[i].thread \in {0, mails'[i].root}
      <4>1. CASE i = n
        BY <2>3, <3>2, <3>3, <4>1
      <4>2. CASE i # n
        <5>1. portal'[i] = portal[i]
          BY <3>1, <4>2
        <5> QED BY <2>1, <5>1
      <4> QED BY <4>1, <4>2
    <3> QED BY <1>1, <3>4
  <2>4. ASSUME NEW p \in Known, NEW s \in {"sent", "uncertain"},
               portal[p].status = "sending",
               portal' = [portal EXCEPT ![p].status = s]
        PROVE  <1>4!:
    <3>1. /\ p \in Ids /\ portal'[p].thread = portal[p].thread
          /\ portal'[p].status = s
          /\ \A i \in Ids \ {p} : portal'[i] = portal[i]
      BY <1>1, <2>4 DEF TablesOK
    <3>2. portal[p].thread # 0
      BY <2>1, <2>4, <3>1
    <3>3. ASSUME NEW i \in Ids
          PROVE  /\ portal'[i].thread = 0 => portal'[i].status = "none"
                 /\ portal'[i].thread # 0 =>
                      i \in Known' /\ WillBeAkin(portal'[i].thread, i)
                 /\ portal[i].thread # 0 => portal'[i].thread # 0
                 /\ portal[i].status \in {"sent", "uncertain"} =>
                      portal'[i].status \in {"sent", "uncertain"}
                 /\ i \in Known' =>
                      \/ mails'[i].root \in astray'
                      \/ portal'[i].thread \in {0, mails'[i].root}
      <4>1. CASE i = p
        BY <2>1, <2>4, <3>1, <3>2, <4>1
      <4>2. CASE i # p
        <5>1. portal'[i] = portal[i]
          BY <3>1, <4>2
        <5> QED BY <2>1, <5>1
      <4> QED BY <4>1, <4>2
    <3> QED BY <1>1, <3>3
  <2> QED BY <2>2, <2>3, <2>4 DEF PortalMoves
<1>5. RunsOK' /\ SentOK' /\ PortalOK'
  BY <1>2, <1>3, <1>4 DEF RunsOK, SentOK, PortalOK, NoRun, Ids, Safe, Akin,
     WillBeAkin
<1>6. RowsTrue'
  BY <1>2, <1>3, <1>4 DEF RowsTrue
<1>7. RowsGrow
  BY <1>2, <1>3, <1>4 DEF RowsGrow
<1> QED BY <1>5, <1>6, <1>7

-----------------------------------------------------------------------------
(* A worker that waits keeps all it knows, whatever the others do: the     *)
(* mailbox and the tables only grow.                                       *)

(* What is recorded of a mail stays recorded.                              *)
LEMMA Recording ==
  ASSUME MailsOK, Grows, RowsGrow
  PROVE  \A i \in Known : /\ ByPortal(i) => ByPortal(i)'
                          /\ IsRecorded(i) => IsRecorded(i)'
                          /\ sent[i] # 0 => sent'[i] # 0
<1> SUFFICES ASSUME NEW i \in Known
             PROVE  /\ ByPortal(i) => ByPortal(i)'
                    /\ IsRecorded(i) => IsRecorded(i)'
                    /\ sent[i] # 0 => sent'[i] # 0
  OBVIOUS
<1>1. i \in Ids /\ mails'[i] = mails[i]
  BY Kin DEF Grows
<1>2. /\ runs[i].state \in Safe => runs'[i].state \in Safe
      /\ sent[i] # 0 => sent'[i] # 0
      /\ portal[i].status \in {"sent", "uncertain"} =>
           portal'[i].status \in {"sent", "uncertain"}
  BY <1>1 DEF RowsGrow
<1>3. InReply(i) => InReply(i)'
  BY DEF InReply, RowsGrow, Ids
<1>4. ByPortal(i) => ByPortal(i)'
  BY <1>1, <1>2 DEF ByPortal
<1>5. IsRecorded(i) => IsRecorded(i)'
  BY <1>2, <1>3, <1>4 DEF IsRecorded, Safe
<1> QED BY <1>2, <1>4, <1>5

(* Its stage, as long as nobody writes the row of its mail.                *)
LEMMA WaitingStage ==
  ASSUME MailsOK, Grows, NEW v \in Workers, Waits(v), StageOf(v),
         job[v] = "context" => runs'[mail[v]] = runs[mail[v]]
  PROVE  StageOf(v)'
<1>1. PICK m : m = mail[v]
  OBVIOUS
<1>2. \A i : m \in Known /\ Akin(i, m) => Akin(i, m)'
  BY Stays
<1>3. m \in Known => m \in Known'
  BY DEF Grows
<1>4. mail'[v] = m
  BY <1>1 DEF Waits
<1>5. found[v] # 0 => m \in Known
  BY <1>1 DEF StageOf
<1>6. PICK f : f = found[v]
  OBVIOUS
<1>7. f # 0 => Akin(f, m)'
  BY <1>1, <1>2, <1>5, <1>6 DEF StageOf
<1>8. found'[v] = f
  BY <1>6 DEF Waits
<1>9. found'[v] # 0 => Akin(found[v], mail[v])'
  BY <1>4, <1>7, <1>8 DEF Akin
<1> HIDE DEF Akin
<1> QED BY <1>1, <1>3, <1>4, <1>9 DEF StageOf, Waits

(* What its look-up still has to meet.                                     *)
LEMMA WaitingLook ==
  ASSUME MailsOK, Grows, RowsGrow, NEW v \in Workers, Waits(v), StageOf(v),
         LookOf(v)
  PROVE  LookOf(v)'
<1> SUFFICES ASSUME step'[v] # "idle" PROVE LookOf(v)'
  BY DEF LookOf
<1>1. PICK m : m = mail[v]
  OBVIOUS
<1>2. /\ m \in Known /\ mail'[v] = m /\ step'[v] = step[v]
      /\ found'[v] = found[v]
  BY <1>1 DEF StageOf, Waits
<1>3. /\ Related(m)' = Related(m) /\ Fallback(m)' = Fallback(m)
      /\ mails'[m].root = mails[m].root
      /\ \A i \in Related(m) : i \in Ids
  BY <1>2, Stays, Kin
<1>4. \A i \in Related(m) : /\ sent[i] # 0 => sent'[i] # 0
                            /\ portal[i].thread # 0 => portal'[i].thread # 0
  BY <1>3 DEF RowsGrow
<1>5. mails[m].root \in astray => mails'[m].root \in astray'
  BY <1>3 DEF RowsGrow
<1>6. /\ Related(mail[v])' = Related(m)
      /\ Fallback(mail[v])' = Fallback(m)
  BY <1>2, <1>3 DEF Related, Fallback
<1>7. (Rooted(v) => Rooted(v)') /\ Thread(v)' = Thread(v)
  BY <1>1, <1>2, <1>3, <1>6 DEF Rooted, Thread
<1> QED BY <1>1, <1>2, <1>3, <1>4, <1>5, <1>6, <1>7 DEF LookOf

(* What it has read.                                                       *)
LEMMA WaitingHistory ==
  ASSUME MailsOK, Grows, NEW v \in Workers, Waits(v), StageOf(v),
         HistoryOf(v)
  PROVE  HistoryOf(v)'
<1>1. PICK m : m = mail[v]
  OBVIOUS
<1>2. /\ mail'[v] = m /\ step'[v] = step[v] /\ history'[v] = history[v]
  BY <1>1 DEF Waits
<1>3. \A h \in history[v] : h[2] \in Known /\ mails[h[2]].root = mails[m].root
  BY <1>1 DEF HistoryOf, Akin
<1>4. \A h \in history[v] : m \in Known
  BY <1>1 DEF StageOf
<1>5. \A h \in history'[v] : Akin(h[2], mail[v])'
  BY <1>2, <1>3, <1>4 DEF Grows, Akin
<1> QED BY <1>2, <1>5 DEF HistoryOf

(* What it must have read when it is through.                              *)
LEMMA WaitingDue ==
  ASSUME MailsOK, Grows, RowsGrow, NEW v \in Workers, Waits(v), StageOf(v),
         DueOf(v)
  PROVE  DueOf(v)'
<1>1. PICK m : m = mail[v]
  OBVIOUS
<1>2. /\ mail'[v] = m /\ step'[v] = step[v] /\ due'[v] = due[v]
      /\ Read(v)' = Read(v)
  BY <1>1 DEF Waits, Read
<1>3. ASSUME NEW i \in due[v]
      PROVE  /\ i # m /\ m \in Known /\ i \in Known
             /\ Akin(i, mail[v])' /\ IsRecorded(i)'
             /\ ByPortal(i) => ByPortal(i)'
             /\ sent[i] # 0 => sent'[i] # 0
  <2>1. m \in Known
    BY <1>1, <1>3 DEF StageOf
  <2>2. i \in Known /\ mails[i].root = mails[m].root /\ i # m
        /\ IsRecorded(i)
    BY <1>1, <1>3 DEF DueOf, Akin
  <2>3. Akin(i, mail[v])'
    BY <1>2, <2>1, <2>2 DEF Akin, Grows
  <2>4. /\ IsRecorded(i)' /\ (ByPortal(i) => ByPortal(i)')
        /\ sent[i] # 0 => sent'[i] # 0
    BY <2>2, Recording
  <2> QED BY <2>1, <2>2, <2>3, <2>4
<1>4. m \in Known /\ mails[m].root \in astray => mails'[m].root \in astray'
  BY DEF Grows, RowsGrow
<1>5. step[v] \in AtContext => m \in Known
  BY <1>1 DEF StageOf, AtContext
<1> QED BY <1>1, <1>2, <1>3, <1>4, <1>5 DEF DueOf, AtContext

-----------------------------------------------------------------------------
(* The worker that moves.                                                  *)

Fine(w) == StageOf(w) /\ LookOf(w) /\ HistoryOf(w) /\ DueOf(w)

(* While no mail is written, what is said of mails stays said.             *)
LEMMA SameMails ==
  ASSUME mails' = mails
  PROVE  /\ Known' = Known
         /\ \A m : Related(m)' = Related(m) /\ Fallback(m)' = Fallback(m)
         /\ \A i, m : Akin(i, m)' <=> Akin(i, m)
  BY DEF Known, Related, Fallback, Akin

(* A worker that stops holds nothing.                                      *)
LEMMA FineStop ==
  ASSUME LocalOK, NEW w \in Workers, Stop(w)
  PROVE  Fine(w)'
<1>1. /\ step'[w] = "idle" /\ job'[w] = "none" /\ found'[w] = 0
      /\ history'[w] = {} /\ due'[w] = {}
  BY DEF LocalOK, Stop
<1> QED BY <1>1 DEF Fine, StageOf, LookOf, HistoryOf, DueOf, AtContext

(* A claim or a sync starts with no thread found and nothing read.         *)
LEMMA FineBegin ==
  ASSUME LocalOK, StageOK, NEW w \in Workers, Claim(w) \/ SyncSent(w)
  PROVE  Fine(w)' /\ job'[w] # "context"
<1>1. /\ step[w] = "idle" /\ history' = history /\ due' = due
      /\ mails' = mails
  BY DEF Claim, SyncSent, world
<1>2. PICK m \in Known, j \in {"claim", "sync"} : Begin(w, j, m)
  BY DEF Claim, SyncSent
<1>3. /\ step'[w] = "runs" /\ job'[w] = j /\ mail'[w] = m /\ found'[w] = 0
  BY <1>2 DEF LocalOK, Begin, Goto
<1>4. history'[w] = {} /\ due'[w] = {}
  BY <1>1 DEF StageOK, StageOf
<1>5. m \in Known'
  BY <1>1 DEF Known
<1> QED BY <1>3, <1>4, <1>5 DEF Fine, StageOf, LookOf, HistoryOf, DueOf,
       AtContext

(* Looking in the runs: a match is of the conversation; without one, a     *)
(* named mail has another row, or the conversation goes astray.            *)
LEMMA FineLookInRuns ==
  ASSUME MailsOK, TablesOK, LocalOK, RunsOK, SentOK, PortalOK, RowsTrue,
         StageOK, NEW w \in Workers, Fine(w), LookInRuns(w)
  PROVE  Fine(w)' /\ job' = job /\ mail' = mail
<1>1. PICK m : m = mail[w]
  OBVIOUS
<1>2. /\ step[w] = "runs" /\ found[w] = 0
      /\ m \in Known /\ m \in Ids /\ Related(m) \subseteq Ids
      /\ \A i \in Related(m) : Akin(i, m) /\ i # 0
      /\ Related(m) = {} => Fallback(m) = mails[m].root
  BY <1>1, NamesAreIds, Kin DEF LookInRuns, Fine, StageOf
<1>3. /\ job' = job /\ mail' = mail /\ history' = history /\ mails' = mails
      /\ runs' = runs /\ sent' = sent /\ portal' = portal
      /\ astray' = IF Strays(m) THEN astray \cup {mails[m].root} ELSE astray
      /\ due'[w] = IF job[w] = "context" THEN Recorded(m) ELSE {}
      /\ step'[w] = IF InRuns(Related(m)) = {} /\ Related(m) # {}
                    THEN "sent" ELSE "use"
      /\ IF InRuns(Related(m)) = {} THEN found'[w] = 0
         ELSE \E r \in InRuns(Related(m)) : found'[w] = runs[r].thread
  BY <1>1, <1>2 DEF LookInRuns, Goto, LocalOK, world, tables
<1>4. /\ Known' = Known /\ Related(m)' = Related(m)
      /\ Fallback(m)' = Fallback(m) /\ mail'[w] = m
      /\ \A i, k : Akin(i, k)' <=> Akin(i, k)
  BY <1>1, <1>3, SameMails
<1>5. ASSUME NEW r \in InRuns(Related(m))
      PROVE  /\ runs[r].thread # 0 /\ Akin(runs[r].thread, m)
             /\ mails[m].root \in astray \/ runs[r].thread = mails[m].root
  <2>1. /\ r \in Ids /\ r \in Known /\ runs[r].thread # 0
        /\ Akin(runs[r].thread, r)
        /\ r \in Related(m) \/ (runs[r].out \in Related(m)
                                  /\ Akin(runs[r].out, r))
    BY <1>2, Rows
  <2>2. mails[r].root = mails[m].root
    BY <1>2, <2>1 DEF Akin
  <2>3. mails[r].root \in astray \/ runs[r].thread \in {0, mails[r].root}
    BY <2>1 DEF RowsTrue
  <2> QED BY <2>1, <2>2, <2>3 DEF Akin
<1>6. /\ found'[w] # 0 => Akin(found'[w], m)
      /\ InRuns(Related(m)) # {} => found'[w] # 0
      /\ found'[w] # 0 => \/ mails[m].root \in astray
                          \/ found'[w] = mails[m].root
  BY <1>3, <1>5
<1>7. StageOf(w)'
  <2>1. /\ job'[w] = "context" =>
             /\ runs'[m].thread # 0 /\ runs'[m].state \in {"safe"}
        /\ step'[w] \in {"sent", "use"}
        /\ step'[w] = "sent" => found'[w] = 0
    BY <1>1, <1>2, <1>3 DEF Fine, StageOf
  <2>2. PICK f : f = found'[w]
    OBVIOUS
  <2>3. f # 0 => Akin(f, m)'
    BY <1>4, <1>6, <2>2
  <2>4. found'[w] # 0 => Akin(found[w], mail[w])'
    BY <1>4, <2>2, <2>3 DEF Akin
  <2> HIDE DEF Akin
  <2> QED BY <1>2, <1>4, <2>1, <2>4 DEF StageOf, AtContext
<1>8. LookOf(w)'
  <2> SUFFICES ASSUME mails[m].root \notin astray'
               PROVE  LookOf(w)'
    BY <1>3, <1>4 DEF LookOf
  <2>1. mails[m].root \notin astray /\ ~Strays(m)
    BY <1>3
  <2>2. step'[w] = "use" => Thread(w)' = mails[m].root
    <3>1. CASE InRuns(Related(m)) = {}
      <4>1. step'[w] = "use" => Fallback(m) = mails[m].root
        BY <1>2, <1>3, <3>1
      <4>2. Fallback(mail[w])' = Fallback(m)
        BY <1>3, <1>4 DEF Fallback
      <4> QED BY <1>3, <3>1, <4>1, <4>2 DEF Thread
    <3>2. CASE InRuns(Related(m)) # {}
      BY <1>6, <2>1, <3>2 DEF Thread
    <3> QED BY <3>1, <3>2
  <2>3. step'[w] = "sent" =>
          \/ Fallback(m) = mails[m].root
          \/ \E i \in Related(m) : sent[i] # 0 \/ portal[i].thread # 0
    <3> SUFFICES ASSUME InRuns(Related(m)) = {}, Related(m) # {},
                        Fallback(m) # mails[m].root
                 PROVE  \E i \in Related(m) :
                          sent[i] # 0 \/ portal[i].thread # 0
      BY <1>3
    <3>1. PICK i \in Related(m) : i \in Indexed
      BY <2>1 DEF Strays
    <3>2. i \in Ids /\ i # 0
      BY <1>2
    <3>3. \A r \in Ids : runs[r].thread # 0 => r # i /\ runs[r].out # i
      BY DEF InRuns
    <3>4. \A r \in Ids : runs[r].out # i
      BY <3>2, <3>3 DEF RunsOK, NoRun
    <3> QED BY <3>1, <3>2, <3>3, <3>4 DEF Indexed
  <2>4. Rooted(w)' <=> Fallback(m) = mails[m].root
    <3>1. Fallback(mail[w])' = Fallback(m)
      BY <1>3, <1>4 DEF Fallback
    <3> QED BY <1>3, <1>4, <3>1 DEF Rooted
  <2>5. Related(mail[w])' = Related(m)
    BY <1>3, <1>4 DEF Related
  <2> QED BY <1>3, <1>4, <2>2, <2>3, <2>4, <2>5 DEF LookOf
<1>9. HistoryOf(w)'
  <2>1. \A h \in history'[w] : Akin(h[2], mail[w])'
    BY <1>1, <1>3, <1>4 DEF Fine, HistoryOf, Akin
  <2> QED BY <1>1, <1>3, <2>1 DEF Fine, HistoryOf
<1>10. DueOf(w)'
  <2>1. \A i \in due'[w] : Akin(i, mail[w])' /\ i # m
    BY <1>3, <1>4 DEF Recorded, Akin
  <2>2. \A i \in due'[w] : IsRecorded(i)'
    BY <1>3 DEF Recorded, IsRecorded, InReply, ByPortal
  <2> QED BY <1>3, <1>4, <2>1, <2>2 DEF DueOf, AtContext
<1> QED BY <1>3, <1>7, <1>8, <1>9, <1>10 DEF Fine

(* Looking in the Sent rows: without a match the row is a portal's.        *)
LEMMA FineLookInSent ==
  ASSUME MailsOK, TablesOK, LocalOK, RunsOK, SentOK, PortalOK, RowsTrue,
         StageOK, NEW w \in Workers, Fine(w), LookInSent(w)
  PROVE  Fine(w)' /\ job' = job /\ mail' = mail
<1>1. PICK m : m = mail[w]
  OBVIOUS
<1>2. /\ step[w] = "sent" /\ found[w] = 0
      /\ m \in Known /\ Related(m) \subseteq Ids
      /\ \A i \in Related(m) : Akin(i, m)
  BY <1>1, NamesAreIds DEF LookInSent, Fine, StageOf
<1>3. /\ job' = job /\ mail' = mail /\ history' = history /\ mails' = mails
      /\ runs' = runs /\ sent' = sent /\ portal' = portal
      /\ astray' = astray /\ due' = due
      /\ step'[w] = IF InSentRows(Related(m)) = {} THEN "portal" ELSE "use"
      /\ IF InSentRows(Related(m)) = {} THEN found'[w] = 0
         ELSE \E s \in InSentRows(Related(m)) : found'[w] = sent[s]
  BY <1>1, <1>2 DEF LookInSent, Goto, LocalOK, world, tables
<1>4. /\ Known' = Known /\ Related(m)' = Related(m)
      /\ Fallback(m)' = Fallback(m) /\ mail'[w] = m
      /\ \A i, k : Akin(i, k)' <=> Akin(i, k)
  BY <1>1, <1>3, SameMails
<1>5. ASSUME NEW s \in InSentRows(Related(m))
      PROVE  /\ sent[s] # 0 /\ Akin(sent[s], m)
             /\ mails[m].root \in astray \/ sent[s] = mails[m].root
  <2>1. /\ s \in Related(m) /\ s \in Known /\ sent[s] # 0
        /\ Akin(sent[s], s)
    BY <1>2, Rows
  <2>2. mails[s].root = mails[m].root
    BY <1>2, <2>1 DEF Akin
  <2>3. mails[s].root \in astray \/ sent[s] \in {0, mails[s].root}
    BY <2>1 DEF RowsTrue
  <2> QED BY <2>1, <2>2, <2>3 DEF Akin
<1>6. /\ found'[w] # 0 => Akin(found'[w], m)
      /\ InSentRows(Related(m)) # {} => found'[w] # 0
      /\ found'[w] # 0 => \/ mails[m].root \in astray
                          \/ found'[w] = mails[m].root
  BY <1>3, <1>5
<1>7. StageOf(w)'
  <2>1. /\ job'[w] = "context" =>
             /\ runs'[m].thread # 0 /\ runs'[m].state \in {"safe"}
        /\ step'[w] \in {"portal", "use"}
        /\ step'[w] = "portal" => found'[w] = 0
    BY <1>1, <1>2, <1>3 DEF Fine, StageOf
  <2>2. PICK f : f = found'[w]
    OBVIOUS
  <2>3. f # 0 => Akin(f, m)'
    BY <1>4, <1>6, <2>2
  <2>4. found'[w] # 0 => Akin(found[w], mail[w])'
    BY <1>4, <2>2, <2>3 DEF Akin
  <2> HIDE DEF Akin
  <2> QED BY <1>2, <1>4, <2>1, <2>4 DEF StageOf, AtContext
<1>8. LookOf(w)'
  <2> SUFFICES ASSUME mails[m].root \notin astray
               PROVE  LookOf(w)'
    BY <1>3, <1>4 DEF LookOf
  <2>1. step'[w] = "use" => Thread(w)' = mails[m].root
    BY <1>3, <1>6 DEF Thread
  <2>2. /\ Rooted(w)' <=> Fallback(m) = mails[m].root
        /\ Rooted(w) <=> Fallback(m) = mails[m].root
    <3>1. Fallback(mail[w])' = Fallback(m)
      BY <1>3, <1>4 DEF Fallback
    <3> QED BY <1>1, <1>3, <1>4, <3>1 DEF Rooted
  <2>3. step'[w] = "portal" =>
          Rooted(w)' \/ \E i \in Related(m) : portal[i].thread # 0
    <3>1. InSentRows(Related(m)) = {} => \A i \in Related(m) : sent[i] = 0
      BY <1>2 DEF InSentRows
    <3> QED BY <1>1, <1>2, <1>3, <2>2, <3>1 DEF Fine, LookOf
  <2>4. Related(mail[w])' = Related(m)
    BY <1>3, <1>4 DEF Related
  <2> QED BY <1>3, <1>4, <2>1, <2>3, <2>4 DEF LookOf
<1>9. HistoryOf(w)'
  <2>1. \A h \in history'[w] : Akin(h[2], mail[w])'
    BY <1>1, <1>3, <1>4 DEF Fine, HistoryOf, Akin
  <2> QED BY <1>1, <1>3, <2>1 DEF Fine, HistoryOf
<1>10. DueOf(w)'
  <2>1. \A i \in due'[w] : Akin(i, mail[w])' /\ i # m
    BY <1>1, <1>3, <1>4 DEF Fine, DueOf, Akin
  <2>2. \A i \in due'[w] : IsRecorded(i)'
    BY <1>3 DEF Fine, DueOf, IsRecorded, InReply, ByPortal
  <2> QED BY <1>3, <1>4, <2>1, <2>2 DEF DueOf, AtContext
<1> QED BY <1>3, <1>7, <1>8, <1>9, <1>10 DEF Fine

(* Looking in the portal rows: without a match the mail tells the root.    *)
LEMMA FineLookInPortal ==
  ASSUME MailsOK, TablesOK, LocalOK, RunsOK, SentOK, PortalOK, RowsTrue,
         StageOK, NEW w \in Workers, Fine(w), LookInPortal(w)
  PROVE  Fine(w)' /\ job' = job /\ mail' = mail
<1>1. PICK m : m = mail[w]
  OBVIOUS
<1>2. /\ step[w] = "portal" /\ found[w] = 0
      /\ m \in Known /\ Related(m) \subseteq Ids
      /\ \A i \in Related(m) : Akin(i, m)
  BY <1>1, NamesAreIds DEF LookInPortal, Fine, StageOf
<1>3. /\ job' = job /\ mail' = mail /\ history' = history /\ mails' = mails
      /\ runs' = runs /\ sent' = sent /\ portal' = portal
      /\ astray' = astray /\ due' = due /\ step'[w] = "use"
      /\ IF InPortal(Related(m)) = {} THEN found'[w] = 0
         ELSE \E p \in InPortal(Related(m)) : found'[w] = portal[p].thread
  BY <1>1, <1>2 DEF LookInPortal, Goto, LocalOK, world, tables
<1>4. /\ Known' = Known /\ Related(m)' = Related(m)
      /\ Fallback(m)' = Fallback(m) /\ mail'[w] = m
      /\ \A i, k : Akin(i, k)' <=> Akin(i, k)
  BY <1>1, <1>3, SameMails
<1>5. ASSUME NEW p \in InPortal(Related(m))
      PROVE  /\ portal[p].thread # 0 /\ Akin(portal[p].thread, m)
             /\ mails[m].root \in astray \/ portal[p].thread = mails[m].root
  <2>1. /\ p \in Related(m) /\ p \in Known /\ portal[p].thread # 0
        /\ Akin(portal[p].thread, p)
    BY <1>2, Rows
  <2>2. mails[p].root = mails[m].root
    BY <1>2, <2>1 DEF Akin
  <2>3. mails[p].root \in astray \/ portal[p].thread \in {0, mails[p].root}
    BY <2>1 DEF RowsTrue
  <2> QED BY <2>1, <2>2, <2>3 DEF Akin
<1>6. /\ found'[w] # 0 => Akin(found'[w], m)
      /\ InPortal(Related(m)) # {} => found'[w] # 0
      /\ found'[w] # 0 => \/ mails[m].root \in astray
                          \/ found'[w] = mails[m].root
  BY <1>3, <1>5
<1>7. StageOf(w)'
  <2>1. job'[w] = "context" =>
          runs'[m].thread # 0 /\ runs'[m].state \in {"safe"}
    BY <1>1, <1>2, <1>3 DEF Fine, StageOf
  <2>2. PICK f : f = found'[w]
    OBVIOUS
  <2>3. f # 0 => Akin(f, m)'
    BY <1>4, <1>6, <2>2
  <2>4. found'[w] # 0 => Akin(found[w], mail[w])'
    BY <1>4, <2>2, <2>3 DEF Akin
  <2> HIDE DEF Akin
  <2> QED BY <1>2, <1>3, <1>4, <2>1, <2>4 DEF StageOf, AtContext
<1>8. LookOf(w)'
  <2> SUFFICES ASSUME mails[m].root \notin astray
               PROVE  Thread(w)' = mails[m].root
    BY <1>3, <1>4 DEF LookOf
  <2>1. CASE InPortal(Related(m)) = {}
    <3>1. \A i \in Related(m) : portal[i].thread = 0
      BY <1>2, <2>1 DEF InPortal
    <3>2. Fallback(m) = mails[m].root
      BY <1>1, <1>2, <3>1 DEF Fine, LookOf, Rooted
    <3>3. Fallback(mail[w])' = Fallback(m)
      BY <1>3, <1>4 DEF Fallback
    <3> QED BY <1>3, <2>1, <3>2, <3>3 DEF Thread
  <2>2. CASE InPortal(Related(m)) # {}
    BY <1>6, <2>2 DEF Thread
  <2> QED BY <2>1, <2>2
<1>9. HistoryOf(w)'
  <2>1. \A h \in history'[w] : Akin(h[2], mail[w])'
    BY <1>1, <1>3, <1>4 DEF Fine, HistoryOf, Akin
  <2> QED BY <1>1, <1>3, <2>1 DEF Fine, HistoryOf
<1>10. DueOf(w)'
  <2>1. \A i \in due'[w] : Akin(i, mail[w])' /\ i # m
    BY <1>1, <1>3, <1>4 DEF Fine, DueOf, Akin
  <2>2. \A i \in due'[w] : IsRecorded(i)'
    BY <1>3 DEF Fine, DueOf, IsRecorded, InReply, ByPortal
  <2> QED BY <1>3, <1>4, <2>1, <2>2 DEF DueOf, AtContext
<1> QED BY <1>3, <1>7, <1>8, <1>9, <1>10 DEF Fine

(* Taking the row starts a handling of the mail, unless there is one.      *)
LEMMA FineSaveRun ==
  ASSUME MailsOK, TablesOK, LocalOK, RunsOK, StageOK, RowsGrow,
         NEW w \in Workers, Fine(w), SaveRun(w)
  PROVE  /\ Fine(w)'
         /\ job'[w] = "context" =>
              /\ mail'[w] = mail[w]
              /\ \A v \in Workers \ {w} :
                   mail[v] = mail[w] => job[v] # "context"
<1>1. PICK m : m = mail[w]
  OBVIOUS
<1>2. /\ step[w] = "use" /\ m \in Known /\ m \in Ids /\ Thread(w) \in Ids
      /\ mails' = mails /\ sent' = sent /\ portal' = portal
      /\ astray' = astray
  BY <1>1, ThreadType DEF SaveRun, world
<1>3. CASE Stop(w)
  <2>1. job'[w] = "none"
    BY <1>3 DEF Stop, LocalOK
  <2> QED BY <1>3, <2>1, FineStop
<1>4. CASE ~Stop(w)
  <2>1. /\ RunBecomes(m, Thread(w), runs[m].out,
             IF runs[m].state = "none" THEN "claimed" ELSE runs[m].state)
        /\ runs[m].state \notin Final
        /\ \A v \in Workers \ {w} : mail[v] = m => job[v] # "context"
        /\ job' = [job EXCEPT ![w] = "context"]
        /\ step' = [step EXCEPT ![w] = "scan"]
        /\ UNCHANGED <<mail, found, history, due>>
    BY <1>1, <1>4, RunWriters
  <2>2. /\ job'[w] = "context" /\ step'[w] = "scan" /\ mail'[w] = m
        /\ runs'[m] = [thread |-> Thread(w), out |-> runs[m].out, state |->
             IF runs[m].state = "none" THEN "claimed" ELSE runs[m].state]
    BY <1>1, <1>2, <2>1 DEF LocalOK, TablesOK, RunBecomes
  <2>3. runs'[m].thread # 0 /\ runs'[m].state \in {"claimed", "safe"}
    <3>1. Thread(w) # 0 /\ runs[m].state \in RunStates
      BY <1>2, RunType, IndexAssumption DEF Ids
    <3> QED BY <2>1, <2>2, <3>1 DEF Final, RunStates
  <2>4. \A i, k : Akin(i, k)' <=> Akin(i, k)
    BY <1>2, SameMails
  <2>5. StageOf(w)'
    <3>1. m \in Known'
      BY <1>2 DEF Known
    <3>2. PICK f : f = found[w]
      OBVIOUS
    <3>3. f # 0 => Akin(f, m)'
      BY <1>1, <2>4, <3>2 DEF Fine, StageOf
    <3>4. found'[w] # 0 => Akin(found[w], mail[w])'
      BY <2>1, <2>2, <3>2, <3>3 DEF Akin
    <3> QED BY <2>2, <2>3, <3>1, <3>4 DEF StageOf, AtContext
  <2>6. LookOf(w)'
    BY <2>2 DEF LookOf
  <2>7. HistoryOf(w)'
    <3>1. \A h \in history'[w] : Akin(h[2], mail[w])'
      BY <1>1, <1>2, <2>1, <2>2 DEF Fine, HistoryOf, Akin, Known
    <3> QED BY <2>1, <2>2, <3>1 DEF Fine, HistoryOf
  <2>8. DueOf(w)'
    <3>1. \A i \in due'[w] : i \in Known /\ Akin(i, mail[w])' /\ i # m
                              /\ IsRecorded(i)
      BY <1>1, <1>2, <2>1, <2>2 DEF Fine, DueOf, Akin, Known
    <3>2. \A i \in Known : IsRecorded(i) => IsRecorded(i)'
      BY <1>2, Recording, NoMail
    <3> QED BY <2>2, <3>1, <3>2 DEF DueOf, AtContext
  <2> QED BY <1>1, <2>1, <2>2, <2>5, <2>6, <2>7, <2>8 DEF Fine
<1> QED BY <1>3, <1>4

(* A safe verdict starts the loading; any other ends the handling.         *)
LEMMA FineScan ==
  ASSUME MailsOK, TablesOK, LocalOK, RunsOK, RowsTrue, StageOK, RowsGrow,
         NEW w \in Workers, Fine(w), Scan(w)
  PROVE  /\ Fine(w)' /\ job[w] = "context"
         /\ job'[w] = "context" => mail'[w] = mail[w]
<1>1. PICK m : m = mail[w]
  OBVIOUS
<1>2. /\ step[w] = "scan" /\ job[w] = "context" /\ m \in Known /\ m \in Ids
      /\ mails' = mails /\ sent' = sent /\ portal' = portal
      /\ astray' = astray
  BY <1>1, ThreadType DEF Scan, Fine, StageOf, AtContext, world
<1>3. CASE ~mails[m].safe
  <2>1. Stop(w)
    BY <1>1, <1>3 DEF Scan
  <2>2. job'[w] = "none"
    BY <2>1 DEF Stop, LocalOK
  <2> QED BY <1>2, <2>1, <2>2, FineStop
<1>4. CASE mails[m].safe
  <2>1. /\ RunBecomes(m, runs[m].thread, runs[m].out, "safe")
        /\ Begin(w, "context", m) /\ UNCHANGED <<history, due>>
    BY <1>1, <1>4, RunWriters DEF Scan
  <2>2. /\ job'[w] = "context" /\ step'[w] = "runs" /\ mail'[w] = m
        /\ found'[w] = 0
        /\ runs'[m] = [thread |-> runs[m].thread, out |-> runs[m].out,
                       state |-> "safe"]
    BY <1>2, <2>1 DEF LocalOK, TablesOK, RunBecomes, Begin, Goto
  <2>3. runs'[m].thread # 0 /\ runs'[m].state = "safe"
    BY <1>1, <1>2, <2>2 DEF Fine, StageOf
  <2>4. StageOf(w)'
    <3>1. m \in Known'
      BY <1>2 DEF Known
    <3> QED BY <2>2, <2>3, <3>1 DEF StageOf, AtContext
  <2>5. LookOf(w)'
    BY <2>2 DEF LookOf
  <2>6. HistoryOf(w)'
    <3>1. \A h \in history'[w] : Akin(h[2], mail[w])'
      BY <1>1, <1>2, <2>1, <2>2 DEF Fine, HistoryOf, Akin, Known
    <3> QED BY <2>1, <2>2, <3>1 DEF Fine, HistoryOf
  <2>7. DueOf(w)'
    <3>1. \A i \in due'[w] : i \in Known /\ Akin(i, mail[w])' /\ i # m
                              /\ IsRecorded(i)
      BY <1>1, <1>2, <2>1, <2>2 DEF Fine, DueOf, Akin, Known
    <3>2. \A i \in Known : IsRecorded(i) => IsRecorded(i)'
      BY <1>2, Recording, NoMail
    <3> QED BY <2>2, <3>1, <3>2 DEF DueOf, AtContext
  <2> QED BY <1>1, <1>2, <2>2, <2>4, <2>5, <2>6, <2>7 DEF Fine
<1> QED BY <1>3, <1>4

(* The thread a worker settled on is of its mail's conversation, and so    *)
(* are the mails whose rows are under it.                                  *)
LEMMA ThreadKin ==
  ASSUME MailsOK, TablesOK, RunsOK, SentOK, PortalOK, RowsTrue,
         NEW w \in Workers, StageOf(w), LookOf(w),
         step[w] \in {"use", "readSent", "readPortal"}
  PROVE  /\ Thread(w) # 0 /\ mail[w] \in Known
         /\ \A i \in Ids :
              /\ runs[i].thread = Thread(w) =>
                   /\ Akin(i, mail[w])
                   /\ runs[i].out # 0 => Akin(runs[i].out, mail[w])
              /\ sent[i] = Thread(w) => Akin(i, mail[w])
              /\ portal[i].thread = Thread(w) => Akin(i, mail[w])
         /\ mails[mail[w]].root \in astray \/
              \A i \in Ids : i \in Known /\ Akin(i, mail[w]) =>
                /\ runs[i].thread \in {0, Thread(w)}
                /\ sent[i] \in {0, Thread(w)}
                /\ portal[i].thread \in {0, Thread(w)}
<1>1. PICK m : m = mail[w]
  OBVIOUS
<1>2. PICK t : t = Thread(w)
  OBVIOUS
<1>3. m \in Known /\ t # 0 /\ Akin(t, m)
  <2>1. m \in Known /\ (found[w] # 0 => Akin(found[w], m))
    BY <1>1 DEF StageOf
  <2>2. Fallback(m) \in Known /\ Akin(Fallback(m), m) /\ 0 \notin Known
    BY <2>1, Kin DEF Known
  <2> QED BY <1>1, <1>2, <2>1, <2>2 DEF Thread
<1>4. ASSUME NEW i \in Ids
      PROVE  /\ runs[i].thread = t =>
                  Akin(i, m) /\ (runs[i].out # 0 => Akin(runs[i].out, m))
             /\ sent[i] = t => Akin(i, m)
             /\ portal[i].thread = t => Akin(i, m)
  BY <1>3 DEF RunsOK, SentOK, PortalOK, Akin
<1>5. ASSUME mails[m].root \notin astray, NEW i \in Ids, i \in Known,
             Akin(i, m)
      PROVE  /\ runs[i].thread \in {0, t} /\ sent[i] \in {0, t}
             /\ portal[i].thread \in {0, t}
  <2>1. t = mails[m].root
    BY <1>1, <1>2, <1>5 DEF LookOf
  <2>2. mails[i].root = mails[m].root
    BY <1>5 DEF Akin
  <2> QED BY <1>5, <2>1, <2>2 DEF RowsTrue
<1> QED BY <1>1, <1>2, <1>3, <1>4, <1>5

(* A statement of the loading reads rows, and changes nothing else.        *)
Loads(w, s) ==
  /\ UNCHANGED <<mails, runs, sent, portal, job, mail, found, due, astray>>
  /\ job[w] = "context"
  /\ step[w] \in {"use", "readSent", "readPortal"}
  /\ step'[w] = s /\ s \in {"readSent", "readPortal", "loaded"}

(* It leaves the worker fine when what it read is of the conversation, is  *)
(* read once, and leaves no due mail behind.                               *)
LEMMA FineLoads ==
  ASSUME MailsOK, LocalOK, NEW w \in Workers, Fine(w), NEW s, Loads(w, s),
         \A h \in history'[w] : Akin(h[2], mail[w]),
         s = "readSent" => \A h \in history'[w] : h[1] = "runs",
         s = "readPortal" => \A h \in history'[w] : h[1] \in {"runs", "sent"},
         \A g, h \in history'[w] :
           g[2] = h[2] /\ g # h => {g[1], h[1]} = {"sent", "portal"},
         mails[mail[w]].root \in astray \/
           \A i \in due[w] :
             /\ s = "readSent" =>
                  \/ \E h \in history'[w] : h[2] = i
                  \/ sent[i] # 0 \/ ByPortal(i)
             /\ s = "readPortal" =>
                  (\E h \in history'[w] : h[2] = i) \/ ByPortal(i)
             /\ s = "loaded" => \E h \in history'[w] : h[2] = i
  PROVE  Fine(w)' /\ job' = job /\ mail' = mail
<1>1. PICK m : m = mail[w]
  OBVIOUS
<1>2. /\ job' = job /\ mail' = mail /\ mails' = mails /\ runs' = runs
      /\ sent' = sent /\ portal' = portal /\ found' = found /\ due' = due
      /\ astray' = astray /\ step'[w] = s /\ mail'[w] = m
      /\ m \in Known /\ job[w] = "context"
      /\ s \in {"readSent", "readPortal", "loaded"}
      /\ step[w] \in {"use", "readSent", "readPortal"}
  BY <1>1 DEF Loads, Fine, StageOf
<1>3. /\ Known' = Known /\ Fallback(m)' = Fallback(m)
      /\ \A i, k : Akin(i, k)' <=> Akin(i, k)
  BY <1>2, SameMails
<1>4. StageOf(w)'
  <2>1. runs[m].thread # 0 /\ runs[m].state \in {"safe"}
    BY <1>1, <1>2 DEF Fine, StageOf
  <2>2. PICK f : f = found[w]
    OBVIOUS
  <2>3. f # 0 => Akin(f, m)'
    BY <1>1, <1>3, <2>2 DEF Fine, StageOf
  <2>4. found'[w] # 0 => Akin(found[w], mail[w])'
    BY <1>2, <2>2, <2>3 DEF Akin
  <2> HIDE DEF Akin
  <2> QED BY <1>2, <1>3, <2>1, <2>4 DEF StageOf
<1>5. LookOf(w)'
  <2>1. Fallback(mail[w])' = Fallback(m)
    BY <1>2, <1>3 DEF Fallback
  <2>2. mails[m].root \in astray \/ Thread(w) = mails[m].root
    BY <1>1, <1>2 DEF Fine, LookOf
  <2>3. Thread(w)' = Thread(w)
    BY <1>1, <1>2, <2>1 DEF Thread
  <2> QED BY <1>2, <2>2, <2>3 DEF LookOf
<1>6. HistoryOf(w)'
  <2>1. \A h \in history'[w] : Akin(h[2], mail[w])'
    BY <1>1, <1>2, <1>3 DEF Akin
  <2> QED BY <1>2, <2>1 DEF HistoryOf
<1>7. DueOf(w)'
  <2>1. \A i \in due'[w] : Akin(i, mail[w])' /\ i # m
    BY <1>1, <1>2, <1>3 DEF Fine, DueOf, Akin
  <2>2. \A i \in due'[w] : IsRecorded(i)'
    BY <1>2 DEF Fine, DueOf, IsRecorded, InReply, ByPortal
  <2>3. \A i : /\ i \in Read(w)' <=> \E h \in history'[w] : h[2] = i
               /\ ByPortal(i)' <=> ByPortal(i)
    BY <1>2 DEF Read, ByPortal
  <2> QED BY <1>1, <1>2, <2>1, <2>2, <2>3 DEF DueOf, AtContext
<1> QED BY <1>2, <1>4, <1>5, <1>6, <1>7 DEF Fine

(* Safe runs and the replies that were sent: only mails with a Sent or a   *)
(* portal row are still to come.                                           *)
LEMMA FineReadRuns ==
  ASSUME MailsOK, TablesOK, LocalOK, RunsOK, SentOK, PortalOK, RowsTrue,
         NEW w \in Workers, Fine(w), ReadRuns(w)
  PROVE  Fine(w)' /\ job' = job /\ mail' = mail
<1>1. PICK m, t : m = mail[w] /\ t = Thread(w)
  OBVIOUS
<1>2. PICK rows : rows = {r \in Ids \ {m} : /\ runs[r].thread = t
                                            /\ runs[r].state \in Safe}
  OBVIOUS
<1>3. PICK outs : outs = {runs[r].out : r \in {q \in rows :
                                           runs[q].state = "replied"}}
  OBVIOUS
<1>4. /\ step[w] = "use" /\ step'[w] = "readSent" /\ job[w] = "context"
      /\ history'[w] = {"runs"} \X (rows \cup (outs \ {0}))
      /\ UNCHANGED <<mails, runs, sent, portal, job, mail, found, due, astray>>
  BY <1>1, <1>2, <1>3 DEF ReadRuns, Goto, LocalOK, world, tables
<1>5. /\ t # 0 /\ m \in Known
      /\ \A i \in Ids : runs[i].thread = t =>
           Akin(i, m) /\ (runs[i].out # 0 => Akin(runs[i].out, m))
      /\ mails[m].root \in astray \/
           \A i \in Ids : i \in Known /\ Akin(i, m) =>
             runs[i].thread \in {0, t}
  BY <1>1, <1>4, ThreadKin DEF Fine
<1>6. \A i \in rows \cup (outs \ {0}) : Akin(i, m)
  BY <1>2, <1>3, <1>5
<1>7. \A h \in history'[w] :
        h[1] = "runs" /\ Akin(h[2], m) /\ h = <<h[1], h[2]>>
  BY <1>4, <1>6
<1>8. ASSUME mails[m].root \notin astray, NEW i \in due[w]
      PROVE  i \in rows \cup (outs \ {0}) \/ sent[i] # 0 \/ ByPortal(i)
  <2>1. Akin(i, m) /\ i # m /\ IsRecorded(i) /\ i \in Ids /\ i # 0
        /\ i \in Known
    BY <1>1, <1>8, Kin DEF Fine, DueOf, Akin, Known
  <2>2. CASE runs[i].state \in Safe
    <3>1. runs[i].thread # 0
      BY <2>1, <2>2 DEF RunsOK, NoRun, Safe
    <3> QED BY <1>2, <1>5, <1>8, <2>1, <2>2, <3>1
  <2>3. CASE InReply(i)
    <3>1. PICK r \in Ids : runs[r].out = i /\ runs[r].state = "replied"
      BY <2>3 DEF InReply
    <3>2. r # m
      BY <1>1, <1>4, <3>1 DEF Fine, StageOf
    <3>3. r \in Known /\ Akin(i, r) /\ runs[r].thread # 0
      BY <2>1, <3>1 DEF RunsOK, NoRun
    <3>4. Akin(r, m)
      BY <2>1, <3>3 DEF Akin
    <3>5. runs[r].thread = t
      BY <1>5, <1>8, <3>1, <3>3, <3>4
    <3>6. r \in rows
      BY <1>2, <3>1, <3>2, <3>5 DEF Safe
    <3> QED BY <1>3, <2>1, <3>1, <3>6
  <2> QED BY <2>1, <2>2, <2>3 DEF IsRecorded
<1>9. ASSUME mails[m].root \notin astray, NEW i \in due[w]
      PROVE  (\E h \in history'[w] : h[2] = i) \/ sent[i] # 0 \/ ByPortal(i)
  <2>1. i \in rows \cup (outs \ {0}) => <<"runs", i>> \in history'[w]
    BY <1>4
  <2>2. <<"runs", i>>[2] = i
    OBVIOUS
  <2> QED BY <1>8, <1>9, <2>1, <2>2
<1>10. Loads(w, "readSent")
  BY <1>4 DEF Loads
<1>11. \A g, h \in history'[w] :
         g[2] = h[2] /\ g # h => {g[1], h[1]} = {"sent", "portal"}
  BY <1>7
<1> QED BY <1>1, <1>7, <1>9, <1>10, <1>11, FineLoads

(* Sent rows: only mails with a portal row are still to come.              *)
LEMMA FineReadSent ==
  ASSUME MailsOK, TablesOK, LocalOK, RunsOK, SentOK, PortalOK, RowsTrue,
         NEW w \in Workers, Fine(w), ReadSent(w)
  PROVE  Fine(w)' /\ job' = job /\ mail' = mail
<1>1. PICK m, t : m = mail[w] /\ t = Thread(w)
  OBVIOUS
<1>2. PICK rows : rows = {i \in Ids \ Application(w) : sent[i] = t}
  OBVIOUS
<1>3. /\ step[w] = "readSent" /\ step'[w] = "readPortal"
      /\ history'[w] = history[w] \cup {<<"sent", s>> : s \in rows}
      /\ UNCHANGED <<mails, runs, sent, portal, job, mail, found, due, astray>>
  BY <1>1, <1>2 DEF ReadSent, Goto, LocalOK, world, tables
<1>4. /\ t # 0 /\ m \in Known /\ \A i \in rows : Akin(i, m)
      /\ mails[m].root \in astray \/
           \A i \in Ids : i \in Known /\ Akin(i, m) => sent[i] \in {0, t}
  BY <1>1, <1>2, <1>3, ThreadKin DEF Fine
<1>5. \A h \in history[w] : /\ h[1] = "runs" /\ Akin(h[2], m)
                            /\ h = <<h[1], h[2]>> /\ h[2] \in Ids
  BY <1>1, <1>3 DEF Fine, HistoryOf, LocalOK
<1>6. \A h \in history'[w] \ history[w] :
        /\ h[1] = "sent" /\ Akin(h[2], m) /\ h = <<h[1], h[2]>>
        /\ h[2] \in rows
  BY <1>3, <1>4
<1>7. \A g, h \in history'[w] :
        g[2] = h[2] /\ g # h => {g[1], h[1]} = {"sent", "portal"}
  <2>1. \A h \in history[w] : h[2] \in Application(w)
    BY <1>5 DEF Application
  <2>2. \A h \in history'[w] \ history[w] : h[2] \notin Application(w)
    BY <1>2, <1>6
  <2> QED BY <1>5, <1>6, <2>1, <2>2
<1>8. ASSUME mails[m].root \notin astray, NEW i \in due[w]
      PROVE  (\E h \in history'[w] : h[2] = i) \/ ByPortal(i)
  <2>1. Akin(i, m) /\ i \in Ids /\ i \in Known
    BY <1>1, <1>8, Kin DEF Fine, DueOf, Akin
  <2>2. (\E h \in history[w] : h[2] = i) \/ sent[i] # 0 \/ ByPortal(i)
    BY <1>1, <1>3, <1>8 DEF Fine, DueOf, Read, AtContext
  <2>3. ASSUME sent[i] # 0 PROVE \E h \in history'[w] : h[2] = i
    <3>1. sent[i] = t
      BY <1>4, <1>8, <2>1, <2>3
    <3>2. CASE i \in Application(w)
      <4>1. <<"runs", i>> \in history'[w] /\ <<"runs", i>>[2] = i
        BY <1>3, <3>2 DEF Application
      <4> QED BY <4>1
    <3>3. CASE i \notin Application(w)
      <4>1. <<"sent", i>> \in history'[w] /\ <<"sent", i>>[2] = i
        BY <1>2, <1>3, <2>1, <3>1, <3>3
      <4> QED BY <4>1
    <3> QED BY <3>2, <3>3
  <2> QED BY <1>3, <2>2, <2>3
<1>9. Loads(w, "readPortal")
  BY <1>3 DEF Loads, Fine, StageOf, AtContext
<1>10. /\ \A h \in history'[w] : Akin(h[2], mail[w])
       /\ \A h \in history'[w] : h[1] \in {"runs", "sent"}
  BY <1>1, <1>5, <1>6
<1> QED BY <1>1, <1>7, <1>8, <1>9, <1>10, FineLoads

(* Portal rows: nothing is still to come.                                  *)
LEMMA FineReadPortal ==
  ASSUME MailsOK, TablesOK, LocalOK, RunsOK, SentOK, PortalOK, RowsTrue,
         NEW w \in Workers, Fine(w), ReadPortal(w)
  PROVE  Fine(w)' /\ job' = job /\ mail' = mail
<1>1. PICK m, t : m = mail[w] /\ t = Thread(w)
  OBVIOUS
<1>2. PICK rows : rows = {i \in Ids \ Application(w) :
                            /\ portal[i].thread = t
                            /\ mails[i].kind = "portal"
                            /\ portal[i].status \in {"sent", "uncertain"}}
  OBVIOUS
<1>3. /\ step[w] = "readPortal" /\ step'[w] = "loaded"
      /\ history'[w] = history[w] \cup ({"portal"} \X rows)
      /\ UNCHANGED <<mails, runs, sent, portal, job, mail, found, due, astray>>
  BY <1>1, <1>2 DEF ReadPortal, Goto, LocalOK, world, tables
<1>4. /\ t # 0 /\ m \in Known /\ \A i \in rows : Akin(i, m)
      /\ mails[m].root \in astray \/
           \A i \in Ids : i \in Known /\ Akin(i, m) =>
             portal[i].thread \in {0, t}
  BY <1>1, <1>2, <1>3, ThreadKin DEF Fine
<1>5. \A h \in history[w] : /\ h[1] \in {"runs", "sent"} /\ Akin(h[2], m)
                            /\ h = <<h[1], h[2]>> /\ h[2] \in Ids
  BY <1>1, <1>3 DEF Fine, HistoryOf, LocalOK
<1>6. \A h \in history'[w] \ history[w] :
        /\ h[1] = "portal" /\ Akin(h[2], m) /\ h = <<h[1], h[2]>>
        /\ h[2] \in rows
  BY <1>3, <1>4
<1>7. \A g, h \in history'[w] :
        g[2] = h[2] /\ g # h => {g[1], h[1]} = {"sent", "portal"}
  <2>1. \A h \in history[w] : h[1] = "runs" => h[2] \in Application(w)
    BY <1>5 DEF Application
  <2>2. \A h \in history'[w] \ history[w] : h[2] \notin Application(w)
    BY <1>2, <1>6
  <2>3. \A g, h \in history[w] :
          g[2] = h[2] /\ g # h => {g[1], h[1]} = {"sent", "portal"}
    BY DEF Fine, HistoryOf
  <2>4. \A g, h \in history'[w] \ history[w] : g[2] = h[2] => g = h
    BY <1>6
  <2>5. \A g \in history[w], h \in history'[w] \ history[w] :
          g[2] = h[2] => g[1] = "sent" /\ h[1] = "portal"
    BY <1>5, <1>6, <2>1, <2>2
  <2>6. {"sent", "portal"} = {"portal", "sent"}
    OBVIOUS
  <2> QED BY <2>3, <2>4, <2>5, <2>6
<1>8. ASSUME mails[m].root \notin astray, NEW i \in due[w]
      PROVE  \E h \in history'[w] : h[2] = i
  <2>1. Akin(i, m) /\ i \in Ids /\ i \in Known
    BY <1>1, <1>8, Kin DEF Fine, DueOf, Akin
  <2>2. (\E h \in history[w] : h[2] = i) \/ ByPortal(i)
    BY <1>1, <1>3, <1>8 DEF Fine, DueOf, Read, AtContext
  <2>3. ASSUME ByPortal(i) PROVE \E h \in history'[w] : h[2] = i
    <3>1. portal[i].thread = t
      <4>1. portal[i].thread # 0
        BY <2>1, <2>3 DEF PortalOK, ByPortal
      <4> QED BY <1>4, <1>8, <2>1, <4>1
    <3>2. CASE i \in Application(w)
      <4>1. <<"runs", i>> \in history'[w] /\ <<"runs", i>>[2] = i
        BY <1>3, <3>2 DEF Application
      <4> QED BY <4>1
    <3>3. CASE i \notin Application(w)
      <4>1. <<"portal", i>> \in history'[w] /\ <<"portal", i>>[2] = i
        BY <1>2, <1>3, <2>1, <2>3, <3>1, <3>3 DEF ByPortal
      <4> QED BY <4>1
    <3> QED BY <3>2, <3>3
  <2> QED BY <1>3, <2>2, <2>3
<1>9. Loads(w, "loaded")
  BY <1>3 DEF Loads, Fine, StageOf, AtContext
<1>10. \A h \in history'[w] : Akin(h[2], mail[w])
  BY <1>1, <1>5, <1>6
<1> QED BY <1>1, <1>7, <1>8, <1>9, <1>10, FineLoads

(* The reply is composed, recorded and sent while the row stays safe.      *)
LEMMA FineAnswers ==
  ASSUME MailsOK, Grows, RowsGrow, NEW w \in Workers, Fine(w),
         step'[w] \in {"record", "send", "mark"}, job[w] = "context",
         UNCHANGED <<job, mail, history, due>>,
         runs'[mail[w]].thread # 0, runs'[mail[w]].state = "safe",
         found'[w] # 0 => WillBeAkin(found'[w], mail[w])
  PROVE  Fine(w)'
<1>1. PICK m : m = mail[w]
  OBVIOUS
<1>2. m \in Known /\ m \in Known' /\ mail'[w] = m
      /\ \A i : Akin(i, m) => WillBeAkin(i, m)
  <2>1. m \in Known
    BY <1>1 DEF Fine, StageOf
  <2> QED BY <1>1, <2>1 DEF Grows, Akin, WillBeAkin
<1>3. StageOf(w)'
  <2>1. found'[w] # 0 => Akin(found[w], mail[w])'
    BY <1>1, <1>2 DEF Akin, WillBeAkin
  <2> HIDE DEF Akin
  <2> QED BY <1>1, <1>2, <2>1 DEF StageOf
<1>4. LookOf(w)'
  BY DEF LookOf
<1>5. HistoryOf(w)'
  <2>1. \A h \in history'[w] : Akin(h[2], mail[w])'
    BY <1>1, <1>2 DEF Fine, HistoryOf, Akin, WillBeAkin
  <2> QED BY <2>1 DEF Fine, HistoryOf
<1>6. DueOf(w)'
  <2>1. \A i \in due'[w] : i \in Known /\ Akin(i, mail[w])' /\ i # m
                            /\ IsRecorded(i)
    BY <1>1, <1>2 DEF Fine, DueOf, Akin, WillBeAkin
  <2>2. \A i \in Known : IsRecorded(i) => IsRecorded(i)'
    BY Recording
  <2> QED BY <1>2, <2>1, <2>2 DEF DueOf, AtContext
<1> QED BY <1>3, <1>4, <1>5, <1>6 DEF Fine

(* The reply joins the conversation of the mail it answers.                *)
LEMMA FineComposeReply ==
  ASSUME MailsOK, Grows, RowsGrow, LocalOK, NEW w \in Workers, Fine(w),
         ComposeReply(w)
  PROVE  Fine(w)' /\ job[w] = "context" /\ job' = job /\ mail' = mail
<1>1. /\ step[w] = "loaded" /\ step'[w] = "record" /\ job[w] = "context"
      /\ UNCHANGED <<job, mail, history, due, runs>>
      /\ mail[w] \in Known /\ mail[w] # 0
      /\ runs[mail[w]].thread # 0 /\ runs[mail[w]].state = "safe"
  BY DEF ComposeReply, Goto, LocalOK, tables, Fine, StageOf, AtContext, Known
<1>2. found'[w] # 0 => WillBeAkin(found'[w], mail[w])
  <2>1. CASE found' = [found EXCEPT ![w] = 0]
    BY <2>1 DEF LocalOK
  <2>2. CASE /\ Compose("reply", mail[w], ReplyRefs(mail[w]), TRUE)
             /\ found' = [found EXCEPT ![w] = Len(mails')]
    <3>1. Names(mail[w], ReplyRefs(mail[w])) /\ "reply" \in Kinds
      BY <1>1 DEF Names, Kinds
    <3>2. /\ Known' = Known \cup {Len(mails')}
          /\ mails'[Len(mails')].root = mails[mail[w]].root
      BY <1>1, <2>2, <3>1, Composes
    <3>3. mails'[mail[w]] = mails[mail[w]]
      BY <1>1 DEF Grows
    <3>4. found'[w] = Len(mails')
      BY <2>2 DEF LocalOK
    <3> QED BY <3>2, <3>3, <3>4 DEF WillBeAkin
  <2> QED BY <2>1, <2>2 DEF ComposeReply
<1>3. Fine(w)'
  BY <1>1, <1>2, FineAnswers
<1> QED BY <1>1, <1>3

(* Recording and sending it.                                               *)
LEMMA FineSends ==
  ASSUME MailsOK, TablesOK, LocalOK, StageOK, Grows, RowsGrow,
         NEW w \in Workers, Fine(w), RecordOutbound(w) \/ SendMail(w)
  PROVE  Fine(w)' /\ job[w] = "context" /\ job' = job /\ mail' = mail
<1>1. /\ step[w] \in {"record", "send"} /\ step'[w] \in {"send", "mark"}
      /\ job[w] = "context" /\ UNCHANGED <<job, mail, history, due, found>>
      /\ mail[w] \in Known /\ mail[w] \in Ids
      /\ runs[mail[w]].thread # 0 /\ runs[mail[w]].state = "safe"
  <2>1. /\ step[w] \in {"record", "send"} /\ step'[w] \in {"send", "mark"}
        /\ UNCHANGED <<job, mail, history, due, found>>
    BY DEF RecordOutbound, SendMail, Goto, LocalOK
  <2>2. mail[w] \in Ids
    BY <2>1, ThreadType
  <2> QED BY <2>1, <2>2 DEF Fine, StageOf, AtContext
<1>2. runs'[mail[w]].thread # 0 /\ runs'[mail[w]].state = "safe"
  <2>1. CASE runs' = runs
    BY <1>1, <2>1
  <2>2. CASE RunBecomes(mail[w], runs[mail[w]].thread, found[w],
                        runs[mail[w]].state)
    <3>1. runs'[mail[w]] = [thread |-> runs[mail[w]].thread,
                            out |-> found[w], state |-> runs[mail[w]].state]
      BY <1>1, <2>2 DEF RunBecomes, TablesOK
    <3> QED BY <1>1, <3>1
  <2> QED BY <2>1, <2>2, RunWriters DEF SendMail, tables
<1>3. found'[w] # 0 => WillBeAkin(found'[w], mail[w])
  BY <1>1 DEF Fine, StageOf, Akin, WillBeAkin, Grows
<1>4. Fine(w)'
  BY <1>1, <1>2, <1>3, FineAnswers
<1> QED BY <1>1, <1>4

(* Whatever the worker does, it is fine; and it handles the mail it        *)
(* handled, or one that no other worker handles.                           *)
LEMMA WorkerFine ==
  ASSUME MailsOK, TablesOK, LocalOK, RunsOK, SentOK, PortalOK, RowsTrue,
         StageOK, Grows, RowsGrow, NEW w \in Workers, Fine(w), WorkerDoes(w)
  PROVE  /\ Fine(w)'
         /\ job'[w] = "context" =>
              /\ mail'[w] = mail[w]
              /\ \/ job[w] = "context"
                 \/ \A v \in Workers \ {w} :
                      mail[v] = mail[w] => job[v] # "context"
<1>1. CASE Claim(w) \/ SyncSent(w)
  BY <1>1, FineBegin
<1>2. CASE LookInRuns(w)
  BY <1>2, FineLookInRuns
<1>3. CASE LookInSent(w)
  BY <1>3, FineLookInSent
<1>4. CASE LookInPortal(w)
  BY <1>4, FineLookInPortal
<1>5. CASE SaveRun(w)
  BY <1>5, FineSaveRun
<1>6. CASE Scan(w)
  BY <1>6, FineScan
<1>7. CASE ReadRuns(w)
  BY <1>7, FineReadRuns
<1>8. CASE ReadSent(w)
  BY <1>8, FineReadSent
<1>9. CASE ReadPortal(w)
  BY <1>9, FineReadPortal
<1>10. CASE ComposeReply(w)
  BY <1>10, FineComposeReply
<1>11. CASE RecordOutbound(w) \/ SendMail(w)
  BY <1>11, FineSends
<1>12. CASE SaveSent(w) \/ MarkRun(w) \/ GiveUp(w)
  <2>1. Stop(w)
    BY <1>12 DEF SaveSent, MarkRun, GiveUp
  <2>2. job'[w] = "none"
    BY <2>1 DEF Stop, LocalOK
  <2> QED BY <2>1, <2>2, FineStop
<1> QED BY <1>1, <1>2, <1>3, <1>4, <1>5, <1>6, <1>7, <1>8, <1>9, <1>10,
       <1>11, <1>12 DEF WorkerDoes

(* Nobody touches the row of a mail another worker handles.                *)
LEMMA OthersRow ==
  ASSUME MailsOK, TablesOK, LocalOK, StageOK, OneHandler, NEW w \in Workers,
         WorkerDoes(w), NEW v \in Workers \ {w}, job[v] = "context"
  PROVE  runs'[mail[v]] = runs[mail[v]]
<1>1. mail[v] \in Ids
  BY Kin DEF StageOK, StageOf
<1>2. \A m, t, o, s : RunBecomes(m, t, o, s) /\ m # mail[v] =>
        runs'[mail[v]] = runs[mail[v]]
  BY <1>1 DEF RunBecomes, TablesOK
<1>3. CASE SaveRun(w)
  <2>1. \/ runs' = runs
        \/ mail[v] # mail[w] /\ \E t, o, s : RunBecomes(mail[w], t, o, s)
    BY <1>3, RunWriters
  <2> QED BY <1>2, <2>1
<1>4. CASE Scan(w) \/ RecordOutbound(w) \/ MarkRun(w)
  <2>1. job[w] = "context"
    BY <1>4 DEF Scan, RecordOutbound, MarkRun, StageOK, StageOf, AtContext
  <2>2. mail[v] # mail[w]
    BY <2>1 DEF OneHandler
  <2>3. runs' = runs \/ \E t, o, s : RunBecomes(mail[w], t, o, s)
    BY <1>4, RunWriters
  <2> QED BY <1>2, <2>2, <2>3
<1>5. CASE /\ ~SaveRun(w) /\ ~Scan(w) /\ ~RecordOutbound(w) /\ ~MarkRun(w)
  BY <1>5 DEF WorkerDoes, Claim, SyncSent, LookInRuns, LookInSent,
     LookInPortal, SaveSent, ReadRuns, ReadSent, ReadPortal, ComposeReply,
     SendMail, GiveUp, tables
<1> QED BY <1>3, <1>4, <1>5

(* Those that wait stay fine.                                              *)
LEMMA WaitingFine ==
  ASSUME MailsOK, Grows, RowsGrow, NEW v \in Workers, Waits(v), Fine(v),
         job[v] = "context" => runs'[mail[v]] = runs[mail[v]]
  PROVE  Fine(v)'
<1>1. StageOf(v) /\ LookOf(v) /\ HistoryOf(v) /\ DueOf(v)
  BY DEF Fine
<1>2. StageOf(v)'
  BY <1>1, WaitingStage
<1>3. LookOf(v)'
  BY <1>1, WaitingLook
<1>4. HistoryOf(v)'
  BY <1>1, WaitingHistory
<1>5. DueOf(v)'
  BY <1>1, WaitingDue
<1> QED BY <1>2, <1>3, <1>4, <1>5 DEF Fine

-----------------------------------------------------------------------------
(* The invariant.                                                          *)

(* Nothing is composed, no row is written, every worker is idle.           *)
LEMMA Initially == Init => IndexInv
<1> SUFFICES ASSUME Init PROVE IndexInv
  OBVIOUS
<1> USE DEF Init
<1>1. MaxMails \in Nat /\ Ids \subseteq Nat /\ 0 \in 0..MaxMails
  BY IndexAssumption DEF Ids
<1>2. mails \in Seq(Mail) /\ Len(mails) = 0 /\ Known = {}
  BY EmptySeq DEF Known
<1>3. MailsOK
  BY <1>1, <1>2 DEF MailsOK
<1>4. TablesOK
  <2>1. bound.faults \in Nat
    BY IndexAssumption DEF BoundRecord
  <2> QED BY <1>1, <2>1 DEF TablesOK, NoRun, NoPortal
<1>5. LocalOK
  BY <1>1 DEF LocalOK
<1>6. RunsOK /\ SentOK /\ PortalOK /\ RowsTrue
  BY <1>2 DEF RunsOK, SentOK, PortalOK, RowsTrue, NoRun, NoPortal, Safe
<1>7. \A w \in Workers : StageOf(w) /\ LookOf(w) /\ HistoryOf(w) /\ DueOf(w)
  BY DEF StageOf, LookOf, HistoryOf, DueOf, AtContext
<1>8. OneHandler
  BY DEF OneHandler
<1> QED BY <1>3, <1>4, <1>5, <1>6, <1>7, <1>8 DEF IndexInv, StageOK, LookOK,
       HistoryOK, DueOK

(* The parts of the invariant that are about one worker, together.         *)
LEMMA AllFine ==
  (\A w \in Workers : Fine(w)) <=> StageOK /\ LookOK /\ HistoryOK /\ DueOK
  BY DEF Fine, StageOK, LookOK, HistoryOK, DueOK

(* A step of the world keeps the invariant: every worker waits.            *)
LEMMA WorldKeeps ==
  ASSUME IndexInv, WorldMoves, bound' = bound
  PROVE  IndexInv'
<1>1. /\ MailsOK /\ TablesOK /\ LocalOK /\ RunsOK /\ SentOK /\ PortalOK
      /\ RowsTrue /\ OneHandler /\ \A w \in Workers : Fine(w)
  BY AllFine DEF IndexInv
<1>3. MailsOK' /\ TablesOK' /\ LocalOK'
  BY <1>1, WorldTypes DEF WorldMoves
<1>4. /\ Grows /\ RowMoves /\ PortalMoves /\ astray \subseteq astray'
      /\ \A v \in Workers : Waits(v)
      /\ runs' = runs /\ job' = job /\ mail' = mail
  BY DEF WorldMoves, RowMoves, Waits
<1>5. RunsOK' /\ SentOK' /\ PortalOK' /\ RowsTrue' /\ RowsGrow
  BY <1>1, <1>3, <1>4, RowsKept
<1>6. \A v \in Workers : Fine(v)'
  BY <1>1, <1>4, <1>5, WaitingFine
<1>7. StageOK' /\ LookOK' /\ HistoryOK' /\ DueOK'
  BY <1>6 DEF Fine, StageOK, LookOK, HistoryOK, DueOK
<1>8. OneHandler'
  BY <1>1, <1>4 DEF OneHandler
<1> QED BY <1>3, <1>5, <1>7, <1>8 DEF IndexInv

(* A step of a worker keeps it: the others wait.                           *)
LEMMA WorkerKeeps ==
  ASSUME IndexInv, NEW w \in Workers, WorkerDoes(w), bound' = bound
  PROVE  IndexInv'
<1>1. /\ MailsOK /\ TablesOK /\ LocalOK /\ RunsOK /\ SentOK /\ PortalOK
      /\ RowsTrue /\ OneHandler /\ StageOK /\ LookOK
      /\ \A v \in Workers : Fine(v)
  BY AllFine DEF IndexInv
<1>2. WorkerMoves(w)
  BY <1>1, WorkerStep
<1>3. MailsOK' /\ TablesOK' /\ LocalOK'
  BY <1>1, <1>2, WorkerTypes DEF WorkerMoves
<1>4. RowMoves /\ astray \subseteq astray'
  BY <1>1, RowStep
<1>5. Grows /\ PortalMoves /\ \A v \in Workers \ {w} : Waits(v)
  BY <1>2 DEF WorkerMoves, PortalMoves
<1>6. RunsOK' /\ SentOK' /\ PortalOK' /\ RowsTrue' /\ RowsGrow
  BY <1>1, <1>3, <1>4, <1>5, RowsKept
<1>7. /\ Fine(w)'
      /\ job'[w] = "context" =>
           /\ mail'[w] = mail[w]
           /\ \/ job[w] = "context"
              \/ \A v \in Workers \ {w} :
                   mail[v] = mail[w] => job[v] # "context"
  BY <1>1, <1>5, <1>6, WorkerFine
<1>8. ASSUME NEW v \in Workers \ {w} PROVE Fine(v)'
  <2>1. job[v] = "context" => runs'[mail[v]] = runs[mail[v]]
    BY <1>1, OthersRow
  <2> QED BY <1>1, <1>5, <1>6, <2>1, WaitingFine
<1>9. StageOK' /\ LookOK' /\ HistoryOK' /\ DueOK'
  <2>1. \A v \in Workers : Fine(v)'
    BY <1>7, <1>8
  <2> QED BY <2>1 DEF Fine, StageOK, LookOK, HistoryOK, DueOK
<1>10. OneHandler'
  <2> SUFFICES ASSUME NEW u \in Workers, NEW v \in Workers, u # v,
                      job'[u] = "context", job'[v] = "context",
                      mail'[u] = mail'[v]
               PROVE  FALSE
    BY DEF OneHandler
  <2>1. CASE u # w /\ v # w
    BY <1>1, <1>5, <2>1 DEF OneHandler, Waits
  <2>2. CASE u = w
    <3>1. job[v] = "context" /\ mail[v] = mail[u]
      BY <1>5, <1>7, <2>2 DEF Waits
    <3> QED BY <1>1, <1>7, <2>2, <3>1 DEF OneHandler
  <2>3. CASE v = w
    <3>1. job[u] = "context" /\ mail[u] = mail[v]
      BY <1>5, <1>7, <2>3 DEF Waits
    <3> QED BY <1>1, <1>7, <2>3, <3>1 DEF OneHandler
  <2> QED BY <2>1, <2>2, <2>3
<1> QED BY <1>3, <1>6, <1>9, <1>10 DEF IndexInv

(* A step that changes nothing is a step of the world.                     *)
LEMMA Inductively == IndexInv /\ [Next]_vars => IndexInv'
<1> SUFFICES ASSUME IndexInv, [Next]_vars PROVE IndexInv'
  OBVIOUS
<1>1. CASE UNCHANGED vars
  <2>1. MailsOK' /\ Grows /\ Known' = Known
    BY <1>1, NoMail DEF IndexInv, vars, world
  <2>2. WorldMoves /\ bound' = bound
    BY <1>1, <2>1 DEF WorldMoves, PortalMoves, vars, world, tables, worker,
       IndexInv, TablesOK
  <2> QED BY <2>2, WorldKeeps
<1>2. CASE World /\ bound' = bound
  BY <1>2, WorldStep, WorldKeeps DEF IndexInv
<1>3. CASE bound' = bound /\ \E w \in Workers : WorkerDoes(w)
  BY <1>3, WorkerKeeps
<1>4. Next => bound' = bound /\ (World \/ \E w \in Workers : WorkerDoes(w))
  BY DEF Next, World, WorkerDoes
<1> QED BY <1>1, <1>2, <1>3, <1>4

(* Thread ids and the histories loaded by them: the facts every reachable  *)
(* state satisfies, of which the three below are parts.                    *)
THEOREM IndexInvariant == Spec => []IndexInv
  BY Initially, Inductively, PTL DEF Spec

(* TypeOK: rows and workers hold what their columns allow, and a mail      *)
(* names earlier mails only.                                               *)
THEOREM IndexTypes == Spec => []TypeOK
<1>1. IndexInv => TypeOK
  <2> SUFFICES ASSUME IndexInv PROVE TypeOK
    OBVIOUS
  <2>1. MailsOK /\ TablesOK /\ LocalOK
    BY DEF IndexInv
  <2>2. /\ Len(mails) \in 0..MaxMails
        /\ \A m \in Known :
             mails[m].kind \in Kinds /\ mails[m].safe \in BOOLEAN
    <3>1. mails \in Seq(Mail) /\ Len(mails) \in Nat /\ Len(mails) <= MaxMails
      BY <2>1 DEF MailsOK
    <3>2. \A m \in Known : mails[m] \in Mail
      BY <3>1, ElementOfSeq DEF Known
    <3> QED BY <3>1, <3>2, IndexAssumption DEF Mail
  <2> QED BY <2>1, <2>2 DEF TypeOK, MailsOK, TablesOK, LocalOK
<1> QED BY <1>1, IndexInvariant, PTL

(* OneThread: every row of a conversation, and every history loaded for    *)
(* one, is under the conversation's root, unless a mail of it was looked   *)
(* up before all it names and could not tell the root.                     *)
THEOREM OneThreadPerConversation == Spec => []OneThread
<1>1. IndexInv => OneThread
  <2> SUFFICES ASSUME IndexInv, NEW m \in Known, mails[m].root \notin astray
               PROVE  /\ runs[m].thread \in {0, mails[m].root}
                      /\ sent[m] \in {0, mails[m].root}
                      /\ portal[m].thread \in {0, mails[m].root}
                      /\ \A w \in Workers :
                           /\ mail[w] = m
                           /\ step[w] \in {"use", "readSent", "readPortal"}
                           => Thread(w) = mails[m].root
    BY DEF OneThread
  <2> QED BY DEF IndexInv, RowsTrue, LookOK, LookOf
<1> QED BY <1>1, IndexInvariant, PTL

(* ContextWhole: the history the AI is given holds every mail of the       *)
(* conversation that was recorded when the loading began, none twice but a *)
(* portal reply that is in the Sent folder too, and none of another.       *)
THEOREM HistoryIsWhole == Spec => []ContextWhole
<1>1. IndexInv => ContextWhole
  BY DEF IndexInv, ContextWhole, DueOK, DueOf, HistoryOK, HistoryOf, Read,
     AtContext, Akin
<1> QED BY <1>1, IndexInvariant, PTL
=============================================================================

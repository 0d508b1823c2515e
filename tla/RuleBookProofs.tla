--------------------------- MODULE RuleBookProofs ---------------------------
(***************************************************************************)
(* What the rules and the history guarantee, for any windows, workers,     *)
(* mails and labels: the history says of a handled mail what was decided,  *)
(* and a marketing mail that meets no rule was let through by an operator. *)
(*                                                                         *)
(* The first rests on one fact about each worker with a mail in its hands: *)
(* the row of that mail is either not written by this try, or it says what *)
(* the worker knows.  The second rests on one fact about each poll: since  *)
(* it seeded the rules there is a default rule, or one was taken away.     *)
(***************************************************************************)
EXTENDS RuleBook, TLAPS

Waiting == {"idle", "seed", "fetch"}

(* A worker between two mails has none; one with a mail is alone with it,  *)
(* and the mail is not handled yet.                                        *)
HeldOK ==
  /\ \A w \in Workers : step[w] \notin Waiting =>
       mail[w] \in Mails /\ outcome[mail[w]] = NoAnswer
  /\ \A w, v \in Workers :
       step[w] \notin Waiting /\ step[v] \notin Waiting /\ mail[w] = mail[v]
         => w = v

(* Until the try records something, it has not recorded anything.          *)
NotYet ==
  \A w \in Workers :
    step[w] \in {"classify", "match", "prompt", "record"} =>
      mail[w] \in unwritten

(* A mail that asks for a human meets no rule, and only a worker that      *)
(* looked for a rule has one.                                              *)
MatchedOK ==
  \A w \in Workers :
    /\ step[w] \in Waiting \cup {"classify", "match", "agent"} =>
         matched[w] = NoRule
    /\ step[w] \notin Waiting /\ Asks(w) => matched[w] = NoRule

(* What a row says is what the worker that wrote it knows.                 *)
RowOK ==
  \A w \in Workers :
    step[w] \in {"decide", "agent"} /\ mail[w] \notin unwritten =>
      /\ history[mail[w]].source = Source(w)
      /\ history[mail[w]].rule.name = matched[w].name
      /\ history[mail[w]].labels = found[w]

(* A poll that has seeded finds the default rule, or knows why it does not.*)
DefaultOK ==
  \A w \in Workers : step[w] \notin {"idle", "seed"} =>
    removed[w] \/ \E i \in DOMAIN rules : IsDefault(rules[i])

(* A list and the table of rules are functions.                            *)
Tables ==
  /\ list = [o \in Operators |-> list[o]]
  /\ rules = [i \in DOMAIN rules |-> rules[i]]

BookInv ==
  /\ TypeOK /\ Tables
  /\ HeldOK /\ NotYet /\ MatchedOK /\ RowOK /\ HistoryAgrees
  /\ DefaultOK

-----------------------------------------------------------------------------
(* Types.                                                                  *)

Steps == {"idle", "seed", "fetch", "classify", "match", "prompt", "record",
          "decide", "agent"}

PanelType ==
  /\ at \in [Operators -> {"idle", "seed", "list"}]
  /\ \A o \in Operators :
       /\ list[o].labels \subseteq Categories \cup Topics
       /\ \A i \in DOMAIN list[o].rules : list[o].rules[i] \in Rule

WorkerType ==
  /\ step \in [Workers -> Steps]
  /\ mail \in [Workers -> Mails \cup {None}]
  /\ found \in [Workers -> Labels]
  /\ matched \in [Workers ->
       [id : 0..next, name : RuleNames \cup {None}]]

LabelType == Seeded \subseteq labels /\ labels \subseteq Categories \cup Topics

BookType ==
  /\ next \in Nat \ {0}
  /\ DOMAIN rules \subseteq 1..(next - 1)
  /\ \A i \in DOMAIN rules : rules[i] \in Rule

RowType ==
  history \in [Mails ->
    [labels : Labels, source : {None, "human_review", "rule", "agent"},
     rule : [id : DOMAIN rules \cup {0}, name : RuleNames \cup {None}]]]

OutcomeType ==
  outcome \in [Mails ->
    [by : {None, "human_review", "rule", "agent", "context_limit"},
     name : RuleNames \cup {None}, labels : Labels]]

CountType ==
  /\ bound \in Bounds
  /\ writes \in 0..bound.writes
  /\ attempts \in 0..bound.attempts
  /\ faults \in 0..bound.faults

PastType == unwritten \subseteq Mails /\ removed \in [Workers -> BOOLEAN]

(* The types in eight parts.                                               *)
LEMMA TypeParts ==
  TypeOK <=> /\ PanelType /\ WorkerType /\ LabelType /\ BookType /\ RowType
             /\ OutcomeType /\ CountType /\ PastType
  BY DEF TypeOK, PanelType, WorkerType, LabelType, BookType, RowType,
     OutcomeType, CountType, PastType, Steps

LEMMA TypePartsNext ==
  TypeOK' <=> /\ PanelType' /\ WorkerType' /\ LabelType' /\ BookType'
              /\ RowType' /\ OutcomeType' /\ CountType' /\ PastType'
  BY DEF TypeOK, PanelType, WorkerType, LabelType, BookType, RowType,
     OutcomeType, CountType, PastType, Steps

(* A combination of bounds names windows, processes, mails and numbers.    *)
LEMMA BoundTypes ==
  ASSUME CountType
  PROVE  /\ bound.windows \subseteq Operators
         /\ bound.processes \subseteq Workers
         /\ bound.mails \subseteq Mails
         /\ bound.writes \in Nat /\ bound.attempts \in Nat
         /\ bound.faults \in Nat
  BY RuleBookAssumption DEF CountType, BoundRecord

(* Counters grow by one at a time, up to their bounds.                     *)
LEMMA CountsNext ==
  ASSUME CountType, UNCHANGED bound,
         UNCHANGED writes \/ (writes < bound.writes /\ writes' = writes + 1),
         \/ UNCHANGED attempts
         \/ attempts < bound.attempts /\ attempts' = attempts + 1,
         UNCHANGED faults \/ (faults < bound.faults /\ faults' = faults + 1)
  PROVE  CountType'
  BY BoundTypes DEF CountType

-----------------------------------------------------------------------------
(* The table of rules.                                                     *)

BookOK == BookType /\ Tables

(* A table after a step that takes nothing away: what was there is as it   *)
(* was.                                                                    *)
BookGrows ==
  /\ BookType' /\ rules' = [i \in DOMAIN rules' |-> rules'[i]]
  /\ next <= next'
  /\ DOMAIN rules \subseteq DOMAIN rules'
  /\ \A i \in DOMAIN rules : rules'[i] = rules[i]

(* A book nobody writes to is the same book.                               *)
LEMMA BookStays ==
  ASSUME BookOK, UNCHANGED book
  PROVE  BookGrows
  BY DEF BookOK, BookGrows, BookType, Tables, book

(* A new rule gets an id no rule has or had.                               *)
LEMMA InsertAdds ==
  ASSUME BookOK, NEW r \in Rule, rules' = WithRule(r), next' = next + 1
  PROVE  /\ BookGrows
         /\ next \in DOMAIN rules' /\ rules'[next] = r
<1>1. /\ DOMAIN rules' = DOMAIN rules \cup {next}
      /\ \A i \in DOMAIN rules' :
           rules'[i] = IF i = next THEN r ELSE rules[i]
      /\ rules' = [i \in DOMAIN rules' |-> rules'[i]]
  BY DEF WithRule
<1>2. next \notin DOMAIN rules /\ next \in Nat \ {0}
  BY DEF BookOK, BookType
<1>3. next' \in Nat \ {0} /\ next <= next'
  BY <1>2
<1>4. DOMAIN rules' \subseteq 1..(next' - 1)
  BY <1>1, <1>2 DEF BookOK, BookType
<1>5. \A i \in DOMAIN rules' : rules'[i] \in Rule
  BY <1>1 DEF BookOK, BookType
<1> QED
  BY <1>1, <1>2, <1>3, <1>4, <1>5 DEF BookGrows, BookType

(* Seeding adds the default rule unless it is there.                       *)
LEMMA SeedAdds ==
  ASSUME BookOK, SeedRule
  PROVE  BookGrows /\ \E i \in DOMAIN rules' : IsDefault(rules'[i])
<1>1. DefaultRule \in Rule
  BY RuleBookAssumption DEF DefaultRule, Rule, RuleNames, Priorities
<1>2. CASE Clashing(DefaultRule) = {}
  <2>1. /\ BookGrows
        /\ next \in DOMAIN rules' /\ rules'[next] = DefaultRule
    BY <1>1, <1>2, InsertAdds DEF SeedRule
  <2> QED
    BY <2>1 DEF IsDefault, DefaultRule
<1>3. CASE Clashing(DefaultRule) # {}
  <2>1. UNCHANGED book
    BY <1>3 DEF SeedRule
  <2>2. \E i \in DOMAIN rules : IsDefault(rules[i])
    BY <1>3 DEF Clashing, IsDefault, DefaultRule
  <2> QED
    BY <2>1, <2>2, BookStays DEF book
<1> QED
  BY <1>2, <1>3

(* What a window submits for a rule it shows is a rule.                    *)
LEMMA EditedIsRule ==
  ASSUME PanelType, NEW o \in Operators, NEW i \in DOMAIN list[o].rules,
         NEW r \in Edited(o, i)
  PROVE  r \in Rule
<1> DEFINE old == list[o].rules[i]
<1>1. old \in Rule
  BY DEF PanelType
<1> HIDE DEF old
<1>2. /\ \A n \in RuleNames : [old EXCEPT !.name = n] \in Rule
      /\ \A c \in Categories : [old EXCEPT !.category = c] \in Rule
      /\ \A ts \in SUBSET Topics : [old EXCEPT !.topics = ts] \in Rule
      /\ [old EXCEPT !.enabled = ~old.enabled] \in Rule
      /\ \A p \in Priorities : [old EXCEPT !.priority = p] \in Rule
  BY <1>1 DEF Rule
<1> QED
  BY <1>2 DEF Edited, old

(* A rule that is edited keeps its id.                                     *)
LEMMA UpdateBook ==
  ASSUME BookOK, PanelType, NEW o \in Operators, UpdateRule(o)
  PROVE  /\ BookType' /\ rules' = [i \in DOMAIN rules' |-> rules'[i]]
         /\ next' = next /\ DOMAIN rules' = DOMAIN rules
<1>0. PICK i \in DOMAIN list[o].rules : \E r \in Edited(o, i) :
        IF i \in DOMAIN rules /\ Clashing(r) \subseteq {i}
        THEN rules' = [rules EXCEPT ![i] = r]
        ELSE UNCHANGED <<at, rules>>
  BY DEF UpdateRule
<1>1. PICK r \in Edited(o, i) :
        IF i \in DOMAIN rules /\ Clashing(r) \subseteq {i}
        THEN rules' = [rules EXCEPT ![i] = r]
        ELSE UNCHANGED <<at, rules>>
  BY <1>0
<1>2. r \in Rule /\ next' = next
  BY EditedIsRule DEF UpdateRule
<1>3. CASE rules' = [rules EXCEPT ![i] = r]
  <2>1. /\ rules' = [j \in DOMAIN rules |-> IF j = i THEN r ELSE rules[j]]
    BY <1>3 DEF BookOK, Tables
  <2> QED
    BY <1>2, <2>1 DEF BookOK, BookType
<1> QED
  BY <1>1, <1>2, <1>3 DEF BookOK, BookType, Tables

(* A rule that is deleted is forgotten by the history.                     *)
LEMMA DeleteBook ==
  ASSUME BookOK, NEW o \in Operators, DeleteRule(o)
  PROVE  /\ BookType' /\ rules' = [i \in DOMAIN rules' |-> rules'[i]]
         /\ next' = next
         /\ \/ UNCHANGED <<rules, history>>
            \/ \E i \in DOMAIN rules :
                 DOMAIN rules' = DOMAIN rules \ {i} /\ ForgetRule(i)
<1>1. PICK i \in DOMAIN list[o].rules :
        IF i \in DOMAIN rules
        THEN /\ rules' = Restrict(rules, DOMAIN rules \ {i})
             /\ ForgetRule(i)
        ELSE UNCHANGED <<rules, history>>
  BY DEF DeleteRule
<1>2. next' = next
  BY DEF DeleteRule
<1>3. CASE i \in DOMAIN rules
  <2>1. rules' = [j \in DOMAIN rules \ {i} |-> rules[j]]
    BY <1>1, <1>3 DEF Restrict
  <2> QED
    BY <1>1, <1>2, <1>3, <2>1 DEF BookOK, BookType
<1>4. CASE i \notin DOMAIN rules
  BY <1>1, <1>2, <1>4 DEF BookOK, BookType, Tables
<1> QED
  BY <1>3, <1>4

-----------------------------------------------------------------------------
(* A step of a window.                                                     *)

(* The columns of a row that a deletion leaves.                            *)
SameRows ==
  \A m \in Mails : /\ history'[m].labels = history[m].labels
                   /\ history'[m].source = history[m].source
                   /\ history'[m].rule.name = history[m].rule.name

(* Rows keep their rules while the book only grows.                        *)
LEMMA RowsStay ==
  ASSUME RowType, DOMAIN rules \subseteq DOMAIN rules', UNCHANGED history
  PROVE  RowType' /\ SameRows
<1> DEFINE T(S) == [labels : Labels,
                    source : {None, "human_review", "rule", "agent"},
                    rule : [id : S, name : RuleNames \cup {None}]]
<1>1. T(DOMAIN rules \cup {0}) \subseteq T(DOMAIN rules' \cup {0})
  OBVIOUS
<1>2. history \in [Mails -> T(DOMAIN rules \cup {0})]
  BY DEF RowType
<1>3. history' \in [Mails -> T(DOMAIN rules' \cup {0})]
  BY <1>1, <1>2
<1> QED
  BY <1>3 DEF RowType, SameRows, Labels

(* A row whose rule is gone keeps the name and loses the id.               *)
LEMMA RowsForget ==
  ASSUME RowType, NEW i, i # 0, DOMAIN rules' = DOMAIN rules \ {i},
         ForgetRule(i)
  PROVE  RowType' /\ SameRows
<1> DEFINE T(S) == [labels : Labels,
                    source : {None, "human_review", "rule", "agent"},
                    rule : [id : S, name : RuleNames \cup {None}]]
<1>1. ASSUME NEW m \in Mails
      PROVE  /\ history'[m] \in T(DOMAIN rules' \cup {0})
             /\ history'[m].labels = history[m].labels
             /\ history'[m].source = history[m].source
             /\ history'[m].rule.name = history[m].rule.name
  <2> DEFINE h == history[m]
  <2>1. h \in T(DOMAIN rules \cup {0})
    BY DEF RowType
  <2>2. history'[m] = IF h.rule.id = i THEN [h EXCEPT !.rule.id = 0] ELSE h
    BY DEF ForgetRule
  <2> HIDE DEF h
  <2>3. CASE h.rule.id = i
    <3>1. history'[m] = [h EXCEPT !.rule = [h.rule EXCEPT !.id = 0]]
      BY <2>2, <2>3
    <3>2. [h.rule EXCEPT !.id = 0] \in
            [id : DOMAIN rules' \cup {0}, name : RuleNames \cup {None}]
      BY <2>1
    <3> QED
      BY <2>1, <3>1, <3>2 DEF h
  <2>4. CASE h.rule.id # i
    BY <2>1, <2>2, <2>4 DEF h
  <2> QED
    BY <2>3, <2>4
<1>2. history' \in [Mails -> T(DOMAIN rules' \cup {0})]
  <2>1. history' = [m \in Mails |-> history'[m]]
    BY DEF ForgetRule
  <2> HIDE DEF T
  <2> QED
    BY <1>1, <2>1
<1> QED
  BY <1>1, <1>2 DEF RowType, SameRows

(* Workers nobody touches hold rules the book has or had.                  *)
LEMMA WorkersStay ==
  ASSUME WorkerType, UNCHANGED worker, next \in Nat, next' \in Nat,
         next <= next'
  PROVE  WorkerType'
<1>1. 0..next \subseteq 0..next'
  OBVIOUS
<1>2. [id : 0..next, name : RuleNames \cup {None}] \subseteq
        [id : 0..next', name : RuleNames \cup {None}]
  BY <1>1
<1>3. matched \in [Workers -> [id : 0..next', name : RuleNames \cup {None}]]
  BY <1>2 DEF WorkerType
<1> QED
  BY <1>3 DEF WorkerType, worker

(* Once the default rule was taken away, that is not forgotten.            *)
LEMMA NoticeTypes ==
  ASSUME PastType, Notice, UNCHANGED unwritten
  PROVE  /\ PastType'
         /\ \A w \in Workers : removed[w] => removed'[w]
         /\ \A w \in Workers, i \in DOMAIN rules :
              IsDefault(rules[i]) =>
                removed'[w] \/ (i \in DOMAIN rules' /\ IsDefault(rules'[i]))
<1> DEFINE gone(w) ==
      \/ removed[w]
      \/ \E i \in DOMAIN rules :
           /\ IsDefault(rules[i])
           /\ i \in DOMAIN rules' => ~IsDefault(rules'[i])
<1>1. removed' = [w \in Workers |-> gone(w)]
  BY DEF Notice
<1>2. \A w \in Workers : gone(w) \in BOOLEAN
  OBVIOUS
<1>3. \A w \in Workers : removed'[w] = gone(w)
  <2> HIDE DEF gone
  <2> QED
    BY <1>1
<1>4. removed' \in [Workers -> BOOLEAN]
  <2> HIDE DEF gone
  <2> QED
    BY <1>1, <1>2
<1> QED
  BY <1>3, <1>4 DEF PastType

(* What a window's step leaves alone.                                      *)
LEMMA WindowFrame ==
  ASSUME NEW o \in Operators, WindowStep(o)
  PROVE  /\ UNCHANGED <<worker, outcome, attempts, unwritten>>
         /\ DeleteRule(o) \/ UNCHANGED history
         /\ \/ UNCHANGED writes
            \/ writes < bound.writes /\ writes' = writes + 1
         /\ UNCHANGED faults \/ (faults < bound.faults /\ faults' = faults + 1)
  BY DEF WindowStep, OpenRules, SeedForPanel, ListRules, Cut, AddLabel,
     CreateRule, UpdateRule, DeleteRule, Press, Fault, counts, past

(* A window's step changes its own list and the labels.                    *)
LEMMA WindowPanel ==
  ASSUME TypeOK, Tables, NEW o \in Operators, WindowStep(o)
  PROVE  /\ PanelType' /\ list' = [p \in Operators |-> list'[p]]
         /\ LabelType'
<1>1. PanelType /\ LabelType /\ list = [p \in Operators |-> list[p]]
      /\ \A i \in DOMAIN rules : rules[i] \in Rule
  BY TypeParts DEF Tables, BookType
<1>2. at' \in [Operators -> {"idle", "seed", "list"}]
  BY <1>1 DEF PanelType, WindowStep, OpenRules, SeedForPanel, ListRules, Cut,
     AddLabel, CreateRule, UpdateRule, DeleteRule, Goto
<1>3. CASE ListRules(o)
  <2> DEFINE shown == [rules |-> rules, labels |-> labels]
  <2>1. list' = [list EXCEPT ![o] = shown] /\ labels' = labels
    BY <1>3 DEF ListRules
  <2>2. shown.rules = rules /\ shown.labels = labels
    OBVIOUS
  <2> HIDE DEF shown
  <2>3. list' = [p \in Operators |-> IF p = o THEN shown ELSE list[p]]
    BY <1>1, <2>1
  <2> QED
    BY <1>1, <1>2, <2>1, <2>2, <2>3 DEF PanelType, LabelType
<1>4. CASE ~ListRules(o)
  <2>1. UNCHANGED list
    BY <1>4 DEF WindowStep, OpenRules, SeedForPanel, Cut, AddLabel,
       CreateRule, UpdateRule, DeleteRule
  <2>2. LabelType'
    BY <1>1, <1>4 DEF WindowStep, OpenRules, SeedForPanel, Cut, AddLabel,
       CreateRule, UpdateRule, DeleteRule, LabelType
  <2> QED
    BY <1>1, <1>2, <2>1, <2>2 DEF PanelType
<1> QED
  BY <1>3, <1>4

(* What a window's step does to the rules, the rows and the marks.         *)
LEMMA WindowBook ==
  ASSUME TypeOK, Tables, NEW o \in Operators, WindowStep(o)
  PROVE  /\ BookType' /\ rules' = [i \in DOMAIN rules' |-> rules'[i]]
         /\ next <= next'
         /\ RowType' /\ SameRows /\ PastType'
         /\ \A w \in Workers : removed[w] => removed'[w]
         /\ \A w \in Workers, i \in DOMAIN rules :
              IsDefault(rules[i]) =>
                removed'[w] \/ (i \in DOMAIN rules' /\ IsDefault(rules'[i]))
<1>1. BookOK /\ RowType /\ PastType /\ PanelType /\ next \in Nat
  BY TypeParts DEF BookOK, BookType
<1>2. CASE OpenRules(o) \/ ListRules(o) \/ Cut(o) \/ AddLabel(o)
  <2>1. UNCHANGED <<book, history, past>>
    BY <1>2 DEF OpenRules, ListRules, Cut, AddLabel
  <2> QED
    BY <1>1, <2>1, BookStays, RowsStay DEF BookGrows, PastType, past, book
<1>3. CASE SeedForPanel(o)
  <2>1. BookGrows /\ UNCHANGED <<history, past>>
    BY <1>1, <1>3, SeedAdds DEF SeedForPanel
  <2> QED
    BY <1>1, <2>1, RowsStay DEF BookGrows, PastType, past
<1>4. CASE CreateRule(o)
  <2>1. UNCHANGED <<history, unwritten, removed>>
    BY <1>4 DEF CreateRule
  <2>2. \/ UNCHANGED book
        \/ \E r \in Rule : rules' = WithRule(r) /\ next' = next + 1
    <3>1. PICK n \in RuleNames, c \in Categories, ts \in SUBSET Topics,
               p \in Priorities :
            \/ UNCHANGED book
            \/ /\ rules' = WithRule([name |-> n, category |-> c,
                      topics |-> ts, enabled |-> TRUE, priority |-> p])
               /\ next' = next + 1
      BY <1>4 DEF CreateRule
    <3>2. [name |-> n, category |-> c, topics |-> ts, enabled |-> TRUE,
           priority |-> p] \in Rule
      BY DEF Rule
    <3> QED
      BY <3>1, <3>2
  <2>3. BookGrows
    BY <1>1, <2>2, BookStays, InsertAdds
  <2> QED
    BY <1>1, <2>1, <2>3, RowsStay DEF BookGrows, PastType
<1>5. CASE UpdateRule(o)
  <2>1. /\ BookType' /\ rules' = [i \in DOMAIN rules' |-> rules'[i]]
        /\ next' = next /\ DOMAIN rules' = DOMAIN rules
    BY <1>1, <1>5, UpdateBook
  <2>2. Notice /\ UNCHANGED <<history, unwritten>>
    BY <1>5 DEF UpdateRule
  <2> QED
    BY <1>1, <2>1, <2>2, RowsStay, NoticeTypes
<1>6. CASE DeleteRule(o)
  <2>1. /\ BookType' /\ rules' = [i \in DOMAIN rules' |-> rules'[i]]
        /\ next' = next
        /\ \/ UNCHANGED <<rules, history>>
           \/ \E i \in DOMAIN rules :
                DOMAIN rules' = DOMAIN rules \ {i} /\ ForgetRule(i)
    BY <1>1, <1>6, DeleteBook
  <2>2. Notice /\ UNCHANGED unwritten
    BY <1>6 DEF DeleteRule
  <2>3. RowType' /\ SameRows
    <3>1. \A i \in DOMAIN rules : i # 0
      BY <1>1 DEF BookOK, BookType
    <3> QED
      BY <1>1, <2>1, <3>1, RowsStay, RowsForget
  <2> QED
    BY <1>1, <2>1, <2>2, <2>3, NoticeTypes
<1> QED
  BY <1>2, <1>3, <1>4, <1>5, <1>6 DEF WindowStep

(* A window's step keeps the types.                                        *)
LEMMA WindowTypes ==
  ASSUME TypeOK, Tables, NEW o \in Operators, WindowStep(o), UNCHANGED bound
  PROVE  TypeOK' /\ Tables'
<1>1. /\ WorkerType /\ OutcomeType /\ CountType /\ next \in Nat
  BY TypeParts DEF BookType
<1>2. /\ BookType' /\ rules' = [i \in DOMAIN rules' |-> rules'[i]]
      /\ next <= next' /\ RowType' /\ PastType'
  BY WindowBook
<1>3. WorkerType'
  BY <1>1, <1>2, WindowFrame, WorkersStay DEF BookType
<1>4. OutcomeType'
  BY <1>1, WindowFrame DEF OutcomeType
<1>5. CountType'
  BY <1>1, WindowFrame, CountsNext
<1> QED
  BY <1>2, <1>3, <1>4, <1>5, WindowPanel, TypePartsNext DEF Tables

-----------------------------------------------------------------------------
(* A step of a worker.                                                     *)

(* The locals of the other workers.                                        *)
Others(w) ==
  \A v \in Workers \ {w} :
    /\ step'[v] = step[v] /\ mail'[v] = mail[v]
    /\ found'[v] = found[v] /\ matched'[v] = matched[v]

(* A worker that drops a mail holds nothing of it.                         *)
LEMMA DropTypes ==
  ASSUME WorkerType, next \in Nat, NEW w \in Workers, Drop(w), next' = next
  PROVE  /\ WorkerType' /\ Others(w)
         /\ step'[w] = "fetch" /\ matched'[w] = NoRule
  BY DEF WorkerType, Drop, Turn, Others, Steps, NoLabels, NoRule, Labels

(* A worker that goes on keeps its locals.                                 *)
LEMMA TurnTypes ==
  ASSUME WorkerType, next \in Nat, next' \in Nat, next <= next',
         NEW w \in Workers, NEW s \in Steps, Turn(w, s),
         UNCHANGED <<mail, found, matched>>
  PROVE  /\ WorkerType' /\ Others(w)
         /\ step'[w] = s
<1>1. /\ step' \in [Workers -> Steps] /\ step'[w] = s
      /\ \A v \in Workers \ {w} : step'[v] = step[v]
  BY DEF WorkerType, Turn
<1>2. 0..next \subseteq 0..next'
  OBVIOUS
<1>3. matched \in [Workers -> [id : 0..next', name : RuleNames \cup {None}]]
  BY <1>2 DEF WorkerType
<1> QED
  BY <1>1, <1>3 DEF WorkerType, Others

(* A row that is written says a source, a rule and labels that exist.      *)
LEMMA WriteTypes ==
  ASSUME TypeOK, NEW w \in Workers, mail[w] \in Mails,
         NEW s \in {"human_review", "rule", "agent"},
         NEW r \in [id : 0..next, name : RuleNames \cup {None}],
         WriteRow(w, s, r), UNCHANGED <<rules, removed>>
  PROVE  /\ RowType' /\ PastType'
         /\ \A m \in Mails \ {mail[w]} : history'[m] = history[m]
         /\ unwritten' \ {mail[w]} = unwritten \ {mail[w]}
         /\ \/ mail[w] \in unwritten'
            \/ /\ history'[mail[w]].labels = found[w]
               /\ history'[mail[w]].source = s
               /\ history'[mail[w]].rule = r
            \/ r.id # 0 /\ UNCHANGED <<history, unwritten>>
         /\ UNCHANGED faults \/ (faults < bound.faults /\ faults' = faults + 1)
<1> DEFINE row == [labels |-> found[w], source |-> s, rule |-> r]
<1>1. RowType /\ PastType /\ WorkerType
  BY TypeParts
<1>2. CASE /\ r.id \in DOMAIN rules \cup {0}
           /\ history' = [history EXCEPT ![mail[w]] = row]
           /\ unwritten' = unwritten \ {mail[w]}
           /\ UNCHANGED faults
  <2>1. row \in [labels : Labels,
                 source : {None, "human_review", "rule", "agent"},
                 rule : [id : DOMAIN rules \cup {0},
                         name : RuleNames \cup {None}]]
    BY <1>1, <1>2 DEF WorkerType
  <2>2. row.labels = found[w] /\ row.source = s /\ row.rule = r
    OBVIOUS
  <2> HIDE DEF row
  <2> QED
    BY <1>1, <1>2, <2>1, <2>2 DEF RowType, PastType
<1>3. CASE /\ r.id \notin DOMAIN rules \cup {0}
           /\ UNCHANGED <<history, unwritten, faults>>
  BY <1>1, <1>3 DEF RowType, PastType
<1>4. CASE /\ faults < bound.faults
           /\ faults' = faults + 1
           /\ unwritten' = unwritten \cup {mail[w]}
           /\ UNCHANGED history
  BY <1>1, <1>4 DEF RowType, PastType
<1> QED
  BY <1>2, <1>3, <1>4 DEF WriteRow

(* What one step of a worker does to the tables it shares.                 *)
LEMMA WorkerTables ==
  ASSUME TypeOK, Tables, HeldOK, NEW w \in Workers, WorkerStep(w)
  PROVE  /\ BookGrows /\ RowType' /\ PastType' /\ LabelType'
         /\ UNCHANGED panel
<1>1. /\ BookOK /\ RowType /\ PastType /\ LabelType /\ WorkerType
      /\ General \in Topics
  BY TypeParts, RuleBookAssumption DEF BookOK
<1>2. CASE \/ Poll(w) \/ SeedFails(w) \/ EndPoll(w) \/ SkipClassification(w)
           \/ Match(w) \/ CheckRulePrompt(w) \/ Answer(w) \/ ForwardTooLong(w)
           \/ GiveUp(w)
  <2>1. UNCHANGED <<panel, labels, book, history, past>>
    BY <1>2 DEF Poll, SeedFails, EndPoll, SkipClassification, Match,
       CheckRulePrompt, Answer, ForwardTooLong, GiveUp
  <2> QED
    BY <1>1, <2>1, BookStays, RowsStay
    DEF BookGrows, PastType, LabelType, past, book
<1>3. CASE SeedForPoll(w)
  <2>1. /\ UNCHANGED <<panel, labels, history, unwritten>>
        /\ removed' = [removed EXCEPT ![w] = FALSE]
    BY <1>3 DEF SeedForPoll
  <2>2. BookGrows
    BY <1>1, <1>3, SeedAdds DEF SeedForPoll
  <2>3. PastType'
    BY <1>1, <2>1 DEF PastType
  <2> QED
    BY <1>1, <2>1, <2>2, <2>3, RowsStay DEF BookGrows, LabelType
<1>4. CASE Take(w)
  <2>1. UNCHANGED <<panel, labels, book, history, removed>>
    BY <1>4 DEF Take
  <2>2. \E m \in Mails : unwritten' = unwritten \cup {m}
    BY <1>4, TypeParts, BoundTypes DEF Take
  <2> QED
    BY <1>1, <2>1, <2>2, BookStays, RowsStay
    DEF BookGrows, PastType, LabelType, book
<1>5. CASE Classify(w) \/ ClassifyFails(w)
  <2>1. UNCHANGED <<panel, book, history, past>>
    BY <1>5 DEF Classify, ClassifyFails
  <2>2. LabelType'
    BY <1>1, <1>5 DEF Classify, ClassifyFails, LabelType
  <2> QED
    BY <1>1, <2>1, <2>2, BookStays, RowsStay
    DEF BookGrows, PastType, past, book
<1>6. CASE Record(w) \/ RulePromptGone(w)
  <2>1. /\ mail[w] \in Mails
        /\ UNCHANGED <<panel, labels, book, removed>>
    BY <1>6 DEF HeldOK, Waiting, Record, RulePromptGone
  <2>2. PICK s \in {"human_review", "rule", "agent"},
             r \in [id : 0..next, name : RuleNames \cup {None}] :
          WriteRow(w, s, r)
    <3>1. NoRule \in [id : 0..next, name : RuleNames \cup {None}]
      BY <1>1 DEF NoRule, BookOK, BookType
    <3>2. matched[w] \in [id : 0..next, name : RuleNames \cup {None}]
      BY <1>1 DEF WorkerType
    <3>3. Source(w) \in {"human_review", "rule", "agent"}
      BY DEF Source
    <3> QED
      BY <1>6, <3>1, <3>2, <3>3 DEF Record, RulePromptGone
  <2>3. RowType' /\ PastType'
    BY <2>1, <2>2, WriteTypes DEF book
  <2> QED
    BY <1>1, <2>1, <2>3, BookStays DEF LabelType
<1> QED
  BY <1>2, <1>3, <1>4, <1>5, <1>6 DEF WorkerStep

(* A worker's step leaves the locals of the others alone.                  *)
LEMMA WorkerLocals ==
  ASSUME TypeOK, Tables, NEW w \in Workers, WorkerStep(w), BookGrows
  PROVE  WorkerType' /\ Others(w)
<1>1. /\ WorkerType /\ next \in Nat /\ next' \in Nat /\ next <= next'
      /\ \A i \in DOMAIN rules : i \in 0..next /\ rules[i] \in Rule
      /\ General \in Topics
  BY TypeParts, RuleBookAssumption DEF BookGrows, BookType
<1>2. CASE \/ Poll(w) \/ SeedFails(w) \/ EndPoll(w) \/ SkipClassification(w)
           \/ SeedForPoll(w) \/ Record(w)
  <2>1. /\ UNCHANGED <<mail, found, matched>>
        /\ \E s \in Steps : Turn(w, s)
    BY <1>2 DEF Poll, SeedFails, EndPoll, SkipClassification, SeedForPoll,
       Record, Steps
  <2> QED
    BY <1>1, <2>1, TurnTypes
<1>3. CASE Answer(w) \/ ForwardTooLong(w) \/ GiveUp(w) \/ ClassifyFails(w)
  BY <1>1, <1>3, DropTypes
  DEF Answer, ForwardTooLong, GiveUp, ClassifyFails, book
<1>4. CASE Take(w)
  <2>1. PICK m \in Mails : mail' = [mail EXCEPT ![w] = m]
    BY <1>4, TypeParts, BoundTypes DEF Take
  <2>2. step' = [step EXCEPT ![w] = "classify"]
        /\ UNCHANGED <<found, matched, next>>
    BY <1>4 DEF Take, Turn, book
  <2> QED
    BY <1>1, <2>1, <2>2 DEF WorkerType, Steps, Others
<1>5. CASE Classify(w)
  <2>1. PICK l \in Labels : found' = [found EXCEPT ![w] = l]
    <3>1. PICK c \in Categories, ts \in SUBSET Topics :
            found' = [found EXCEPT ![w] = [category |-> c,
              topics |-> IF ts = {} THEN {General} ELSE ts]]
      BY <1>5 DEF Classify
    <3>2. [category |-> c, topics |-> IF ts = {} THEN {General} ELSE ts]
            \in Labels
      BY <1>1 DEF Labels
    <3> QED
      BY <3>1, <3>2
  <2>2. step' = [step EXCEPT ![w] = "match"]
        /\ UNCHANGED <<mail, matched, next>>
    BY <1>5 DEF Classify, Turn, book
  <2> QED
    BY <1>1, <2>1, <2>2 DEF WorkerType, Steps, Others
<1>6. CASE Match(w) \/ CheckRulePrompt(w) \/ RulePromptGone(w)
  <2>1. UNCHANGED <<mail, found, next>> /\ \E s \in Steps : Turn(w, s)
    BY <1>6 DEF Match, CheckRulePrompt, RulePromptGone, Steps, book
  <2>2. UNCHANGED matched \/ \E r \in [id : 0..next,
                                       name : RuleNames \cup {None}] :
          matched' = [matched EXCEPT ![w] = r]
    <3>1. NoRule \in [id : 0..next, name : RuleNames \cup {None}]
      BY <1>1 DEF NoRule
    <3>2. \A i \in DOMAIN rules :
            [id |-> i, name |-> rules[i].name] \in
               [id : 0..next, name : RuleNames \cup {None}]
      BY <1>1 DEF Rule
    <3> QED
      BY <1>6, <3>1, <3>2 DEF Match, Matching, CheckRulePrompt, RulePromptGone
  <2> QED
    BY <1>1, <2>1, <2>2 DEF WorkerType, Others, Turn
<1> QED
  BY <1>2, <1>3, <1>4, <1>5, <1>6 DEF WorkerStep

(* A worker's step counts what it did.                                     *)
LEMMA WorkerCounts ==
  ASSUME TypeOK, NEW w \in Workers, WorkerStep(w), UNCHANGED bound
  PROVE  CountType'
<1>1. CountType
  BY TypeParts
<1>2. /\ UNCHANGED writes
      /\ \/ UNCHANGED attempts
         \/ attempts < bound.attempts /\ attempts' = attempts + 1
      /\ UNCHANGED faults \/ (faults < bound.faults /\ faults' = faults + 1)
  BY DEF WorkerStep, Poll, SeedForPoll, SeedFails, EndPoll, Take,
     SkipClassification, Classify, ClassifyFails, Match, CheckRulePrompt,
     Record, RulePromptGone, WriteRow, Answer, ForwardTooLong, GiveUp, Fault,
     counts
<1> QED
  BY <1>1, <1>2, CountsNext

(* A worker's step handles at most its own mail.                           *)
LEMMA WorkerOutcome ==
  ASSUME TypeOK, HeldOK, NEW w \in Workers, WorkerStep(w)
  PROVE  OutcomeType'
<1>1. OutcomeType /\ WorkerType
  BY TypeParts
<1>2. CASE Answer(w) \/ ForwardTooLong(w)
  <2>1. PICK b \in {None, "human_review", "rule", "agent", "context_limit"},
             n \in RuleNames \cup {None} :
          outcome' = [outcome EXCEPT ![mail[w]] =
                        [by |-> b, name |-> n, labels |-> found[w]]]
    BY <1>1, <1>2 DEF Answer, ForwardTooLong, Source, WorkerType
  <2>2. found[w] \in Labels
    BY <1>1 DEF WorkerType
  <2> QED
    BY <1>1, <2>1, <2>2 DEF OutcomeType
<1>3. CASE ~Answer(w) /\ ~ForwardTooLong(w)
  <2>1. UNCHANGED outcome
    BY <1>3 DEF WorkerStep, Poll, SeedForPoll, SeedFails, EndPoll, Take,
       SkipClassification, Classify, ClassifyFails, Match, CheckRulePrompt,
       Record, RulePromptGone, GiveUp
  <2> QED
    BY <1>1, <2>1 DEF OutcomeType
<1> QED
  BY <1>2, <1>3

(* A worker's step keeps the types.                                        *)
LEMMA WorkerTypes ==
  ASSUME TypeOK, Tables, HeldOK, NEW w \in Workers, WorkerStep(w),
         UNCHANGED bound
  PROVE  TypeOK' /\ Tables'
<1>1. /\ BookGrows /\ RowType' /\ PastType' /\ LabelType'
      /\ UNCHANGED panel
  BY WorkerTables
<1>2. PanelType' /\ list' = [p \in Operators |-> list'[p]]
  BY <1>1, TypeParts DEF panel, PanelType, Tables
<1> QED
  BY <1>1, <1>2, WorkerLocals, WorkerCounts, WorkerOutcome, TypePartsNext
  DEF BookGrows, Tables

-----------------------------------------------------------------------------
(* The parts of the invariant.                                             *)

(* No window disturbs the invariant.                                       *)
LEMMA WindowKeeps ==
  ASSUME BookInv, NEW o \in Operators, WindowStep(o), UNCHANGED bound
  PROVE  BookInv'
<1>1. TypeOK /\ Tables
  BY DEF BookInv
<1>2. TypeOK' /\ Tables' /\ SameRows
  BY <1>1, WindowTypes, WindowBook
<1>3. UNCHANGED <<step, mail, found, matched, outcome, unwritten>>
  BY WindowFrame DEF worker
<1>4. HeldOK' /\ NotYet' /\ MatchedOK'
  BY <1>3 DEF BookInv, HeldOK, NotYet, MatchedOK, Asks
<1>5. RowOK'
  <2>1. \A w \in Workers : step[w] \in {"decide", "agent"} =>
          mail[w] \in Mails
    BY DEF BookInv, HeldOK, Waiting
  <2> QED
    BY <1>2, <1>3, <2>1 DEF BookInv, RowOK, Source, Asks, SameRows
<1>6. HistoryAgrees'
  BY <1>2, <1>3 DEF BookInv, HistoryAgrees, SameRows
<1>7. DefaultOK'
  <2>1. /\ \A w \in Workers : removed[w] => removed'[w]
        /\ \A w \in Workers, i \in DOMAIN rules :
             IsDefault(rules[i]) =>
               removed'[w] \/ (i \in DOMAIN rules' /\ IsDefault(rules'[i]))
    BY <1>1, WindowBook
  <2> QED
    BY <1>3, <2>1 DEF BookInv, DefaultOK
<1> QED
  BY <1>2, <1>4, <1>5, <1>6, <1>7 DEF BookInv

(* The four ways a worker moves on.                                        *)
Between(w) == Poll(w) \/ SeedForPoll(w) \/ SeedFails(w) \/ EndPoll(w)

Onwards(w) ==
  SkipClassification(w) \/ Classify(w) \/ Match(w) \/ CheckRulePrompt(w)

Writing(w) == Record(w) \/ RulePromptGone(w)

Ending(w) == ClassifyFails(w) \/ Answer(w) \/ ForwardTooLong(w) \/ GiveUp(w)

(* A worker takes a mail, goes on with it, writes its row, or lets it go.  *)
LEMMA WorkerCases ==
  ASSUME TypeOK, NEW w \in Workers, WorkerStep(w)
  PROVE  \/ Between(w) /\ step[w] \in Waiting /\ step'[w] \in Waiting
            /\ UNCHANGED <<mail, matched, found, history, outcome, unwritten>>
         \/ Take(w)
         \/ Onwards(w) /\ step[w] \notin Waiting /\ step'[w] \notin Waiting
            /\ UNCHANGED <<mail, history, outcome, unwritten>>
         \/ Writing(w) /\ step[w] \notin Waiting /\ step'[w] \notin Waiting
            /\ UNCHANGED <<mail, found, outcome>>
         \/ Ending(w) /\ step[w] \notin Waiting /\ step'[w] = "fetch"
            /\ matched'[w] = NoRule /\ UNCHANGED <<history, unwritten>>
<1>1. WorkerType /\ next \in Nat
  BY TypeParts DEF BookType
<1>2. CASE Between(w)
  BY <1>1, <1>2 DEF Between, Poll, SeedForPoll, SeedFails, EndPoll, Turn,
     WorkerType, Waiting, past
<1>3. CASE Onwards(w)
  BY <1>1, <1>3 DEF Onwards, SkipClassification, Classify, Match,
     CheckRulePrompt, Turn, WorkerType, Waiting, past
<1>4. CASE Writing(w)
  BY <1>1, <1>4 DEF Writing, Record, RulePromptGone, Turn, WorkerType, Waiting
<1>5. CASE Ending(w)
  <2>1. Drop(w) /\ UNCHANGED <<history, unwritten>> /\ next' = next
    BY <1>5 DEF Ending, ClassifyFails, Answer, ForwardTooLong, GiveUp, past,
       book
  <2>2. step[w] \notin Waiting
    BY <1>5 DEF Ending, ClassifyFails, Answer, ForwardTooLong, GiveUp,
       Thinking, Waiting
  <2> QED
    BY <1>1, <1>5, <2>1, <2>2, DropTypes
<1> QED
  BY <1>2, <1>3, <1>4, <1>5
  DEF WorkerStep, Between, Onwards, Writing, Ending

(* What the two writing steps leave in the row of the mail.                *)
LEMMA WritingRow ==
  ASSUME BookInv, NEW w \in Workers, Writing(w)
  PROVE  /\ mail[w] \in Mails
         /\ \A m \in Mails \ {mail[w]} : history'[m] = history[m]
         /\ unwritten' \ {mail[w]} = unwritten \ {mail[w]}
         /\ step'[w] \in {"decide", "agent"}
         /\ Record(w) => matched'[w] = matched[w] /\ step'[w] = "decide"
         /\ RulePromptGone(w) => matched'[w] = NoRule
         /\ \/ mail[w] \in unwritten'
            \/ /\ history'[mail[w]].labels = found[w]
               /\ history'[mail[w]].rule.name = matched'[w].name
               /\ history'[mail[w]].source =
                    IF Asks(w) THEN "human_review"
                    ELSE IF matched'[w] # NoRule THEN "rule" ELSE "agent"
<1>1. /\ TypeOK /\ WorkerType /\ next \in Nat /\ HeldOK /\ NotYet /\ MatchedOK
  BY TypeParts DEF BookInv, BookType
<1>2. mail[w] \in Mails
  BY <1>1 DEF Writing, Record, RulePromptGone, HeldOK, Waiting
<1>3. matched[w] \in [id : 0..next, name : RuleNames \cup {None}]
  BY <1>1 DEF WorkerType
<1>4. CASE Record(w)
  <2>1. /\ step[w] = "record" /\ WriteRow(w, Source(w), matched[w])
        /\ UNCHANGED <<rules, removed, matched, mail>>
        /\ step'[w] = "decide"
    BY <1>1, <1>4 DEF Record, Turn, book, WorkerType
  <2>2. Source(w) \in {"human_review", "rule", "agent"}
    BY DEF Source
  <2>3. mail[w] \in unwritten
    BY <1>1, <2>1 DEF NotYet
  <2>4. step[w] # "decide" /\ ~RulePromptGone(w)
    BY <2>1 DEF RulePromptGone
  <2> QED
    BY <1>1, <1>2, <1>3, <1>4, <2>1, <2>2, <2>3, <2>4, WriteTypes DEF Source
<1>5. CASE RulePromptGone(w)
  <2>1. /\ step[w] = "decide" /\ matched[w] # NoRule
        /\ WriteRow(w, "agent", NoRule)
        /\ UNCHANGED <<rules, removed, mail>>
        /\ step'[w] = "agent" /\ matched'[w] = NoRule
    BY <1>1, <1>5 DEF RulePromptGone, Turn, book, WorkerType
  <2>2. NoRule \in [id : 0..next, name : RuleNames \cup {None}]
        /\ NoRule.id = 0
    BY <1>1 DEF NoRule
  <2>3. ~Asks(w) /\ ~Record(w)
    BY <1>1, <2>1 DEF MatchedOK, Waiting, Record
  <2> QED
    BY <1>1, <1>2, <1>5, <2>1, <2>2, <2>3, WriteTypes
<1> QED
  BY <1>4, <1>5 DEF Writing

(* A mail in a worker's hands is in nobody else's.                         *)
LEMMA HeldNext ==
  ASSUME BookInv, NEW w \in Workers, WorkerStep(w), BookGrows
  PROVE  HeldOK'
<1>1. /\ HeldOK /\ TypeOK /\ Tables /\ Others(w) /\ WorkerType /\ OutcomeType
  BY WorkerLocals, TypeParts DEF BookInv
<1> USE DEF HeldOK, Others
<1>2. CASE Take(w)
  <2>1. PICK m \in Mails :
          /\ outcome[m] = NoAnswer /\ \A v \in Workers : mail[v] # m
          /\ mail' = [mail EXCEPT ![w] = m]
    BY <1>2, TypeParts, BoundTypes DEF Take, BookInv
  <2>2. UNCHANGED outcome /\ mail'[w] = m
    BY <1>1, <1>2, <2>1 DEF Take, WorkerType
  <2> QED
    BY <1>1, <2>1, <2>2
<1>3. CASE Ending(w) /\ step'[w] = "fetch" /\ step[w] \notin Waiting
  <2>1. \A m \in Mails \ {mail[w]} : outcome'[m] = outcome[m]
    BY <1>1, <1>3 DEF Ending, ClassifyFails, Answer, ForwardTooLong, GiveUp,
       OutcomeType
  <2> QED
    BY <1>1, <1>3, <2>1 DEF Waiting
<1>4. CASE UNCHANGED <<mail, outcome>>
           /\ (step'[w] \notin Waiting => step[w] \notin Waiting)
  BY <1>1, <1>4
<1> QED
  BY <1>1, <1>2, <1>3, <1>4, WorkerCases

(* Before the record step nothing is recorded, and no mail that asks for a *)
(* human has met a rule.                                                   *)
LEMMA NotYetNext ==
  ASSUME BookInv, NEW w \in Workers, WorkerStep(w), BookGrows
  PROVE  NotYet' /\ MatchedOK'
<1>1. /\ HeldOK /\ NotYet /\ MatchedOK /\ TypeOK /\ Tables /\ Others(w)
      /\ WorkerType
  BY WorkerLocals, TypeParts DEF BookInv
<1> USE DEF NotYet, MatchedOK, Others, Asks
<1>2. CASE Take(w)
  <2>1. /\ step'[w] = "classify" /\ step[w] = "fetch"
        /\ mail'[w] \in unwritten' /\ unwritten \subseteq unwritten'
        /\ UNCHANGED matched
    BY <1>1, <1>2 DEF Take, Turn, WorkerType
  <2> QED
    BY <1>1, <2>1 DEF Waiting
<1>3. CASE Ending(w) /\ step'[w] = "fetch" /\ matched'[w] = NoRule
           /\ UNCHANGED <<history, unwritten>>
  BY <1>1, <1>3 DEF Waiting
<1>4. CASE Between(w) /\ step[w] \in Waiting /\ step'[w] \in Waiting
           /\ UNCHANGED <<mail, matched, found, history, outcome, unwritten>>
  BY <1>1, <1>4 DEF Waiting
<1>5. CASE Onwards(w) /\ UNCHANGED <<mail, unwritten>>
  <2>1. /\ step'[w] \in {"classify", "match", "prompt", "record"} =>
             step[w] \in {"classify", "match", "prompt", "record"}
        /\ step'[w] \notin Waiting /\ step[w] \notin Waiting
        /\ step'[w] \in {"classify", "match", "agent"} =>
             matched'[w] = matched[w] /\ step[w] \in {"classify", "match"}
        /\ Asks(w) => matched'[w] \in {matched[w], NoRule}
    BY <1>1, <1>5 DEF Onwards, SkipClassification, Classify, Match,
       CheckRulePrompt, Turn, WorkerType, Waiting
  <2> QED
    BY <1>1, <1>5, <2>1
<1>6. CASE Writing(w) /\ UNCHANGED mail /\ step[w] \notin Waiting
  <2>1. /\ unwritten' \ {mail[w]} = unwritten \ {mail[w]}
        /\ step'[w] \in {"decide", "agent"}
        /\ Record(w) => matched'[w] = matched[w] /\ step'[w] = "decide"
        /\ RulePromptGone(w) => matched'[w] = NoRule
    BY <1>6, WritingRow
  <2>2. \A v \in Workers \ {w} : step[v] \notin Waiting => mail[v] # mail[w]
    BY <1>1, <1>6 DEF HeldOK
  <2>3. NotYet'
    BY <1>1, <1>6, <2>1, <2>2 DEF Waiting
  <2>4. MatchedOK'
    BY <1>1, <1>6, <2>1 DEF Writing, Waiting
  <2> QED
    BY <2>3, <2>4
<1> QED
  BY <1>1, <1>2, <1>3, <1>4, <1>5, <1>6, WorkerCases

(* A row that was written says what its worker knows.                      *)
LEMMA RowNext ==
  ASSUME BookInv, NEW w \in Workers, WorkerStep(w), BookGrows
  PROVE  RowOK'
<1>1. /\ HeldOK /\ NotYet /\ MatchedOK /\ RowOK /\ TypeOK /\ Tables
      /\ Others(w) /\ WorkerType
  BY WorkerLocals, TypeParts DEF BookInv
<1> USE DEF RowOK, Others, Asks, Source
<1>2. CASE Take(w)
  <2>1. /\ step'[w] = "classify" /\ unwritten \subseteq unwritten'
        /\ UNCHANGED history
    BY <1>1, <1>2 DEF Take, Turn, WorkerType
  <2> QED
    BY <1>1, <2>1
<1>3. CASE /\ Ending(w) \/ Between(w)
           /\ step'[w] \in Waiting /\ UNCHANGED <<history, unwritten>>
  BY <1>1, <1>3 DEF Waiting
<1>4. CASE Onwards(w) /\ UNCHANGED <<mail, history, unwritten>>
  <2>1. /\ step[w] \in {"classify", "match", "prompt"}
    BY <1>4 DEF Onwards, SkipClassification, Classify, Match, CheckRulePrompt
  <2>2. mail'[w] \in unwritten'
    BY <1>1, <1>4, <2>1 DEF NotYet
  <2> QED
    BY <1>1, <1>4, <2>2
<1>5. CASE Writing(w) /\ step[w] \notin Waiting /\ UNCHANGED <<mail, found>>
  <2>1. /\ mail[w] \in Mails
        /\ \A m \in Mails \ {mail[w]} : history'[m] = history[m]
        /\ unwritten' \ {mail[w]} = unwritten \ {mail[w]}
        /\ \/ mail[w] \in unwritten'
           \/ /\ history'[mail[w]].labels = found[w]
              /\ history'[mail[w]].rule.name = matched'[w].name
              /\ history'[mail[w]].source =
                   IF mail[w] \in AsksHuman THEN "human_review"
                   ELSE IF matched'[w] # NoRule THEN "rule" ELSE "agent"
    BY <1>5, WritingRow
  <2>2. \A v \in Workers \ {w} : step[v] \notin Waiting =>
          mail[v] # mail[w] /\ mail[v] \in Mails
    BY <1>1, <1>5 DEF HeldOK
  <2>3. ASSUME NEW v \in Workers \ {w}, step'[v] \in {"decide", "agent"},
               mail'[v] \notin unwritten'
        PROVE  /\ history'[mail'[v]].source =
                    IF mail'[v] \in AsksHuman THEN "human_review"
                    ELSE IF matched'[v] # NoRule THEN "rule" ELSE "agent"
               /\ history'[mail'[v]].rule.name = matched'[v].name
               /\ history'[mail'[v]].labels = found'[v]
    <3>1. /\ step[v] \in {"decide", "agent"} /\ mail'[v] = mail[v]
          /\ found'[v] = found[v] /\ matched'[v] = matched[v]
      BY <1>1, <2>3
    <3>2. mail[v] # mail[w] /\ mail[v] \in Mails
      BY <2>2, <3>1 DEF Waiting
    <3>3. mail[v] \notin unwritten /\ history'[mail[v]] = history[mail[v]]
      BY <2>1, <2>3, <3>1, <3>2
    <3> QED
      BY <1>1, <3>1, <3>3
  <2> QED
    BY <1>1, <1>5, <2>1, <2>3
<1> QED
  BY <1>1, <1>2, <1>3, <1>4, <1>5, WorkerCases DEF Waiting

(* The history of a handled mail is the decision that was made.            *)
LEMMA HistoryNext ==
  ASSUME BookInv, NEW w \in Workers, WorkerStep(w), BookGrows
  PROVE  HistoryAgrees'
<1>1. /\ HeldOK /\ RowOK /\ HistoryAgrees /\ TypeOK /\ OutcomeType
      /\ WorkerType
  BY TypeParts DEF BookInv
<1> USE DEF HistoryAgrees
<1>2. CASE Take(w) \/ Between(w) \/ Onwards(w) \/ ClassifyFails(w)
           \/ GiveUp(w)
  <2>1. UNCHANGED <<outcome, history>> /\ unwritten \subseteq unwritten'
    BY <1>2 DEF Take, Between, Poll, SeedForPoll, SeedFails, EndPoll,
       Onwards, SkipClassification, Classify, Match, CheckRulePrompt,
       ClassifyFails, GiveUp, past
  <2> QED
    BY <1>1, <2>1
<1>3. CASE Writing(w) /\ step[w] \notin Waiting /\ UNCHANGED outcome
  <2>1. /\ \A m \in Mails \ {mail[w]} : history'[m] = history[m]
        /\ unwritten' \ {mail[w]} = unwritten \ {mail[w]}
    BY <1>3, WritingRow
  <2>2. outcome[mail[w]].by = None
    BY <1>1, <1>3 DEF HeldOK, NoAnswer
  <2> QED
    BY <1>1, <1>3, <2>1, <2>2
<1>4. CASE Answer(w)
  <2>1. /\ outcome' = [outcome EXCEPT ![mail[w]] =
             [by |-> Source(w), name |-> matched[w].name,
              labels |-> found[w]]]
        /\ step[w] \in {"decide", "agent"} /\ UNCHANGED <<history, unwritten>>
    BY <1>4 DEF Answer, past
  <2>2. mail[w] \in Mails
    BY <1>1, <2>1 DEF HeldOK, Waiting
  <2>3. mail[w] \notin unwritten =>
          /\ history[mail[w]].source = Source(w)
          /\ history[mail[w]].rule.name = matched[w].name
          /\ history[mail[w]].labels = found[w]
    BY <1>1, <2>1 DEF RowOK
  <2> QED
    BY <1>1, <2>1, <2>2, <2>3 DEF OutcomeType
<1>5. CASE ForwardTooLong(w)
  <2>1. /\ outcome' = [outcome EXCEPT ![mail[w]] =
             [by |-> "context_limit", name |-> None, labels |-> found[w]]]
        /\ UNCHANGED <<history, unwritten>>
    BY <1>5 DEF ForwardTooLong, past
  <2> QED
    BY <1>1, <2>1 DEF OutcomeType
<1> QED
  BY <1>1, <1>2, <1>3, <1>4, <1>5, WorkerCases DEF Ending

(* A poll that seeded has a default rule, or somebody took it away.        *)
LEMMA DefaultNext ==
  ASSUME BookInv, NEW w \in Workers, WorkerStep(w), BookGrows
  PROVE  DefaultOK'
<1>1. /\ DefaultOK /\ Others(w) /\ TypeOK /\ BookOK /\ WorkerType /\ PastType
  BY WorkerLocals, TypeParts DEF BookInv, BookOK
<1>2. \A i \in DOMAIN rules : IsDefault(rules[i]) =>
        i \in DOMAIN rules' /\ IsDefault(rules'[i])
  BY DEF BookGrows
<1> USE DEF DefaultOK, Others
<1>3. CASE SeedForPoll(w)
  <2>1. \E i \in DOMAIN rules' : IsDefault(rules'[i])
    BY <1>1, <1>3, SeedAdds DEF SeedForPoll
  <2> QED
    BY <2>1
<1>4. CASE ~SeedForPoll(w)
  <2>1. UNCHANGED removed
    BY <1>4 DEF WorkerStep, Poll, SeedFails, EndPoll, Take,
       SkipClassification, Classify, ClassifyFails, Match, CheckRulePrompt,
       Record, RulePromptGone, Answer, ForwardTooLong, GiveUp, past
  <2>2. step'[w] \notin {"idle", "seed"} => step[w] \notin {"idle", "seed"}
    BY <1>1, <1>4 DEF WorkerStep, Poll, SeedFails, EndPoll, Take,
       SkipClassification, Classify, ClassifyFails, Match, CheckRulePrompt,
       Record, RulePromptGone, Answer, ForwardTooLong, GiveUp, Thinking,
       Drop, Turn, WorkerType
  <2> QED
    BY <1>1, <1>2, <2>1, <2>2
<1> QED
  BY <1>3, <1>4

(* No worker disturbs the invariant.                                       *)
LEMMA WorkerKeeps ==
  ASSUME BookInv, NEW w \in Workers, WorkerStep(w), UNCHANGED bound
  PROVE  BookInv'
<1>1. TypeOK /\ Tables /\ HeldOK
  BY DEF BookInv
<1>2. TypeOK' /\ Tables' /\ BookGrows
  BY <1>1, WorkerTypes, WorkerTables
<1> QED
  BY <1>2, HeldNext, NotYetNext, RowNext, HistoryNext, DefaultNext
  DEF BookInv

-----------------------------------------------------------------------------
(* The invariant and what follows from it.                                 *)

(* The invariant holds at first.                                           *)
LEMMA BookStarts == Init => BookInv
<1> SUFFICES ASSUME Init PROVE BookInv
  OBVIOUS
<1> USE RuleBookAssumption DEF Init
<1>1. DOMAIN rules = {} /\ rules = [i \in {} |-> rules[i]]
  BY DEF NoRules
<1>2. PanelType /\ LabelType /\ Tables
  BY <1>1 DEF PanelType, LabelType, Tables, NoList, NoRules
<1>3. WorkerType /\ BookType
  BY <1>1 DEF WorkerType, Steps, Labels, NoLabels, NoRule, BookType
<1>4. RowType
  <2>1. NoRow \in [labels : Labels,
                   source : {None, "human_review", "rule", "agent"},
                   rule : [id : DOMAIN rules \cup {0},
                           name : RuleNames \cup {None}]]
    BY DEF NoRow, NoLabels, NoRule, Labels
  <2> QED
    BY <2>1 DEF RowType
<1>5. OutcomeType /\ PastType
  BY DEF OutcomeType, PastType, NoAnswer, NoLabels, Labels
<1>6. CountType
  BY DEF CountType, BoundRecord
<1>7. TypeOK
  BY <1>2, <1>3, <1>4, <1>5, <1>6, TypeParts
<1>8. HeldOK /\ NotYet /\ MatchedOK /\ RowOK /\ DefaultOK
  BY DEF HeldOK, NotYet, MatchedOK, RowOK, DefaultOK, Waiting
<1>9. HistoryAgrees
  BY DEF HistoryAgrees, NoAnswer
<1> QED
  BY <1>2, <1>7, <1>8, <1>9 DEF BookInv

(* It holds after every step.                                              *)
LEMMA BookStep == BookInv /\ [Next]_vars => BookInv'
<1> SUFFICES ASSUME BookInv, [Next]_vars PROVE BookInv'
  OBVIOUS
<1>1. bound.windows \subseteq Operators /\ bound.processes \subseteq Workers
  BY BoundTypes, TypeParts DEF BookInv
<1>2. CASE Next
  BY <1>1, <1>2, WindowKeeps, WorkerKeeps DEF Next
<1>3. CASE UNCHANGED vars
  <2> USE <1>3 DEF vars, panel, worker, book, counts, past, BookInv
  <2>1. TypeOK' /\ Tables'
    BY DEF TypeOK, Tables
  <2>2. HeldOK' /\ NotYet' /\ MatchedOK'
    BY DEF HeldOK, NotYet, MatchedOK, Asks
  <2>3. RowOK' /\ HistoryAgrees' /\ DefaultOK'
    BY DEF RowOK, Source, Asks, HistoryAgrees, DefaultOK
  <2> QED
    BY <2>1, <2>2, <2>3
<1> QED
  BY <1>2, <1>3

(* classify_message and the panel's rule handlers: a mail is in one        *)
(* worker's hands, the row of a mail is not written by this try or says    *)
(* what the worker knows, and a poll that seeded has the default rule or   *)
(* saw it go.                                                              *)
THEOREM BookInvariant == Spec => []BookInv
  BY BookStarts, BookStep, PTL DEF Spec

(* Every column and every list keeps its type; above all, the rule a row   *)
(* names by its id exists, whoever deletes rules meanwhile.                *)
THEOREM BookTypes == Spec => []TypeOK
<1>1. BookInv => TypeOK
  BY DEF BookInv
<1> QED
  BY <1>1, BookInvariant, PTL

(* The history says of a handled mail how it was classified, who decided   *)
(* and by which rule, unless the last try could not write its row.         *)
THEOREM HistoryIsTrue == Spec => []HistoryAgrees
<1>1. BookInv => HistoryAgrees
  BY DEF BookInv
<1> QED
  BY <1>1, BookInvariant, PTL

(* A marketing mail that meets no rule was let through by an operator: a   *)
(* default rule is there but switched off or narrowed, or it was taken     *)
(* away since the poll began.                                              *)
THEOREM MarketingNeedsConsent == Spec => MarketingIsDeclined
<1> DEFINE Consent ==
      \A w \in Workers :
        /\ step[w] = "match" /\ step'[w] = "record"
        /\ found[w].category = Marketing /\ ~Asks(w)
        => \/ removed[w]
           \/ \E i \in DOMAIN rules :
                /\ IsDefault(rules[i])
                /\ ~rules[i].enabled \/ rules[i].topics # {}
<1>1. BookInv /\ [Next]_vars => [Consent]_vars
  <2> SUFFICES ASSUME BookInv, Next,
                      NEW w \in Workers,
                      step[w] = "match", step'[w] = "record",
                      found[w].category = Marketing, ~Asks(w), ~removed[w]
               PROVE  \E i \in DOMAIN rules :
                        /\ IsDefault(rules[i])
                        /\ ~rules[i].enabled \/ rules[i].topics # {}
    OBVIOUS
  <2>1. TypeOK /\ Tables /\ HeldOK
    BY DEF BookInv
  <2>2. Match(w)
    <3>1. /\ bound.windows \subseteq Operators
          /\ bound.processes \subseteq Workers
      BY <2>1, BoundTypes, TypeParts
    <3>2. \A o \in Operators : ~WindowStep(o)
      BY WindowFrame DEF worker
    <3>3. PICK v \in Workers : WorkerStep(v)
      BY <3>1, <3>2 DEF Next
    <3>4. v = w
      BY <2>1, <3>3, WorkerTables, WorkerLocals DEF Others
    <3> QED
      BY <3>3, <3>4, <2>1, TypeParts
      DEF WorkerStep, Poll, SeedForPoll, SeedFails, EndPoll, Take,
          SkipClassification, Classify, ClassifyFails, CheckRulePrompt,
          Record, RulePromptGone, Answer, ForwardTooLong, GiveUp, Drop, Turn,
          WorkerType
  <2>3. Matching(found[w]) = {}
    BY <2>1, <2>2, TypeParts DEF Match, Turn, WorkerType
  <2>4. PICK i \in DOMAIN rules : IsDefault(rules[i])
    BY DEF BookInv, DefaultOK
  <2> QED
    BY <2>3, <2>4 DEF Matching, IsDefault
<1> QED
  BY <1>1, BookInvariant, PTL DEF Spec, MarketingIsDeclined
=============================================================================

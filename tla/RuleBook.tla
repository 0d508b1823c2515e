------------------------------ MODULE RuleBook ------------------------------
(***************************************************************************)
(* The classification rules: operators write them in the panel, every poll *)
(* and every panel request seeds the default rule again, and workers match *)
(* mails against them and record in processing_runs what they matched.     *)
(*                                                                         *)
(* A label has an id and a unique name; the program never renames or       *)
(* deletes one, so a label is its name here.  Descriptions, statuses, the  *)
(* action and the goal of a rule play no part in what matches and are left *)
(* out.  Each statement or transaction of the database is one step; a      *)
(* request of the panel is its write, the seeding and the list.            *)
(***************************************************************************)
EXTENDS Naturals, FiniteSets, Functions

CONSTANTS
  Operators,          \* the operators' windows, each with a list of its own
  Workers,            \* the server processes
  Mails,              \* the mails that come in
  AsksHuman,          \* those whose sender asks for a human
  Categories, Topics, \* the names of labels
  Marketing,          \* the category of the default rule
  General,            \* the topic of a mail the AI gave none
  Seeded,             \* the labels every database has
  Bounds              \* the combinations of bounds a behaviour starts with

(* One combination: who takes part, the mails there are, the writes of     *)
(* operators, the times a worker takes a mail, and the injected faults.    *)
BoundRecord == [windows : SUBSET Operators, processes : SUBSET Workers,
                mails : SUBSET Mails, writes : Nat, attempts : Nat,
                faults : Nat]

ASSUME RuleBookAssumption ==
  /\ Marketing \in Categories \cap Seeded
  /\ General \in Topics \cap Seeded
  /\ Seeded \subseteq Categories \cup Topics
  /\ AsksHuman \subseteq Mails
  /\ Bounds \subseteq BoundRecord

VARIABLES
  at, list,             \* each window: its request, and what it shows
  step, mail,           \* each worker: what it does, with which mail,
  found, matched,       \* how the AI classified it, and the rule it met
  labels,               \* email_categories and email_topics
  rules, next,          \* email_rules, and the next id of its BIGSERIAL
  history,              \* the classification columns of processing_runs
  outcome,              \* how each mail was handled in the end
  bound,                \* the bounds of this behaviour
  writes, attempts, faults,  \* what the bounds count
  unwritten, removed    \* history, for the properties

panel  == <<at, list>>
worker == <<step, mail, found, matched>>
book   == <<rules, next>>
counts == <<writes, attempts, faults>>
past   == <<unwritten, removed>>
vars   == <<panel, worker, labels, book, history, outcome, bound, counts,
            past>>

None == "none"

(* The name the unique index is about, and any other one.                  *)
DefaultName == "default"
RuleNames   == {DefaultName, "own"}

(* 100 unless somebody gives the rule another one; the smaller is tried    *)
(* first.                                                                  *)
Priorities == {1, 100}

Rule == [name : RuleNames, category : Categories, topics : SUBSET Topics,
         enabled : BOOLEAN, priority : Priorities]

DefaultRule == [name |-> DefaultName, category |-> Marketing, topics |-> {},
                enabled |-> TRUE, priority |-> 100]

NoRule   == [id |-> 0, name |-> None]
NoLabels == [category |-> None, topics |-> {}]
NoRow    == [labels |-> NoLabels, source |-> None, rule |-> NoRule]
NoAnswer == [by |-> None, name |-> None, labels |-> NoLabels]

(* An empty table, and what a window shows before it has loaded anything.  *)
NoRules == <<>>
NoList  == [rules |-> NoRules, labels |-> {}]

Init ==
  /\ at   = [o \in Operators |-> "idle"]
  /\ list = [o \in Operators |-> NoList]
  /\ step = [w \in Workers |-> "idle"]
  /\ mail = [w \in Workers |-> None]
  /\ found   = [w \in Workers |-> NoLabels]
  /\ matched = [w \in Workers |-> NoRule]
  /\ labels = Seeded
  /\ rules  = NoRules /\ next = 1
  /\ history = [m \in Mails |-> NoRow]
  /\ outcome = [m \in Mails |-> NoAnswer]
  /\ bound \in Bounds
  /\ writes = 0 /\ attempts = 0 /\ faults = 0
  /\ unwritten = {}
  /\ removed = [w \in Workers |-> FALSE]

-----------------------------------------------------------------------------
(* Helpers.                                                                *)

Fault ==
  /\ faults < bound.faults
  /\ faults' = faults + 1
  /\ UNCHANGED <<writes, attempts>>

IsDefault(r) == r.name = DefaultName /\ r.category = Marketing

(* The rows that collide with a rule in the unique index.                  *)
Clashing(r) ==
  {i \in DOMAIN rules : /\ r.name = DefaultName
                        /\ rules[i].name = DefaultName
                        /\ rules[i].category = r.category}

(* The table with one rule more, under the next id.                        *)
WithRule(r) ==
  [i \in DOMAIN rules \cup {next} |-> IF i = next THEN r ELSE rules[i]]

(* Slip: the marker the seeding leaves is trusted, and a default rule that *)
(* was there once is not put back.                                         *)
SeedRuleOnce ==
  IF next = 1
  THEN rules' = WithRule(DefaultRule) /\ next' = 2
  ELSE UNCHANGED book

(* ensure_default_classification_policy: the labels are there already, and *)
(* the rule goes in unless its name and category are taken.                *)
SeedRule ==
  IF Clashing(DefaultRule) = {}
  THEN rules' = WithRule(DefaultRule) /\ next' = next + 1
  ELSE UNCHANGED book

-----------------------------------------------------------------------------
(* The panel: every request that writes answers with the whole list, after *)
(* it has seeded the policy again; the window puts the list in place of    *)
(* the one it showed.  An error leaves the window as it was.               *)

Goto(o, s) == at' = [at EXCEPT ![o] = s]

OpenRules(o) ==
  /\ at[o] = "idle"
  /\ Goto(o, "seed")
  /\ UNCHANGED <<list, worker, labels, book, history, outcome, counts, past>>

SeedForPanel(o) ==
  /\ at[o] = "seed"
  /\ SeedRule
  /\ Goto(o, "list")
  /\ UNCHANGED <<list, worker, labels, history, outcome, counts, past>>

ListRules(o) ==
  /\ at[o] = "list"
  /\ list' = [list EXCEPT ![o] = [rules |-> rules, labels |-> labels]]
  /\ Goto(o, "idle")
  /\ UNCHANGED <<worker, labels, book, history, outcome, counts, past>>

(* The database fails, or the answer is lost.                              *)
Cut(o) ==
  /\ at[o] # "idle"
  /\ Fault
  /\ Goto(o, "idle")
  /\ UNCHANGED <<list, worker, labels, book, history, outcome, past>>

(* An operator presses a button of a window that has loaded its list.      *)
Press(o) ==
  /\ at[o] = "idle"
  /\ list[o] # NoList
  /\ writes < bound.writes
  /\ writes' = writes + 1

(* A worker that has seeded may find the default rule gone when it         *)
(* matches.                                                                *)
Notice ==
  removed' = [w \in Workers |->
    \/ removed[w]
    \/ \E i \in DOMAIN rules :
         IsDefault(rules[i]) /\ (i \in DOMAIN rules' => ~IsDefault(rules'[i]))]

AddLabel(o) ==
  /\ Press(o)
  /\ \E l \in Categories \cup Topics : labels' = labels \cup {l}
  /\ Goto(o, "seed")
  /\ UNCHANGED <<list, worker, book, history, outcome, attempts, faults,
                 past>>

(* The form of a new rule starts without a name, topics or another         *)
(* priority.                                                               *)
CreateRule(o) ==
  /\ Press(o)
  /\ \E n \in RuleNames, c \in Categories \cap list[o].labels,
        ts \in SUBSET (Topics \cap list[o].labels), p \in Priorities :
       LET r == [name |-> n, category |-> c, topics |-> ts,
                 enabled |-> TRUE, priority |-> p] IN
       /\ IF Clashing(r) = {}
          THEN /\ rules' = WithRule(r)
               /\ next' = next + 1
               /\ Goto(o, "seed")
          ELSE UNCHANGED <<at, book>>
  /\ UNCHANGED <<list, worker, labels, history, outcome, attempts, faults,
                 unwritten, removed>>

(* What one change in the form of a shown rule submits.                    *)
Edited(o, i) ==
  LET r == list[o].rules[i] IN
       {[r EXCEPT !.name = n] : n \in RuleNames}
  \cup {[r EXCEPT !.category = c] : c \in Categories \cap list[o].labels}
  \cup {[r EXCEPT !.topics = ts] :
          ts \in SUBSET (Topics \cap list[o].labels)}
  \cup {[r EXCEPT !.enabled = ~r.enabled]}
  \cup {[r EXCEPT !.priority = p] : p \in Priorities}

(* update_email_rule writes every column of the form and then its topics,  *)
(* in one transaction; a rule that is gone or clashes is an error.         *)
UpdateRule(o) ==
  /\ Press(o)
  /\ \E i \in DOMAIN list[o].rules : \E r \in Edited(o, i) :
       /\ IF i \in DOMAIN rules /\ Clashing(r) \subseteq {i}
          THEN /\ rules' = [rules EXCEPT ![i] = r]
               /\ Goto(o, "seed")
          ELSE UNCHANGED <<at, rules>>
  /\ Notice
  /\ UNCHANGED <<list, worker, labels, next, history, outcome, attempts,
                 faults, unwritten>>

(* Slip: the foreign key lacks its ON DELETE SET NULL.                     *)
KeepRule(i) == UNCHANGED history

(* Rows of processing_runs lose the id of the rule, and keep its name.     *)
ForgetRule(i) ==
  history' = [m \in Mails |->
    IF history[m].rule.id = i
    THEN [history[m] EXCEPT !.rule.id = 0] ELSE history[m]]

DeleteRule(o) ==
  /\ Press(o)
  /\ \E i \in DOMAIN list[o].rules :
       IF i \in DOMAIN rules
       THEN /\ rules' = Restrict(rules, DOMAIN rules \ {i})
            /\ ForgetRule(i)
            /\ Goto(o, "seed")
       ELSE UNCHANGED <<at, rules, history>>
  /\ Notice
  /\ UNCHANGED <<list, worker, labels, next, outcome, attempts, faults,
                 unwritten>>

-----------------------------------------------------------------------------
(* The worker.  A poll seeds the policy and then handles its mails.        *)

Turn(w, s) == step' = [step EXCEPT ![w] = s]

Poll(w) ==
  /\ step[w] = "idle"
  /\ Turn(w, "seed")
  /\ UNCHANGED <<panel, mail, found, matched, labels, book, history, outcome,
                 counts, past>>

SeedForPoll(w) ==
  /\ step[w] = "seed"
  /\ SeedRule
  /\ removed' = [removed EXCEPT ![w] = FALSE]
  /\ Turn(w, "fetch")
  /\ UNCHANGED <<panel, mail, found, matched, labels, history, outcome,
                 counts, unwritten>>

(* A poll that cannot seed ends at once.                                   *)
SeedFails(w) ==
  /\ step[w] = "seed"
  /\ Fault
  /\ Turn(w, "idle")
  /\ UNCHANGED <<panel, mail, found, matched, labels, book, history, outcome,
                 past>>

EndPoll(w) ==
  /\ step[w] = "fetch"
  /\ Turn(w, "idle")
  /\ UNCHANGED <<panel, mail, found, matched, labels, book, history, outcome,
                 counts, past>>

(* Only one worker handles a mail, and it handles a failed one again.      *)
Take(w) ==
  /\ step[w] = "fetch"
  /\ attempts < bound.attempts
  /\ attempts' = attempts + 1
  /\ \E m \in {m \in bound.mails : outcome[m] = NoAnswer} :
       /\ \A v \in Workers : mail[v] # m
       /\ mail' = [mail EXCEPT ![w] = m]
       /\ unwritten' = unwritten \cup {m}
  /\ Turn(w, "classify")
  /\ UNCHANGED <<panel, found, matched, labels, book, history, outcome,
                 writes, faults, removed>>

Asks(w) == mail[w] \in AsksHuman

(* The worker is done with its mail.                                       *)
Drop(w) ==
  /\ Turn(w, "fetch")
  /\ mail'    = [mail EXCEPT ![w] = None]
  /\ found'   = [found EXCEPT ![w] = NoLabels]
  /\ matched' = [matched EXCEPT ![w] = NoRule]

(* The classifier's prompt is optional: without it nothing is recorded.    *)
SkipClassification(w) ==
  /\ step[w] = "classify"
  /\ Turn(w, "agent")
  /\ UNCHANGED <<panel, mail, found, matched, labels, book, history, outcome,
                 counts, past>>

(* The AI names any labels; a new one gets its row.                        *)
Classify(w) ==
  /\ step[w] = "classify"
  /\ \E c \in Categories, ts \in SUBSET Topics :
       LET named == IF ts = {} THEN {General} ELSE ts IN
       /\ found' = [found EXCEPT ![w] = [category |-> c, topics |-> named]]
       /\ labels' = labels \cup {c} \cup named
  /\ Turn(w, "match")
  /\ UNCHANGED <<panel, mail, matched, book, history, outcome, counts, past>>

(* The statement for one of the labels fails after others were inserted.   *)
ClassifyFails(w) ==
  /\ step[w] = "classify"
  /\ Fault
  /\ \E c \in Categories, ts \in SUBSET Topics :
       labels' = labels \cup {c} \cup ts
  /\ Drop(w)
  /\ UNCHANGED <<panel, book, history, outcome, past>>

(* The enabled rules of the category, with no topics or one of the mail's. *)
Matching(l) ==
  {i \in DOMAIN rules :
     /\ rules[i].enabled
     /\ rules[i].category = l.category
     /\ rules[i].topics = {} \/ rules[i].topics \cap l.topics # {}}

(* Rules with topics come first, then the smaller priority, then the older *)
(* rule.                                                                   *)
Before(i, j) ==
  LET catchAll(k) == IF rules[k].topics = {} THEN 1 ELSE 0 IN
  \/ catchAll(i) < catchAll(j)
  \/ /\ catchAll(i) = catchAll(j)
     /\ \/ rules[i].priority < rules[j].priority
        \/ rules[i].priority = rules[j].priority /\ i <= j

Match(w) ==
  /\ step[w] = "match"
  /\ IF Asks(w) \/ Matching(found[w]) = {}
     THEN /\ Turn(w, "record")
          /\ UNCHANGED matched
     ELSE \E i \in Matching(found[w]) :
            /\ \A j \in Matching(found[w]) : Before(i, j)
            /\ matched' = [matched EXCEPT ![w] =
                 [id |-> i, name |-> rules[i].name]]
            /\ Turn(w, "prompt")
  /\ UNCHANGED <<panel, mail, found, labels, book, history, outcome, counts,
                 past>>

(* Without the prompt for rules the mail goes to the agent.                *)
CheckRulePrompt(w) ==
  /\ step[w] = "prompt"
  /\ Turn(w, "record")
  /\ \/ UNCHANGED matched
     \/ matched' = [matched EXCEPT ![w] = NoRule]
  /\ UNCHANGED <<panel, mail, found, labels, book, history, outcome, counts,
                 past>>

Source(w) == IF Asks(w) THEN "human_review"
             ELSE IF matched[w] # NoRule THEN "rule" ELSE "agent"

(* record_email_classification_for_history: a rule that was deleted since  *)
(* is a foreign key error, and an error is only logged.                    *)
WriteRow(w, s, r) ==
  \/ /\ r.id \in DOMAIN rules \cup {0}
     /\ history' = [history EXCEPT ![mail[w]] =
          [labels |-> found[w], source |-> s, rule |-> r]]
     /\ unwritten' = unwritten \ {mail[w]}
     /\ UNCHANGED faults
  \/ /\ r.id \notin DOMAIN rules \cup {0}
     /\ UNCHANGED <<history, unwritten, faults>>
  \/ /\ faults < bound.faults
     /\ faults' = faults + 1
     /\ unwritten' = unwritten \cup {mail[w]}
     /\ UNCHANGED history

Record(w) ==
  /\ step[w] = "record"
  /\ WriteRow(w, Source(w), matched[w])
  /\ Turn(w, "decide")
  /\ UNCHANGED <<panel, mail, found, matched, labels, book, outcome, writes,
                 attempts, removed>>

(* Slip: the row still says that the rule decided.                         *)
RulePromptGoneQuietly(w) ==
  /\ step[w] = "decide"
  /\ matched[w] # NoRule
  /\ matched' = [matched EXCEPT ![w] = NoRule]
  /\ Turn(w, "agent")
  /\ UNCHANGED <<panel, mail, found, labels, book, history, outcome, counts,
                 past>>

(* The prompt for rules is gone when it is read: the row is written again, *)
(* and the agent decides.                                                  *)
RulePromptGone(w) ==
  /\ step[w] = "decide"
  /\ matched[w] # NoRule
  /\ WriteRow(w, "agent", NoRule)
  /\ matched' = [matched EXCEPT ![w] = NoRule]
  /\ Turn(w, "agent")
  /\ UNCHANGED <<panel, mail, found, labels, book, outcome, writes, attempts,
                 removed>>

(* A rule's, the agent's or the forwarding decision stands, and the mail   *)
(* is answered with it.                                                    *)
Answer(w) ==
  /\ step[w] \in {"decide", "agent"}
  /\ outcome' = [outcome EXCEPT ![mail[w]] =
       [by |-> Source(w), name |-> matched[w].name, labels |-> found[w]]]
  /\ Drop(w)
  /\ UNCHANGED <<panel, labels, book, history, counts, past>>

(* A decision the AI is asked for.                                         *)
Thinking(w) ==
  \/ step[w] = "classify"
  \/ step[w] \in {"decide", "agent"} /\ ~Asks(w)

(* Too long for the AI: forwarded, whatever was recorded.                  *)
ForwardTooLong(w) ==
  /\ Thinking(w)
  /\ outcome' = [outcome EXCEPT ![mail[w]] =
       [by |-> "context_limit", name |-> None, labels |-> found[w]]]
  /\ Drop(w)
  /\ UNCHANGED <<panel, labels, book, history, counts, past>>

(* The AI fails, and so may the database or the prompt file before it: the *)
(* mail is tried again.                                                    *)
GiveUp(w) ==
  /\ \/ Thinking(w) /\ UNCHANGED counts
     \/ step[w] \in {"match", "prompt"} /\ Fault
  /\ Drop(w)
  /\ UNCHANGED <<panel, labels, book, history, outcome, past>>

-----------------------------------------------------------------------------
(* The specification.                                                      *)

WindowStep(o) ==
  \/ OpenRules(o) \/ SeedForPanel(o) \/ ListRules(o) \/ Cut(o)
  \/ AddLabel(o) \/ CreateRule(o) \/ UpdateRule(o) \/ DeleteRule(o)

WorkerStep(w) ==
  \/ Poll(w) \/ SeedForPoll(w) \/ SeedFails(w) \/ EndPoll(w) \/ Take(w)
  \/ SkipClassification(w) \/ Classify(w) \/ ClassifyFails(w) \/ Match(w)
  \/ CheckRulePrompt(w) \/ Record(w) \/ RulePromptGone(w) \/ Answer(w)
  \/ ForwardTooLong(w) \/ GiveUp(w)

Next ==
  /\ \/ \E o \in bound.windows : WindowStep(o)
     \/ \E w \in bound.processes : WorkerStep(w)
  /\ UNCHANGED bound

Spec == Init /\ [][Next]_vars

-----------------------------------------------------------------------------
(* The type invariant.                                                     *)

Labels == [category : Categories \cup {None}, topics : SUBSET Topics]

(* The id of a rule in a row is that of a rule: the column is a foreign    *)
(* key.                                                                    *)
TypeOK ==
  /\ at \in [Operators -> {"idle", "seed", "list"}]
  /\ \A o \in Operators :
       /\ list[o].labels \subseteq Categories \cup Topics
       /\ \A i \in DOMAIN list[o].rules : list[o].rules[i] \in Rule
  /\ step \in [Workers -> {"idle", "seed", "fetch", "classify", "match",
                           "prompt", "record", "decide", "agent"}]
  /\ mail \in [Workers -> Mails \cup {None}]
  /\ found \in [Workers -> Labels]
  /\ matched \in [Workers ->
       [id : 0..next, name : RuleNames \cup {None}]]
  /\ Seeded \subseteq labels /\ labels \subseteq Categories \cup Topics
  /\ next \in Nat \ {0}
  /\ DOMAIN rules \subseteq 1..(next - 1)
  /\ \A i \in DOMAIN rules : rules[i] \in Rule
  /\ history \in [Mails ->
       [labels : Labels, source : {None, "human_review", "rule", "agent"},
        rule : [id : DOMAIN rules \cup {0}, name : RuleNames \cup {None}]]]
  /\ outcome \in [Mails ->
       [by : {None, "human_review", "rule", "agent", "context_limit"},
        name : RuleNames \cup {None}, labels : Labels]]
  /\ bound \in Bounds
  /\ writes \in 0..bound.writes
  /\ attempts \in 0..bound.attempts
  /\ faults \in 0..bound.faults
  /\ unwritten \subseteq Mails
  /\ removed \in [Workers -> BOOLEAN]

-----------------------------------------------------------------------------
(* Properties.                                                             *)

(* The history says of a handled mail how it was classified, who decided   *)
(* and by which rule, whatever earlier tries recorded, unless the last try *)
(* could not write its row.                                                *)
HistoryAgrees ==
  \A m \in Mails \ unwritten :
    outcome[m].by \notin {None, "context_limit"} =>
      /\ history[m].source = outcome[m].by
      /\ history[m].rule.name = outcome[m].name
      /\ history[m].labels = outcome[m].labels

(* A marketing mail that meets no rule meets none because an operator has  *)
(* switched the default rule off or narrowed it, or took it away since the *)
(* poll began.                                                             *)
MarketingIsDeclined ==
  [][\A w \in Workers :
       /\ step[w] = "match" /\ step'[w] = "record"
       /\ found[w].category = Marketing /\ ~Asks(w)
       => \/ removed[w]
          \/ \E i \in DOMAIN rules :
               /\ IsDefault(rules[i])
               /\ ~rules[i].enabled \/ rules[i].topics # {}]_vars
=============================================================================

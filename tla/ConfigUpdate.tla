---------------------------- MODULE ConfigUpdate ----------------------------
(***************************************************************************)
(* The configuration file and who uses it.  The panel of every process     *)
(* keeps a copy in memory: it hands the copy out redacted, restores the    *)
(* secrets of what comes back, writes the file in place and then replaces  *)
(* the copy.  The worker of every process reads the file before each poll, *)
(* and a file it cannot use ends the process.  Handlers of one process run *)
(* at once, and processes share the file.                                  *)
(***************************************************************************)
EXTENDS ConfigSecrets, Naturals

CONSTANTS
  Servers,      \* the server processes
  Operators,    \* the windows of the panel
  Names,        \* names an MCP server may get
  Homes,        \* what tells one MCP server from another, whatever its name
  Ids,          \* ids a mailbox may get
  Typed,        \* the secret an operator types
  First,        \* the configuration the file has at first
  MaxEdits,     \* bound on the edits of a kind of all forms
  MaxSaves      \* bound on the saves of all windows

(* What the program is given: a configuration in which every server is one *)
(* of its own, and no secret is the placeholder.                           *)
IsConfig(c) ==
  /\ c = [db |-> c.db, servers |-> c.servers, mailboxes |-> c.mailboxes]
  /\ \A n \in DOMAIN c.servers :
       c.servers[n] = [home |-> c.servers[n].home, env |-> c.servers[n].env]
  /\ \A i \in DOMAIN c.mailboxes :
       LET m == c.mailboxes[i]
       IN  m = [password |-> m.password, uses |-> m.uses]
  /\ IsFiniteSet(DOMAIN c.servers)
  /\ \A n, m \in DOMAIN c.servers :
       c.servers[n].home = c.servers[m].home => n = m

(* A server has its own secrets, or ones nobody else had.                  *)
AtHome(c) ==
  \A n \in DOMAIN c.servers :
    \A k \in DOMAIN c.servers[n].env :
      c.servers[n].env[k] \in
        {c.servers[n].home, Typed, Placeholder, Empty}

ASSUME FirstAssumption ==
  /\ Typed # Placeholder
  /\ IsConfig(First) /\ AtHome(First) /\ Placeholder \notin Stored(First)
  /\ MaxEdits \in Nat /\ MaxSaves \in Nat

(* The parts of a form.                                                    *)
EditKinds == {"database", "server", "variable", "mailbox"}

VARIABLES
  memory,       \* each process's copy, or NoConfig
  worker,       \* what its worker does
  running,      \* what it connected with and last polled with
  live,         \* the windows logged in to a process, as pairs
  at, form,     \* each window: its process and its form, or NoConfig
  base,         \* the copy the form was made from
  handler,      \* what the window's request is doing
  draft,        \* what that request is going to store
  crossed,      \* whether another write landed since it truncated the file
  file,         \* the configuration file
  edits, saves, \* the edits of a kind and the saves that are left
  mishap,       \* history: what was wrong with a form
  beside,       \* history: the requests that ran beside another
  apart         \* history: the processes whose copy need not be the file

configVars ==
  <<memory, worker, running, live, at, form, base, handler, draft, crossed,
    file, edits, saves, mishap, beside, apart>>

window == <<live, at, form, base, handler, draft, crossed>>

NoConfig == [db |-> Empty]

Whole(c) == [state |-> "whole", config |-> c]
Torn     == [state |-> "torn", config |-> NoConfig]

(* What is left of a file cut short: nothing a parser takes, or a shorter  *)
(* document, for the mailboxes come last and default to none.              *)
Cuts(c) ==
  {Torn, [state |-> "shorter", config |-> [c EXCEPT !.mailboxes = <<>>]]}

ConfigInit ==
  /\ memory  = [p \in Servers |-> NoConfig]
  /\ worker  = [p \in Servers |-> "off"]
  /\ running = [p \in Servers |-> NoConfig]
  /\ live = {}
  /\ at      = [o \in Operators |-> CHOOSE p \in Servers : TRUE]
  /\ form    = [o \in Operators |-> NoConfig]
  /\ base    = [o \in Operators |-> NoConfig]
  /\ handler = [o \in Operators |-> "idle"]
  /\ draft   = [o \in Operators |-> NoConfig]
  /\ crossed = [o \in Operators |-> FALSE]
  /\ file = Whole(First)
  /\ edits \in [EditKinds -> 0..MaxEdits] /\ saves \in 0..MaxSaves
  /\ mishap = {}
  /\ beside = {}
  /\ apart = {}

Usable == file.state # "torn" /\ Valid(file.config)

-----------------------------------------------------------------------------
(* The process and its worker.                                             *)

(* Slip: a file nobody can parse counts as an empty configuration.         *)
LoadAnyConfig(p) ==
  /\ memory[p] = NoConfig
  /\ memory' = [memory EXCEPT ![p] = file.config]
  /\ apart' = apart \ {p}
  /\ UNCHANGED <<worker, running, window, file, edits, saves, mishap, beside>>

(* main loads the configuration for the panel before anything else.        *)
LoadConfig(p) ==
  /\ memory[p] = NoConfig
  /\ Usable
  /\ memory' = [memory EXCEPT ![p] = file.config]
  /\ apart' = apart \ {p}
  /\ UNCHANGED <<worker, running, window, file, edits, saves, mishap, beside>>

(* The process is gone, and with it its sessions and its handlers.         *)
ForgetConfig(p) ==
  LET gone == {o \in Operators : at[o] = p}
      Reset(f, v) == [o \in Operators |-> IF o \in gone THEN v ELSE f[o]]
  IN
  /\ memory'  = [memory EXCEPT ![p] = NoConfig]
  /\ worker'  = [worker EXCEPT ![p] = "off"]
  /\ running' = [running EXCEPT ![p] = NoConfig]
  /\ live'    = {l \in live : l[1] # p}
  /\ handler' = Reset(handler, "idle")
  /\ draft'   = Reset(draft, NoConfig)
  /\ crossed' = Reset(crossed, FALSE)
  /\ apart'   = (apart \ {p}) \cup
       IF \E o \in gone : handler[o] \in {"write", "remember"}
       THEN Servers ELSE {}
  /\ UNCHANGED <<at, form, base, file, edits, saves, mishap, beside>>

(* The worker loads the file once more when it starts, and connects to the *)
(* database for as long as it runs.                                        *)
StartWorker(p) ==
  /\ worker[p] = "off" /\ memory[p] # NoConfig /\ Usable
  /\ worker' = [worker EXCEPT ![p] = "ready"]
  /\ running' = [running EXCEPT ![p] = [db |-> file.config.db]]
  /\ UNCHANGED <<memory, window, file, edits, saves, mishap, beside, apart>>

(* Slip: the configuration of the first poll is kept.                      *)
PollAsBefore(p) ==
  /\ worker[p] = "ready" /\ Usable
  /\ running' = [running EXCEPT ![p] =
       IF DOMAIN @ = {"db"} THEN [file.config EXCEPT !.db = running[p].db]
       ELSE @]
  /\ UNCHANGED <<memory, worker, window, file, edits, saves, mishap, beside,
                 apart>>

(* One turn of its loop: load, validate, poll every mailbox, sleep.  The   *)
(* connection stays the one it has.                                        *)
Poll(p) ==
  /\ worker[p] = "ready" /\ Usable
  /\ running' = [running EXCEPT ![p] =
       [file.config EXCEPT !.db = running[p].db]]
  /\ UNCHANGED <<memory, worker, window, file, edits, saves, mishap, beside,
                 apart>>

-----------------------------------------------------------------------------
(* The panel.                                                              *)

Login(o) ==
  /\ \E p \in Servers :
       /\ memory[p] # NoConfig
       /\ live' = live \cup {<<p, o>>}
       /\ at' = [at EXCEPT ![o] = p]
  /\ handler[o] = "idle" /\ <<at[o], o>> \notin live
  /\ UNCHANGED <<memory, worker, running, form, base, handler, draft,
                 crossed, file, edits, saves, mishap, beside, apart>>

(* POST /api/logout, or the session's day is over.                         *)
Logout(o) ==
  /\ handler[o] = "idle"
  /\ <<at[o], o>> \in live
  /\ live' = live \ {<<at[o], o>>}
  /\ UNCHANGED <<memory, worker, running, at, form, base, handler, draft,
                 crossed, file, edits, saves, mishap, beside, apart>>

LoggedIn(o) == <<at[o], o>> \in live

OpenForm(o) ==
  /\ handler[o] = "idle" /\ LoggedIn(o)
  /\ base' = [base EXCEPT ![o] = memory[at[o]]]
  /\ form' = [form EXCEPT ![o] = Redacted(memory[at[o]])]
  /\ UNCHANGED <<memory, worker, running, live, at, handler, draft, crossed,
                 file, edits, saves, mishap, beside, apart>>

(* What the window shows after an edit, of which so many are left.         *)
Show(o, kind, f) ==
  /\ edits[kind] > 0
  /\ edits' = [edits EXCEPT ![kind] = @ - 1]
  /\ form' = [form EXCEPT ![o] = f]

SetKey(f, k, v) == [x \in DOMAIN f \cup {k} |-> IF x = k THEN v ELSE f[x]]
WithoutKey(f, k) == [x \in DOMAIN f \ {k} |-> f[x]]

(* What had the new key before is lost.                                    *)
RenameKey(f, k, j) == SetKey(WithoutKey(f, k), j, f[k])

(* A mailbox follows the servers it uses.                                  *)
RenameServer(f, n, m) ==
  [f EXCEPT !.servers = RenameKey(f.servers, n, m),
            !.mailboxes = [i \in DOMAIN f.mailboxes |->
              [f.mailboxes[i] EXCEPT !.uses =
                 IF n \in @ THEN (@ \ {n}) \cup {m} ELSE @]]]

RemoveServer(f, n) ==
  [f EXCEPT !.servers = WithoutKey(f.servers, n),
            !.mailboxes = [i \in DOMAIN f.mailboxes |->
              [f.mailboxes[i] EXCEPT !.uses = @ \ {n}]]]

AddServer(f, n, h) ==
  [f EXCEPT !.servers = SetKey(@, n, [home |-> h, env |-> <<>>])]

HomesOf(c) == {c.servers[n].home : n \in DOMAIN c.servers}

EditServers(o) ==
  LET f == form[o]
      names == DOMAIN f.servers
      new == Homes \ (HomesOf(f) \cup HomesOf(base[o]))
  IN
  \/ \E n \in names, m \in Names \ names :
       Show(o, "server", RenameServer(f, n, m))
  \/ \E n \in names : Show(o, "server", RemoveServer(f, n))
  \/ \E m \in Names \ names, h \in new :
       Show(o, "server", AddServer(f, m, h))

(* A variable is typed over or added, gets another name and keeps what it  *)
(* shows, or is removed.                                                   *)
EditVariables(o) ==
  LET f == form[o]
      Env(n, e) == Show(o, "variable", [f EXCEPT !.servers[n].env = e])
  IN
  \E n \in DOMAIN f.servers :
    LET env == f.servers[n].env IN
    \/ \E k \in Variables, v \in {Typed, Empty} : Env(n, SetKey(env, k, v))
    \/ \E k \in DOMAIN env, j \in Variables :
         k # j /\ Env(n, RenameKey(env, k, j))
    \/ \E k \in DOMAIN env : Env(n, WithoutKey(env, k))

(* A mailbox gets another id, password or servers, is removed or added.    *)
EditMailboxes(o) ==
  LET f == form[o]
      ids == DOMAIN f.mailboxes
      Boxes(m) == Show(o, "mailbox", [f EXCEPT !.mailboxes = m])
      Put(i, p, u) ==
        Boxes(SetKey(f.mailboxes, i, [password |-> p, uses |-> u]))
  IN
  \/ \E i \in ids, j \in Ids \ ids : Boxes(RenameKey(f.mailboxes, i, j))
  \/ \E i \in ids : Boxes(WithoutKey(f.mailboxes, i))
  \/ \E i \in ids : Put(i, Typed, f.mailboxes[i].uses)
  \/ \E i \in ids, u \in SUBSET DOMAIN f.servers :
       Put(i, f.mailboxes[i].password, u)
  \/ \E i \in Ids \ ids : Put(i, Typed, {})

(* The operator types secrets, never the placeholder.                      *)
EditForm(o) ==
  /\ handler[o] = "idle" /\ form[o] # NoConfig
  /\ \/ Show(o, "database", [form[o] EXCEPT !.db = Typed])
     \/ EditServers(o) \/ EditVariables(o) \/ EditMailboxes(o)
  /\ UNCHANGED <<memory, worker, running, live, at, base, handler, draft,
                 crossed, file, saves, mishap, beside, apart>>

(* What the form did to the names, and whether it is out of date.          *)
Renamed(f, b) ==
  \E n \in DOMAIN f.servers \cap DOMAIN b.servers :
    f.servers[n].home # b.servers[n].home

(* A server shows a placeholder where the one it was made from has no      *)
(* secret: one of its variables got another name.                          *)
Rekeyed(server, old) ==
  ~(Hiding(server) \subseteq Sensitive \cap DOMAIN old.env)

(* A server of the form and the one it was made from.                      *)
Made(f, b) ==
  {p \in (DOMAIN f.servers) \X (DOMAIN b.servers) :
     f.servers[p[1]].home = b.servers[p[2]].home}

(* New servers whose placeholders the save has to guess a source for.      *)
Guessed(f, b) == {n \in Added(f, b) : Hiding(f.servers[n]) # {}}

Mishaps(o) ==
  LET f == form[o]
      b == base[o]
      Many(S) == Cardinality(S) > 1
      When(condition, what) == IF condition THEN {what} ELSE {}
      rekeyed == {p \in Made(f, b) : Rekeyed(f.servers[p[1]], b.servers[p[2]])}
  IN
  When(memory[at[o]] # b, "stale")
  \cup When(Renamed(f, b), "reused")
  \cup When(\/ Many(Guessed(f, b))
            \/ Guessed(f, b) # {} /\ Many(Removed(f, b)), "several")
  \cup When(\E i \in DOMAIN f.mailboxes \ DOMAIN b.mailboxes :
              f.mailboxes[i].password = Placeholder, "mailbox")
  \cup When(rekeyed # {}, "rekeyed")
  \cup When(\E p \in rekeyed :
              /\ p[1] \in Added(f, b) /\ p[2] \in Removed(f, b)
              /\ Many(Removed(f, b)), "moved")

(* Requests under way.                                                     *)
Busy == {o \in Operators : handler[o] # "idle"}

(* require_auth; the secrets are restored and the whole is validated       *)
(* before the file is touched.                                             *)
BeginSave(o) ==
  LET next == Preserved(form[o], memory[at[o]]) IN
  /\ handler[o] = "idle" /\ form[o] # NoConfig /\ LoggedIn(o)
  /\ saves > 0 /\ Valid(next)
  /\ saves' = saves - 1
  /\ draft' = [draft EXCEPT ![o] = next]
  /\ handler' = [handler EXCEPT ![o] = "truncate"]
  /\ mishap' = mishap \cup Mishaps(o)
  /\ beside' = IF Busy = {} THEN beside \ {o} ELSE beside \cup Busy \cup {o}
  /\ UNCHANGED <<memory, worker, running, live, at, form, base, crossed,
                 file, edits, apart>>

(* fs::write opens the file and empties it; one that cannot be opened is   *)
(* an error that changes nothing.                                          *)
Truncate(o) ==
  /\ handler[o] = "truncate"
  /\ file' = Torn
  /\ handler' = [handler EXCEPT ![o] = "write"]
  /\ crossed' = [crossed EXCEPT ![o] = FALSE]
  /\ UNCHANGED <<memory, worker, running, live, at, form, base, draft,
                 edits, saves, mishap, beside, apart>>

(* Requests that have the file open.                                       *)
Writing == {o \in Operators : handler[o] = "write"}

(* It writes from the start of the file.  What another request wrote there *)
(* meanwhile is overwritten, and its end remains if it was longer.         *)
WriteFile(o) ==
  /\ handler[o] = "write"
  /\ \/ file' = Whole(draft[o])
     \/ crossed[o] /\ file' = Torn
  /\ crossed' = [q \in Operators |->
       q # o /\ (crossed[q] \/ q \in Writing)]
  /\ handler' = [handler EXCEPT ![o] = "remember"]
  /\ UNCHANGED <<memory, worker, running, live, at, form, base, draft,
                 edits, saves, mishap, beside, apart>>

(* The disk is full: the file keeps a part, the copy stays what it was.    *)
FailWrite(o) ==
  /\ handler[o] = "write"
  /\ file' \in Cuts(draft[o])
  /\ handler' = [handler EXCEPT ![o] = "idle"]
  /\ draft' = [draft EXCEPT ![o] = NoConfig]
  /\ crossed' = [q \in Operators |->
       q # o /\ (crossed[q] \/ q \in Writing)]
  /\ apart' = Servers
  /\ UNCHANGED <<memory, worker, running, live, at, form, base, edits, saves,
                 mishap, beside>>

(* Slip: the copy is left as it was.                                       *)
RememberLater(o) ==
  LET p == at[o] IN
  /\ handler[o] = "remember"
  /\ base' = [base EXCEPT ![o] = draft[o]]
  /\ form' = [form EXCEPT ![o] = Redacted(draft[o])]
  /\ handler' = [handler EXCEPT ![o] = "idle"]
  /\ draft' = [draft EXCEPT ![o] = NoConfig]
  /\ apart' = (Servers \ {p}) \cup (IF o \in beside THEN {p} ELSE {})
  /\ UNCHANGED <<memory, worker, running, live, at, crossed, file, edits,
                 saves, mishap, beside>>

(* The copy is replaced and the window shows it again.                     *)
Remember(o) ==
  LET p == at[o] IN
  /\ handler[o] = "remember"
  /\ memory' = [memory EXCEPT ![p] = draft[o]]
  /\ base' = [base EXCEPT ![o] = draft[o]]
  /\ form' = [form EXCEPT ![o] = Redacted(draft[o])]
  /\ handler' = [handler EXCEPT ![o] = "idle"]
  /\ draft' = [draft EXCEPT ![o] = NoConfig]
  /\ apart' = (Servers \ {p}) \cup (IF o \in beside THEN {p} ELSE {})
  /\ UNCHANGED <<worker, running, live, at, crossed, file, edits, saves,
                 mishap, beside>>

(* Somebody repairs the file by hand.                                      *)
RepairFile ==
  /\ ~Usable /\ Busy = {}
  /\ file' = Whole(First)
  /\ apart' = Servers
  /\ UNCHANGED <<memory, worker, running, window, edits, saves, mishap,
                 beside>>

SaveStep(o) == Truncate(o) \/ WriteFile(o) \/ Remember(o)

PanelNext(o) ==
  \/ Login(o) \/ Logout(o) \/ OpenForm(o) \/ EditForm(o) \/ BeginSave(o)
  \/ SaveStep(o)
=============================================================================

--------------------------- MODULE ConfigSecrets ---------------------------
(***************************************************************************)
(* The configuration as far as its secrets go, and the three functions a   *)
(* save is made of.  The panel never gets a secret: it gets a placeholder, *)
(* sends it back, and the server puts the secret in again.  A server of    *)
(* the MCP section is found by its name, or as the only possible renaming; *)
(* a mailbox is found by its id.                                           *)
(*                                                                         *)
(* A configuration is a record of the database password, the MCP servers   *)
(* by name with the variables of their environment, and the enabled        *)
(* mailboxes by id, each with its password and the servers it uses.  The   *)
(* AI secret and the two passwords of a mailbox fare as the database's and *)
(* the one here.  A server carries the field `home', which no code reads:  *)
(* it tells the properties whose secret is whose.                          *)
(***************************************************************************)
EXTENDS FiniteSets

CONSTANTS
  Placeholder,  \* REDACTED_SECRET
  Empty,        \* the empty string
  Variables,    \* the names a variable may get
  Sensitive     \* the ones is_sensitive_env_name finds a secret in

ASSUME SecretsAssumption ==
  Placeholder # Empty /\ Sensitive \subseteq Variables

Redact(v) == IF v = Empty THEN Empty ELSE Placeholder

RedactedEnv(e) ==
  [k \in DOMAIN e |-> IF k \in Sensitive THEN Redact(e[k]) ELSE e[k]]

Redacted(c) ==
  [c EXCEPT
    !.db = Redact(@),
    !.servers = [n \in DOMAIN c.servers |->
                   [c.servers[n] EXCEPT !.env = RedactedEnv(@)]],
    !.mailboxes = [i \in DOMAIN c.mailboxes |->
                     [c.mailboxes[i] EXCEPT !.password = Redact(@)]]]

(* A typed value stands, a placeholder gives way to the current value.     *)
Keep(next, current) == IF next = Placeholder THEN current ELSE next

KeepEnv(next, current) ==
  [k \in DOMAIN next |->
     IF k \in DOMAIN current THEN Keep(next[k], current[k]) ELSE next[k]]

Added(next, current) == DOMAIN next.servers \ DOMAIN current.servers
Removed(next, current) == DOMAIN current.servers \ DOMAIN next.servers

(* The variables of a server that show the placeholder.                    *)
Hiding(server) == {k \in DOMAIN server.env : server.env[k] = Placeholder}

(* A new server may be a renamed one if it has placeholders to fill and    *)
(* the other has a value for each of them.                                 *)
MayBeRenamed(server, old) ==
  LET hidden == Hiding(server) \cap Sensitive
  IN  hidden # {} /\ hidden \subseteq DOMAIN old.env

Candidates(next, current) ==
  {p \in Added(next, current) \X Removed(next, current) :
     MayBeRenamed(next.servers[p[1]], current.servers[p[2]])}

(* Slip: a new server takes any server that has its keys.                  *)
RenamingsAny(next, current) == Candidates(next, current)

(* Only a pair in which neither side has another candidate counts.         *)
Renamings(next, current) ==
  LET all == Candidates(next, current)
  IN  {p \in all : \A q \in all : p[1] = q[1] \/ p[2] = q[2] => p = q}

(* Slip: servers are found by name only.                                   *)
SourcesByName(next, current, n) == {n} \cap DOMAIN current.servers

(* The current server whose secrets a server of the form gets, if any.     *)
Sources(next, current, n) ==
  IF n \in DOMAIN current.servers THEN {n}
  ELSE {p[2] : p \in {q \in Renamings(next, current) : q[1] = n}}

PreservedServer(next, current, n) ==
  LET from == Sources(next, current, n) IN
  IF from = {} THEN next.servers[n]
  ELSE [next.servers[n] EXCEPT
         !.env = KeepEnv(@, current.servers[CHOOSE m \in from : TRUE].env)]

PreservedMailbox(next, current, i) ==
  IF i \notin DOMAIN current.mailboxes THEN next.mailboxes[i]
  ELSE [next.mailboxes[i] EXCEPT
         !.password = Keep(@, current.mailboxes[i].password)]

(* preserve_redacted_secrets.                                              *)
Preserved(next, current) ==
  [next EXCEPT
    !.db = Keep(@, current.db),
    !.servers = [n \in DOMAIN next.servers |->
                   PreservedServer(next, current, n)],
    !.mailboxes = [i \in DOMAIN next.mailboxes |->
                     PreservedMailbox(next, current, i)]]

(* An enabled mailbox needs its connection, and servers that exist.        *)
ValidMailbox(c, m) ==
  m.password # Empty /\ m.uses \subseteq DOMAIN c.servers

Valid(c) ==
  /\ c.db # Empty
  /\ \A i \in DOMAIN c.mailboxes : ValidMailbox(c, c.mailboxes[i])

(* Every value stored as a secret, or as a variable.                       *)
Stored(c) ==
  {c.db} \cup {c.mailboxes[i].password : i \in DOMAIN c.mailboxes}
    \cup UNION {{c.servers[n].env[k] : k \in DOMAIN c.servers[n].env} :
                  n \in DOMAIN c.servers}
=============================================================================

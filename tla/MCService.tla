----------------------------- MODULE MCService -----------------------------
(***************************************************************************)
(* Service for TLC.  The file names two MCP servers, one with a secret     *)
(* more than the other, which the only mailbox uses.  The builds are a     *)
(* first one, one that adds a version and one whose first version was      *)
(* edited.                                                                 *)
(***************************************************************************)
EXTENDS Service, TLC

CONSTANTS
  proc1, proc2, win1, win2, mcpA, mcpB, mcpC, boxX, boxY, keyA, keyB, plain,
  password, typed, star, blank

Server(n, keys) == [home |-> n, env |-> [k \in keys |-> n]]

MCFirst ==
  [db |-> password,
   servers |-> (mcpA :> Server(mcpA, {keyA, keyB})
                  @@ mcpB :> Server(mcpB, {keyA, plain})),
   mailboxes |-> (boxX :> [password |-> password, uses |-> {mcpB}])]

Old == <<"init">>
New == <<"init", "more">>
Fork == <<"other", "more">>

MCBuilds == {Old, New, Fork}

One(f) == [p \in {proc1, proc2} |-> f]

(* The edits of each kind.                                                 *)
Edits(d, s, v, m) ==
  [k \in EditKinds |-> CASE k = "database" -> d
                         [] k = "server"   -> s
                         [] k = "variable" -> v
                         [] k = "mailbox"  -> m]

NoEdits == Edits(0, 0, 0, 0)

(* Two processes of any builds start, die and start again.                 *)
Starting ==
  {[processes |-> {proc1, proc2}, build |-> f, windows |-> {},
    edits |-> NoEdits, saves |-> 0, faults |-> 2] :
     f \in [{proc1, proc2} -> MCBuilds]}

(* Two windows of one process save forms while its worker polls.           *)
Saving ==
  [processes |-> {proc1}, build |-> One(Old), windows |-> {win1, win2},
   edits |-> Edits(0, 2, 0, 0), saves |-> 2, faults |-> 0]

(* A window saves on one process and then on the other.                    *)
Sharing ==
  [processes |-> {proc1, proc2}, build |-> One(Old), windows |-> {win1},
   edits |-> Edits(1, 0, 0, 0), saves |-> 2, faults |-> 0]

(* A window saves, with a crash or a full disk at any point.               *)
Failing ==
  [processes |-> {proc1}, build |-> One(Old), windows |-> {win1},
   edits |-> Edits(0, 1, 0, 0), saves |-> 1, faults |-> 1]

(* A window changes servers and variables, or mailboxes, and saves.        *)
Editing ==
  {[processes |-> {proc1}, build |-> One(Old), windows |-> {win1},
    edits |-> e, saves |-> 1, faults |-> 0] :
     e \in {Edits(0, 2, 1, 0), Edits(0, 0, 0, 2)}}

MCBounds == Starting \cup {Saving, Sharing, Failing} \cup Editing
=============================================================================

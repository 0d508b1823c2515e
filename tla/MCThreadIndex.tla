--------------------------- MODULE MCThreadIndex ---------------------------
(***************************************************************************)
(* ThreadIndex for TLC.  One run covers several combinations of bounds,    *)
(* each chosen for the mails it lets meet.                                 *)
(***************************************************************************)
EXTENDS ThreadIndex, TLC

CONSTANTS proc1, proc2

Some(in, own, reply, byPortal, forward) ==
  "in" :> in @@ "own" :> own @@ "reply" :> reply @@ "portal" :> byPortal
    @@ "forward" :> forward

(* A mail, the owner's own, the program's reply, and an answer to either.  *)
Replying == [workers |-> {proc1}, mails |-> Some(2, 1, 1, 0, 0), faults |-> 0]
(* The program's reply leaves and something fails on the way.              *)
Failing == [workers |-> {proc1}, mails |-> Some(2, 0, 1, 0, 0), faults |-> 1]
(* An operator answers, and the correspondent again.                       *)
Operating == [workers |-> {proc1}, mails |-> Some(2, 0, 1, 1, 0), faults |-> 0]
(* An operator forwards, and the new correspondent answers.                *)
Forwarding == [workers |-> {proc1}, mails |-> Some(2, 0, 0, 1, 1), faults |-> 0]
(* Two workers look up mails of one conversation at the same time.         *)
Racing == [workers |-> {proc1, proc2}, mails |-> Some(2, 1, 0, 0, 0),
           faults |-> 0]

MCBounds == {Replying, Failing, Operating, Forwarding, Racing}

(* The two processes are alike.                                            *)
Processes == Permutations({proc1, proc2})
=============================================================================

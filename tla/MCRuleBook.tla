----------------------------- MODULE MCRuleBook -----------------------------
(***************************************************************************)
(* RuleBook for TLC.  The AI may name one category and one topic nobody    *)
(* seeded.  One run covers several combinations of bounds.                 *)
(***************************************************************************)
EXTENDS RuleBook

CONSTANTS
  win1, win2, proc1, proc2, plain, polite, marketing, other, general, extra

(* A window writes while a worker handles a mail, again if a step fails.   *)
Handling ==
  [windows |-> {win1}, processes |-> {proc1}, mails |-> {plain},
   writes |-> 1, attempts |-> 2, faults |-> 1]

(* Two workers poll, one mail asks for a human.                            *)
Sharing ==
  [windows |-> {win1}, processes |-> {proc1, proc2},
   mails |-> {plain, polite}, writes |-> 1, attempts |-> 1, faults |-> 0]

(* Two windows write over each other, and a write fails.                   *)
Editing ==
  [windows |-> {win1, win2}, processes |-> {}, mails |-> {}, writes |-> 2,
   attempts |-> 0, faults |-> 1]

MCBounds == {Handling, Sharing, Editing}
=============================================================================

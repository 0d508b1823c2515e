-------------------------- MODULE MCThreadHandoff --------------------------
(***************************************************************************)
(* ThreadHandoff for TLC.  Actors, requests and addresses are model        *)
(* values.  One run covers three combinations of bounds, each chosen for   *)
(* the question it makes reachable.                                        *)
(***************************************************************************)
EXTENDS ThreadHandoff, TLC

CONSTANTS o1, o2, w1, w2, r1, r2, f1, f2, ann, bob, customer

(* Two requests to hand the thread to different humans while a worker      *)
(* routes two more mails.                                                  *)
TwoRequests ==
  [actors |-> {o1, w1}, attempts |-> (r1 :> 1 @@ r2 :> 1),
   fresh |-> {f1, f2}, mails |-> 3, faults |-> 0]

(* Two workers, a request, and a fault at any step.                        *)
TwoWorkers ==
  [actors |-> {o1, w1, w2}, attempts |-> (r1 :> 1 @@ r2 :> 0),
   fresh |-> {f1, f2}, mails |-> 2, faults |-> 1]

(* One request sent three times from two windows, with two faults.         *)
Repeated ==
  [actors |-> {o1, o2, w1}, attempts |-> (r1 :> 3 @@ r2 :> 0),
   fresh |-> {}, mails |-> 1, faults |-> 2]

MCBounds == {TwoRequests, TwoWorkers, Repeated}
=============================================================================

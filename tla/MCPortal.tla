------------------------------ MODULE MCPortal ------------------------------
(***************************************************************************)
(* Portal for TLC.  Windows, workers, requests and the root conversation   *)
(* are model values.  One run covers two combinations of bounds, each      *)
(* chosen for the question it makes reachable.                             *)
(***************************************************************************)
EXTENDS Portal, TLC

CONSTANTS o1, o2, w1, r1, r2, root

(* One request sent three times from two windows, with two faults.         *)
Repeated == [tries |-> (r1 :> 3 @@ r2 :> 0), mails |-> 1, faults |-> 2]

(* Two requests while a second mail is claimed.                            *)
TwoRequests == [tries |-> (r1 :> 1 @@ r2 :> 1), mails |-> 2, faults |-> 0]

MCBounds == {Repeated, TwoRequests}

(* The two windows are alike.                                              *)
Windows == Permutations({o1, o2})
=============================================================================

-------------------------- MODULE OutboundPromise --------------------------
(***************************************************************************)
(* What the message pipeline promises its operator about each mail, without*)
(* workers, rows or retries: one outbound mail at most, unless something   *)
(* happened that excuses a second one, and the source mail is flagged seen *)
(* only once its case is concluded.                                        *)
(***************************************************************************)
CONSTANT Mails

VARIABLES
  answered,      \* mails an outbound mail was sent for
  repeated,      \* mails more than one was sent for
  concluded,     \* mails with an outcome, be it that none is sent
  acknowledged,  \* mails flagged seen
  excused,       \* mails an incident may repeat the outbound mail of
  misled         \* mails another worker's claim made look concluded

vars == <<answered, repeated, concluded, acknowledged, excused, misled>>

Init ==
  /\ answered = {} /\ repeated = {} /\ concluded = {}
  /\ acknowledged = {} /\ excused = {} /\ misled = {}

(* A second outbound mail is sent only for an excused mail.                *)
Post(m) ==
  /\ m \in answered => m \in excused
  /\ answered' = answered \cup {m}
  /\ repeated' = IF m \in answered THEN repeated \cup {m} ELSE repeated

Deliver(m) ==
  /\ Post(m)
  /\ concluded' = concluded \cup {m}
  /\ UNCHANGED <<acknowledged, excused, misled>>

(* Sent, but the sender could not tell.                                    *)
DeliverUnsure(m) ==
  /\ Post(m)
  /\ excused' = excused \cup {m}
  /\ UNCHANGED <<concluded, acknowledged, misled>>

(* It is decided that nothing is sent.                                     *)
Conclude(m) ==
  /\ concluded' = concluded \cup {m}
  /\ UNCHANGED <<answered, repeated, acknowledged, excused, misled>>

Acknowledge(m) ==
  /\ m \in concluded \cup misled
  /\ acknowledged' = acknowledged \cup {m}
  /\ UNCHANGED <<answered, repeated, concluded, excused, misled>>

Excuse(m) ==
  /\ excused' = excused \cup {m}
  /\ UNCHANGED <<answered, repeated, concluded, acknowledged, misled>>

Mislead(m) ==
  /\ misled' = misled \cup {m}
  /\ UNCHANGED <<answered, repeated, concluded, acknowledged, excused>>

Next == \E m \in Mails :
  \/ Deliver(m) \/ DeliverUnsure(m) \/ Conclude(m)
  \/ Acknowledge(m) \/ Excuse(m) \/ Mislead(m)

Spec == Init /\ [][Next]_vars
=============================================================================

\* One process and one fault: an SMTP error after the server took the mail.
CONSTANTS
  w1 = w1
  w2 = w2
  Workers = {w1}
  Messages = {1}
  Oversized = {}
  HumanReview = {}
  FetchLimit = 10
  MaxFaults = 1
SPECIFICATION Spec
INVARIANT NoDuplicateReplies

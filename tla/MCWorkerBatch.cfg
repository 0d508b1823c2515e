\* One process, three mails, two of them per poll.
CONSTANTS
  w1 = w1
  w2 = w2
  Workers = {w1}
  Messages = {1, 2, 3}
  Oversized = {2}
  HumanReview = {3}
  FetchLimit = 2
  MaxFaults = 2
SPECIFICATION FairSpec
INVARIANTS SeenOnlyWhenHandled
PROPERTIES EventuallyHandled

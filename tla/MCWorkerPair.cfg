\* Two replicas race for one mail.
CONSTANTS
  w1 = w1
  w2 = w2
  Workers = {w1, w2}
  Messages = {1}
  Oversized = {}
  HumanReview = {}
  FetchLimit = 10
  MaxFaults = 2
SPECIFICATION FairSpec
INVARIANTS TypeOK ExclusiveClaim DuplicateNeedsCause SeenNeedsOutcome EvidenceAgrees
PROPERTIES FinishedStaysFinished KeepsPromise EventuallySeen

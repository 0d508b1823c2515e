SPECIFICATION Spec
CONSTANTS
  o1 = o1
  o2 = o2
  w1 = w1
  r1 = r1
  r2 = r2
  root = root
  Operators = {o1, o2}
  Workers = {w1}
  Requests = {r1, r2}
  Root = root
  MaxTries = 3
  MaxMails = 2
  Bounds <- MCBounds
SYMMETRY Windows
INVARIANT TypeOK
INVARIANT SentOnce
INVARIANT StatusIsTrue
INVARIANT ForwardLandsInChild
INVARIANT SeenWhatWasClaimed
INVARIANT OneReplyPerView

SPECIFICATION FairSpec
CONSTANTS
  o1 = o1
  o2 = o2
  w1 = w1
  w2 = w2
  r1 = r1
  r2 = r2
  f1 = f1
  f2 = f2
  ann = ann
  bob = bob
  customer = customer
  Operators = {o1, o2}
  Workers = {w1, w2}
  Requests = {r1, r2}
  Fresh = {f1, f2}
  Addresses = {ann, bob, customer}
  Humans = {ann, bob}
  MaxMails = 3
  MaxAttempts = 3
  Bounds <- MCBounds
INVARIANT TypeOK
INVARIANT AnsweredOnlyIfOvertaken
INVARIANT ResentNeedsCause
INVARIANT ActiveIsDelivered
INVARIANT HandoffMailHidden
PROPERTY MailSettles

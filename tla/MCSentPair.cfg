SPECIFICATION FairSpec
CONSTANTS
  here = here
  there = there
  sent = sent
  other = other
  NoFolder = NoFolder
  Workers = {here, there}
  Folders = {sent}
  Windows = {1, 2}
  DayLength = 1
  BatchSize = 1
  Start = 2
  Dates = {0, 1}
  MaxTime = 3
  MaxMails = 2
  MaxEdits = 1
  MaxFaults = 1
INVARIANT TypeOK
INVARIANT HistoryUnlessRaced
INVARIANT CursorCovers
PROPERTY InboxReached

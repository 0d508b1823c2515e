SPECIFICATION Spec
CONSTANTS
  here = here
  there = there
  sent = sent
  other = other
  NoFolder = NoFolder
  Workers = {here, there}
  Folders = {sent}
  Windows = {1, 2}
  DayLength = 1
  BatchSize = 1
  Start = 2
  Dates = {0, 1}
  MaxTime = 2
  MaxMails = 3
  MaxEdits = 1
  MaxFaults = 0
INVARIANT HistoryBeforeInbox

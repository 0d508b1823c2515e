SPECIFICATION Spec
CONSTANTS
  here = here
  there = there
  sent = sent
  other = other
  NoFolder = NoFolder
  Workers = {here}
  Folders = {sent, other}
  Windows = {0, 1, 2}
  DayLength = 2
  BatchSize = 1
  Start = 4
  Dates = {1, 2}
  MaxTime = 5
  MaxMails = 2
  MaxEdits = 2
  MaxFaults = 1
INVARIANT HistoryBeforeInbox

SPECIFICATION Spec
CONSTANTS
  win1 = win1
  win2 = win2
  proc1 = proc1
  proc2 = proc2
  plain = plain
  polite = polite
  marketing = marketing
  other = other
  general = general
  extra = extra
  Operators = {win1, win2}
  Workers = {proc1, proc2}
  Mails = {plain, polite}
  AsksHuman = {polite}
  Categories = {marketing, other}
  Topics = {general, extra}
  Marketing = marketing
  General = general
  Seeded = {marketing, other, general}
  Bounds <- MCBounds
INVARIANT TypeOK
INVARIANT HistoryAgrees
PROPERTY MarketingIsDeclined

SPECIFICATION Spec
CONSTANTS
  proc1 = proc1
  proc2 = proc2
  Workers = {proc1, proc2}
  MaxMails = 4
  Bounds <- MCBounds
INVARIANT TypeOK
INVARIANT OneThread
INVARIANT ContextWhole
SYMMETRY Processes

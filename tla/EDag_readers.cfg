\* Readers against edits, saves, rewinds, failures and restarts.
CONSTANTS
  e1 = e1 e2 = e2 w1 = w1 r1 = r1 r2 = r2
  Saver = Saver Loader = Loader Nobody = Nobody
  Editors <- TwoEditors
  Appenders <- NoTasks
  Rewinders <- OneRewinder
  Readers <- TwoReaders
  Faults <- AllButWrites
  MaxItems = 1
  MaxEdits = 2
  MaxCids = 4
SYMMETRY Symmetry
SPECIFICATION Spec
INVARIANTS LockExclusion VersionsWhole ReadersSeeWhole NoEditForgotten
PROPERTIES ReadersUndisturbed
CHECK_DEADLOCK FALSE

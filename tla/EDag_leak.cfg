\* A portal whose document cannot be loaded keeps the read lock.
CONSTANTS
  e1 = e1 e2 = e2 w1 = w1 r1 = r1 r2 = r2
  Saver = Saver Loader = Loader Nobody = Nobody
  Editors <- OneEditor
  Appenders <- NoTasks
  Rewinders <- NoTasks
  Readers <- OneReader
  Faults <- GetFault
  MaxItems = 1
  MaxEdits = 1
  MaxCids = 3
SPECIFICATION Spec
INVARIANT ReadLockReleased
CHECK_DEADLOCK FALSE

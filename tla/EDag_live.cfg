\* Every edit is recorded and every waiting coroutine gets the lock.
CONSTANTS
  e1 = e1 e2 = e2 w1 = w1 r1 = r1 r2 = r2
  Saver = Saver Loader = Loader Nobody = Nobody
  Editors <- TwoEditors
  Appenders <- NoTasks
  Rewinders <- OneRewinder
  Readers <- TwoReaders
  Faults <- StoreFaults
  MaxItems = 1
  MaxEdits = 2
  MaxCids = 4
SPECIFICATION FairSpec
PROPERTIES EditsReachDisk LockIsGranted
CHECK_DEADLOCK FALSE

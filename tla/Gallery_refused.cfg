\* A rewind that is refused pops a mark.
CONSTANTS
  e1 = e1 a1 = a1 w1 = w1
  Saver = Saver Loader = Loader Nobody = Nobody
  Editors <- OneEditor
  Appenders <- NoTasks
  Rewinders <- OneRewinder
  Readers <- NoTasks
  Faults <- NoFaults
  MaxItems = 1
  MaxEdits = 1
  MaxCids = 4
  MaxMarks = 4
SPECIFICATION GSpec
PROPERTY PopOnlyWithRewind
CHECK_DEADLOCK FALSE

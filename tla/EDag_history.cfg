\* A gallery, its editor and its appender, saves and rewinds, with every fault but
\* an unreadable metadata file.
CONSTANTS
  e1 = e1 a1 = a1 w1 = w1
  Saver = Saver Loader = Loader Nobody = Nobody
  Editors <- OneEditor
  Appenders <- OneAppender
  Rewinders <- OneRewinder
  Readers <- NoTasks
  Faults <- AllButRead
  MaxItems = 1
  MaxEdits = 1
  MaxCids = 5
  MaxMarks = 4
SPECIFICATION GSpec
INVARIANTS TypeOK HistoryIsLineage HistoryBounded MetadataNamesVersion VersionsGrow PyramidFollowsDag
PROPERTIES RefinesVersionChain
CHECK_DEADLOCK FALSE

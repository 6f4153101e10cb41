\* Records are written, rotated and browsed; writes fail, the process restarts.
CONSTANTS
  None = None
  RecentLimit = 3
  LogFiles = 2
  MaxLogBytes = 1
  Slack = 1
  MaxPending = 2
  MaxEvents = 4
  MaxStarts = 1
  PageSize = 1
  MaxLoads = 3
SPECIFICATION FairSpec
INVARIANT TypeOK
INVARIANT LogIntact
INVARIANT NothingShownSignedOut
PROPERTY LinesLeaveByRotation
PROPERTY HistoryStaysPut
PROPERTY LoadsEnd
CHECK_DEADLOCK FALSE

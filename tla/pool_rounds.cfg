\* A pool that is built up, edited, switched off and restarted under a job, a check, fair jobs.
CONSTANTS
  n1 = n1  n2 = n2  j1 = j1  a = a
  None = None
  Nodes = {n1, n2}
  Jobs = {j1}
  Clients = {a}
  MaxNodes = 2
  MaxChecks = 1
  MaxChanges = 4
  MaxBoots = 1
SPECIFICATION FairSpec
INVARIANT TypeOK
INVARIANT RoundsMatchPool
INVARIANT PoolUsable
PROPERTY LateAnswersDropped
PROPERTY OncePerRound
PROPERTY RoundsEnd
CHECK_DEADLOCK FALSE

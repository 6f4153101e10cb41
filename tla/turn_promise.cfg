\* Off and on again before a cancelled job has ended.
CONSTANTS
  a = a  b = b  v1 = v1  v2 = v2  r1 = r1  r2 = r2  r3 = r3  gpt = gpt
  None = None
  Models = {gpt}
  Callers <- OneKey
  Routable <- OneKey
  Values = {v1, v2}
  Rules <- SharedRule
  Requests = {r1}
  Sizes = {1}
  Pauses = {1}
  MaxPins = 4
  Margin = 0
  MaxJobs = 2
  MaxWaiters = 2
  MaxHeldBytes = 2
  MaxRenewals = 2
  MaxLead = 1
  CooldownTime = 1
  MaxTime = 1
  MaxEpoch = 1
  MaxGeneration = 3
  MaxBoots = 0
SPECIFICATION Spec
SYMMETRY ValueSymmetry
VIEW InMemory
PROPERTY PromisesKept
CHECK_DEADLOCK FALSE

\* Two clients, two failures, one binding.
CONSTANTS
  a = a  b = b  v1 = v1  v2 = v2  r1 = r1  r2 = r2  r3 = r3  gpt = gpt
  None = None
  Models = {gpt}
  Callers <- TwoKeys
  Routable <- TwoKeys
  Values = {v1, v2}
  Rules <- SharedRule
  Requests = {r1, r2, r3}
  Sizes = {1}
  Pauses = {1, 3}
  MaxPins = 4
  Margin = 0
  MaxJobs = 2
  MaxWaiters = 2
  MaxHeldBytes = 2
  MaxRenewals = 2
  MaxLead = 1
  CooldownTime = 1
  MaxTime = 2
  MaxEpoch = 0
  MaxGeneration = 0
  MaxBoots = 0
SPECIFICATION Spec
SYMMETRY RequestSymmetry
VIEW InMemory
PROPERTY CooldownHolds
CHECK_DEADLOCK FALSE

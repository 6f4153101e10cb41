\* One model-wide binding, two API keys: requests, jobs, renewals, the switch, the rule deleted and set again.
CONSTANTS
  a = a  b = b  v1 = v1  v2 = v2  r1 = r1  r2 = r2  r3 = r3  gpt = gpt
  None = None
  Models = {gpt}
  Callers <- TwoKeys
  Routable <- TwoKeys
  Values = {v1, v2}
  Rules <- SharedRule
  Requests = {r1, r2}
  Sizes = {1}
  Pauses = {1}
  MaxPins = 4
  Margin = 0
  MaxJobs = 2
  MaxWaiters = 2
  MaxHeldBytes = 2
  MaxRenewals = 2
  MaxLead = 1
  CooldownTime = 1
  MaxTime = 3
  MaxEpoch = 1
  MaxGeneration = 1
  MaxBoots = 0
SPECIFICATION Spec
SYMMETRY PairSymmetry
VIEW InMemory
INVARIANT CurrentJobs
INVARIANT HeldAccounting
INVARIANT RenewalKeyEarned
PROPERTY TouchedWhileOn
PROPERTY PinsLeaveForCause
PROPERTY SentWithLivePin
CHECK_DEADLOCK FALSE

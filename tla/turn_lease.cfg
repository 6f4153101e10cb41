\* Leases and remembered credentials through every rule edit, resets, a crash and two writes; releases and due renewals under fairness.
CONSTANTS
  a = a  b = b  v1 = v1  v2 = v2  r1 = r1  r2 = r2  r3 = r3  gpt = gpt
  None = None
  Models = {gpt}
  Callers <- OneKey
  Routable <- OneKey
  Values = {v1, v2}
  Rules <- RuleEdits
  Requests = {r1}
  Sizes = {1}
  Pauses = {1}
  MaxPins = 4
  Margin = 0
  MaxJobs = 1
  MaxWaiters = 2
  MaxHeldBytes = 2
  MaxRenewals = 2
  MaxLead = 1
  CooldownTime = 1
  MaxTime = 2
  MaxEpoch = 1
  MaxGeneration = 1
  MaxBoots = 1
SPECIFICATION FairSpec
INVARIANT TypeOK
INVARIANT CurrentSlots
PROPERTY KeepsLeases
PROPERTY AbortedJobsRelease
PROPERTY DueRenewalStarts
CHECK_DEADLOCK FALSE

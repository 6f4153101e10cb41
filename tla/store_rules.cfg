\* Rule edits, restarts and three calls in flight on one model; three API keys share room for two pins.
CONSTANTS
  a = a  b = b  d = d  v1 = v1  v2 = v2  c1 = c1  c2 = c2  c3 = c3  gpt = gpt
  None = None
  Models = {gpt}
  Callers <- ThreeKeys
  Values = {v1, v2}
  Rules <- RuleEdits
  Calls = {c1, c2, c3}
  MaxPins = 2
  Margin = 0
  MaxTime = 2
  MaxEpoch = 1
SPECIFICATION Spec
SYMMETRY CallSymmetry
INVARIANT TypeOK
INVARIANT PinsObeyRules
PROPERTY SameValueKeepsDeadline
PROPERTY LivePinSurvivesCalls
PROPERTY LateCallsKeepNewer
CHECK_DEADLOCK FALSE

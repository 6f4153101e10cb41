\* One pin, one reset, one crash before the scheduled write.
CONSTANTS
  a = a  b = b  d = d  v1 = v1  v2 = v2  c1 = c1  c2 = c2  c3 = c3  gpt = gpt
  None = None
  Models = {gpt}
  Callers <- TwoKeys
  Values = {v1}
  Rules <- OneRuleOneValue
  Calls = {c1}
  MaxPins = 4
  Margin = 0
  MaxTime = 1
  MaxEpoch = 1
SPECIFICATION Spec
PROPERTY RevokedStaysRevoked
CHECK_DEADLOCK FALSE

\* Local probes, probes through a node and connectivity checks, cut off anywhere,
\* while the account that node probes use is exported, changes and expires.
CONSTANTS
  None = None
  NoAccount = NoAccount
  Expiries = {6}
  MaxAge = 2
  Margin = 1
  RunLimit = 1
  Deadline = 1
  MaxTime = 6
SPECIFICATION Spec
INVARIANT TypesOK
INVARIANT CutIsObeyed
INVARIANT NothingHeld
INVARIANT AcceptedOnEvidence
PROPERTY CredentialsFresh
PROPERTY ProbesEnd

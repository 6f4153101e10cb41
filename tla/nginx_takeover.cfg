\* Every failure, crash and retry; the administrator edits between commands.
CONSTANTS
  None = None
  MaxEdits = 3
  EditsDuringCommands = FALSE
SPECIFICATION Spec
INVARIANT TypeOK
INVARIANT NoTraceWithoutJournal
INVARIANT ManualChangesKept
INVARIANT PasswordKept
PROPERTY SiteLoads
PROPERTY StopsUnrouted

\* The administrator saves the site while a command runs.
CONSTANTS
  None = None
  MaxEdits = 1
  EditsDuringCommands = TRUE
SPECIFICATION Spec
INVARIANT ManualChangesKept

CONSTANTS
  visitor = visitor
  other = other
  Visitor = visitor
  Settings <- Rules
  Central = FALSE
  None = None
  MaxHash = 2
  MaxLives = 2
  MaxState = 2
SPECIFICATION Spec
INVARIANTS ServedAuthorized StateUsedOnce FormUsable NoLoopBack

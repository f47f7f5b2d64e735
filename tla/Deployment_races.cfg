CONSTANTS
  Owner = owner
  Actors = {owner, dev}
  Visitors = {}
  Projects = {p}
  Targets = {"production", "preview"}
  MaxId = 2
  Keeps = {}
  Days = {}
  RetainCount = 1
  RetainDays = TRUE
  MaxCrashes = 0
  Fragile = {}
  Collector = Collector
  None = None
SPECIFICATION Spec
PROPERTIES UploadsMoveForward RetentionHonored ProductionKept

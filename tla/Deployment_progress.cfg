CONSTANTS
  Owner = owner
  Actors = {owner, dev}
  Visitors = {v}
  Projects = {p}
  Targets = {"production"}
  MaxId = 1
  Keeps = {}
  Days = {}
  RetainCount = 0
  RetainDays = FALSE
  MaxCrashes = 1
  Fragile = {}
  Collector = Collector
  None = None
SPECIFICATION FairSpec
PROPERTIES RequestsFinish StorageReclaimed

CONSTANTS
  Owner = owner
  Actors = {owner}
  Visitors = {v}
  Projects = {p}
  Targets = {"production", "b"}
  MaxId = 2
  Keeps = {0}
  Days = {FALSE}
  RetainCount = 1
  RetainDays = TRUE
  MaxCrashes = 1
  Fragile = {1}
  Collector = Collector
  None = None
SPECIFICATION Spec
INVARIANTS PublishedIsComplete ReadersUndisturbed AliasesResolve
PROPERTIES NoResurrection Publishes

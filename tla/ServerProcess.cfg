CONSTANTS
  Nobody = Nobody
  Processes = {p1, p2}
  Handlers = {h1, h2}
  LastChange = 3
  QueueSize = 2
SPECIFICATION FairSpec
INVARIANTS PristineSnapshot ServesComplete StoreExclusive VisitsFlushed
PROPERTIES ShutdownEnds

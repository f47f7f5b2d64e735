CONSTANTS
  site = site
  p = p
  q = q
  v = v
  w = w
  c = c
  d = d
  Renewal = Renewal
  None = None
  Hosts = {site}
  Projects = {p, q}
  Verifiers = {v, w}
  Handshakes = {c, d}
  MaxTokens = 2
  MaxOrders = 2
SPECIFICATION Spec
SYMMETRY Symmetric
INVARIANTS VerifiedByChallenge OrdersNeeded InstallsAreSound

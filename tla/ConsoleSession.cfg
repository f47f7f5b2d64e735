CONSTANTS
  Tabs = {t1, t2}
  Users = {u, v}
  Checking = Checking
  None = None
  MaxSession = 2
  MaxRequests = 2
SPECIFICATION Spec
SYMMETRY Symmetry
INVARIANTS WritesAsShown LogoutIsFinal NobodyStuck
PROPERTIES StaleAnswersHarmless

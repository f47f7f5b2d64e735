CONSTANTS
  Absent = Absent
  Site = Site
  Part = Part
  MaxLife = 2
  MaxUploads = 3
SPECIFICATION ImportSpec
INVARIANTS SiteBackOnce
PROPERTIES NewerKept

CONSTANTS
  p = p
  q = q
  Projects <- TwoProjects
  Elsewheres <- Changes
  MaxVersion <- Versions
  None = None
  Pending = Pending
  MaxPosts = 2
SPECIFICATION Spec
INVARIANTS PaneOfSelected NoticeIsTrue OneMutation
PROPERTIES OffersAreSound

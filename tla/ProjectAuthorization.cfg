CONSTANTS
  owner = owner
  member = member
  Users = {owner, member}
  Owner = owner
  None = None
  MaxRequests = 3
  MaxTokens = 1
  MaxLives = 2
SPECIFICATION Spec
INVARIANTS TokensOfPublishers AuditHonest
PROPERTIES PublishedWithPermission

SPECIFICATION Spec
CONSTANTS
  Owner = owner
  Account = account
  App = app
  Stranger = stranger
  Old = old
  New = new
  WildCard = wildcard
  MAXIMUM_AUTHORIZED_ADDRESSES = 1
  MaxDepth = 4
  Asked <- MCAsked
  None = None
INVARIANT AdminRightsFromOwner
PROPERTIES AuthorizedByOwner UpgradeMovesAuthorized
CHECK_DEADLOCK FALSE

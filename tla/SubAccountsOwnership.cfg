SPECIFICATION Spec
CONSTANTS
  alice = alice main = main sub = sub leaf = leaf nft = nft
  User = {alice}
  Account = {main, sub, leaf}
  Local = {sub, leaf}
  Token = {nft}
  MAX_ADMIN_RECURSION = 2
  FirstOwner <- MCFirstOwner
  NewOwner <- MCNewOwner
  Deadline = {"ahead"}
  Suspendable = {main}
  Receiver = {sub}
  Speaker = {sub}
  None = None
INVARIANTS SubAccountsMatchOwners OpenTransferCanComplete OwnerReachesSubAccounts
PROPERTIES NoOrphans FinalOwners
CHECK_DEADLOCK FALSE

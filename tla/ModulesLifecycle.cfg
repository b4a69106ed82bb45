SPECIFICATION Spec
CONSTANTS
  account = account dex = dex app = app vault = vault bot = bot ibc = ibc feed = feed
  Id = {account, dex, app, vault, bot, ibc, feed}
  Version = {1, 2, 3}
  Release = {1, 3}
  Info <- MCInfo
  Kind <- MCKind
  Reports <- MCReports
  HasCw2 <- MCHasCw2
  HasData <- MCHasData
  Deps <- MCDeps
  TextRank <- MCRank
  Bump <- MCBump
  Account = account
  IbcClient = ibc
  Sender = {owner, stranger}
  NestedOwner = {owner}
  WHITELIST_SIZE_LIMIT = 3
  InstallInput <- ManualInstall
  UpgradeInput <- MCUpgrade
  AddressEdit <- MCAddressEdit
  WhitelistEdit <- MCWhitelistEdit
  Changing <- MCChanging
  None = None
INVARIANTS DependentsExact VersionRequirementsHold AllowlistMatchesModules NoStuckModule
PROPERTY NoDowngrade
CHECK_DEADLOCK FALSE

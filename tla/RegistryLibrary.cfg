SPECIFICATION Spec
CONSTANTS
  abstractNs = abstractNs ns1 = ns1 c0 = c0 c1 = c1 c2 = c2 host = host
  None = None
  User = {adm}
  Addr = {acc0, acc1}
  MaxSeq = 1
  PredictableId = {p1}
  RemoteId = {}
  Namespace = {abstractNs, ns1}
  Abstract = abstractNs
  Module <- LibraryModules
  CodeId = {c0, c1, c2}
  Contract = {host}
  Proposable <- LibraryProposals
  DataValid <- LibraryProposals
  AccountModule <- MCAccountModule
  AccountRef <- MCAccountRef
  IbcHostModule <- MCHostModule
  IbcHostRef <- MCHostRef
  InitialAdmin = adm
  NewAdmin = {adm}
  FeeSetting = {TRUE}
  PartInput = {"monetization"}
INVARIANTS SequenceDense NamespacesInverse ExclusiveStatus ConfigBacked
PROPERTIES ReferenceNeverSwapped
CHECK_DEADLOCK FALSE
SYMMETRY AddrSymmetry

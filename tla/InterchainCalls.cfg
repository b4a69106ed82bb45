SPECIFICATION Spec
CONSTANTS
  neutron = neutron osmosis = osmosis there = there back = back
  Chain = {neutron, osmosis}
  Seqs = {1}
  Local <- MCLocal
  Note = {there, back}
  Home <- MCHome
  Peer <- MCPeer
  Deployed = {there, back}
  MaxRequests = 2
  MAX_TRACE_LENGTH = 2
  Calls = {"register", "dispatch", "module", "adapter", "query", "funds", "actions"}
  Removable = {there, back}
  FundInput <- MCFund
  None = None
INVARIANTS RecordedAccountsExist ControlFollowsTrace ModulesCallBack TransfersSettle
PROPERTIES ImplementsRemoteCalls CallersAreTold RefundsArrive
CHECK_DEADLOCK FALSE

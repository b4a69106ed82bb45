SPECIFICATION Spec
CONSTANTS
  ann = ann bob = bob annA = annA annB = annB bobA = bobA
  Voter = {ann, bob}
  Friend = {annA, annB, bobA}
  FriendAddr <- MCFriendAddr
  MAX_AMOUNT_OF_FRIENDS = 3
  Configs <- MCConfigs
  Requests <- MCRequests
  Text = {t1}
  MaxTime = 4
  MaxProposals = 2
  MaxChallenges = 1
  None = None
INVARIANTS OutcomesMatchVotes VotersAreFriends PenaltiesJustified
PROPERTIES SettledInTime EndedStaysEnded
CHECK_DEADLOCK FALSE

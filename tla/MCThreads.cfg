CONSTANTS
  Caller <- MCCaller
  Label <- MCLabel
  Project <- MCProject
  Topic <- MCTopic
  DefaultTopic <- MCDefaultTopic
  AguiId <- MCAguiId
  Request = {r1}
  ListWindow = 2
  GetWindow = 1
  MaxLimit = 2
  MaxCheckpoints = 4
  MaxMinted = 1
  MaxMeta = 1
  MaxParts = 3
  MaxTold <- MCMaxTold
  MaxMessages = 2
SPECIFICATION Spec
INVARIANTS
  TypeOK
  ListingFaithful
  HandlesComeBack
PROPERTIES
  CallersApart

SPECIFICATION FairSpec
CONSTANTS
  o1 = o1
  Products = {p1}
  CandidateSets <- MCCandidateSets
  Bundles = {b1, b2, b3}
  NoBundle = NoBundle
  Missions = {m1}
  Orgs = {o1}
  OrgOf <- MCOrgOf
  OrgSeq <- MCOrgSeq
  Owners = {w1}
  NoOwner = NoOwner
  Actors = {}
  Fields = {}
  NoProduct = NoProduct
  CheckpointKey = TRUE
  MaxDepth = 1
  MaxGeneration = 2
  MaxTime = 0
  LeaseTerm = 1
  ConsentTerm = 1
  EngagementTerm = 1
  MaxReceive = 2
  MaxSends = 1
  MaxFaults = 0
  MaxFeedFaults = 1
  BundleSeq <- MCBundleSeq
  MaxRounds = 2
  SlowWorkers = FALSE
PROPERTIES OutdatedIsRetired RetiredIsReplaced
CHECK_DEADLOCK FALSE

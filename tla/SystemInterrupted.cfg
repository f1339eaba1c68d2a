SPECIFICATION FairSpec
CONSTANTS
  o1 = o1
  Products = {p1}
  CandidateSets <- MCCandidateSets
  Bundles = {b1}
  NoBundle = NoBundle
  Missions = {m1}
  Orgs = {o1}
  OrgOf <- MCOrgOf
  OrgSeq <- MCOrgSeq
  Owners = {w1, w2}
  NoOwner = NoOwner
  Actors = {}
  Fields = {}
  NoProduct = NoProduct
  CheckpointKey = TRUE
  MaxDepth = 1
  MaxGeneration = 2
  MaxTime = 1
  LeaseTerm = 1
  ConsentTerm = 1
  EngagementTerm = 1
  MaxReceive = 5
  MaxSends = 1
  MaxFaults = 0
  MaxFeedFaults = 0
  BundleSeq <- MCBundleSeq
  MaxRounds = 2
  SlowWorkers = FALSE
PROPERTY InterruptedMissionResumes
CHECK_DEADLOCK FALSE

SPECIFICATION Spec
CONSTANTS
  o1 = o1
  Products = {p1, p2}
  CandidateSets <- MCCandidateSets
  Bundles = {b1, b2}
  NoBundle = NoBundle
  Missions = {m1}
  Orgs = {o1}
  OrgOf <- MCOrgOf
  Owners = {w1, w2}
  NoOwner = NoOwner
  Actors = {h1, h2}
  Fields = {f1}
  NoProduct = NoProduct
  CheckpointKey = FALSE
  MaxDepth = 1
  MaxGeneration = 2
  MaxTime = 1
  LeaseTerm = 1
  ConsentTerm = 1
  EngagementTerm = 1
SYMMETRY MCSymmetry
CHECK_DEADLOCK FALSE
PROPERTY NoStaleIntroduction

SPECIFICATION Spec
CONSTANTS
  p1 = p1
  p2 = p2
  ann = ann
  bob = bob
  finance = finance
  legal = legal
  Weights = {1, 2}
  TaxonomyWeight = 1
  Plans = {p1, p2}
  NoPlan = NoPlan
  BestPlan <- MCBestPlan
  Supported = {p1, p2}
  Paid = {p1}
  Quoted = p1
  Actors = {ann, bob}
  Roles = {finance, legal}
  RolesOf <- MCRolesOf
  RoleSeq <- MCRoleSeq
  QuoteClockFixed = FALSE
  QuoteExpires = 2
  ApprovalTerm = 1
  HandoffTerm = 2
  OutcomeTerm = 1
  ClockSkew = 0
  MaxBriefs = 3
  MaxProposals = 2
  MaxDecisions = 2
  MaxOutcomes = 1
  MaxTime = 2
INVARIANTS
  TypeOK
  StatusCopiesAgree
  FourEyes
  HandoffsAuthorised
  NewestBriefInForce
  WithdrawalIsComplete
PROPERTY ImplementsAuthority
CHECK_DEADLOCK FALSE

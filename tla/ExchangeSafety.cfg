SPECIFICATION Spec
CONSTANTS
  Callers = {c1, c2}
  MaxKeys = 6
  MaxUnapplied = 2
  RouteExpires = 2
  OfferTerms = {2}
  ApprovalTerms = {1, 2}
  HandoffTerm = 2
  MaxTime = 2
INVARIANTS ExchangeTypeOK PartiesSeeHistory PaymentBindsAgreement
PROPERTIES SellerCatchesUp ExchangeImplementsAuthority
CHECK_DEADLOCK FALSE

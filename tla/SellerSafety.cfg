SPECIFICATION Spec
CONSTANTS
  ed = ed
  op = op
  url = url
  obj = obj
  old = old
  NoActor = NoActor
  Actors = {ed, op}
  Editor = ed
  RolesOf <- MCRolesOf
  Drafted = product_fixture_d
  Unclaimed = {product_fixture_unclaimed}
  Fields = {retention, summary}
  Retention = retention
  Summary = summary
  References = {url, old}
  StaleSource = old
  Objects = {obj}
  Bodies <- MCBodies
  Scopes <- MCScopes
  Undated = {url}
  Keys = {k1}
  Callers = {c1, c2}
  FreshTerm = 0
  MaxRevisions = 3
  MaxTime = 3
SYMMETRY CallerSymmetry
INVARIANTS SellerTypeOK PublishedIsReviewed OneStory EvidenceExists
PROPERTY EvidenceIsStable

SPECIFICATION Spec
CONSTANTS
  r1 = r1
  r2 = r2
  c1 = c1
  c2 = c2
  r3 = r3
  noname = noname
  reviewer = reviewer
  viewer = viewer
  outsider = outsider
  None = None
  NoClaims = NoClaims
  Unset = Unset
  Malformed = Malformed
  Tokens = {reviewer, viewer, outsider}
  Claims <- MCClaims
  Names = {c1, c2}
  Unnamed = noname
  Requests = {r1, r2, r3}
  RequestBodies <- MCBodies
  Dataset <- MCDataset
  Configs <- MCConfigs
  Tenants = {"local_static", "t"}
  PolicyFiles <- MCPolicies
  Tolerance = 10
  MaxTime = 1
INVARIANTS
  TypeOK
  OnlyReviewersDecide
  ApprovalsAreBacked
  AckedReviewsShow
PROPERTY
  ConflictsStay
SYMMETRY Alike

SPECIFICATION MCSpec
CONSTANTS
  e1 = e1
  e2 = e2
  e3 = e3
  p1 = p1
  p2 = p2
  ann = ann
  bob = bob
  god = god
  f1 = f1
  f2 = f2
  NoEmail = NoEmail
  Blank = Blank
  Unguessable = Unguessable
  FacebookName <- MCFacebookName
  FacebookEmail <- MCFacebookEmail
  People <- MCPeople
  Workers = {w1, w2}
  Names = {ann, bob}
  OnePart = {}
  Reserved = {}
  Emails = {e1, e2}
  Passwords = {p1, p2}
  Facebooks = {f1, f2}
  MaxRequests = 5
  MaxCodes = 2
  MaxFailures = 1
SYMMETRY MCSymmetry
INVARIANTS
  LoginIsOwn
  LatestCredentialOpens
  CodeWorksOnce
CHECK_DEADLOCK FALSE

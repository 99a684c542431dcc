SPECIFICATION MCSpec
CONSTANTS
  e1 = e1
  e2 = e2
  e3 = e3
  p1 = p1
  p2 = p2
  ann = ann
  bob = bob
  god = god
  f1 = f1
  f2 = f2
  NoEmail = NoEmail
  Blank = Blank
  Unguessable = Unguessable
  FacebookName <- MCFacebookName
  FacebookEmail <- MCFacebookEmail
  People <- MCNamesakes
  Workers = {w1}
  Names = {ann, bob, god}
  OnePart = {bob}
  Reserved = {god}
  Emails = {e1, e2, e3}
  Passwords = {p1, p2}
  Facebooks = {}
  MaxRequests = 2
  MaxCodes = 0
  MaxFailures = 0
SYMMETRY MCSymmetry
INVARIANTS
  CreatesIdentity
CHECK_DEADLOCK FALSE

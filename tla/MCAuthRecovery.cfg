SPECIFICATION FairSpec
CONSTANTS
  p1 = p1
  p2 = p2
  Posters = {p1, p2}
  Main = Main
  MaxRevokes = 2
  MaxNetFails = 1
  MaxCredFails = 1
  MaxStarts = 2
INVARIANTS OneRegistrationAtATime TokenHasIdentity
PROPERTIES OnlyRejectedTokensAreCleared IdentityIsStable AuthRecovers
CHECK_DEADLOCK FALSE

SPECIFICATION Spec
CONSTANTS
  p1 = p1
  p2 = p2
  a1 = a1
  a2 = a2
  Profiles = {p1, p2}
  Accounts = {a1, a2}
  Nobody = Nobody
  Installed = TRUE
  Veterans = {a1, a2}
  Mirrored = {a1}
  Nights = 2
  Offerings = 2
  Spots <- MCSpots
  VisitAward = 1
  StreakAward = 2
  KnockCap = 3
  RefAward = 1
  TrailAward = 1
  Threshold = 2
  FirstN = 1
  Counts = {"houseN"}
  Points = {"house"}
  Gains = {2}
  MaxDeeds = 3
  Price = 1
  Limit = 1
  MaxOrders = 1
SYMMETRY Symmetry
INVARIANTS TypeOK CapsHold PaidToItsOwner TrailInOrder FirstFinders OfferingsAreReal NoNightForgotten RoleOrTokens DeliveredIsGranted TokensAddUp
PROPERTIES NothingOwed CreditOnlyAdds
CHECK_DEADLOCK FALSE

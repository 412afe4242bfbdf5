SPECIFICATION Spec
CONSTANTS
  None = None
  s1 = s1
  s2 = s2
  k1 = k1
  k2 = k2
  ServiceIds = {s1, s2}
  KeyIds = {k1, k2}
  Offers <- MCOffers
INVARIANT RoutedToBest
PROPERTIES
  StaysWhileBest
  MovesLeast

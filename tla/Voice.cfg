CONSTANTS
  a = a
  b = b
  k1 = k1
  k2 = k2
  k3 = k3
  User <- MCUser
  Visit <- MCVisit
  None = None
SYMMETRY SameSlots
SPECIFICATION Spec
INVARIANTS OneOffers LeftMeansGone

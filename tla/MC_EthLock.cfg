CONSTANTS
  l1 = l1
  l2 = l2
  n1 = n1
  n2 = n2
  Lockers <- MC_Lockers
  Names <- MC_Names
  NoTracker = NoTracker
SPECIFICATION Spec
SYMMETRY Symmetry
INVARIANT
  TrackerOwnerSigned

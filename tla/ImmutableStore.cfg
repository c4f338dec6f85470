\* Three writers race for one name, with kills, failing calls and power losses.
SPECIFICATION Spec
CONSTANTS
  Writers = {w1, w2, w3}
  Paths = {p1}
  Contents = {a, b}
  Inodes = {i1, i2, i3}
  Torn = Torn
  Free = Free
  None = None
SYMMETRY Symmetry
INVARIANTS NoPartialExposure
PROPERTIES ImplementsWriteOnce

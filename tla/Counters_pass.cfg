SPECIFICATION Spec
CONSTANTS
  k1 = k1
  k2 = k2
  k3 = k3
  Ctrls = {k1, k2, k3}
  NoCtrl = NoCtrl
  SLOTS = 2
  SEQ = 3
  MaxLock = 1
SYMMETRY Symmetry
INVARIANTS
  MediaBalanced
  ClockBalanced
  RegisteredOnce
  PushesContiguous
  ViewsCurrent
PROPERTIES
  ImplementsSubscription

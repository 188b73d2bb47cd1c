SPECIFICATION Spec
SYMMETRY Symmetry
CONSTANTS
  t1 = t1
  t2 = t2
  f1 = f1
  f2 = f2
  Threads = {t1, t2}
  Frames = {f1, f2}
  Capacity = 3
  Limits = {0, 2, 3}
  MaxPushed = 6
INVARIANT RingHoldsNewest
INVARIANT SomeCallProceeds
PROPERTY ImplementsLog

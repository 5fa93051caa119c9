SPECIFICATION MCSpec
CONSTANTS
  k1 = k1
  k2 = k2
  b1 = b1
  t1 = t1
  t2 = t2
  d1 = d1
  d2 = d2
  NoTouch = NoTouch
  NoMember = NoMember
SYMMETRY Symmetry
INVARIANT BothEndsAgree

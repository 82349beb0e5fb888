SPECIFICATION Spec
CONSTANTS
  b1 = b1
  b2 = b2
  select1 = select1
  select2 = select2
  update1 = update1
  Backends <- TwoBackends
  Texts <- ThreeTexts
  KeyOf <- CollidingKeys
  Ptrs = {d1, d2, d3, d4, d5}
  Callers <- LockedAndRacing
  Capacity = 3
  MaxOom = 1
  NoText = NoText
  NoPtr = NoPtr
  NoEntry = NoEntry
  Free = Free
  ErrBody = ErrBody
SYMMETRY Symmetry
INVARIANTS RefcountExact RightTextOrNone NothingLeaksOrDangles

SPECIFICATION MCSpec
CONSTANTS
  Proc = {t1, t2}
  KThread = kernel
  UPage = {0}
  PtSpan = 1
  Frame = {1, 2, 3, 4}
  Writable = {TRUE}
  t1 = t1
  t2 = t2
  s1 = s1
  s2 = s2
  v1 = v1
  v2 = v2
  NONE = NONE
INVARIANTS  BitsExact ConsoleExact DisksExact InterruptsExact TimesExact PeripheralsExact
SYMMETRY Symmetric

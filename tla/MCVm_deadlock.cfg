\* Two processes on three frames; q calls read and write.
SPECIFICATION Spec
CONSTANTS
  NULL = NULL
  p = p
  q = q
  ps = ps
  pb = pb
  pc1 = pc1
  pm = pm
  qs = qs
  qb = qb
  f1 = f1
  f2 = f2
  f3 = f3
  Proc = {p, q}
  VPage = {ps, pb, pm, qs, qb}
  Owner <- MCOwner
  Kind <- MCKind
  Frame = {f1, f2, f3}
  Slots = 3
  Short = {}
  Callers = {q}
  Version = {0}
  Exiting = {}
INVARIANT NoLockCycle
CHECK_DEADLOCK FALSE
SYMMETRY Frames

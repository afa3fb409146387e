\* Two processes on three frames.
SPECIFICATION Spec
CONSTANTS
  NULL = NULL
  p = p
  q = q
  ps = ps
  pb = pb
  pc1 = pc1
  pm = pm
  qs = qs
  qb = qb
  f1 = f1
  f2 = f2
  f3 = f3
  Proc = {p, q}
  VPage = {ps, pb, qs, qb}
  Owner <- MCOwner
  Kind <- MCKind
  Frame = {f1, f2, f3}
  Slots = 3
  Short = {}
  Callers = {}
  Version = {0, 1}
  Exiting = {}
PROPERTY NotModifiedWhileEvicted
CHECK_DEADLOCK FALSE
SYMMETRY Frames

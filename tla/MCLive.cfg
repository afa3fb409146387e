SPECIFICATION MCSpec
CONSTANTS
  Proc = {p}
  VPage = {ps, pb, pm}
  Owner <- OwnerOf
  Kind <- KindOf
  Frame = {f1, f2}
  Slots = 2
  Short = {}
  Callers = {}
  Version = {0}
  Exiting = {p}
  NULL = NULL
  main = main
  page_a = page_a
  page_b = page_b
  p = p
  ps = ps
  pb = pb
  pm = pm
  t1 = t1
  t2 = t2
  s1 = s1
  v1 = v1
  NONE = NONE
 
PROPERTIES  FaultsServed 
CHECK_DEADLOCK FALSE

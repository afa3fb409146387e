SPECIFICATION MCSpec
CONSTANTS
  NONE = NONE
  Thread = {x1, x2, x3}
  FreePages = 5
  user_page_limit = 2
  MapPages <- MCMapPages
  MaxCnt = 2
  proc_p = proc_p
  proc_q = proc_q
  ps = ps
  pb = pb
  pm = pm
  qs = qs
  qb = qb
  x1 = x1
  x2 = x2
  x3 = x3
INVARIANTS  PagesOwned  LibraryExact
PROPERTIES PagingInvisible   TableExact
VIEW State
SYMMETRY Symmetric

SPECIFICATION Spec
CONSTANTS
  Main = main
  page_a = page_a
  page_b = page_b
  page_c = page_c
  Page = {main, page_a, page_b}
  NULL = NULL
  ExitCode = {5}
  MaxTid = 5
INVARIANT LocksReturned
CHECK_DEADLOCK FALSE

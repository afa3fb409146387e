\* Main and one worker, a device that interrupts, and the idle thread.
SPECIFICATION FairSpec
CONSTANTS
  Main = main
  Idle = idle
  w1 = w1
  w2 = w2
  w3 = w3
  c1 = c1
  l1 = l1
  l2 = l2
  d1 = d1
  Thread = {main, idle, w1}
  NULL = NULL
  TIME_SLICE = 2
  Lock = {l1, l2}
  tid_lock = l2
  Cond = {c1}
  LockOf <- MCLockOf
  Dev = {d1}
  Waited <- PlainSema
  MaxValue = 1
PROPERTIES ReadyRuns Boots ImplementsMutex

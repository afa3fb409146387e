\* Two workers and main contend for one lock and its condition variable.
SPECIFICATION Spec
CONSTANTS
  Main = main
  Idle = idle
  w1 = w1
  w2 = w2
  w3 = w3
  c1 = c1
  l1 = l1
  l2 = l2
  d1 = d1
  Thread = {main, idle, w1, w2}
  NULL = NULL
  TIME_SLICE = 1
  Lock = {l1, l2}
  tid_lock = l2
  Cond = {c1}
  LockOf <- MCLockOf
  Dev = {}
  Waited = {}
  MaxValue = 1
INVARIANTS TypeOK ElemOnOneList SchedulerConsistent MutualExclusion NoLostWakeup SignalNotLost TidsUnique
SYMMETRY Workers

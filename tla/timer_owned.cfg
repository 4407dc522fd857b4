SPECIFICATION Spec
CONSTANTS
  Workers = {w1, w2}
  Timers = {t1, t2, t3, t4}
  MaxNumber = 3
  Conditions <- MCConditions
  None = None
CHECK_DEADLOCK FALSE
INVARIANTS TimerOwned EntryKept
PROPERTIES Polled

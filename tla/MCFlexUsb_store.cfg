\* May the reader thread store into a freed buffer?
SPECIFICATION Spec
CONSTANTS
  t1 = t1
  t2 = t2
  c1 = c1
  c2 = c2
  Threads = {t1, t2}
  Callers = {c1, c2}
  MaxHeld = 2
  CreateFails = FALSE
  Free = Free
  App = App
INVARIANT StoreHasBuffer

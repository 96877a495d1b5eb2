SPECIFICATION FairSpec
CONSTANTS
  t1 = t1
  t2 = t2
  c1 = c1
  c2 = c2
  Threads = {t1, t2}
  Callers = {c1, c2}
  MaxHeld = 2
  CreateFails = TRUE
  Free = Free
  App = App
 
INVARIANT SessionIntact
INVARIANT NoStrandedCaller
PROPERTY CloseEndsReaders

SPECIFICATION FairSpec
CONSTANTS
  t1 = t1
  t2 = t2
  w1 = w1
  w2 = w2
  w3 = w3
  Task = {t1}
  Worker = {w1, w2, w3}
  NoTask = NoTask
  Handlers <- ApiOnly
  Priority <- EqualPriority
  MaxAttempts = 2
  LeaseTicks = 2
  RetryDelay = 1
  NoHandlerDelay = 1
  CheckSameThread = FALSE
  MaxFaults = 2
  MaxRetries = 1
INVARIANTS LeaseIffRunning ExclusiveUnlessDisturbed AttemptsAccounted SucceededWorked
PROPERTIES LifecycleSpec EventuallySettled
CHECK_DEADLOCK FALSE

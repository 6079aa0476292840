\* Three workers and a client; tasks commit tasks; the pool is destroyed at any moment.
SPECIFICATION FairSpec
CONSTANTS
  Workers = {w1, w2, w3}
  Clients = {c1}
  Tasks = {t1, t2, t3}
  NoTask = NoTask
  NoThread = NoThread
INVARIANTS EachTaskOnce NoLostWakeup AtMostOneMissesShutdown
PROPERTIES DestructorReturns TasksRun ImplementsPool
CHECK_DEADLOCK FALSE

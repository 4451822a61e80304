CONSTANTS
  t1 = t1
  t2 = t2
  Callers <- MCCallers
  Cancelable <- MCFirst
  Modes <- MCTasks
SPECIFICATION Spec
INVARIANTS OwnPage
CHECK_DEADLOCK FALSE

SPECIFICATION Spec
CONSTANTS
  Size = 4
  Pids = {1, 2, 3, 4, 5, 6}
  Free = Free
INVARIANTS PromisedStored Exact
PROPERTIES RemovedIsNotFound ImplementsSet

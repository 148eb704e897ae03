SPECIFICATION Spec
CONSTANTS
  Size = 4
  Pids = {1, 2, 5}
  Free = Free
INVARIANT AddedIsFound

SPECIFICATION SearchSpec
CONSTANTS
  Blocks = {0, 1, 2, 3, 5, 8}
  Sizes = {0, 1, 2, 3, 9}
INVARIANTS SearchedOnce
CHECK_DEADLOCK FALSE

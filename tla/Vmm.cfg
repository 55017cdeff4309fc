SPECIFICATION Spec
CONSTANTS
  Cores = {c0, c1}
  boot_core = c0
  N = 5
  Tables = {0, 1, 2}
  Ram = {5, 6, 7, 8, 9}
  Calls <- MCCalls
  NULL = NULL
INVARIANTS VmmInv Returns
PROPERTY ImplementsSpaces

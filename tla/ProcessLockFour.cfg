SPECIFICATION Spec
CONSTANTS
  a = a
  b = b
  c = c
  d = d
  Procs <- P4
  Before = old
  None = none
  HostOf <- OneHost
  MaxCrashes = 0
CHECK_DEADLOCK FALSE
INVARIANT Exclusion
SYMMETRY Perms

\* Two processes on one directory, with one port or two, that the operator
\* starts with different environments; two incidents, so that one can load
\* beside another, take over from it and be replaced in its turn.
SPECIFICATION Spec
CONSTANTS
  Processes = {p1, p2}
  Ids = {a}
  None = None
  Size <- MCSize
  Deployments <- MCDeployments
  U16 = 65536
  USIZE = 2147483647
  MaxTime = 1
  MaxIncidents = 2
INVARIANTS StartupTypeOK ServingKnows
PROPERTIES OnlyStaleRedates EventuallyServes

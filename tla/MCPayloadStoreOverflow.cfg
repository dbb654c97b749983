\* Two payloads that together overflow usize: the panic under the lock, the
\* poisoned mutex, refusals, and the end of every request under fair scheduling.
SPECIFICATION FairSpec
CONSTANTS
  small = small
  large = large
  None = None
  Torn = Torn
  Namespaces = {ns}
  Bodies = {small, large}
  SizeOf <- MCSizeOf
  ContentTypes = {}
  Contexts = {}
  Keys = {k1}
  Times <- MCOneTime
  Requests = {r1, r2, r3}
  Limits = {1, 2}
  USIZE_MAX = 2
  MaxCrashes = 1
INVARIANTS
  TypeOK
  OverflowEndsService
PROPERTIES
  PoisonIsFinal
  EveryRequestEnds

\* Two payloads and two limits over three requests and a change of the second:
\* one after the other, together, passing each other between date and lock,
\* resubmitted, upgraded, and found unlisted after a kill; refused starts.
SPECIFICATION ListedSpec
CONSTANTS
  small = small
  large = large
  None = None
  Torn = Torn
  Namespaces = {ns}
  Bodies = {small, large}
  SizeOf <- MCSizeOf
  ContentTypes = {}
  Contexts = {}
  Keys = {k1}
  Times <- MCTimes
  Requests = {r1, r2, r3}
  Limits = {1, 2}
  USIZE_MAX = 3
  MaxCrashes = 1
SYMMETRY Symmetry
INVARIANTS
  InventoryExact
  StaysLoadable
  LatestFirst
PROPERTIES
  ListsAsInventory

\* A server without a key, a record with a receipt of the former form.
SPECIFICATION Spec
CONSTANTS
  small = small
  large = large
  None = None
  Torn = Torn
  Namespaces = {ns}
  Bodies = {small}
  SizeOf <- MCSizeOf
  ContentTypes = {text}
  Contexts = {}
  Keys = {k1, k2}
  Times <- MCTimes
  Requests = {r1}
  Limits = {1}
  USIZE_MAX = 2
  MaxCrashes = 1
PROPERTY PostReturnsAnySignature

\* Three requests for one payload: races, resubmissions with another content
\* type or at another time, upgrades, key rotation, a crash.
SPECIFICATION Spec
CONSTANTS
  small = small
  large = large
  None = None
  Torn = Torn
  Namespaces = {ns}
  Bodies = {small}
  SizeOf <- MCSizeOf
  ContentTypes = {text}
  Contexts = {nonce}
  Keys = {k1, k2}
  Times <- MCTimes
  Requests = {r1, r2, r3}
  Limits = {1}
  USIZE_MAX = 2
  MaxCrashes = 1
SYMMETRY Symmetry
INVARIANTS
  CacheCoherent
  AcknowledgedIsStored
  ReceiptsAreAboutTheStore
  RawServesStoredBytes
  AnswersStayReadable
PROPERTIES
  SignatureNeverLost
  CreatedIsFirstAnswer
  SigningServerSigns
  ImplementsService

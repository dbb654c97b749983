\* A namespace with white space around it.
SPECIFICATION Spec
CONSTANTS
  small = small
  large = large
  huge = huge
  json2 = json2
  json3 = json3
  json4 = json4
  d1 = d1
  d2 = d2
  d3 = d3
  d4 = d4
  None = None
  Failure = Failure
  Malformed = Malformed
  EmptyBytes = EmptyBytes
  Texts <- MCTexts
  Blank = ""
  Trim <- MCTrim
  Lower <- MCLower
  Length <- MCLength
  Kinds <- MCKinds
  LowerFirst <- MCLowerFirst
  Hex32 = {"0xa", "0x0"}
  ZeroNonce = "0x0"
  Encode <- MCEncode
  Decode <- MCDecode
  Rank <- MCRank
  Documents = {d1, d2, d3, d4}
  CanonicalJson <- MCCanonicalJson
  DocumentSize <- MCDocumentSize
  Values = {"v", "w", "x"}
  LongValues = {"x"}
  JSON_CONTENT_TYPE = "application/json"
  BINARY_CONTENT_TYPE = "application/octet-stream"
  DEFAULT_NAMESPACE = "arkiv.entities"
  Namespaces <- MCNamespaces
  Bodies = {small, large, huge, json2, json3, json4}
  SizeOf <- MCSizeOf
  ContentTypes <- MCContentTypes
  Contexts <- MCContexts
  Keys = {k1}
  Times = {1}
  Submissions <- MCPaddedSubmissions
  Envelopes = {}
  BearerKeys = {}
  BearerBodies = {}
  Limits = {2, 6}
  Overhead = 4
  BODY_LIMIT = 10
  EarlierIds <- MCEarlierIds
  Inputs <- MCPaddedInputs
  MaxAnswers = 2
  MaxStarts = 2
INVARIANTS
  PredictedIdIsAssigned

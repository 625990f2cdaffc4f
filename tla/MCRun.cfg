SPECIFICATION RunSpec
CONSTANTS
  k1 = k1  v1 = v1  h1 = h1
  Missing = Missing
  Text = Text
  Enabled = {"http_get", "kv_get", "kv_put"}
  Hosts <- MCHosts
  AllowedHosts <- MCHosts
  Keys <- MCKeys
  Values <- MCValues
  ByteLen <- MCByteLen
  MaxKeys = 1
  MaxValueBytes = 1
  MaxSteps = 3
  MaxRequestBytes = 2
  RequestLens = {2, 3}
  ResponseLens = {1, 2}
  Inputs <- MCInputs
  Answers <- MCAnswers
  MaxCalls = 16
  Ids = {1, 2, 3, 4}
  RequestedSteps = {0, 2, 9}
  Directives <- MCDirectives
  MaxLines = 5
  MaxLineBytes = 1
  Messages = {}
INVARIANTS
  MockKeepsToTask
  LogTellsRun
  ConversationAnswered
  VerdictsPassedOn
  AuditTrailComplete
  UsageSummed
  StepsReported
  HostLimitNeverBinds
  AgentReadsOwnAnswer
PROPERTIES
  KeepsContract
  EventuallyReported
CHECK_DEADLOCK FALSE

SPECIFICATION HostSpec
CONSTANTS
  k1 = k1  k2 = k2  k3 = k3
  short = short  long = long
  h1 = h1  h2 = h2
  answer = answer
  Missing = Missing
  Text = Text
  Enabled = {"http_get", "kv_put"}
  Hosts <- MCHosts
  AllowedHosts <- MCAllowedHosts
  Keys <- MCKeys
  Values <- MCValues
  ByteLen <- MCByteLen
  MaxKeys = 1
  MaxValueBytes = 1
  MaxSteps = 1
  MaxRequestBytes = 1
  RequestLens = {1, 2}
  ResponseLens = {1, 2}
  Inputs <- MCInputs
  Answers <- MCAnswers
  MaxCalls = 2
INVARIANT
  PendingIsOfMostRecentCall

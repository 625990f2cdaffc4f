SPECIFICATION PartsSpec
CONSTANTS
  Policies <- MCPolicies
  Modules <- MCModules
  Chars <- MCChars
  Rules <- MCRules
  Hosts <- MCHosts
  Blocks <- MCBlocks
  MaxBlocks = 2
  MaxSteps = 3
  MaxLines = 1
  MaxLineBytes = 3
  Messages <- MCMessages
  Word = 6
  Initial = 4
  MaxMemory = 6
  Texts <- MCTexts
  CutLimits = {0, 1, 5, 8}
INVARIANTS
  ChecksHold
  EchoFaithful
  LogKeepsLimits
  AllowsByLabels
  CopiesStayInside
  OwnBuffersAccepted
  DeallocMatches
  KeepsWhatFits
CHECK_DEADLOCK FALSE

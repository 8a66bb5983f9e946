SPECIFICATION LiveSpec
CONSTANTS
  N = 1
  OutCap = 1
  InCap = 1
  MaxReq = 1
  MaxUnasked = 1
  PeerTags <- MCFewTags
PROPERTIES
  SilentPeerDropped
  RequestsAnswered
  TesterWindsDown

SPECIFICATION Spec
CONSTANTS
  N = 2
  OutCap = 2
  InCap = 3
  MaxReq = 1
  MaxUnasked = 0
  PeerTags = {"SubmitReq"}
PROPERTY
  AlarmMeansSilence

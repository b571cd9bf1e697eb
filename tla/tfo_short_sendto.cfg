\* A short TFO sendto: is the residual of remote->buf still delivered?
CONSTANTS
  BUF_SIZE = 8
  Data <- MC_Data
  UpData <- MC_UpData
  Dests <- MC_Dests
  AclDirect <- MC_AclDirect
  acl = FALSE
  udprelay = TRUE
  FastOpen = TRUE
  Fragment = FALSE
  ResolveMayFail = FALSE
  CipherMayFail = FALSE
SPECIFICATION Spec
INVARIANT UpstreamIsClientStream

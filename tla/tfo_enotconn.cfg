\* TFO unsupported (ENOTCONN): does the session fall back to connect()?
CONSTANTS
  BUF_SIZE = 8
  Data <- MC_Data
  UpData <- MC_UpData
  Dests <- MC_Dests
  AclDirect <- MC_AclDirect
  acl = FALSE
  udprelay = TRUE
  FastOpen = TRUE
  Fragment = FALSE
  ResolveMayFail = FALSE
  CipherMayFail = FALSE
SPECIFICATION Spec
PROPERTY FallbackKeepsSession

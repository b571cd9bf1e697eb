\* ACL-direct destination whose name does not resolve.
CONSTANTS
  BUF_SIZE = 8
  Data <- MC_Data
  UpData <- MC_UpData
  Dests <- MC_Dests
  AclDirect <- MC_AclDirect
  acl = TRUE
  udprelay = TRUE
  FastOpen = FALSE
  Fragment = FALSE
  ResolveMayFail = TRUE
  CipherMayFail = FALSE
SPECIFICATION Spec
INVARIANT NoNullDeref

\* The SOCKS5 request arrives split over several recv calls.
CONSTANTS
  BUF_SIZE = 8
  Data <- MC_Data
  UpData <- MC_UpData
  Dests <- MC_Dests
  AclDirect <- MC_AclDirect
  acl = TRUE
  udprelay = TRUE
  FastOpen = FALSE
  Fragment = TRUE
  ResolveMayFail = FALSE
  CipherMayFail = FALSE
SPECIFICATION Spec
INVARIANT BufferBounds

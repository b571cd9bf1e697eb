\* TCP Fast Open path: sendto(MSG_FASTOPEN) outcomes, ENOTCONN fallback;
\* checks what TFO leaves intact (the return path and the handshake).
CONSTANTS
  BUF_SIZE = 8
  Data <- MC_Data
  UpData <- MC_UpData
  Dests <- MC_Dests
  AclDirect <- MC_AclDirect
  acl = TRUE
  udprelay = TRUE
  FastOpen = TRUE
  Fragment = FALSE
  ResolveMayFail = TRUE
  CipherMayFail = TRUE
SPECIFICATION FairSpec
INVARIANT ClientStreamIntegrity
PROPERTY RefinesSocks5Session

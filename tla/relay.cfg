\* Plain TCP path (no fast open): handshake, ACL direct and relayed
\* sessions, every partial send and EAGAIN, cipher failures.
CONSTANTS
  BUF_SIZE = 8
  Data <- MC_Data
  UpData <- MC_UpData
  Dests <- MC_Dests
  AclDirect <- MC_AclDirect
  acl = TRUE
  udprelay = TRUE
  FastOpen = FALSE
  Fragment = FALSE
  ResolveMayFail = TRUE
  CipherMayFail = TRUE
SPECIFICATION FairSpec
INVARIANT TypeOK
INVARIANT UpstreamIsClientStream
INVARIANT ClientStreamIntegrity
INVARIANT ReaderArmedOnlyWhenFlushed
INVARIANT TimerGuard
PROPERTY EventuallyFlushed
PROPERTY RefinesSocks5Session

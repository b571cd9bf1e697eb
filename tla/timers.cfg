CONSTANTS
  T <- MC_T
  MaxRecvCalls <- MC_MaxRecvCalls
SPECIFICATION FairSpec
INVARIANT IdleBounded
PROPERTY ConnectedEventuallyFreed

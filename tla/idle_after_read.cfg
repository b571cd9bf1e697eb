CONSTANTS
  T <- MC_T
  MaxRecvCalls <- MC_MaxRecvCalls
SPECIFICATION Spec
INVARIANT IdleWithinT

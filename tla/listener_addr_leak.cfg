\* Sessions that send a CONNECT and are torn down.
CONSTANTS
  c1 = c1
  c2 = c2
  Ids <- MC_Ids
  MaxAccepts = 2
  FastOpen = FALSE
  FreedReads = {"intact"}
SPECIFICATION Spec
INVARIANT AddrHeaderNotLeaked

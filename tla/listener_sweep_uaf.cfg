\* The shutdown sweep with either outcome of reading a freed entries.next.
CONSTANTS
  c1 = c1
  c2 = c2
  Ids <- MC_Ids
  MaxAccepts = 2
  FastOpen = FALSE
  FreedReads = {"intact", "garbage"}
SPECIFICATION Spec
INVARIANT NoReadAfterFree

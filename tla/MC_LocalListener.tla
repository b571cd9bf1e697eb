-------------------------- MODULE MC_LocalListener --------------------------
EXTENDS LocalListener

CONSTANTS c1, c2

MC_Ids == {c1, c2}

=============================================================================

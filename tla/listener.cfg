\* main or start_ss_local_server over the command lines and profiles of
\* MC_LocalMain, then two server addresses reused over four accepts: every
\* session path, fast open (when configured) turned off by one session for
\* all, and the shutdown sweep in the build where a freed entries.next
\* still reads back its old link.  FastOpen is the flag of LocalListener's
\* own Init, which ProcessSpec replaces by main's.
CONSTANTS
  c1 = c1
  c2 = c2
  none = none
  Null <- none
  Ids <- MC_Ids
  Argvs <- MC_Argvs
  ConfFiles <- MC_ConfFiles
  Profiles <- MC_Profiles
  MaxAccepts = 4
  FastOpen = FALSE
  FreedReads = {"intact"}
SPECIFICATION ProcessFairSpec
INVARIANT RegistryIsLiveSet
INVARIANT NoWriteAfterFree
INVARIANT AllFreedAtExit
PROPERTY SweepTerminates
PROPERTY StartupKeepsPrecedence

\* Configuration 1 with all deadlines: does a Close always lead to completion?
CONSTANTS
  PR_ENABLED <- MC_PR_ENABLED
  PTDA <- MC_PTDA
  PtadC <- MC_PtadC
  MaxBuf <- MC_MaxBuf
  WriteLens <- MC_WriteLens
  Capacities <- MC_Capacities
  InitWindow <- MC_InitWindow
  MaxWindow <- MC_MaxWindowAll
  MaxBytes <- MC_MaxBytes
  MaxWrites <- MC_MaxWrites
  NoFrame = NoFrame
  Deadlines <- MC_AllDeadlines

SPECIFICATION FairSpec

PROPERTY CloseCompletes

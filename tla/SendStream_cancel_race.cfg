\* Configuration 1: what a Write woken by a cancel or a shutdown reports.
CONSTANTS
  PR_ENABLED <- MC_PR_ENABLED
  PTDA <- MC_PTDA
  PtadC <- MC_PtadC
  MaxBuf <- MC_MaxBuf
  WriteLens <- MC_WriteLens
  Capacities <- MC_Capacities
  InitWindow <- MC_InitWindow
  MaxWindow <- MC_MaxWindow
  MaxBytes <- MC_MaxBytes
  MaxWrites <- MC_MaxWrites
  NoFrame = NoFrame
  Deadlines <- MC_NoDeadline

SPECIFICATION Spec

PROPERTY WriteReportsOnlyFramed

\* PtadC = 0x80 without deadlines: is a closed stream whose lost frames are skipped still completed?
CONSTANTS
  PR_ENABLED = TRUE
  PTDA = 128
  PtadC = 128
  MaxBuf <- MC_MaxBuf
  WriteLens <- MC_WriteLens
  Capacities <- MC_Capacities
  InitWindow <- MC_InitWindow
  MaxWindow <- MC_MaxWindowAll
  MaxBytes <- MC_MaxBytes
  MaxWrites <- MC_MaxWrites
  NoFrame = NoFrame
  Deadlines <- MC_NoDeadline

SPECIFICATION FairSpec

PROPERTY CloseCompletes

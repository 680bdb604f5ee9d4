\* PtadC = 0x80: is every queued PR_ACK_NOTIFY eventually sent?
CONSTANTS
  PR_ENABLED = TRUE
  PTDA = 128
  PtadC = 128
  MaxBuf <- MC_MaxBuf
  WriteLens <- MC_WriteLens
  Capacities <- MC_Capacities
  InitWindow <- MC_InitWindow
  MaxWindow <- MC_MaxWindowAll
  MaxBytes <- MC_MaxBytes
  MaxWrites <- MC_MaxWrites
  NoFrame = NoFrame
  Deadlines <- MC_NoDeadline

SPECIFICATION FairSpec

PROPERTY NotifyDrained

\* pr_policy.go with PtadC = 0x80, without write deadlines: policy P draws and sometimes skips.
CONSTANTS
  PR_ENABLED = TRUE
  PTDA = 128
  PtadC = 128
  MaxBuf <- MC_MaxBuf
  WriteLens <- MC_WriteLens
  Capacities <- MC_Capacities
  InitWindow <- MC_InitWindow
  MaxWindow <- MC_MaxWindow
  MaxBytes <- MC_MaxBytes
  MaxWrites <- MC_MaxWrites
  NoFrame = NoFrame
  Deadlines <- MC_NoDeadline

SPECIFICATION Spec

INVARIANT ByteConservation
INVARIANT OutstandingMatchesInFlight
INVARIANT CompletionSound
PROPERTY ImplementsByteStreamSender

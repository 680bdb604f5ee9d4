\* PR_ENABLED = FALSE: the plain QUIC send stream implements ByteStreamSender
\* with nothing given up.
CONSTANTS
  PR_ENABLED = FALSE
  PTDA = 128
  PtadC = 0
  MaxBuf <- MC_MaxBuf
  WriteLens <- MC_WriteLens
  Capacities <- MC_Capacities
  InitWindow <- MC_InitWindow
  MaxWindow <- MC_MaxWindow
  MaxBytes <- MC_MaxBytes
  MaxWrites <- MC_MaxWrites
  NoFrame = NoFrame
  Deadlines <- MC_AllDeadlines

SPECIFICATION Spec

PROPERTY ImplementsByteStreamSender

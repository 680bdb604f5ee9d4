\* PR_ACK_NOTIFY round trip and length, and the split pieces of PR_STREAM.
CONSTANTS
  StreamIDs <- MC_StreamIDs
  Offsets <- MC_Offsets
  PtdaCs <- MC_PtdaCs
  PTDAs <- MC_PTDAs
  DataLens <- MC_DataLens
  Budgets <- MC_Budgets
  DataByte <- MC_DataByte
  NoFrame = NoFrame
SPECIFICATION Spec
INVARIANT PRAckNotifyRoundTrip
INVARIANT PRAckNotifyLengthMatchesEncoding
INVARIANT SplitPiecesPreserveStream
INVARIANT PRDatagramMaxDataLenFits

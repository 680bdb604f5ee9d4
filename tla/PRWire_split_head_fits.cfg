\* Expected violation: SplitHeadFits.
CONSTANTS
  StreamIDs <- MC_StreamIDs
  Offsets <- MC_Offsets
  PtdaCs <- MC_PtdaCs
  PTDAs <- MC_PTDAs
  DataLens <- MC_DataLens
  Budgets <- MC_Budgets
  DataByte <- MC_DataByte
  NoFrame = NoFrame
SPECIFICATION Spec
INVARIANT SplitHeadFits

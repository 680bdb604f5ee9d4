\* pr_policy.go configuration 1: PR on, policy P, PtadC = 0; deadlines set and reached by the timer (which covers a deadline set in the past),
\* under the fairness of the framer, the loss detector and the peer.
CONSTANTS
  PR_ENABLED <- MC_PR_ENABLED
  PTDA <- MC_PTDA
  PtadC <- MC_PtadC
  MaxBuf <- MC_MaxBuf
  WriteLens <- MC_WriteLens
  Capacities <- MC_Capacities
  InitWindow <- MC_InitWindow
  MaxWindow <- MC_MaxWindow
  MaxBytes <- MC_MaxBytes
  MaxWrites <- MC_MaxWrites
  NoFrame = NoFrame
  Deadlines <- MC_TimerDeadlines

SPECIFICATION FairSpec

INVARIANT TypeOK
INVARIANT ByteConservation
INVARIANT OutstandingMatchesInFlight
INVARIANT WriteAccounting
INVARIANT FlowControlRespected
INVARIANT FinIsFinal
INVARIANT FinalSizeRespected
INVARIANT CompletionSound
PROPERTY WriteReturns

--------------------------- MODULE MC_SendStream ---------------------------
(* Instance of SendStream for TLC: one stream, data in units where one     *)
(* unit is half of MaxPacketBufferSize.  A Write of 1 unit is buffered in  *)
(* nextFrame and returns at once, and a second one joins it (a nextFrame   *)
(* of 2 units, split when a packet or the window holds 1); a Write of 3    *)
(* units cannot be buffered and blocks until the framer has taken enough.  *)
(* The peer starts with a window of 1 unit and grants up to 3, so the      *)
(* stream is blocked by flow control before all data are sent.             *)
EXTENDS SendStream

\* The compiled-in PR configuration.
MC_PR_ENABLED == ShippedConfiguration.PR_ENABLED
MC_PTDA == ShippedConfiguration.PTDA
MC_PtadC == ShippedConfiguration.PtadC

MC_MaxBuf == 2
MC_WriteLens == {1, 3}
MC_Capacities == {1, 2}
MC_InitWindow == 1
MC_MaxWindow == 3
MC_MaxWindowAll == 4
MC_MaxBytes == 4
MC_MaxWrites == 2
MC_AllDeadlines == {"zero", "future", "past"}
MC_NoDeadline == {"zero"}
MC_TimerDeadlines == {"zero", "future"}
=============================================================================

-------------------------- MODULE ByteStreamSender --------------------------
(***************************************************************************)
(* What the send direction of a stream promises the connection, free of    *)
(* frames, queues, flow control and the writer goroutine (spec sections    *)
(* 4.3-4.5 and 6).  The stream sends a prefix of its byte stream that      *)
(* grows until the FIN fixes its final size or a reset stops it.  The      *)
(* peer acknowledges sent bytes and the FIN; under partial reliability     *)
(* the sender may instead give sent bytes or the FIN up (PR_ACK_NOTIFY),   *)
(* never after a reset, and a byte is never both acknowledged and given    *)
(* up.  Completion is reported once, only after a reset or when every      *)
(* sent byte and the FIN were acknowledged or given up.                    *)
(***************************************************************************)
EXTENDS Naturals

CONSTANTS
  PARTIAL,   \* partial reliability: the sender may give data up
  MaxLen     \* bound on the bytes sent

VARIABLES
  length,      \* bytes sent: the stream's prefix 0..length-1
  final,       \* the FIN was sent: length is the final size
  acked,       \* bytes the peer acknowledged
  finAcked,    \* the peer acknowledged the FIN
  skipped,     \* bytes given up
  finSkipped,  \* the FIN given up
  reset,       \* the stream was reset (RESET_STREAM)
  completed    \* completion was reported

vars == <<length, final, acked, finAcked, skipped, finSkipped, reset,
          completed>>

Sent == 0..(length - 1)

\* Every sent byte and the FIN are accounted for by the peer or given up.
Done == reset \/ /\ finAcked \/ finSkipped
                 /\ \A k \in Sent : k \in acked \union skipped

Init ==
  /\ length = 0 /\ final = FALSE
  /\ acked = {} /\ finAcked = FALSE
  /\ skipped = {} /\ finSkipped = FALSE
  /\ reset = FALSE /\ completed = FALSE

\* Send more bytes, the FIN, or both; nothing after the FIN or a reset.
Send ==
  /\ ~final /\ ~reset
  /\ length' \in length..MaxLen
  /\ final' \in BOOLEAN
  /\ <<length', final'>> # <<length, final>>
  /\ UNCHANGED <<acked, finAcked, skipped, finSkipped, reset, completed>>

\* The peer acknowledges, or the sender gives up, some sent bytes and
\* perhaps the FIN; completion may be reported once this makes it Done.
Settle ==
  /\ acked \subseteq acked' /\ acked' \subseteq Sent
  /\ skipped \subseteq skipped' /\ skipped' \subseteq Sent
  /\ acked' \intersect skipped' = {}
  /\ finAcked' \in {finAcked, final}
  /\ finSkipped' \in {finSkipped, final}
  /\ (skipped' # skipped \/ finSkipped' # finSkipped) => PARTIAL /\ ~reset
  /\ completed' \in {completed, completed \/ Done'}
  /\ vars' # vars
  /\ UNCHANGED <<length, final, reset>>

\* A reset ends the stream; completion is reported with it if not before.
Reset ==
  /\ ~reset
  /\ reset' = TRUE /\ completed' = TRUE
  /\ UNCHANGED <<length, final, acked, finAcked, skipped, finSkipped>>

Next == Send \/ Settle \/ Reset

Spec == Init /\ [][Next]_vars
=============================================================================

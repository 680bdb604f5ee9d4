----------------------------- MODULE SendStream -----------------------------
(***************************************************************************)
(* The send side of one QUIC stream with the partial-reliability (PR)      *)
(* extension: type sendStream of src/unnamed/part_000 (send_stream.go of   *)
(* the repository, lines 1-628) and the PR switches of src/pr_policy.go.   *)
(*                                                                         *)
(* Actors.  The writer (the application goroutine in Write), the           *)
(* application's control calls (Close, CancelWrite, SetWriteDeadline), the *)
(* packet assembler (popStreamFrame, for a stream in the framer's active   *)
(* set), the loss detector (the OnAcked / OnLost hooks of every frame it   *)
(* holds) and the connection (handleStopSendingFrame, closeForShutdown,    *)
(* updateSendWindow).  Every method body between Lock and Unlock is one    *)
(* step; the upward calls made right after Unlock (onHasStreamData,        *)
(* queueControlFrame, onStreamCompleted) are folded into that step, which  *)
(* the README argues is sound.  Write is a loop that waits on writeChan:   *)
(* each pass of the loop is one step.                                      *)
(*                                                                         *)
(* Data are abstracted to lengths: one unit of data is a run of bytes, and *)
(* a frame is [off, len, fin] over those units.                            *)
(***************************************************************************)
EXTENDS Integers, Sequences, FiniteSets, Bags, BagsExt

CONSTANTS
  PR_ENABLED,    \* pr_policy.go: PR_ENABLED
  PTDA,          \* pr_policy.go: PTDA, the policy bit stamped on PR frames
  PtadC,         \* pr_policy.go: PtadC, the policy parameter
  MaxBuf,        \* protocol.MaxPacketBufferSize, in data units
  WriteLens,     \* lengths of the slices the application passes to Write
  Capacities,    \* MaxDataLen of the budget popStreamFrame is called with
  InitWindow,    \* the stream's initial send window
  MaxWindow,     \* the largest MAX_STREAM_DATA offset the peer grants
  MaxBytes,      \* bound: data units ever accepted by Write
  MaxWrites,     \* bound: number of Write calls
  Deadlines,     \* deadlines SetWriteDeadline may set: "zero" (none),
                 \* "future" (a timer is armed) or "past" (already expired)
  NoFrame        \* model value: a nil *wire.StreamFrame / no RESET_STREAM

ASSUME /\ PR_ENABLED \in BOOLEAN
       /\ PTDA \in {128, 64, 32, 16}
       /\ PtadC \in Nat
       /\ MaxBuf \in Nat \ {0}
       /\ WriteLens \subseteq Nat \ {0}
       /\ Capacities \subseteq Nat \ {0}   \* the framer never asks for less
                                          \* than MinStreamFrameSize
       /\ InitWindow \in Nat /\ MaxWindow \in Nat
       /\ MaxBytes \in Nat /\ MaxWrites \in Nat
       /\ Deadlines \subseteq {"zero", "future", "past"}

\* pr_policy.go configuration 1, the one compiled in (configurations 2-4
\* are commented out): PR on, policy P with PTDA 0x80, PtadC 0.
ShippedConfiguration == [PR_ENABLED |-> TRUE, PTDA |-> 128, PtadC |-> 0]

VARIABLES
  \* fields of sendStream (part_000 lines 27-61)
  numOutstandingFrames,
  retransmissionQueue,
  prAckNotifyRetransmissionQueue,
  writeOffset,
  closedForShutdown,
  finishedWriting,
  canceledWrite,
  finSent,
  completed,
  cancelWriteErr,     \* the error Write reports after a cancel
  dataForWriting,     \* len(s.dataForWriting); 0 stands for nil
  nextFrame,          \* NoFrame or [off, len] of s.nextFrame
  writeChan,          \* a token is buffered in the capacity-1 writeChan
  deadline,           \* "zero", "future" or "past" relative to time.Now()
  \* the stream flow controller (internal/flowcontrol, outside src/)
  sendWindow, lastBlockedAt,
  \* the framer: the stream is in its active set (onHasStreamData)
  active,
  \* the loss detector: the bag of frames handed out and not yet acked or lost
  inflight,
  \* the goroutine inside Write: "idle" or "waiting" on writeChan, len(p),
  \* and whether the wait also selects on the deadline timer
  wpc, wlen, wTimer,
  \* history: Write calls, bytes reported written, the last Write result,
  \* data units and FIN the peer has acknowledged, onStreamCompleted calls,
  \* and the final size of the RESET_STREAM frame queued by a cancel
  writeCalls, reported, lastResult, ackedBytes, finAcked,
  completedReports, resetFinalSize

streamVars == <<numOutstandingFrames, retransmissionQueue,
                prAckNotifyRetransmissionQueue, writeOffset, closedForShutdown,
                finishedWriting, canceledWrite, finSent, completed,
                cancelWriteErr, dataForWriting, nextFrame, writeChan,
                deadline>>
envVars == <<sendWindow, lastBlockedAt, active, inflight>>
writerVars == <<wpc, wlen, wTimer>>
histVars == <<writeCalls, reported, lastResult, ackedBytes, finAcked,
              completedReports, resetFinalSize>>
vars == <<streamVars, envVars, writerVars, histVars>>

Frame == [off : 0..MaxBytes, len : 0..MaxBytes, fin : BOOLEAN]
Errors == {"nil", "closed", "CancelWrite", "StopSending", "shutdown",
           "deadline"}

MinOf(a, b) == IF a < b THEN a ELSE b
MaxOf(a, b) == IF a > b THEN a ELSE b
SeqElems(s) == {s[i] : i \in DOMAIN s}
NextLen == IF nextFrame = NoFrame THEN 0 ELSE nextFrame.len

-----------------------------------------------------------------------------
(* Helpers of sendStream and of its flow controller.                       *)

\* canBufferStreamFrame: the pending data fit in one nextFrame.
canBufferStreamFrame(nf, dfw) ==
  (IF nf = NoFrame THEN 0 ELSE nf.len) + dfw <= MaxBuf

\* SendWindowSize of the stream flow controller.
SendWindowSize == MaxOf(sendWindow - writeOffset, 0)

\* Mutants of isNewlyCompleted: the retransmission queue or the
\* outstanding count left out of the test.
isNewlyCompleted_IgnoresQueue(nout, rq, canceled) ==
  (finSent \/ canceled) /\ nout = 0 /\ ~completed
isNewlyCompleted_NoOutstandingCheck(nout, rq, canceled) ==
  (finSent \/ canceled) /\ rq = <<>> /\ ~completed

\* isNewlyCompleted, evaluated with the outstanding count and retransmission
\* queue the caller is about to store.
isNewlyCompleted(nout, rq, canceled) ==
  (finSent \/ canceled) /\ nout = 0 /\ rq = <<>> /\ ~completed

\* Store the completion flag; onStreamCompleted is called when newly set.
ReportCompletion(newly) ==
  /\ completed' = (completed \/ newly)
  /\ completedReports' = completedReports + (IF newly THEN 1 ELSE 0)

-----------------------------------------------------------------------------
(* Write(p).  Return records the call's result.                            *)

Return(call, n, err) ==
  /\ wpc' = "idle"
  /\ reported' = reported + n
  /\ lastResult' = [call |-> call, n |-> n, err |-> err]
  /\ UNCHANGED <<wlen, wTimer>>

\* The error Write returns after its loop when not all of p was taken.
LoopExitError(n, p) ==
  IF n = p THEN "nil"
  ELSE IF closedForShutdown THEN "shutdown"
  ELSE IF canceledWrite THEN cancelWriteErr
  ELSE "nil"

\* Mutant: the deadline return keeps dataForWriting for the framer.
WriteDeadlineReturn_KeepsData(call, p, dfw) ==
  /\ deadline = "past"
  /\ UNCHANGED <<dataForWriting, active>>
  /\ Return(call, p - dfw, "deadline")

\* The deadline has passed: drop what is left of p and return the count
\* taken so far with errDeadline.
WriteDeadlineReturn(call, p, dfw) ==
  /\ deadline = "past"
  /\ dataForWriting' = 0
  /\ UNCHANGED active
  /\ Return(call, p - dfw, "deadline")

\* One pass of the loop in Write with len(p) = p and len(dataForWriting) = dfw,
\* under the mutex.  first: the pass that calls onHasStreamData.
WriteLoopBody(p, dfw, first) ==
  LET call == IF first THEN writeCalls + 1 ELSE writeCalls IN
  \/ /\ canBufferStreamFrame(nextFrame, dfw) /\ dfw > 0
     \* copy the rest of p into nextFrame, notify and return
     /\ nextFrame' = IF nextFrame = NoFrame
                       THEN [off |-> writeOffset, len |-> dfw]
                       ELSE [nextFrame EXCEPT !.len = @ + dfw]
     /\ dataForWriting' = 0
     /\ active' = (active \/ first)
     /\ Return(call, p, "nil")
  \/ /\ ~(canBufferStreamFrame(nextFrame, dfw) /\ dfw > 0)
     /\ UNCHANGED nextFrame
     /\ \/ WriteDeadlineReturn(call, p, dfw)
        \/ /\ deadline # "past"
           /\ dfw = 0 \/ canceledWrite \/ closedForShutdown
           /\ dataForWriting' = dfw
           /\ UNCHANGED active
           /\ Return(call, p - dfw, LoopExitError(p - dfw, p))
        \/ /\ deadline # "past"
           /\ ~(dfw = 0 \/ canceledWrite \/ closedForShutdown)
           /\ dataForWriting' = dfw
           /\ active' = (active \/ first)
           /\ wpc' = "waiting" /\ wlen' = p /\ wTimer' = (deadline = "future")
           /\ UNCHANGED <<reported, lastResult>>

\* Write(p) entered by an idle writer: the entry checks and the first pass.
Write(p) ==
  /\ wpc = "idle"
  /\ writeCalls < MaxWrites /\ reported + p <= MaxBytes
  /\ writeCalls' = writeCalls + 1
  /\ CASE finishedWriting      -> Return(writeCalls + 1, 0, "closed")
                                  /\ UNCHANGED <<dataForWriting, nextFrame, active>>
       [] canceledWrite        -> Return(writeCalls + 1, 0, cancelWriteErr)
                                  /\ UNCHANGED <<dataForWriting, nextFrame, active>>
       [] closedForShutdown    -> Return(writeCalls + 1, 0, "shutdown")
                                  /\ UNCHANGED <<dataForWriting, nextFrame, active>>
       [] deadline = "past"    -> Return(writeCalls + 1, 0, "deadline")
                                  /\ UNCHANGED <<dataForWriting, nextFrame, active>>
       [] OTHER                -> WriteLoopBody(p, p, TRUE)
  /\ UNCHANGED <<numOutstandingFrames, retransmissionQueue,
                 prAckNotifyRetransmissionQueue, writeOffset, closedForShutdown,
                 finishedWriting, canceledWrite, cancelWriteErr, finSent, completed, writeChan,
                 deadline, sendWindow, lastBlockedAt, inflight, ackedBytes,
                 finAcked, completedReports, resetFinalSize>>

\* The blocked writer wakes on writeChan or on the deadline timer, relocks
\* and runs the next pass of the loop.
WriteWake ==
  /\ wpc = "waiting"
  /\ \/ /\ writeChan
        /\ writeChan' = FALSE
     \/ /\ wTimer /\ deadline = "past"
        /\ UNCHANGED writeChan
  /\ WriteLoopBody(wlen, dataForWriting, FALSE)
  /\ UNCHANGED <<numOutstandingFrames, retransmissionQueue,
                 prAckNotifyRetransmissionQueue, writeOffset, closedForShutdown,
                 finishedWriting, canceledWrite, cancelWriteErr, finSent, completed, deadline,
                 sendWindow, lastBlockedAt, inflight, writeCalls, ackedBytes,
                 finAcked, completedReports, resetFinalSize>>

-----------------------------------------------------------------------------
(* popStreamFrame(maxBytes): popNewOrRetransmittedStreamFrame under the    *)
(* mutex, then numOutstandingFrames++ for a frame.  c is the MaxDataLen of *)
(* the budget (maxBytes less 1 + 8 bytes of PR fields when PR_ENABLED).    *)
(* The framer keeps the stream active iff hasMoreData is returned.         *)

\* Hand frame f to the loss detector.
Emit(f) ==
  /\ inflight' = BagAdd(inflight, f)
  /\ numOutstandingFrames' = numOutstandingFrames + 1

\* Mutant: FIN set without checking that dataForWriting is used up.
EmitNew_FinIgnoresData(off, len, dfw, nf, hasMore) ==
  LET fin == finishedWriting /\ nf = NoFrame /\ ~finSent
  IN  /\ Emit([off |-> off, len |-> len, fin |-> fin])
      /\ writeOffset' = writeOffset + len
      /\ finSent' = (finSent \/ fin)
      /\ dataForWriting' = dfw
      /\ nextFrame' = nf
      /\ active' = hasMore

\* A newly originated frame [off, len] leaving dfw and nf behind: advance
\* writeOffset (and the flow controller's bytes sent) and set FIN iff the
\* stream is finished and nothing is left to frame.
EmitNew(off, len, dfw, nf, hasMore) ==
  LET fin == finishedWriting /\ dfw = 0 /\ nf = NoFrame /\ ~finSent
  IN  /\ Emit([off |-> off, len |-> len, fin |-> fin])
      /\ writeOffset' = writeOffset + len
      /\ finSent' = (finSent \/ fin)
      /\ dataForWriting' = dfw
      /\ nextFrame' = nf
      /\ active' = hasMore

\* The stream was canceled or shut down: (nil, false).
popCanceled ==
  /\ canceledWrite \/ closedForShutdown
  /\ active' = FALSE
  /\ UNCHANGED <<numOutstandingFrames, retransmissionQueue, writeOffset,
                 finSent, dataForWriting, nextFrame, writeChan, inflight,
                 lastBlockedAt>>

\* maybeGetRetransmission: the head of the queue, split by MaybeSplitOffFrame
\* when it does not fit; the tail keeps the FIN and stays at the head.
maybeGetRetransmission(c) ==
  LET h == Head(retransmissionQueue)
  IN  /\ retransmissionQueue # <<>>
      /\ IF h.len <= c
           THEN /\ Emit(h)
                /\ retransmissionQueue' = Tail(retransmissionQueue)
           ELSE /\ Emit([off |-> h.off, len |-> c, fin |-> FALSE])
                /\ retransmissionQueue' =
                     <<[h EXCEPT !.off = h.off + c, !.len = h.len - c]>>
                       \o Tail(retransmissionQueue)
      /\ active' = TRUE
      /\ UNCHANGED <<writeOffset, finSent, dataForWriting, nextFrame,
                     writeChan, lastBlockedAt>>

\* Nothing buffered: a FIN-only frame at writeOffset once Close was called,
\* else (nil, false).
popFinOrNothing ==
  /\ dataForWriting = 0 /\ nextFrame = NoFrame
  /\ IF finishedWriting /\ ~finSent
       THEN /\ Emit([off |-> writeOffset, len |-> 0, fin |-> TRUE])
            /\ finSent' = TRUE
       ELSE UNCHANGED <<numOutstandingFrames, inflight, finSent>>
  /\ active' = FALSE
  /\ UNCHANGED <<retransmissionQueue, writeOffset, dataForWriting, nextFrame,
                 writeChan, lastBlockedAt>>

\* The send window is exhausted: queue STREAM_DATA_BLOCKED when newly
\* blocked (IsNewlyBlocked) and return (nil, false), else (nil, true).
popBlocked ==
  /\ dataForWriting > 0 \/ nextFrame # NoFrame
  /\ SendWindowSize = 0
  /\ IF sendWindow # lastBlockedAt
       THEN lastBlockedAt' = sendWindow /\ active' = FALSE
       ELSE UNCHANGED <<lastBlockedAt, active>>
  /\ UNCHANGED <<numOutstandingFrames, retransmissionQueue, writeOffset,
                 finSent, dataForWriting, nextFrame, writeChan, inflight>>

\* Mutant: the tail nextFrame of a split starts at the old writeOffset.
popNextFrame_TailAtOffset(c) ==
  LET nf == nextFrame
      maxDataLen == MinOf(SendWindowSize, c)
  IN  /\ nf # NoFrame /\ SendWindowSize > 0
      /\ IF nf.len > maxDataLen
           THEN /\ EmitNew(nf.off, maxDataLen, dataForWriting,
                           [off |-> writeOffset, len |-> nf.len - maxDataLen],
                           TRUE)
                /\ UNCHANGED writeChan
           ELSE /\ EmitNew(nf.off, nf.len, dataForWriting, NoFrame,
                           dataForWriting > 0)
                /\ writeChan' = TRUE
      /\ UNCHANGED <<retransmissionQueue, lastBlockedAt>>

\* popNewStreamFrame with a nextFrame: send it whole and signal the writer,
\* or split it, keeping a fresh tail nextFrame at writeOffset + maxDataLen.
popNextFrame(c) ==
  LET nf == nextFrame
      maxDataLen == MinOf(SendWindowSize, c)
  IN  /\ nf # NoFrame /\ SendWindowSize > 0
      /\ IF nf.len > maxDataLen
           THEN /\ EmitNew(nf.off, maxDataLen, dataForWriting,
                           [off |-> writeOffset + maxDataLen,
                            len |-> nf.len - maxDataLen], TRUE)
                /\ UNCHANGED writeChan
           ELSE /\ EmitNew(nf.off, nf.len, dataForWriting, NoFrame,
                           dataForWriting > 0)
                /\ writeChan' = TRUE
      /\ UNCHANGED <<retransmissionQueue, lastBlockedAt>>

\* getDataForWriting: take up to maxBytes of dataForWriting, signalling the
\* writer when it is used up or small enough to be buffered.
getDataForWriting(maxBytes) ==
  IF dataForWriting <= maxBytes
    THEN [take |-> dataForWriting, rest |-> 0, signal |-> TRUE]
    ELSE [take |-> maxBytes, rest |-> dataForWriting - maxBytes,
          signal |-> canBufferStreamFrame(NoFrame, dataForWriting - maxBytes)]

\* Mutant: the frame is sized by the packet alone, not by the send window.
popNewStreamFrameWithoutBuffer_NoWindow(c) ==
  LET r == getDataForWriting(c)
  IN  /\ nextFrame = NoFrame /\ dataForWriting > 0 /\ SendWindowSize > 0
      /\ EmitNew(writeOffset, r.take, r.rest, NoFrame,
                 r.rest > 0 \/ finishedWriting)
      /\ writeChan' = (writeChan \/ r.signal)
      /\ UNCHANGED <<retransmissionQueue, lastBlockedAt>>

\* popNewStreamFrame without a nextFrame (popNewStreamFrameWithoutBuffer):
\* a fresh frame at writeOffset filled from dataForWriting.
popNewStreamFrameWithoutBuffer(c) ==
  LET r == getDataForWriting(MinOf(c, SendWindowSize))
  IN  /\ nextFrame = NoFrame /\ dataForWriting > 0 /\ SendWindowSize > 0
      /\ EmitNew(writeOffset, r.take, r.rest, NoFrame,
                 r.rest > 0 \/ finishedWriting)
      /\ writeChan' = (writeChan \/ r.signal)
      /\ UNCHANGED <<retransmissionQueue, lastBlockedAt>>

\* Mutant: no early return for a canceled or shut-down stream.
popStreamFrame_NoCancelGuard(c) ==
  /\ active
  /\ \/ maybeGetRetransmission(c)
     \/ /\ retransmissionQueue = <<>>
        /\ \/ popFinOrNothing
           \/ popBlocked
           \/ popNextFrame(c)
           \/ popNewStreamFrameWithoutBuffer(c)
  /\ UNCHANGED <<prAckNotifyRetransmissionQueue, closedForShutdown,
                 finishedWriting, canceledWrite, cancelWriteErr, completed,
                 deadline, sendWindow, writerVars, histVars>>

popStreamFrame(c) ==
  /\ active
  /\ \/ popCanceled
     \/ /\ ~(canceledWrite \/ closedForShutdown)
        /\ \/ maybeGetRetransmission(c)
           \/ /\ retransmissionQueue = <<>>
              /\ \/ popFinOrNothing
                 \/ popBlocked
                 \/ popNextFrame(c)
                 \/ popNewStreamFrameWithoutBuffer(c)
  /\ UNCHANGED <<prAckNotifyRetransmissionQueue, closedForShutdown,
                 finishedWriting, canceledWrite, cancelWriteErr, completed, deadline,
                 sendWindow, writerVars, histVars>>

-----------------------------------------------------------------------------
(* The hooks the loss detector runs for a frame it declared acked or lost. *)

\* Mutant: the ack of a canceled stream still decrements the count.
frameAcked_NoCancelGuard(f) ==
  /\ inflight' = BagRemove(inflight, f)
  /\ ackedBytes' = ackedBytes \cup f.off..(f.off + f.len - 1)
  /\ finAcked' = (finAcked \/ f.fin)
  /\ numOutstandingFrames' = numOutstandingFrames - 1
  /\ ReportCompletion(isNewlyCompleted(numOutstandingFrames - 1,
                                       retransmissionQueue, canceledWrite))
  /\ UNCHANGED <<retransmissionQueue, prAckNotifyRetransmissionQueue, active>>

\* frameAcked: drop acks of a canceled stream, else count the frame done and
\* report completion.  The peer's receipt is recorded in the history.
frameAcked(f) ==
  /\ inflight' = BagRemove(inflight, f)
  /\ ackedBytes' = ackedBytes \cup f.off..(f.off + f.len - 1)
  /\ finAcked' = (finAcked \/ f.fin)
  /\ IF canceledWrite
       THEN UNCHANGED <<numOutstandingFrames, completed, completedReports>>
       ELSE /\ numOutstandingFrames' = numOutstandingFrames - 1
            /\ ReportCompletion(isNewlyCompleted(numOutstandingFrames - 1,
                                                 retransmissionQueue, FALSE))
  /\ UNCHANGED <<retransmissionQueue, prAckNotifyRetransmissionQueue, active>>

\* prStreamframeAcked: the PR_STREAM frame's hook, the same as frameAcked.
prStreamframeAcked(f) == frameAcked(f)

\* Mutant: the lost frame is queued but still counted as outstanding.
queueRetransmission_NoDecrement(f) ==
  IF canceledWrite
    THEN UNCHANGED <<retransmissionQueue, numOutstandingFrames, active>>
    ELSE /\ retransmissionQueue' = Append(retransmissionQueue, f)
         /\ UNCHANGED numOutstandingFrames
         /\ active' = TRUE

\* Mutant: the lost frame is queued without notifying the framer.
queueRetransmission_NoNotify(f) ==
  IF canceledWrite
    THEN UNCHANGED <<retransmissionQueue, numOutstandingFrames, active>>
    ELSE /\ retransmissionQueue' = Append(retransmissionQueue, f)
         /\ numOutstandingFrames' = numOutstandingFrames - 1
         /\ UNCHANGED active

\* queueRetransmission: append the lost frame and notify the framer.
queueRetransmission(f) ==
  IF canceledWrite
    THEN UNCHANGED <<retransmissionQueue, numOutstandingFrames, active>>
    ELSE /\ retransmissionQueue' = Append(retransmissionQueue, f)
         /\ numOutstandingFrames' = numOutstandingFrames - 1
         /\ active' = TRUE

\* Mutants of prAckNotifyQueueRetransmission: the count is not decremented,
\* or the notification is counted done but never queued.
prAckNotifyQueueRetransmission_NoDecrement(f) ==
  IF canceledWrite
    THEN UNCHANGED <<prAckNotifyRetransmissionQueue, numOutstandingFrames,
                     active>>
    ELSE /\ prAckNotifyRetransmissionQueue' =
              Append(prAckNotifyRetransmissionQueue, f)
         /\ UNCHANGED numOutstandingFrames
         /\ active' = TRUE
prAckNotifyQueueRetransmission_NoAppend(f) ==
  IF canceledWrite
    THEN UNCHANGED <<prAckNotifyRetransmissionQueue, numOutstandingFrames,
                     active>>
    ELSE /\ UNCHANGED prAckNotifyRetransmissionQueue
         /\ numOutstandingFrames' = numOutstandingFrames - 1
         /\ active' = TRUE

\* Mutant: a loss reported after a cancel still queues a PR_ACK_NOTIFY.
prAckNotifyQueueRetransmission_NoCancelGuard(f) ==
  /\ prAckNotifyRetransmissionQueue' = Append(prAckNotifyRetransmissionQueue, f)
  /\ numOutstandingFrames' = numOutstandingFrames - 1
  /\ active' = TRUE

\* prAckNotifyQueueRetransmission: queue a PR_ACK_NOTIFY for the lost range.
prAckNotifyQueueRetransmission(f) ==
  IF canceledWrite
    THEN UNCHANGED <<prAckNotifyRetransmissionQueue, numOutstandingFrames,
                     active>>
    ELSE /\ prAckNotifyRetransmissionQueue' =
              Append(prAckNotifyRetransmissionQueue, f)
         /\ numOutstandingFrames' = numOutstandingFrames - 1
         /\ active' = TRUE

\* rand.Intn(10000) is abstracted to its two extreme draws: the test
\* pC > r is monotone in r, so they give every outcome the draw can give.
RandDraws == {0, 9999}

\* prQueueRetransmission: the policy switch is on the frame's PtdaC (the
\* value stamped from PtadC), and only its 0x80 case draws; PR skips the
\* retransmission iff ptdaC > r.
prQueueRetransmission(f) ==
  \E r \in RandDraws :
    LET pr_retran_enabled == PtadC = 128 /\ PtadC > r
    IN  IF pr_retran_enabled
          THEN /\ prAckNotifyQueueRetransmission(f)
               /\ UNCHANGED retransmissionQueue
          ELSE /\ queueRetransmission(f)
               /\ UNCHANGED prAckNotifyRetransmissionQueue

\* The loss detector settles one frame it holds; popStreamFrame attached the
\* PR hooks iff PR_ENABLED.
OnAcked(f) ==
  /\ BagIn(f, inflight)
  /\ IF PR_ENABLED THEN prStreamframeAcked(f) ELSE frameAcked(f)
  /\ UNCHANGED <<writeOffset, closedForShutdown, finishedWriting,
                 canceledWrite, cancelWriteErr, finSent, dataForWriting, nextFrame, writeChan,
                 deadline, sendWindow, lastBlockedAt, writerVars, writeCalls,
                 reported, lastResult, resetFinalSize>>

OnLost(f) ==
  /\ BagIn(f, inflight)
  /\ inflight' = BagRemove(inflight, f)
  /\ IF PR_ENABLED
       THEN prQueueRetransmission(f)
       ELSE /\ queueRetransmission(f)
            /\ UNCHANGED prAckNotifyRetransmissionQueue
  /\ UNCHANGED <<writeOffset, closedForShutdown, finishedWriting,
                 canceledWrite, cancelWriteErr, finSent, completed, dataForWriting, nextFrame,
                 writeChan, deadline, sendWindow, lastBlockedAt, writerVars,
                 histVars>>

-----------------------------------------------------------------------------
(* Control operations of the application and of the connection.            *)

\* Mutant: Close does not call onHasStreamData.
Close_NoNotify ==
  /\ ~closedForShutdown /\ ~canceledWrite
  /\ finishedWriting' = TRUE
  /\ UNCHANGED <<numOutstandingFrames, retransmissionQueue,
                 prAckNotifyRetransmissionQueue, writeOffset,
                 closedForShutdown, canceledWrite, cancelWriteErr, finSent,
                 completed, dataForWriting, nextFrame, writeChan, deadline,
                 sendWindow, lastBlockedAt, active, inflight, writerVars,
                 histVars>>

\* Close: refused (state unchanged) after closeForShutdown or a cancel;
\* those early returns are stuttering steps and are left out.
Close ==
  /\ ~closedForShutdown /\ ~canceledWrite
  /\ finishedWriting' = TRUE
  /\ active' = TRUE
  /\ UNCHANGED <<numOutstandingFrames, retransmissionQueue,
                 prAckNotifyRetransmissionQueue, writeOffset,
                 closedForShutdown, canceledWrite, cancelWriteErr, finSent, completed,
                 dataForWriting, nextFrame, writeChan, deadline, sendWindow,
                 lastBlockedAt, inflight, writerVars, histVars>>

\* Mutant: cancelWriteImpl does not signal the blocked writer.
cancelWriteImpl_NoSignal(err) ==
  /\ ~canceledWrite
  /\ canceledWrite' = TRUE
  /\ cancelWriteErr' = err
  /\ numOutstandingFrames' = 0
  /\ retransmissionQueue' = <<>>
  /\ ReportCompletion(isNewlyCompleted(0, <<>>, TRUE))
  /\ resetFinalSize' = writeOffset
  /\ UNCHANGED <<prAckNotifyRetransmissionQueue, writeOffset,
                 closedForShutdown, finishedWriting, finSent, dataForWriting,
                 nextFrame, writeChan, deadline, sendWindow, lastBlockedAt,
                 active, inflight, writerVars, writeCalls, reported,
                 lastResult, ackedBytes, finAcked>>

\* cancelWriteImpl: a second cancel returns at once (a stuttering step).
\* It zeroes the outstanding count, drops the retransmission queue (not the
\* PR_ACK_NOTIFY queue), wakes the writer, queues RESET_STREAM with
\* FinalSize = writeOffset and reports completion if now complete.
cancelWriteImpl(err) ==
  /\ ~canceledWrite
  /\ canceledWrite' = TRUE
  /\ cancelWriteErr' = err
  /\ numOutstandingFrames' = 0
  /\ retransmissionQueue' = <<>>
  /\ ReportCompletion(isNewlyCompleted(0, <<>>, TRUE))
  /\ writeChan' = TRUE
  /\ resetFinalSize' = writeOffset
  /\ UNCHANGED <<prAckNotifyRetransmissionQueue, writeOffset,
                 closedForShutdown, finishedWriting, finSent, dataForWriting,
                 nextFrame, deadline, sendWindow, lastBlockedAt, active,
                 inflight, writerVars, writeCalls, reported, lastResult,
                 ackedBytes, finAcked>>

\* CancelWrite (application) and handleStopSendingFrame (peer STOP_SENDING)
\* differ only in the error value Write reports.
CancelWrite == cancelWriteImpl("CancelWrite")
handleStopSendingFrame == cancelWriteImpl("StopSending")

\* closeForShutdown: abrupt local close; wakes the writer, tells no peer.
closeForShutdown ==
  /\ closedForShutdown' = TRUE
  /\ writeChan' = TRUE
  /\ UNCHANGED <<numOutstandingFrames, retransmissionQueue,
                 prAckNotifyRetransmissionQueue, writeOffset, finishedWriting,
                 canceledWrite, cancelWriteErr, finSent, completed, dataForWriting, nextFrame,
                 deadline, envVars, writerVars, histVars>>

\* updateSendWindow: raise the flow-control limit (never lowered) and notify
\* the framer if data are waiting for it.
updateSendWindow(limit) ==
  /\ sendWindow' = MaxOf(sendWindow, limit)
  /\ active' = (active \/ dataForWriting > 0 \/ nextFrame # NoFrame)
  /\ UNCHANGED <<streamVars, lastBlockedAt, inflight, writerVars, histVars>>

\* SetWriteDeadline: store the deadline and wake the writer to re-arm.
SetWriteDeadline(t) ==
  /\ deadline' = t
  /\ writeChan' = TRUE
  /\ UNCHANGED <<numOutstandingFrames, retransmissionQueue,
                 prAckNotifyRetransmissionQueue, writeOffset,
                 closedForShutdown, finishedWriting, canceledWrite, cancelWriteErr, finSent,
                 completed, dataForWriting, nextFrame, envVars, writerVars,
                 histVars>>

\* Time passes a set deadline (time.Now() is no longer Before it).
Tick ==
  /\ deadline = "future"
  /\ deadline' = "past"
  /\ UNCHANGED <<numOutstandingFrames, retransmissionQueue,
                 prAckNotifyRetransmissionQueue, writeOffset,
                 closedForShutdown, finishedWriting, canceledWrite, cancelWriteErr, finSent,
                 completed, dataForWriting, nextFrame, writeChan, envVars,
                 writerVars, histVars>>

-----------------------------------------------------------------------------
Init ==
  /\ numOutstandingFrames = 0
  /\ retransmissionQueue = <<>>
  /\ prAckNotifyRetransmissionQueue = <<>>
  /\ writeOffset = 0
  /\ closedForShutdown = FALSE /\ finishedWriting = FALSE
  /\ canceledWrite = FALSE /\ finSent = FALSE /\ completed = FALSE
  /\ cancelWriteErr = "nil"
  /\ dataForWriting = 0 /\ nextFrame = NoFrame
  /\ writeChan = FALSE /\ deadline = "zero"
  /\ sendWindow = InitWindow /\ lastBlockedAt = 0
  /\ active = FALSE
  /\ inflight = EmptyBag
  /\ wpc = "idle" /\ wlen = 0 /\ wTimer = FALSE
  /\ writeCalls = 0 /\ reported = 0
  /\ lastResult = [call |-> 0, n |-> 0, err |-> "nil"]
  /\ ackedBytes = {} /\ finAcked = FALSE
  /\ completedReports = 0 /\ resetFinalSize = NoFrame

Next ==
  \/ \E p \in WriteLens : Write(p)
  \/ WriteWake
  \/ \E c \in Capacities : popStreamFrame(c)
  \/ \E f \in BagToSet(inflight) : OnAcked(f)
  \/ \E f \in BagToSet(inflight) : OnLost(f)
  \/ Close
  \/ CancelWrite
  \/ handleStopSendingFrame
  \/ closeForShutdown
  \/ \E l \in 1..MaxWindow : updateSendWindow(l)
  \/ \E t \in Deadlines : SetWriteDeadline(t)
  \/ Tick

Spec == Init /\ [][Next]_vars

-----------------------------------------------------------------------------
(* Fairness.  The framer keeps popping an active stream; the loss detector *)
(* keeps settling the frames it holds and, as the network is not lossy     *)
(* forever, keeps acking some of them (acks retire data for good, so this  *)
(* reaches every frame); the blocked writer runs once woken;              *)
(* time passes a deadline; the peer keeps granting flow-control     *)
(* credit up to MaxWindow.                                                 *)

Fairness ==
  /\ WF_vars(\E c \in Capacities : popStreamFrame(c))
  /\ WF_vars(WriteWake)
  /\ WF_vars(Tick)
  /\ WF_vars(\E l \in (sendWindow + 1)..MaxWindow : updateSendWindow(l))
  /\ WF_vars(\E f \in BagToSet(inflight) : OnAcked(f) \/ OnLost(f))
  /\ SF_vars(\E f \in BagToSet(inflight) : OnAcked(f))

FairSpec == Spec /\ Fairness

-----------------------------------------------------------------------------
(* Properties.                                                             *)

TypeOK ==
  /\ numOutstandingFrames \in Nat
  /\ retransmissionQueue \in Seq(Frame)
  /\ prAckNotifyRetransmissionQueue \in Seq(Frame)
  /\ writeOffset \in 0..MaxBytes
  /\ {closedForShutdown, finishedWriting, canceledWrite, finSent, completed,
      writeChan, active, wTimer, finAcked} \subseteq BOOLEAN
  /\ cancelWriteErr \in {"nil", "CancelWrite", "StopSending"}
  /\ dataForWriting \in 0..MaxBytes
  /\ nextFrame \in {NoFrame} \cup [off : 0..MaxBytes, len : 1..MaxBuf]
  /\ deadline \in {"zero", "future", "past"}
  /\ sendWindow \in 0..MaxWindow /\ lastBlockedAt \in 0..MaxWindow
  /\ IsABag(inflight) /\ BagToSet(inflight) \subseteq Frame
  /\ wpc \in {"idle", "waiting"} /\ wlen \in 0..MaxBytes
  /\ lastResult \in [call : Nat, n : 0..MaxBytes, err : Errors]
  /\ ackedBytes \subseteq 0..MaxBytes
  /\ resetFinalSize \in {NoFrame} \cup 0..MaxBytes

\* Every frame the stream has handed out, wherever it is now.
LiveFrames == BagToSet(inflight) \cup SeqElems(retransmissionQueue)
                \cup SeqElems(prAckNotifyRetransmissionQueue)
Covers(f, k) == f.off <= k /\ k < f.off + f.len
Holders(k) ==
    Cardinality({f \in BagToSet(inflight) : Covers(f, k)})
  + Cardinality({i \in DOMAIN retransmissionQueue :
                   Covers(retransmissionQueue[i], k)})
  + Cardinality({i \in DOMAIN prAckNotifyRetransmissionQueue :
                   Covers(prAckNotifyRetransmissionQueue[i], k)})
  + (IF k \in ackedBytes THEN 1 ELSE 0)

\* Byte conservation (spec section 8) across popStreamFrame's splits, the
\* loss hooks and the acks: until a cancel, every unit below writeOffset is
\* held by exactly one of an in-flight frame, the retransmission queue, the
\* PR_ACK_NOTIFY queue or the acknowledged data; none above it is, and a
\* buffered nextFrame starts exactly at writeOffset.
ByteConservation ==
  ~canceledWrite =>
    /\ \A f \in BagToSet(inflight) : CopiesIn(f, inflight) = 1
    /\ \A k \in 0..MaxBytes : Holders(k) = IF k < writeOffset THEN 1 ELSE 0
    /\ nextFrame # NoFrame => nextFrame.off = writeOffset

\* numOutstandingFrames counts exactly the frames the loss detector still
\* holds, until a cancel zeroes it; it never goes negative (the panics in
\* frameAcked, queueRetransmission and prAckNotifyQueueRetransmission).
OutstandingMatchesInFlight ==
  /\ numOutstandingFrames >= 0
  /\ ~canceledWrite => numOutstandingFrames = BagCardinality(inflight)

\* What Write reports is what the stream sends: the data framed or buffered
\* in nextFrame equal the bytes all returned Writes reported written, plus
\* the part of the running Write already taken from dataForWriting.  A
\* Write returning on a deadline or a cancel leaves nothing behind to send.
WriteAccounting ==
  writeOffset + NextLen =
    reported + (IF wpc = "waiting" THEN wlen - dataForWriting ELSE 0)

\* Flow control: no frame takes the stream past the peer's limit.
FlowControlRespected == writeOffset <= sendWindow

\* FIN is final: once a FIN was framed nothing is left to frame, and every
\* FIN-carrying frame, first sending or retransmission, ends at writeOffset.
FinIsFinal ==
  /\ finSent => nextFrame = NoFrame /\ dataForWriting = 0
  /\ \A f \in LiveFrames : f.fin => finSent /\ f.off + f.len = writeOffset

\* After RESET_STREAM(FinalSize) no data beyond FinalSize is ever framed.
FinalSizeRespected ==
  resetFinalSize # NoFrame =>
    /\ writeOffset = resetFinalSize
    /\ \A f \in LiveFrames : f.off + f.len <= resetFinalSize

\* Data the PR skip path gave up on: announced in a PR_ACK_NOTIFY instead
\* of being sent again.
Skipped(k) == \E i \in DOMAIN prAckNotifyRetransmissionQueue :
                Covers(prAckNotifyRetransmissionQueue[i], k)
FinSkipped == \E i \in DOMAIN prAckNotifyRetransmissionQueue :
                prAckNotifyRetransmissionQueue[i].fin

\* onStreamCompleted (isNewlyCompleted, reached from frameAcked, the
\* retransmission hooks and cancelWriteImpl) is called at most once, and
\* for a stream that was not canceled only when every unit and the FIN was
\* acknowledged by the peer or, under PR, given up in a PR_ACK_NOTIFY.
CompletionSound ==
  /\ completedReports <= 1
  /\ completedReports = 1 =>
       \/ canceledWrite
       \/ /\ finAcked \/ FinSkipped
          /\ \A k \in 0..(writeOffset - 1) : k \in ackedBytes \/ Skipped(k)

\* The refinement mapping to the abstract ByteStreamSender.  A byte is sent once it is below writeOffset
\* (data copied into nextFrame are not sent yet), the FIN once finSent is
\* set; the peer's acknowledgements are the history ackedBytes/finAcked,
\* the data given up are those in PR_ACK_NOTIFY frames, and a reset is
\* cancelWriteImpl.  Every step of Write, popStreamFrame, the ack and loss
\* hooks, Close, the cancels, shutdown and the window and deadline updates
\* is a step of ByteStreamSender or leaves its state unchanged.
BSS == INSTANCE ByteStreamSender WITH
         PARTIAL <- PR_ENABLED, MaxLen <- MaxBytes,
         length <- writeOffset, final <- finSent,
         acked <- ackedBytes, finAcked <- finAcked,
         skipped <- {k \in 0..MaxBytes : Skipped(k)},
         finSkipped <- FinSkipped,
         reset <- canceledWrite, completed <- completed

\* Spec sections 4.3-4.5: the send stream implements ByteStreamSender.
\* popStreamFrame sends nothing after the FIN or a cancel, the ack hooks
\* acknowledge only sent data and the FIN only once it was sent, the PR
\* loss hook gives data up only under PR and never after cancelWriteImpl
\* (never data that were also acknowledged), and onStreamCompleted is
\* reported only by a cancel or once all data and the FIN are settled.
ImplementsByteStreamSender == BSS!Spec

\* A blocked Write eventually returns: no wakeup of the writer is lost.
WriteReturns == (wpc = "waiting") ~> (wpc = "idle")

\* Lost data are sent again until the peer has them: every unit framed is
\* eventually acknowledged (or, under PR, given up), across any number of
\* losses, retransmissions and splits, unless the stream is canceled or shut
\* down.  This needs queueRetransmission's onHasStreamData to bring the
\* stream back to the framer.
\* (writeOffset and the settled data only grow, so "whenever some framed
\* unit is unsettled, later all are" says the same of every unit.)
DataEventuallySettled ==
  LET Unsettled == \E k \in 0..(writeOffset - 1) :
                     k \notin ackedBytes /\ ~Skipped(k)
  IN  Unsettled ~> (~Unsettled \/ canceledWrite \/ closedForShutdown)

\* A closed stream that is not shut down is eventually reported completed.
CloseCompletes == finishedWriting ~> (completed \/ closedForShutdown)

\* Spec section 4.5: the framer drains the PR_ACK_NOTIFY queue alongside
\* the retransmissions, so each notification that prAckNotifyQueue-
\* Retransmission queues is eventually sent (or dropped by a cancel).
NotifyDrained ==
  (prAckNotifyRetransmissionQueue # <<>>)
    ~> (prAckNotifyRetransmissionQueue = <<>> \/ canceledWrite)

\* Spec section 5, cancellation: when a cancel or a shutdown ends a blocked
\* Write, the count it reports covers only the bytes of its slice framed
\* before the cancel, never the rest it may still copy into nextFrame,
\* which popStreamFrame never sends once the stream is canceled.
WriteReportsOnlyFramed ==
  [][/\ wpc = "waiting" /\ wpc' = "idle"
     /\ canceledWrite \/ closedForShutdown
     => lastResult'.n <= wlen - dataForWriting]_vars
=============================================================================

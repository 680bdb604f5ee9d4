# TLA+ models of the prquic-go send stream and PR frame codecs

This directory holds TLA+ specifications of the quic-go fork in `src/`. The fork adds
Partial Reliability (PR) to the QUIC send stream. PR lets the sender choose not to
retransmit lost STREAM data; it announces the gap to the peer in a `PR_ACK_NOTIFY`
frame instead. The models are checked with TLC.

## 1. The system

| part | code | state | operations |
|---|---|---|---|
| send stream | `src/unnamed/part_000` lines 1-628 (`send_stream.go`) | `numOutstandingFrames`, `retransmissionQueue`, `prAckNotifyRetransmissionQueue`, `writeOffset`, flags `finishedWriting`/`canceledWrite`/`closedForShutdown`/`finSent`/`completed`, `dataForWriting`, `nextFrame`, `writeChan`, `deadline`, `cancelWriteErr` | `Write`, `Close`, `CancelWrite`, `handleStopSendingFrame`, `closeForShutdown`, `updateSendWindow`, `SetWriteDeadline`, `popStreamFrame`, and the hooks `frameAcked`, `prStreamframeAcked`, `queueRetransmission`, `prQueueRetransmission`, `prAckNotifyQueueRetransmission` |
| PR configuration | `src/pr_policy.go` 1-65 | process-wide globals `PR_ENABLED`, `PTDA`, `PtadC`; configuration 1 (lines 8-19) is compiled in and is `ShippedConfiguration` in SendStream | read by `popStreamFrame` |
| flow controller | not in `src/` (spec §6) | send window, last blocked offset | `SendWindowSize`, `IsNewlyBlocked`, `AddBytesSent`, `UpdateSendWindow` |
| framer | not in `src/` (spec §6, design doc part_000 977-979) | set of active streams | `onHasStreamData` activates; `popStreamFrame` returning `hasMoreData = false` deactivates |
| loss detector | not in `src/` | frames in flight | calls exactly one of `OnAcked`/`OnLost` per frame |
| PR wire codecs | `src/internal/wire/pr_stream_frame.go`, `src/unnamed/part_005` | none (pure) | parse, Append, Length, MaxDataLen, MaybeSplitOffFrame |
| frame pool, examples, CI, test | part_004, part_001-003, `.circleci`, `bandwidth_test.go` | - | - |

The actors run concurrently on one stream:
- The **application goroutine** runs `Write`, `Close`, `CancelWrite` and `SetWriteDeadline`. `Write` parks the data in `dataForWriting` and blocks on `writeChan`, a capacity-1 channel. It can also wake on a deadline timer.
- The **framer** (packet packer) calls `popStreamFrame` while the stream is active.
- The **loss detector** calls the ack and loss hooks of every frame that was sent.
- The **connection** calls `updateSendWindow`, `handleStopSendingFrame` and `closeForShutdown`.

All of them take `s.mutex`. The upward calls (`onHasStreamData`, `onStreamCompleted`, `queueControlFrame`) are made after unlocking.

What is hard to test in this code:
- **Lost wakeups.** Wakeups of `Write` are non-blocking sends that collapse into one.
- **Splitting.** `nextFrame` and retransmissions are split, and the offset arithmetic must conserve bytes.
- **Late callbacks.** Ack and loss callbacks can arrive after a cancel.
- **One-time completion.** `onStreamCompleted` must fire exactly once, from any of three paths.
- **The FIN.** It must be on the last frame only and must eventually be sent.
- **The PR paths.** The skip path moves a lost frame to the PR_ACK_NOTIFY queue.

PROJECT.json lists each hazard at its source line.

## 2. Modules

### `SendStream.tla`: the send stream with its environment

Parameters:
- `PR_ENABLED`, `PTDA`, `PtadC`: the PR configuration.
- `MaxBuf`: `MaxPacketBufferSize`, in data units.
- `WriteLens`: the lengths passed to `Write`.
- `Capacities`: the packet budgets of `popStreamFrame`.
- `InitWindow` and `MaxWindow`: the flow-control window.
- Bounds on bytes and on Write calls.
- `Deadlines`: the deadlines the application may set.

Data are abstracted to lengths and offsets in units. A frame is `[off, len, fin]`, and a byte is identified by its offset.

How the model corresponds to the code:
- **State.** The `sendStream` fields keep their names. `dataForWriting` is its length (0 = nil), and `nextFrame` is `NoFrame` or `[off, len]`. `writeChan` is a boolean, because a full channel of capacity 1 absorbs further sends.
- **Environment.** `sendWindow`/`lastBlockedAt` stand for the flow controller, `active` for the framer, and `inflight` (a bag) for the loss detector.
- **Write.**
  - `Write(p)` is the entry checks in code order, followed by the first pass of the loop.
  - `WriteWake` is one wake from `writeChan` or the deadline timer, followed by the next pass.
  - `WriteLoopBody` is one pass under the mutex: copy into `nextFrame`, return on the deadline (`WriteDeadlineReturn`), break, or notify and wait. Its return value comes from the code after the loop (`LoopExitError`).
- **popStreamFrame(c)** is `popNewOrRetransmittedStreamFrame` with its branches as disjuncts: `popCanceled`, `maybeGetRetransmission`, `popFinOrNothing`, `popBlocked`, `popNextFrame`, `popNewStreamFrameWithoutBuffer`. The action also includes the `numOutstandingFrames++` (`Emit`), the FIN rule (`EmitNew`) and the framer's activation.
- **Loss detector.** `OnAcked(f)` and `OnLost(f)` pick the hooks that `popStreamFrame` attached: PR or plain, by `PR_ENABLED`.
- **The random draw.** `prQueueRetransmission` draws r from `{0, 9999}`. The test `pC > r` is monotone in r, so these two extreme draws give every outcome `rand.Intn(10000)` can give.
- **Upward calls.** Calls made after unlocking are folded into the step that makes them: `onHasStreamData` sets `active`, `signalWrite` sets `writeChan`, and RESET_STREAM records `resetFinalSize`. Section 3 shows why this is sound for the properties.
- **History variables.** These record what the properties need: `writeCalls`, `reported` (the sum of the counts `Write` returned), `lastResult`, `ackedBytes`, `finAcked`, `completedReports`, `resetFinalSize`.

Properties:
- **TypeOK**
- **ByteConservation** (spec §8 "Conservation"): until a cancel, every unit below `writeOffset` is held by exactly one of an in-flight frame, the retransmission queue, the PR_ACK_NOTIFY queue or the acked data. `nextFrame` starts at `writeOffset`.
- **OutstandingMatchesInFlight**: `numOutstandingFrames` equals the number of frames in flight and is never negative.
- **WriteAccounting**: what `Write` reported equals what was framed or buffered.
- **FlowControlRespected**
- **FinIsFinal**: a FIN-carrying frame, including one that is retransmitted, ends at `writeOffset`, and nothing is framed after the FIN.
- **FinalSizeRespected**: no data are framed beyond the RESET_STREAM final size.
- **CompletionSound**: completion is reported at most once, and only when all data and the FIN were acked or skipped by PR.
- **WriteReturns** (liveness): a blocked `Write` returns.
- **CloseCompletes** (liveness): a closed stream completes.
- **DataEventuallySettled** (liveness): every unit framed is eventually acknowledged or given up, however often it is lost and resent, unless the stream is canceled or shut down. This checks that `queueRetransmission`'s `onHasStreamData` brings a dropped stream back to the framer. It is stated as one leads-to over "some framed unit is unsettled"; because `writeOffset` and the settled set only grow, that is the same as stating it unit by unit.
- **NotifyDrained** (liveness, spec §4.5)
- **WriteReportsOnlyFramed** (action property, spec §5 and scenario 6): a Write ended by a cancel or a shutdown reports only the bytes of its slice that were framed.
- **ImplementsByteStreamSender** (refinement): see the next section.

Each property has one or more mutants in the module: a copy of a mapped operator with a plausible bug, which the property's run must catch.

### `ByteStreamSender.tla`: what the send stream promises

An abstract specification with no frames, queues, flow control or writer. Its state:
- `length`: the bytes sent, a prefix of the stream;
- `final`: the FIN was sent, so `length` is the final size;
- `acked`, `finAcked`: what the peer acknowledged;
- `skipped`, `finSkipped`: what the sender gave up (PR);
- `reset`, `completed`.

It has three actions:
- `Send` extends the prefix or sends the FIN. It is not enabled after the FIN or a reset.
- `Settle` acknowledges or gives up sent bytes and the FIN, and may report completion once everything is settled. Giving up needs `PARTIAL` and no reset. No byte is both acknowledged and given up.
- `Reset` sets `reset` and reports completion.

`SendStream` instantiates it as `BSS`, with this refinement mapping:

| abstract | SendStream |
|---|---|
| `length` | `writeOffset` |
| `final` | `finSent` |
| `acked`, `finAcked` | `ackedBytes`, `finAcked` |
| `skipped`, `finSkipped` | the ranges and FIN of the frames in `prAckNotifyRetransmissionQueue` |
| `reset` | `canceledWrite` |
| `completed` | `completed` |
| `PARTIAL` | `PR_ENABLED` |

`ImplementsByteStreamSender == BSS!Spec` is checked as a PROPERTY. Each step of the detailed model is then one of the abstract actions, or leaves the mapped state unchanged:
- `popStreamFrame` is `Send`;
- the ack hooks and the PR skip path are `Settle`;
- `cancelWriteImpl` is `Reset`;
- the rest are stutters.

The bytes sent are those below `writeOffset`, not those in `nextFrame`. Data `Write` copies into `nextFrame` after a cancel are therefore not sent (see `cancel_race`).

### `MC_SendStream.tla`: the instance for TLC

- One data unit is half of `MaxPacketBufferSize`.
- Writes are of 1 or 3 units. A 1-unit Write is buffered in `nextFrame`; two such Writes fill it, and that `nextFrame` is split when the packet or the window holds only 1. A 3-unit Write blocks.
- Packets carry 1 or 2 units.
- The window starts at 1 unit and may be raised up to 3, so the stream is blocked on flow control before it has sent everything.
- At most 2 Writes and 4 units are accepted. The liveness runs about closing (`close`, `close_stall`, `notify`, `skip_stall`) let the peer grant all 4 units. With only 3, a stream would stop at the window bound rather than because of the code.

These bounds reach every branch of `popNewOrRetransmittedStreamFrame`, including:
- both splits;
- the FIN-only frame;
- the newly-blocked and still-blocked cases;
- a Write that blocks, is woken, and buffers its tail;
- cancels and shutdowns at every point;
- repeated loss of the same data.

TLC's coverage report shows every action and disjunct fired across the passing runs.

The safety runs use `Spec`; the liveness runs use `FairSpec`.

### `PRWire.tla`: the PR frame codecs
The codecs are pure functions, so each is an operator over byte sequences
(values 0..255), translated line by line from the Go:

| operator | code |
|---|---|
| `PRStreamAppend`, `parsePRStreamFrame`, `PRStreamLength`, `PRStreamMaxDataLen`, `PRStreamMaybeSplitOffFrame` | `pr_stream_frame.go` 30-236 |
| `PRAckNotifyAppend`, `parsePRAckNotifyFrame`, `PRAckNotifyLength` | part_005 154-277 (the first of the two copies) |
| `PRDatagramAppend`, `parsePRDatagramFrame`, `PRDatagramMaxDataLen`, `PRDatagramLength` | part_005 24-119 |
| `parseFrameKind` | the `frameParser.parseFrame` listing in the design document, part_000 718-764 |
| `VarintLen`, `VarintBytes`, `ReadVarintInto`, `ReadByteInto` | `quicvarint` and `bytes.Reader`, not in `src/`: written from RFC 9000 §16 and the Go library |

Details:
- A parser threads a reader record `[rest, err, val]` through its reads. The first failed read sticks, as the early `return nil, err` does.
- Frame data are `len` copies of one byte, because no codec looks at data values.
- A Go panic is the error `"panic"`. The nil dereference in `parsePRStreamFrame` (line 67) makes every complete header end in a panic, so lines 71-111 are unreachable and are not modelled.
- `MaxDataLen` is computed with unbounded integers. The Go code computes in `protocol.ByteCount`, and the intermediate `headerLen` may drop below zero, but `maxSize - headerLen` has the same value either way.

The state is one `input`: a frame of one kind, and a budget for PR_STREAM (split and pop) and PR_DATAGRAM (MaxDataLen). Each of the three actions picks any frame of its kind, so every invariant is checked on every frame in the bounds.

`MC_PRWire.tla` bounds:
- values on both sides of each varint boundary that matters: 63/64 for stream IDs, offsets, ptda_c and lengths, and 300 for a ptda_c that does not fit in a byte;
- data lengths 0, 3 and 66. With 66, `MaxDataLen`'s own length field takes two bytes;
- budgets 3..10, which lie between header and full length for the short frames, and 70 and 72 for the long ones.

That gives 6816 inputs.

## 3. Atomicity and fairness

Each step is one critical section of `s.mutex`, together with the calls made after unlocking.

Folding these calls into the step is sound:
- `onHasStreamData` only makes the framer call again. An earlier call is indistinguishable from a later one, because `popStreamFrame` re-reads all state under the lock.
- `signalWrite` is idempotent.
- The one value read after unlocking is `writeOffset` for RESET_STREAM. It cannot change once `canceledWrite` is set; FinalSizeRespected checks that.

Fairness (`Fairness` in SendStream.tla):
- **Weak fairness on `popStreamFrame`.** The framer keeps packing packets while a stream is active.
- **Weak fairness on `WriteWake`.** A goroutine that is ready runs.
- **Weak fairness on `Tick`.** Time passes an armed deadline.
- **Weak fairness on raising the window.** The peer keeps granting credit up to `MaxWindow`; a peer that never does would block every stream.
- **Weak fairness on settling in-flight frames.**
- **Strong fairness on acking some in-flight frame.** The network is not lossy forever. Acks retire data for good, so this fairness reaches every frame.

`updateSendWindow` reads `hasStreamData` under the mutex and notifies after unlocking, yet the model makes it one step. This is sound because the framer, the loss detector and frame handling all run on the connection goroutine (the `run()` loop of the design document, part_000 631-636). Only the application can run in the gap:
- If the application makes data available there, `Write`'s first pass or `Close` calls `onHasStreamData` itself.
- If it removes data, the stale `true` costs only a spurious pop.

A two-step version needs strong fairness on the connection's calls, because its redundant updates can otherwise starve the framer. It passed the `close` run, but it multiplies the state space by about 7, which is too much for `core`.

No fairness is assumed for the application: `Write`, `Close`, cancels and deadlines are its choices.

## 4. Runs

| run | cfg | expect | what it shows |
|---|---|---|---|
| core | SendStream_core.cfg | pass | Shipped configuration (PR on, P, PtadC 0), deadlines set and reached by the timer: all the safety invariants, and, under the fairness of §3, a blocked `Write` always returns (no wakeup is lost). About 0.9M states. |
| close | SendStream_close.cfg | pass | Without deadlines, and with the peer granting credit for all data (`MaxWindow` 4), a closed stream always completes. Every framed unit is eventually acknowledged. |
| baseline | SendStream_baseline.cfg | pass | PR off: through the plain `frameAcked`/`queueRetransmission` hooks, the stream refines `ByteStreamSender` with nothing given up. (Data conservation and sound completion are not re-checked here: with PtadC 0 the PR hooks behave as the plain ones, so `core` covers the same states.) |
| pr_skip | SendStream_pr_skip.cfg | pass | PtadC = 0x80, no deadlines: the skip path keeps bytes and the outstanding count exact, and the stream refines `ByteStreamSender` with partial reliability. Data are given up only before a cancel and never once acknowledged. |
| close_stall | SendStream_close_stall.cfg | violation | **Bug.** `Close`; the framer finds the stream blocked while a Write is pending and deactivates it; the Write returns on its deadline and drops its data (part_000:156). `updateSendWindow` (582) then does not re-activate the stream, because only the FIN is pending. The FIN is never sent and the stream never completes. |
| notify | SendStream_notify.cfg | violation | PR_ACK_NOTIFY frames are queued (522) but never popped. |
| skip_stall | SendStream_skip_stall.cfg | violation | **Bug.** With PtadC = 0x80, the stream is closed and its one frame, which carries the FIN, is lost and skipped. `prAckNotifyQueueRetransmission` (523) brings the outstanding count to 0, but it never evaluates `isNewlyCompleted`, and no later callback does either. Completion is never reported, and the stream is never released (spec §3, lifecycle). |
| cancel_race | SendStream_cancel_race.cfg | violation | A 3-unit Write blocks, and the framer takes 1 unit. `CancelWrite` signals `writeChan`. The woken loop finds the other 2 units fit in `nextFrame`, copies them (line 133), and returns 3 with no error, before it ever tests `canceledWrite` (165). Spec §5 and scenario 6 say the count covers only framed bytes and the error is WriteCanceled. |
| wire | PRWire_wire.cfg | pass | PR_ACK_NOTIFY: the round trip holds and `Length` equals the encoded size for every flag setting. PR_STREAM: whenever `MaybeSplitOffFrame` returns a head, head and tail tile the frame (offsets, FIN, PR fields). PR_DATAGRAM: `MaxDataLen` returns the largest payload whose `Length` fits the budget, on both sides of the varint boundary (`PRDatagramMaxDataLenFits`). |
| round_trip | PRWire_round_trip.cfg | violation | **Bug.** Spec §8: decode(encode(f)) = f for every kind, through `parseFrame`. `Append` writes PR_STREAM as type 0x08..0x0f (line 120), and `parseFrame` hands that to the STREAM parser. The same property also covers three further bugs, which this counterexample hides: PR_ACK_NOTIFY written as 0x58..0x5f, which no parser takes; the nil frame in `parsePRStreamFrame` (67); and PR_DATAGRAM's data length taken before the PR fields (part_005:45). |
| length | PRWire_length_matches_encoding.cfg | violation | **Bug.** `byte(f.ptdaC)` (142) against `quicvarint.Len(ptdaC)` in `Length`. The same property covers PR_DATAGRAM `Length` leaving out the PR bytes (part_005:113). |
| split_head_fits | PRWire_split_head_fits.cfg | violation | **Bug.** `MaxDataLen` (187-188) subtracts the PR overhead from the header. As a result, heads overflow the budget, or the slice at line 230 panics. |

PROJECT.json "findings" explains each violation.

## 5. Not modelled, and why

- **`pr_maxBytes` (220).** `maxBytes - (1 + 8)` bounds the PR fields, 1 + varint(ptda_c) ≤ 9 bytes, and the framer never passes less than quic-go's MinStreamFrameSize. `protocol.ByteCount` is not defined in `src/`; upstream it is a signed int64, so the subtraction does not wrap. The model folds the budget into `Capacities`.
- **The framer's and flow controller's own locks.** `queueControlFrame` is called under the stream mutex (line 299). Those components are not in `src/`.
- **The deadline timer's real time.** It is a three-valued `deadline` plus `Tick`. `rand.Seed` per call (476) makes draws correlated in time. The model draws each one independently, which includes every correlated sequence of draws, so safety properties hold for them too; no property is about the correlation itself. What the correlation changes is the skip rate, and a model checker does not measure rates.
- **`MaxDataLen` of PR_ACK_NOTIFY.** It is never called, and a PR_ACK_NOTIFY frame carries no data, so its result has no meaning to check. The older copy of the PR_ACK_NOTIFY codec (part_005 305-489) is not modelled either; its field order is used only as a mutant of `PRAckNotifyAppend`.
- **Two divergences found by reading, with no run.** They are single-line differences that a unit test reaches directly:
  - `prQueueRetransmission` switches on `frame.PtdaC` instead of `frame.PTDA` (473), so policy P draws only when ptda_c is 0x80. The model keeps that switch, and with the shipped PtadC 0 nothing is ever skipped.
  - Write's entry checks test `finishedWriting` before `closeForShutdownErr` (101-109); spec §7 gives shutdown precedence.
- **The frame pool, the example programs, the handshake helper and CI.** They keep no protocol state.

## 6. Plan

Done:
1. **`SendStream`.** All operations of the send stream with its environment, and their runs.
2. **`PRWire`.** The PR codecs, with the round trip, length, split and dispatch checks.

3. **`ByteStreamSender`.** The abstract sender, and the refinement from `SendStream` with PR off and on.
4. **Codec gaps.** PR_DATAGRAM `MaxDataLen` against `Length`. PR_ACK_NOTIFY `MaxDataLen` is left out; see §5.

Not planned:
5. **Policies T, D and A.** These are stubs in the source, so each run would show only that they never skip.

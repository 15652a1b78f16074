# A verification of udp-arq-lab in TLA+

The library `udp_arq` sends datagrams reliably over a UDP channel that loses,
delays, repeats, reorders and corrupts packets. These modules model its
transports as state machines; TLC checks them on small instances, and TLAPS
proves the main results for every instance.

## 1. The system

| Part | State | Operations | Interacts with |
|---|---|---|---|
| `transport/go_back_n.py` | per peer: `_base`, `_next_seq`, `_outstanding`/`_sent_items`, `_pending`, one timer, `_retries`, `_peer_errors`, `_expected`; `_outbound` and `_incoming_data` queues; `_stop_event` | `sendto`, `flush`, `recvfrom`, `close`; a background thread that drains, sends, retransmits and receives | the channel; application threads through queues, events and `_lock` |
| `transport/selective_repeat.py` | as above, with a timer per packet and a receive buffer | the same | the channel, `TimerHeap` |
| `transport/stop_and_wait.py` | `_send_bit`, `_recv_bit` per peer | `sendto` (blocks until the ACK), `recvfrom` (sends the ACKs), `close` | the channel, in the caller's thread |
| `transport/null.py`, `base.py` | none | passthrough; abstract class | the channel |
| `channel.py` | heap of packets with delivery times, `_closed`, a worker thread | `sendto`, `recvfrom`, `close` | the socket; the transports |
| `timer_heap.py` | heap with stale entries, current deadline per key | `schedule`, `cancel`, `nearest`, `pop_due` | Selective Repeat, under its lock |
| `rto.py` | `rto`, `srtt`, `rttvar` | `sample`, `on_timeout` | the transports when `adaptive` |
| `packet.py`, `checksum.py` | none | `encode`, `decode`, `checksum`, `verify` | every transport |
| `file_layer.py` | none | `chunk`, `reassemble`, hashing | the demo and tests |
| `demo.py` | none | a script | all of the above |

Packets go from `sendto()` of a transport through `encode` and the checksum to
the channel's heap, from its delivery thread to the peer's socket, and from
there to the peer's `recvfrom()` or background thread, which answers with ACKs
the same way. `demo.py` drives a file through this.

What is hard: three kinds of application threads (`sendto`, `flush`, `close`)
meet one background thread under a lock that does not cover all the code;
packets and ACKs arrive late, twice or never while windows move, timers expire
and peers are given up; each side goes on after a failure of the other.

What makes it correct: payloads arrive in order and once; what the sender
takes for acknowledged was accepted; the window holds; no item disappears
without an ACK or an error; `flush` tells the truth; a timer runs while
something is in flight, so that the sender never waits for ever; the timeout
follows the path and is fed only with round trips that were really measured;
the channel loses nothing that it did not decide to lose, and `close()` ends.

## 2. Modules

| Module | What it is |
|---|---|
| `SlidingWindow` | the state and the steps that `go_back_n.py` and `selective_repeat.py` share statement for statement: `sendto`, `flush`, `close`, `recvfrom`, `_drain_outbound`, the sending half of `_pump_windows`, `_fail_peer`, the skeleton of `_sender_loop`; the network; safety and liveness that both have |
| `GoBackN` | extends it with the single timer, `_handle_timeouts`, the cumulative `_handle_ack` and the receiver of `go_back_n.py` |
| `SelectiveRepeat` | extends it with a timer per packet, individual ACKs and the receiver's `_buffer` of `selective_repeat.py` |
| `RttSampling` | `_send_time`, `_retransmitted` and the rule that decides whether an ACK is measured, of both |
| `AdaptiveGoBackN`, `AdaptiveSelectiveRepeat` | the two transports with `adaptive=True`: each step of the sender with what it does to that bookkeeping. The instances of TLC are instances of these |
| `ReliableStream` | abstract: datagrams are submitted, accepted in that order, and confirmed only when accepted. `GoBackN` implements it |
| `SelectiveStream` | abstract: datagrams arrive in any order, the receiver hands over those before the first gap, and only what has arrived is confirmed. `SelectiveRepeat` implements it |
| `StopAndWait` | `stop_and_wait.py`: two nodes, each in `sendto`, in `recvfrom` or in its application |
| `Rto` | `rto.py`, the estimator |
| `AdaptiveTimeout` | `sendto` of `stop_and_wait.py` with `adaptive=True`, in time, feeding `Rto` |
| `Channel` | `channel.py`: the heap, `sendto`, `_deliver_loop` with its waits and notifications, `close`, in time |
| `DelayLine` | abstract: a line that delays, loses and repeats, in order or not. `Channel` implements it |
| `TimerHeap`, `Timers` | `timer_heap.py` with its stale entries, and the map of deadlines it implements |
| `Packet` | `packet.py` and `checksum.py`, byte by byte, with RFC 1071 as reference |
| `FileLayer` | `file_layer.py`: cutting, reading and joining |
| `NullTransport` | `null.py` as `run_null()` of `demo.py` uses it: a file, in packets of `Packet`, over a channel that corrupts |
| `*Proofs` | the theorems: `SlidingWindowProofs` (shared), `GoBackNProofs`, `SelectiveRepeatProofs` (each with its adaptive module), `StopAndWaitProofs`, `ChannelProofs`, `TimerHeapProofs`, `RtoProofs` (the estimator and `AdaptiveTimeout`), `NullTransportProofs` (with `Packet` and `FileLayer`) |
| `MC*` and the `.cfg` files | instances for TLC |

### Reading the models beside the code

A step is one region under `self._lock` (in `Channel`, under `_cond`), or the
code between two of them. Names of actions follow the functions:
`SendCheck`/`SendPut` are the two halves of `sendto()` (the test of
`_stop_event` is outside the lock), `DrainGet`/`DrainPut` the two halves of
`_drain_outbound` (`get_nowait()` is outside the lock), `FlushSnapshot` the
locked region of `flush()` and
`FlushRaise`/`FlushReturn`/`FlushWait`/`FlushTimeout` what follows it,
`CloseBegin`/`CloseFail`/`CloseChannel` the stages of `close()`.
`PeerReceive`/`PeerSendAck`/`PeerPut` are the stages of `_handle_incoming` for
a DATA packet: state under the lock, then the ACK, then `_incoming_data`. In
the adaptive modules `Pump`, `Resend`, `GiveUp` and `Sample` are the base
module's steps, each together with its update of the bookkeeping. In `Channel`
the worker is `running` while it has the lock, and the other threads step only
when it has not.

Abstractions, and why they lose nothing the properties speak about:

- *The network.* In the sliding-window models it is the set of DATA packets
  and of ACK numbers ever sent. Receiving does not remove: a packet never
  received was lost, one received twice was repeated, any order is possible. A
  packet whose checksum fails is dropped by the code and is a lost packet here.
  `StopAndWait` is right only when packets are not reordered, and assumes a
  path that keeps the order: each node has a socket buffer, and a packet is put
  behind the others not at all, once or twice. `Channel` without jitter and
  reordering is such a path (`OrderKept`).
- *Containers.* `_outbound` always holds consecutive numbers, and is the
  interval `drained .. nextSeq-1`; `_outstanding` and `_sent_items` have the
  same keys and are the set `outstanding`; item events and errors are the sets
  `acked` and `errored`. A heap is a set whose least element is taken, by time
  and tiebreak.
- *Time.* In the transports a deadline that is set may pass at any later moment
  (`Expire`); in Selective Repeat deadlines pass in any order, and in
  `StopAndWait` the timeout of an attempt passes at any moment. This includes
  every fixed and every adaptive timeout. `Channel` and `AdaptiveTimeout` are
  about time itself: there it is a number of ticks.
- *A closed channel* refuses packets at once, while its socket stays open until
  the packets it holds are sent: packets can still be received after `close()`
  went past its join.
- *Failures.* `Unencodable` payloads make `encode()` raise in the background
  thread, which ends; `EstimatorAccepts` says whether the constructor of
  `RTOEstimator` accepts the timeout, and `{TRUE, FALSE}` leaves it open. A
  channel that is closed in the middle of a retransmission pass refuses a packet
  after others were sent again: that is `FailPeer`, since what was sent before
  is a copy of packets already in the set; the adaptive modules say which
  packets were marked and sent (`RefusedAt`, `SentBeforeRefusal`).
- *Application threads.* One thread is in `sendto()`, one in `flush()`, one in
  `close()`. So one item at most is queued after `close()` ran (`SendPut`);
  with more threads there would be more of them, each in `_outbound` for ever.
- *Numbers.* `retries` beyond `MaxRetries` is one value; sequence numbers do
  not reach 2^32 (there `encode()` raises, like for an unencodable payload). In
  `Rto` a division rounds up where the program has floats, and `K * rttvar`
  stands for `rttvar`. In `Packet` bytes, words and carries have their width.
- *Draws.* The channel's five random draws are what they decide. With
  `corruption = c` the program uses one draw both to decide and to choose the
  bit, so that only the first fraction c of the positions can flip;
  `NullTransport` flips any.
- A SHA-256 digest is the file it was computed from.

An operator introduced by `Fault:` is a wrong version of the one that follows
it, of the kind a slip in the code would be. No definition uses it: the list of
mutants in `PROJECT.json` puts it in the place of the right one, and the
property named there must then fail.

## 3. What TLC checks

### Runs that pass

| Run | Instance | Questions |
|---|---|---|
| `gbn_delivery` | window 2, 3 datagrams of 2 payloads, 1 retry, adaptive, fair | delivery in order (`InOrder`), no false acknowledgement (`AckedWasAccepted`), the timer (`TimerArmed`), Karn's rule (`KarnsRule`), bookkeeping that does not grow (`BookkeepingKept`), nothing goes back (`Monotone`), refinement (`ImplementsStream`), an outcome for everything (`AckedOrFailure`) |
| `gbn_close` | window 1, 2 datagrams, one payload unencodable, estimator that accepts or refuses, 1 retry, both sides may close, `flush(None)`, fair | the inductive invariant (`IndInv`), no item vanishes (`NothingForgotten`), what `flush(None)` can miss (`FlushMissesOnlyHandoff`), `close()` ends the thread (`ThreadEnds`) |
| `sr_delivery` | as `gbn_delivery` | `AckedWasReceived`, no gap without an error (`NoSilentGap`), `BufferBound`, `TimerPerPacket`, `KarnsRule`, `ImplementsStream`, `AckedOrFailure` |
| `sr_close` | window 2, 2 datagrams, one payload unencodable, estimator that accepts or refuses, 1 retry, both sides may close, both flush modes | `IndInv`, of which `InOrder`, `NothingForgotten`, `TimerPerPacket` and what `flush(None)` can miss are parts |
| `saw` | both directions, 3 and 1 datagrams, 2 attempts, buffers of 2, either may close, fair | `DeliveredInOrder`, `ReturnedWasDelivered`, `SendEnds` |
| `rto` | ticks of 1/32 s, round trips of 31 ms, 0.75 s and 4.4 s that change twice, 6 attempts, 6 losses, calls at once or after 5 s, fair | the timeout covers the last sample (`CoversLastSample`), only the path is measured (`MeasuresThePath`), premature timeouts end (`TimeoutsEnd`) |
| `channel` | delay 1, jitter -2, 0 and 1 or none, 3 `sendto()` calls until time 2, loss and duplication, `close()`, fair | the delivery thread does not oversleep (`WakesInTime`), each copy leaves once (`Accounted`), `close()` leaves nothing behind (`CloseDelivers`) and returns (`CloseEnds`), every copy leaves (`EveryCopyLeaves`), `ImplementsLine` |
| `null_transport` | 5 files of up to 4 bytes, chunks of 1 or 2, one corrupted packet (any bit), stray datagrams, 3 packets on the way | what is accepted was sent (`ReceivedWasSent`), `decode` is the inverse of `encode` (`DecodeIsInverse`), the checksum is that of RFC 1071 (`ChecksumIsRFC1071`), the chunks are the file (`ChunksAreFile`), an undisturbed run passes (`CleanRunPasses`) |
| `timer_heap` | 2 keys, deadlines up to 2, 4 calls of `schedule` | `NothingOldRemains`, `ImplementsTimers`, `IndInv` |

Bounds. `MaxSends` limits `sendto()` calls and is the only bound of the
sliding-window models. With a window of W, W+1 datagrams make the window fill,
slide and refuse; a retransmission of a whole window, a duplicate below
`_expected`, a packet beyond the receiver's window, an ACK that skips ahead and
one that is stale all occur with W = 2 and three datagrams. One retry gives a
timeout that resends and a timeout that gives up. Two payloads show a swap.
In `StopAndWait` the third datagram has the bit of the first; `BufferSize`
bounds the socket buffers (a full buffer loses packets, as UDP does), and two
places hold a packet and its duplicate. `MaxSchedules` bounds the heap's
counter: four entries for two keys give two stale ones below a current one.
In `Channel`, jitter below the delay makes a packet overtake the one the thread
waits for, and three packets make it do so twice; `LastSend` ends time. In
`NullTransport`, the files are the cases of the slicing (empty, one byte, whole
chunks, a short last one) and of the carry (words of all ones).

In `AdaptiveTimeout` the bounds need care. Six attempts whose timeouts double
add up to more than the longest round trip, as the program's 1000 do; with
fewer, a call could raise while its ACKs are under way, and those of every
other datagram would feed the next calls for ever. Six losses are enough to
lose every copy of a call. Two changes make a path fast, slow and fast again.
The path keeps its order: on one that gets faster and lets packets overtake,
each call can return on an ACK of the datagram two before, measure almost
nothing, and keep the timeout too short for ever. An ACK that can be read just
when the timeout is over is read by the next attempt.

Deadlock is not checked in the runs whose program really stops: with the bounds
reached, or after `close()`.

### Fairness

`AdaptiveFairSpec` of the sliding-window models assumes that the background
thread is scheduled, that a deadline that is set passes, and that `close()` goes
on once called: `WF` of the whole thread (`AdaptiveSenderLoop`), of `Expire`, of
`CloseGoesOn`. Nothing is assumed of the network (it may lose everything), of
the peer (it may never answer), or of the applications. `AckedOrFailure` is
therefore about 100% loss as well. In `StopAndWait` a thread inside `sendto()`
runs and the timeout of its attempt passes; the path may feed it stale packets
in the meantime. In `Channel` time passes, the delivery thread runs, and so does
a thread in `close()`; in `AdaptiveTimeout` a thread in `sendto()` goes on, and
the application need not call again.

### Disagreements between the code and what it says

Each of these runs checks one statement of a doc or a comment and ends in a
counterexample.

| Run | Statement | What happens |
|---|---|---|
| `gbn_wedge` | MAX_RETRIES: 100% loss fails instead of hanging | `_fail_peer` leaves `_base`: the next datagram is beyond a window of 1 for ever. With a larger window it is sent once and has no timer |
| `sr_window` | packets in flight: up to `window_size` | `_handle_ack` moves `_base` over numbers still in `_pending`; all of them are then sent at once |
| `saw_reuse` | `sendto()` delivers reliably, retransmitting until the ACK | after a `TimeoutError` the bit is used again, and the ACK of the datagram before confirms the new one, which is lost |

Of the same kind, and without a run of their own:

- `flush()` is to block until every datagram so far is ACKed (`go_back_n.py:248`)
  and can return while the background thread holds one between `_outbound` and
  `_pending` (`:518`). `FlushMissesOnlyHandoff` records the item in the hand-off
  at the last snapshot (`flush.missed`) and says that every other datagram has
  an outcome, but for the one whose `PacketError` killed the thread (`Lost`).
  `flush(addr)` does not look at `_outbound` at all (`FlushItems`), and what
  `close()` takes out of `_outbound` is seen by no later `flush()` (`CloseFail`).
- The estimator is made also with `adaptive=False` (`:537`), and refuses
  `timeout > 5`, which ends the background thread (`EstimatorAccepts`). With
  `adaptive=False`, `_send_time` is filled and never emptied.
- The README lets the channel reorder under every transport; Stop-and-Wait's
  one bit (`stop_and_wait.py:160`) cannot tell a late duplicate from a new
  datagram.
- After a `TimeoutError` an ACK of the earlier datagram can be measured as that
  of the new one (`stop_and_wait.py:125`), which Karn's rule in `rto.py` excludes.
- Selective Repeat leaves `_base` after a failure as Go-Back-N does; what it
  sends after a failure can be acknowledged and still wait in the peer's
  `_buffer` for the datagram that was given up. `NoSilentGap` says what remains
  true there: the datagram it waits for carries an error.
- The sticky error of a peer, which is to make a later `flush()` report a
  failure, is cleared by the next `sendto()` (`SendPut`).

## 4. What is proved

All theorems are for every value of the constants: every window, number of
datagrams, attempts, buffers, payload set, delay and limit, every mode of
`flush`, with and without `close`, adaptive or not, and for every behaviour of
the network that the model allows. They rest on the named assumptions of the
modules only: what the constructors check, bounds that are numbers, `None` that
is not a payload, two nodes.

*Shared argument* (`SlidingWindowProofs`). `SharedStep` is a conjunction of
frames: for each part of the shared state, the steps that change it and what
they may do. From it alone follows that `SenderInv` is preserved: the queues
hold the numbers in order (`QueueOrder`), the wire holds what was submitted
(`WireContents`, `InFlightSent`), each item is in a queue or has an outcome but
for one that `encode()` refused, after which nothing is sent
(`NothingForgotten`), and a flush(None) that sees nothing to wait for has missed
the item that was in the hand-off at its snapshot and that one, and no other
(`FlushShape`). For this last part `LostStays` shows that a lost item gets no
outcome later, and `OutcomesGrow` that no outcome is withdrawn. Each transport
proves once that its steps are shared steps (`StepIsShared`) and which steps
touch its own state (`StepFrames`); every later lemma splits on the frame of the
variables it is about, and not on all actions. `OnlyHandoffMissed` and
`NothingTakenBack` (no step withdraws an ACK, an error or what has arrived, or
moves an edge of a window back) hold for both transports.

*Go-Back-N* (`GoBackNProofs`). `InOrder` is not inductive: that the packet the
receiver accepts is the next one submitted needs `WireContents`, and that
`_expected` never runs ahead needs `BelowUnsent` (nothing below it was still
waiting to be sent), which in turn needs `QueueOrder`. `AckedWasAccepted` needs
that no ACK number exceeds `_expected` (`ReceiverShape`). `TimerArmed` needs
that the first packet sent into an empty window is `_base` itself, which follows
from `NothingForgotten`: while the thread runs, an item at `_base` that is not
acknowledged or failed must be the one just taken. `IndInv` is the conjunction;
`Refinement` maps `accepted` to `_incoming_data` with the payload that
`_handle_incoming` holds.

*Selective Repeat* (`SelectiveRepeatProofs`). The same with the buffer: what is
buffered was submitted under its number and lies strictly above `_expected`
within a window (`ReceiverShape`, `BufferBound`), and an ACK number is 0 or one
above a datagram that has arrived (`Truthful`), also the one answered to a
packet that is dropped. `AllAcked` follows: `_expected` itself is never in the
buffer, so if all are acknowledged there is no gap. `GapsAreVisible` is about the
gaps there are: what the receiver holds was sent (`HeldWasSent`), so nothing
below it waits in a queue (`BelowUnsent`) or was lost with the thread, which
sends nothing beyond the lost item. `EveryPacketTimed` holds
even after failures, unlike in Go-Back-N. `Refinement` shows that what was
handed over is the prefix of the submitted payloads up to the first gap.

*Adaptive transports.* Each step of the adaptive module is a step of its base
module (`AdaptiveIsGoBackN`, `AdaptiveIsSelectiveRepeat`), so that all of the
above holds with `adaptive=True`. `Karn` needs `RttInv`: what was sent twice is
marked until the window has passed it. In Go-Back-N that is `_base` growing past
it (the mark may then be dropped, and no ACK samples below `_base` again); in
Selective Repeat it is having been acknowledged or failed. `BookkeepingIsWindow`
says that Go-Back-N's two maps keep to the window until something fails: exactly
the packets in flight have a send time, and only they a mark.

*Stop-and-Wait* (`StopAndWaitProofs`). The alternating-bit argument, for each
direction by itself. `IndInv` says: DATA arrives in the order of the calls, and
copies of one datagram have one bit (`DataOrder`); what is accepted will not be
accepted again, nor anything before it (`AcceptedOnce`); until a call raises,
the receiver is at the sender's datagram or one further, and the two bits say
which (`BitsAgree`); and an ACK with the bit that `sendto()` waits for was sent
after the datagram was returned, and is followed by such ACKs only
(`AcksTruthful`). `AcceptedOnce` holds also after a `TimeoutError`, and gives
the part of `InOrder` that survives one; `BitsAgree` does not, which is the run
`saw_reuse`. `StepCases` sorts the steps of both threads by what they do to one
direction; each part is then preserved case by case.

*Channel* (`ChannelProofs`). The thread sleeps at most until the first entry is
due because whoever pushes an earlier one wakes it. `NothingLost` counts the
copies; `CloseIsComplete` needs that the thread ends only on an empty heap.
`OrderKept` needs that with a constant delay numbers and times in the heap have
one order, and that what has left is older than what waits (`HeapIsQueue`);
`Implements` uses the same for the refinement of `DelayLine`.

*Timer heap* (`TimerHeapProofs`). A key with a deadline has its entry in the
heap, and while a query runs the map is what it was without the keys taken;
`nearest` and `pop_due` then answer what the map of deadlines says, and no old
entry stays behind.

*Estimator* (`RtoProofs`). The new average and the new deviation add up to at
least the sample, by cases on which side of the old average it lies; the clamp
keeps that up to `max_rto` (`SampleIsCovered`), and backoff only raises the
timeout (`TimeoutCoversSample`).

*Stop-and-Wait in time* (`RtoProofs`). `OnlyThePathIsMeasured` is Karn's argument
for one bit: on a path that keeps the order, the ACKs with the bit a call waits
for come behind all others (`AnswersLast`), so what ends a call leaves only its
own late copies, none of which has the next bit; and the ACK of a first attempt
has the whole round trip before it (`SteadyPath`). From this the average is the
round trip from the first sample on (`AverageInv`), and `NoPrematureTimeout`
follows: on such a path below `max_rto` only a loss makes a call send again. It
is the safety half of what `TimeoutsEnd` says for paths that change, and is
proved only. Both hold until a call raises: after that the bit is used again,
and an ACK of the datagram before can be measured.

*Packets, files and Null transport* (`NullTransportProofs`). The checksum's loop,
the joining of chunks and the incremental reader are recursive functions over
positions. Induction is stated for them as the absence of a least counterexample
(`Least`, `UpTo`): a set of numbers below a bound, and so a fact for first-order
provers. `LoopValues` shows once that such a loop has the values its recursion
says.
`ChecksumAgrees`: the sum that folds at each word is, after every word, the plain
sum modulo 65535, with 0 written 65535 once a word was not 0. `ChangedByteIsCaught`:
in the checksum's own field a changed byte contradicts a sum that did not change;
anywhere else it changes the plain sum by more than 0 and less than 65535, and
no two such sums have one checksum. `DecodeThenEncode`: what `decode` accepts is
what `encode` makes of the result. `ChunksJoined` and `ReaderIsChunk`: the chunks are short enough, not
empty, joined they are the file, and reading on from each position gives the same
ones. `NullInv` then needs `Carried` (all on the way is the packet of a chunk
sent, or that with a bit flipped) for `OnlyWhatWasSent`, and `InOrder` (what has
arrived, then what is on the way, are the chunks posted) for `CleanRunsPass`.
The assumptions are that the file is bytes, that a chunk fits a packet
(`encode()` raises for a larger one, and `run_null()` with it), and that a stray
datagram is no packet: `null.py` cannot tell a valid packet of another sender
from its peer's.

Only model-checked: liveness (`AckedOrFailure`, `ThreadEnds`, `SendEnds`,
`EveryCopyLeaves`, `CloseEnds`, `TimeoutsEnd`), which needs fairness and
`ENABLED` and is out of the prover's reach; and the three statements that fail,
which are shown by a counterexample. Every invariant and every action property of
a passing run, and each of the refinements, is the statement of a theorem.

## 5. What is not modelled

- *Several peers.* Each model is one connection; the peers of a transport share
  only the background thread and `_outbound`. That an exception for one peer
  ends the service of all is therefore not shown; that it ends the thread is.
- *Restart of a side.* Nothing is persisted and there is no handshake; a
  restarted sender begins at 0 while its peer does not, and nothing in the code
  reacts to it.
- *The estimator inside the sliding-window transports.* What feeds it is in
  `AdaptiveGoBackN` and `AdaptiveSelectiveRepeat`, what it computes in `Rto`;
  the two meet in time only in Stop-and-Wait.
- *Floating point.* `Rto` rounds divisions up to ticks.
- `base.py` (an abstract class), the checks of argument types, file input and
  output, hashing, and of the demo everything but `run_null()`.

## 6. Where it could go on

Two peers on one transport (what one peer's failure, full window or exception
does to the other); the restart of one side, and what of the stream survives
it; `AdaptiveTimeout` with several packets in flight, as the sliding-window
transports use the estimator.

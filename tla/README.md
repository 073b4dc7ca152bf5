# FoA in TLA+

FoA ("Ferris on Air") is an asynchronous 802.11 stack for the ESP32, written in
Rust. This directory holds TLA+ models of its concurrent parts, the TLC
configurations that check them on small instances, and TLAPS proofs of the
invariants that matter most for every instance.

## The system and how its parts interact

All tasks run on one core under the cooperative embassy executor. There is no
preemption: what a task does between two awaits that really suspend it is atomic
with respect to every other task. That is the grain of the models: **an action is
one such section of one task**, with every call it makes. Interrupts only make the
radio's results available and wake tasks.

| Part | Source | Module |
|---|---|---|
| TX queues, the handles of their users, the pool of TX buffers, the TX half of the background task | `foa/src/tx_queue.rs`, `tx_buffer_management.rs`, `bg_task.rs` | `TxQueue`, abstract `TxFifo` |
| Lower MAC: the channel lock shared by the interfaces, off channel operations, their requests and grants | `foa/src/lmac/mod.rs`, `off_channel.rs`, `util/operations/scan.rs` | `LMac` |
| RX router: the operations of two endpoints and the queues frames are routed to | `foa/src/util/rx_router.rs`, `foa_sta/src/rx_router.rs` | `RxRouter` |
| Station: `StaControl`, the connection operation, the connection runner, MSDU transmission | `foa_sta/src/control.rs`, `operations/connect.rs`, `runner.rs`, `connection_state.rs`, `lib.rs` | `Sta` |
| RSN: the 4-way handshake, retried messages, group key updates, packet numbers | `foa_sta/src/rsn*.rs`, `operations/connect.rs`, `runner.rs` | `Rsn` |
| The way of a received frame: driver, background task, reference counted RX buffers, interface queues, the station's routing task, its readers | `foa/src/bg_task.rs`, `rx_arc_pool.rs`, `lib.rs`, `foa_sta/src/runner.rs`, `foa_awdl/src/runner/rx.rs` | `RxPath` |
| AWDL: sessions, peer cache, master election, user events | `foa_awdl/src/control.rs`, `state.rs`, `peer.rs`, `peer_cache.rs`, `runner/` | `Awdl` |
| AWDL: the clock of a peer, slots, timers of PSFs and MIFs, MSDUs that wait for a slot | `foa_awdl/src/peer.rs`, `state.rs`, `runner/management.rs`, `runner/tx.rs` | `AwdlSlots` |

An application calls `StaControl` or `AwdlControl`. These take the channel lock of
the lower MAC, run connection steps or scans as operations of the RX router, send
their frames through the TX queues and tell the interface's runner of every change
through a signal. The runners serve a connection or a session until the next signal.
`Sta` contains a reduced lower MAC (its own lock, one other interface, the radio)
because the interesting interleavings are those between `StaControl`, the runner and
another interface; `LMac` has the full protocol between any number of interfaces.

Every module has one `MC` module that instantiates it for TLC and one `.cfg` per run.
Definitions keep the names of the functions they model. An operator whose name
ends in a suffix after a known name (`front_index_Newest`) is a mutant, a plausible
bug in the definition of the same name. Each property is shown to fail under one of
them.

## How the modules correspond to the code

`PROJECT.json` maps every definition to the lines it stands for. What follows is how
to read each module, and what it abstracts.

**TxQueue.** `slot`, `expected`, `waker`, `counter` and `capacity` are the fields of
`TxQueueState`; `pool` is the channel of `TxBufferManager`. A handle
(`PendingTransmission`) is named by its queue and its generation, the value of the
running counter when it was enqueued. `poll_completion` is one poll of
`wait_for_completion`, `drop_handle` its `Drop`, and `try_receive` and `transmit` are
the two sections of `TxQueueRunner::run` around the radio. The control point
`Runnable` is a runner that has been woken and not been polled yet. `drop_runner` and
`run` drop and restart the background task at any of its awaits. `written` and
`aborted` are history: they say what a handle ought to be told. `TxFifo` is what the
queue promises: one FIFO of frames per queue and at most one of them on the air.

**LMac.** `locks` and `home` are the lock array and the locked channel of
`ChannelState`; `status` and `response_waker` are the `OffChannelRequester` of each
interface. One control task per interface brings it up, down, or begins an operation;
these borrow the control mutably and exclude each other. A `begin_operation` that
finds holders of the lock requests a grant from each and is resumed by their wakers;
`cancel_begin`, `drop_bringup` and `drop_operation` drop the future or the guard where
it stands. Left out: `request_waker` (a runner is simply polled for a request), the
mutex around the listener, and addresses and filters, which go to the driver
unchanged.

**RxRouter.** Both endpoints start, wait for and complete operations. `Signal` is
external and modelled by what it does: `reset` forgets the value *and* the waker.
A frame is its type and, as history, whether the operation it was routed for is still
the current one.

**Sta.** One application task calls `StaControl` (`control` says where in `connect`,
`disconnect` or `scan` it stands), the connection runner serves a connection with its
two inner tasks, and another interface takes the lock or the radio. Allocating a TX
buffer suspends only when the pool is empty, so a call may or may not give the runner
a turn there; both are alternatives of the action. A task that waits for a frame to
be sent or received is woken by an interrupt and in the meantime every task already
woken is polled: `RunnerPolled` states that scheduling fact and is the guard of the
steps that follow such a wait. Every network has a channel of its own. An off channel
operation keeps the channel that was locked when it began (`previously_locked`) and
returns the radio to the one that is locked when it ends, or else to that one.

**Rsn.** The station's side of the handshake and of an established connection follows
`connect.rs`, `rsn*.rs` and `runner.rs`; the access point and the network are external: the AP
numbers its EAPOL frames, repeats them, replaces group keys and never uses an old one
again, and frames arrive late, repeatedly or never. A nonce stands for the exchange
it belongs to and for the keys derived from it. `Protected` says whether the AP
encrypts group messages; the station accepts both. A group frame takes two steps: the
hardware decrypts it with the key of its slot and queues it (`receive_group_data`,
`rx_queue`), and the router later checks its packet number against the floor of the key
that has its ID by then (`handle_group_data`). A frame the interface drops while it is off
channel is one that never arrived. Frames to the station are one step, because the
pairwise key of a connection is not replaced while they wait; those of an earlier
connection are taken not to arrive while message 4 is being sent.

**Awdl.** `AwdlControl` and the runner meet in `state_signal`. Time is in seconds and
a timer that is due fires before time passes. `find_master` goes through the cache in
any order: that of the code's map depends on the build and on earlier removals. `is_more_eligible` is
translated as it is written: both counters it compares are those of the left state.
`filters` has the two filter banks apart: `new_awdl_interface` sets the one of the BSSID
before there is a session, `start` sets both and `stop` clears both.

**AwdlSlots.** The same session in microseconds, with one peer. `epoch` is our
`tsf_epoch_in_us`, `sync` the epoch recovered from the peer's last frame and cached.
`peer_sends` builds a frame on the peer's clock and either loses it or processes it;
whether we adopt the peer as master is left open, since `Awdl` decides it. The
`select4` of the management task prefers what comes first in it, and every round of
its loop computes a new time for the MIF. Two things differ from what the source's
comments suggest and are modelled as written: `remaining_aw_length` and
`remaining_slot_length` return the part of the window or slot that has *passed*
(`peer.rs:136`, `peer.rs:143`), which is what the recovery needs; and
`next_overlap_timestamp` compares slots by index, ignoring a difference between the two
epochs. A frame is stamped when it leaves and its parameters are those of the time it was
built; the difference, `tx_delta`, is any of `TxDeltas`. The recovery adds it to the
timestamp instead of taking it off (`peer.rs:95`), so the recovered epoch is late by twice
that difference, besides the part of a time unit that is cut off. Frames that are sent at
once or thrown away change nothing and are not steps.

**RxPath.** A buffer of the driver that holds a frame is a slot, and a handle to it is
its number in a queue or in the hand of a task. `arc_buffers` is chosen in the initial
state, so both builds are checked: with reference counted handles a frame goes to
every interface it matches, without them only to a single one (the types in
`foa/src/lib.rs:261-311` are those of the build without; the other one is modelled from
`bg_task.rs` and `rx_arc_pool.rs`). `receive`,
`receive_awdl` and `processed` take a frame from a queue and drop it; futures that end
drop what they hold; the router's queues and the station's interface queue keep their
frames across operations, connections and endpoints, and the AWDL interface's queue
is cleared by `VirtualInterface::reset`. What is in a frame only matters for routing,
as its kind, whether it is for another address and whether another interface is off
channel.

## The runs

Ten runs pass; two show a disagreement between the code and a comment in it. Every
property of a passing run has a mutant, listed in `PROJECT.json`, under which TLC
finds it violated.

| Run | Question | Bounds, and why they are enough |
|---|---|---|
| `tx_queue` | Are the ring of slots, the owners of the buffers and the handles of old generations right, with a runner that is dropped and restarted, and does the ring implement `TxFifo`? | One queue (queues share only the pool), two slots and buffers, four frames: every slot is reused, by a frame two generations later. |
| `tx_live` | Is every frame sent, every waiter resumed, every abandoned buffer returned? | As above with a fair runner that is not dropped. |
| `lmac` | Is the radio where the lock says, does an operation have consent, do failed bringups release the lock, does the begin of an operation return? | Two interfaces that both lock and scan, two channels and an invalid one: every conflict between two is there, and the protocol has no step that involves three. |
| `rx_router` | Do operations exclude each other, does a wait have something to wait for? | Three operations, a frame type for each, queues of two frames. |
| `rx_router_start` | *violation*: does `start_operation` return? | Queues of one frame. |
| `sta` | Does a connection have its lock, filters and keys; does the runner follow the tracker? | Two protected networks and an open one, so that every kind of switch occurs; key slots for two connections; one retry of the handshake. |
| `sta_locked` | *violation*: is a connection always locked? | Two networks. |
| `rsn_rekey` | Does no frame pass the floor of its own key twice, and does an answer mean the key is installed? | Three group keys on two key IDs, so that an ID is reused; a queue of two frames, so that a frame and its repetition wait while that happens; one connection. |
| `rsn_reconnect` | Is no packet number used twice, does no counter go back? | Two connections with protected group messages, a queue of one frame. |
| `awdl` | Is the master followed, is a new session fresh, do stale peers leave, do events tell the peers? | Two peers with three kinds of advert, of both versions and including one who follows another, and a queue of one event, so that it overflows. |
| `awdl_slots` | Is the recovered clock right, are MSDUs sent in their slot, do MIFs keep coming? | 1.2 s, more than a channel sequence; four epochs of the peer, one of which makes its 16 bit window number wrap during the run; transmit deltas of 0 and 600 µs; a peer that shares many slots with us and one that shares one. |
| `rx_path` | Are the references exact, and does the driver get a buffer back? | Five buffers, one more than can be left behind in queues of one frame; both builds. |

`rsn_rekey`, `rsn_reconnect` and `awdl_slots` do not check deadlock: their bounds on
counters or time end every behaviour. Symmetry is used for group keys in `Rsn` and for
buffers and queues in `tx_queue`. It is not used in a run with liveness properties;
the refinement of `tx_queue` is a step property, for which symmetry is sound.
`Operations` of `rx_path` leaves out scans because a scan takes the same frames from
the router as an association does.

What the passing runs say, beyond types:

* *TX.* A buffer has one owner; no branch that panics is reached; interest in return
  data belongs to the frame in the slot, whatever older handles do; no wakeup is lost;
  `None` is returned only for frames that were overwritten or aborted.
* *Lower MAC.* When nobody is off channel the radio is on the locked channel; a lock
  is only left behind by a bringup whose channel the radio refuses; an operation runs
  with the consent, given after it asked, of everyone it asked; the locked channel
  changes only by who holds the lock alone, before and after. `I1BeginReturns` checks the liveness for one interface; the
  interfaces are interchangeable.
* *Router.* Although `start_operation` does not check again after its wait, operations
  exclude each other, and an endpoint waits only while there is an operation to wait
  for or the end of one is signaled.
* *Station.* A connection of a caller that let the runner finish the old one holds its
  channel and filters; protected connections have their own keys; the runner misses no
  change although the signal keeps one value.
* *RSN.* Neither late nor repeated messages lower the receive floor of a key in use,
  bring an old group key back or reuse a packet number.
* *AWDL.* The master is ourselves or a cached peer and is replaced in the step that
  purges it; a session has its lock and both filters, and without one there is neither a
  lock nor a filter for our address; what we know of a peer's clock is never early, and
  late by less than a time unit and twice the longest transmit delta; an MSDU that waited for a slot is sent in it although clocks are
  resynchronized while it waits; a MIF goes out at least every seven PSF periods unless
  an off channel request or a new master's clock disturbs the timer, if a frame takes at
  most one and a half time units, transmit delta included, and the stale peer timer has at
  least a second.
* *RX.* A slot is free exactly when nobody has a handle to it; the driver gets a
  buffer back if it has more buffers than frames can be left behind in queues nobody
  reads. **The default sizes do not satisfy this**: 8 RX buffers, two router queues of
  4 frames, one frame in a caller's hand and interface queues of 2 frames.

### The two violations

* `rx_router_start`: "Start an operation and asynchronously wait for another operation
  to finish" (`foa/src/util/rx_router.rs:422`). While one endpoint waits for the
  operation of the other, that one makes a transition to its next step. Starting the
  step resets the completion signal and with it the waker, and the end of the operation
  wakes nobody: the wait goes on although no operation is active.
* `sta_locked`: "At this point, the channel will have been locked" (`foa_sta/src/runner.rs:411`).
  When `connect` replaces a connection before the runner was polled, the runner's
  cleanup of the old connection unlocks the channel of the new one.

### Statements of comments that have no run

These are defined beside the properties, with the comment they quote, and do not hold
either. To see a counterexample put one as the only property into the named
configuration.

| Definition | Module and configuration | What happens instead |
|---|---|---|
| `SlowTaskDoesNotBlock` | `TxQueue`, `MCTxQueue.cfg` | A handle that is kept and never polled keeps its buffer. |
| `InvalidOnlyAfterMoreThanCount` | `TxQueue`, `MCTxQueue.cfg` | A slot is reused after exactly `TX_BUFFER_COUNT` frames. |
| `OneOperationAtATime` | `LMac`, `MCLMac.cfg` | An attempt that has its grants starts although another interface began an operation meanwhile. |
| `WaitMeansComplete` | `LMac`, `MCLMac.cfg` | The completion watch still has the value of an earlier operation. |
| `FailedBringupUnlocks` | `LMac`, `MCLMac.cfg` | A lock on a channel the radio refuses stays. |
| `AllHoldersAreAsked` | `LMac`, `MCLMac.cfg` | An interface locks after the requests were sent. |
| `OnlyCompatibleTogether` | `RxRouter`, `MCRxRouterSta.cfg` with `Concurrent = TRUE` and `Compatible <- SamePairs` | The signal of an earlier completion ends the wait of `start_operation`, after which nothing is checked. |
| `ResponseIsOfThisOperation`, `ScanReceivesRelevant` | `RxRouter`, `MCRxRouterSta.cfg` | A new operation or step finds frames of an earlier one in its queue. |
| `MsdusOnChannel` | `Sta`, `MCSta.cfg` | The task checks, awaits a TX buffer, and queues the MSDU although a scan has begun. |
| `MsdusUseOwnKeys` | `Sta`, `MCSta.cfg` | `connect` to an open network before the runner was polled leaves the old keys. |
| `DeauthOnChannel` | `Sta`, `MCSta.cfg` | The deauth frame is still queued when the radio moves to the next network. |
| `NoFrameRepeated` | `Rsn`, `MCRsnRekey.cfg` | A repeated group frame waits in the queue while its ID gets a new key. It is checked against the floor of that key, passes, and raises it. |
| `CounterDecides` | `Awdl`, `MCAwdl.cfg` with `Adverts <- CountingAdverts` | A counter is compared with itself. |
| `PurgedEverySecond` | `Awdl`, `MCAwdl.cfg` | The period of the timer is the timeout, and a new timeout waits for the next tick. |

`TypeOK` of `Sta`, `Rsn` and `Awdl` can be added to their configurations in the same
way and holds; it is proved (`StaTypeCorrect`, `RsnTypeCorrect`, `AwdlTypes`).

## Fairness

The executor polls a task that was woken, and nothing else is assumed of it. The
fairness conditions name the steps of tasks in that situation:

* `TxQueue`: a runner that is runnable, the radio (the driver has timeouts), and a
  waiter whose waker was woken. Callers may keep buffers and handles for ever.
* `LMac`: a runner answers the requests it is polled for, and a requester that was woken
  is polled. Nobody has to begin, end or drop anything.
* `RxRouter`: a start that was woken is resumed. Operations may last for ever.
* `Sta`: a signalled runner is polled. Nothing is assumed of the application.
* `Awdl`: the runner takes a signal; `start` is resumed when off channel operations end.
* `RxPath`: the routing task and the AWDL receiver take what is in their queues and
  drop it; the connection runner does not keep a frame for ever (sending its answers
  ends, since the radio does; the AWDL receiver drops a frame for which the network
  stack has no buffer in time). That an application polls the future of a scan or a
  connect is not assumed.

`Rsn` and `AwdlSlots` have no liveness properties; `MifsKeepComing` is a bound on time
and so an invariant.

## What is proved

TLAPS checks the following for every value of the constants that satisfies the
assumptions named in the modules.

**TX queue** (`TxQueueProofs`, and `TxQueueHandle` for handles and panics; from
`TxQueueAssumption`: as many buffers as slots, at least one). The layers build on each other.
`RingInv` says that the last `TX_BUFFER_COUNT - capacity` generations are in the slots
their remainders name, occupied and in order, and that the other slots hold no pending
frame; it is needed because `front_index` counts back from the counter. It
yields `TypeCorrect` and `GenerationCheck`. `OwnerInv` says that pool, callers, slots and
runners have no buffer in common and that together they have all; with the ring, a
caller that owns a buffer leaves fewer than `TX_BUFFER_COUNT` for the queue, which is
why there is capacity (`OneOwner`, `PanicFree`). `RingImplementsFifo` is the refinement
of `TxFifo`. Its mapping reads the pending frames of a queue off the ring as a function
of their distance from the counter, so that appending and removing one are equations
between functions and need no induction: `enqueue_frame` is an `Enqueue` (the ring
has room because `OwnerInv` leaves the queue a slot for the caller's buffer), taking the
oldest frame is a `Start`, the end of a transmission and the dropped background task are
a `Finish` of one or of all active queues, and every other step stutters. `HandleInv` relates a slot's interest flag and waker to
the handle of the generation in it, and gives `CurrentInterest`, `WakeupsKept` and
`NoneExplained`.

**Lower MAC** (`LMacProofs`; from `LMacAssumption`). `LockReleased` says that the lock has
a channel exactly when somebody holds it. `ChannelFixed` is a fact about single steps: `lock_channel`
refuses another channel to who is not the only holder.
`RadioHome` and `ValidLocksDoNotLeak` are inductive together with the types, and their proofs
go through the few kinds of step that move the lock, the radio or an operation
(`LockSteps`, `OperationSteps`). `Consent` is not inductive: it is strengthened by
`ConsentIsCollected`, which says of an attempt that still waits that the answers it has
taken were grants to it or that it was refused, and that a grant it has not taken yet
was given to it.

**RX router** (`RxProofs`; from `RxRouterAssumption`). `ControlInv` adds
`SignalMeansIdle` to the two properties: without concurrent operations a signal that is
set means that no operation is active. That is why the missing second check is
harmless (`Exclusion`) and why waits have a cause (`NoIdleWait`). `TypeCorrect` follows
from the routing and receiving steps.

**RX path** (also `RxProofs`, where `RxPath` is an instance named `Path`; its assumption,
positive sizes and frames for known interfaces, is the hypothesis of the theorem).
`ReferencesAreExact` compares a counter with the number of places where a handle is, which
no step preserves by itself. `PathInv` says where the handles are: on its way to an
interface a frame is in one place, that is, no queue has a slot twice and no two places of
a way have one in common (`OnePlace`); and the pool has 1 for slots on both ways, 0 for
slots on one and nothing for others, with both ways only under `arc_buffers` (`Counted`).
Every step moves a slot along its way, takes it off it together with a drop, or puts a free
slot on the ways of its recipients. `DropAll` is what clearing a queue does to the pool:
the recursion has a closed form because the slots are different. Counting the places
(`OnePlaceOnEachWay`) then gives `ReferencesExact`.

**Station** (`StaProofs`; from `StaAssumption`). The three safety properties of the `sta`
run, for any networks, key slots and retries. `KeysInstalled` is inductive as it stands.
`RunnerServesConnection` is not: `TrackerInv` adds that the runner is parked exactly
while it serves no network, that a call which makes or ends a connection is in a state
without one, and that a signal not yet taken can announce a connection only to a parked
runner. So no value of the signal that is overwritten is one the runner needed.
`ConnectedHoldsChannel` is about callers that let the runner finish first (`paced`);
`PacedInv` says of such an attempt that the lock and, from its first frame on, the filters
are its own, and that the runner is parked without a signal. Nothing but the runner's
cleanup takes them away, so they are still there when the connection is
(`ConnectionHoldsChannel`). The run `sta_locked` shows that other callers do lose the lock.

**RSN** (`RsnProofs`; from `RsnAssumption`, which keeps `None` apart from keys, IDs and
kinds of frames). All properties of the two runs, for any number of group keys, IDs,
connections and frames, in any order of arrival, lost or repeated.

* `PnInv`: every packet number used is below the next one (`PacketNumbersUnique`).
* `NonceInv`, `AirInv`, `PendingInv`: the keys of an established connection are those of
  the current exchange, during a handshake they are of an earlier one, and what is about
  to be installed came with a message of the access point.
* `OrderInv`: the messages of an exchange about one group key have adjacent replay
  counters. This is the access point's promise never to use an old key again, in the
  form the station can rely on.
* `KeysInv`, `AckInv`: every installed key came with a message up to the replay counter,
  the active one with the last, the hardware has the same keys, and answers are only to
  messages up to the counter. With `OrderInv` an acknowledged current key is still
  active (`AcknowledgedIsInstalled`).
* `DeliveredInv`: a delivered frame is at or below the receive floor of its key, or its
  key was replaced by a later message. `newer_message` refuses everything up to the
  counter, so by `OrderInv` a replaced key cannot return and the floor it had need not be
  kept. Messages are ordered by `Before`, across the exchanges of two connections.
* `QueueInv`: a queued group frame has the ID of its key, and that ID still has the key or
  the key was replaced. So a queued frame is checked against the floor of its own key, or
  its key is one that does not return.

Together they give `FramesDeliveredOnce`: no frame passes the floor of its own key again.
It does not say that a frame is never handed on twice. A frame that waits in the queue
while another key takes its ID is checked against that key's floor (`NoFrameRepeated` above).

`CountersGrow` is a fact about single steps from states with the invariant. The proofs first say what
the handlers do to the state (`ApSteps`, `StationSteps`, `HandleEffect`) and then go through
these few kinds of step for every part of the invariant.

**AWDL clock** (`AwdlSlotsProofs`; from `SlotsAssumption`: the session starts at least
one channel sequence after boot, and transmit deltas are at most seven time units).
`SlotInv` says that a cached clock is the peer's, late by less than `Lateness` (a time unit
and twice the bound of the deltas), and that a waiting MSDU waits for a time that has not
passed and lies in its slot. It is inductive because times and the peer's clock do not change while a
frame waits, whatever happens to ours. The arithmetic is in lemmas: a 16 bit window number
loses a multiple of 64 channel sequences (`RecoveredEpoch`), and a time 110 µs into a slot
of a clock that is late by less than `Lateness` is in the first window of that slot of the
true clock (`InSlot`). They give
`ClockIsRight` and `MsdusAreInSlot` for every epoch, channel sequence, jitter, delta and loss.
`MifInv` is why MIFs keep coming (`MifsComeInTime`). A round that ends in the second half of a
slot puts the MIF off by a channel sequence, and one that ends in the first half lets
it go out; the ticker of the PSFs moves on by 46 of the 64 time units of a slot, so that one
of three PSFs in a row ends in a first half (`RoundsPass`, `LastRoundIsEarly`). This gives a
MIF within 413 time units of the last one, unless the stale peer timer starts a round at a
bad moment, which it does at most once in seven periods. A bound of five periods holds in
the 1.2 s of the run and not in longer sessions.

**AWDL sessions** (`AwdlProofs`; from `AwdlAssumption`). All safety properties of the `awdl`
run, for any finite set of peers and whatever they advertise. `AwdlInv` has two additions.
`ControlInv` speaks of the state that the signal, once taken, leads to: a session has both
filters, without one there is none for our address, and the lock is that of
the state unless a start was cancelled or is in progress (`ChannelIsHeld`). `CacheInv` says that the age of a cached peer and the time until the next
tick of the timer make less than two periods (`SilentPeersLeave`). The others are
inductive with them (`MasterFollowed`, `SessionsStartFresh`, `EventsAreComplete`); that the
result of an election is ourselves or a cached peer is `MasterIsStation`. `AwdlTypes` includes that
the cache and the queue of events keep their bounds. `LargestMetricWins` says what an
election decides among stations that all send a counter: the metric, in every order of
the cache, since the counters are compared with themselves.

Two operators are recursive functions over sequences (`find_master`, `drop_all`). What the
proofs need of them is shown with the least counterexample: a set of natural numbers that
is not empty has a least element (`Least`), which is a fact about sets and so within the
prover's reach, where an induction rule over predicates is not.

## What is only model-checked

* Liveness (`FramesAreTransmitted`, `WaitersResolve`, `AbandonedBuffersReturn`, `I1BeginReturns`,
  `LinkFollowsState`, `SignalsAreObeyed`, `RadioKeepsReceiving`): the prover does neither
  fairness nor ENABLED.

Every safety property of a passing run is proved. The statements of comments that do not
hold have neither a passing run nor a theorem.

## What is not modelled, and why

* *Frame formats*: building, parsing and converting 802.11, AWDL and Ethernet frames,
  BSS descriptions, key derivation and MICs. They are functions on bytes of external
  crates or sequential code around them.
* *Drivers*: `esp_wifi_hal`, the executor, channels, signals and timers appear as what
  the code relies on.
* *Beacon TX* and TX parameters: passed through to the driver.
* *TX pool in Sta*: the number of buffers is not counted there. With a pool of one the
  handshake, which keeps one buffer while it allocates another, would wait for
  itself.
* *Scan details*: dwell times and matching beacons against a search.
* *The sequence number of AWDL data frames*: a `u16` that is incremented without
  wrapping (`foa_awdl/src/runner/tx.rs:142`), and overflows after 65536 MSDUs.
* *Slots in the first second after boot*: `slot_start_timestamp` falls back to the
  present when the channel sequence began before boot; `AwdlSlots` starts later.
* *Probes*, examples and tests: recorders of a debug feature, and programs that use
  the stack in ways the callers of the models already have.

------------------------------ MODULE TxQueue ------------------------------
(***************************************************************************)
(* The software EDCA transmit queues of foa and the buffer pool they share *)
(* (foa/src/tx_queue.rs, foa/src/tx_buffer_management.rs, and the TxRunner  *)
(* of foa/src/bg_task.rs).                                                 *)
(*                                                                         *)
(* Everything runs on one cooperative executor: a section between two      *)
(* awaits is one action.  The actors are the callers of TxEndpoint, which  *)
(* own TxBuffers and PendingTransmission handles, and one TxQueueRunner    *)
(* per queue.  A handle is named by its queue and its generation (the      *)
(* value of the running counter at its enqueue).                           *)
(***************************************************************************)
EXTENDS Integers, FiniteSets, Sequences

CONSTANTS
  TX_BUFFER_COUNT,  \* slots per queue, and buffers in the shared pool
  Queues,           \* the EDCA queues
  Buffers,          \* the pre-allocated transmit buffers
  NoBuffer,         \* "holds no buffer"
  MaxCounter,       \* u64::MAX in the code: increase_queue_counter panics there
  RunnerMayStop     \* may the future of the background task be dropped?

ASSUME TxQueueAssumption ==
  /\ TX_BUFFER_COUNT \in Nat \ {0}
  /\ MaxCounter \in Nat
  /\ IsFiniteSet(Buffers)
  /\ Cardinality(Buffers) = TX_BUFFER_COUNT
  /\ NoBuffer \notin Buffers
  /\ RunnerMayStop \in BOOLEAN

VARIABLES
  slot,      \* slot[q][i]: TxQueueSlot, its state and the buffer it owns
  expected,  \* expected[q][i]: return_data_expected
  waker,     \* waker[q][i]: generation whose waiter is registered, or None
  counter,   \* counter[q]: running counter, generation of the next enqueue
  capacity,  \* capacity[q]: capacity left in the queue
  runner,    \* runner[q]: control point of TxQueueRunner::run
  handle,    \* handle[q][g]: life cycle of the handle of generation g
  pool,      \* buffers in the channel of TxBufferManager
  callers,   \* buffers owned by a caller as a TxBuffer
  written,   \* history: generation last written to each slot, or None
  aborted    \* history: generations whose transmission was aborted

vars == <<slot, expected, waker, counter, capacity, runner, handle, pool,
          callers, written, aborted>>

Slots == 0 .. TX_BUFFER_COUNT - 1
Generations == 0 .. MaxCounter - 1
None == -1

Occupied == {"Pending", "InProgress"}
EmptySlot == [state |-> "Empty", frame |-> NoBuffer]

(* A handle that exists: not awaited, awaited and asleep, awaited and      *)
(* scheduled, or resolved but not dropped yet.                             *)
Waiting == {"Parked", "Woken"}
Unresolved == {"Held"} \cup Waiting
Live == Unresolved \cup {"GotData", "GotNone"}

StoppedRunner == [at |-> "Stopped", index |-> 0, frame |-> NoBuffer]
RunnableRunner == [at |-> "Runnable", index |-> 0, frame |-> NoBuffer]
ParkedRunner == [at |-> "Parked", index |-> 0, frame |-> NoBuffer]

-----------------------------------------------------------------------------
(* TxQueueState: index arithmetic.                                         *)

(* Mutant: a single queued frame does not count.                           *)
is_empty_OffByOne(q) == capacity[q] >= TX_BUFFER_COUNT - 1

is_empty(q) == capacity[q] = TX_BUFFER_COUNT

len(q) == TX_BUFFER_COUNT - capacity[q]

next_slot_index(q) == counter[q] % TX_BUFFER_COUNT

(* Mutant: the most recently inserted item instead of the oldest.          *)
front_index_Newest(q) == (counter[q] + TX_BUFFER_COUNT - 1) % TX_BUFFER_COUNT

front_index(q) ==
  IF next_slot_index(q) >= len(q)
  THEN next_slot_index(q) - len(q)
  ELSE TX_BUFFER_COUNT - (len(q) - next_slot_index(q))

(* Mutant: the comparison before the off-by-one of tx_queue.rs was fixed.   *)
is_counter_out_of_bounds_Ge(q, g) == counter[q] - g >= TX_BUFFER_COUNT

is_counter_out_of_bounds(q, g) == counter[q] - g > TX_BUFFER_COUNT

slot_index(g) == g % TX_BUFFER_COUNT

(* The buffer a dropped value gives back to the pool, as a set.            *)
Freed(s) == {s.frame} \ {NoBuffer}

-----------------------------------------------------------------------------
Init ==
  /\ slot = [q \in Queues |-> [i \in Slots |-> EmptySlot]]
  /\ expected = [q \in Queues |-> [i \in Slots |-> TRUE]]
  /\ waker = [q \in Queues |-> [i \in Slots |-> None]]
  /\ counter = [q \in Queues |-> 0]
  /\ capacity = [q \in Queues |-> TX_BUFFER_COUNT]
  /\ runner = [q \in Queues |-> RunnableRunner]
  /\ handle = [q \in Queues |-> [g \in Generations |-> "None"]]
  /\ pool = Buffers
  /\ callers = {}
  /\ written = [q \in Queues |-> [i \in Slots |-> None]]
  /\ aborted = [q \in Queues |-> {}]

-----------------------------------------------------------------------------
(* Callers: the buffer pool.                                               *)

(* TxBufferManager::alloc and try_alloc: take a buffer from the channel.   *)
alloc(b) ==
  /\ b \in pool
  /\ pool' = pool \ {b}
  /\ callers' = callers \cup {b}
  /\ UNCHANGED <<slot, expected, waker, counter, capacity, runner, handle,
                 written, aborted>>

(* Drop of a TxBuffer: send it back to the channel.                        *)
drop_buffer(b) ==
  /\ b \in callers
  /\ pool' = pool \cup {b}
  /\ callers' = callers \ {b}
  /\ UNCHANGED <<slot, expected, waker, counter, capacity, runner, handle,
                 written, aborted>>

-----------------------------------------------------------------------------
(* Callers: transmissions.                                                 *)

(* Mutant: the runner is not woken.                                        *)
WakeRunner_Lost(r) == r

(* The runner as queue_update_waker.wake() leaves it.                      *)
WakeRunner(r) == IF r.at = "Parked" THEN RunnableRunner ELSE r

(* enqueue_frame.  The old value of the slot is dropped, which frees the   *)
(* buffer of return data nobody fetched.  The two panics (exhausted        *)
(* capacity, exhausted counter) are the two first conjuncts.               *)
enqueue_frame(q, b) ==
  LET i == next_slot_index(q)
      g == counter[q]
  IN
  /\ capacity[q] > 0
  /\ counter[q] < MaxCounter
  /\ b \in callers
  /\ counter' = [counter EXCEPT ![q] = g + 1]
  /\ capacity' = [capacity EXCEPT ![q] = @ - 1]
  /\ slot' = [slot EXCEPT ![q][i] = [state |-> "Pending", frame |-> b]]
  /\ expected' = [expected EXCEPT ![q][i] = TRUE]
  /\ runner' = [runner EXCEPT ![q] = IF is_empty(q) THEN WakeRunner(@) ELSE @]
  /\ handle' = [handle EXCEPT ![q][g] = "Held"]
  /\ pool' = pool \cup Freed(slot[q][i])
  /\ callers' = callers \ {b}
  /\ written' = [written EXCEPT ![q][i] = g]
  /\ UNCHANGED <<waker, aborted>>

(* One poll of wait_for_completion.  A task that joins or selects several  *)
(* futures also polls this one while it is parked.                         *)
poll_completion(q, g) ==
  LET i == slot_index(g) IN
  /\ handle[q][g] \in Unresolved
  /\ \/ /\ is_counter_out_of_bounds(q, g)
        /\ handle' = [handle EXCEPT ![q][g] = "GotNone"]
        /\ UNCHANGED <<slot, callers, waker>>
     \/ /\ ~is_counter_out_of_bounds(q, g)
        /\ slot[q][i].state = "ReturnDataAvailable"
        /\ handle' = [handle EXCEPT ![q][g] = "GotData"]
        /\ slot' = [slot EXCEPT ![q][i] = EmptySlot]
        /\ callers' = callers \cup {slot[q][i].frame}
        /\ UNCHANGED waker
     \/ /\ ~is_counter_out_of_bounds(q, g)
        /\ slot[q][i].state = "Empty"
        /\ handle' = [handle EXCEPT ![q][g] = "GotNone"]
        /\ UNCHANGED <<slot, callers, waker>>
     \/ /\ ~is_counter_out_of_bounds(q, g)
        /\ slot[q][i].state \in Occupied
        /\ handle' = [handle EXCEPT ![q][g] = "Parked"]
        /\ waker' = [waker EXCEPT ![q][i] = g]
        /\ UNCHANGED <<slot, callers>>
  /\ UNCHANGED <<expected, counter, capacity, runner, pool, written, aborted>>

(* Mutant: no generation check, a delayed old handle cancels the occupant. *)
drop_handle_NoBoundsCheck(q, g) ==
  LET i == slot_index(g) IN
  /\ handle[q][g] \in Live
  /\ handle' = [handle EXCEPT ![q][g] = "Gone"]
  /\ expected' = [expected EXCEPT ![q][i] = FALSE]
  /\ IF slot[q][i].state = "ReturnDataAvailable"
     THEN /\ slot' = [slot EXCEPT ![q][i] = EmptySlot]
          /\ pool' = pool \cup Freed(slot[q][i])
     ELSE UNCHANGED <<slot, pool>>
  /\ UNCHANGED <<waker, counter, capacity, runner, callers, written, aborted>>

(* PendingTransmission::status, a query.                                   *)
status(q, g) ==
  IF is_counter_out_of_bounds(q, g) \/ slot[q][slot_index(g)].state = "Empty"
  THEN "SlotNoLongerValid"
  ELSE slot[q][slot_index(g)].state

(* Drop of a PendingTransmission, awaited or not.                          *)
drop_handle(q, g) ==
  LET i == slot_index(g) IN
  /\ handle[q][g] \in Live
  /\ handle' = [handle EXCEPT ![q][g] = "Gone"]
  /\ IF is_counter_out_of_bounds(q, g)
     THEN UNCHANGED <<expected, slot, pool>>
     ELSE /\ expected' = [expected EXCEPT ![q][i] = FALSE]
          /\ IF slot[q][i].state = "ReturnDataAvailable"
             THEN /\ slot' = [slot EXCEPT ![q][i] = EmptySlot]
                  /\ pool' = pool \cup Freed(slot[q][i])
             ELSE UNCHANGED <<slot, pool>>
  /\ UNCHANGED <<waker, counter, capacity, runner, callers, written, aborted>>

-----------------------------------------------------------------------------
(* The background task.                                                    *)

(* TxQueueRunner::run up to its next await: sleep on an empty queue, or    *)
(* take the frame out of the front slot and hand it to the radio.          *)
wait_queue_not_empty(q) ==
  /\ runner[q].at = "Runnable"
  /\ is_empty(q)
  /\ runner' = [runner EXCEPT ![q] = ParkedRunner]
  /\ UNCHANGED <<slot, expected, waker, counter, capacity, handle, pool,
                 callers, written, aborted>>

try_receive(q) ==
  LET i == front_index(q) IN
  /\ runner[q].at = "Runnable"
  /\ ~is_empty(q)
  /\ slot[q][i].state = "Pending"   \* anything else is unreachable!()
  /\ slot' = [slot EXCEPT ![q][i] = [state |-> "InProgress", frame |-> NoBuffer]]
  /\ runner' = [runner EXCEPT ![q] = [at |-> "Transmitting", index |-> i,
                                      frame |-> slot[q][i].frame]]
  /\ UNCHANGED <<expected, waker, counter, capacity, handle, pool, callers,
                 written, aborted>>

(* Mutant: the slot is emptied whether or not return data is expected.     *)
finish_AlwaysEmpty(q, i, new) == EmptySlot

(* InProgressTransmission::finish on slot i of queue q: the slot's new     *)
(* value, what is discarded, and the handle its waker schedules.           *)
finish(q, i, new) == IF expected[q][i] THEN new ELSE EmptySlot

(* Mutant: discarded return data is forgotten instead of dropped.          *)
Discarded_Forgotten(q, i, new) == {}

Discarded(q, i, new) == IF expected[q][i] THEN {} ELSE Freed(new)

(* Mutant: the completed slot's waker is not woken.                        *)
WakeWaiter_Lost(q, i) == handle[q]

WakeWaiter(q, i) ==
  [g \in Generations |->
     IF g = waker[q][i] /\ handle[q][g] = "Parked" THEN "Woken" ELSE handle[q][g]]

(* Mutant: without the mem::forget, Drop finishes the slot a second time.  *)
transmit_NoForget(q) ==
  LET i == runner[q].index
      new == [state |-> "ReturnDataAvailable", frame |-> runner[q].frame]
  IN
  /\ runner[q].at = "Transmitting"
  /\ capacity' = [capacity EXCEPT ![q] = @ + 2]
  /\ slot' = [slot EXCEPT ![q][i] = EmptySlot]
  /\ pool' = pool \cup Freed(new)
  /\ handle' = [handle EXCEPT ![q] = WakeWaiter(q, i)]
  /\ runner' = [runner EXCEPT ![q] = RunnableRunner]
  /\ UNCHANGED <<expected, waker, counter, callers, written, aborted>>

(* The radio future returns, with success or an error: transmit finishes   *)
(* the slot with the return data.                                          *)
transmit(q) ==
  LET i == runner[q].index
      new == [state |-> "ReturnDataAvailable", frame |-> runner[q].frame]
  IN
  /\ runner[q].at = "Transmitting"
  /\ capacity' = [capacity EXCEPT ![q] = @ + 1]
  /\ slot' = [slot EXCEPT ![q][i] = finish(q, i, new)]
  /\ pool' = pool \cup Discarded(q, i, new)
  /\ handle' = [handle EXCEPT ![q] = WakeWaiter(q, i)]
  /\ runner' = [runner EXCEPT ![q] = RunnableRunner]
  /\ UNCHANGED <<expected, waker, counter, callers, written, aborted>>

(* The future of FoARunner::run is dropped, and with it the futures of all *)
(* queues.  Drop of an InProgressTransmission finishes its slot as Empty   *)
(* and the PendingFrame it transmitted gives its buffer back.              *)
drop_runner ==
  LET active == {q \in Queues : runner[q].at = "Transmitting"} IN
  /\ RunnerMayStop
  /\ \A q \in Queues : runner[q].at # "Stopped"
  /\ capacity' = [q \in Queues |-> IF q \in active THEN capacity[q] + 1
                                                   ELSE capacity[q]]
  /\ slot' = [q \in Queues |->
                IF q \in active
                THEN [slot[q] EXCEPT ![runner[q].index] =
                        finish(q, runner[q].index, EmptySlot)]
                ELSE slot[q]]
  /\ pool' = pool \cup {runner[q].frame : q \in active}
  /\ handle' = [q \in Queues |-> IF q \in active
                                 THEN WakeWaiter(q, runner[q].index)
                                 ELSE handle[q]]
  /\ aborted' = [q \in Queues |->
                   IF q \in active
                   THEN aborted[q] \cup {written[q][runner[q].index]}
                   ELSE aborted[q]]
  /\ runner' = [q \in Queues |-> StoppedRunner]
  /\ UNCHANGED <<expected, waker, counter, callers, written>>

(* FoARunner::run is called again: the four run loops start over.          *)
run ==
  /\ \A q \in Queues : runner[q].at = "Stopped"
  /\ runner' = [q \in Queues |-> RunnableRunner]
  /\ UNCHANGED <<slot, expected, waker, counter, capacity, handle, pool,
                 callers, written, aborted>>

-----------------------------------------------------------------------------
Next ==
  \/ \E b \in Buffers : alloc(b)
  \/ \E b \in Buffers : drop_buffer(b)
  \/ \E q \in Queues, b \in Buffers : enqueue_frame(q, b)
  \/ \E q \in Queues, g \in Generations : poll_completion(q, g)
  \/ \E q \in Queues, g \in Generations : drop_handle(q, g)
  \/ \E q \in Queues : wait_queue_not_empty(q)
  \/ \E q \in Queues : try_receive(q)
  \/ \E q \in Queues : transmit(q)
  \/ drop_runner
  \/ run

Spec == Init /\ [][Next]_vars

(* The executor polls a task that was woken, and the radio, which has its  *)
(* own timeouts, finishes a transmission.  Nothing is assumed of callers:  *)
(* they may keep buffers and handles for ever.                             *)
Fairness ==
  /\ \A q \in Queues : WF_vars(wait_queue_not_empty(q) \/ try_receive(q))
  /\ \A q \in Queues : WF_vars(transmit(q))
  /\ \A q \in Queues, g \in Generations :
       WF_vars(handle[q][g] = "Woken" /\ poll_completion(q, g))

FairSpec == Spec /\ Fairness

-----------------------------------------------------------------------------
(* Properties.                                                             *)

SlotValues ==
  [state : {"Empty", "InProgress"}, frame : {NoBuffer}]
    \cup [state : {"Pending", "ReturnDataAvailable"}, frame : Buffers]

HandleStates == Live \cup {"None", "Gone"}

RunnerStates ==
  [at : {"Stopped", "Runnable", "Parked"}, index : {0}, frame : {NoBuffer}]
    \cup [at : {"Transmitting"}, index : Slots, frame : Buffers]

(* Every variable stays in its domain; in particular capacity never leaves *)
(* 0..TX_BUFFER_COUNT (it is a usize: len() would underflow above) and a   *)
(* slot owns a buffer exactly when its variant carries one.                *)
TypeOK ==
  /\ slot \in [Queues -> [Slots -> SlotValues]]
  /\ expected \in [Queues -> [Slots -> BOOLEAN]]
  /\ waker \in [Queues -> [Slots -> Generations \cup {None}]]
  /\ counter \in [Queues -> 0 .. MaxCounter]
  /\ capacity \in [Queues -> 0 .. TX_BUFFER_COUNT]
  /\ runner \in [Queues -> RunnerStates]
  /\ handle \in [Queues -> [Generations -> HandleStates]]
  /\ pool \in SUBSET Buffers
  /\ callers \in SUBSET Buffers
  /\ written \in [Queues -> [Slots -> Generations \cup {None}]]
  /\ aborted \in [Queues -> SUBSET Generations]

(* The places a TxBuffer can be: the pool, a caller, a slot, or the frame  *)
(* the runner is transmitting.                                             *)
Places ==
  {<<"pool">>, <<"caller">>}
    \cup {<<"slot", q, i>> : q \in Queues, i \in Slots}
    \cup {<<"radio", q>> : q \in Queues}

Holds(p, b) ==
  \/ p = <<"pool">> /\ b \in pool
  \/ p = <<"caller">> /\ b \in callers
  \/ \E q \in Queues, i \in Slots : p = <<"slot", q, i>> /\ slot[q][i].frame = b
  \/ \E q \in Queues : p = <<"radio", q>> /\ runner[q].frame = b

(* Each buffer has exactly one owner at every moment: none is leaked by a  *)
(* cancelled caller, an overwritten slot or an aborted runner, and none is *)
(* handed out twice (the safety argument of the unsafe Deref of TxBuffer   *)
(* and of the ignored try_send error in its Drop).                         *)
BuffersHaveOneOwner ==
  \A b \in Buffers : \E p \in Places :
    Holds(p, b) /\ \A p2 \in Places : Holds(p2, b) => p2 = p

(* The queue panics nowhere: a caller that owns a buffer finds capacity in *)
(* every queue (the assert of enqueue_frame), and a runner that finds the  *)
(* queue not empty finds a pending frame in front (the unreachable!s of    *)
(* try_receive).                                                           *)
NoPanic ==
  \A q \in Queues :
    /\ callers # {} => capacity[q] > 0
    /\ runner[q].at = "Runnable" /\ ~is_empty(q)
         => slot[q][front_index(q)].state = "Pending"

(* is_counter_out_of_bounds is exact: a generation is declared overwritten *)
(* if and only if a later frame was really written to its slot.            *)
GenerationCheckExact ==
  \A q \in Queues : \A g \in Generations :
    g < counter[q] =>
      (is_counter_out_of_bounds(q, g) <=> written[q][slot_index(g)] # g)

(* Completion interest belongs to the generation in the slot: whatever     *)
(* older handles did, return data is expected for an occupied slot exactly *)
(* while the handle of its own frame waits for it, and completed return    *)
(* data never sits in a slot with nobody left to claim it.                 *)
InterestIsCurrent ==
  \A q \in Queues, i \in Slots :
    LET claimed == handle[q][written[q][i]] \in Unresolved IN
    /\ slot[q][i].state \in Occupied => (expected[q][i] <=> claimed)
    /\ slot[q][i].state = "ReturnDataAvailable" => claimed

(* No wake-up is lost: a runner sleeps only on an empty queue, and a       *)
(* waiter sleeps only while its own frame is still queued or on the air    *)
(* and its waker is the one registered in the slot.                        *)
NoLostWakeup ==
  \A q \in Queues :
    /\ runner[q].at = "Parked" => is_empty(q)
    /\ \A g \in Generations :
         handle[q][g] = "Parked" =>
           /\ ~is_counter_out_of_bounds(q, g)
           /\ slot[q][slot_index(g)].state \in Occupied
           /\ waker[q][slot_index(g)] = g

(* A waiter is told None only if its slot was reused or the runner was     *)
(* aborted while transmitting its frame; in every other case it gets its   *)
(* own return data.                                                        *)
NoneOnlyIfOverwrittenOrAborted ==
  \A q \in Queues, g \in Generations :
    handle[q][g] = "GotNone" =>
      is_counter_out_of_bounds(q, g) \/ g \in aborted[q]

(* Every enqueued frame eventually leaves the queue, whatever its caller   *)
(* does with the handle.                                                   *)
Queued(q, g) ==
  /\ written[q][slot_index(g)] = g
  /\ slot[q][slot_index(g)].state \in Occupied

FramesAreTransmitted ==
  \A q \in Queues, g \in Generations : Queued(q, g) ~> ~Queued(q, g)

(* A caller that awaits wait_for_completion is eventually resumed.         *)
WaitersResolve ==
  \A q \in Queues, g \in Generations :
    (handle[q][g] \in Waiting) ~> (handle[q][g] \notin Waiting)

(* Fire and forget does not drain the pool: once no caller holds a buffer  *)
(* or a handle, all buffers come back (or a caller becomes active again).  *)
Abandoned ==
  callers = {} /\ \A q \in Queues, g \in Generations : handle[q][g] \notin Live

AbandonedBuffersReturn == Abandoned ~> (pool = Buffers \/ ~Abandoned)

(* The frame of generation g: while its slot is in progress, it is in the  *)
(* hands of the runner.                                                    *)
FrameOf(q, g) ==
  LET i == slot_index(g) IN
  IF slot[q][i].state = "InProgress" THEN runner[q].frame ELSE slot[q][i].frame

(* The frames a queue holds, oldest first, as the ring stores them: the    *)
(* generations counter - len .. counter - 1.                               *)
PendingFrames(q) ==
  [k \in 1 .. len(q) |-> FrameOf(q, counter[q] - len(q) + k - 1)]

FifoPending == [q \in Queues |-> PendingFrames(q)]
FifoAir == [q \in Queues |-> runner[q].frame]

Fifo == INSTANCE TxFifo WITH
  Frames <- Buffers, NoFrame <- NoBuffer, Capacity <- TX_BUFFER_COUNT,
  pending <- FifoPending, air <- FifoAir

(* The ring implements the FIFO: frames go to the radio in the order of    *)
(* enqueue_frame, each exactly once, one at a time per queue, with the     *)
(* buffer they were enqueued with, whatever wraps, cancels or aborts.      *)
ImplementsFifo == Fifo!Spec

-----------------------------------------------------------------------------
(* Statements of comments in the source that the code does not keep.       *)

(* "A slot in this state [ReturnDataAvailable] does not count as occupied  *)
(* and can be overwritten at any time.  This is to prevent a task, that    *)
(* takes to long to retrieve it's return data, from blocking the queue":   *)
(* while every queue is empty, somebody can obtain a buffer to enqueue.    *)
SlowTaskDoesNotBlock ==
  (\A q \in Queues : is_empty(q)) => pool \cup callers # {}

(* SlotNoLongerValid "happens if more than [TX_BUFFER_COUNT] frames were   *)
(* enqueued, since this transmission was completed", hence since it was    *)
(* enqueued.                                                               *)
InvalidOnlyAfterMoreThanCount ==
  \A q \in Queues, g \in Generations :
    g < counter[q] /\ aborted[q] = {} /\ handle[q][g] \in Unresolved
      /\ status(q, g) = "SlotNoLongerValid"
      => counter[q] - (g + 1) > TX_BUFFER_COUNT
============================================================================

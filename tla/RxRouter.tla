------------------------------ MODULE RxRouter ------------------------------
(***************************************************************************)
(* The router of the frames an interface receives                          *)
(* (foa/src/util/rx_router.rs) and its use by the station                  *)
(* (foa_sta/src/rx_router.rs): two queues, each with an endpoint that may  *)
(* run one operation at a time, and a completion signal shared by both.    *)
(* Frames relevant for the operation of the foreground go to its queue,    *)
(* the others to the background.  The queues outlive the operations.       *)
(***************************************************************************)
EXTENDS Naturals, Sequences

CONSTANTS
  Operations,       \* the operations of the interface
  ConnectionSteps,  \* those that receive through receive_connection_response
  FrameTypes,
  Relevant,         \* Relevant[o]: frame_relevant_for_operation
  Concurrent,       \* CONCORRUENT_OPERATIONS_SUPPORTED
  Compatible,       \* the pairs <<o, p>> with o.compatible_with(p)
  QUEUE_DEPTH,
  None

Queues == {"Foreground", "Background"}

opposite(q) == IF q = "Foreground" THEN "Background" ELSE "Foreground"

ASSUME RxRouterAssumption ==
  /\ ConnectionSteps \subseteq Operations
  /\ Relevant \in [Operations -> SUBSET FrameTypes]
  /\ Concurrent \in BOOLEAN
  /\ Compatible \subseteq Operations \X Operations
  /\ QUEUE_DEPTH \in Nat \ {0}
  /\ None \notin Operations

VARIABLES
  queue,      \* queue[q]: the frames in the channel, oldest first; a frame is
              \* its type and, as history, whether the guard of the operation
              \* that was active when it arrived is still alive
  operation,  \* operation[q]: operation_state, an operation or None
  signal,     \* completion_signal is signaled
  waiter,     \* the endpoint whose waker completion_signal holds, or None
  starting,   \* starting[q]: what start_operation waits to start, or None
  woken,      \* endpoints whose task is scheduled while it waits
  received    \* history: the frame just received, and for which operation

vars == <<queue, operation, signal, waiter, starting, woken, received>>

Frame(t, fresh) == [type |-> t, fresh |-> fresh]
NoFrame == [by |-> None, operation |-> None, frame |-> Frame(None, FALSE)]

-----------------------------------------------------------------------------
(* The completion signal (embassy_sync::signal::Signal).                   *)

(* Mutant: a completion that nobody waited for stays signaled.             *)
reset_Kept == UNCHANGED <<signal, waiter>>

(* Signal::reset forgets the value, and the waker of whoever waits for it. *)
reset == signal' = FALSE /\ waiter' = None

(* Signal::signal wakes the registered waiter.                             *)
signal_completion ==
  /\ signal' = TRUE
  /\ waiter' = None
  /\ woken' = woken \cup ({waiter} \ {None})

-----------------------------------------------------------------------------
(* Operations.                                                             *)

can_start_operation(q, o) ==
  LET other == operation[opposite(q)] IN
  other # None => Concurrent /\ <<other, o>> \in Compatible

(* start_operation_internal.                                               *)
start(q, o) ==
  /\ reset
  /\ operation' = [operation EXCEPT ![q] = o]

(* No guard borrows the endpoint and start_operation does not wait on it.  *)
Free(q) == operation[q] = None /\ starting[q] = None

try_start_operation(q, o) ==
  /\ Free(q)
  /\ can_start_operation(q, o)
  /\ start(q, o)
  /\ received' = NoFrame /\ UNCHANGED <<queue, starting, woken>>

(* start_operation up to its first await that is pending: if the operation *)
(* cannot start it asks the signal, which may be signaled already, and     *)
(* does not check again.                                                   *)
start_operation(q, o) ==
  /\ Free(q)
  /\ IF can_start_operation(q, o) \/ signal
     THEN start(q, o) /\ UNCHANGED starting
     ELSE /\ starting' = [starting EXCEPT ![q] = o]
          /\ waiter' = q
          /\ UNCHANGED <<operation, signal>>
  /\ received' = NoFrame /\ UNCHANGED <<queue, woken>>

(* The task that waits in start_operation is polled.                       *)
resume_start(q) ==
  /\ starting[q] # None /\ q \in woken
  /\ woken' = woken \ {q}
  /\ IF signal
     THEN /\ start(q, starting[q])
          /\ starting' = [starting EXCEPT ![q] = None]
     ELSE waiter' = q /\ UNCHANGED <<operation, signal, starting>>
  /\ received' = NoFrame /\ UNCHANGED queue

(* The future of start_operation is dropped.  The signal keeps its waker.  *)
cancel_start(q) ==
  /\ starting[q] # None
  /\ starting' = [starting EXCEPT ![q] = None]
  /\ woken' = woken \ {q}
  /\ received' = NoFrame /\ UNCHANGED <<queue, operation, signal, waiter>>

(* RxRouterScopedOperation::transition: stop without a signal, then start  *)
(* the new operation, or the previous one again.                           *)
transition(q, o) ==
  /\ operation[q] # None
  /\ start(q, IF can_start_operation(q, o) THEN o ELSE operation[q])
  /\ received' = NoFrame /\ UNCHANGED <<queue, starting, woken>>

(* Mutant: an operation that is dropped does not tell the other endpoint.  *)
drop_operation_Silent(q) ==
  /\ operation[q] # None
  /\ operation' = [operation EXCEPT ![q] = None]
  /\ queue' = [queue EXCEPT ![q] = [k \in 1 .. Len(@) |-> Frame(@[k].type, FALSE)]]
  /\ received' = NoFrame /\ UNCHANGED <<signal, waiter, starting, woken>>

(* Drop of the scoped operation, by complete or by a dropped future.  What *)
(* is queued for it stays queued.                                          *)
drop_operation(q) ==
  /\ operation[q] # None
  /\ operation' = [operation EXCEPT ![q] = None]
  /\ signal_completion
  /\ queue' = [queue EXCEPT ![q] = [k \in 1 .. Len(@) |-> Frame(@[k].type, FALSE)]]
  /\ received' = NoFrame /\ UNCHANGED starting

-----------------------------------------------------------------------------
(* Frames.                                                                 *)

(* QueueState::frame_relevant_for_operation.                               *)
relevant(q, t) == operation[q] # None /\ t \in Relevant[operation[q]]

(* The queue of a frame, or none.                                          *)
routed_to(t) ==
  IF relevant("Foreground", t) THEN {"Foreground"}
  ELSE IF ~Concurrent \/ operation["Background"] = None \/ relevant("Background", t)
  THEN {"Background"} ELSE {}

(* Mutant: a full queue takes one frame more.                              *)
route_frame_OffByOne(t) ==
  /\ queue' = [q \in Queues |->
                 IF q \in routed_to(t) /\ Len(queue[q]) <= QUEUE_DEPTH
                 THEN Append(queue[q], Frame(t, operation[q] # None)) ELSE queue[q]]
  /\ received' = NoFrame /\ UNCHANGED <<operation, signal, waiter, starting, woken>>

(* RxRouterInput::route_frame; a frame for a full queue is lost.           *)
route_frame(t) ==
  /\ queue' = [q \in Queues |->
                 IF q \in routed_to(t) /\ Len(queue[q]) < QUEUE_DEPTH
                 THEN Append(queue[q], Frame(t, operation[q] # None)) ELSE queue[q]]
  /\ received' = NoFrame /\ UNCHANGED <<operation, signal, waiter, starting, woken>>

(* RxRouterEndpoint::receive.                                              *)
receive(q) ==
  /\ \/ operation[q] \in Operations \ ConnectionSteps
     \/ q = "Background" /\ Free(q)
  /\ queue[q] # <<>>
  /\ received' = [by |-> q, operation |-> operation[q], frame |-> Head(queue[q])]
  /\ queue' = [queue EXCEPT ![q] = Tail(@)]
  /\ UNCHANGED <<operation, signal, waiter, starting, woken>>

(* The check of receive_connection_response.                               *)
accepted(q, t) == t \in Relevant[operation[q]]

(* A step of the loop of receive_connection_response: a frame that is not  *)
(* relevant any more is dropped.                                           *)
receive_connection_response(q) ==
  /\ operation[q] \in ConnectionSteps
  /\ queue[q] # <<>>
  /\ queue' = [queue EXCEPT ![q] = Tail(@)]
  /\ IF accepted(q, Head(queue[q]).type)
     THEN received' = [by |-> q, operation |-> operation[q], frame |-> Head(queue[q])]
     ELSE received' = NoFrame
  /\ UNCHANGED <<operation, signal, waiter, starting, woken>>

-----------------------------------------------------------------------------
(* RxRouter::new.                                                          *)
Init ==
  /\ queue = [q \in Queues |-> <<>>]
  /\ operation = [q \in Queues |-> None]
  /\ signal = FALSE /\ waiter = None
  /\ starting = [q \in Queues |-> None]
  /\ woken = {}
  /\ received = NoFrame

Next ==
  \/ \E q \in Queues :
       \/ \E o \in Operations :
            try_start_operation(q, o) \/ start_operation(q, o) \/ transition(q, o)
       \/ resume_start(q) \/ cancel_start(q) \/ drop_operation(q)
       \/ receive(q) \/ receive_connection_response(q)
  \/ \E t \in FrameTypes : route_frame(t)

Spec == Init /\ [][Next]_vars

(* The executor polls a task that was woken.                               *)
FairSpec == Spec /\ \A q \in Queues : WF_vars(resume_start(q))

-----------------------------------------------------------------------------
(* Properties.                                                             *)

Frames == [type : FrameTypes, fresh : BOOLEAN]

(* The router has its types: in particular no queue holds more than        *)
(* QUEUE_DEPTH frames.                                                     *)
TypeOK ==
  /\ DOMAIN queue = Queues
  /\ \A q \in Queues : queue[q] \in Seq(Frames) /\ Len(queue[q]) <= QUEUE_DEPTH
  /\ operation \in [Queues -> Operations \cup {None}]
  /\ signal \in BOOLEAN
  /\ waiter \in Queues \cup {None}
  /\ starting \in [Queues -> Operations \cup {None}]
  /\ woken \in SUBSET Queues
  /\ \/ received = NoFrame
     \/ received \in [by : Queues, operation : Operations \cup {None}, frame : Frames]

(* Without concurrent operations, an operation of one endpoint keeps the   *)
(* other from starting one, although start_operation does not check again  *)
(* after it has waited: a signal left from an earlier operation is never   *)
(* taken for the end of this one.                                          *)
OperationsExclude == ~Concurrent => \E q \in Queues : operation[q] = None

(* An endpoint waits only while the other one runs an operation, or the    *)
(* end of one is signaled: no wait outlasts the operation it is for        *)
(* without a signal that would end it at the next poll.  Whether the end   *)
(* of the operation also has the waiter polled is another question, which  *)
(* StartReturns asks.                                                      *)
WaitsForSomething ==
  \A q \in Queues :
    starting[q] # None => signal \/ operation[opposite(q)] # None

-----------------------------------------------------------------------------
(* What comments say, and the code does not do.                            *)

(* "Start an operation and asynchronously wait for another operation to    *)
(* finish.": the wait ends once the other endpoint runs nothing any more.  *)
StartReturns ==
  \A q \in Queues :
    <>[](starting[q] # None) => []<>(operation[opposite(q)] # None)

(* compatible_with: "Check if this operation can happen concurrently, with *)
(* the specified one."                                                     *)
OnlyCompatibleTogether ==
  LET f == operation["Foreground"]
      b == operation["Background"]
  IN f # None /\ b # None => <<f, b>> \in Compatible \/ <<b, f>> \in Compatible

(* "Receive a response that still belongs to the current connection step." *)
ResponseIsOfThisOperation ==
  received.by = "Foreground" /\ received.operation \in ConnectionSteps
    => received.frame.fresh

(* "[...] and clearing the RX queue, so every frame received after this is *)
(* a beacon." (scan): a frame received for any other operation was routed  *)
(* for it as well.                                                         *)
ScanReceivesRelevant ==
  received.by = "Foreground" => received.frame.type \in Relevant[received.operation]
=============================================================================

------------------------------ MODULE RxProofs ------------------------------
(***************************************************************************)
(* Proofs about the receive side.  RxRouter: its operations and what they  *)
(* receive, for every set of operations and frames, every compatibility    *)
(* relation and every queue depth.  RxPath: the references of the RX       *)
(* buffers are exact, for every number of buffers and every queue depth.   *)
(***************************************************************************)
EXTENDS RxRouter, FiniteSetTheorems, WellFoundedInduction, TLAPS

(* The provers of a leaf that names none, with time for a slow machine.    *)
USE SMTT(30), SMTT(40), ZenonT(30), SMTT(50), SMTT(60)

-----------------------------------------------------------------------------
(* The operations, without the queues.                                     *)

(* The types of the variables that steer the operations.                   *)
ControlType ==
  /\ operation \in [Queues -> Operations \cup {None}]
  /\ signal \in BOOLEAN
  /\ waiter \in Queues \cup {None}
  /\ starting \in [Queues -> Operations \cup {None}]
  /\ woken \in SUBSET Queues

(* The signal is set only while nobody runs an operation: every start      *)
(* resets it.  That is why start_operation need not check again.           *)
SignalMeansIdle ==
  ~Concurrent => (signal => \A q \in Queues : operation[q] = None)

(* An endpoint does one thing at a time.                                   *)
StartingIsFree ==
  \A q \in Queues : starting[q] # None => operation[q] = None

ControlInv ==
  /\ ControlType
  /\ OperationsExclude /\ SignalMeansIdle
  /\ StartingIsFree /\ WaitsForSomething

(* RxRouterQueue::opposite is the other one of the two queues.             *)
LEMMA OppositeQueue ==
  ASSUME NEW q \in Queues
  PROVE  /\ opposite(q) \in Queues /\ opposite(q) # q
         /\ \A p \in Queues : p = q \/ p = opposite(q)
BY DEF Queues, opposite

(* RxRouter::new has no operation, no signal and no waiter.                *)
LEMMA ControlInit == Init => ControlInv
BY RxRouterAssumption, ZenonT(30)
   DEF Init, ControlInv, ControlType, OperationsExclude, SignalMeansIdle,
       StartingIsFree, WaitsForSomething, Queues, opposite

(* Starting an operation, with nothing in the way or after the signal.     *)
LEMMA ControlStart ==
  ASSUME ControlInv, NEW q \in Queues, NEW o \in Operations, start(q, o),
         can_start_operation(q, o) \/ signal, operation[q] = None \/ starting' = starting,
         \/ starting' = starting /\ starting[q] = None
         \/ starting' = [starting EXCEPT ![q] = None],
         woken' \in SUBSET Queues
  PROVE  ControlInv'
<1> USE RxRouterAssumption DEF ControlInv
<1>1. /\ signal' = FALSE /\ waiter' = None
      /\ operation' = [operation EXCEPT ![q] = o]
  BY DEF start, reset
<1>2. /\ opposite(q) \in Queues /\ opposite(q) # q
      /\ \A p \in Queues : p = q \/ p = opposite(q)
  BY OppositeQueue
<1>3. starting'[q] = None /\ starting'[opposite(q)] = starting[opposite(q)]
  BY <1>2 DEF ControlType
<1>4. ControlType'
  BY <1>1, ZenonT(30) DEF ControlType
<1>5. operation'[q] = o /\ operation'[opposite(q)] = operation[opposite(q)]
  BY <1>1, <1>2 DEF ControlType
<1>6. ~Concurrent => operation[opposite(q)] = None
  BY <1>2 DEF can_start_operation, SignalMeansIdle
<1>7. OperationsExclude'
  BY <1>2, <1>5, <1>6 DEF OperationsExclude
<1>8. SignalMeansIdle'
  BY <1>1 DEF SignalMeansIdle
<1>9. StartingIsFree'
  BY <1>2, <1>3, <1>5 DEF StartingIsFree
<1>10. WaitsForSomething'
  <2>1. opposite(opposite(q)) = q
    BY DEF opposite, Queues
  <2> QED
    BY <1>2, <1>3, <1>5, <2>1 DEF WaitsForSomething
<1> QED
  BY <1>4, <1>7, <1>8, <1>9, <1>10

(* Every step of the two endpoints and of the input keeps the control      *)
(* invariant.                                                              *)
LEMMA ControlNext ==
  ASSUME ControlInv, [Next]_vars
  PROVE  ControlInv'
<1> USE RxRouterAssumption
<1>1. ASSUME NEW q \in Queues, NEW o \in Operations, try_start_operation(q, o)
      PROVE  ControlInv'
  BY <1>1, ControlStart DEF try_start_operation, Free, ControlInv, ControlType
<1>2. ASSUME NEW q \in Queues, NEW o \in Operations, start_operation(q, o)
      PROVE  ControlInv'
  <2>1. CASE can_start_operation(q, o) \/ signal
    BY <1>2, <2>1, ControlStart DEF start_operation, Free, ControlInv, ControlType
  <2>2. CASE ~(can_start_operation(q, o) \/ signal)
    <3>1. /\ starting' = [starting EXCEPT ![q] = o]
          /\ waiter' = q /\ UNCHANGED <<operation, signal, woken>>
          /\ operation[q] = None
      BY <1>2, <2>2 DEF start_operation, Free
    <3>2. operation[opposite(q)] # None
      BY <2>2 DEF can_start_operation
    <3> QED
      BY <3>1, <3>2 DEF ControlInv, ControlType, OperationsExclude, SignalMeansIdle,
                        StartingIsFree, WaitsForSomething
  <2> QED
    BY <2>1, <2>2
<1>3. ASSUME NEW q \in Queues, resume_start(q) PROVE ControlInv'
  <2>1. CASE signal
    <3>1. starting[q] \in Operations /\ operation[q] = None
      BY <1>3 DEF resume_start, ControlInv, ControlType, StartingIsFree
    <3>2. start(q, starting[q]) /\ starting' = [starting EXCEPT ![q] = None]
      BY <1>3, <2>1 DEF resume_start
    <3>3. woken' \in SUBSET Queues
      BY <1>3 DEF resume_start, ControlInv, ControlType
    <3> QED
      BY <2>1, <3>1, <3>2, <3>3, ControlStart, ZenonT(30)
  <2>2. CASE ~signal
    BY <1>3, <2>2 DEF resume_start, ControlInv, ControlType, OperationsExclude,
                      SignalMeansIdle, StartingIsFree, WaitsForSomething
  <2> QED
    BY <2>1, <2>2
<1>4. ASSUME NEW q \in Queues, cancel_start(q) PROVE ControlInv'
  BY <1>4 DEF cancel_start, ControlInv, ControlType, OperationsExclude,
              SignalMeansIdle, StartingIsFree, WaitsForSomething
<1>5. ASSUME NEW q \in Queues, NEW o \in Operations, transition(q, o)
      PROVE  ControlInv'
  <2> DEFINE n == IF can_start_operation(q, o) THEN o ELSE operation[q]
  <2>1. /\ operation[q] # None /\ operation' = [operation EXCEPT ![q] = n]
        /\ signal' = FALSE /\ waiter' = None /\ UNCHANGED <<starting, woken>>
    BY <1>5 DEF transition, start, reset
  <2>2. n \in Operations
    BY <2>1 DEF ControlInv, ControlType
  <2> HIDE DEF n
  <2>3. \A p \in Queues : operation'[p] = None <=> operation[p] = None
    BY <2>1, <2>2 DEF ControlInv, ControlType
  <2>4. ControlType'
    BY <2>1, <2>2, ZenonT(30) DEF ControlInv, ControlType
  <2>5. ~signal \/ Concurrent
    BY <2>1 DEF ControlInv, SignalMeansIdle
  <2>6. (OperationsExclude /\ SignalMeansIdle /\ StartingIsFree)'
    BY <2>1, <2>3 DEF ControlInv, OperationsExclude, SignalMeansIdle, StartingIsFree
  <2>7. WaitsForSomething'
    <3> SUFFICES ASSUME NEW p \in Queues, starting[p] # None
                 PROVE  operation'[opposite(p)] # None
      BY <2>1 DEF WaitsForSomething
    <3>1. p # q
      BY <2>1 DEF ControlInv, StartingIsFree
    <3>2. opposite(p) = q
      BY <3>1 DEF opposite, Queues
    <3> QED
      BY <3>2, <2>1, <2>3
  <2> QED
    BY <2>4, <2>6, <2>7 DEF ControlInv
<1>6. ASSUME NEW q \in Queues, drop_operation(q) PROVE ControlInv'
  <2>1. /\ operation' = [operation EXCEPT ![q] = None] /\ operation[q] # None
        /\ signal' = TRUE /\ waiter' = None /\ starting' = starting
        /\ woken' = woken \cup ({waiter} \ {None})
    BY <1>6 DEF drop_operation, signal_completion
  <2>2. /\ opposite(q) \in Queues /\ opposite(q) # q
        /\ \A p \in Queues : p = q \/ p = opposite(q)
    BY OppositeQueue
  <2>3. operation'[q] = None /\ operation'[opposite(q)] = operation[opposite(q)]
    BY <2>1, <2>2 DEF ControlInv, ControlType
  <2>4. ControlType'
    BY <2>1 DEF ControlInv, ControlType
  <2>5. ~Concurrent => operation[opposite(q)] = None
    BY <2>1, <2>2 DEF ControlInv, OperationsExclude
  <2>6. (OperationsExclude /\ SignalMeansIdle /\ StartingIsFree /\ WaitsForSomething)'
    BY <2>1, <2>2, <2>3, <2>5 DEF ControlInv, OperationsExclude, SignalMeansIdle,
                                  StartingIsFree, WaitsForSomething
  <2> QED
    BY <2>4, <2>6 DEF ControlInv
<1>7. ASSUME UNCHANGED <<operation, signal, waiter, starting, woken>>
      PROVE  ControlInv'
  BY <1>7 DEF ControlInv, ControlType, OperationsExclude, SignalMeansIdle,
              StartingIsFree, WaitsForSomething
<1>8. ASSUME NEW q \in Queues, receive(q) \/ receive_connection_response(q)
      PROVE  ControlInv'
  BY <1>7, <1>8 DEF receive, receive_connection_response
<1>9. ASSUME NEW t \in FrameTypes, route_frame(t) PROVE ControlInv'
  BY <1>7, <1>9 DEF route_frame
<1>10. CASE UNCHANGED vars
  BY <1>7, <1>10 DEF vars
<1> QED
  BY <1>1, <1>2, <1>3, <1>4, <1>5, <1>6, <1>8, <1>9, <1>10, Zenon DEF Next

(* The control invariant holds in every reachable state of the router.     *)
THEOREM ControlCorrect == Spec => []ControlInv
BY ControlInit, ControlNext, PTL DEF Spec

(* Without concurrent operations at most one endpoint runs one.            *)
THEOREM Exclusion == Spec => []OperationsExclude
<1>1. ControlInv => OperationsExclude
  BY DEF ControlInv
<1> QED
  BY <1>1, ControlCorrect, PTL

(* start_operation waits only while the other endpoint runs an operation   *)
(* or the end of one is signaled.                                          *)
THEOREM NoIdleWait == Spec => []WaitsForSomething
<1>1. ControlInv => WaitsForSomething
  BY DEF ControlInv
<1> QED
  BY <1>1, ControlCorrect, PTL

-----------------------------------------------------------------------------
(* The queues.                                                             *)

QueueType ==
  /\ DOMAIN queue = Queues
  /\ \A q \in Queues : queue[q] \in Seq(Frames) /\ Len(queue[q]) <= QUEUE_DEPTH

ReceivedType ==
  \/ received = NoFrame
  \/ received \in [by : Queues, operation : Operations \cup {None}, frame : Frames]

(* A function on 1 .. n is a sequence.                                     *)
LEMMA FunctionIsSeq ==
  ASSUME NEW S, NEW n \in Nat, NEW s \in [1 .. n -> S]
  PROVE  s \in Seq(S) /\ Len(s) = n
  OBVIOUS

(* Taking the first frame of a queue.                                      *)
LEMMA QueueTail ==
  ASSUME QueueType, NEW q \in Queues, queue[q] # <<>>,
         queue' = [queue EXCEPT ![q] = Tail(@)]
  PROVE  QueueType' /\ Head(queue[q]) \in Frames
<1>1. /\ Tail(queue[q]) \in Seq(Frames) /\ Head(queue[q]) \in Frames
      /\ Len(Tail(queue[q])) = Len(queue[q]) - 1 /\ Len(queue[q]) \in Nat
  BY DEF QueueType
<1>2. Len(Tail(queue[q])) <= QUEUE_DEPTH
  BY <1>1, RxRouterAssumption DEF QueueType
<1> QED
  BY <1>1, <1>2 DEF QueueType

(* Every step keeps the types.                                             *)
LEMMA TypeNext ==
  ASSUME TypeOK, ControlType', [Next]_vars
  PROVE  TypeOK'
<1> USE RxRouterAssumption
<1>1. QueueType /\ ControlType /\ ReceivedType
  BY DEF TypeOK, QueueType, ControlType, ReceivedType
<1> SUFFICES QueueType' /\ ReceivedType'
  BY DEF TypeOK, QueueType, ControlType, ReceivedType
<1>2. ASSUME queue' = queue, received' = NoFrame PROVE QueueType' /\ ReceivedType'
  BY <1>1, <1>2 DEF QueueType, ReceivedType, NoFrame
<1>3. ASSUME NEW q \in Queues, NEW o \in Operations,
             try_start_operation(q, o) \/ start_operation(q, o) \/ transition(q, o)
      PROVE  QueueType' /\ ReceivedType'
  BY <1>2, <1>3 DEF try_start_operation, start_operation, transition
<1>4. ASSUME NEW q \in Queues, resume_start(q) \/ cancel_start(q)
      PROVE  QueueType' /\ ReceivedType'
  BY <1>2, <1>4 DEF resume_start, cancel_start
<1>5. ASSUME NEW q \in Queues, drop_operation(q) PROVE QueueType' /\ ReceivedType'
  <2> DEFINE s == [k \in 1 .. Len(queue[q]) |-> Frame(queue[q][k].type, FALSE)]
  <2>1. queue' = [queue EXCEPT ![q] = s] /\ received' = NoFrame
    BY <1>5 DEF drop_operation
  <2>2. queue[q] \in Seq(Frames) /\ Len(queue[q]) \in Nat /\ Len(queue[q]) <= QUEUE_DEPTH
    BY <1>1 DEF QueueType
  <2>3. \A k \in 1 .. Len(queue[q]) : s[k] \in Frames
    <3>1. \A k \in 1 .. Len(queue[q]) : queue[q][k] \in Frames
      BY <2>2
    <3> QED
      BY <3>1 DEF Frame, Frames
  <2>4. s \in Seq(Frames) /\ Len(s) = Len(queue[q])
    <3>1. s \in [1 .. Len(queue[q]) -> Frames]
      BY <2>3, ZenonT(30)
    <3> HIDE DEF s
    <3> QED
      BY <2>2, <3>1, FunctionIsSeq
  <2> HIDE DEF s
  <2>5. QueueType'
    BY <1>1, <2>1, <2>2, <2>4 DEF QueueType
  <2> QED
    BY <2>1, <2>5 DEF ReceivedType, NoFrame
<1>6. ASSUME NEW q \in Queues, receive(q) PROVE QueueType' /\ ReceivedType'
  <2>1. QueueType' /\ Head(queue[q]) \in Frames
    BY <1>1, <1>6, QueueTail, ZenonT(30) DEF receive
  <2>2. received' = [by |-> q, operation |-> operation[q], frame |-> Head(queue[q])]
    BY <1>6 DEF receive
  <2> QED
    BY <1>1, <2>1, <2>2 DEF ReceivedType, ControlType
<1>7. ASSUME NEW q \in Queues, receive_connection_response(q)
      PROVE  QueueType' /\ ReceivedType'
  <2>1. QueueType' /\ Head(queue[q]) \in Frames
    BY <1>1, <1>7, QueueTail, ZenonT(30) DEF receive_connection_response
  <2>2. \/ received' = NoFrame
        \/ received' = [by |-> q, operation |-> operation[q], frame |-> Head(queue[q])]
    BY <1>7 DEF receive_connection_response
  <2>3. [by |-> q, operation |-> operation[q], frame |-> Head(queue[q])]
          \in [by : Queues, operation : Operations \cup {None}, frame : Frames]
    BY <1>1, <2>1 DEF ControlType
  <2>4. ReceivedType'
    BY <2>2, <2>3, Zenon DEF ReceivedType, NoFrame
  <2> QED
    BY <2>1, <2>4
<1>8. ASSUME NEW t \in FrameTypes, route_frame(t) PROVE QueueType' /\ ReceivedType'
  <2>1. DOMAIN queue' = Queues /\ received' = NoFrame
    BY <1>8 DEF route_frame
  <2>2. ASSUME NEW q \in Queues
        PROVE  queue'[q] \in Seq(Frames) /\ Len(queue'[q]) <= QUEUE_DEPTH
    <3> DEFINE f == Frame(t, operation[q] # None)
    <3>1. queue[q] \in Seq(Frames) /\ Len(queue[q]) \in Nat /\ Len(queue[q]) <= QUEUE_DEPTH
      BY <1>1 DEF QueueType
    <3>2. f \in Frames
      BY DEF Frame, Frames
    <3> HIDE DEF f
    <3>3. Append(queue[q], f) \in Seq(Frames) /\ Len(Append(queue[q], f)) = Len(queue[q]) + 1
      BY <3>1, <3>2
    <3>4. \/ queue'[q] = queue[q]
          \/ Len(queue[q]) < QUEUE_DEPTH /\ queue'[q] = Append(queue[q], f)
      BY <1>8 DEF route_frame, f
    <3>5. CASE queue'[q] = queue[q]
      BY <3>1, <3>5
    <3>6. CASE Len(queue[q]) < QUEUE_DEPTH /\ queue'[q] = Append(queue[q], f)
      <4>1. Len(queue[q]) + 1 <= QUEUE_DEPTH
        BY <3>1, <3>6, RxRouterAssumption
      <4> QED
        BY <3>3, <3>6, <4>1
    <3> QED
      BY <3>4, <3>5, <3>6
  <2> QED
    BY <2>1, <2>2 DEF QueueType, ReceivedType, NoFrame
<1>9. CASE UNCHANGED vars
  BY <1>1, <1>9, ZenonT(30) DEF vars, QueueType, ReceivedType, NoFrame
<1> QED
  BY <1>3, <1>4, <1>5, <1>6, <1>7, <1>8, <1>9, Zenon DEF Next

(* Type correctness; no queue holds more than QUEUE_DEPTH frames.          *)
THEOREM TypeCorrect == Spec => []TypeOK
<1>1. Init => TypeOK
  <2> SUFFICES ASSUME Init PROVE TypeOK
    OBVIOUS
  <2>1. <<>> \in Seq(Frames) /\ Len(<<>>) = 0
    OBVIOUS
  <2>2. \A q \in Queues : queue[q] \in Seq(Frames) /\ Len(queue[q]) <= QUEUE_DEPTH
    BY <2>1, RxRouterAssumption DEF Init
  <2> QED
    BY <2>2, RxRouterAssumption, ZenonT(30) DEF Init, TypeOK
<1>2. ControlInv => ControlType
  BY DEF ControlInv
<1> QED
  BY <1>1, <1>2, TypeNext, ControlCorrect, PTL DEF Spec

-----------------------------------------------------------------------------
(* The path of a frame: RxPath, for every number of buffers, every depth   *)
(* of its queues, all operations and all frames.  Its router has the queue *)
(* depth of the RX router above.                                           *)
CONSTANTS RX_BUFFER_COUNT, RX_QUEUE_LEN, PathOperations, ReceivedFrames

VARIABLES arc_buffers, pool, rx_queue, active, router, hand, op, connected, session

Path == INSTANCE RxPath WITH Operations <- PathOperations, Frames <- ReceivedFrames,
                             queue <- rx_queue

(* The slots a sequence of handles refers to, and that no two of them      *)
(* refer to the same one.                                                  *)
Elements(h) == {h[k] : k \in 1 .. Len(h)}
Distinct(h) == \A j, k \in 1 .. Len(h) : h[j] = h[k] => j = k

(* The frames in the queue of an interface, and their handles.             *)
Packets == [slot : Path!Slots, kind : Path!Kinds]
handles(q) == [k \in DOMAIN q |-> q[k].slot]

(* The slots with a handle in a queue of an interface, in a queue of the   *)
(* router and in the hand of a task; on the way to the station, and on the *)
(* way to the AWDL interface.                                              *)
Queued(i) == Elements(handles(rx_queue[i]))
Routed(q) == Elements(router[q])
Held(t) == {hand[t]} \ {None}

ToSta == Queued("Sta") \cup Routed("Foreground") \cup Routed("Background")
         \cup Held("Foreground") \cup Held("Background")
ToAwdl == Queued("Awdl") \cup Held("Awdl")

(* The pool when the slots of S are on the way to the station and those of *)
(* A to the AWDL interface; and a pool after a handle to each slot of D    *)
(* was dropped.                                                            *)
counting(S, A) ==
  [s \in Path!Slots |->
     IF s \in S /\ s \in A THEN 1 ELSE IF s \in S \cup A THEN 0 ELSE None]

dropping(p, D) == [s \in Path!Slots |-> IF s \in D THEN Path!dropped(p[s]) ELSE p[s]]

PathType ==
  /\ rx_queue \in [Path!Interfaces -> Seq(Packets)]
  /\ router \in [Path!RouterQueues -> Seq(Path!Slots)]
  /\ hand \in [Path!Tasks -> Path!Slots \cup {None}]

(* On its way to an interface a frame is in one place.                     *)
OnePlace ==
  /\ Distinct(handles(rx_queue["Sta"])) /\ Distinct(handles(rx_queue["Awdl"]))
  /\ Distinct(router["Foreground"]) /\ Distinct(router["Background"])
  /\ Queued("Sta") \cap (Routed("Foreground") \cup Routed("Background")
                         \cup Held("Foreground") \cup Held("Background")) = {}
  /\ Routed("Foreground") \cap (Routed("Background")
                                \cup Held("Foreground") \cup Held("Background")) = {}
  /\ Routed("Background") \cap (Held("Foreground") \cup Held("Background")) = {}
  /\ Held("Foreground") \cap Held("Background") = {}
  /\ Queued("Awdl") \cap Held("Awdl") = {}

(* The pool counts the two ways, and both exist only with arc_buffers.     *)
Counted ==
  /\ pool = counting(ToSta, ToAwdl)
  /\ arc_buffers \/ ToSta \cap ToAwdl = {}

PathInv == PathType /\ OnePlace /\ Counted

-----------------------------------------------------------------------------
(* Sequences of handles.                                                   *)

(* A set of natural numbers that is not empty has a least element.         *)
LEMMA Least ==
  ASSUME NEW S, S \subseteq Nat, S # {}
  PROVE  \E n \in S : \A m \in S : n <= m
<1> DEFINE R == OpToRel(<, Nat)
<1>1. IsWellFoundedOn(R, Nat)
  BY NatLessThanWellFounded, ZenonT(30)
<1>2. \A x, y \in Nat : x < y => <<x, y>> \in R
  BY SMTT(30) DEF OpToRel
<1> HIDE DEF R
<1>3. PICK n \in S : \A m \in S : ~(<<m, n>> \in R)
  BY <1>1, WFMin, ZenonT(30)
<1>4. \A m \in S : ~(m < n) /\ m \in Nat /\ n \in Nat
  BY <1>2, <1>3, ZenonT(30)
<1>5. \A m \in S : n <= m
  BY <1>4, SMTT(30)
<1> QED
  BY <1>5, ZenonT(30)

(* Taking the oldest handle.                                               *)
LEMMA TakeFirst ==
  ASSUME NEW S, NEW h \in Seq(S), h # <<>>, Distinct(h)
  PROVE  /\ Head(h) \in S /\ Head(h) \in Elements(h)
         /\ Tail(h) \in Seq(S) /\ Distinct(Tail(h))
         /\ Elements(Tail(h)) = Elements(h) \ {Head(h)}
<1>1. /\ Len(h) \in Nat /\ Len(h) >= 1
      /\ Head(h) = h[1] /\ h[1] \in S
      /\ Tail(h) \in Seq(S) /\ Len(Tail(h)) = Len(h) - 1
      /\ \A k \in 1 .. Len(h) - 1 : Tail(h)[k] = h[k + 1]
  OBVIOUS
<1>2. Head(h) \in Elements(h)
  BY <1>1 DEF Elements
<1>3. Distinct(Tail(h))
  BY <1>1 DEF Distinct
<1>4. ASSUME NEW x PROVE x \in Elements(Tail(h)) <=> x \in Elements(h) \ {Head(h)}
  <2>1. ASSUME x \in Elements(Tail(h)) PROVE x \in Elements(h) \ {Head(h)}
    <3>1. PICK k \in 1 .. Len(h) - 1 : x = h[k + 1]
      BY <1>1, <2>1 DEF Elements
    <3> QED
      BY <1>1, <3>1 DEF Elements, Distinct
  <2>2. ASSUME x \in Elements(h) \ {Head(h)} PROVE x \in Elements(Tail(h))
    <3>1. PICK k \in 1 .. Len(h) : x = h[k] /\ k # 1
      BY <1>1, <2>2 DEF Elements
    <3>2. k - 1 \in 1 .. Len(h) - 1 /\ Tail(h)[k - 1] = x
      BY <1>1, <3>1
    <3> QED
      BY <1>1, <3>2 DEF Elements
  <2> QED
    BY <2>1, <2>2
<1> QED
  BY <1>1, <1>2, <1>3, <1>4

(* Adding the handle of another slot.                                      *)
LEMMA AddLast ==
  ASSUME NEW S, NEW h \in Seq(S), Distinct(h), NEW s \in S, s \notin Elements(h)
  PROVE  /\ Append(h, s) \in Seq(S) /\ Distinct(Append(h, s))
         /\ Elements(Append(h, s)) = Elements(h) \cup {s}
<1>1. /\ Append(h, s) \in Seq(S) /\ Len(h) \in Nat /\ Len(Append(h, s)) = Len(h) + 1
      /\ Append(h, s)[Len(h) + 1] = s
      /\ \A k \in 1 .. Len(h) : Append(h, s)[k] = h[k]
  OBVIOUS
<1>2. \A k \in 1 .. Len(h) : h[k] # s
  BY DEF Elements
<1>3. \A k \in 1 .. Len(h) + 1 : k \in 1 .. Len(h) \/ k = Len(h) + 1
  BY <1>1
<1>4. Distinct(Append(h, s))
  BY <1>1, <1>2, <1>3 DEF Distinct
<1>5. Elements(Append(h, s)) = Elements(h) \cup {s}
  BY <1>1, <1>3 DEF Elements
<1> QED
  BY <1>1, <1>4, <1>5

(* The handles of a queue of packets follow its operations.                *)
LEMMA PacketHandles ==
  ASSUME NEW q \in Seq(Packets)
  PROVE  /\ handles(q) \in Seq(Path!Slots)
         /\ \A p \in Packets : handles(Append(q, p)) = Append(handles(q), p.slot)
         /\ q # <<>> => /\ handles(q) # <<>> /\ Head(q) \in Packets
                        /\ Head(handles(q)) = Head(q).slot
                        /\ handles(Tail(q)) = Tail(handles(q))
<1>1. /\ Len(q) \in Nat /\ DOMAIN q = 1 .. Len(q)
      /\ \A k \in 1 .. Len(q) : q[k] \in Packets /\ q[k].slot \in Path!Slots
  <2>1. /\ Len(q) \in Nat /\ DOMAIN q = 1 .. Len(q)
        /\ \A k \in 1 .. Len(q) : q[k] \in Packets
    OBVIOUS
  <2>2. \A p \in Packets : p.slot \in Path!Slots
    BY DEF Packets
  <2> QED
    BY <2>1, <2>2
<1>2. handles(q) \in Seq(Path!Slots) /\ Len(handles(q)) = Len(q)
  <2>1. handles(q) = [k \in 1 .. Len(q) |-> q[k].slot]
    BY <1>1, ZenonT(30) DEF handles
  <2> QED
    BY <1>1, <2>1
<1>3. ASSUME NEW p \in Packets PROVE handles(Append(q, p)) = Append(handles(q), p.slot)
  <2>1. p.slot \in Path!Slots
    BY DEF Packets
  <2>2. /\ handles(Append(q, p)) \in Seq(Path!Slots)
        /\ Len(handles(Append(q, p))) = Len(q) + 1
        /\ \A k \in 1 .. Len(q) : handles(Append(q, p))[k] = q[k].slot
        /\ handles(Append(q, p))[Len(q) + 1] = p.slot
    BY <1>1, <2>1 DEF handles
  <2>3. /\ Append(handles(q), p.slot) \in Seq(Path!Slots)
        /\ Len(Append(handles(q), p.slot)) = Len(q) + 1
        /\ \A k \in 1 .. Len(q) : Append(handles(q), p.slot)[k] = q[k].slot
        /\ Append(handles(q), p.slot)[Len(q) + 1] = p.slot
    BY <1>1, <1>2, <2>1 DEF handles
  <2> QED
    BY <1>1, <2>2, <2>3
<1>4. ASSUME q # <<>>
      PROVE  /\ handles(q) # <<>> /\ Head(q) \in Packets
             /\ Head(handles(q)) = Head(q).slot
             /\ handles(Tail(q)) = Tail(handles(q))
  <2>1. Len(q) >= 1 /\ Head(q) = q[1] /\ Head(q) \in Packets
    BY <1>1, <1>4
  <2>2. handles(q) # <<>> /\ Head(handles(q)) = q[1].slot
    BY <1>1, <1>2, <2>1 DEF handles
  <2>3. /\ Tail(q) \in Seq(Packets) /\ Len(Tail(q)) = Len(q) - 1
        /\ \A k \in 1 .. Len(q) - 1 : Tail(q)[k] = q[k + 1]
    BY <1>1, <2>1
  <2>4. /\ handles(Tail(q)) \in Seq(Path!Slots) /\ Len(handles(Tail(q))) = Len(q) - 1
        /\ \A k \in 1 .. Len(q) - 1 : handles(Tail(q))[k] = q[k + 1].slot
    BY <1>1, <2>3 DEF handles
  <2>5. /\ Tail(handles(q)) \in Seq(Path!Slots) /\ Len(Tail(handles(q))) = Len(q) - 1
        /\ \A k \in 1 .. Len(q) - 1 : Tail(handles(q))[k] = q[k + 1].slot
    BY <1>1, <1>2, <2>1, <2>2 DEF handles
  <2> QED
    BY <1>1, <2>1, <2>2, <2>4, <2>5
<1> QED
  BY <1>2, <1>3, <1>4

-----------------------------------------------------------------------------
(* Dropping handles.                                                       *)

(* The pool after the first k of the handles are dropped.                  *)
without(p, h, k) == dropping(p, {h[j] : j \in 1 .. k})

afterFirst(p, h, a) ==
  a = [k \in 0 .. Len(h) |->
         IF k = 0 THEN p ELSE [a[k - 1] EXCEPT ![h[k]] = Path!dropped(@)]]

(* RxArcBuffer::drop for each of some handles to different slots.          *)
LEMMA DropAll ==
  ASSUME NEW X, NEW p \in [Path!Slots -> X], NEW h \in Seq(Path!Slots), Distinct(h)
  PROVE  Path!drop_all(p, h) = dropping(p, Elements(h))
<1> DEFINE n == Len(h)
           a == [k \in 0 .. n |-> without(p, h, k)]
           g == CHOOSE b : afterFirst(p, h, b)
<1>1. n \in Nat /\ \A k \in 1 .. n : h[k] \in Path!Slots
  OBVIOUS
<1>2. without(p, h, 0) = p
  <2>1. \A s \in Path!Slots : without(p, h, 0)[s] = p[s]
    BY DEF without, dropping
  <2> QED
    BY <2>1 DEF without, dropping
<1>3. ASSUME NEW k \in 1 .. n
      PROVE  without(p, h, k) = [without(p, h, k - 1) EXCEPT ![h[k]] = Path!dropped(@)]
  <2> DEFINE v == without(p, h, k - 1)
  <2>1. \A j \in 1 .. k - 1 : j \in 1 .. n /\ j # k
    BY <1>1
  <2>2. h[k] \notin {h[j] : j \in 1 .. k - 1}
    BY <2>1 DEF Distinct
  <2>3. v \in [Path!Slots -> {v[s] : s \in Path!Slots}] /\ v[h[k]] = p[h[k]]
    BY <1>1, <2>2 DEF without, dropping
  <2>4. {h[j] : j \in 1 .. k} = {h[j] : j \in 1 .. k - 1} \cup {h[k]}
    BY <1>1
  <2>5. ASSUME NEW s \in Path!Slots
        PROVE  without(p, h, k)[s] = [v EXCEPT ![h[k]] = Path!dropped(@)][s]
    <3>1. CASE s = h[k]
      BY <1>1, <2>3, <2>4, <3>1 DEF without, dropping
    <3>2. CASE s # h[k]
      BY <1>1, <2>3, <2>4, <3>2 DEF without, dropping
    <3> QED
      BY <3>1, <3>2
  <2> QED
    BY <2>5, ZenonT(30) DEF without, dropping
<1>4. afterFirst(p, h, a)
  <2>1. ASSUME NEW k \in 0 .. n
        PROVE  a[k] = IF k = 0 THEN p ELSE [a[k - 1] EXCEPT ![h[k]] = Path!dropped(@)]
    <3>1. CASE k = 0
      BY <1>1, <1>2, <3>1
    <3>2. CASE k # 0
      <4>1. k \in 1 .. n /\ k - 1 \in 0 .. n
        BY <1>1, <3>2
      <4>2. a[k] = without(p, h, k) /\ a[k - 1] = without(p, h, k - 1)
        BY <4>1
      <4> QED
        BY <1>3, <3>2, <4>1, <4>2, ZenonT(30)
    <3> QED
      BY <3>1, <3>2
  <2> QED
    BY <2>1, ZenonT(30) DEF afterFirst
<1>5. afterFirst(p, h, g)
  BY <1>4, ZenonT(30)
<1>6. Path!drop_all(p, h) = g[n]
  BY ZenonT(30) DEF Path!drop_all, afterFirst
<1> HIDE DEF g
<1>7. \A k \in 0 .. n : g[k] = IF k = 0 THEN p ELSE [g[k - 1] EXCEPT ![h[k]] = Path!dropped(@)]
  BY <1>5, ZenonT(30) DEF afterFirst
<1>8. \A k \in 0 .. n : g[k] = without(p, h, k)
  <2> DEFINE B == {k \in 0 .. n : g[k] # without(p, h, k)}
  <2> SUFFICES ASSUME B # {} PROVE FALSE
    BY ZenonT(30)
  <2>1. B \subseteq Nat
    BY <1>1
  <2>2. PICK k \in B : \A m \in B : k <= m
    BY <2>1, Least, ZenonT(30)
  <2>3. k # 0
    BY <1>1, <1>2, <1>7, <2>2, ZenonT(30)
  <2>4. k \in 1 .. n /\ k - 1 \in 0 .. n /\ ~(k <= k - 1)
    BY <1>1, <2>2, <2>3
  <2>5. g[k - 1] = without(p, h, k - 1)
    BY <2>2, <2>4, ZenonT(30)
  <2>6. g[k] = without(p, h, k)
    BY <1>3, <1>7, <2>2, <2>3, <2>4, <2>5, ZenonT(30)
  <2> QED
    BY <2>2, <2>6
<1>9. g[n] = without(p, h, n)
  BY <1>1, <1>8
<1> QED
  BY <1>6, <1>9, ZenonT(30) DEF without, Elements

(* A single handle.                                                        *)
LEMMA OneHandle ==
  ASSUME NEW s \in Path!Slots
  PROVE  <<s>> \in Seq(Path!Slots) /\ Distinct(<<s>>) /\ Elements(<<s>>) = {s}
BY DEF Distinct, Elements

(* The pool still counts the two ways when handles to some slots of one of *)
(* them are dropped.                                                       *)
LEMMA DropCounts ==
  ASSUME None \notin Nat, NEW S, NEW A, NEW T, NEW B, NEW D,
         \/ D \subseteq S /\ T = S \ D /\ B = A
         \/ D \subseteq A /\ T = S /\ B = A \ D
  PROVE  dropping(counting(S, A), D) = counting(T, B)
<1>1. ASSUME NEW s \in Path!Slots
      PROVE  dropping(counting(S, A), D)[s] = counting(T, B)[s]
  BY DEF dropping, counting, Path!dropped
<1> QED
  BY <1>1 DEF dropping, counting

-----------------------------------------------------------------------------
(* The invariant of the path.                                              *)

(* Every handle refers to a slot, and the pool counts at most two.         *)
LEMMA PathFacts ==
  ASSUME Path!RxPathAssumption, PathInv
  PROVE  /\ None \notin Nat /\ None \notin Path!Slots
         /\ \A i \in Path!Interfaces : Queued(i) \subseteq Path!Slots
         /\ \A q \in Path!RouterQueues : Routed(q) \subseteq Path!Slots
         /\ \A t \in Path!Tasks : Held(t) \subseteq Path!Slots
         /\ pool \in [Path!Slots -> {0, 1, None}]
<1>1. None \notin Nat /\ None \notin Path!Slots
  BY DEF Path!RxPathAssumption, Path!Slots
<1>2. ASSUME NEW i \in Path!Interfaces PROVE Queued(i) \subseteq Path!Slots
  <2>1. rx_queue[i] \in Seq(Packets)
    BY DEF PathInv, PathType
  <2>2. handles(rx_queue[i]) \in Seq(Path!Slots)
    BY <2>1, PacketHandles, ZenonT(30)
  <2> QED
    BY <2>2 DEF Queued, Elements
<1>3. ASSUME NEW q \in Path!RouterQueues PROVE Routed(q) \subseteq Path!Slots
  <2>1. router[q] \in Seq(Path!Slots)
    BY DEF PathInv, PathType
  <2> QED
    BY <2>1 DEF Routed, Elements
<1>4. ASSUME NEW t \in Path!Tasks PROVE Held(t) \subseteq Path!Slots
  BY DEF PathInv, PathType, Held
<1>5. pool \in [Path!Slots -> {0, 1, None}]
  BY DEF PathInv, Counted, counting
<1> QED
  BY <1>1, <1>2, <1>3, <1>4, <1>5, ZenonT(30)

(* No handle exists at first.                                              *)
LEMMA PathInit == Path!RxPathAssumption /\ Path!Init => PathInv
<1> SUFFICES ASSUME Path!RxPathAssumption, Path!Init PROVE PathInv
  OBVIOUS
<1>1. /\ pool = [s \in Path!Slots |-> None]
      /\ \A i \in Path!Interfaces : rx_queue[i] = <<>>
      /\ \A q \in Path!RouterQueues : router[q] = <<>>
      /\ \A t \in Path!Tasks : hand[t] = None
  BY DEF Path!Init
<1>2. Len(<<>>) = 0 /\ handles(<<>>) = <<>>
  BY DEF handles
<1>3. Elements(<<>>) = {} /\ Distinct(<<>>)
  BY <1>2 DEF Elements, Distinct
<1>4. PathType
  BY DEF PathType, Path!Init
<1>5. /\ \A i \in Path!Interfaces : Queued(i) = {}
      /\ \A q \in Path!RouterQueues : Routed(q) = {}
      /\ \A t \in Path!Tasks : Held(t) = {}
  BY <1>1, <1>2, <1>3 DEF Queued, Routed, Held
<1>6. OnePlace
  BY <1>1, <1>2, <1>3, <1>5 DEF OnePlace, Path!Interfaces, Path!RouterQueues, Path!Tasks
<1>7. ToSta = {} /\ ToAwdl = {}
  BY <1>5 DEF ToSta, ToAwdl, Path!Interfaces, Path!RouterQueues, Path!Tasks
<1>8. Counted
  BY <1>1, <1>7 DEF Counted, counting
<1> QED
  BY <1>4, <1>6, <1>8 DEF PathInv

(* Steps that touch no handle.                                             *)
LEMMA PathStays ==
  ASSUME PathInv, UNCHANGED <<arc_buffers, pool, rx_queue, router, hand>>
  PROVE  PathInv'
<1>1. /\ \A i : Queued(i)' = Queued(i)
      /\ \A q : Routed(q)' = Routed(q)
      /\ \A t : Held(t)' = Held(t)
  BY ZenonT(30) DEF Queued, Routed, Held
<1>2. ToSta' = ToSta /\ ToAwdl' = ToAwdl
  BY <1>1, ZenonT(30) DEF ToSta, ToAwdl
<1>3. PathType'
  BY DEF PathInv, PathType
<1>4. OnePlace'
  BY <1>1 DEF PathInv, OnePlace
<1>5. Counted'
  BY <1>2, ZenonT(30) DEF PathInv, Counted
<1> QED
  BY <1>3, <1>4, <1>5 DEF PathInv

(* A task that ends, or is done with its frame, drops what it holds.       *)
LEMMA DropHandKeepsInv ==
  ASSUME Path!RxPathAssumption, PathInv, NEW t \in Path!Tasks, Path!drop_hand(t),
         UNCHANGED <<arc_buffers, rx_queue, router>>
  PROVE  PathInv'
<1>1. /\ hand' \in [Path!Tasks -> Path!Slots \cup {None}]
      /\ hand'[t] = None
      /\ \A u \in Path!Tasks : u # t => hand'[u] = hand[u]
  BY DEF PathInv, PathType, Path!drop_hand
<1>2. /\ Held(t)' = {}
      /\ \A u \in Path!Tasks : u # t => Held(u)' = Held(u)
  BY <1>1 DEF Held
<1>3. /\ \A i : Queued(i)' = Queued(i)
      /\ \A q : Routed(q)' = Routed(q)
  BY ZenonT(30) DEF Queued, Routed
<1>4. PathType'
  BY <1>1 DEF PathInv, PathType
<1>5. OnePlace'
  BY <1>2, <1>3 DEF PathInv, OnePlace, Path!Tasks, Path!RouterQueues
<1>6. \/ Held(t) \subseteq ToSta /\ ToSta' = ToSta \ Held(t) /\ ToAwdl' = ToAwdl
      \/ Held(t) \subseteq ToAwdl /\ ToSta' = ToSta /\ ToAwdl' = ToAwdl \ Held(t)
  <2>1. CASE t = "Awdl"
    BY <1>2, <1>3, <2>1 DEF PathInv, OnePlace, ToSta, ToAwdl, Path!Tasks, Path!RouterQueues
  <2>2. CASE t = "Foreground"
    BY <1>2, <1>3, <2>2 DEF PathInv, OnePlace, ToSta, ToAwdl, Path!Tasks, Path!RouterQueues
  <2>3. CASE t = "Background"
    BY <1>2, <1>3, <2>3 DEF PathInv, OnePlace, ToSta, ToAwdl, Path!Tasks, Path!RouterQueues
  <2> QED
    BY <2>1, <2>2, <2>3 DEF Path!Tasks, Path!RouterQueues
<1>7. pool' = dropping(pool, Held(t))
  <2>1. CASE hand[t] = None
    BY <2>1, PathFacts DEF Path!drop_hand, Held, dropping
  <2>2. CASE hand[t] # None
    <3>1. hand[t] \in Path!Slots /\ Held(t) = {hand[t]}
      BY <2>2 DEF PathInv, PathType, Held
    <3>2. pool' = Path!drop_all(pool, <<hand[t]>>)
      BY <2>2 DEF Path!drop_hand
    <3>3. /\ <<hand[t]>> \in Seq(Path!Slots) /\ Distinct(<<hand[t]>>)
          /\ Elements(<<hand[t]>>) = Held(t)
      BY <3>1, OneHandle
    <3>4. pool \in [Path!Slots -> {0, 1, None}]
      BY PathFacts, ZenonT(30)
    <3> QED
      BY <3>2, <3>3, <3>4, DropAll, ZenonT(30)
  <2> QED
    BY <2>1, <2>2
<1>8. Counted'
  <2>1. pool' = counting(ToSta, ToAwdl)'
    <3>1. None \notin Nat /\ pool = counting(ToSta, ToAwdl)
      BY PathFacts, ZenonT(30) DEF PathInv, Counted
    <3>2. dropping(counting(ToSta, ToAwdl), Held(t)) = counting(ToSta', ToAwdl')
      BY <1>6, <3>1, DropCounts
    <3> QED
      BY <1>7, <3>1, <3>2
  <2>2. arc_buffers' \/ ToSta' \cap ToAwdl' = {}
    BY <1>6 DEF PathInv, Counted
  <2> QED
    BY <2>1, <2>2 DEF Counted
<1> QED
  BY <1>4, <1>5, <1>8 DEF PathInv

(* One round of the station's routing task: the frame goes into a queue of *)
(* the router, or is dropped.                                              *)
LEMMA RoutingKeepsInv ==
  ASSUME Path!RxPathAssumption, PathInv, Path!run_routing
  PROVE  PathInv'
<1> DEFINE s == Head(rx_queue["Sta"]).slot
<1>1. /\ rx_queue["Sta"] \in Seq(Packets) /\ rx_queue["Sta"] # <<>>
      /\ rx_queue' = [rx_queue EXCEPT !["Sta"] = Tail(@)]
      /\ arc_buffers' = arc_buffers /\ hand' = hand
  BY DEF PathInv, PathType, Path!run_routing, Path!Interfaces
<1>2. /\ rx_queue'["Sta"] = Tail(rx_queue["Sta"]) /\ rx_queue'["Awdl"] = rx_queue["Awdl"]
      /\ rx_queue' \in [Path!Interfaces -> Seq(Packets)]
  BY <1>1 DEF PathInv, PathType, Path!Interfaces
<1>3. /\ handles(rx_queue["Sta"]) \in Seq(Path!Slots) /\ handles(rx_queue["Sta"]) # <<>>
      /\ Head(handles(rx_queue["Sta"])) = s
      /\ handles(rx_queue'["Sta"]) = Tail(handles(rx_queue["Sta"]))
  BY <1>1, <1>2, PacketHandles, ZenonT(30)
<1>4. Distinct(handles(rx_queue["Sta"]))
  BY DEF PathInv, OnePlace
<1>5. /\ s \in Path!Slots /\ s \in Queued("Sta")
      /\ Distinct(handles(rx_queue'["Sta"]))
      /\ Queued("Sta")' = Queued("Sta") \ {s}
  BY <1>3, <1>4, TakeFirst DEF Queued
<1>6. Queued("Awdl")' = Queued("Awdl") /\ \A t : Held(t)' = Held(t)
  BY <1>1, <1>2, ZenonT(30) DEF Queued, Held
<1>7. \/ pool' = Path!drop_all(pool, <<s>>) /\ router' = router
      \/ \E q \in Path!RouterQueues :
           router' = [router EXCEPT ![q] = Append(@, s)] /\ pool' = pool
  BY ZenonT(30) DEF Path!run_routing, Path!route_frame, Path!router_queue, Path!RouterQueues
<1> HIDE DEF s
<1>8. CASE pool' = Path!drop_all(pool, <<s>>) /\ router' = router
  <2>1. \A q : Routed(q)' = Routed(q)
    BY <1>8, ZenonT(30) DEF Routed
  <2>2. PathType'
    BY <1>1, <1>2, <1>8 DEF PathInv, PathType
  <2>3. OnePlace'
    BY <1>2, <1>5, <1>6, <1>8, <2>1 DEF PathInv, OnePlace
  <2>4. ToSta' = ToSta \ {s} /\ {s} \subseteq ToSta /\ ToAwdl' = ToAwdl
    BY <1>5, <1>6, <2>1 DEF PathInv, OnePlace, ToSta, ToAwdl
  <2>5. pool' = dropping(pool, {s})
    BY <1>5, <1>8, PathFacts, OneHandle, DropAll, ZenonT(30)
  <2>6. None \notin Nat /\ pool = counting(ToSta, ToAwdl)
    BY PathFacts, ZenonT(30) DEF PathInv, Counted
  <2>7. dropping(counting(ToSta, ToAwdl), {s}) = counting(ToSta', ToAwdl')
    BY <2>4, <2>6, DropCounts
  <2>8. Counted'
    BY <1>1, <2>4, <2>5, <2>6, <2>7 DEF PathInv, Counted
  <2> QED
    BY <2>2, <2>3, <2>8 DEF PathInv
<1>9. ASSUME NEW q \in Path!RouterQueues,
             router' = [router EXCEPT ![q] = Append(@, s)], pool' = pool
      PROVE  PathInv'
  <2>1. router[q] \in Seq(Path!Slots) /\ Distinct(router[q]) /\ s \notin Routed(q)
    BY <1>5 DEF PathInv, PathType, OnePlace, Path!RouterQueues
  <2>2. /\ router'[q] = Append(router[q], s)
        /\ \A p \in Path!RouterQueues : p # q => router'[p] = router[p]
    BY <1>9 DEF PathInv, PathType
  <2>3. /\ Append(router[q], s) \in Seq(Path!Slots) /\ Distinct(router'[q])
        /\ Routed(q)' = Routed(q) \cup {s}
    BY <1>5, <2>1, <2>2, AddLast DEF Routed
  <2>4. \A p \in Path!RouterQueues : p # q => Routed(p)' = Routed(p)
    BY <2>2, ZenonT(30) DEF Routed
  <2>5. PathType'
    BY <1>1, <1>2, <1>9, <2>3 DEF PathInv, PathType
  <2>6. OnePlace'
    <3>1. CASE q = "Foreground"
      <4>1. /\ Distinct(router'["Foreground"]) /\ Distinct(router'["Background"])
            /\ Routed("Foreground")' = Routed("Foreground") \cup {s}
            /\ Routed("Background")' = Routed("Background")
        BY <2>2, <2>3, <2>4, <3>1, ZenonT(30) DEF PathInv, OnePlace, Path!RouterQueues
      <4> QED
        BY <1>2, <1>5, <1>6, <4>1 DEF PathInv, OnePlace
    <3>2. CASE q = "Background"
      <4>1. /\ Distinct(router'["Foreground"]) /\ Distinct(router'["Background"])
            /\ Routed("Foreground")' = Routed("Foreground")
            /\ Routed("Background")' = Routed("Background") \cup {s}
        BY <2>2, <2>3, <2>4, <3>2, ZenonT(30) DEF PathInv, OnePlace, Path!RouterQueues
      <4> QED
        BY <1>2, <1>5, <1>6, <4>1 DEF PathInv, OnePlace
    <3> QED
      BY <3>1, <3>2 DEF Path!RouterQueues
  <2>7. ToSta' = ToSta /\ ToAwdl' = ToAwdl
    BY <1>5, <1>6, <2>3, <2>4 DEF ToSta, ToAwdl, Path!RouterQueues
  <2>8. Counted'
    BY <1>1, <1>9, <2>7 DEF PathInv, Counted
  <2> QED
    BY <2>5, <2>6, <2>8 DEF PathInv
<1> QED
  BY <1>7, <1>8, <1>9, ZenonT(30)

(* An endpoint of the router receives: the frame passes from the queue     *)
(* into the hand of its task.                                              *)
LEMMA ReceiveKeepsInv ==
  ASSUME Path!RxPathAssumption, PathInv, NEW q \in Path!RouterQueues, Path!receive(q)
  PROVE  PathInv'
<1> DEFINE s == Head(router[q])
<1>1. /\ router[q] \in Seq(Path!Slots) /\ router[q] # <<>> /\ Distinct(router[q])
      /\ hand[q] = None
      /\ hand' = [hand EXCEPT ![q] = s] /\ router' = [router EXCEPT ![q] = Tail(@)]
      /\ arc_buffers' = arc_buffers /\ pool' = pool /\ rx_queue' = rx_queue
  BY DEF PathInv, PathType, OnePlace, Path!receive, Path!RouterQueues
<1>2. /\ router'[q] = Tail(router[q])
      /\ \A p \in Path!RouterQueues : p # q => router'[p] = router[p]
  BY <1>1 DEF PathInv, PathType
<1>3. /\ s \in Path!Slots /\ s \in Routed(q)
      /\ router'[q] \in Seq(Path!Slots) /\ Distinct(router'[q])
      /\ Routed(q)' = Routed(q) \ {s}
  BY <1>1, <1>2, TakeFirst DEF Routed
<1> HIDE DEF s
<1>4. q \in Path!Tasks /\ s # None
  BY <1>3, PathFacts DEF Path!Tasks
<1>5. hand'[q] = s /\ \A t \in Path!Tasks : t # q => hand'[t] = hand[t]
  BY <1>1, <1>4 DEF PathInv, PathType
<1>6. /\ Held(q) = {} /\ Held(q)' = {s}
      /\ \A t \in Path!Tasks : t # q => Held(t)' = Held(t)
  BY <1>1, <1>4, <1>5 DEF Held
<1>7. /\ \A i : Queued(i)' = Queued(i)
      /\ \A p \in Path!RouterQueues : p # q => Routed(p)' = Routed(p)
  BY <1>1, <1>2, ZenonT(30) DEF Queued, Routed
<1>8. PathType'
  BY <1>1, <1>2, <1>3, <1>4 DEF PathInv, PathType
<1>9. OnePlace'
  BY <1>1, <1>2, <1>3, <1>6, <1>7 DEF PathInv, OnePlace, Path!RouterQueues, Path!Tasks
<1>10. ToSta' = ToSta /\ ToAwdl' = ToAwdl
  BY <1>3, <1>6, <1>7 DEF ToSta, ToAwdl, Path!RouterQueues, Path!Tasks
<1>11. Counted'
  BY <1>1, <1>10 DEF PathInv, Counted
<1> QED
  BY <1>8, <1>9, <1>11 DEF PathInv

(* The AWDL interface receives.                                            *)
LEMMA ReceiveAwdlKeepsInv ==
  ASSUME Path!RxPathAssumption, PathInv, Path!receive_awdl
  PROVE  PathInv'
<1> DEFINE s == Head(rx_queue["Awdl"]).slot
<1>1. /\ rx_queue["Awdl"] \in Seq(Packets) /\ rx_queue["Awdl"] # <<>>
      /\ rx_queue' = [rx_queue EXCEPT !["Awdl"] = Tail(@)]
      /\ hand["Awdl"] = None /\ hand' = [hand EXCEPT !["Awdl"] = s]
      /\ arc_buffers' = arc_buffers /\ pool' = pool /\ router' = router
  BY DEF PathInv, PathType, Path!receive_awdl, Path!Interfaces
<1>2. /\ rx_queue'["Awdl"] = Tail(rx_queue["Awdl"]) /\ rx_queue'["Sta"] = rx_queue["Sta"]
      /\ rx_queue' \in [Path!Interfaces -> Seq(Packets)]
  BY <1>1 DEF PathInv, PathType, Path!Interfaces
<1>3. /\ handles(rx_queue["Awdl"]) \in Seq(Path!Slots) /\ handles(rx_queue["Awdl"]) # <<>>
      /\ Head(handles(rx_queue["Awdl"])) = s
      /\ handles(rx_queue'["Awdl"]) = Tail(handles(rx_queue["Awdl"]))
  BY <1>1, <1>2, PacketHandles, ZenonT(30)
<1>4. Distinct(handles(rx_queue["Awdl"]))
  BY DEF PathInv, OnePlace
<1>5. /\ s \in Path!Slots /\ s \in Queued("Awdl")
      /\ Distinct(handles(rx_queue'["Awdl"]))
      /\ Queued("Awdl")' = Queued("Awdl") \ {s}
  BY <1>3, <1>4, TakeFirst DEF Queued
<1> HIDE DEF s
<1>6. s # None
  BY <1>5, PathFacts
<1>7. /\ hand' \in [Path!Tasks -> Path!Slots \cup {None}] /\ hand'["Awdl"] = s
      /\ hand'["Foreground"] = hand["Foreground"] /\ hand'["Background"] = hand["Background"]
  BY <1>1, <1>5 DEF PathInv, PathType, Path!Tasks, Path!RouterQueues
<1>8. /\ Held("Awdl") = {} /\ Held("Awdl")' = {s}
      /\ Held("Foreground")' = Held("Foreground") /\ Held("Background")' = Held("Background")
  BY <1>1, <1>6, <1>7 DEF Held
<1>9. Queued("Sta")' = Queued("Sta") /\ \A q : Routed(q)' = Routed(q)
  BY <1>1, <1>2, ZenonT(30) DEF Queued, Routed
<1>10. PathType'
  BY <1>1, <1>2, <1>7 DEF PathInv, PathType
<1>11. OnePlace'
  BY <1>1, <1>2, <1>5, <1>8, <1>9 DEF PathInv, OnePlace
<1>12. ToSta' = ToSta /\ ToAwdl' = ToAwdl
  BY <1>5, <1>8, <1>9 DEF ToSta, ToAwdl
<1>13. Counted'
  BY <1>1, <1>12 DEF PathInv, Counted
<1> QED
  BY <1>10, <1>11, <1>13 DEF PathInv

(* VirtualInterface::reset drops what is left in the queue of the AWDL     *)
(* interface.                                                              *)
LEMMA NewAwdlKeepsInv ==
  ASSUME Path!RxPathAssumption, PathInv, Path!new_awdl_interface
  PROVE  PathInv'
<1> DEFINE h == handles(rx_queue["Awdl"])
<1>1. /\ rx_queue["Awdl"] \in Seq(Packets) /\ Distinct(h)
      /\ rx_queue' = [rx_queue EXCEPT !["Awdl"] = <<>>]
      /\ pool' = Path!drop_all(pool, h)
      /\ arc_buffers' = arc_buffers /\ router' = router /\ hand' = hand
  BY DEF PathInv, PathType, OnePlace, Path!new_awdl_interface, Path!Interfaces, handles
<1>2. h \in Seq(Path!Slots)
  BY <1>1, PacketHandles, ZenonT(30)
<1>3. /\ rx_queue'["Awdl"] = <<>> /\ rx_queue'["Sta"] = rx_queue["Sta"]
      /\ rx_queue' \in [Path!Interfaces -> Seq(Packets)]
  BY <1>1 DEF PathInv, PathType, Path!Interfaces
<1>4. handles(<<>>) = <<>> /\ Len(<<>>) = 0
  BY DEF handles
<1>5. Queued("Awdl")' = {} /\ Distinct(handles(rx_queue'["Awdl"]))
  BY <1>3, <1>4 DEF Queued, Elements, Distinct
<1>6. /\ Queued("Sta")' = Queued("Sta")
      /\ \A q : Routed(q)' = Routed(q)
      /\ \A t : Held(t)' = Held(t)
  BY <1>1, <1>3, ZenonT(30) DEF Queued, Routed, Held
<1>7. PathType'
  BY <1>1, <1>3 DEF PathInv, PathType
<1>8. OnePlace'
  BY <1>1, <1>3, <1>5, <1>6 DEF PathInv, OnePlace
<1>9. /\ ToSta' = ToSta /\ ToAwdl' = ToAwdl \ Queued("Awdl")
      /\ Queued("Awdl") \subseteq ToAwdl
  BY <1>5, <1>6 DEF PathInv, OnePlace, ToSta, ToAwdl
<1>10. pool' = dropping(pool, Queued("Awdl"))
  BY <1>1, <1>2, PathFacts, DropAll, ZenonT(30) DEF Queued
<1>11. None \notin Nat /\ pool = counting(ToSta, ToAwdl)
  BY PathFacts, ZenonT(30) DEF PathInv, Counted
<1>12. dropping(counting(ToSta, ToAwdl), Queued("Awdl")) = counting(ToSta', ToAwdl')
  BY <1>9, <1>11, DropCounts
<1>13. Counted'
  BY <1>1, <1>9, <1>10, <1>11, <1>12 DEF PathInv, Counted
<1> QED
  BY <1>7, <1>8, <1>13 DEF PathInv

-----------------------------------------------------------------------------
(* The sizes of sets as RxPath takes them.                                 *)
LEMMA SameSize == \A S : Path!Cardinality(S) = Cardinality(S)
BY ZenonT(30) DEF Path!Cardinality, Cardinality

(* The sizes of small sets, for the counters.                              *)
LEMMA SmallSets ==
  /\ Cardinality({}) = 0
  /\ \A x : Cardinality({x}) = 1
  /\ \A x, y : x # y => Cardinality({x, y}) = 2
<1>1. IsFiniteSet({}) /\ Cardinality({}) = 0
  BY FS_EmptySet, ZenonT(30)
<1>2. ASSUME NEW x PROVE IsFiniteSet({x}) /\ Cardinality({x}) = 1
  BY FS_Singleton, ZenonT(30)
<1>3. ASSUME NEW x, NEW y, x # y PROVE Cardinality({x, y}) = 2
  <2>1. Cardinality({x} \cup {y}) = Cardinality({x}) + 1
    BY <1>2, <1>3, FS_AddElement, ZenonT(30)
  <2>2. {x} \cup {y} = {x, y}
    BY ZenonT(30)
  <2> QED
    BY <1>2, <2>1, <2>2
<1> QED
  BY <1>1, <1>2, <1>3, ZenonT(30)

(* RxArcPool::try_alloc finds a slot without handles when there is one.    *)
LEMMA AllocFindsFree ==
  ASSUME Path!RxPathAssumption, PathInv, \E s \in Path!Slots : pool[s] = None
  PROVE  Path!try_alloc \in Path!Slots \ (ToSta \cup ToAwdl)
<1> DEFINE n == Path!try_alloc
           free == {s \in Path!Slots : pool[s] = None}
<1>1. free \subseteq Nat /\ free # {} /\ Path!Slots \subseteq Nat
  BY DEF Path!Slots
<1>2. PICK s \in free : \A m \in free : s <= m
  BY <1>1, Least, ZenonT(30)
<1>3. \A r \in Path!Slots : r < s => pool[r] # None
  BY <1>1, <1>2
<1>4. n \in Path!Slots /\ pool[n] = None
  BY <1>2, <1>3, ZenonT(30) DEF Path!try_alloc
<1> HIDE DEF n
<1>5. pool[n] = counting(ToSta, ToAwdl)[n] /\ None \notin Nat
  BY PathFacts, ZenonT(30) DEF PathInv, Counted
<1>6. n \notin ToSta \cup ToAwdl
  BY <1>4, <1>5 DEF counting
<1> QED
  BY <1>4, <1>6 DEF n

(* RxRunner::process_packet: a frame is queued for all its recipients,     *)
(* and has as many handles.                                                *)
LEMMA PacketKeepsInv ==
  ASSUME Path!RxPathAssumption, PathInv, NEW f \in ReceivedFrames, Path!process_packet(f)
  PROVE  PathInv'
<1> DEFINE n == Path!try_alloc
           to == Path!recipients(f)
           new(i) == IF i \in to THEN {n} ELSE {}
<1>1. n \in Path!Slots /\ n \notin ToSta /\ n \notin ToAwdl
  BY AllocFindsFree, ZenonT(30) DEF Path!process_packet
<1>2. /\ pool' = [pool EXCEPT ![n] = Path!dropped(Path!clone(0, Path!Cardinality(to)))]
      /\ rx_queue' = [i \in Path!Interfaces |->
                        IF i \in to THEN Append(rx_queue[i], [slot |-> n, kind |-> f.kind])
                        ELSE rx_queue[i]]
      /\ arc_buffers' = arc_buffers /\ router' = router /\ hand' = hand
  <2>1. pool' = [pool EXCEPT ![n] = Path!dropped(Path!clone(0, Path!Cardinality(to)))]
    BY ZenonT(30) DEF Path!process_packet
  <2>2. rx_queue' = [i \in Path!Interfaces |->
                      IF i \in to THEN Append(rx_queue[i], [slot |-> n, kind |-> f.kind])
                      ELSE rx_queue[i]]
    BY ZenonT(30) DEF Path!process_packet
  <2>3. arc_buffers' = arc_buffers /\ router' = router /\ hand' = hand
    BY ZenonT(30) DEF Path!process_packet
  <2> HIDE DEF n, to
  <2> QED
    BY <2>1, <2>2, <2>3, ZenonT(30)
<1>3. /\ f.to \subseteq {"Sta", "Awdl"} /\ f.kind \in Path!Kinds
      /\ to \subseteq f.to
      /\ arc_buffers \/ to = {} \/ Path!Cardinality(f.to) = 1
  <2>1. f.to \subseteq {"Sta", "Awdl"} /\ f.kind \in Path!Kinds
    BY DEF Path!RxPathAssumption, Path!Interfaces
  <2>2. \A i \in to : i \in f.to /\ (arc_buffers \/ Path!Cardinality(f.to) = 1)
    BY ZenonT(30) DEF Path!recipients
  <2> HIDE DEF to
  <2>3. CASE to = {}
    BY <2>1, <2>3, ZenonT(30)
  <2>4. CASE to # {}
    BY <2>1, <2>2, <2>4, ZenonT(30)
  <2> QED
    BY <2>3, <2>4
<1> HIDE DEF n, to
<1>0. /\ Path!Cardinality({}) = 0 /\ Path!Cardinality({"Sta"}) = 1 /\ Path!Cardinality({"Awdl"}) = 1
      /\ Path!Cardinality({"Sta", "Awdl"}) = 2
  <2>1. "Sta" # "Awdl"
    BY SMTT(30)
  <2> QED
    BY <2>1, SmallSets, SameSize, ZenonT(30)
<1>4. to \in {{}, {"Sta"}, {"Awdl"}, {"Sta", "Awdl"}}
  BY <1>3
<1>5. arc_buffers \/ to # {"Sta", "Awdl"}
  <2> SUFFICES ASSUME ~arc_buffers, to = {"Sta", "Awdl"} PROVE FALSE
    BY ZenonT(30)
  <2>1. f.to = {"Sta", "Awdl"}
    BY <1>3, ZenonT(30)
  <2>2. Path!Cardinality(f.to) = 1
    BY <1>3, ZenonT(30)
  <2>3. Path!Cardinality(f.to) = 2
    BY <1>0, <2>1, ZenonT(30)
  <2> QED
    BY <2>2, <2>3
<1>6. [slot |-> n, kind |-> f.kind] \in Packets
  BY <1>1, <1>3 DEF Packets
<1>7. ASSUME NEW i \in Path!Interfaces
      PROVE  /\ rx_queue'[i] \in Seq(Packets)
             /\ Distinct(handles(rx_queue'[i]))
             /\ Queued(i)' = Queued(i) \cup new(i)
  <2>1. rx_queue[i] \in Seq(Packets) /\ Distinct(handles(rx_queue[i])) /\ n \notin Queued(i)
    BY <1>1 DEF PathInv, PathType, OnePlace, ToSta, ToAwdl, Path!Interfaces
  <2>2. CASE i \in to
    <3>1. rx_queue'[i] = Append(rx_queue[i], [slot |-> n, kind |-> f.kind])
      BY <1>2, <2>2, ZenonT(30)
    <3>2. rx_queue'[i] \in Seq(Packets)
      BY <1>6, <2>1, <3>1
    <3>3. /\ handles(rx_queue[i]) \in Seq(Path!Slots)
          /\ handles(rx_queue'[i])
               = Append(handles(rx_queue[i]), [slot |-> n, kind |-> f.kind].slot)
      BY <1>6, <2>1, <3>1, PacketHandles, ZenonT(30)
    <3>4. handles(rx_queue'[i]) = Append(handles(rx_queue[i]), n)
      BY <3>3
    <3>5. /\ Distinct(handles(rx_queue'[i]))
          /\ Elements(handles(rx_queue'[i])) = Elements(handles(rx_queue[i])) \cup {n}
      BY <1>1, <2>1, <3>3, <3>4, AddLast DEF Queued
    <3> QED
      BY <2>2, <3>2, <3>5 DEF Queued
  <2>3. CASE i \notin to
    <3>1. rx_queue'[i] = rx_queue[i]
      BY <1>2, <2>3, ZenonT(30)
    <3> QED
      BY <2>1, <2>3, <3>1 DEF Queued
  <2> QED
    BY <2>2, <2>3
<1>8. /\ \A q : Routed(q)' = Routed(q)
      /\ \A t : Held(t)' = Held(t)
  BY <1>2, ZenonT(30) DEF Routed, Held
<1>9. /\ Queued("Sta")' = Queued("Sta") \cup new("Sta")
      /\ Queued("Awdl")' = Queued("Awdl") \cup new("Awdl")
      /\ Distinct(handles(rx_queue'["Sta"])) /\ Distinct(handles(rx_queue'["Awdl"]))
  BY <1>7 DEF Path!Interfaces
<1>10. PathType'
  <2>1. rx_queue' \in [Path!Interfaces -> Seq(Packets)]
    BY <1>2, <1>7
  <2> QED
    BY <1>2, <2>1 DEF PathInv, PathType
<1>11. OnePlace'
  <2>1. /\ n \notin Routed("Foreground") /\ n \notin Routed("Background")
        /\ n \notin Held("Foreground") /\ n \notin Held("Background") /\ n \notin Held("Awdl")
    BY <1>1, ZenonT(30) DEF ToSta, ToAwdl
  <2>2. /\ Distinct(router["Foreground"])' /\ Distinct(router["Background"])'
        /\ Queued("Awdl")' \cap Held("Awdl")' = {}
    BY <1>2, <1>8, <1>9, <2>1 DEF PathInv, OnePlace
  <2>3. Queued("Sta")' \cap (Routed("Foreground")' \cup Routed("Background")'
                            \cup Held("Foreground")' \cup Held("Background")') = {}
    BY <1>8, <1>9, <2>1 DEF PathInv, OnePlace
  <2> QED
    BY <1>8, <1>9, <2>2, <2>3 DEF PathInv, OnePlace
<1>12. ToSta' = ToSta \cup new("Sta") /\ ToAwdl' = ToAwdl \cup new("Awdl")
  BY <1>8, <1>9 DEF ToSta, ToAwdl
<1>13. pool'[n] = counting(ToSta', ToAwdl')[n]
  <2>1. pool \in [Path!Slots -> {0, 1, None}] /\ None \notin Nat
    BY PathFacts, ZenonT(30)
  <2>2. pool'[n] = Path!dropped(Path!Cardinality(to))
    <3>1. Path!Cardinality(to) \in {0, 1, 2}
      BY <1>0, <1>4, ZenonT(30)
    <3> QED
      BY <1>1, <1>2, <2>1, <3>1 DEF Path!clone
  <2>3. CASE to = {}
    BY <1>0, <1>1, <1>12, <2>1, <2>2, <2>3 DEF counting, Path!dropped
  <2>4. CASE to = {"Sta"}
    BY <1>0, <1>1, <1>12, <2>1, <2>2, <2>4 DEF counting, Path!dropped
  <2>5. CASE to = {"Awdl"}
    BY <1>0, <1>1, <1>12, <2>1, <2>2, <2>5 DEF counting, Path!dropped
  <2>6. CASE to = {"Sta", "Awdl"}
    BY <1>0, <1>1, <1>12, <2>1, <2>2, <2>6 DEF counting, Path!dropped
  <2> QED
    BY <1>4, <2>3, <2>4, <2>5, <2>6, ZenonT(30)
<1>14. pool' = counting(ToSta', ToAwdl')
  <2>1. pool = counting(ToSta, ToAwdl)
    BY DEF PathInv, Counted
  <2>2. ASSUME NEW s \in Path!Slots PROVE pool'[s] = counting(ToSta', ToAwdl')[s]
    <3>1. CASE s = n
      BY <1>13, <3>1
    <3>2. CASE s # n
      BY <1>1, <1>2, <1>12, <2>1, <3>2 DEF counting
    <3> QED
      BY <3>1, <3>2
  <2>3. pool' = [s \in Path!Slots |-> pool'[s]]
    BY <1>2, <2>1 DEF counting
  <2> QED
    BY <2>2, <2>3 DEF counting
<1>15. arc_buffers' \/ ToSta' \cap ToAwdl' = {}
  <2>1. CASE arc_buffers
    BY <1>2, <2>1, ZenonT(30)
  <2>2. CASE ~arc_buffers
    <3>1. ToSta \cap ToAwdl = {} /\ to # {"Sta", "Awdl"}
      BY <1>5, <2>2, ZenonT(30) DEF PathInv, Counted
    <3>2. ToSta' \cap ToAwdl' = {}
      BY <1>1, <1>4, <1>12, <3>1
    <3> QED
      BY <3>2, ZenonT(30)
  <2> QED
    BY <2>1, <2>2, ZenonT(30)
<1> QED
  BY <1>10, <1>11, <1>14, <1>15 DEF PathInv, Counted

(* PathInv is inductive.                                                   *)
LEMMA PathNext ==
  ASSUME Path!RxPathAssumption, PathInv, [Path!Next]_(Path!vars)
  PROVE  PathInv'
<1>1. ASSUME NEW f \in ReceivedFrames, Path!process_packet(f) PROVE PathInv'
  BY <1>1, PacketKeepsInv
<1>2. CASE Path!run_routing
  BY <1>2, RoutingKeepsInv
<1>3. CASE Path!receive_awdl
  BY <1>3, ReceiveAwdlKeepsInv
<1>4. ASSUME NEW q \in Path!RouterQueues, Path!receive(q) PROVE PathInv'
  BY <1>4, ReceiveKeepsInv
<1>5. ASSUME NEW t \in Path!Tasks, Path!processed(t) PROVE PathInv'
  BY <1>5, DropHandKeepsInv DEF Path!processed
<1>6. ASSUME NEW o \in PathOperations, Path!start_operation(o) PROVE PathInv'
  BY <1>6, PathStays DEF Path!start_operation, Path!handleVars
<1>7. CASE Path!complete_operation
  BY <1>7, DropHandKeepsInv DEF Path!complete_operation, Path!Tasks, Path!RouterQueues
<1>8. CASE Path!connect
  BY <1>8, PathStays DEF Path!connect, Path!handleVars
<1>9. CASE Path!disconnect
  BY <1>9, DropHandKeepsInv DEF Path!disconnect, Path!Tasks, Path!RouterQueues
<1>10. CASE Path!start_session
  BY <1>10, PathStays DEF Path!start_session, Path!handleVars
<1>11. CASE Path!stop_session
  BY <1>11, DropHandKeepsInv DEF Path!stop_session, Path!Tasks
<1>12. CASE Path!new_sta_interface
  BY <1>12, PathStays DEF Path!new_sta_interface, Path!handleVars
<1>13. CASE Path!new_awdl_interface
  BY <1>13, NewAwdlKeepsInv
<1>14. ASSUME NEW i \in Path!Interfaces, Path!drop_endpoint(i) PROVE PathInv'
  BY <1>14, PathStays DEF Path!drop_endpoint, Path!handleVars
<1>15. CASE UNCHANGED Path!vars
  BY <1>15, PathStays DEF Path!vars
<1> QED
  BY <1>1, <1>2, <1>3, <1>4, <1>5, <1>6, <1>7, <1>8, <1>9, <1>10, <1>11, <1>12, <1>13,
     <1>14, <1>15, ZenonT(30) DEF Path!Next

-----------------------------------------------------------------------------
(* Counting the handles.                                                   *)

(* The places of a slot in a sequence of handles, and in a hand.           *)
Places(x, h, s) == {<<x, k>> : k \in {m \in 1 .. Len(h) : h[m] = s}}
InHand(t, s) == IF hand[t] = s THEN {<<t, 0>>} ELSE {}

StaPlaces(s) ==
  Places("Sta", handles(rx_queue["Sta"]), s) \cup Places("Foreground", router["Foreground"], s)
  \cup Places("Background", router["Background"], s)
  \cup InHand("Foreground", s) \cup InHand("Background", s)

AwdlPlaces(s) == Places("Awdl", handles(rx_queue["Awdl"]), s) \cup InHand("Awdl", s)

(* A slot is in one place of a sequence without duplicates, or in none.    *)
LEMMA PlacesOfSlot ==
  ASSUME NEW x, NEW h, NEW s, Distinct(h), Len(h) \in Nat
  PROVE  /\ s \in Elements(h) => \E k \in Nat : Places(x, h, s) = {<<x, k>>}
         /\ s \notin Elements(h) => Places(x, h, s) = {}
<1>1. ASSUME s \in Elements(h) PROVE \E k \in Nat : Places(x, h, s) = {<<x, k>>}
  <2>1. PICK k \in 1 .. Len(h) : h[k] = s
    BY <1>1, ZenonT(30) DEF Elements
  <2>2. {m \in 1 .. Len(h) : h[m] = s} = {k}
    BY <2>1, ZenonT(30) DEF Distinct
  <2>3. k \in Nat
    BY <2>1
  <2>4. Places(x, h, s) = {<<x, k>>}
    BY <2>2, ZenonT(30) DEF Places
  <2> QED
    BY <2>3, <2>4, ZenonT(30)
<1>2. ASSUME s \notin Elements(h) PROVE Places(x, h, s) = {}
  BY <1>2, ZenonT(30) DEF Elements, Places
<1> QED
  BY <1>1, <1>2

(* The handles to a slot are those on the two ways.                        *)
LEMMA HoldersArePlaces ==
  ASSUME PathInv, NEW s
  PROVE  Path!Holders(s) = StaPlaces(s) \cup AwdlPlaces(s)
<1> DEFINE inQueue(i) == {<<i, k>> : k \in {n \in DOMAIN rx_queue[i] : rx_queue[i][n].slot = s}}
           inRouter(q) == {<<q, k>> : k \in {n \in DOMAIN router[q] : router[q][n] = s}}
           inHands == {<<t, 0>> : t \in {u \in Path!Tasks : hand[u] = s}}
           inQueues == UNION {inQueue(i) : i \in Path!Interfaces}
           inRouters == UNION {inRouter(q) : q \in Path!RouterQueues}
<1>1. Path!Holders(s) = inQueues \cup inRouters \cup inHands
  BY ZenonT(30) DEF Path!Holders
<1>2. ASSUME NEW i \in Path!Interfaces PROVE inQueue(i) = Places(i, handles(rx_queue[i]), s)
  <2>1. rx_queue[i] \in Seq(Packets)
    BY DEF PathInv, PathType
  <2>2. handles(rx_queue[i]) \in Seq(Path!Slots)
    BY <2>1, PacketHandles, ZenonT(30)
  <2>3. DOMAIN rx_queue[i] = 1 .. Len(handles(rx_queue[i]))
    BY <2>2 DEF handles
  <2>4. \A n \in DOMAIN rx_queue[i] : handles(rx_queue[i])[n] = rx_queue[i][n].slot
    BY ZenonT(30) DEF handles
  <2> QED
    BY <2>3, <2>4, ZenonT(30) DEF Places
<1>3. ASSUME NEW q \in Path!RouterQueues PROVE inRouter(q) = Places(q, router[q], s)
  <2>1. router[q] \in Seq(Path!Slots)
    BY DEF PathInv, PathType
  <2>2. DOMAIN router[q] = 1 .. Len(router[q])
    BY <2>1
  <2> QED
    BY <2>2, ZenonT(30) DEF Places
<1>4. inHands = InHand("Foreground", s) \cup InHand("Background", s) \cup InHand("Awdl", s)
  BY ZenonT(30) DEF InHand, Path!Tasks, Path!RouterQueues
<1> HIDE DEF inQueue, inRouter, inHands
<1>5. /\ inQueues = inQueue("Sta") \cup inQueue("Awdl")
      /\ inRouters = inRouter("Foreground") \cup inRouter("Background")
  BY ZenonT(30) DEF Path!Interfaces, Path!RouterQueues
<1> HIDE DEF inQueues, inRouters
<1>6. /\ inQueue("Sta") = Places("Sta", handles(rx_queue["Sta"]), s)
      /\ inQueue("Awdl") = Places("Awdl", handles(rx_queue["Awdl"]), s)
      /\ inRouter("Foreground") = Places("Foreground", router["Foreground"], s)
      /\ inRouter("Background") = Places("Background", router["Background"], s)
  BY <1>2, <1>3, ZenonT(30) DEF Path!Interfaces, Path!RouterQueues
<1>7. \A x : x \in Path!Holders(s) <=>
             \/ x \in inQueue("Sta") \/ x \in inQueue("Awdl")
             \/ x \in inRouter("Foreground") \/ x \in inRouter("Background")
             \/ x \in InHand("Foreground", s) \/ x \in InHand("Background", s)
             \/ x \in InHand("Awdl", s)
  BY <1>1, <1>4, <1>5, SMTT(30)
<1>8. \A x : x \in StaPlaces(s) \cup AwdlPlaces(s) <=>
             \/ x \in inQueue("Sta") \/ x \in inQueue("Awdl")
             \/ x \in inRouter("Foreground") \/ x \in inRouter("Background")
             \/ x \in InHand("Foreground", s) \/ x \in InHand("Background", s)
             \/ x \in InHand("Awdl", s)
  BY <1>6, ZenonT(30) DEF StaPlaces, AwdlPlaces
<1>9. \A x : x \in Path!Holders(s) <=> x \in StaPlaces(s) \cup AwdlPlaces(s)
  BY <1>7, <1>8, ZenonT(30)
<1> QED
  BY <1>9, ZenonT(30)

(* There is one place on a way a slot is on, and none on another.          *)
LEMMA OnePlaceOnEachWay ==
  ASSUME Path!RxPathAssumption, PathInv, NEW s \in Path!Slots
  PROVE  /\ s \in ToSta => \E x \in {"Sta", "Foreground", "Background"}, k \in Nat :
                             StaPlaces(s) = {<<x, k>>}
         /\ s \notin ToSta => StaPlaces(s) = {}
         /\ s \in ToAwdl => \E k \in Nat : AwdlPlaces(s) = {<<"Awdl", k>>}
         /\ s \notin ToAwdl => AwdlPlaces(s) = {}
<1> DEFINE qs == Places("Sta", handles(rx_queue["Sta"]), s)
           qa == Places("Awdl", handles(rx_queue["Awdl"]), s)
           rf == Places("Foreground", router["Foreground"], s)
           rb == Places("Background", router["Background"], s)
           hf == InHand("Foreground", s)
           hb == InHand("Background", s)
           ha == InHand("Awdl", s)
<1>1. ASSUME NEW i \in Path!Interfaces
      PROVE  Len(handles(rx_queue[i])) \in Nat /\ Distinct(handles(rx_queue[i]))
  <2>1. rx_queue[i] \in Seq(Packets) /\ Distinct(handles(rx_queue[i]))
    BY DEF PathInv, PathType, OnePlace, Path!Interfaces
  <2>2. handles(rx_queue[i]) \in Seq(Path!Slots)
    BY <2>1, PacketHandles, ZenonT(30)
  <2> QED
    BY <2>1, <2>2
<1>2. ASSUME NEW q \in Path!RouterQueues PROVE Len(router[q]) \in Nat /\ Distinct(router[q])
  BY DEF PathInv, PathType, OnePlace, Path!RouterQueues
<1>3. /\ s \in Queued("Sta") => \E k \in Nat : qs = {<<"Sta", k>>}
      /\ s \notin Queued("Sta") => qs = {}
  BY <1>1, PlacesOfSlot, ZenonT(30) DEF Queued, Path!Interfaces
<1>4. /\ s \in Queued("Awdl") => \E k \in Nat : qa = {<<"Awdl", k>>}
      /\ s \notin Queued("Awdl") => qa = {}
  BY <1>1, PlacesOfSlot, ZenonT(30) DEF Queued, Path!Interfaces
<1>5. /\ s \in Routed("Foreground") => \E k \in Nat : rf = {<<"Foreground", k>>}
      /\ s \notin Routed("Foreground") => rf = {}
  BY <1>2, PlacesOfSlot, ZenonT(30) DEF Routed, Path!RouterQueues
<1>6. /\ s \in Routed("Background") => \E k \in Nat : rb = {<<"Background", k>>}
      /\ s \notin Routed("Background") => rb = {}
  BY <1>2, PlacesOfSlot, ZenonT(30) DEF Routed, Path!RouterQueues
<1>7. \A t \in Path!Tasks : InHand(t, s) = IF s \in Held(t) THEN {<<t, 0>>} ELSE {}
  <2>1. s # None
    BY PathFacts, ZenonT(30)
  <2> QED
    BY <2>1, ZenonT(30) DEF InHand, Held
<1>8. /\ hf = IF s \in Held("Foreground") THEN {<<"Foreground", 0>>} ELSE {}
      /\ hb = IF s \in Held("Background") THEN {<<"Background", 0>>} ELSE {}
      /\ ha = IF s \in Held("Awdl") THEN {<<"Awdl", 0>>} ELSE {}
  BY <1>7, ZenonT(30) DEF Path!Tasks, Path!RouterQueues
<1>9. StaPlaces(s) = qs \cup rf \cup rb \cup hf \cup hb /\ AwdlPlaces(s) = qa \cup ha
  BY ZenonT(30) DEF StaPlaces, AwdlPlaces
<1>0. 0 \in Nat
  OBVIOUS
<1> HIDE DEF qs, qa, rf, rb, hf, hb, ha
<1> DEFINE one == \E x \in {"Sta", "Foreground", "Background"}, k \in Nat :
                    StaPlaces(s) = {<<x, k>>}
<1>10. ASSUME s \in Queued("Sta") PROVE one
  <2>1. rf = {} /\ rb = {} /\ hf = {} /\ hb = {}
    BY <1>5, <1>6, <1>8, <1>10, ZenonT(30) DEF PathInv, OnePlace
  <2>2. StaPlaces(s) = qs
    BY <1>9, <2>1, ZenonT(30)
  <2> QED
    BY <1>3, <1>10, <2>2, ZenonT(30)
<1>11. ASSUME s \in Routed("Foreground") PROVE one
  <2>1. qs = {} /\ rb = {} /\ hf = {} /\ hb = {}
    BY <1>3, <1>5, <1>6, <1>8, <1>11, ZenonT(30) DEF PathInv, OnePlace
  <2>2. StaPlaces(s) = rf
    BY <1>9, <2>1, ZenonT(30)
  <2> QED
    BY <1>0, <1>5, <1>11, <2>2, ZenonT(30)
<1>12. ASSUME s \in Routed("Background") PROVE one
  <2>1. qs = {} /\ rf = {} /\ hf = {} /\ hb = {}
    BY <1>3, <1>5, <1>6, <1>8, <1>12, ZenonT(30) DEF PathInv, OnePlace
  <2>2. StaPlaces(s) = rb
    BY <1>9, <2>1, ZenonT(30)
  <2> QED
    BY <1>0, <1>6, <1>12, <2>2, ZenonT(30)
<1>13. ASSUME s \in Held("Foreground") PROVE one
  <2>1. qs = {} /\ rf = {} /\ rb = {} /\ hb = {}
    BY <1>3, <1>5, <1>6, <1>8, <1>13, ZenonT(30) DEF PathInv, OnePlace
  <2>2. StaPlaces(s) = hf
    BY <1>9, <2>1, ZenonT(30)
  <2> QED
    BY <1>0, <1>8, <1>13, <2>2, ZenonT(30)
<1>14. ASSUME s \in Held("Background") PROVE one
  <2>1. qs = {} /\ rf = {} /\ rb = {} /\ hf = {}
    BY <1>3, <1>5, <1>6, <1>8, <1>14, ZenonT(30) DEF PathInv, OnePlace
  <2>2. StaPlaces(s) = hb
    BY <1>9, <2>1, ZenonT(30)
  <2> QED
    BY <1>0, <1>8, <1>14, <2>2, ZenonT(30)
<1>15. s \in ToSta => one
  BY <1>10, <1>11, <1>12, <1>13, <1>14, ZenonT(30) DEF ToSta
<1>16. ASSUME s \notin ToSta PROVE StaPlaces(s) = {}
  <2>1. qs = {} /\ rf = {} /\ rb = {} /\ hf = {} /\ hb = {}
    BY <1>3, <1>5, <1>6, <1>8, <1>16, ZenonT(30) DEF ToSta
  <2> QED
    BY <1>9, <2>1, ZenonT(30)
<1>17. ASSUME s \in ToAwdl PROVE \E k \in Nat : AwdlPlaces(s) = {<<"Awdl", k>>}
  <2>1. CASE s \in Queued("Awdl")
    <3>1. ha = {}
      BY <1>8, <2>1, ZenonT(30) DEF PathInv, OnePlace
    <3>2. AwdlPlaces(s) = qa
      BY <1>9, <3>1, ZenonT(30)
    <3> QED
      BY <1>4, <2>1, <3>2, ZenonT(30)
  <2>2. CASE s \notin Queued("Awdl")
    <3>1. qa = {} /\ ha = {<<"Awdl", 0>>}
      BY <1>4, <1>8, <1>17, <2>2, ZenonT(30) DEF ToAwdl
    <3>2. AwdlPlaces(s) = {<<"Awdl", 0>>}
      BY <1>9, <3>1, ZenonT(30)
    <3> QED
      BY <1>0, <3>2, ZenonT(30)
  <2> QED
    BY <2>1, <2>2, ZenonT(30)
<1>18. ASSUME s \notin ToAwdl PROVE AwdlPlaces(s) = {}
  <2>1. qa = {} /\ ha = {}
    BY <1>4, <1>8, <1>18, ZenonT(30) DEF ToAwdl
  <2> QED
    BY <1>9, <2>1, ZenonT(30)
<1> QED
  BY <1>15, <1>16, <1>17, <1>18, ZenonT(30)

(* In the states of PathInv the counters are exact.                        *)
LEMMA PathIsExact ==
  ASSUME Path!RxPathAssumption, PathInv
  PROVE  Path!ReferencesAreExact
<1> SUFFICES ASSUME NEW s \in Path!Slots
             PROVE  /\ IF pool[s] = None THEN Path!Holders(s) = {}
                       ELSE Path!Cardinality(Path!Holders(s)) = pool[s] + 1
                    /\ ~arc_buffers => Path!Cardinality(Path!Holders(s)) <= 1
  BY ZenonT(30) DEF Path!ReferencesAreExact
<1> DEFINE H == Path!Holders(s)
           N == Path!Cardinality(H)
<1>1. H = StaPlaces(s) \cup AwdlPlaces(s)
  BY HoldersArePlaces, ZenonT(30)
<1>2. None \notin Nat /\ pool[s] = counting(ToSta, ToAwdl)[s]
  BY PathFacts, ZenonT(30) DEF PathInv, Counted
<1>3. CASE s \in ToSta /\ s \in ToAwdl
  <2>1. PICK x \in {"Sta", "Foreground", "Background"}, k \in Nat : StaPlaces(s) = {<<x, k>>}
    BY <1>3, OnePlaceOnEachWay, ZenonT(30)
  <2>2. PICK m \in Nat : AwdlPlaces(s) = {<<"Awdl", m>>}
    BY <1>3, OnePlaceOnEachWay, ZenonT(30)
  <2>3. H = {<<x, k>>, <<"Awdl", m>>}
    BY <1>1, <2>1, <2>2, ZenonT(30)
  <2>4. <<x, k>> # <<"Awdl", m>>
    BY SMTT(30)
  <2>5. N = 2
    <3> DEFINE a == <<x, k>>
               b == <<"Awdl", m>>
    <3>1. H = {a, b} /\ a # b
      BY <2>3, <2>4, ZenonT(30)
    <3> HIDE DEF H, a, b
    <3> QED
      BY <3>1, SmallSets, SameSize, ZenonT(30)
  <2>6. pool[s] = 1 /\ pool[s] # None
    BY <1>2, <1>3 DEF counting
  <2>7. arc_buffers
    BY <1>3, ZenonT(30) DEF PathInv, Counted
  <2> HIDE DEF H
  <2>8. N = pool[s] + 1
    BY <2>5, <2>6
  <2> QED
    BY <2>6, <2>7, <2>8, ZenonT(30) DEF H
<1>4. CASE ~(s \in ToSta /\ s \in ToAwdl) /\ s \in ToSta \cup ToAwdl
  <2>1. \E x : H = {x}
    <3>1. CASE s \in ToSta
      <4>1. PICK x \in {"Sta", "Foreground", "Background"}, k \in Nat : StaPlaces(s) = {<<x, k>>}
        BY <3>1, OnePlaceOnEachWay, ZenonT(30)
      <4>2. AwdlPlaces(s) = {}
        BY <1>4, <3>1, OnePlaceOnEachWay, ZenonT(30)
      <4>3. H = {<<x, k>>}
        BY <1>1, <4>1, <4>2, ZenonT(30)
      <4> QED
        BY <4>3, ZenonT(30)
    <3>2. CASE s \notin ToSta
      <4>1. PICK m \in Nat : AwdlPlaces(s) = {<<"Awdl", m>>}
        BY <1>4, <3>2, OnePlaceOnEachWay, ZenonT(30)
      <4>2. StaPlaces(s) = {}
        BY <3>2, OnePlaceOnEachWay, ZenonT(30)
      <4>3. H = {<<"Awdl", m>>}
        BY <1>1, <4>1, <4>2, ZenonT(30)
      <4> QED
        BY <4>3, ZenonT(30)
    <3> QED
      BY <3>1, <3>2, ZenonT(30)
  <2>2. N = 1
    BY <2>1, SmallSets, SameSize, ZenonT(30)
  <2>3. pool[s] = 0 /\ pool[s] # None
    BY <1>2, <1>4 DEF counting
  <2> HIDE DEF H
  <2>4. N = pool[s] + 1 /\ N <= 1
    BY <2>2, <2>3
  <2> QED
    BY <2>3, <2>4, ZenonT(30) DEF H
<1>5. CASE s \notin ToSta /\ s \notin ToAwdl
  <2>1. H = {}
    BY <1>1, <1>5, OnePlaceOnEachWay, ZenonT(30)
  <2>2. N = 0
    BY <2>1, SmallSets, SameSize, ZenonT(30)
  <2>3. pool[s] = None
    BY <1>2, <1>5 DEF counting
  <2> HIDE DEF H
  <2>4. N <= 1
    BY <2>2
  <2> QED
    BY <2>1, <2>3, <2>4, ZenonT(30) DEF H
<1> QED
  BY <1>3, <1>4, <1>5, ZenonT(30)

(* The references are exact, in all states: a buffer is free when no       *)
(* queue, no router and no task has a handle to it, and counts its handles *)
(* otherwise (rx_arc_pool.rs); without arc_buffers no buffer has two.      *)
THEOREM ReferencesExact ==
  Path!RxPathAssumption => (Path!Spec => []Path!ReferencesAreExact)
<1> SUFFICES ASSUME Path!RxPathAssumption PROVE Path!Spec => []Path!ReferencesAreExact
  OBVIOUS
<1>1. Path!Init => PathInv
  BY PathInit, ZenonT(30)
<1>2. PathInv /\ [Path!Next]_(Path!vars) => PathInv'
  BY PathNext, ZenonT(30)
<1>3. PathInv => Path!ReferencesAreExact
  BY PathIsExact, ZenonT(30)
<1> QED
  BY <1>1, <1>2, <1>3, PTL DEF Path!Spec
=============================================================================

------------------------------- MODULE RxPath -------------------------------
(* The way of a received frame: the driver's RX buffers, the receive half  *)
(* of the background task (foa/src/bg_task.rs), the reference counted      *)
(* handles of the arc_buffers build (foa/src/rx_arc_pool.rs), the queue of *)
(* each interface and its endpoint (foa/src/lib.rs), the routing task of   *)
(* the station with the two queues of its RX router (foa_sta/src/runner.rs *)
(* and foa/src/util/rx_router.rs) and the receiving task of the AWDL       *)
(* interface (foa_awdl/src/runner/rx.rs).                                  *)
(*                                                                         *)
(* There are RX_BUFFER_COUNT buffers.  One that holds a received frame is  *)
(* a slot; a handle to it is its number, in a queue or in the hand of a    *)
(* task.  Without arc_buffers a handle is the driver's buffer itself and   *)
(* is never cloned, so that its slot has no references besides the first.  *)
(* What a frame is only matters to the routing task: the kind goes with    *)
(* the handle into the station's queue and is forgotten after it.          *)
EXTENDS Naturals, Sequences, FiniteSets

CONSTANTS RX_BUFFER_COUNT,  \* buffers of the driver, and slots of the pool
          RX_QUEUE_LEN,     \* depth of the queue of an interface
          QUEUE_DEPTH,      \* depth of a queue of the station's RX router
          Operations,       \* operations in the foreground, of "Scan", "Associate", "Handshake"
          Frames,           \* received frames: the interfaces they are for, and their kind
          None

Interfaces == {"Sta", "Awdl"}
RouterQueues == {"Foreground", "Background"}
Tasks == RouterQueues \cup {"Awdl"}
Kinds == {"Data", "Eapol", "Mgmt"}
Slots == 1 .. RX_BUFFER_COUNT

ASSUME RxPathAssumption ==
  /\ RX_BUFFER_COUNT \in Nat \ {0} /\ RX_QUEUE_LEN \in Nat \ {0} /\ QUEUE_DEPTH \in Nat \ {0}
  /\ \A f \in Frames : f.to \subseteq Interfaces /\ f.kind \in Kinds
  /\ None \notin Nat

VARIABLES
  arc_buffers,  \* the build has the feature arc_buffers
  pool,         \* for each slot: None, or the references besides the first
  queue,        \* the RX queue of each interface
  active,       \* the interfaces whose endpoint exists
  router,       \* the queues of the station's RX router
  hand,         \* the handle a task has received and not dropped yet
  op,           \* the foreground operation of the station
  connected,    \* the station is connected
  session       \* an AWDL session is running

vars == <<arc_buffers, pool, queue, active, router, hand, op, connected, session>>
handleVars == <<pool, queue, router, hand>>
modeVars == <<op, connected, session>>

Init ==
  /\ arc_buffers \in BOOLEAN
  /\ pool = [s \in Slots |-> None]
  /\ queue = [i \in Interfaces |-> <<>>]
  /\ active = {}
  /\ router = [q \in RouterQueues |-> <<>>]
  /\ hand = [t \in Tasks |-> None]
  /\ op = None /\ connected = FALSE /\ session = FALSE

-----------------------------------------------------------------------------
(* RxArcBuffer: a handle is cloned, or dropped; the last one frees.        *)

clone(refs, n) == refs + n

(* Mutant: the counter is compared after the subtraction.                  *)
dropped_Early(refs) == IF refs <= 1 THEN None ELSE refs - 1

dropped(refs) == IF refs = 0 THEN None ELSE refs - 1

(* Dropping every handle of a sequence.                                    *)
drop_all(p, handles) ==
  LET after[k \in 0 .. Len(handles)] ==
        IF k = 0 THEN p ELSE [after[k - 1] EXCEPT ![handles[k]] = dropped(@)]
  IN after[Len(handles)]

(* Dropping what a task holds, if it holds something.                      *)
drop_hand(t) ==
  /\ pool' = IF hand[t] = None THEN pool ELSE drop_all(pool, <<hand[t]>>)
  /\ hand' = [hand EXCEPT ![t] = None]

(* RxArcPool::try_alloc: the first slot that is free.                      *)
try_alloc == CHOOSE s \in Slots : /\ pool[s] = None
                                  /\ \A r \in Slots : r < s => pool[r] # None

(* The driver, and the atomic flag and the queue of an interface: the      *)
(* interfaces whose try_send succeeds.  Without arc_buffers only a frame   *)
(* for exactly one interface is passed on.                                 *)
recipients(f) ==
  {i \in f.to : /\ arc_buffers \/ Cardinality(f.to) = 1
                /\ i \in active /\ Len(queue[i]) < RX_QUEUE_LEN}

(* RxRunner::process_packet, for a frame the driver has a buffer for: the  *)
(* local handle is dropped at the end.                                     *)
process_packet(f) ==
  /\ \E s \in Slots : pool[s] = None
  /\ LET n == try_alloc
         to == recipients(f)
     IN /\ pool' = [pool EXCEPT ![n] = dropped(clone(0, Cardinality(to)))]
        /\ queue' = [i \in Interfaces |->
                       IF i \in to THEN Append(queue[i], [slot |-> n, kind |-> f.kind])
                       ELSE queue[i]]
  /\ UNCHANGED <<arc_buffers, active, router, hand, modeVars>>

-----------------------------------------------------------------------------
(* The station's routing task.                                             *)

(* StaRxRouterOperation: what the foreground operation waits for, and      *)
(* whether it has an address of its own.                                   *)
frame_relevant_for_operation(kind) ==
  (op \in {"Scan", "Associate"} /\ kind = "Mgmt") \/ (op = "Handshake" /\ kind = "Eapol")

own_address_known == connected \/ op \in {"Associate", "Handshake"}

(* The frames RoutingRunner::run does not route: those for another         *)
(* address, those of a time when another interface is off channel, and     *)
(* data frames of a connection, which it processes itself or throws away.  *)
kept_from_router(kind, foreign, away) ==
  \/ foreign /\ own_address_known
  \/ away
  \/ connected /\ kind = "Data"

router_queue(kind) ==
  IF frame_relevant_for_operation(kind) THEN "Foreground" ELSE "Background"

(* Mutant: a queue takes one frame more than its depth.                    *)
route_frame_OffByOne(s, kind) ==
  LET q == router_queue(kind)
  IN IF Len(router[q]) <= QUEUE_DEPTH
     THEN router' = [router EXCEPT ![q] = Append(@, s)] /\ UNCHANGED pool
     ELSE pool' = drop_all(pool, <<s>>) /\ UNCHANGED router

(* RxRouterInput::route_frame: into its queue, or dropped if that is full. *)
route_frame(s, kind) ==
  LET q == router_queue(kind)
  IN IF Len(router[q]) < QUEUE_DEPTH
     THEN router' = [router EXCEPT ![q] = Append(@, s)] /\ UNCHANGED pool
     ELSE pool' = drop_all(pool, <<s>>) /\ UNCHANGED router

(* One round of RoutingRunner::run, for a frame that may be for another    *)
(* address, while another interface may be off channel.                    *)
run_routing ==
  /\ "Sta" \in active /\ queue["Sta"] # <<>>
  /\ queue' = [queue EXCEPT !["Sta"] = Tail(@)]
  /\ LET received == Head(queue["Sta"])
     IN \E foreign, away \in BOOLEAN :
          IF kept_from_router(received.kind, foreign, away)
          THEN pool' = drop_all(pool, <<received.slot>>) /\ UNCHANGED router
          ELSE route_frame(received.slot, received.kind)
  /\ UNCHANGED <<arc_buffers, active, hand, modeVars>>

(* RxRouterEndpoint::receive of the operation, or of the connection        *)
(* runner.                                                                 *)
receive(q) ==
  /\ IF q = "Foreground" THEN op # None ELSE connected
  /\ "Sta" \in active /\ hand[q] = None /\ router[q] # <<>>
  /\ hand' = [hand EXCEPT ![q] = Head(router[q])]
  /\ router' = [router EXCEPT ![q] = Tail(@)]
  /\ UNCHANGED <<arc_buffers, pool, queue, active, modeVars>>

(* AwdlMpduRxRunner::run_session: a frame is received and processed, which *)
(* may wait for a buffer of the network stack.                             *)
receive_awdl ==
  /\ "Awdl" \in active /\ session /\ hand["Awdl"] = None /\ queue["Awdl"] # <<>>
  /\ hand' = [hand EXCEPT !["Awdl"] = Head(queue["Awdl"]).slot]
  /\ queue' = [queue EXCEPT !["Awdl"] = Tail(@)]
  /\ UNCHANGED <<arc_buffers, pool, active, router, modeVars>>

(* The task is done with its frame and drops it.                           *)
processed(t) ==
  /\ hand[t] # None
  /\ drop_hand(t)
  /\ UNCHANGED <<arc_buffers, queue, active, router, modeVars>>

-----------------------------------------------------------------------------
(* Operations, connections and sessions begin and end; a future that ends  *)
(* drops the frame it holds.  The router's queues are left as they are.    *)

(* start_operation, and the transition from associating to the handshake.  *)
start_operation(o) ==
  /\ "Sta" \in active
  /\ op = (IF o = "Handshake" THEN "Associate" ELSE None)
  /\ op' = o
  /\ UNCHANGED <<arc_buffers, handleVars, active, connected, session>>

complete_operation ==
  /\ op # None
  /\ op' = None
  /\ drop_hand("Foreground")
  /\ UNCHANGED <<arc_buffers, queue, active, router, connected, session>>

connect ==
  /\ op \in {"Associate", "Handshake"} /\ ~connected
  /\ connected' = TRUE
  /\ UNCHANGED <<arc_buffers, handleVars, active, op, session>>

disconnect ==
  /\ connected
  /\ connected' = FALSE
  /\ drop_hand("Background")
  /\ UNCHANGED <<arc_buffers, queue, active, router, op, session>>

start_session ==
  /\ "Awdl" \in active /\ ~session
  /\ session' = TRUE
  /\ UNCHANGED <<arc_buffers, handleVars, active, op, connected>>

stop_session ==
  /\ session
  /\ session' = FALSE
  /\ drop_hand("Awdl")
  /\ UNCHANGED <<arc_buffers, queue, active, router, op, connected>>

-----------------------------------------------------------------------------
(* The life of an endpoint.                                                *)

(* new_sta_interface: VirtualInterface::split; the queue keeps its frames. *)
new_sta_interface ==
  /\ "Sta" \notin active
  /\ active' = active \cup {"Sta"}
  /\ UNCHANGED <<arc_buffers, handleVars, modeVars>>

(* new_awdl_interface: VirtualInterface::reset, which clears the queue,    *)
(* then split.                                                             *)
new_awdl_interface ==
  /\ "Awdl" \notin active
  /\ active' = active \cup {"Awdl"}
  /\ queue' = [queue EXCEPT !["Awdl"] = <<>>]
  /\ pool' = drop_all(pool, [k \in DOMAIN queue["Awdl"] |-> queue["Awdl"][k].slot])
  /\ UNCHANGED <<arc_buffers, router, hand, modeVars>>

(* RxEndpoint::drop, with the runner, of an interface that is not in use.  *)
drop_endpoint(i) ==
  /\ i \in active
  /\ IF i = "Sta" THEN op = None /\ ~connected ELSE ~session
  /\ active' = active \ {i}
  /\ UNCHANGED <<arc_buffers, handleVars, modeVars>>

Next ==
  \/ \E f \in Frames : process_packet(f)
  \/ run_routing \/ receive_awdl
  \/ \E q \in RouterQueues : receive(q)
  \/ \E t \in Tasks : processed(t)
  \/ \E o \in Operations : start_operation(o)
  \/ complete_operation \/ connect \/ disconnect
  \/ start_session \/ stop_session
  \/ new_sta_interface \/ new_awdl_interface
  \/ \E i \in Interfaces : drop_endpoint(i)

Spec == Init /\ [][Next]_vars

(* The interfaces' runners are polled: the routing task takes what is in   *)
(* its queue, and neither runner keeps a frame in its hand for ever.  That *)
(* an application polls StaControl is not assumed.                         *)
Fairness ==
  /\ WF_vars(run_routing) /\ WF_vars(receive_awdl)
  /\ WF_vars(processed("Background")) /\ WF_vars(processed("Awdl"))

FairSpec == Spec /\ Fairness

-----------------------------------------------------------------------------
(* Where handles to a slot are.                                            *)
Holders(s) ==
  (UNION {{<<i, k>> : k \in {n \in DOMAIN queue[i] : queue[i][n].slot = s}} : i \in Interfaces})
  \cup (UNION {{<<q, k>> : k \in {n \in DOMAIN router[q] : router[q][n] = s}} : q \in RouterQueues})
  \cup {<<t, 0>> : t \in {u \in Tasks : hand[u] = s}}

(* The references are exact, across the queues of two interfaces, the      *)
(* queues of the router and the tasks: a slot is free when no handle to it *)
(* exists and counts its handles but one otherwise; without arc_buffers no *)
(* slot has two handles.  So no frame is read after its buffer was given   *)
(* back, none is lost, and the pool has a slot for every buffer.           *)
ReferencesAreExact ==
  \A s \in Slots :
    /\ IF pool[s] = None THEN Holders(s) = {}
       ELSE Cardinality(Holders(s)) = pool[s] + 1
    /\ ~arc_buffers => Cardinality(Holders(s)) <= 1

(* The radio keeps receiving: whatever operations, connections and         *)
(* sessions leave behind in their queues, the driver gets a buffer back,   *)
(* as long as the interfaces are in use, because a full queue of the       *)
(* router holds up neither task before it.  It needs more buffers than can *)
(* be left behind: both queues of the router, a frame in the hand of an    *)
(* operation nobody polls, and the queue of an AWDL interface without a    *)
(* session.                                                                *)
RadioKeepsReceiving ==
  RX_BUFFER_COUNT > 2 * QUEUE_DEPTH + 1 + RX_QUEUE_LEN =>
    ("Sta" \in active) ~> ("Sta" \notin active \/ \E s \in Slots : pool[s] = None)
=============================================================================

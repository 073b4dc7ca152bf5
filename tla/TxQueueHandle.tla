--------------------------- MODULE TxQueueHandle ----------------------------
(***************************************************************************)
(* The handles of the TX queues: what each handle can expect of its slot   *)
(* (HandleInv), from which it follows that cancelled callers do not touch  *)
(* later occupants, that no wake-up is lost, and why a waiter gets None.   *)
(* And no expect() and no unreachable arm of the queue can panic.          *)
(***************************************************************************)
EXTENDS TxQueueProofs, FiniteSetTheorems

(* The provers of a leaf that names none, with time for a slow machine.    *)
USE SMTT(30), SMTT(40), ZenonT(30), SMTT(50), SMTT(60)

-----------------------------------------------------------------------------
(* The handles: one per enqueued generation.  While a handle waits, its    *)
(* slot is its own until it is declared overwritten, expects return data,  *)
(* and becomes empty only by an abort; it sleeps only on an occupied slot  *)
(* that will wake it.                                                      *)
Claims(q, g) == handle[q][g] \in Unresolved

HandleAt(q) ==
  /\ \A g \in Generations : handle[q][g] = "None" <=> g >= counter[q]
  /\ \A g \in Generations :
       Claims(q, g) /\ counter[q] - g <= TX_BUFFER_COUNT
         => slot[q][slot_index(g)].state # "Empty" \/ g \in aborted[q]
  /\ \A i \in Slots :
       /\ slot[q][i].state \in Occupied => (expected[q][i] <=> Claims(q, written[q][i]))
       /\ slot[q][i].state = "ReturnDataAvailable" => Claims(q, written[q][i])
  /\ runner[q].at = "Parked" => capacity[q] = TX_BUFFER_COUNT
  /\ \A g \in Generations :
       handle[q][g] = "Parked" =>
         /\ counter[q] - g <= TX_BUFFER_COUNT
         /\ slot[q][slot_index(g)].state \in Occupied
         /\ waker[q][slot_index(g)] = g
  /\ \A g \in Generations :
       handle[q][g] = "GotNone" =>
         counter[q] - g > TX_BUFFER_COUNT \/ g \in aborted[q]

HandleInv == \A q \in Queues : HandleAt(q)

-----------------------------------------------------------------------------
(* The handle layer.                                                       *)

(* A generation that is not out of bounds still has its slot, ...          *)
LEMMA SlotOf ==
  ASSUME TypeOK, RingInv, NEW q \in Queues, NEW g \in Generations,
         g < counter[q], counter[q] - g <= TX_BUFFER_COUNT
  PROVE  slot_index(g) \in Slots /\ written[q][slot_index(g)] = g
  BY QueueTypes DEF RingInv, RingAt

(* ... and a slot that is in use belongs to such a generation.             *)
LEMMA OwnerOf ==
  ASSUME TypeOK, RingInv, NEW q \in Queues, NEW i \in Slots,
         written[q][i] # None
  PROVE  /\ written[q][i] \in Generations
         /\ written[q][i] < counter[q]
         /\ counter[q] - written[q][i] <= TX_BUFFER_COUNT
         /\ slot_index(written[q][i]) = i
  BY QueueTypes DEF RingInv, RingAt

(* A step that leaves the queue's slots and handles alone.                 *)
LEMMA HandleFrame ==
  ASSUME NEW q \in Queues, HandleAt(q),
         counter'[q] = counter[q], capacity'[q] = capacity[q],
         written'[q] = written[q], slot'[q] = slot[q],
         expected'[q] = expected[q], waker'[q] = waker[q],
         handle'[q] = handle[q], aborted'[q] = aborted[q],
         \/ runner'[q] = runner[q]
         \/ runner'[q].at # "Parked"
         \/ capacity[q] = TX_BUFFER_COUNT
  PROVE  HandleAt(q)'
  BY DEF HandleAt, Claims, slot_index

(* enqueue_frame gives the new generation a slot that nobody waits on.     *)
LEMMA HandleEnqueue ==
  ASSUME TypeOK, RingInv, NEW q \in Queues, HandleAt(q), NEW b \in Buffers,
         enqueue_frame(q, b)
  PROVE  HandleAt(q)'
<1> DEFINE c == counter[q]
           i0 == next_slot_index(q)
           N == TX_BUFFER_COUNT
<1>1. /\ N \in Nat \ {0} /\ c \in Generations /\ c \in Nat
      /\ len(q) \in 0 .. N - 1 /\ len(q) <= c
      /\ i0 \in Slots /\ i0 = slot_index(c)
      /\ Generations \subseteq Nat
  BY QueueTypes DEF enqueue_frame, len, RingInv, RingAt, Generations, slot_index,
     next_slot_index
<1>2. /\ counter'[q] = c + 1 /\ waker'[q] = waker[q] /\ aborted'[q] = aborted[q]
      /\ \A i \in Slots :
           /\ slot'[q][i] = IF i = i0 THEN [state |-> "Pending", frame |-> b]
                                      ELSE slot[q][i]
           /\ written'[q][i] = IF i = i0 THEN c ELSE written[q][i]
           /\ expected'[q][i] = IF i = i0 THEN TRUE ELSE expected[q][i]
      /\ \A g \in Generations :
           handle'[q][g] = IF g = c THEN "Held" ELSE handle[q][g]
  BY <1>1, ZenonT(30) DEF enqueue_frame, TypeOK
<1>3. \A g \in Generations : slot_index(g) \in Slots
  BY QueueTypes
<1> HIDE DEF c, i0, N
<1>4. slot'[q][i0] = [state |-> "Pending", frame |-> b]
  BY <1>1, <1>2, ZenonT(30)
<1>5. slot'[q][i0].state = "Pending"
  BY <1>4
<1>6. written'[q][i0] = c /\ handle'[q][c] = "Held"
  BY <1>1, <1>2, ZenonT(30)
<1>7. expected'[q][i0]
  BY <1>1, <1>2, ZenonT(30)
<1>8. \A g \in Generations : g # c => (handle'[q][g] = handle[q][g])
  BY <1>2
<1>9. \A i \in Slots : i # i0 /\ written[q][i] # None => written[q][i] # c
  BY OwnerOf, <1>1 DEF c
<1>10. ASSUME NEW g \in Generations, g < c, (c + 1) - g <= N
      PROVE  slot_index(g) # i0
  <2>1. g + (c - g) = c /\ c - g \in 0 .. N /\ c - g # 0 /\ c - g # N /\ g \in Nat
    BY <1>1, <1>10
  <2>2. (g + (c - g)) % N # g % N
    BY <2>1, <1>1, RingDistance, ZenonT(30)
  <2>3. c % N # g % N
    BY <2>1, <2>2
  <2> QED
    BY <2>3, <1>1 DEF slot_index, N
<1>11. ASSUME NEW g \in Generations, handle[q][g] = "Parked"
      PROVE  /\ g < c /\ (c + 1) - g <= N /\ slot_index(g) # i0
             /\ slot[q][slot_index(g)].state \in Occupied
             /\ waker[q][slot_index(g)] = g
  <2>1. /\ g < c /\ c - g <= N
        /\ slot[q][slot_index(g)].state \in Occupied
        /\ waker[q][slot_index(g)] = g
    BY <1>1, <1>11 DEF HandleAt, c, N
  <2>2. written[q][slot_index(g)] = g
    BY <2>1, SlotOf DEF c, N
  <2>3. g >= c - len(q)
    BY <2>1, <2>2, <1>3 DEF RingInv, RingAt, c
  <2>4. (c + 1) - g <= N
    BY <2>1, <2>3, <1>1
  <2> QED
    BY <2>1, <2>4, <1>10
<1>12. \A g \in Generations : handle'[q][g] = "None" <=> g >= c + 1
  BY <1>1, <1>2 DEF HandleAt, c
<1>13. \A g \in Generations :
        Claims(q, g)' /\ (c + 1) - g <= N
          => slot'[q][slot_index(g)].state # "Empty" \/ g \in aborted'[q]
  <2> SUFFICES ASSUME NEW g \in Generations, handle'[q][g] \in Unresolved,
                      (c + 1) - g <= N
               PROVE  slot'[q][slot_index(g)].state # "Empty" \/ g \in aborted'[q]
    BY DEF Claims
  <2>1. CASE g = c
    BY <2>1, <1>1, <1>5
  <2>2. CASE g # c
    <3>1. handle[q][g] \in Unresolved /\ handle[q][g] # "None" /\ g < c
      BY <2>2, <1>1, <1>8 DEF HandleAt, Unresolved, Waiting, c
    <3>2. slot_index(g) # i0 /\ slot_index(g) \in Slots /\ c - g <= N
      BY <3>1, <1>1, <1>3, <1>10
    <3>3. slot[q][slot_index(g)].state # "Empty" \/ g \in aborted[q]
      BY <3>1, <3>2 DEF HandleAt, Claims, c, N
    <3> QED
      BY <3>2, <3>3, <1>2, ZenonT(30)
  <2> QED
    BY <2>1, <2>2
<1>14. ASSUME NEW i \in Slots
       PROVE  /\ slot'[q][i].state \in Occupied =>
                   (expected'[q][i] <=> Claims(q, written[q][i])')
              /\ slot'[q][i].state = "ReturnDataAvailable" => Claims(q, written[q][i])'
  <2>1. CASE i = i0
    <3>1. Claims(q, written[q][i])'
      BY <2>1, <1>6 DEF Claims, Unresolved
    <3>2. slot'[q][i].state = "Pending" /\ expected'[q][i]
      BY <2>1, <1>5, <1>7
    <3> QED
      BY <3>1, <3>2
  <2>2. CASE i # i0
    <3>1. /\ slot'[q][i] = slot[q][i] /\ expected'[q][i] = expected[q][i]
          /\ written'[q][i] = written[q][i]
      BY <2>2, <1>2, ZenonT(30)
    <3>2. ASSUME slot[q][i].state # "Empty"
          PROVE  Claims(q, written[q][i])' = Claims(q, written[q][i])
      <4>1. written[q][i] # None
        BY <3>2 DEF RingInv, RingAt
      <4>2. written[q][i] \in Generations /\ written[q][i] # c
        BY <4>1, <2>2, <1>9, OwnerOf
      <4> QED
        BY <4>2, <3>1, <1>8 DEF Claims
    <3>3. /\ slot[q][i].state \in Occupied => (expected[q][i] <=> Claims(q, written[q][i]))
          /\ slot[q][i].state = "ReturnDataAvailable" => Claims(q, written[q][i])
          /\ slot[q][i].state \in Occupied => slot[q][i].state # "Empty"
      BY DEF HandleAt, Occupied
    <3> QED
      BY <3>1, <3>2, <3>3
  <2> QED
    BY <2>1, <2>2
<1>15. runner'[q].at # "Parked"
  <2>1. CASE is_empty(q)
    <3>1. runner'[q] = WakeRunner(runner[q])
      BY <2>1 DEF enqueue_frame, TypeOK
    <3> QED
      BY <3>1 DEF WakeRunner, RunnableRunner
  <2>2. CASE ~is_empty(q)
    <3>1. runner'[q] = runner[q]
      BY <2>2 DEF enqueue_frame, TypeOK
    <3> QED
      BY <2>2, <3>1 DEF HandleAt, is_empty
  <2> QED
    BY <2>1, <2>2
<1>16. \A g \in Generations :
         handle'[q][g] = "Parked" =>
           /\ (c + 1) - g <= N
           /\ slot'[q][slot_index(g)].state \in Occupied
           /\ waker'[q][slot_index(g)] = g
  BY <1>2, <1>3, <1>11, ZenonT(30)
<1>17. \A g \in Generations :
         handle'[q][g] = "GotNone" => (c + 1) - g > N \/ g \in aborted'[q]
  BY <1>1, <1>2 DEF HandleAt, c, N
<1> QED
  BY <1>2, <1>12, <1>13, <1>14, <1>15, <1>16, <1>17 DEF HandleAt, N, slot_index

(* A resolved or dropped handle: if its slot is still its own, the slot is *)
(* either not in use any more or no longer expects return data.            *)
LEMMA HandleResolve ==
  ASSUME TypeOK, RingInv, NEW q \in Queues, HandleAt(q), NEW g \in Generations,
         NEW h \in {"GotData", "GotNone", "Gone"},
         handle[q][g] # "None",
         handle'[q] = [handle[q] EXCEPT ![g] = h],
         counter'[q] = counter[q], capacity'[q] = capacity[q],
         written'[q] = written[q], waker'[q] = waker[q],
         aborted'[q] = aborted[q], runner'[q] = runner[q],
         \A i \in Slots : i # slot_index(g) \/ counter[q] - g > TX_BUFFER_COUNT =>
           slot'[q][i] = slot[q][i] /\ expected'[q][i] = expected[q][i],
         counter[q] - g <= TX_BUFFER_COUNT =>
           \/ slot'[q][slot_index(g)].state = "Empty"
                /\ slot[q][slot_index(g)].state \notin Occupied
           \/ slot'[q][slot_index(g)] = slot[q][slot_index(g)]
                /\ slot[q][slot_index(g)].state \in Occupied
                /\ ~expected'[q][slot_index(g)] /\ h = "Gone",
         h = "GotNone" => counter[q] - g > TX_BUFFER_COUNT \/ g \in aborted[q]
  PROVE  HandleAt(q)'
<1>1. /\ g < counter[q] /\ slot_index(g) \in Slots
      /\ TX_BUFFER_COUNT \in Nat /\ counter[q] \in Nat /\ Generations \subseteq Nat
  BY QueueTypes DEF HandleAt, Generations
<1>2. \A k \in Generations : handle'[q][k] = IF k = g THEN h ELSE handle[q][k]
  BY DEF TypeOK
<1>3. h \notin Unresolved /\ h # "None" /\ h # "Parked"
  BY DEF Unresolved, Waiting
<1>4. ASSUME NEW i \in Slots, written[q][i] = g
      PROVE  i = slot_index(g) /\ counter[q] - g <= TX_BUFFER_COUNT
  BY <1>4, OwnerOf DEF Generations, None
<1>5. ASSUME NEW k \in Generations, k # g, k < counter[q],
             counter[q] - k <= TX_BUFFER_COUNT
      PROVE  slot'[q][slot_index(k)] = slot[q][slot_index(k)]
  <2>1. slot_index(k) \in Slots /\ written[q][slot_index(k)] = k
    BY <1>5, SlotOf
  <2>2. counter[q] - g <= TX_BUFFER_COUNT => written[q][slot_index(g)] = g
    BY <1>1, SlotOf
  <2>3. slot_index(k) # slot_index(g) \/ counter[q] - g > TX_BUFFER_COUNT
    BY <2>1, <2>2, <1>1, <1>5
  <2> QED
    BY <2>1, <2>3
<1>6. \A k \in Generations : handle'[q][k] = "None" <=> k >= counter[q]
  BY <1>1, <1>2, <1>3, ZenonT(60) DEF HandleAt
<1>7. \A k \in Generations :
        Claims(q, k)' /\ counter[q] - k <= TX_BUFFER_COUNT
          => slot'[q][slot_index(k)].state # "Empty" \/ k \in aborted[q]
  <2> SUFFICES ASSUME NEW k \in Generations, handle'[q][k] \in Unresolved,
                      counter[q] - k <= TX_BUFFER_COUNT
               PROVE  slot'[q][slot_index(k)].state # "Empty" \/ k \in aborted[q]
    BY DEF Claims
  <2>1. k # g /\ handle[q][k] \in Unresolved
    BY <1>2, <1>3
  <2>2. k < counter[q]
    BY <2>1, <1>1 DEF HandleAt, Unresolved, Waiting
  <2> QED
    BY <2>1, <2>2, <1>5, Zenon DEF HandleAt, Claims
<1>8. ASSUME NEW i \in Slots
      PROVE  /\ slot'[q][i].state \in Occupied =>
                  (expected'[q][i] <=> Claims(q, written[q][i])')
             /\ slot'[q][i].state = "ReturnDataAvailable" => Claims(q, written[q][i])'
  <2>1. CASE written[q][i] = g
    <3>1. i = slot_index(g) /\ counter[q] - g <= TX_BUFFER_COUNT
      BY <2>1, <1>4
    <3>2. handle'[q][g] \notin Unresolved
      BY <1>2, <1>3
    <3>3. ~Claims(q, written[q][i])'
      BY <2>1, <3>2 DEF Claims
    <3>4. \/ slot'[q][i].state = "Empty"
          \/ slot'[q][i].state \in Occupied /\ ~expected'[q][i]
      BY <3>1, Zenon
    <3> QED
      BY <3>3, <3>4 DEF Occupied
  <2>2. CASE written[q][i] # g
    <3>1. counter[q] - g <= TX_BUFFER_COUNT => i # slot_index(g)
      BY <2>2, <1>1, SlotOf
    <3>2. slot'[q][i] = slot[q][i] /\ expected'[q][i] = expected[q][i]
      BY <3>1, <1>1
    <3>3. ASSUME slot[q][i].state # "Empty"
          PROVE  Claims(q, written[q][i])' = Claims(q, written[q][i])
      <4>1. written[q][i] \in Generations
        BY <3>3, OwnerOf, ZenonT(30) DEF RingInv, RingAt
      <4> QED
        BY <4>1, <2>2, <1>2, Zenon DEF Claims
    <3>4. /\ slot[q][i].state \in Occupied => (expected[q][i] <=> Claims(q, written[q][i]))
          /\ slot[q][i].state = "ReturnDataAvailable" => Claims(q, written[q][i])
          /\ slot[q][i].state \in Occupied => slot[q][i].state # "Empty"
      BY Zenon DEF HandleAt, Occupied
    <3> QED
      BY <3>2, <3>3, <3>4
  <2> QED
    BY <2>1, <2>2, Zenon
<1>9. \A k \in Generations :
        handle'[q][k] = "Parked" =>
          /\ counter[q] - k <= TX_BUFFER_COUNT
          /\ slot'[q][slot_index(k)].state \in Occupied
          /\ waker[q][slot_index(k)] = k
  <2> SUFFICES ASSUME NEW k \in Generations, handle'[q][k] = "Parked"
               PROVE  /\ counter[q] - k <= TX_BUFFER_COUNT
                      /\ slot'[q][slot_index(k)].state \in Occupied
                      /\ waker[q][slot_index(k)] = k
    OBVIOUS
  <2>1. k # g /\ handle[q][k] = "Parked"
    BY <1>2, <1>3
  <2>2. k < counter[q]
    BY <2>1, <1>1 DEF HandleAt
  <2>3. counter[q] - k <= TX_BUFFER_COUNT
    BY <2>1, Zenon DEF HandleAt
  <2> QED
    BY <2>1, <2>2, <2>3, <1>5 DEF HandleAt
<1>10. \A k \in Generations :
         handle'[q][k] = "GotNone" =>
           counter[q] - k > TX_BUFFER_COUNT \/ k \in aborted[q]
  BY <1>2, Zenon DEF HandleAt
<1> QED
  BY <1>6, <1>7, <1>8, <1>9, <1>10, ZenonT(60) DEF HandleAt, slot_index

(* Going to sleep in wait_for_completion.                                  *)
LEMMA HandlePark ==
  ASSUME TypeOK, RingInv, NEW q \in Queues, HandleAt(q), NEW g \in Generations,
         handle[q][g] \in Unresolved,
         counter[q] - g <= TX_BUFFER_COUNT,
         slot[q][slot_index(g)].state \in Occupied,
         handle'[q] = [handle[q] EXCEPT ![g] = "Parked"],
         waker'[q] = [waker[q] EXCEPT ![slot_index(g)] = g],
         counter'[q] = counter[q], capacity'[q] = capacity[q],
         written'[q] = written[q], slot'[q] = slot[q],
         expected'[q] = expected[q], aborted'[q] = aborted[q],
         runner'[q] = runner[q]
  PROVE  HandleAt(q)'
<1>1. /\ \A k \in Generations : handle'[q][k] = IF k = g THEN "Parked" ELSE handle[q][k]
      /\ \A i \in Slots : waker'[q][i] = IF i = slot_index(g) THEN g ELSE waker[q][i]
  BY DEF TypeOK
<1>2. /\ \A k \in Generations : slot_index(k) \in Slots /\ k \in Nat
      /\ TX_BUFFER_COUNT \in Nat /\ counter[q] \in Nat
  BY QueueTypes DEF Generations
<1>3. \A k \in Generations : Claims(q, k)' <=> Claims(q, k)
  BY <1>1 DEF Claims, Unresolved, Waiting
<1>4. ASSUME NEW k \in Generations, handle[q][k] = "Parked", k # g
      PROVE  slot_index(k) # slot_index(g)
  <2>1. k < counter[q] /\ counter[q] - k <= TX_BUFFER_COUNT
    BY <1>2, <1>4 DEF HandleAt
  <2>2. g < counter[q]
    BY <1>2 DEF HandleAt, Unresolved, Waiting
  <2> QED
    BY <2>1, <2>2, <1>4, SlotOf
<1>5. \A i \in Slots : slot[q][i].state # "Empty" => written[q][i] \in Generations
  BY OwnerOf, ZenonT(60) DEF RingInv, RingAt
<1>6. ASSUME NEW i \in Slots
      PROVE  /\ slot'[q][i].state \in Occupied =>
                  (expected'[q][i] <=> Claims(q, written[q][i])')
             /\ slot'[q][i].state = "ReturnDataAvailable" => Claims(q, written[q][i])'
  <2>1. slot[q][i].state # "Empty" =>
          (Claims(q, written[q][i])' <=> Claims(q, written[q][i]))
    BY <1>3, <1>5, Zenon DEF Claims
  <2> QED
    BY <2>1 DEF HandleAt, Occupied
<1>7. \A k \in Generations :
        handle'[q][k] = "Parked" =>
          /\ counter[q] - k <= TX_BUFFER_COUNT
          /\ slot[q][slot_index(k)].state \in Occupied
          /\ waker'[q][slot_index(k)] = k
  BY <1>1, <1>2, <1>4 DEF HandleAt
<1>8. \A k \in Generations : handle'[q][k] = "None" <=> k >= counter[q]
  <2>1. handle[q][g] # "None" /\ "Parked" # "None"
    BY DEF Unresolved, Waiting
  <2>2. \A k \in Generations : handle[q][k] = "None" <=> k >= counter[q]
    BY Zenon DEF HandleAt
  <2> QED
    BY <1>1, <2>1, <2>2, Zenon
<1>9. \A k \in Generations :
         handle'[q][k] = "GotNone" =>
           counter[q] - k > TX_BUFFER_COUNT \/ k \in aborted[q]
  BY <1>1, Zenon DEF HandleAt
<1> QED
  BY <1>3, <1>6, <1>7, <1>8, <1>9, ZenonT(30) DEF HandleAt, slot_index

(* finish hands the return data to the handle that waits for it and wakes  *)
(* it, or empties the slot.                                                *)
LEMMA HandleFinish ==
  ASSUME TypeOK, RingInv, NEW q \in Queues, HandleAt(q),
         runner[q].at = "Transmitting", runner'[q].at # "Parked",
         NEW new, new.state \in {"Empty", "ReturnDataAvailable"},
         slot'[q] = [slot[q] EXCEPT ![runner[q].index] =
                       finish(q, runner[q].index, new)],
         handle'[q] = WakeWaiter(q, runner[q].index),
         counter'[q] = counter[q], written'[q] = written[q],
         expected'[q] = expected[q], waker'[q] = waker[q],
         aborted[q] \subseteq aborted'[q],
         new.state = "Empty" => written[q][runner[q].index] \in aborted'[q]
  PROVE  HandleAt(q)'
<1> DEFINE i0 == runner[q].index
           x == finish(q, i0, new)
           w == written[q][i0]
<1>1. /\ i0 \in Slots /\ slot[q][i0].state = "InProgress"
      /\ w \in Generations /\ w < counter[q]
      /\ counter[q] - w <= TX_BUFFER_COUNT /\ slot_index(w) = i0
  <2>1. i0 \in Slots
    BY QueueTypes, Zenon DEF RunnerStates
  <2>2. slot[q][i0].state = "InProgress" /\ w # None
    BY <2>1, Zenon DEF RingInv, RingAt
  <2> QED
    BY <2>1, <2>2, OwnerOf, Zenon
<1>2. /\ TX_BUFFER_COUNT \in Nat /\ counter[q] \in Nat /\ Generations \subseteq Nat
      /\ \A k \in Generations : slot_index(k) \in Slots
  BY QueueTypes, SMTT(30) DEF Generations
<1>3. /\ \A i \in Slots : slot'[q][i] = IF i = i0 THEN x ELSE slot[q][i]
      /\ \A k \in Generations :
           handle'[q][k] = IF k = waker[q][i0] /\ handle[q][k] = "Parked"
                           THEN "Woken" ELSE handle[q][k]
  <2>1. slot[q] \in [Slots -> SlotValues]
    BY DEF TypeOK
  <2>2. \A i \in Slots : slot'[q][i] = IF i = i0 THEN x ELSE slot[q][i]
    BY <1>1, <2>1
  <2> QED
    BY <2>2, Zenon DEF WakeWaiter
<1>4. expected[q][i0] <=> Claims(q, w)
  BY <1>1, Zenon DEF HandleAt, Occupied
<1>5. IF Claims(q, w) THEN x = new ELSE x = EmptySlot
  BY <1>4, Zenon DEF finish
<1> HIDE DEF i0, x, w
<1>6. x.state \in {"Empty", "ReturnDataAvailable"} /\ EmptySlot.state = "Empty"
  <2>1. EmptySlot.state = "Empty"
    BY Zenon DEF EmptySlot
  <2>2. x = new \/ x = EmptySlot
    BY <1>5, Zenon
  <2> QED
    BY <2>1, <2>2, Zenon
<1>7. \A k \in Generations : Claims(q, k)' <=> Claims(q, k)
  BY <1>3 DEF Claims, Unresolved, Waiting
<1>8. ASSUME NEW k \in Generations, k < counter[q],
             counter[q] - k <= TX_BUFFER_COUNT, k # w
      PROVE  slot'[q][slot_index(k)] = slot[q][slot_index(k)]
  <2>1. written[q][slot_index(k)] = k /\ slot_index(k) # i0
    BY <1>8, SlotOf, ZenonT(60) DEF w
  <2> QED
    BY <2>1, <1>2, <1>3
<1>9. \A k \in Generations : handle'[q][k] = "None" <=> k >= counter[q]
  BY <1>3 DEF HandleAt
<1>10. \A k \in Generations :
         Claims(q, k)' /\ counter[q] - k <= TX_BUFFER_COUNT
           => slot'[q][slot_index(k)].state # "Empty" \/ k \in aborted'[q]
  <2> SUFFICES ASSUME NEW k \in Generations, Claims(q, k),
                      counter[q] - k <= TX_BUFFER_COUNT
               PROVE  slot'[q][slot_index(k)].state # "Empty" \/ k \in aborted'[q]
    BY <1>7, Zenon
  <2>1. k < counter[q]
    BY <1>2 DEF HandleAt, Claims, Unresolved, Waiting
  <2>2. CASE k = w
    <3>1. slot'[q][slot_index(k)] = x /\ x = new
      BY <2>2, <1>1, <1>3, <1>5, Zenon
    <3>2. new.state = "Empty" => k \in aborted'[q]
      BY <2>2, Zenon DEF w, i0
    <3> QED
      BY <3>1, <3>2, Zenon
  <2>3. CASE k # w
    BY <2>1, <2>3, <1>8, ZenonT(30) DEF HandleAt
  <2> QED
    BY <2>2, <2>3, Zenon
<1>11. ASSUME NEW i \in Slots
       PROVE  /\ slot'[q][i].state \in Occupied =>
                   (expected'[q][i] <=> Claims(q, written[q][i])')
              /\ slot'[q][i].state = "ReturnDataAvailable" => Claims(q, written[q][i])'
  <2>1. slot[q][i].state # "Empty" =>
          (Claims(q, written[q][i])' <=> Claims(q, written[q][i]))
    <3>1. slot[q][i].state # "Empty" => written[q][i] \in Generations
      BY OwnerOf, ZenonT(30) DEF RingInv, RingAt
    <3> QED
      BY <3>1, <1>7, Zenon DEF Claims
  <2>2. CASE i = i0
    <3>1. slot'[q][i] = x /\ x.state \notin Occupied
      BY <2>2, <1>3, <1>6, Zenon DEF Occupied
    <3>2. x.state = "ReturnDataAvailable" => Claims(q, written[q][i])
      BY <2>2, <1>5, <1>6, Zenon DEF w
    <3> QED
      BY <3>1, <3>2, <2>1, <2>2, <1>1, Zenon
  <2>3. CASE i # i0
    BY <2>1, <2>3, <1>3, ZenonT(30) DEF HandleAt, Occupied
  <2> QED
    BY <2>2, <2>3, Zenon
<1>12. \A k \in Generations :
         handle'[q][k] = "Parked" =>
           /\ counter[q] - k <= TX_BUFFER_COUNT
           /\ slot'[q][slot_index(k)].state \in Occupied
           /\ waker[q][slot_index(k)] = k
  <2> SUFFICES ASSUME NEW k \in Generations, handle'[q][k] = "Parked"
               PROVE  /\ counter[q] - k <= TX_BUFFER_COUNT
                      /\ slot'[q][slot_index(k)].state \in Occupied
                      /\ waker[q][slot_index(k)] = k
    OBVIOUS
  <2>1. handle[q][k] = "Parked" /\ k # waker[q][i0]
    BY <1>3, ZenonT(30)
  <2>2. /\ counter[q] - k <= TX_BUFFER_COUNT /\ k < counter[q]
        /\ slot[q][slot_index(k)].state \in Occupied
        /\ waker[q][slot_index(k)] = k
    BY <2>1, <1>2 DEF HandleAt
  <2>3. k # w
    BY <2>1, <2>2, <1>1, Zenon
  <2> QED
    BY <2>2, <2>3, <1>8, Zenon
<1>13. \A k \in Generations :
         handle'[q][k] = "GotNone" =>
           counter[q] - k > TX_BUFFER_COUNT \/ k \in aborted'[q]
  BY <1>3, ZenonT(30) DEF HandleAt
<1> QED
  BY <1>9, <1>10, <1>11, <1>12, <1>13, ZenonT(60) DEF HandleAt, slot_index

(* The end of a transmission keeps the handles of its queue.               *)
LEMMA HandleTransmit ==
  ASSUME TypeOK, RingInv, NEW q \in Queues, HandleAt(q), transmit(q)
  PROVE  HandleAt(q)'
<1> DEFINE new == [state |-> "ReturnDataAvailable", frame |-> runner[q].frame]
<1>1. new.state = "ReturnDataAvailable"
  OBVIOUS
<1>2. runner'[q].at # "Parked"
  BY Zenon DEF transmit, TypeOK, RunnableRunner
<1>3. /\ slot'[q] = [slot[q] EXCEPT ![runner[q].index] =
                      finish(q, runner[q].index, new)]
      /\ handle'[q] = WakeWaiter(q, runner[q].index)
      /\ runner[q].at = "Transmitting"
  BY DEF transmit, TypeOK
<1>4. /\ counter'[q] = counter[q] /\ written'[q] = written[q]
      /\ expected'[q] = expected[q] /\ waker'[q] = waker[q]
      /\ aborted'[q] = aborted[q]
  BY Zenon DEF transmit
<1> HIDE DEF new
<1> QED
  BY <1>1, <1>2, <1>3, <1>4, HandleFinish

(* The end of the runner task keeps the handles of every queue.            *)
LEMMA HandleAbort ==
  ASSUME TypeOK, RingInv, NEW q \in Queues, HandleAt(q), drop_runner
  PROVE  HandleAt(q)'
<1>1. /\ runner'[q].at # "Parked"
      /\ counter'[q] = counter[q] /\ written'[q] = written[q]
      /\ expected'[q] = expected[q] /\ waker'[q] = waker[q]
  BY ZenonT(30) DEF drop_runner, StoppedRunner
<1>2. CASE runner[q].at = "Transmitting"
  <2>1. /\ slot'[q] = [slot[q] EXCEPT ![runner[q].index] =
                        finish(q, runner[q].index, EmptySlot)]
        /\ handle'[q] = WakeWaiter(q, runner[q].index)
        /\ aborted'[q] = aborted[q] \cup {written[q][runner[q].index]}
    BY <1>2, Zenon DEF drop_runner
  <2>2. EmptySlot.state \in {"Empty", "ReturnDataAvailable"}
    BY Zenon DEF EmptySlot
  <2>3. /\ aborted[q] \subseteq aborted'[q]
        /\ written[q][runner[q].index] \in aborted'[q]
    BY <2>1, Zenon
  <2> QED
    BY <1>1, <1>2, <2>1, <2>2, <2>3, HandleFinish
<1>3. CASE runner[q].at # "Transmitting"
  <2>1. /\ slot'[q] = slot[q] /\ handle'[q] = handle[q]
        /\ aborted'[q] = aborted[q] /\ capacity'[q] = capacity[q]
    BY <1>3, Zenon DEF drop_runner
  <2> QED
    BY <1>1, <2>1, HandleFrame, Zenon
<1> QED
  BY <1>2, <1>3, Zenon

(* One poll of wait_for_completion keeps the handles of its queue.         *)
LEMMA HandlePoll ==
  ASSUME TypeOK, RingInv, NEW q \in Queues, HandleAt(q), NEW g \in Generations,
         poll_completion(q, g)
  PROVE  HandleAt(q)'
<1> DEFINE i == slot_index(g)
<1>1. /\ i \in Slots /\ TX_BUFFER_COUNT \in Nat /\ counter[q] - g \in Int
      /\ handle[q][g] \in Unresolved /\ handle[q][g] # "None"
  BY QueueTypes DEF poll_completion, Unresolved, Waiting, Generations
<1>2. /\ counter'[q] = counter[q] /\ capacity'[q] = capacity[q]
      /\ written'[q] = written[q] /\ expected'[q] = expected[q]
      /\ aborted'[q] = aborted[q] /\ runner'[q] = runner[q]
  BY DEF poll_completion
<1>3. CASE is_counter_out_of_bounds(q, g)
  <2>1. counter[q] - g > TX_BUFFER_COUNT /\ ~(counter[q] - g <= TX_BUFFER_COUNT)
    BY <1>1, <1>3 DEF is_counter_out_of_bounds
  <2>2. /\ handle'[q] = [handle[q] EXCEPT ![g] = "GotNone"]
        /\ slot' = slot /\ waker' = waker
    BY <1>3 DEF poll_completion, TypeOK
  <2> QED
    BY <1>1, <1>2, <2>1, <2>2, HandleResolve, ZenonT(30)
<1>4. CASE ~is_counter_out_of_bounds(q, g) /\ slot[q][i].state = "ReturnDataAvailable"
  <2>1. ~(counter[q] - g > TX_BUFFER_COUNT)
    BY <1>4 DEF is_counter_out_of_bounds
  <2>2. /\ handle'[q] = [handle[q] EXCEPT ![g] = "GotData"]
        /\ slot' = [slot EXCEPT ![q][i] = EmptySlot] /\ waker' = waker
    BY <1>4, ZenonT(30) DEF poll_completion, TypeOK, Occupied
  <2>3. /\ \A j \in Slots : j # i => slot'[q][j] = slot[q][j]
        /\ slot'[q][i] = EmptySlot /\ EmptySlot.state = "Empty"
    BY <1>1, <2>2 DEF TypeOK, EmptySlot
  <2>4. slot[q][i].state \notin Occupied
    BY <1>4, SMTT(30) DEF Occupied
  <2> QED
    BY <1>1, <1>2, <2>1, <2>2, <2>3, <2>4, HandleResolve, ZenonT(30)
<1>5. CASE ~is_counter_out_of_bounds(q, g) /\ slot[q][i].state = "Empty"
  <2>1. counter[q] - g <= TX_BUFFER_COUNT
    BY <1>1, <1>5 DEF is_counter_out_of_bounds
  <2>2. /\ handle'[q] = [handle[q] EXCEPT ![g] = "GotNone"]
        /\ slot' = slot /\ waker' = waker
    BY <1>5, Zenon DEF poll_completion, TypeOK, Occupied
  <2>3. g \in aborted[q] /\ slot[q][i].state \notin Occupied
    BY <1>1, <1>5, <2>1, Zenon DEF HandleAt, Claims, Occupied
  <2> QED
    BY <1>1, <1>2, <1>5, <2>1, <2>2, <2>3, HandleResolve, ZenonT(30)
<1>6. CASE ~is_counter_out_of_bounds(q, g) /\ slot[q][i].state \in Occupied
  <2>1. counter[q] - g <= TX_BUFFER_COUNT
    BY <1>1, <1>6 DEF is_counter_out_of_bounds
  <2>2. /\ handle'[q] = [handle[q] EXCEPT ![g] = "Parked"]
        /\ waker'[q] = [waker[q] EXCEPT ![i] = g] /\ slot' = slot
    BY <1>6, ZenonT(30) DEF poll_completion, TypeOK, Occupied
  <2> QED
    BY <1>1, <1>2, <1>6, <2>1, <2>2, HandlePark, Zenon
<1> QED
  BY <1>3, <1>4, <1>5, <1>6, Zenon DEF poll_completion

(* Dropping a handle keeps the handles of its queue.                       *)
LEMMA HandleDrop ==
  ASSUME TypeOK, RingInv, NEW q \in Queues, HandleAt(q), NEW g \in Generations,
         drop_handle(q, g)
  PROVE  HandleAt(q)'
<1> DEFINE i == slot_index(g)
<1>1. /\ i \in Slots /\ TX_BUFFER_COUNT \in Nat /\ counter[q] - g \in Int
      /\ handle[q][g] # "None"
  BY QueueTypes DEF drop_handle, Live, Unresolved, Waiting, Generations
<1>2. /\ counter'[q] = counter[q] /\ capacity'[q] = capacity[q]
      /\ written'[q] = written[q] /\ waker'[q] = waker[q]
      /\ aborted'[q] = aborted[q] /\ runner'[q] = runner[q]
      /\ handle'[q] = [handle[q] EXCEPT ![g] = "Gone"]
  BY DEF drop_handle, TypeOK
<1>3. CASE is_counter_out_of_bounds(q, g)
  <2>1. counter[q] - g > TX_BUFFER_COUNT /\ ~(counter[q] - g <= TX_BUFFER_COUNT)
    BY <1>1, <1>3 DEF is_counter_out_of_bounds
  <2>2. slot' = slot /\ expected' = expected
    BY <1>3 DEF drop_handle
  <2> QED
    BY <1>1, <1>2, <2>1, <2>2, HandleResolve, ZenonT(30)
<1>4. CASE ~is_counter_out_of_bounds(q, g)
  <2>1. ~(counter[q] - g > TX_BUFFER_COUNT)
    BY <1>4 DEF is_counter_out_of_bounds
  <2>2. /\ \A j \in Slots : j # i => expected'[q][j] = expected[q][j]
        /\ ~expected'[q][i]
    BY <1>1, <1>4 DEF drop_handle, TypeOK
  <2>3. CASE slot[q][i].state = "ReturnDataAvailable"
    <3>1. /\ \A j \in Slots : j # i => slot'[q][j] = slot[q][j]
          /\ slot'[q][i] = EmptySlot /\ EmptySlot.state = "Empty"
      BY <1>1, <1>4, <2>3 DEF drop_handle, TypeOK, EmptySlot
    <3>2. slot[q][i].state \notin Occupied
      BY <2>3 DEF Occupied
    <3> QED
      BY <1>1, <1>2, <2>1, <2>2, <3>1, <3>2, HandleResolve, ZenonT(30)
  <2>4. CASE slot[q][i].state # "ReturnDataAvailable"
    <3>1. slot' = slot
      BY <1>4, <2>4, ZenonT(30) DEF drop_handle
    <3>2. \/ slot[q][i].state = "Empty" /\ slot[q][i].state \notin Occupied
          \/ slot[q][i].state \in Occupied
      BY <1>1, <2>4 DEF TypeOK, SlotValues, Occupied
    <3> QED
      BY <1>1, <1>2, <2>1, <2>2, <3>1, <3>2, HandleResolve, ZenonT(30)
  <2> QED
    BY <2>3, <2>4
<1> QED
  BY <1>3, <1>4

(* Every action keeps the handles.                                         *)
LEMMA HandleNext ==
  ASSUME TypeOK, RingInv, HandleInv, Next
  PROVE  HandleInv'
<1> SUFFICES ASSUME NEW p \in Queues PROVE HandleAt(p)'
  BY DEF HandleInv
<1>0. HandleAt(p)
  BY Zenon DEF HandleInv
<1>1. ASSUME NEW b \in Buffers, alloc(b) PROVE HandleAt(p)'
  BY <1>0, <1>1, HandleFrame, ZenonT(30) DEF alloc
<1>2. ASSUME NEW b \in Buffers, drop_buffer(b) PROVE HandleAt(p)'
  BY <1>0, <1>2, HandleFrame DEF drop_buffer
<1>3. ASSUME NEW q \in Queues, NEW b \in Buffers, enqueue_frame(q, b)
      PROVE  HandleAt(p)'
  <2>1. CASE p = q
    BY <1>0, <1>3, <2>1, HandleEnqueue, Zenon
  <2>2. CASE p # q
    <3>1. /\ counter'[p] = counter[p] /\ capacity'[p] = capacity[p]
          /\ written'[p] = written[p] /\ slot'[p] = slot[p]
          /\ expected'[p] = expected[p] /\ waker'[p] = waker[p]
          /\ handle'[p] = handle[p] /\ aborted'[p] = aborted[p]
          /\ runner'[p] = runner[p]
      BY <1>3, <2>2 DEF enqueue_frame, TypeOK
    <3> QED
      BY <3>1, <1>0, HandleFrame, Zenon
  <2> QED
    BY <2>1, <2>2
<1>4. ASSUME NEW q \in Queues, NEW g \in Generations, poll_completion(q, g)
      PROVE  HandleAt(p)'
  <2>1. CASE p = q
    BY <1>0, <1>4, <2>1, HandlePoll, Zenon
  <2>2. CASE p # q
    <3>1. \E h : handle' = [handle EXCEPT ![q][g] = h]
      BY <1>4 DEF poll_completion
    <3>2. handle'[p] = handle[p]
      BY <2>2, <3>1 DEF TypeOK
    <3>3. slot' = slot \/ slot' = [slot EXCEPT ![q][slot_index(g)] = EmptySlot]
      BY <1>4 DEF poll_completion
    <3>4. slot'[p] = slot[p]
      BY <2>2, <3>3, Zenon DEF TypeOK
    <3>5. waker' = waker \/ waker' = [waker EXCEPT ![q][slot_index(g)] = g]
      BY <1>4 DEF poll_completion
    <3>6. waker'[p] = waker[p]
      BY <2>2, <3>5 DEF TypeOK
    <3> QED
      BY <1>4, <3>2, <3>4, <3>6, <1>0, HandleFrame, Zenon DEF poll_completion
  <2> QED
    BY <2>1, <2>2
<1>5. ASSUME NEW q \in Queues, NEW g \in Generations, drop_handle(q, g)
      PROVE  HandleAt(p)'
  <2>1. CASE p = q
    BY <1>0, <1>5, <2>1, HandleDrop
  <2>2. CASE p # q
    <3>1. handle'[p] = handle[p]
      BY <1>5, <2>2 DEF drop_handle, TypeOK
    <3>2. slot' = slot \/ slot' = [slot EXCEPT ![q][slot_index(g)] = EmptySlot]
      BY <1>5 DEF drop_handle
    <3>3. slot'[p] = slot[p]
      BY <2>2, <3>2 DEF TypeOK
    <3>4. expected' = expected \/ expected' = [expected EXCEPT ![q][slot_index(g)] = FALSE]
      BY <1>5 DEF drop_handle
    <3>5. expected'[p] = expected[p]
      BY <2>2, <3>4, Zenon DEF TypeOK
    <3> QED
      BY <1>5, <3>1, <3>3, <3>5, <1>0, HandleFrame, Zenon DEF drop_handle
  <2> QED
    BY <2>1, <2>2
<1>6. ASSUME NEW q \in Queues, wait_queue_not_empty(q) PROVE HandleAt(p)'
  <2>1. runner'[p] = runner[p] \/ capacity[p] = TX_BUFFER_COUNT
    BY <1>6 DEF wait_queue_not_empty, is_empty, TypeOK
  <2> QED
    BY <1>6, <2>1, <1>0, HandleFrame DEF wait_queue_not_empty
<1>7. ASSUME NEW q \in Queues, try_receive(q) PROVE HandleAt(p)'
  <2>1. CASE p = q
    <3> DEFINE i0 == front_index(q)
    <3>1. /\ i0 \in Slots /\ slot[q][i0].state = "Pending"
          /\ \A i \in Slots :
               slot'[q][i] = IF i = i0 THEN [state |-> "InProgress", frame |-> NoBuffer]
                                       ELSE slot[q][i]
      BY <1>7, RingReceive, ZenonT(30) DEF try_receive, TypeOK
    <3>0. HandleAt(q)
      BY <1>0, <2>1
    <3>2. runner'[q].at = "Transmitting"
      BY <1>7, Zenon DEF try_receive, TypeOK
    <3>3. /\ counter'[q] = counter[q] /\ capacity'[q] = capacity[q]
          /\ written'[q] = written[q] /\ expected'[q] = expected[q]
          /\ waker'[q] = waker[q] /\ handle'[q] = handle[q]
          /\ aborted'[q] = aborted[q]
      BY <1>7, Zenon DEF try_receive
    <3> HIDE DEF i0
    <3>4. \A i \in Slots :
            /\ slot'[q][i].state \in Occupied <=> slot[q][i].state \in Occupied
            /\ slot'[q][i].state = "Empty" => slot[q][i].state = "Empty"
            /\ slot'[q][i].state = "ReturnDataAvailable"
                 => slot[q][i].state = "ReturnDataAvailable"
      BY <3>1 DEF Occupied
    <3>5. \A g \in Generations : slot_index(g) \in Slots
      BY QueueTypes, Zenon
    <3>6. \A i : Claims(q, written[q][i])' <=> Claims(q, written[q][i])
      BY <3>3, Zenon DEF Claims
    <3>7. ASSUME NEW i \in Slots
          PROVE  /\ slot'[q][i].state \in Occupied =>
                      (expected'[q][i] <=> Claims(q, written[q][i])')
                 /\ slot'[q][i].state = "ReturnDataAvailable"
                      => Claims(q, written[q][i])'
      BY <3>0, <3>3, <3>4, <3>6, Zenon DEF HandleAt
    <3>8. \A g \in Generations :
            Claims(q, g)' /\ counter[q] - g <= TX_BUFFER_COUNT
              => slot'[q][slot_index(g)].state # "Empty" \/ g \in aborted[q]
      BY <3>0, <3>3, <3>4, <3>5, Zenon DEF HandleAt, Claims
    <3>9. \A g \in Generations :
            handle[q][g] = "Parked" =>
              /\ counter[q] - g <= TX_BUFFER_COUNT
              /\ slot'[q][slot_index(g)].state \in Occupied
              /\ waker[q][slot_index(g)] = g
      BY <3>0, <3>4, <3>5, Zenon DEF HandleAt
    <3>10. runner'[q].at # "Parked"
      BY <3>2
    <3>11. /\ \A g \in Generations : handle[q][g] = "None" <=> g >= counter[q]
           /\ \A g \in Generations :
                handle[q][g] = "GotNone" =>
                  counter[q] - g > TX_BUFFER_COUNT \/ g \in aborted[q]
      BY <3>0, Zenon DEF HandleAt
    <3>12. HandleAt(q)'
      BY <3>3, <3>7, <3>8, <3>9, <3>10, <3>11, ZenonT(30) DEF HandleAt, slot_index
    <3> QED
      BY <2>1, <3>12
  <2>2. CASE p # q
    <3>1. slot'[p] = slot[p] /\ runner'[p] = runner[p]
      BY <1>7, <2>2 DEF try_receive, TypeOK
    <3> QED
      BY <1>7, <3>1, <1>0, HandleFrame, Zenon DEF try_receive
  <2> QED
    BY <2>1, <2>2, Zenon
<1>8. ASSUME NEW q \in Queues, transmit(q) PROVE HandleAt(p)'
  <2>1. CASE p = q
    BY <1>8, <2>1, <1>0, HandleTransmit, Zenon
  <2>2. CASE p # q
    <3>1. /\ slot'[p] = slot[p] /\ runner'[p] = runner[p]
          /\ capacity'[p] = capacity[p] /\ handle'[p] = handle[p]
      BY <1>8, <2>2 DEF transmit, TypeOK
    <3> QED
      BY <1>8, <3>1, <1>0, HandleFrame, Zenon DEF transmit
  <2> QED
    BY <2>1, <2>2, Zenon
<1>9. ASSUME drop_runner PROVE HandleAt(p)'
  BY <1>9, <1>0, HandleAbort, Zenon
<1>10. ASSUME run PROVE HandleAt(p)'
  <2>1. runner'[p].at # "Parked"
    BY <1>10, ZenonT(60) DEF run, RunnableRunner
  <2> QED
    BY <1>10, <2>1, <1>0, HandleFrame, Zenon DEF run
<1> QED
  BY <1>1, <1>2, <1>3, <1>4, <1>5, <1>6, <1>7, <1>8, <1>9, <1>10 DEF Next

(* Initially there are no handles.                                         *)
LEMMA HandleInit ==
  ASSUME Init
  PROVE  HandleInv
<1>1. \A q \in Queues :
        /\ counter[q] = 0 /\ runner[q].at = "Runnable"
        /\ \A g \in Generations : handle[q][g] = "None" /\ g >= 0
        /\ \A i \in Slots : slot[q][i].state = "Empty"
  BY TxQueueAssumption DEF Init, RunnableRunner, EmptySlot, Generations
<1> QED
  <2> SUFFICES ASSUME NEW q \in Queues PROVE HandleAt(q)
    BY Zenon DEF HandleInv
  <2>1. \A g \in Generations : handle[q][g] = "None" /\ g >= counter[q]
    BY <1>1
  <2>2. \A g \in Generations : ~Claims(q, g)
    BY <2>1 DEF Claims, Unresolved, Waiting
  <2>3. \A i \in Slots : slot[q][i].state \notin Occupied \cup {"ReturnDataAvailable"}
    BY <1>1 DEF Occupied
  <2>4. runner[q].at # "Parked"
    BY <1>1
  <2>5. \A g \in Generations : handle[q][g] \notin {"Parked", "GotNone"}
    BY <2>1
  <2> QED
    BY <2>1, <2>2, <2>3, <2>4, <2>5, Zenon DEF HandleAt

(* The handle layer of the invariant in every reachable state.             *)
THEOREM HandleCorrect == Spec => [](TypeOK /\ RingInv /\ HandleInv)
<1>1. Init => TypeOK /\ RingInv /\ HandleInv
  BY TypeRingInit, HandleInit
<1>2. TypeOK /\ RingInv /\ HandleInv /\ [Next]_vars
        => (TypeOK /\ RingInv /\ HandleInv)'
  <2>1. ASSUME HandleInv, UNCHANGED vars PROVE HandleInv'
    BY <2>1, HandleFrame DEF vars, HandleInv
  <2> QED
    BY <2>1, TypeNext, RingNext, HandleNext, TypeRingStutter, ZenonT(30)
<1> QED
  BY <1>1, <1>2, PTL DEF Spec

(* Cancelled and delayed handles never touch a later occupant: return data *)
(* is expected for a frame exactly while its own handle waits for it, and  *)
(* completed return data is never left without a claimant.                 *)
THEOREM CurrentInterest == Spec => []InterestIsCurrent
<1>1. HandleInv => InterestIsCurrent
  BY DEF HandleInv, HandleAt, Claims, InterestIsCurrent
<1> QED
  BY <1>1, HandleCorrect, PTL

(* A sleeping runner has nothing to send and a sleeping waiter has a frame *)
(* in the queue whose completion will wake it.                             *)
THEOREM WakeupsKept == Spec => []NoLostWakeup
<1>1. TypeOK /\ HandleInv => NoLostWakeup
  <2> SUFFICES ASSUME TypeOK, HandleInv, NEW q \in Queues
               PROVE  /\ runner[q].at = "Parked" => is_empty(q)
                      /\ \A g \in Generations :
                           handle[q][g] = "Parked" =>
                             /\ ~is_counter_out_of_bounds(q, g)
                             /\ slot[q][slot_index(g)].state \in Occupied
                             /\ waker[q][slot_index(g)] = g
    BY DEF NoLostWakeup
  <2>1. /\ TX_BUFFER_COUNT \in Nat /\ counter[q] \in Nat
        /\ Generations \subseteq Nat
    BY QueueTypes DEF Generations
  <2> QED
    BY <2>1 DEF HandleInv, HandleAt, is_empty, is_counter_out_of_bounds
<1> QED
  BY <1>1, HandleCorrect, PTL

(* A waiter is answered None only for an overwritten slot or an aborted    *)
(* transmission.                                                           *)
THEOREM NoneExplained == Spec => []NoneOnlyIfOverwrittenOrAborted
<1>1. HandleInv => NoneOnlyIfOverwrittenOrAborted
  BY DEF HandleInv, HandleAt, NoneOnlyIfOverwrittenOrAborted, is_counter_out_of_bounds
<1> QED
  BY <1>1, HandleCorrect, PTL
-----------------------------------------------------------------------------
(* No panic.                                                               *)

(* A full queue occupies all slots, each with its own buffer, so by the    *)
(* pigeonhole principle no caller owns another one: a caller that has a    *)
(* buffer to enqueue finds capacity.                                       *)
LEMMA CapacityLeft ==
  ASSUME TypeOK, RingInv, OwnerInv, NEW q \in Queues, callers # {}
  PROVE  capacity[q] > 0
<1> SUFFICES ASSUME capacity[q] = 0 PROVE FALSE
  BY QueueTypes
<1> DEFINE N == TX_BUFFER_COUNT
           c == counter[q]
<1>1. N \in Nat \ {0} /\ c \in Nat /\ len(q) = N /\ N <= c /\ c <= MaxCounter
      /\ MaxCounter \in Nat
  BY QueueTypes, RingLen DEF len
<1>2. ASSUME NEW i \in Slots PROVE slot[q][i].state \in Occupied
  <2> DEFINE m == c % N
             k == IF m > i THEN m - i ELSE (m + N) - i
             g == c - k
  <2>1. m \in 0 .. N - 1 /\ i \in 0 .. N - 1
    BY <1>1, <1>2, ModRange, ZenonT(30) DEF Slots
  <2> HIDE DEF m, N, c
  <2>2. k \in 1 .. N /\ i = IF m >= k THEN m - k ELSE N - (k - m)
    BY <1>1, <2>1
  <2> HIDE DEF k
  <2>3. g \in Generations /\ g < c /\ c - g <= N /\ g >= c - len(q)
    BY <1>1, <2>2 DEF Generations
  <2>4. k \in 0 .. N /\ k <= c
    BY <1>1, <2>2
  <2>5. (c - k) % N = IF c % N >= k THEN (c % N) - k ELSE N - (k - (c % N))
    BY <1>1, <2>4, BackIndex, ZenonT(30)
  <2>6. slot_index(g) = i
    BY <2>2, <2>5 DEF slot_index, m, N
  <2> HIDE DEF g
  <2> USE DEF N, c
  <2>7. written[q][i] = g /\ g # None
    <3>1. written[q][slot_index(g)] = g
      BY <2>3, RingWritten, Zenon
    <3> QED
      BY <2>3, <2>6, <3>1 DEF Generations, None
  <2> QED
    BY <2>3, <2>7, RingSlot
<1>3. PICK b \in callers : TRUE
  OBVIOUS
<1> DEFINE f == [i \in Slots |->
                   IF slot[q][i].state = "InProgress" THEN runner[q].frame
                                                      ELSE slot[q][i].frame]
<1>4. ASSUME NEW i \in Slots
      PROVE  f[i] \in Buffers \ {b}
  <2>1. slot[q][i] \in SlotValues /\ runner[q] \in RunnerStates
    BY DEF TypeOK
  <2>2. CASE slot[q][i].state = "InProgress"
    <3>1. runner[q].at = "Transmitting"
      BY <2>2, RingSlot
    <3> QED
      BY <2>1, <2>2, <3>1, <1>3 DEF RunnerStates, OwnerInv, FreeApart
  <2>3. CASE slot[q][i].state = "Pending"
    BY <2>1, <2>3, <1>3 DEF SlotValues, OwnerInv, FreeApart
  <2> QED
    BY <2>2, <2>3, <1>2 DEF Occupied
<1>5. f \in [Slots -> Buffers \ {b}]
  BY <1>4
<1>6. ASSUME NEW i \in Slots, NEW j \in Slots, i # j
      PROVE  f[i] # f[j]
  <2>1. f[i] \in Buffers /\ f[j] \in Buffers /\ NoBuffer \notin Buffers
    BY <1>4, TxQueueAssumption
  <2>2. ~(slot[q][i].state = "InProgress" /\ slot[q][j].state = "InProgress")
    BY <1>6, RingSlot
  <2>3. CASE slot[q][i].state # "InProgress" /\ slot[q][j].state # "InProgress"
    BY <1>6, <2>1, <2>3 DEF OwnerInv, SlotsApart
  <2>4. CASE slot[q][i].state = "InProgress" /\ slot[q][j].state # "InProgress"
    BY <2>1, <2>4 DEF OwnerInv, RadioApart
  <2>5. CASE slot[q][i].state # "InProgress" /\ slot[q][j].state = "InProgress"
    BY <2>1, <2>5 DEF OwnerInv, RadioApart
  <2> QED
    BY <2>2, <2>3, <2>4, <2>5, Zenon
<1> HIDE DEF f
<1>7. IsFiniteSet(Slots) /\ Cardinality(Slots) = N
  <2>1. 0 \in Int /\ N - 1 \in Int /\ ~(0 > N - 1) /\ (N - 1) - 0 + 1 = N
    BY <1>1
  <2>2. /\ IsFiniteSet(0 .. N - 1)
        /\ Cardinality(0 .. N - 1) = IF 0 > N - 1 THEN 0 ELSE (N - 1) - 0 + 1
    BY <2>1, FS_Interval, Zenon
  <2> QED
    BY <2>1, <2>2, Zenon DEF Slots
<1>8. IsFiniteSet(Buffers \ {b}) /\ Cardinality(Buffers \ {b}) = N - 1
  BY <1>3, FS_RemoveElement, TxQueueAssumption, ZenonT(30) DEF TypeOK
<1>9. Cardinality(Buffers \ {b}) < Cardinality(Slots)
  BY <1>1, <1>7, <1>8
<1>10. \E i, j \in Slots : i # j /\ f[i] = f[j]
  BY <1>5, <1>7, <1>8, <1>9, FS_PigeonHole
<1> QED
  BY <1>6, <1>10

(* The front slot of a queue that is not empty holds a pending frame when  *)
(* the runner is not transmitting.                                         *)
LEMMA FrontPending ==
  ASSUME TypeOK, RingInv, NEW q \in Queues,
         runner[q].at = "Runnable", ~is_empty(q)
  PROVE  slot[q][front_index(q)].state = "Pending"
<1> DEFINE f == counter[q] - len(q)
<1>1. f \in Generations /\ f < counter[q] /\ counter[q] - f <= TX_BUFFER_COUNT
      /\ f # None
  <2>1. capacity[q] # TX_BUFFER_COUNT /\ len(q) <= counter[q]
    BY RingLen DEF is_empty
  <2>2. len(q) \in 1 .. TX_BUFFER_COUNT
    BY <2>1, QueueTypes DEF len
  <2> QED
    BY <2>1, <2>2, QueueTypes DEF Generations, None
<1>2. front_index(q) = slot_index(f) /\ slot_index(f) \in Slots
  BY <1>1, FrontIndex, QueueTypes
<1>3. f >= counter[q] - len(q)
  BY <1>1, QueueTypes
<1> HIDE DEF f
<1>4. written[q][slot_index(f)] = f
  BY <1>1, RingWritten
<1>5. slot[q][slot_index(f)].state \in Occupied
  BY <1>1, <1>2, <1>4, <1>3, RingSlot
<1>6. slot[q][slot_index(f)].state # "InProgress"
  BY <1>2, RingSlot
<1> QED
  BY <1>2, <1>5, <1>6 DEF Occupied

(* The queue never panics: enqueue_frame always finds capacity, and        *)
(* try_receive never reaches one of its unreachable!s.                     *)
THEOREM PanicFree == Spec => []NoPanic
<1>1. TypeOK /\ RingInv /\ OwnerInv => NoPanic
  BY CapacityLeft, FrontPending DEF NoPanic
<1> QED
  BY <1>1, OwnerCorrect, PTL

=============================================================================

--------------------------- MODULE TxQueueProofs ---------------------------
(***************************************************************************)
(* The TX queues, proved for every pool size, every set of queues and      *)
(* every counter bound: type correctness and where each generation lies    *)
(* in the ring (RingInv), from which it follows that comparing two         *)
(* counters decides whether a slot was overwritten.  The buffers: every    *)
(* buffer has exactly one owner, so no buffer is lost or handed out twice. *)
(* The order of the frames: the ring implements the bounded FIFO of        *)
(* TxFifo.                                                                 *)
(***************************************************************************)
EXTENDS TxQueue, TLAPS

(* The provers of a leaf that names none, with time for a slow machine.    *)
USE SMTT(30), SMTT(40), ZenonT(30), SMTT(50), SMTT(60)

-----------------------------------------------------------------------------
(* The inductive invariant.                                                *)

(* The ring: slot i holds the latest generation congruent to i; the slots  *)
(* of the last len(q) generations, and no others, are occupied; at most    *)
(* the oldest of them is in progress, and exactly while the runner works   *)
(* on it.                                                                  *)
RingAt(q) ==
  /\ len(q) <= counter[q]
  /\ \A g \in Generations :
       g < counter[q] /\ counter[q] - g <= TX_BUFFER_COUNT
         => written[q][slot_index(g)] = g
  /\ \A i \in Slots :
       /\ written[q][i] # None =>
            /\ written[q][i] < counter[q]
            /\ counter[q] - written[q][i] <= TX_BUFFER_COUNT
            /\ slot_index(written[q][i]) = i
       /\ slot[q][i].state # "Empty" => written[q][i] # None
       /\ slot[q][i].state \in Occupied <=>
            written[q][i] # None /\ written[q][i] >= counter[q] - len(q)
       /\ slot[q][i].state = "InProgress" =>
            runner[q].at = "Transmitting" /\ runner[q].index = i
  /\ runner[q].at = "Transmitting" =>
       /\ slot[q][runner[q].index].state = "InProgress"
       /\ written[q][runner[q].index] = counter[q] - len(q)
       /\ len(q) > 0

RingInv == \A q \in Queues : RingAt(q)

-----------------------------------------------------------------------------
(* Arithmetic of the ring indices.                                         *)

(* A slot index lies in the ring.                                          *)
LEMMA ModRange ==
  ASSUME NEW n \in Nat \ {0}, NEW a \in Nat
  PROVE  a % n \in 0 .. n - 1
  OBVIOUS

(* A number is given back by its quotient and its remainder.               *)
LEMMA DivMod ==
  ASSUME NEW n \in Nat \ {0}, NEW a \in Nat
  PROVE  a = n * (a \div n) + (a % n) /\ a \div n \in Nat
  OBVIOUS

(* A positive multiple of n is at least n.                                 *)
LEMMA MultipleBound ==
  ASSUME NEW n \in Nat \ {0}, NEW k \in Int, k >= 1
  PROVE  n * k >= n
  OBVIOUS

(* The remainder is the only number below n that completes a multiple.     *)
LEMMA ModUnique ==
  ASSUME NEW n \in Nat \ {0}, NEW a \in Nat, NEW k \in Int, NEW r \in 0 .. n - 1,
         a = n * k + r
  PROVE  a % n = r
<1> DEFINE d == a \div n
           m == a % n
<1>1. d \in Int /\ m \in 0 .. n - 1 /\ a = n * d + m
  BY DivMod, ModRange
<1> HIDE DEF d, m
<1>2. n * (d - k) = r - m
  BY <1>1
<1>3. r - m < n /\ r - m > -n
  BY <1>1
<1>4. CASE d - k >= 1
  <2>1. n * (d - k) >= n
    BY <1>4, <1>1, MultipleBound
  <2> QED
    BY <2>1, <1>2, <1>3
<1>5. CASE k - d >= 1
  <2>1. n * (k - d) >= n
    BY <1>5, <1>1, MultipleBound
  <2>2. n * (k - d) = m - r
    BY <1>1
  <2> QED
    BY <2>1, <2>2, <1>3, <1>1
<1>6. CASE d = k
  <2>1. n * d = n * k
    BY <1>6
  <2>2. m = r
    BY <2>1, <1>1
  <2> QED
    BY <2>2 DEF m
<1> QED
  BY <1>1, <1>4, <1>5, <1>6

(* Stepping back k places from c in a ring of n slots.                     *)
LEMMA BackIndex ==
  ASSUME NEW n \in Nat \ {0}, NEW c \in Nat, NEW k \in 0 .. n, k <= c
  PROVE  (c - k) % n = IF c % n >= k THEN (c % n) - k ELSE n - (k - (c % n))
<1> DEFINE d == c \div n
           m == c % n
<1>1. d \in Int /\ m \in 0 .. n - 1 /\ c = n * d + m
  BY DivMod, ModRange
<1> HIDE DEF d, m
<1>2. CASE m >= k
  <2>1. c - k = n * d + (m - k) /\ m - k \in 0 .. n - 1
    BY <1>1, <1>2
  <2>2. c - k \in Nat
    OBVIOUS
  <2>3. (c - k) % n = m - k
    BY <2>1, <2>2, <1>1, ModUnique
  <2> QED
    BY <2>3, <1>2 DEF m
<1>3. CASE m < k
  <2>1. n * (d - 1) = n * d - n
    BY <1>1
  <2>2. c - k = n * (d - 1) + (n - (k - m)) /\ n - (k - m) \in 0 .. n - 1
    BY <1>1, <1>3, <2>1
  <2>3. c - k \in Nat /\ d - 1 \in Int
    BY <1>1
  <2>4. (c - k) % n = n - (k - m)
    BY <2>2, <2>3, <1>1, ModUnique, ZenonT(30)
  <2> QED
    BY <2>4, <1>3, <1>1 DEF m
<1> QED
  BY <1>1, <1>2, <1>3

(* Two different generations less than n apart lie in different slots, and *)
(* generations n apart in the same one.                                    *)
LEMMA RingDistance ==
  ASSUME NEW n \in Nat \ {0}, NEW a \in Nat, NEW k \in 0 .. n
  PROVE  (a + k) % n = a % n <=> k = 0 \/ k = n
<1>1. a + k \in Nat /\ k <= a + k /\ (a + k) - k = a
  OBVIOUS
<1>2. a % n = IF (a + k) % n >= k THEN ((a + k) % n) - k
                                  ELSE n - (k - ((a + k) % n))
  BY <1>1, BackIndex, ZenonT(30)
<1>3. (a + k) % n \in 0 .. n - 1
  BY <1>1, ModRange
<1> DEFINE u == (a + k) % n
           v == a % n
<1>4. v = (IF u >= k THEN u - k ELSE n - (k - u)) /\ u \in 0 .. n - 1
  BY <1>2, <1>3
<1> HIDE DEF u, v
<1>5. u = v <=> k = 0 \/ k = n
  BY <1>4
<1> QED
  BY <1>5 DEF u, v

(* front_index is the slot of generation counter - len.                    *)
LEMMA FrontIndex ==
  ASSUME TypeOK, RingInv, NEW q \in Queues
  PROVE  front_index(q) = slot_index(counter[q] - len(q))
<1>1. /\ TX_BUFFER_COUNT \in Nat \ {0}
      /\ counter[q] \in Nat
      /\ len(q) \in 0 .. TX_BUFFER_COUNT
      /\ len(q) <= counter[q]
  BY TxQueueAssumption DEF TypeOK, RingInv, RingAt, len
<1> QED
  BY <1>1, BackIndex, ZenonT(30) DEF front_index, next_slot_index, slot_index

-----------------------------------------------------------------------------
(* The ring layer.                                                         *)

(* The facts about one queue that its type gives.                          *)
LEMMA QueueTypes ==
  ASSUME TypeOK, NEW q \in Queues
  PROVE  /\ TX_BUFFER_COUNT \in Nat \ {0}
         /\ MaxCounter \in Nat
         /\ counter[q] \in 0 .. MaxCounter
         /\ capacity[q] \in 0 .. TX_BUFFER_COUNT
         /\ len(q) \in 0 .. TX_BUFFER_COUNT
         /\ written[q] \in [Slots -> Generations \cup {None}]
         /\ runner[q] \in RunnerStates
         /\ next_slot_index(q) \in Slots
         /\ \A g \in Generations : slot_index(g) \in Slots
<1>1. /\ TX_BUFFER_COUNT \in Nat \ {0}
      /\ MaxCounter \in Nat
      /\ counter[q] \in 0 .. MaxCounter
      /\ capacity[q] \in 0 .. TX_BUFFER_COUNT
      /\ len(q) \in 0 .. TX_BUFFER_COUNT
      /\ written[q] \in [Slots -> Generations \cup {None}]
      /\ runner[q] \in RunnerStates
  BY TxQueueAssumption DEF TypeOK, len
<1>2. \A n \in Nat : n % TX_BUFFER_COUNT \in Slots
  BY <1>1, ModRange, Zenon DEF Slots
<1>3. counter[q] \in Nat /\ Generations \subseteq Nat
  BY <1>1 DEF Generations
<1> QED
  BY <1>1, <1>2, <1>3, Zenon DEF next_slot_index, slot_index

(* A step that empties at most slots with return data, and moves the       *)
(* runner between points where it transmits nothing, keeps the ring.       *)
LEMMA RingFrame ==
  ASSUME TypeOK, NEW q \in Queues, RingAt(q),
         counter'[q] = counter[q], capacity'[q] = capacity[q],
         written'[q] = written[q],
         \A i \in Slots :
           \/ slot'[q][i] = slot[q][i]
           \/ slot[q][i].state = "ReturnDataAvailable" /\ slot'[q][i] = EmptySlot,
         \/ runner'[q] = runner[q]
         \/ runner[q].at # "Transmitting" /\ runner'[q].at # "Transmitting"
  PROVE  RingAt(q)'
<1>1. len(q)' = len(q)
  BY DEF len
<1>2. \A i \in Slots :
        /\ slot[q][i].state \in Occupied <=> slot'[q][i].state \in Occupied
        /\ slot'[q][i].state # "Empty" => slot[q][i].state # "Empty"
        /\ slot[q][i].state = "InProgress" <=> slot'[q][i].state = "InProgress"
  BY DEF Occupied, EmptySlot
<1>3. runner[q].at = "Transmitting" => runner[q].index \in Slots
  BY ZenonT(30) DEF TypeOK, RunnerStates
<1>4. \A i \in Slots : slot[q][i].state = "InProgress"
        => runner'[q].at = "Transmitting" /\ runner'[q].index = i
  BY DEF RingAt
<1>5. \A i \in Slots : slot'[q][i].state = "InProgress"
        => runner'[q].at = "Transmitting" /\ runner'[q].index = i
  BY <1>2, <1>4
<1>6. runner'[q].at = "Transmitting" =>
         /\ slot'[q][runner'[q].index].state = "InProgress"
         /\ written'[q][runner'[q].index] = counter'[q] - len(q)'
         /\ len(q)' > 0
  BY <1>1, <1>2, <1>3 DEF RingAt
<1> QED
  BY <1>1, <1>2, <1>5, <1>6 DEF RingAt, slot_index

(* finish: the oldest slot leaves the queue.                               *)
LEMMA RingFinish ==
  ASSUME TypeOK, NEW q \in Queues, RingAt(q),
         runner[q].at = "Transmitting", runner'[q].at # "Transmitting",
         counter'[q] = counter[q], capacity'[q] = capacity[q] + 1,
         written'[q] = written[q],
         NEW x, x.state \in {"Empty", "ReturnDataAvailable"},
         slot'[q] = [slot[q] EXCEPT ![runner[q].index] = x]
  PROVE  RingAt(q)' /\ capacity[q] + 1 \in 0 .. TX_BUFFER_COUNT
<1> DEFINE i0 == runner[q].index
<1>1. /\ len(q)' = len(q) - 1
      /\ len(q) \in 1 .. TX_BUFFER_COUNT
      /\ capacity[q] + 1 \in 0 .. TX_BUFFER_COUNT
      /\ counter[q] \in Nat
  BY QueueTypes DEF len, RingAt
<1>2. i0 \in Slots /\ written[q][i0] = counter[q] - len(q)
  BY ZenonT(30) DEF TypeOK, RunnerStates, RingAt
<1>3. \A i \in Slots : slot'[q][i] = IF i = i0 THEN x ELSE slot[q][i]
  BY <1>2 DEF TypeOK
<1>4. \A i \in Slots : i # i0 /\ written[q][i] # None
        => written[q][i] # counter[q] - len(q)
  BY <1>2 DEF RingAt, slot_index
<1>5. \A i \in Slots : written[q][i] \in Int
  BY QueueTypes DEF Generations, None
<1> HIDE DEF i0
<1>6. \A i \in Slots : slot'[q][i].state \in Occupied <=>
            written[q][i] # None /\ written[q][i] >= counter[q] - (len(q) - 1)
  <2> TAKE i \in Slots
  <2>1. slot[q][i].state \in Occupied <=>
            written[q][i] # None /\ written[q][i] >= counter[q] - len(q)
    BY DEF RingAt
  <2>2. CASE i = i0
    <3>1. slot'[q][i].state \notin Occupied
      BY <1>3, <2>2 DEF Occupied
    <3> QED
      BY <3>1, <1>1, <1>2, <2>2
  <2>3. CASE i # i0
    <3>1. written[q][i] # None => written[q][i] # counter[q] - len(q)
      BY <1>4, <2>3
    <3>2. written[q][i] >= counter[q] - len(q) /\ written[q][i] # counter[q] - len(q)
            <=> written[q][i] >= counter[q] - (len(q) - 1)
      BY <1>1, <1>5
    <3> QED
      BY <3>1, <3>2, <2>1, <2>3, <1>3
  <2> QED
    BY <2>2, <2>3
<1>7. \A i \in Slots : slot'[q][i].state # "InProgress"
  BY <1>3 DEF RingAt, i0
<1>8. \A i \in Slots : slot'[q][i].state # "Empty" => written[q][i] # None
  BY <1>1, <1>2, <1>3 DEF RingAt, None
<1> QED
  BY <1>1, <1>6, <1>7, <1>8 DEF RingAt, slot_index

(* enqueue_frame: the slot after the newest generation is not occupied,    *)
(* and becomes the newest.                                                 *)
LEMMA RingEnqueue ==
  ASSUME TypeOK, NEW q \in Queues, RingAt(q), NEW b \in Buffers,
         enqueue_frame(q, b)
  PROVE  RingAt(q)'
<1> DEFINE c == counter[q]
           i0 == next_slot_index(q)
           N == TX_BUFFER_COUNT
<1>1. /\ N \in Nat \ {0} /\ c \in Generations /\ c \in Nat
      /\ counter'[q] = c + 1
      /\ len(q) \in 0 .. N - 1 /\ len(q)' = len(q) + 1 /\ len(q) <= c
      /\ i0 \in Slots /\ i0 = slot_index(c)
  <2>1. /\ N \in Nat \ {0} /\ c \in Nat /\ len(q) \in 0 .. N /\ i0 \in Slots
        /\ MaxCounter \in Nat /\ len(q) = N - capacity[q] /\ capacity[q] \in 0 .. N
    BY QueueTypes DEF len
  <2>2. /\ capacity[q] > 0 /\ c < MaxCounter
        /\ counter'[q] = c + 1 /\ capacity'[q] = capacity[q] - 1
    BY DEF enqueue_frame, TypeOK
  <2>3. len(q)' = N - capacity'[q]
    BY Zenon DEF len
  <2>4. len(q) <= c /\ i0 = slot_index(c)
    BY Zenon DEF RingAt, slot_index, next_slot_index
  <2> QED
    BY <2>1, <2>2, <2>3, <2>4 DEF Generations
<1>2. \A i \in Slots :
        /\ slot'[q][i] = IF i = i0 THEN [state |-> "Pending", frame |-> b]
                                   ELSE slot[q][i]
        /\ written'[q][i] = IF i = i0 THEN c ELSE written[q][i]
  BY <1>1 DEF enqueue_frame, TypeOK
<1>3. \A i \in Slots : written[q][i] \in Int
  BY QueueTypes DEF Generations, None
<1>4. \/ runner'[q] = runner[q]
      \/ runner[q].at # "Transmitting" /\ runner'[q].at # "Transmitting"
  <2>1. runner'[q] = IF is_empty(q) THEN WakeRunner(runner[q]) ELSE runner[q]
    BY DEF enqueue_frame, TypeOK
  <2>2. RunnableRunner.at = "Runnable"
    BY DEF RunnableRunner
  <2>3. runner'[q] = runner[q] \/ (runner[q].at = "Parked" /\ runner'[q].at = "Runnable")
    BY <2>1, <2>2 DEF WakeRunner
  <2> QED
    BY <2>3
<1>5. \A g \in Generations : g < c /\ c - g <= N =>
        (slot_index(g) = i0 <=> c - g = N)
  <2> TAKE g \in Generations
  <2> HAVE g < c /\ c - g <= N
  <2>1. g \in Nat /\ c - g \in 0 .. N /\ g + (c - g) = c
    BY <1>1 DEF Generations
  <2>2. (g + (c - g)) % N = g % N <=> c - g = 0 \/ c - g = N
    BY <2>1, <1>1, RingDistance, ZenonT(30)
  <2>3. c % N = g % N <=> c - g = N
    BY <2>1, <2>2
  <2> QED
    BY <2>3, <1>1 DEF slot_index
<1> HIDE DEF c, i0, N
<1>6. \A g \in Generations : slot_index(g) \in Slots
  BY QueueTypes
<1>7. \A g \in Generations : g < c /\ c - g <= N => written[q][slot_index(g)] = g
  BY DEF RingAt, c, N
<1>8. \A i \in Slots : written[q][i] # None =>
            /\ written[q][i] \in Generations
            /\ written[q][i] < c
            /\ c - written[q][i] <= N
            /\ slot_index(written[q][i]) = i
  BY QueueTypes DEF RingAt, c, N
<1>9. \A i \in Slots : slot[q][i].state \in Occupied <=>
            written[q][i] # None /\ written[q][i] >= c - len(q)
  BY DEF RingAt, c
<1>10. slot[q][i0].state \notin Occupied
  <2>1. CASE written[q][i0] = None
    BY <2>1, <1>1, <1>9
  <2>2. CASE written[q][i0] # None
    <3>1. c - written[q][i0] = N
      BY <2>2, <1>1, <1>5, <1>8, ZenonT(30)
    <3> QED
      BY <3>1, <1>1, <1>3, <1>9
  <2> QED
    BY <2>1, <2>2
<1>11. \A g \in Generations : g < c + 1 /\ (c + 1) - g <= N
         => written'[q][slot_index(g)] = g
  <2> TAKE g \in Generations
  <2> HAVE g < c + 1 /\ (c + 1) - g <= N
  <2>1. CASE g = c
    BY <2>1, <1>1, <1>2
  <2>2. CASE g # c
    <3>1. g < c /\ c - g <= N /\ c - g # N
      BY <2>2, <1>1 DEF Generations
    <3>2. slot_index(g) # i0 /\ written[q][slot_index(g)] = g
      BY <3>1, <1>5, <1>7
    <3> QED
      BY <3>2, <1>2, <1>6
  <2> QED
    BY <2>1, <2>2
<1>12. \A i \in Slots :
         /\ written'[q][i] # None =>
              /\ written'[q][i] < c + 1
              /\ (c + 1) - written'[q][i] <= N
              /\ slot_index(written'[q][i]) = i
         /\ slot'[q][i].state \in Occupied <=>
              written'[q][i] # None /\ written'[q][i] >= (c + 1) - (len(q) + 1)
         /\ slot'[q][i].state # "Empty" => written'[q][i] # None
  <2> TAKE i \in Slots
  <2>1. CASE i = i0
    <3>1. written'[q][i] = c /\ slot'[q][i].state = "Pending" /\ c # None
      BY <2>1, <1>1, <1>2 DEF None
    <3> QED
      BY <2>1, <3>1, <1>1 DEF Occupied
  <2>2. CASE i # i0
    <3>1. written'[q][i] = written[q][i] /\ slot'[q][i] = slot[q][i]
      BY <2>2, <1>2
    <3>2. written[q][i] # None => c - written[q][i] # N
      BY <2>2, <1>5, <1>8
    <3>3. slot[q][i].state # "Empty" => written[q][i] # None
      BY Zenon DEF RingAt
    <3> QED
      BY <3>1, <3>2, <3>3, <1>1, <1>3, <1>8, <1>9
  <2> QED
    BY <2>1, <2>2
<1>13. \A i \in Slots : slot'[q][i].state = "InProgress" =>
              runner'[q].at = "Transmitting" /\ runner'[q].index = i
  BY <1>2, <1>4 DEF RingAt
<1>14. runner'[q].at = "Transmitting" =>
         /\ slot'[q][runner'[q].index].state = "InProgress"
         /\ written'[q][runner'[q].index] = (c + 1) - (len(q) + 1)
         /\ len(q)' > 0
  <2> HAVE runner'[q].at = "Transmitting"
  <2>1. runner'[q] = runner[q] /\ runner[q].index \in Slots
    BY <1>4, QueueTypes, Zenon DEF RunnerStates
  <2>2. /\ slot[q][runner[q].index].state = "InProgress"
        /\ written[q][runner[q].index] = c - len(q)
    BY <2>1 DEF RingAt, c
  <2>3. runner[q].index # i0
    BY <2>2, <1>10 DEF Occupied
  <2> QED
    BY <2>1, <2>2, <2>3, <1>1, <1>2
<1>15. /\ counter'[q] = c + 1
       /\ len(q)' = len(q) + 1
       /\ len(q) + 1 <= c + 1
  BY <1>1
<1> QED
  BY <1>11, <1>12, <1>13, <1>14, <1>15 DEF RingAt, slot_index, N

(* try_receive: the frame taken is the one of generation counter - len.    *)
LEMMA RingReceive ==
  ASSUME TypeOK, RingInv, NEW q \in Queues, try_receive(q)
  PROVE  RingAt(q)' /\ front_index(q) \in Slots
<1> DEFINE f == counter[q] - len(q)
           i0 == front_index(q)
<1>1. /\ len(q) \in 1 .. TX_BUFFER_COUNT
      /\ len(q)' = len(q)
      /\ f \in Generations /\ f < counter[q]
      /\ counter[q] - f <= TX_BUFFER_COUNT
  <2>1. capacity[q] # TX_BUFFER_COUNT /\ capacity' = capacity
    BY DEF try_receive, is_empty
  <2>2. len(q) <= counter[q]
    BY Zenon DEF RingInv, RingAt
  <2>3. /\ capacity[q] \in 0 .. TX_BUFFER_COUNT /\ TX_BUFFER_COUNT \in Nat
        /\ counter[q] \in 0 .. MaxCounter /\ MaxCounter \in Nat
    BY QueueTypes, TxQueueAssumption, Zenon
  <2> QED
    BY <2>1, <2>2, <2>3 DEF len, Generations
<1>2. i0 = slot_index(f) /\ i0 \in Slots /\ written[q][i0] = f
  BY <1>1, FrontIndex, QueueTypes DEF RingInv, RingAt
<1>3. /\ \A i \in Slots :
           slot'[q][i] = IF i = i0 THEN [state |-> "InProgress", frame |-> NoBuffer]
                                   ELSE slot[q][i]
      /\ runner'[q].at = "Transmitting" /\ runner'[q].index = i0
  BY <1>2 DEF try_receive, TypeOK
<1>4. slot[q][i0].state = "Pending" /\ runner[q].at = "Runnable"
  BY DEF try_receive
<1>5. counter' = counter /\ written' = written
  BY DEF try_receive
<1>6. RingAt(q)
  BY Zenon DEF RingInv
<1> HIDE DEF i0
<1>7. \A i \in Slots :
        /\ slot[q][i].state \in Occupied <=> slot'[q][i].state \in Occupied
        /\ slot'[q][i].state # "Empty" => slot[q][i].state # "Empty"
        /\ slot'[q][i].state = "InProgress" => i = i0
  BY <1>3, <1>4, <1>6 DEF Occupied, RingAt
<1>8. /\ slot'[q][i0].state = "InProgress"
      /\ written[q][i0] = counter[q] - len(q)
      /\ len(q) > 0
  BY <1>1, <1>2, <1>3
<1> QED
  BY <1>1, <1>2, <1>3, <1>5, <1>6, <1>7, <1>8, Zenon DEF RingAt, slot_index, i0

(* Updating one entry of a table keeps its type.                           *)
LEMMA ExceptType ==
  ASSUME NEW S, NEW T, NEW V, NEW f \in [S -> [T -> V]],
         NEW s \in S, NEW t \in T, NEW v \in V
  PROVE  [f EXCEPT ![s][t] = v] \in [S -> [T -> V]]
  OBVIOUS

(* Waking a waiter keeps the handles of a queue well typed.                *)
LEMMA WakeWaiterType ==
  ASSUME TypeOK, NEW q \in Queues, NEW i \in Slots
  PROVE  WakeWaiter(q, i) \in [Generations -> HandleStates]
<1>1. \A g \in Generations : handle[q][g] \in HandleStates
  BY DEF TypeOK
<1>2. "Woken" \in HandleStates
  BY DEF Live, Unresolved, Waiting, HandleStates
<1> QED
  BY <1>1, <1>2 DEF WakeWaiter

(* Every action keeps the types; finishing a slot needs the ring invariant *)
(* to stay within the capacity.                                            *)
LEMMA TypeNext ==
  ASSUME TypeOK, RingInv, Next
  PROVE  TypeOK'
<1> USE TxQueueAssumption
<1>1. ASSUME NEW b \in Buffers, alloc(b) PROVE TypeOK'
  BY <1>1 DEF alloc, TypeOK
<1>2. ASSUME NEW b \in Buffers, drop_buffer(b) PROVE TypeOK'
  BY <1>2, Zenon DEF drop_buffer, TypeOK
<1>3. ASSUME NEW q \in Queues, NEW b \in Buffers, enqueue_frame(q, b) PROVE TypeOK'
  <2> DEFINE i == next_slot_index(q)
             g == counter[q]
  <2>1. /\ i \in Slots /\ g \in Generations
        /\ g + 1 \in 0 .. MaxCounter /\ capacity[q] - 1 \in 0 .. TX_BUFFER_COUNT
    BY <1>3, QueueTypes DEF enqueue_frame, Generations
  <2>2. slot[q][i] \in SlotValues /\ RunnableRunner \in RunnerStates
    BY <2>1 DEF TypeOK, RunnerStates, RunnableRunner
  <2> HIDE DEF i, g
  <2>3. Freed(slot[q][i]) \subseteq Buffers
    BY <2>2 DEF Freed, SlotValues
  <2>4. [state |-> "Pending", frame |-> b] \in SlotValues
    BY Zenon DEF SlotValues
  <2>5. slot' \in [Queues -> [Slots -> SlotValues]]
    BY <1>3, <2>1, <2>4, Zenon DEF enqueue_frame, TypeOK, i
  <2>6. runner' \in [Queues -> RunnerStates]
    BY <1>3, <2>2, Zenon DEF enqueue_frame, TypeOK, WakeRunner
  <2>7. handle' \in [Queues -> [Generations -> HandleStates]]
    BY <1>3, <2>1, Zenon DEF enqueue_frame, TypeOK, g, Live, Unresolved, HandleStates
  <2>8. written' \in [Queues -> [Slots -> Generations \cup {None}]]
    BY <1>3, <2>1, Zenon DEF enqueue_frame, TypeOK, g, i
  <2>9. expected' \in [Queues -> [Slots -> BOOLEAN]]
    BY <1>3, <2>1, Zenon DEF enqueue_frame, TypeOK, i
  <2>10. /\ counter' \in [Queues -> 0 .. MaxCounter]
        /\ capacity' \in [Queues -> 0 .. TX_BUFFER_COUNT]
        /\ pool' \in SUBSET Buffers
        /\ callers' \in SUBSET Buffers
    BY <1>3, <2>1, <2>3, Zenon DEF enqueue_frame, TypeOK, g, i
  <2> QED
    BY <1>3, <2>5, <2>6, <2>7, <2>8, <2>9, <2>10, Zenon DEF enqueue_frame, TypeOK
<1>4. ASSUME NEW q \in Queues, NEW g \in Generations, poll_completion(q, g)
      PROVE  TypeOK'
  <2> DEFINE i == slot_index(g)
  <2>1. i \in Slots /\ slot[q][i] \in SlotValues /\ EmptySlot \in SlotValues
    BY QueueTypes DEF TypeOK, SlotValues, EmptySlot
  <2>2. slot[q][i].state = "ReturnDataAvailable" => slot[q][i].frame \in Buffers
    BY <2>1, Zenon DEF SlotValues
  <2> HIDE DEF i
  <2>3. /\ \E h \in {"GotNone", "GotData", "Parked"} :
             handle' = [handle EXCEPT ![q][g] = h]
        /\ slot' = slot \/ slot' = [slot EXCEPT ![q][i] = EmptySlot]
        /\ waker' = waker \/ waker' = [waker EXCEPT ![q][i] = g]
    BY <1>4 DEF poll_completion, i
  <2>4. /\ slot \in [Queues -> [Slots -> SlotValues]]
        /\ waker \in [Queues -> [Slots -> Generations \cup {None}]]
    BY DEF TypeOK
  <2>5. /\ [slot EXCEPT ![q][i] = EmptySlot] \in [Queues -> [Slots -> SlotValues]]
        /\ [waker EXCEPT ![q][i] = g] \in [Queues -> [Slots -> Generations \cup {None}]]
    BY <2>1, <2>4, ExceptType
  <2>6. {"GotNone", "GotData", "Parked"} \subseteq HandleStates
    BY DEF Live, Unresolved, Waiting, HandleStates
  <2>7. handle' \in [Queues -> [Generations -> HandleStates]]
    BY <2>3, <2>6 DEF TypeOK
  <2>8. slot' \in [Queues -> [Slots -> SlotValues]]
    BY <2>3, <2>4, <2>5, ZenonT(30)
  <2>9. waker' \in [Queues -> [Slots -> Generations \cup {None}]]
    BY <2>3, <2>4, <2>5, ZenonT(30)
  <2>10. callers' \in SUBSET Buffers
    BY <1>4, <2>2 DEF poll_completion, TypeOK, i
  <2> QED
    BY <1>4, <2>7, <2>8, <2>9, <2>10, Zenon DEF poll_completion, TypeOK
<1>5. ASSUME NEW q \in Queues, NEW g \in Generations, drop_handle(q, g)
      PROVE  TypeOK'
  <2> DEFINE i == slot_index(g)
  <2>1. i \in Slots /\ slot[q][i] \in SlotValues /\ EmptySlot \in SlotValues
    BY QueueTypes DEF TypeOK, SlotValues, EmptySlot
  <2>2. Freed(slot[q][i]) \subseteq Buffers
    BY <2>1 DEF Freed, SlotValues
  <2> HIDE DEF i
  <2>3. handle' \in [Queues -> [Generations -> HandleStates]]
    BY <1>5 DEF drop_handle, TypeOK, HandleStates
  <2>4. /\ slot' = slot \/ slot' = [slot EXCEPT ![q][i] = EmptySlot]
        /\ expected' = expected \/ expected' = [expected EXCEPT ![q][i] = FALSE]
    BY <1>5 DEF drop_handle, i
  <2>5. /\ slot \in [Queues -> [Slots -> SlotValues]]
        /\ expected \in [Queues -> [Slots -> BOOLEAN]]
    BY DEF TypeOK
  <2>6. /\ [slot EXCEPT ![q][i] = EmptySlot] \in [Queues -> [Slots -> SlotValues]]
        /\ [expected EXCEPT ![q][i] = FALSE] \in [Queues -> [Slots -> BOOLEAN]]
    BY <2>1, <2>5, ExceptType
  <2>7. slot' \in [Queues -> [Slots -> SlotValues]]
    BY <2>4, <2>5, <2>6, ZenonT(30)
  <2>8. expected' \in [Queues -> [Slots -> BOOLEAN]]
    BY <2>4, <2>5, <2>6, ZenonT(30)
  <2>9. pool' \in SUBSET Buffers
    BY <1>5, <2>2 DEF drop_handle, TypeOK, i
  <2> QED
    BY <1>5, <2>3, <2>7, <2>8, <2>9, Zenon DEF drop_handle, TypeOK
<1>6. ASSUME NEW q \in Queues, wait_queue_not_empty(q) PROVE TypeOK'
  <2>1. ParkedRunner \in RunnerStates
    BY Zenon DEF ParkedRunner, RunnerStates
  <2> QED
    BY <1>6, <2>1 DEF wait_queue_not_empty, TypeOK
<1>7. ASSUME NEW q \in Queues, try_receive(q) PROVE TypeOK'
  <2> DEFINE i == front_index(q)
  <2>1. i \in Slots /\ slot[q][i] \in SlotValues
    BY <1>7, RingReceive DEF TypeOK
  <2>2. slot[q][i].frame \in Buffers
    BY <1>7, <2>1 DEF try_receive, SlotValues
  <2> HIDE DEF i
  <2>3. [state |-> "InProgress", frame |-> NoBuffer] \in SlotValues
    BY Zenon DEF SlotValues
  <2>4. slot' \in [Queues -> [Slots -> SlotValues]]
    BY <1>7, <2>1, <2>3, Zenon DEF try_receive, TypeOK, i
  <2>5. runner' \in [Queues -> RunnerStates]
    BY <1>7, <2>1, <2>2, Zenon DEF try_receive, TypeOK, RunnerStates, i
  <2> QED
    BY <1>7, <2>4, <2>5, Zenon DEF try_receive, TypeOK
<1>8. ASSUME NEW q \in Queues, transmit(q) PROVE TypeOK'
  <2> DEFINE i == runner[q].index
             new == [state |-> "ReturnDataAvailable", frame |-> runner[q].frame]
  <2>1. /\ i \in Slots /\ runner[q].frame \in Buffers
        /\ capacity[q] + 1 \in 0 .. TX_BUFFER_COUNT
    <3>1. i \in Slots /\ runner[q].frame \in Buffers
      BY <1>8, ZenonT(30) DEF transmit, TypeOK, RunnerStates
    <3>2. TX_BUFFER_COUNT - capacity[q] > 0
      BY <1>8 DEF transmit, RingInv, RingAt, len
    <3> QED
      BY <3>1, <3>2, QueueTypes
  <2>2. new \in SlotValues /\ EmptySlot \in SlotValues
    BY <2>1, Zenon DEF SlotValues, EmptySlot
  <2>3. finish(q, i, new) \in SlotValues /\ Discarded(q, i, new) \subseteq Buffers
    BY <2>1, <2>2 DEF finish, Discarded, Freed
  <2>4. WakeWaiter(q, i) \in [Generations -> HandleStates]
    BY <2>1, WakeWaiterType
  <2>5. RunnableRunner \in RunnerStates
    BY Zenon DEF RunnerStates, RunnableRunner
  <2> HIDE DEF i, new
  <2>6. slot' \in [Queues -> [Slots -> SlotValues]]
    BY <1>8, <2>1, <2>3, Zenon DEF transmit, TypeOK, i, new
  <2>7. /\ handle' \in [Queues -> [Generations -> HandleStates]]
        /\ capacity' \in [Queues -> 0 .. TX_BUFFER_COUNT]
        /\ runner' \in [Queues -> RunnerStates]
    BY <1>8, <2>1, <2>4, <2>5, Zenon DEF transmit, TypeOK, i
  <2>8. pool' \in SUBSET Buffers
    BY <1>8, <2>3, Zenon DEF transmit, TypeOK, i, new
  <2> QED
    BY <1>8, <2>6, <2>7, <2>8, Zenon DEF transmit, TypeOK
<1>9. ASSUME drop_runner PROVE TypeOK'
  <2> DEFINE active == {q \in Queues : runner[q].at = "Transmitting"}
  <2>1. \A q \in active :
          /\ runner[q].index \in Slots /\ runner[q].frame \in Buffers
          /\ capacity[q] + 1 \in 0 .. TX_BUFFER_COUNT
          /\ written[q][runner[q].index] \in Generations
    <3> TAKE q \in active
    <3>1. runner[q].index \in Slots /\ runner[q].frame \in Buffers
      <4>1. q \in Queues /\ runner[q].at = "Transmitting"
        OBVIOUS
      <4> QED
        BY <4>1, ZenonT(30) DEF TypeOK, RunnerStates
    <3>2. /\ TX_BUFFER_COUNT - capacity[q] > 0
          /\ written[q][runner[q].index] = counter[q] - len(q)
          /\ len(q) <= counter[q]
      BY DEF RingInv, RingAt, len
    <3> QED
      BY <3>1, <3>2, QueueTypes DEF Generations, len
  <2>2. /\ EmptySlot \in SlotValues
        /\ StoppedRunner \in RunnerStates
        /\ \A q \in active : finish(q, runner[q].index, EmptySlot) \in SlotValues
    BY DEF SlotValues, EmptySlot, finish, RunnerStates, StoppedRunner
  <2>3. \A q \in active : WakeWaiter(q, runner[q].index)
                            \in [Generations -> HandleStates]
    BY <2>1, WakeWaiterType, Zenon
  <2>4. slot' \in [Queues -> [Slots -> SlotValues]]
    BY <1>9, <2>1, <2>2, Zenon DEF drop_runner, TypeOK
  <2>5. /\ handle' \in [Queues -> [Generations -> HandleStates]]
        /\ runner' \in [Queues -> RunnerStates]
    BY <1>9, <2>2, <2>3, ZenonT(30) DEF drop_runner, TypeOK
  <2>6. /\ capacity' \in [Queues -> 0 .. TX_BUFFER_COUNT]
        /\ aborted' \in [Queues -> SUBSET Generations]
        /\ pool' \in SUBSET Buffers
    BY <1>9, <2>1 DEF drop_runner, TypeOK
  <2> QED
    BY <1>9, <2>4, <2>5, <2>6, Zenon DEF drop_runner, TypeOK
<1>10. ASSUME run PROVE TypeOK'
  <2>1. RunnableRunner \in RunnerStates
    BY DEF RunnerStates, RunnableRunner
  <2> QED
    BY <1>10, <2>1 DEF run, TypeOK
<1> QED
  BY <1>1, <1>2, <1>3, <1>4, <1>5, <1>6, <1>7, <1>8, <1>9, <1>10, Zenon DEF Next

(* Every action keeps the ring.                                            *)
LEMMA RingNext ==
  ASSUME TypeOK, RingInv, Next
  PROVE  RingInv'
<1> SUFFICES ASSUME NEW p \in Queues PROVE RingAt(p)'
  BY DEF RingInv
<1>0. RingAt(p)
  BY DEF RingInv
<1>1. ASSUME NEW b \in Buffers, alloc(b) PROVE RingAt(p)'
  BY <1>0, <1>1, RingFrame DEF alloc
<1>2. ASSUME NEW b \in Buffers, drop_buffer(b) PROVE RingAt(p)'
  BY <1>0, <1>2, RingFrame DEF drop_buffer
<1>3. ASSUME NEW q \in Queues, NEW b \in Buffers, enqueue_frame(q, b)
      PROVE  RingAt(p)'
  <2>1. CASE p = q
    BY <1>0, <1>3, <2>1, RingEnqueue, Zenon
  <2>2. CASE p # q
    <3>1. /\ counter'[p] = counter[p] /\ capacity'[p] = capacity[p]
          /\ written'[p] = written[p] /\ slot'[p] = slot[p]
          /\ runner'[p] = runner[p]
      BY <1>3, <2>2, Zenon DEF enqueue_frame, TypeOK
    <3> QED
      BY <3>1, <1>0, RingFrame, Zenon
  <2> QED
    BY <2>1, <2>2
<1>4. ASSUME NEW q \in Queues, NEW g \in Generations, poll_completion(q, g)
      PROVE  RingAt(p)'
  <2>1. \/ slot' = slot
        \/ /\ slot[q][slot_index(g)].state = "ReturnDataAvailable"
           /\ slot' = [slot EXCEPT ![q][slot_index(g)] = EmptySlot]
    BY <1>4 DEF poll_completion
  <2>2. \A i \in Slots :
           \/ slot'[p][i] = slot[p][i]
           \/ slot[p][i].state = "ReturnDataAvailable" /\ slot'[p][i] = EmptySlot
    <3>1. CASE slot' = slot
      BY <3>1
    <3>2. CASE /\ slot[q][slot_index(g)].state = "ReturnDataAvailable"
               /\ slot' = [slot EXCEPT ![q][slot_index(g)] = EmptySlot]
      BY <3>2 DEF TypeOK
    <3> QED
      BY <2>1, <3>1, <3>2
  <2> QED
    BY <1>4, <2>2, <1>0, RingFrame DEF poll_completion
<1>5. ASSUME NEW q \in Queues, NEW g \in Generations, drop_handle(q, g)
      PROVE  RingAt(p)'
  <2>1. \/ slot' = slot
        \/ /\ slot[q][slot_index(g)].state = "ReturnDataAvailable"
           /\ slot' = [slot EXCEPT ![q][slot_index(g)] = EmptySlot]
    BY <1>5 DEF drop_handle
  <2>2. \A i \in Slots :
           \/ slot'[p][i] = slot[p][i]
           \/ slot[p][i].state = "ReturnDataAvailable" /\ slot'[p][i] = EmptySlot
    <3>1. CASE slot' = slot
      BY <3>1
    <3>2. CASE /\ slot[q][slot_index(g)].state = "ReturnDataAvailable"
               /\ slot' = [slot EXCEPT ![q][slot_index(g)] = EmptySlot]
      BY <3>2, Zenon DEF TypeOK
    <3> QED
      BY <2>1, <3>1, <3>2
  <2> QED
    BY <1>5, <2>2, <1>0, RingFrame DEF drop_handle
<1>6. ASSUME NEW q \in Queues, wait_queue_not_empty(q) PROVE RingAt(p)'
  <2>1. \/ runner'[p] = runner[p]
        \/ runner[p].at # "Transmitting" /\ runner'[p].at # "Transmitting"
    BY <1>6 DEF wait_queue_not_empty, TypeOK, ParkedRunner
  <2> QED
    BY <1>6, <2>1, <1>0, RingFrame DEF wait_queue_not_empty
<1>7. ASSUME NEW q \in Queues, try_receive(q) PROVE RingAt(p)'
  <2>1. CASE p = q
    BY <1>7, <2>1, RingReceive, Zenon
  <2>2. CASE p # q
    <3>1. slot'[p] = slot[p] /\ runner'[p] = runner[p]
      BY <1>7, <2>2 DEF try_receive, TypeOK
    <3> QED
      BY <1>7, <3>1, <1>0, RingFrame, Zenon DEF try_receive
  <2> QED
    BY <2>1, <2>2
<1>8. ASSUME NEW q \in Queues, transmit(q) PROVE RingAt(p)'
  <2>1. CASE p = q
    <3> DEFINE new == [state |-> "ReturnDataAvailable", frame |-> runner[q].frame]
               x == finish(q, runner[q].index, new)
    <3>1. x.state \in {"Empty", "ReturnDataAvailable"}
      BY Zenon DEF finish, EmptySlot
    <3>2. runner'[p].at # "Transmitting"
      BY <1>8, <2>1, Zenon DEF transmit, TypeOK, RunnableRunner
    <3>3. /\ slot'[p] = [slot[p] EXCEPT ![runner[p].index] = x]
          /\ counter'[p] = counter[p] /\ capacity'[p] = capacity[p] + 1
          /\ written'[p] = written[p] /\ runner[p].at = "Transmitting"
      BY <1>8, <2>1, Zenon DEF transmit, TypeOK
    <3> QED
      BY <3>1, <3>2, <3>3, <1>0, RingFinish
  <2>2. CASE p # q
    <3>1. /\ slot'[p] = slot[p] /\ runner'[p] = runner[p]
          /\ capacity'[p] = capacity[p]
      BY <1>8, <2>2 DEF transmit, TypeOK
    <3> QED
      BY <1>8, <3>1, <1>0, RingFrame, Zenon DEF transmit
  <2> QED
    BY <2>1, <2>2, Zenon
<1>9. ASSUME drop_runner PROVE RingAt(p)'
  <2>1. runner'[p].at # "Transmitting"
    BY <1>9, ZenonT(60) DEF drop_runner, StoppedRunner
  <2>2. CASE runner[p].at = "Transmitting"
    <3> DEFINE x == finish(p, runner[p].index, EmptySlot)
    <3>1. x.state \in {"Empty", "ReturnDataAvailable"}
      BY Zenon DEF finish, EmptySlot
    <3>2. /\ slot'[p] = [slot[p] EXCEPT ![runner[p].index] = x]
          /\ counter'[p] = counter[p] /\ capacity'[p] = capacity[p] + 1
          /\ written'[p] = written[p]
      BY <1>9, <2>2, Zenon DEF drop_runner
    <3> HIDE DEF x
    <3> QED
      BY <3>1, <3>2, <2>1, <2>2, <1>0, RingFinish
  <2>3. CASE runner[p].at # "Transmitting"
    <3>1. /\ slot'[p] = slot[p]
          /\ counter'[p] = counter[p] /\ capacity'[p] = capacity[p]
          /\ written'[p] = written[p]
      BY <1>9, <2>3, ZenonT(30) DEF drop_runner
    <3> QED
      BY <3>1, <2>1, <2>3, <1>0, RingFrame, Zenon
  <2> QED
    BY <2>2, <2>3, Zenon
<1>10. ASSUME run PROVE RingAt(p)'
  <2>1. runner[p].at # "Transmitting" /\ runner'[p].at # "Transmitting"
    BY <1>10 DEF run, RunnableRunner
  <2> QED
    BY <1>10, <2>1, <1>0, RingFrame DEF run
<1> QED
  BY <1>1, <1>2, <1>3, <1>4, <1>5, <1>6, <1>7, <1>8, <1>9, <1>10 DEF Next

(* The types and the ring hold initially.                                  *)
LEMMA TypeRingInit ==
  ASSUME Init
  PROVE  TypeOK /\ RingInv
<1> USE TxQueueAssumption
<1>1. /\ EmptySlot \in SlotValues
      /\ RunnableRunner \in RunnerStates
      /\ "None" \in HandleStates
  BY DEF EmptySlot, SlotValues, RunnableRunner, RunnerStates, HandleStates
<1>2. TypeOK
  BY <1>1 DEF Init, TypeOK
<1>3. \A q \in Queues : len(q) = 0 /\ counter[q] = 0 /\ runner[q].at = "Runnable"
  BY DEF Init, len, RunnableRunner
<1>4. \A q \in Queues, i \in Slots : slot[q][i].state = "Empty" /\ written[q][i] = None
  BY Zenon DEF Init, EmptySlot
<1>5. RingInv
  BY <1>3, <1>4 DEF RingInv, RingAt, Occupied, Generations
<1> QED
  BY <1>2, <1>5

(* A step that changes nothing changes no invariant.                       *)
LEMMA TypeRingStutter ==
  ASSUME TypeOK, RingInv, UNCHANGED vars
  PROVE  TypeOK' /\ RingInv'
<1>1. TypeOK'
  BY Zenon DEF vars, TypeOK
<1>2. RingInv'
  BY RingFrame, Zenon DEF vars, RingInv
<1> QED
  BY <1>1, <1>2

(* The ring invariant holds in every reachable state.                      *)
THEOREM RingCorrect == Spec => [](TypeOK /\ RingInv)
<1>1. Init => TypeOK /\ RingInv
  BY TypeRingInit
<1>2. TypeOK /\ RingInv /\ [Next]_vars => TypeOK' /\ RingInv'
  BY TypeNext, RingNext, TypeRingStutter
<1> QED
  BY <1>1, <1>2, PTL DEF Spec

(* Type correctness of every reachable state: in particular the capacity   *)
(* of a queue, a usize, never leaves 0..TX_BUFFER_COUNT, so len() does not *)
(* underflow, and finish() never returns a slot that was not taken.        *)
THEOREM TypeCorrect == Spec => []TypeOK
  BY RingCorrect, PTL

(* is_counter_out_of_bounds, a comparison of two counters, decides exactly *)
(* whether the slot of a generation was overwritten by a later frame.      *)
THEOREM GenerationCheck == Spec => []GenerationCheckExact
<1>1. TypeOK /\ RingInv => GenerationCheckExact
  <2> SUFFICES ASSUME TypeOK, RingInv, NEW q \in Queues, NEW g \in Generations,
                      g < counter[q]
               PROVE  is_counter_out_of_bounds(q, g)
                        <=> written[q][slot_index(g)] # g
    BY DEF GenerationCheckExact
  <2>1. /\ counter[q] \in Nat /\ g \in Nat /\ TX_BUFFER_COUNT \in Nat
        /\ slot_index(g) \in Slots /\ g # None
    BY QueueTypes DEF Generations, None
  <2>2. counter[q] - g <= TX_BUFFER_COUNT => written[q][slot_index(g)] = g
    BY ZenonT(30) DEF RingInv, RingAt
  <2>3. written[q][slot_index(g)] = g => counter[q] - g <= TX_BUFFER_COUNT
    BY <2>1 DEF RingInv, RingAt
  <2> QED
    BY <2>1, <2>2, <2>3 DEF is_counter_out_of_bounds
<1> QED
  BY <1>1, RingCorrect, PTL


-----------------------------------------------------------------------------
(* The buffers: every place that can hold a buffer holds a different one,  *)
(* and every buffer is in one of them.  FreeApart: the pool and the        *)
(* callers against all others; RadioApart: the frames on the air;          *)
(* SlotsApart: the slots among themselves; NoneLost: nothing is leaked.    *)
FreeApart ==
  /\ pool \cap callers = {}
  /\ \A q \in Queues : runner[q].frame \notin pool \cup callers
  /\ \A q \in Queues, i \in Slots : slot[q][i].frame \notin pool \cup callers

RadioApart ==
  /\ \A p, q \in Queues :
       runner[p].frame = runner[q].frame /\ runner[p].frame # NoBuffer => p = q
  /\ \A p, q \in Queues, i \in Slots :
       slot[q][i].frame = runner[p].frame => slot[q][i].frame = NoBuffer

SlotsApart ==
  \A p, q \in Queues, i, j \in Slots :
    slot[q][i].frame = slot[p][j].frame /\ slot[q][i].frame # NoBuffer
      => p = q /\ j = i

NoneLost ==
  \A b \in Buffers :
    \/ b \in pool \cup callers
    \/ \E q \in Queues, i \in Slots : slot[q][i].frame = b
    \/ \E q \in Queues : runner[q].frame = b

OwnerInv == FreeApart /\ RadioApart /\ SlotsApart /\ NoneLost

-----------------------------------------------------------------------------
(* The ownership layer.                                                    *)

(* A step that leaves the slots and the frames on the air alone only moves *)
(* buffers between the pool and the callers.                               *)
LEMMA OwnerFree ==
  ASSUME OwnerInv,
         pool' \cap callers' = {}, pool' \cup callers' = pool \cup callers,
         slot' = slot,
         \A p \in Queues : runner'[p].frame = runner[p].frame
  PROVE  OwnerInv'
<1>1. FreeApart'
  BY DEF OwnerInv, FreeApart
<1>2. RadioApart' /\ SlotsApart'
  BY DEF OwnerInv, RadioApart, SlotsApart
<1>3. NoneLost'
  BY DEF OwnerInv, NoneLost
<1> QED
  BY <1>1, <1>2, <1>3 DEF OwnerInv

(* The return data of slot i of queue q is taken: its buffer goes to the   *)
(* callers or to the pool.                                                 *)
LEMMA OwnerTake ==
  ASSUME NoBuffer \notin Buffers, OwnerInv,
         pool \subseteq Buffers, callers \subseteq Buffers,
         NEW q \in Queues, NEW i \in Slots, slot[q][i].frame \in Buffers,
         \A p \in Queues, j \in Slots :
           slot'[p][j].frame = IF p = q /\ j = i THEN NoBuffer ELSE slot[p][j].frame,
         runner' = runner,
         \/ pool' = pool /\ callers' = callers \cup {slot[q][i].frame}
         \/ callers' = callers /\ pool' = pool \cup {slot[q][i].frame}
  PROVE  OwnerInv'
<1>1. FreeApart'
  <2>1. pool' \cap callers' = {} /\ NoBuffer \notin pool' \cup callers'
    BY DEF OwnerInv, FreeApart
  <2>2. \A p \in Queues : runner'[p].frame \notin pool' \cup callers'
    BY DEF OwnerInv, FreeApart, RadioApart
  <2>3. \A p \in Queues, j \in Slots : slot'[p][j].frame \notin pool' \cup callers'
    BY <2>1 DEF OwnerInv, FreeApart, SlotsApart
  <2> QED
    BY <2>1, <2>2, <2>3 DEF FreeApart
<1>2. RadioApart'
  BY DEF OwnerInv, RadioApart
<1>3. SlotsApart'
  BY DEF OwnerInv, SlotsApart
<1>4. NoneLost'
  BY DEF OwnerInv, NoneLost
<1> QED
  BY <1>1, <1>2, <1>3, <1>4 DEF OwnerInv

(* Every action moves buffers from one place to another.                   *)
LEMMA OwnerNext ==
  ASSUME TypeOK, RingInv, OwnerInv, Next
  PROVE  OwnerInv'
<1> USE TxQueueAssumption
<1>0. /\ pool \subseteq Buffers /\ callers \subseteq Buffers /\ NoBuffer \notin Buffers
      /\ \A p \in Queues, j \in Slots : slot[p][j] \in SlotValues
      /\ \A p \in Queues : runner[p] \in RunnerStates
  BY DEF TypeOK
<1>1. ASSUME NEW b \in Buffers, alloc(b) PROVE OwnerInv'
  <2>1. pool' \cup callers' = pool \cup callers /\ pool' \cap callers' = {}
    BY <1>1 DEF alloc, OwnerInv, FreeApart
  <2> QED
    BY <1>1, <2>1, OwnerFree DEF alloc
<1>2. ASSUME NEW b \in Buffers, drop_buffer(b) PROVE OwnerInv'
  <2>1. pool' \cup callers' = pool \cup callers /\ pool' \cap callers' = {}
    BY <1>2 DEF drop_buffer, OwnerInv, FreeApart
  <2> QED
    BY <1>2, <2>1, OwnerFree DEF drop_buffer
<1>3. ASSUME NEW q \in Queues, NEW b \in Buffers, enqueue_frame(q, b)
      PROVE  OwnerInv'
  <2> DEFINE i == next_slot_index(q)
  <2>1. i \in Slots
    BY QueueTypes
  <2>2. /\ b \in callers /\ callers' = callers \ {b}
        /\ pool' = pool \cup ({slot[q][i].frame} \ {NoBuffer})
        /\ \A p \in Queues, j \in Slots :
             slot'[p][j].frame = IF p = q /\ j = i THEN b ELSE slot[p][j].frame
    BY <1>3, <2>1 DEF enqueue_frame, Freed, TypeOK
  <2>3. \A p \in Queues : runner'[p].frame = runner[p].frame
    <3> SUFFICES ASSUME NEW p \in Queues PROVE runner'[p].frame = runner[p].frame
      OBVIOUS
    <3>1. /\ RunnableRunner.frame = NoBuffer
          /\ runner[p].at = "Parked" => runner[p].frame = NoBuffer
      BY <1>0 DEF RunnableRunner, RunnerStates
    <3>2. runner'[p] = IF p = q /\ is_empty(q) THEN WakeRunner(runner[p]) ELSE runner[p]
      BY <1>3 DEF enqueue_frame, TypeOK
    <3> QED
      BY <3>1, <3>2 DEF WakeRunner
  <2> HIDE DEF i
  <2>4. FreeApart'
    <3>1. pool' \cap callers' = {}
      BY <2>1, <2>2 DEF OwnerInv, FreeApart
    <3>2. \A p \in Queues : runner'[p].frame \notin pool' \cup callers'
      BY <2>1, <2>2, <2>3 DEF OwnerInv, FreeApart, RadioApart
    <3>3. \A p \in Queues, j \in Slots : slot'[p][j].frame \notin pool' \cup callers'
      BY <1>0, <2>1, <2>2 DEF OwnerInv, FreeApart, SlotsApart
    <3> QED
      BY <3>1, <3>2, <3>3 DEF FreeApart
  <2>5. RadioApart'
    BY <2>1, <2>2, <2>3 DEF OwnerInv, FreeApart, RadioApart
  <2>6. SlotsApart'
    BY <2>1, <2>2 DEF OwnerInv, FreeApart, SlotsApart
  <2>7. NoneLost'
    BY <1>0, <2>1, <2>2, <2>3 DEF OwnerInv, NoneLost
  <2> QED
    BY <2>4, <2>5, <2>6, <2>7 DEF OwnerInv
<1>4. ASSUME NEW q \in Queues, NEW g \in Generations, poll_completion(q, g)
      PROVE  OwnerInv'
  <2> DEFINE i == slot_index(g)
  <2>1. i \in Slots
    BY QueueTypes
  <2>2. pool' = pool /\ runner' = runner
    BY <1>4 DEF poll_completion
  <2>3. CASE slot' = slot /\ callers' = callers
    BY <2>2, <2>3, OwnerFree DEF OwnerInv, FreeApart
  <2>4. CASE /\ slot[q][i].state = "ReturnDataAvailable"
             /\ slot' = [slot EXCEPT ![q][i] = EmptySlot]
             /\ callers' = callers \cup {slot[q][i].frame}
    <3>1. \A p \in Queues, j \in Slots :
            slot'[p][j].frame = IF p = q /\ j = i THEN NoBuffer ELSE slot[p][j].frame
      BY <2>1, <2>4 DEF TypeOK, EmptySlot
    <3>2. slot[q][i].frame \in Buffers
      BY <1>0, <2>1, <2>4 DEF SlotValues
    <3>3. callers' = callers \cup {slot[q][i].frame}
      BY <2>4
    <3> HIDE DEF i
    <3> QED
      BY <1>0, <2>1, <2>2, <3>1, <3>2, <3>3, OwnerTake
  <2> QED
    BY <1>4, <2>3, <2>4 DEF poll_completion
<1>5. ASSUME NEW q \in Queues, NEW g \in Generations, drop_handle(q, g)
      PROVE  OwnerInv'
  <2> DEFINE i == slot_index(g)
  <2>1. i \in Slots
    BY QueueTypes
  <2>2. callers' = callers /\ runner' = runner
    BY <1>5 DEF drop_handle
  <2>3. CASE slot' = slot /\ pool' = pool
    BY <2>2, <2>3, OwnerFree DEF OwnerInv, FreeApart
  <2>4. CASE /\ slot[q][i].state = "ReturnDataAvailable"
             /\ slot' = [slot EXCEPT ![q][i] = EmptySlot]
             /\ pool' = pool \cup Freed(slot[q][i])
    <3>1. \A p \in Queues, j \in Slots :
            slot'[p][j].frame = IF p = q /\ j = i THEN NoBuffer ELSE slot[p][j].frame
      BY <2>1, <2>4 DEF TypeOK, EmptySlot
    <3>2. slot[q][i].frame \in Buffers
      BY <1>0, <2>1, <2>4 DEF SlotValues
    <3>3. pool' = pool \cup {slot[q][i].frame}
      BY <1>0, <2>4, <3>2 DEF Freed
    <3> HIDE DEF i
    <3> QED
      BY <1>0, <2>1, <2>2, <3>1, <3>2, <3>3, OwnerTake
  <2> QED
    BY <1>5, <2>3, <2>4 DEF drop_handle
<1>6. ASSUME NEW q \in Queues, wait_queue_not_empty(q) PROVE OwnerInv'
  <2>1. \A p \in Queues : runner'[p].frame = runner[p].frame
    <3>1. runner[q].frame = NoBuffer /\ ParkedRunner.frame = NoBuffer
      BY <1>0, <1>6 DEF wait_queue_not_empty, RunnerStates, ParkedRunner
    <3> QED
      BY <1>6, <3>1 DEF wait_queue_not_empty, TypeOK
  <2>2. pool' = pool /\ callers' = callers /\ slot' = slot
    BY <1>6 DEF wait_queue_not_empty
  <2> QED
    BY <2>1, <2>2, OwnerFree DEF OwnerInv, FreeApart
<1>7. ASSUME NEW q \in Queues, try_receive(q) PROVE OwnerInv'
  <2> DEFINE i == front_index(q)
  <2>1. i \in Slots
    BY <1>7, RingReceive
  <2>2. /\ slot[q][i].frame \in Buffers /\ runner[q].frame = NoBuffer
        /\ pool' = pool /\ callers' = callers
    BY <1>0, <1>7, <2>1 DEF try_receive, SlotValues, RunnerStates
  <2>3. /\ \A p \in Queues, j \in Slots :
             slot'[p][j].frame = IF p = q /\ j = i THEN NoBuffer ELSE slot[p][j].frame
        /\ \A p \in Queues :
             runner'[p].frame = IF p = q THEN slot[q][i].frame ELSE runner[p].frame
    BY <1>7, <2>1 DEF try_receive, TypeOK
  <2> HIDE DEF i
  <2>4. FreeApart'
    BY <1>0, <2>1, <2>2, <2>3 DEF OwnerInv, FreeApart
  <2>5. RadioApart'
    BY <1>0, <2>1, <2>2, <2>3 DEF OwnerInv, RadioApart, SlotsApart
  <2>6. SlotsApart'
    BY <2>1, <2>3 DEF OwnerInv, SlotsApart
  <2>7. NoneLost'
    BY <1>0, <2>1, <2>2, <2>3 DEF OwnerInv, NoneLost
  <2> QED
    BY <2>4, <2>5, <2>6, <2>7 DEF OwnerInv
<1>8. ASSUME NEW q \in Queues, transmit(q) PROVE OwnerInv'
  <2> DEFINE i == runner[q].index
             new == [state |-> "ReturnDataAvailable", frame |-> runner[q].frame]
  <2>1. i \in Slots /\ runner[q].frame \in Buffers
    BY <1>0, <1>8 DEF transmit, RunnerStates
  <2>2. slot[q][i].frame = NoBuffer
    BY <1>0, <1>8, <2>1 DEF transmit, RingInv, RingAt, SlotValues
  <2>3. \A p \in Queues : runner'[p].frame = IF p = q THEN NoBuffer ELSE runner[p].frame
    BY <1>8 DEF transmit, TypeOK, RunnableRunner
  <2>4. /\ \A p \in Queues, j \in Slots :
             slot'[p][j] = IF p = q /\ j = i THEN finish(q, i, new) ELSE slot[p][j]
        /\ pool' = pool \cup Discarded(q, i, new)
        /\ callers' = callers
    BY <1>8, <2>1 DEF transmit, TypeOK
  <2>5. \/ /\ finish(q, i, new).frame = runner[q].frame
           /\ pool' = pool
        \/ /\ finish(q, i, new).frame = NoBuffer
           /\ pool' = pool \cup {runner[q].frame}
    <3>1. CASE expected[q][i]
      BY <2>4, <3>1 DEF finish, Discarded
    <3>2. CASE ~expected[q][i]
      BY <1>0, <2>1, <2>4, <3>2 DEF finish, Discarded, Freed, EmptySlot
    <3> QED
      BY <3>1, <3>2
  <2> DEFINE left == finish(q, i, new).frame
  <2>6. /\ \A p \in Queues, j \in Slots :
             slot'[p][j].frame = IF p = q /\ j = i THEN left ELSE slot[p][j].frame
        /\ \/ left = runner[q].frame /\ pool' = pool
           \/ left = NoBuffer /\ pool' = pool \cup {runner[q].frame}
    BY <2>4, <2>5
  <2> HIDE DEF i, left
  <2>7. FreeApart'
    <3>1. pool' \cap callers' = {} /\ NoBuffer \notin pool' \cup callers'
      BY <1>0, <2>1, <2>4, <2>6 DEF OwnerInv, FreeApart
    <3>2. pool' \subseteq pool \cup {runner[q].frame} /\ callers' = callers
      BY <2>4, <2>6
    <3>3. \A p \in Queues :
            /\ runner[p].frame \notin pool \cup callers
            /\ p # q /\ runner[p].frame # NoBuffer => runner[p].frame # runner[q].frame
      BY DEF OwnerInv, FreeApart, RadioApart
    <3>4. \A p \in Queues : runner'[p].frame \notin pool' \cup callers'
      BY <2>3, <3>1, <3>2, <3>3
    <3>5. \A p \in Queues, j \in Slots :
            /\ slot[p][j].frame \notin pool \cup callers
            /\ slot[p][j].frame # NoBuffer => slot[p][j].frame # runner[q].frame
      BY DEF OwnerInv, FreeApart, RadioApart
    <3>6. left \notin pool' \cup callers'
      BY <2>6, <3>1, <3>2, <3>3
    <3>7. \A p \in Queues, j \in Slots : slot'[p][j].frame \notin pool' \cup callers'
      BY <2>6, <3>1, <3>2, <3>5, <3>6
    <3> QED
      BY <3>1, <3>4, <3>7 DEF FreeApart
  <2>8. RadioApart'
    BY <1>0, <2>1, <2>3, <2>6 DEF OwnerInv, RadioApart
  <2>9. SlotsApart'
    BY <2>1, <2>6 DEF OwnerInv, RadioApart, SlotsApart
  <2>10. NoneLost'
    BY <1>0, <2>1, <2>2, <2>3, <2>4, <2>6 DEF OwnerInv, NoneLost
  <2> QED
    BY <2>7, <2>8, <2>9, <2>10 DEF OwnerInv
<1>9. ASSUME drop_runner PROVE OwnerInv'
  <2> DEFINE active == {q \in Queues : runner[q].at = "Transmitting"}
  <2>1. \A p \in Queues :
          /\ p \in active => runner[p].index \in Slots /\ runner[p].frame \in Buffers
          /\ p \notin active => runner[p].frame = NoBuffer
    BY <1>0 DEF RunnerStates
  <2>2. \A p \in active : slot[p][runner[p].index].frame = NoBuffer
    BY <1>0, <2>1 DEF RingInv, RingAt, SlotValues
  <2>3. \A p \in Queues, j \in Slots : slot'[p][j].frame = slot[p][j].frame
    <3> SUFFICES ASSUME NEW p \in Queues, NEW j \in Slots
                 PROVE  slot'[p][j].frame = slot[p][j].frame
      OBVIOUS
    <3>1. slot'[p] = IF p \in active
                     THEN [slot[p] EXCEPT ![runner[p].index] =
                             finish(p, runner[p].index, EmptySlot)]
                     ELSE slot[p]
      BY <1>9, ZenonT(30) DEF drop_runner
    <3>2. slot[p] \in [Slots -> SlotValues]
      BY DEF TypeOK
    <3> QED
      BY <2>1, <2>2, <3>1, <3>2 DEF finish, EmptySlot
  <2>4. \A p \in Queues : runner'[p].frame = NoBuffer
    BY <1>9 DEF drop_runner, StoppedRunner
  <2>5. pool' = pool \cup {runner[p].frame : p \in active} /\ callers' = callers
    BY <1>9 DEF drop_runner
  <2> HIDE DEF active
  <2>6. active \subseteq Queues
    BY DEF active
  <2>7. \A c : c \in pool' <=> c \in pool \/ \E p \in active : c = runner[p].frame
    BY <2>5
  <2>8. FreeApart'
    <3>1. pool' \cap callers' = {} /\ NoBuffer \notin pool' \cup callers'
      BY <1>0, <2>1, <2>5, <2>6, <2>7 DEF OwnerInv, FreeApart
    <3>2. \A p \in Queues, j \in Slots : slot'[p][j].frame \notin pool' \cup callers'
      BY <2>3, <2>5, <2>6, <2>7, <3>1 DEF OwnerInv, FreeApart, RadioApart
    <3> QED
      BY <2>4, <3>1, <3>2 DEF FreeApart
  <2>9. RadioApart' /\ SlotsApart'
    BY <2>3, <2>4 DEF OwnerInv, RadioApart, SlotsApart
  <2>10. NoneLost'
    BY <1>0, <2>1, <2>3, <2>5, <2>7 DEF OwnerInv, NoneLost
  <2> QED
    BY <2>8, <2>9, <2>10 DEF OwnerInv
<1>10. ASSUME run PROVE OwnerInv'
  <2>1. \A p \in Queues : runner'[p].frame = runner[p].frame
    BY <1>0, <1>10 DEF run, RunnableRunner, RunnerStates
  <2>2. pool' = pool /\ callers' = callers /\ slot' = slot
    BY <1>10 DEF run
  <2> QED
    BY <2>1, <2>2, OwnerFree DEF OwnerInv, FreeApart
<1> QED
  BY <1>1, <1>2, <1>3, <1>4, <1>5, <1>6, <1>7, <1>8, <1>9, <1>10 DEF Next

(* Initially the pool has every buffer.                                    *)
LEMMA OwnerInit ==
  ASSUME Init
  PROVE  OwnerInv
<1>1. /\ pool = Buffers /\ callers = {} /\ NoBuffer \notin Buffers
      /\ \A q \in Queues, i \in Slots : slot[q][i].frame = NoBuffer
      /\ \A q \in Queues : runner[q].frame = NoBuffer
  BY TxQueueAssumption DEF Init, EmptySlot, RunnableRunner
<1> QED
  BY <1>1 DEF OwnerInv, FreeApart, RadioApart, SlotsApart, NoneLost

(* The invariant of the first two layers in every reachable state.         *)
THEOREM OwnerCorrect == Spec => [](TypeOK /\ RingInv /\ OwnerInv)
<1>1. Init => TypeOK /\ RingInv /\ OwnerInv
  BY TypeRingInit, OwnerInit
<1>2. TypeOK /\ RingInv /\ OwnerInv /\ [Next]_vars => (TypeOK /\ RingInv /\ OwnerInv)'
  <2>1. ASSUME OwnerInv, UNCHANGED vars PROVE OwnerInv'
    <3>1. pool' = pool /\ callers' = callers /\ slot' = slot /\ runner' = runner
      BY <2>1 DEF vars
    <3> QED
      BY <2>1, <3>1, OwnerFree DEF OwnerInv, FreeApart
  <2> QED
    BY <2>1, TypeNext, RingNext, OwnerNext, TypeRingStutter
<1> QED
  BY <1>1, <1>2, PTL DEF Spec

(* Every buffer has exactly one owner: whatever callers cancel, whatever   *)
(* is overwritten or aborted, no buffer is leaked and none is handed out   *)
(* twice.                                                                  *)
THEOREM OneOwner == Spec => []BuffersHaveOneOwner
<1>1. TypeOK /\ OwnerInv => BuffersHaveOneOwner
  <2> SUFFICES ASSUME TypeOK, OwnerInv, NEW b \in Buffers
               PROVE  \E p \in Places :
                        Holds(p, b) /\ \A p2 \in Places : Holds(p2, b) => p2 = p
    BY DEF BuffersHaveOneOwner
  <2>0. b # NoBuffer
    BY TxQueueAssumption
  <2>1. CASE b \in pool
    <3>1. <<"pool">> \in Places /\ Holds(<<"pool">>, b)
      BY <2>1 DEF Places, Holds
    <3>2. ASSUME NEW p2 \in Places, Holds(p2, b) PROVE p2 = <<"pool">>
      BY <3>2, <2>1 DEF Holds, OwnerInv, FreeApart
    <3> QED
      BY <3>1, <3>2
  <2>2. CASE b \in callers
    <3>1. <<"caller">> \in Places /\ Holds(<<"caller">>, b)
      BY <2>2 DEF Places, Holds
    <3>2. ASSUME NEW p2 \in Places, Holds(p2, b) PROVE p2 = <<"caller">>
      BY <3>2, <2>2 DEF Holds, OwnerInv, FreeApart
    <3> QED
      BY <3>1, <3>2
  <2>3. ASSUME NEW q \in Queues, NEW i \in Slots, slot[q][i].frame = b
        PROVE  \E p \in Places :
                 Holds(p, b) /\ \A p2 \in Places : Holds(p2, b) => p2 = p
    <3>1. <<"slot", q, i>> \in Places /\ Holds(<<"slot", q, i>>, b)
      BY <2>3 DEF Places, Holds
    <3>2. ASSUME NEW p2 \in Places, Holds(p2, b) PROVE p2 = <<"slot", q, i>>
      BY <3>2, <2>0, <2>3 DEF Holds, OwnerInv, FreeApart, RadioApart, SlotsApart
    <3> QED
      BY <3>1, <3>2
  <2>4. ASSUME NEW q \in Queues, runner[q].frame = b
        PROVE  \E p \in Places :
                 Holds(p, b) /\ \A p2 \in Places : Holds(p2, b) => p2 = p
    <3>1. <<"radio", q>> \in Places /\ Holds(<<"radio", q>>, b)
      BY <2>4 DEF Places, Holds
    <3>2. ASSUME NEW p2 \in Places, Holds(p2, b) PROVE p2 = <<"radio", q>>
      BY <3>2, <2>0, <2>4 DEF Holds, OwnerInv, FreeApart, RadioApart
    <3> QED
      BY <3>1, <3>2
  <2> QED
    BY <2>1, <2>2, <2>3, <2>4 DEF OwnerInv, NoneLost
<1> QED
  BY <1>1, OwnerCorrect, PTL

-----------------------------------------------------------------------------
(* The FIFO layer: the ring implements the abstract queue.                 *)

(* Sequences, element by element.                                          *)
LEMMA AppendIs ==
  ASSUME NEW S, NEW s \in Seq(S), NEW t \in Seq(S), NEW e \in S,
         Len(t) = Len(s) + 1, t[Len(s) + 1] = e,
         \A k \in 1 .. Len(s) : t[k] = s[k]
  PROVE  t = Append(s, e)
  OBVIOUS

LEMMA TailIs ==
  ASSUME NEW S, NEW s \in Seq(S), NEW t \in Seq(S), s # <<>>,
         Len(t) = Len(s) - 1,
         \A k \in 1 .. Len(t) : t[k] = s[k + 1]
  PROVE  t = Tail(s)
  OBVIOUS

LEMMA SameSeq ==
  ASSUME NEW S, NEW s \in Seq(S), NEW t \in Seq(S), Len(t) = Len(s),
         \A k \in 1 .. Len(t) : t[k] = s[k]
  PROVE  t = s
  OBVIOUS

LEMMA SeqOfFunction ==
  ASSUME NEW S, NEW n \in Nat, NEW f \in [1 .. n -> S]
  PROVE  f \in Seq(S) /\ Len(f) = n
  OBVIOUS

(* The ring invariant, fact by fact.                                       *)
LEMMA RingLen ==
  ASSUME RingInv, NEW q \in Queues
  PROVE  len(q) <= counter[q]
  BY Zenon DEF RingInv, RingAt

(* The last TX_BUFFER_COUNT generations lie in the slots of their index.   *)
LEMMA RingWritten ==
  ASSUME RingInv, NEW q \in Queues, NEW g \in Generations,
         g < counter[q], counter[q] - g <= TX_BUFFER_COUNT
  PROVE  written[q][slot_index(g)] = g
  BY Zenon DEF RingInv, RingAt

(* The occupied slots are those of the generations not yet sent, and only  *)
(* the slot of the frame on the air is in progress.                        *)
LEMMA RingSlot ==
  ASSUME RingInv, NEW q \in Queues, NEW i \in Slots
  PROVE  /\ slot[q][i].state \in Occupied <=>
              written[q][i] # None /\ written[q][i] >= counter[q] - len(q)
         /\ slot[q][i].state = "InProgress" =>
              runner[q].at = "Transmitting" /\ runner[q].index = i
  BY Zenon DEF RingInv, RingAt

(* The frame on the air is the oldest of the queue.                        *)
LEMMA RingOnAir ==
  ASSUME RingInv, NEW q \in Queues, runner[q].at = "Transmitting"
  PROVE  /\ written[q][runner[q].index] = counter[q] - len(q)
         /\ len(q) > 0
  BY Zenon DEF RingInv, RingAt

(* The generations a queue holds.                                          *)
Window(q) == {g \in Generations : counter[q] - len(q) <= g /\ g < counter[q]}

(* A generation in the window lies in an occupied slot of its own.         *)
LEMMA WindowSlot ==
  ASSUME TypeOK, RingInv, NEW q \in Queues, NEW g \in Window(q)
  PROVE  /\ slot_index(g) \in Slots /\ written[q][slot_index(g)] = g
         /\ slot[q][slot_index(g)].state \in Occupied
         /\ slot[q][slot_index(g)] \in SlotValues
<1>1. /\ g \in Generations /\ g < counter[q] /\ counter[q] - len(q) <= g
      /\ counter[q] - g <= TX_BUFFER_COUNT /\ g # None
  BY QueueTypes DEF Window, Generations, None
<1>2. slot_index(g) \in Slots /\ written[q][slot_index(g)] = g
  BY <1>1, QueueTypes, RingWritten
<1>3. slot[q][slot_index(g)].state \in Occupied
  BY <1>1, <1>2, RingSlot
<1> QED
  BY <1>2, <1>3 DEF TypeOK

(* Its frame is a buffer.                                                  *)
LEMMA WindowFrame ==
  ASSUME TypeOK, RingInv, NEW q \in Queues, NEW g \in Window(q)
  PROVE  FrameOf(q, g) \in Buffers
<1>1. /\ slot_index(g) \in Slots
      /\ slot[q][slot_index(g)].state \in Occupied
      /\ slot[q][slot_index(g)] \in SlotValues
  BY WindowSlot
<1>2. CASE slot[q][slot_index(g)].state = "InProgress"
  <2>1. runner[q].at = "Transmitting"
    BY <1>1, <1>2, RingSlot
  <2> QED
    BY <1>2, <2>1, QueueTypes DEF FrameOf, RunnerStates
<1>3. CASE slot[q][slot_index(g)].state = "Pending"
  BY <1>1, <1>3 DEF FrameOf, SlotValues
<1> QED
  BY <1>1, <1>2, <1>3 DEF Occupied

(* The frames of a queue, as a sequence.                                   *)
LEMMA PendingIs ==
  ASSUME TypeOK, RingInv, NEW q \in Queues
  PROVE  /\ PendingFrames(q) \in Seq(Buffers)
         /\ Len(PendingFrames(q)) = len(q)
         /\ \A k \in 1 .. len(q) :
              /\ (counter[q] - len(q)) + (k - 1) \in Window(q)
              /\ PendingFrames(q)[k] = FrameOf(q, (counter[q] - len(q)) + (k - 1))
<1>1. /\ len(q) \in Nat /\ counter[q] \in 0 .. MaxCounter /\ MaxCounter \in Nat
      /\ len(q) <= counter[q]
  BY QueueTypes, RingLen
<1>2. ASSUME NEW k \in 1 .. len(q)
      PROVE  /\ (counter[q] - len(q)) + (k - 1) \in Window(q)
             /\ counter[q] - len(q) + k - 1 = (counter[q] - len(q)) + (k - 1)
  BY <1>1 DEF Window, Generations
<1>3. PendingFrames(q) \in [1 .. len(q) -> Buffers]
  BY <1>2, WindowFrame DEF PendingFrames
<1>4. PendingFrames(q) \in Seq(Buffers) /\ Len(PendingFrames(q)) = len(q)
  BY <1>1, <1>3, SeqOfFunction
<1>5. \A k \in 1 .. len(q) :
         PendingFrames(q)[k] = FrameOf(q, (counter[q] - len(q)) + (k - 1))
  BY <1>2 DEF PendingFrames
<1> QED
  BY <1>2, <1>4, <1>5

(* The same in the next state: PTL carries a lemma about states over.      *)
PendingShape ==
  \A q \in Queues :
    /\ PendingFrames(q) \in Seq(Buffers)
    /\ Len(PendingFrames(q)) = len(q)
    /\ \A k \in 1 .. len(q), g \in Generations :
         g = (counter[q] - len(q)) + (k - 1) => PendingFrames(q)[k] = FrameOf(q, g)

(* The frames of a queue are a sequence in every state of the invariant.   *)
LEMMA PendingIsShaped == TypeOK /\ RingInv => PendingShape
  BY PendingIs DEF PendingShape

(* The frame of a generation in the next state.                            *)
LEMMA FrameNext ==
  ASSUME NEW q \in Queues, NEW g \in Generations
  PROVE  FrameOf(q, g)' = IF slot'[q][slot_index(g)].state = "InProgress"
                          THEN runner'[q].frame
                          ELSE slot'[q][slot_index(g)].frame
  BY Zenon DEF FrameOf, slot_index

(* A step that keeps the window and its frames.                            *)
LEMMA PendingSame ==
  ASSUME TypeOK, RingInv, PendingShape', NEW q \in Queues,
         counter'[q] = counter[q], capacity'[q] = capacity[q],
         \A g \in Window(q) : FrameOf(q, g)' = FrameOf(q, g)
  PROVE  PendingFrames(q)' = PendingFrames(q)
<1> DEFINE f == counter[q] - len(q)
           s == PendingFrames(q)
           t == PendingFrames(q)'
<1>1. len(q)' = len(q)
  BY DEF len
<1>2. /\ t \in Seq(Buffers) /\ Len(t) = len(q)
      /\ \A k \in 1 .. len(q), g \in Generations :
           g = f + (k - 1) => t[k] = FrameOf(q, g)'
  BY <1>1 DEF PendingShape
<1>3. /\ s \in Seq(Buffers) /\ Len(s) = len(q)
      /\ \A k \in 1 .. len(q) : f + (k - 1) \in Window(q) /\ s[k] = FrameOf(q, f + (k - 1))
  BY PendingIs
<1> HIDE DEF f, s, t
<1>4. \A k \in 1 .. len(q) : t[k] = s[k]
  BY <1>2, <1>3 DEF Window
<1>5. t = s
  BY <1>2, <1>3, <1>4, SameSeq
<1> QED
  BY <1>5 DEF s, t

(* enqueue_frame appends the frame of the new generation.                  *)
LEMMA PendingEnqueue ==
  ASSUME TypeOK, RingInv, PendingShape', NEW q \in Queues, NEW b \in Buffers,
         enqueue_frame(q, b), runner'[q].frame = runner[q].frame
  PROVE  PendingFrames(q)' = Append(PendingFrames(q), b)
<1> DEFINE c == counter[q]
           n == len(q)
           s == PendingFrames(q)
           t == PendingFrames(q)'
<1>0. /\ c \in Nat /\ n \in 0 .. TX_BUFFER_COUNT - 1 /\ n <= c /\ c \in Generations
      /\ TX_BUFFER_COUNT \in Nat \ {0} /\ next_slot_index(q) \in Slots
      /\ len(q)' = n + 1 /\ counter'[q] = c + 1 /\ next_slot_index(q) = slot_index(c)
  <2>1. /\ c \in Nat /\ n \in 0 .. TX_BUFFER_COUNT /\ c <= MaxCounter /\ MaxCounter \in Nat
        /\ TX_BUFFER_COUNT \in Nat \ {0} /\ next_slot_index(q) \in Slots
        /\ capacity[q] \in 0 .. TX_BUFFER_COUNT /\ n = TX_BUFFER_COUNT - capacity[q]
    BY QueueTypes DEF len
  <2>2. n <= c
    BY RingLen, Zenon
  <2>3. /\ capacity[q] > 0 /\ counter[q] < MaxCounter
        /\ counter'[q] = c + 1 /\ capacity'[q] = capacity[q] - 1
    BY DEF enqueue_frame, TypeOK
  <2>4. len(q)' = TX_BUFFER_COUNT - capacity'[q]
    BY Zenon DEF len
  <2>5. next_slot_index(q) = slot_index(c)
    BY DEF next_slot_index, slot_index
  <2>6. c \in Generations
    BY <2>1, <2>3 DEF Generations
  <2>7. n \in 0 .. TX_BUFFER_COUNT - 1 /\ len(q)' = n + 1
    BY <2>1, <2>3, <2>4
  <2> QED
    BY <2>1, <2>2, <2>3, <2>5, <2>6, <2>7, Zenon
<1>1. \A i \in Slots : slot'[q][i] = IF i = slot_index(c)
                                     THEN [state |-> "Pending", frame |-> b]
                                     ELSE slot[q][i]
  BY <1>0 DEF enqueue_frame, TypeOK
<1>2. /\ s \in Seq(Buffers) /\ Len(s) = n
      /\ \A k \in 1 .. n : (c - n) + (k - 1) \in Window(q)
                             /\ s[k] = FrameOf(q, (c - n) + (k - 1))
  BY PendingIs, ZenonT(30)
<1>3. /\ t \in Seq(Buffers) /\ Len(t) = n + 1
      /\ \A k \in 1 .. n + 1, g \in Generations :
           g = ((c + 1) - (n + 1)) + (k - 1) => t[k] = FrameOf(q, g)'
  BY <1>0 DEF PendingShape
<1>4. ASSUME NEW g \in Window(q) PROVE FrameOf(q, g)' = FrameOf(q, g)
  <2>1. slot_index(g) \in Slots
    BY WindowSlot
  <2> DEFINE d == c - g
  <2>2. g \in Nat /\ d \in 0 .. TX_BUFFER_COUNT /\ g + d = c
        /\ d # 0 /\ d # TX_BUFFER_COUNT
    BY <1>0 DEF Window, Generations
  <2> HIDE DEF d
  <2>3. (g + d) % TX_BUFFER_COUNT # g % TX_BUFFER_COUNT
    BY <1>0, <2>2, RingDistance, Zenon
  <2>4. slot_index(g) # slot_index(c)
    BY <2>2, <2>3, ZenonT(30) DEF slot_index
  <2>5. slot'[q][slot_index(g)] = slot[q][slot_index(g)]
    BY <1>1, <2>1, <2>4
  <2>6. g \in Generations
    BY Zenon DEF Window
  <2> QED
    BY <2>5, <2>6, FrameNext, Zenon DEF FrameOf
<1>5. \A g \in Generations : g = c => FrameOf(q, g)' = b
  <2>1. slot'[q][slot_index(c)] = [state |-> "Pending", frame |-> b]
    BY <1>0, <1>1
  <2> QED
    BY <2>1, FrameNext
<1> HIDE DEF c, n, s, t
<1>6. \A k \in 1 .. n : t[k] = s[k]
  <2> SUFFICES ASSUME NEW k \in 1 .. n PROVE t[k] = s[k]
    OBVIOUS
  <2> DEFINE g == (c - n) + (k - 1)
  <2>1. g \in Window(q) /\ s[k] = FrameOf(q, g) /\ g \in Generations
    BY <1>2 DEF Window
  <2>2. k \in 1 .. n + 1 /\ g = ((c + 1) - (n + 1)) + (k - 1)
    BY <1>0
  <2> HIDE DEF g
  <2> QED
    BY <2>1, <2>2, <1>3, <1>4
<1>7. t[n + 1] = b
  <2>1. n + 1 \in 1 .. n + 1 /\ c = ((c + 1) - (n + 1)) + ((n + 1) - 1)
    BY <1>0
  <2> QED
    BY <2>1, <1>0, <1>3, <1>5, ZenonT(30)
<1>8. t = Append(s, b)
  BY <1>2, <1>3, <1>6, <1>7, AppendIs
<1> QED
  BY <1>8 DEF s, t

(* finish takes the oldest generation off the queue.                       *)
LEMMA PendingFinish ==
  ASSUME TypeOK, RingInv, PendingShape', NEW q \in Queues, NEW x,
         runner[q].at = "Transmitting", counter'[q] = counter[q],
         capacity'[q] = capacity[q] + 1,
         slot'[q] = [slot[q] EXCEPT ![runner[q].index] = x]
  PROVE  PendingFrames(q)' = Tail(PendingFrames(q))
<1> DEFINE c == counter[q]
           n == len(q)
           s == PendingFrames(q)
           t == PendingFrames(q)'
           i0 == runner[q].index
<1>0. /\ c \in Nat /\ n \in Nat \ {0} /\ n <= c /\ i0 \in Slots
      /\ len(q)' = n - 1 /\ counter'[q] = c /\ written[q][i0] = c - n
  <2>1. c \in Nat /\ n \in Nat /\ n = TX_BUFFER_COUNT - capacity[q]
        /\ TX_BUFFER_COUNT \in Nat /\ capacity[q] \in Nat
    BY QueueTypes DEF len
  <2>2. n <= c /\ n > 0 /\ written[q][i0] = c - n
    BY RingLen, RingOnAir, Zenon
  <2>3. i0 \in Slots
    BY QueueTypes DEF RunnerStates
  <2>4. len(q)' = TX_BUFFER_COUNT - capacity'[q]
    BY Zenon DEF len
  <2> QED
    BY <2>1, <2>2, <2>3, <2>4
<1>1. \A i \in Slots : i # i0 => slot'[q][i] = slot[q][i] /\ slot[q][i].state # "InProgress"
  <2>1. slot[q] \in [Slots -> SlotValues]
    BY Zenon DEF TypeOK
  <2> QED
    BY <2>1, <1>0, RingSlot
<1>2. /\ s \in Seq(Buffers) /\ Len(s) = n
      /\ \A k \in 1 .. n : (c - n) + (k - 1) \in Window(q)
                             /\ s[k] = FrameOf(q, (c - n) + (k - 1))
  BY PendingIs, Zenon
<1>3. /\ t \in Seq(Buffers) /\ Len(t) = n - 1
      /\ \A k \in 1 .. n - 1, g \in Generations :
           g = (c - (n - 1)) + (k - 1) => t[k] = FrameOf(q, g)'
  BY <1>0 DEF PendingShape
<1>4. ASSUME NEW g \in Window(q), g # c - n PROVE FrameOf(q, g)' = FrameOf(q, g)
  <2>1. slot_index(g) \in Slots /\ slot_index(g) # i0
    BY <1>0, <1>4, WindowSlot
  <2>2. g \in Generations
    BY Zenon DEF Window
  <2> QED
    BY <1>1, <2>1, <2>2, FrameNext, Zenon DEF FrameOf
<1> HIDE DEF c, n, s, t, i0
<1>5. \A k \in 1 .. n - 1 : t[k] = s[k + 1]
  <2> SUFFICES ASSUME NEW k \in 1 .. n - 1 PROVE t[k] = s[k + 1]
    OBVIOUS
  <2> DEFINE g == (c - n) + ((k + 1) - 1)
  <2>1. k + 1 \in 1 .. n
    BY <1>0
  <2>2. g \in Window(q) /\ s[k + 1] = FrameOf(q, g) /\ g \in Generations
    BY <1>2, <2>1 DEF Window
  <2>3. g = (c - (n - 1)) + (k - 1) /\ g # c - n
    BY <1>0
  <2> HIDE DEF g
  <2> QED
    BY <2>2, <2>3, <1>3, <1>4
<1>6. s # <<>>
  BY <1>0, <1>2
<1>7. t = Tail(s)
  BY <1>2, <1>3, <1>5, <1>6, TailIs
<1> QED
  BY <1>7 DEF s, t

(* try_receive hands the oldest frame to the radio.                        *)
LEMMA PendingReceive ==
  ASSUME TypeOK, RingInv, PendingShape', NEW q \in Queues, try_receive(q)
  PROVE  /\ PendingFrames(q)' = PendingFrames(q)
         /\ PendingFrames(q) # <<>>
         /\ runner'[q].frame = Head(PendingFrames(q))
<1> DEFINE i0 == front_index(q)
           f == counter[q] - len(q)
           s == PendingFrames(q)
<1>1. /\ i0 \in Slots /\ slot[q][i0].state = "Pending" /\ i0 = slot_index(f)
  BY RingReceive, FrontIndex, ZenonT(30) DEF try_receive
<1>2. /\ \A i \in Slots : slot'[q][i] = IF i = i0
                                        THEN [state |-> "InProgress", frame |-> NoBuffer]
                                        ELSE slot[q][i]
      /\ runner'[q].frame = slot[q][i0].frame
      /\ runner[q].at = "Runnable"
      /\ counter' = counter /\ capacity' = capacity
  BY <1>1 DEF try_receive, TypeOK
<1>3. \A i \in Slots : slot[q][i].state # "InProgress"
  BY <1>2, RingSlot
<1>4. len(q) \in Nat \ {0}
  BY QueueTypes DEF try_receive, is_empty, len
<1> HIDE DEF i0
<1>5. ASSUME NEW g \in Window(q) PROVE FrameOf(q, g)' = FrameOf(q, g)
  <2>1. slot_index(g) \in Slots /\ g \in Generations
    BY WindowSlot DEF Window
  <2>2. CASE slot_index(g) = i0
    <3>1. slot'[q][i0].state = "InProgress"
      BY <1>1, <1>2
    <3> QED
      BY <2>1, <2>2, <3>1, <1>1, <1>2, FrameNext, ZenonT(30) DEF FrameOf
  <2>3. CASE slot_index(g) # i0
    <3>1. slot'[q][slot_index(g)] = slot[q][slot_index(g)]
      BY <1>2, <2>1, <2>3
    <3> QED
      BY <2>1, <3>1, <1>3, FrameNext, ZenonT(30) DEF FrameOf
  <2> QED
    BY <2>2, <2>3
<1>6. PendingFrames(q)' = PendingFrames(q)
  BY <1>2, <1>5, PendingSame
<1>7. /\ s \in Seq(Buffers) /\ Len(s) = len(q)
      /\ s[1] = FrameOf(q, f)
  <2>1. 1 \in 1 .. len(q) /\ f + (1 - 1) = f
    BY <1>4, QueueTypes
  <2> QED
    BY <2>1, PendingIs
<1>8. FrameOf(q, f) = slot[q][i0].frame
  BY <1>1 DEF FrameOf
<1> HIDE DEF s, f
<1>9. s # <<>> /\ Head(s) = s[1]
  BY <1>4, <1>7
<1> QED
  BY <1>2, <1>6, <1>7, <1>8, <1>9 DEF s

(* A step that touches no occupied slot and no frame on the air is not     *)
(* visible in the FIFO.                                                    *)
LEMMA FifoStutter ==
  ASSUME TypeOK, RingInv, PendingShape', counter' = counter, capacity' = capacity,
         \A p \in Queues : runner'[p].frame = runner[p].frame,
         \A p \in Queues, i \in Slots :
           slot[p][i].state \in Occupied => slot'[p][i] = slot[p][i]
  PROVE  UNCHANGED Fifo!vars
<1>1. ASSUME NEW p \in Queues PROVE PendingFrames(p)' = PendingFrames(p)
  <2>1. ASSUME NEW g \in Window(p) PROVE FrameOf(p, g)' = FrameOf(p, g)
    <3>1. g \in Generations /\ slot'[p][slot_index(g)] = slot[p][slot_index(g)]
      BY WindowSlot DEF Window
    <3> QED
      BY <3>1, FrameNext, ZenonT(30) DEF FrameOf
  <2> QED
    BY <2>1, PendingSame
<1> QED
  BY <1>1, ZenonT(30) DEF Fifo!vars, FifoPending, FifoAir

(* A queue whose slots, counters and runner a step leaves alone.           *)
LEMMA PendingElsewhere ==
  ASSUME TypeOK, RingInv, PendingShape', NEW p \in Queues,
         counter'[p] = counter[p], capacity'[p] = capacity[p],
         slot'[p] = slot[p], runner'[p].frame = runner[p].frame
  PROVE  PendingFrames(p)' = PendingFrames(p)
<1>1. \A g \in Window(p) : FrameOf(p, g)' = FrameOf(p, g)
  BY FrameNext, Zenon DEF FrameOf, Window
<1> QED
  BY <1>1, PendingSame

(* A frame that is queued is neither in the pool nor owned by a caller.    *)
LEMMA QueuedNotFree ==
  ASSUME TypeOK, RingInv, OwnerInv, NEW q \in Queues, NEW b \in callers
  PROVE  b \notin Fifo!FramesOf(q)
<1>1. ASSUME NEW g \in Window(q) PROVE FrameOf(q, g) # b
  BY WindowSlot DEF FrameOf, OwnerInv, FreeApart
<1>2. \A k \in 1 .. Len(PendingFrames(q)) : PendingFrames(q)[k] # b
  BY <1>1, PendingIs
<1> QED
  BY <1>2 DEF Fifo!FramesOf, FifoPending

(* enqueue_frame is Enqueue, ...                                           *)
LEMMA FifoEnqueue ==
  ASSUME TypeOK, RingInv, OwnerInv, PendingShape', NEW q \in Queues,
         NEW b \in Buffers, enqueue_frame(q, b)
  PROVE  Fifo!Enqueue(q, b)
<1>1. \A p \in Queues : runner'[p].frame = runner[p].frame
  <2> SUFFICES ASSUME NEW p \in Queues PROVE runner'[p].frame = runner[p].frame
    OBVIOUS
  <2>1. runner[p].at = "Parked" => runner[p].frame = NoBuffer
    BY QueueTypes DEF RunnerStates
  <2>2. runner'[p] = IF p = q /\ is_empty(q) THEN WakeRunner(runner[p]) ELSE runner[p]
    BY DEF enqueue_frame, TypeOK
  <2> QED
    BY <2>1, <2>2 DEF WakeRunner, RunnableRunner
<1>2. PendingFrames(q)' = Append(PendingFrames(q), b)
  BY <1>1, PendingEnqueue
<1>3. ASSUME NEW p \in Queues, p # q PROVE PendingFrames(p)' = PendingFrames(p)
  <2>1. counter'[p] = counter[p] /\ capacity'[p] = capacity[p] /\ slot'[p] = slot[p]
    BY <1>3 DEF enqueue_frame, TypeOK
  <2> QED
    BY <1>1, <2>1, PendingElsewhere
<1>4. FifoPending' = [FifoPending EXCEPT ![q] = Append(@, b)]
  BY <1>2, <1>3, ZenonT(30) DEF FifoPending
<1>5. FifoAir' = FifoAir
  BY <1>1 DEF FifoAir
<1>6. Len(FifoPending[q]) < TX_BUFFER_COUNT
  <2>1. FifoPending[q] = PendingFrames(q) /\ Len(PendingFrames(q)) = len(q)
    BY PendingIs DEF FifoPending
  <2> QED
    BY <2>1, QueueTypes DEF enqueue_frame, len
<1>7. \A p \in Queues : b \notin Fifo!FramesOf(p)
  BY QueuedNotFree DEF enqueue_frame
<1> QED
  BY <1>4, <1>5, <1>6, <1>7 DEF Fifo!Enqueue

(* ... try_receive is Start, ...                                           *)
LEMMA FifoStart ==
  ASSUME TypeOK, RingInv, PendingShape', NEW q \in Queues, try_receive(q)
  PROVE  Fifo!Start(q)
<1>1. /\ PendingFrames(q)' = PendingFrames(q)
      /\ PendingFrames(q) # <<>>
      /\ runner'[q].frame = Head(PendingFrames(q))
  BY PendingReceive
<1>2. ASSUME NEW p \in Queues, p # q
      PROVE  PendingFrames(p)' = PendingFrames(p) /\ runner'[p] = runner[p]
  <2>1. /\ counter'[p] = counter[p] /\ capacity'[p] = capacity[p]
        /\ slot'[p] = slot[p] /\ runner'[p] = runner[p]
    BY <1>2 DEF try_receive, TypeOK
  <2> QED
    BY <2>1, PendingElsewhere
<1>3. runner[q].frame = NoBuffer
  BY QueueTypes DEF try_receive, RunnerStates
<1>4. FifoPending' = FifoPending
  BY <1>1, <1>2, ZenonT(30) DEF FifoPending
<1>5. FifoPending[q] = PendingFrames(q) /\ FifoAir[q] = NoBuffer
  BY <1>3 DEF FifoPending, FifoAir
<1>6. FifoAir' = [FifoAir EXCEPT ![q] = Head(PendingFrames(q))]
  BY <1>1, <1>2, ZenonT(30) DEF FifoAir
<1> QED
  BY <1>1, <1>4, <1>5, <1>6 DEF Fifo!Start

(* ... and the end of transmissions is Finish.                             *)
LEMMA FifoFinish ==
  ASSUME TypeOK, RingInv, PendingShape', NEW S \in SUBSET Queues,
         \A q \in S :
           /\ runner[q].at = "Transmitting" /\ runner'[q].frame = NoBuffer
           /\ counter'[q] = counter[q] /\ capacity'[q] = capacity[q] + 1
           /\ \E x : slot'[q] = [slot[q] EXCEPT ![runner[q].index] = x],
         \A q \in Queues \ S :
           /\ counter'[q] = counter[q] /\ capacity'[q] = capacity[q]
           /\ slot'[q] = slot[q] /\ runner'[q].frame = runner[q].frame
  PROVE  Fifo!Finish(S)
<1>1. ASSUME NEW q \in S PROVE PendingFrames(q)' = Tail(PendingFrames(q))
  <2>1. PICK x : slot'[q] = [slot[q] EXCEPT ![runner[q].index] = x]
    BY ZenonT(30)
  <2> QED
    BY <2>1, PendingFinish, ZenonT(30)
<1>2. ASSUME NEW q \in Queues \ S PROVE PendingFrames(q)' = PendingFrames(q)
  BY PendingElsewhere
<1>3. ASSUME NEW q \in S PROVE runner[q].frame \in Buffers
  BY QueueTypes DEF RunnerStates
<1>4. \A q \in S : FifoAir[q] # NoBuffer
  BY <1>3, TxQueueAssumption DEF FifoAir
<1>5. FifoPending' = [q \in Queues |-> IF q \in S THEN Tail(FifoPending[q])
                                                  ELSE FifoPending[q]]
  BY <1>1, <1>2, ZenonT(30) DEF FifoPending
<1>6. FifoAir' = [q \in Queues |-> IF q \in S THEN NoBuffer ELSE FifoAir[q]]
  BY Zenon DEF FifoAir
<1> QED
  BY <1>4, <1>5, <1>6 DEF Fifo!Finish

(* Every step of the queues is a step of the FIFO or invisible in it.      *)
LEMMA FifoNext ==
  ASSUME TypeOK, RingInv, OwnerInv, Next
  PROVE  [Fifo!Next]_(Fifo!vars)
<1>0. PendingShape'
  <2>1. TypeOK' /\ RingInv'
    BY TypeNext, RingNext
  <2> QED
    BY <2>1, PendingIsShaped, PTL
<1>t. /\ \A p \in Queues : runner[p] \in RunnerStates
      /\ \A p \in Queues : slot[p] \in [Slots -> SlotValues]
  BY DEF TypeOK
<1>1. ASSUME NEW b \in Buffers, alloc(b) PROVE UNCHANGED Fifo!vars
  BY <1>0, <1>1, FifoStutter DEF alloc
<1>2. ASSUME NEW b \in Buffers, drop_buffer(b) PROVE UNCHANGED Fifo!vars
  BY <1>0, <1>2, FifoStutter DEF drop_buffer
<1>3. ASSUME NEW q \in Queues, NEW b \in Buffers, enqueue_frame(q, b)
      PROVE  Fifo!Enqueue(q, b)
  BY <1>0, <1>3, FifoEnqueue
<1>4. ASSUME NEW q \in Queues, NEW g \in Generations, poll_completion(q, g)
      PROVE  UNCHANGED Fifo!vars
  <2>1. \A p \in Queues, i \in Slots :
          slot[p][i].state \in Occupied => slot'[p][i] = slot[p][i]
    <3>1. CASE slot' = slot
      BY <3>1
    <3>2. CASE /\ slot[q][slot_index(g)].state = "ReturnDataAvailable"
               /\ slot' = [slot EXCEPT ![q][slot_index(g)] = EmptySlot]
      BY <1>t, <3>2 DEF Occupied
    <3> QED
      BY <1>4, <3>1, <3>2 DEF poll_completion
  <2> QED
    BY <1>0, <1>4, <2>1, FifoStutter DEF poll_completion
<1>5. ASSUME NEW q \in Queues, NEW g \in Generations, drop_handle(q, g)
      PROVE  UNCHANGED Fifo!vars
  <2>1. \A p \in Queues, i \in Slots :
          slot[p][i].state \in Occupied => slot'[p][i] = slot[p][i]
    <3>1. CASE slot' = slot
      BY <3>1
    <3>2. CASE /\ slot[q][slot_index(g)].state = "ReturnDataAvailable"
               /\ slot' = [slot EXCEPT ![q][slot_index(g)] = EmptySlot]
      BY <1>t, <3>2 DEF Occupied
    <3> QED
      BY <1>5, <3>1, <3>2 DEF drop_handle
  <2> QED
    BY <1>0, <1>5, <2>1, FifoStutter DEF drop_handle
<1>6. ASSUME NEW q \in Queues, wait_queue_not_empty(q) PROVE UNCHANGED Fifo!vars
  <2>1. \A p \in Queues : runner'[p].frame = runner[p].frame
    BY <1>t, <1>6 DEF wait_queue_not_empty, RunnerStates, ParkedRunner, TypeOK
  <2>2. counter' = counter /\ capacity' = capacity /\ slot' = slot
    BY <1>6 DEF wait_queue_not_empty
  <2> QED
    BY <1>0, <2>1, <2>2, FifoStutter
<1>7. ASSUME NEW q \in Queues, try_receive(q) PROVE Fifo!Start(q)
  BY <1>0, <1>7, FifoStart
<1>8. ASSUME NEW q \in Queues, transmit(q) PROVE Fifo!Finish({q})
  <2>1. /\ runner[q].at = "Transmitting" /\ runner'[q].frame = NoBuffer
        /\ counter'[q] = counter[q] /\ capacity'[q] = capacity[q] + 1
        /\ \E x : slot'[q] = [slot[q] EXCEPT ![runner[q].index] = x]
    BY <1>8, ZenonT(30) DEF transmit, TypeOK, RunnableRunner
  <2>2. \A p \in Queues \ {q} :
          /\ counter'[p] = counter[p] /\ capacity'[p] = capacity[p]
          /\ slot'[p] = slot[p] /\ runner'[p].frame = runner[p].frame
    BY <1>8 DEF transmit, TypeOK
  <2>3. {q} \in SUBSET Queues
    OBVIOUS
  <2>4. \A p \in {q} : p = q
    OBVIOUS
  <2> QED
    BY <1>0, <2>1, <2>2, <2>3, <2>4, FifoFinish, ZenonT(30)
<1>9. ASSUME drop_runner PROVE \E S \in SUBSET Queues : Fifo!Finish(S)
  <2> DEFINE S == {q \in Queues : runner[q].at = "Transmitting"}
  <2>1. ASSUME NEW q \in S
        PROVE  /\ runner[q].at = "Transmitting" /\ runner'[q].frame = NoBuffer
               /\ counter'[q] = counter[q] /\ capacity'[q] = capacity[q] + 1
               /\ \E x : slot'[q] = [slot[q] EXCEPT ![runner[q].index] = x]
    BY <1>9, ZenonT(30) DEF drop_runner, StoppedRunner
  <2>2. ASSUME NEW p \in Queues \ S
        PROVE  /\ counter'[p] = counter[p] /\ capacity'[p] = capacity[p]
               /\ slot'[p] = slot[p] /\ runner'[p].frame = runner[p].frame
    BY <1>9, <1>t DEF drop_runner, StoppedRunner, RunnerStates
  <2>3. S \in SUBSET Queues
    OBVIOUS
  <2> HIDE DEF S
  <2>4. Fifo!Finish(S)
    BY <1>0, <2>1, <2>2, <2>3, FifoFinish, ZenonT(30)
  <2> QED
    BY <2>3, <2>4
<1>10. ASSUME run PROVE UNCHANGED Fifo!vars
  <2>1. \A p \in Queues : runner'[p].frame = runner[p].frame
    BY <1>t, <1>10 DEF run, RunnableRunner, RunnerStates
  <2>2. counter' = counter /\ capacity' = capacity /\ slot' = slot
    BY <1>10 DEF run
  <2> QED
    BY <1>0, <2>1, <2>2, FifoStutter
<1>11. \A q \in Queues : {q} \in SUBSET Queues
  OBVIOUS
<1> QED
  BY <1>1, <1>2, <1>3, <1>4, <1>5, <1>6, <1>7, <1>8, <1>9, <1>10, <1>11, ZenonT(30)
  DEF Next, Fifo!Next

(* The ring of slots with its wrapping counter, its generations and its    *)
(* cancelled callers implements the bounded FIFO of TxFifo.                *)
THEOREM RingImplementsFifo == Spec => ImplementsFifo
<1>1. Init => Fifo!Init
  <2> SUFFICES ASSUME Init PROVE Fifo!Init
    OBVIOUS
  <2>1. TypeOK /\ RingInv
    BY TypeRingInit
  <2>2. ASSUME NEW q \in Queues PROVE PendingFrames(q) = <<>>
    <3>1. len(q) = 0
      BY TxQueueAssumption DEF Init, len
    <3> QED
      BY <2>1, <3>1, PendingIs
  <2>3. \A q \in Queues : runner[q].frame = NoBuffer
    BY DEF Init, RunnableRunner
  <2> QED
    BY <2>2, <2>3, Zenon DEF Fifo!Init, FifoPending, FifoAir
<1>2. TypeOK /\ RingInv /\ OwnerInv /\ [Next]_vars => [Fifo!Next]_(Fifo!vars)
  <2>1. ASSUME UNCHANGED vars PROVE UNCHANGED Fifo!vars
    BY <2>1, Zenon DEF vars, Fifo!vars, FifoPending, FifoAir, PendingFrames, FrameOf,
                       len, slot_index
  <2> QED
    BY <2>1, FifoNext
<1> QED
  BY <1>1, <1>2, OwnerCorrect, PTL DEF Spec, ImplementsFifo, Fifo!Spec

=============================================================================

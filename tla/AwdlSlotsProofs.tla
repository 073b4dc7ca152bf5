-------------------------- MODULE AwdlSlotsProofs --------------------------
(* Proofs about AwdlSlots: what is known of the clock of a peer is right   *)
(* but for its lateness, MSDUs that wait for a slot are sent in that slot, *)
(* and MIFs keep coming, for every epoch, channel sequence, jitter, delta  *)
(* and duration.  All rest on lemmas about the arithmetic of                   *)
(* SynchronizationState, which split a time into quotients and remainders. *)
EXTENDS AwdlSlots, TLAPS

(* The provers of a leaf that names none, with time for a slow machine.    *)
USE SMTT(30), ZenonT(30), SMTT(60)

-----------------------------------------------------------------------------
(* Quotient and remainder for the divisors of the code.                    *)

(* By the number of window numbers.                                        *)
LEMMA Split65536 ==
  ASSUME NEW x \in Int
  PROVE  /\ x \div 65536 \in Int /\ x % 65536 \in Int /\ 0 <= x % 65536 /\ x % 65536 < 65536
         /\ x = 65536 * (x \div 65536) + (x % 65536)
  BY SMT

(* By the duration of an availability window.                              *)
LEMMA Split16384 ==
  ASSUME NEW x \in Int
  PROVE  /\ x \div 16384 \in Int /\ x % 16384 \in Int /\ 0 <= x % 16384 /\ x % 16384 < 16384
         /\ x = 16384 * (x \div 16384) + (x % 16384)
  BY SMT

(* By the duration of a time unit, and as many channel sequences as there  *)
(* are before the window number wraps.                                     *)
LEMMA Split1024 ==
  ASSUME NEW x \in Int
  PROVE  /\ x \div 1024 \in Int /\ x % 1024 \in Int /\ 0 <= x % 1024 /\ x % 1024 < 1024
         /\ x = 1024 * (x \div 1024) + (x % 1024)
  BY SMT

(* By the duration of a channel sequence.                                  *)
LEMMA Split1048576 ==
  ASSUME NEW x \in Int
  PROVE  /\ x \div 1048576 \in Int /\ x % 1048576 \in Int /\ 0 <= x % 1048576 /\ x % 1048576 < 1048576
         /\ x = 1048576 * (x \div 1048576) + (x % 1048576)
  BY SMT

(* The remainder by the duration of a channel sequence is unique.          *)
LEMMA Remainder1048576 ==
  ASSUME NEW k \in Int, NEW v \in Int, 0 <= v, v < 1048576
  PROVE  (1048576 * k + v) % 1048576 = v
  BY SMTT(20)

(* So is the remainder by the duration of a slot.                          *)
LEMMA Remainder65536 ==
  ASSUME NEW k \in Int, NEW v \in Int, 0 <= v, v < 65536
  PROVE  (65536 * k + v) % 65536 = v
  BY SMTT(20)

(* And the quotient by the duration of an availability window.             *)
LEMMA Quotient16384 ==
  ASSUME NEW k \in Int, NEW v \in Int, 0 <= v, v < 16384
  PROVE  (16384 * k + v) \div 16384 = k
  BY SMTT(20)

-----------------------------------------------------------------------------
(* SynchronizationState.                                                   *)

(* What the bound on the waits means for the lateness of a clock.          *)
LEMMA LatenessBound ==
  /\ MaxTxDelta \in Int /\ 0 <= MaxTxDelta /\ MaxTxDelta <= 7168
  /\ Lateness \in Int /\ Lateness = 1024 + 2 * MaxTxDelta
  /\ \A x \in TxDeltas : x \in Int /\ 0 <= x /\ x <= MaxTxDelta
  BY SlotsAssumption, SMTT(30) DEF Lateness, TU

(* What is left when recover_tsf_epoch subtracts windows and time units    *)
(* and adds the delta, for a frame built a delta before it leaves at t.    *)
LEMMA Recovery ==
  ASSUME NEW t \in Int, NEW e \in Int, NEW x \in Int, NEW q \in Int, NEW w \in Int,
         NEW a \in Int, NEW b \in Int, NEW u \in Int, NEW v \in Int,
         (t - x) - e = 16384 * q + w, q = 65536 * a + b, w = 1024 * u + v
  PROVE  /\ t - (1024 * (16 * b + u) - x) \in Int
         /\ (t - (1024 * (16 * b + u) - x)) - e = 1048576 * (1024 * a) + (v + 2 * x)
  BY SMTT(20)

(* The epoch that recover_tsf_epoch computes from the window number and    *)
(* the part of the window that has passed is congruent, in a channel       *)
(* sequence, to the epoch of the sender plus twice the delta and less than *)
(* a time unit.                                                            *)
LEMMA RecoveredEpoch ==
  ASSUME NEW e \in Int, NEW t \in Int, NEW x \in TxDeltas
  PROVE  LET d == (t - x) - e
             r == recover_tsf_epoch(aw_seq_number(d), remaining_aw_length(d), x, t)
         IN r \in Int /\ (r - e) % CHANNEL_SEQUENCE_DURATION < Lateness
<1> DEFINE d == (t - x) - e
<1>1. /\ x \in Int /\ 0 <= x /\ 1024 + 2 * x <= Lateness
      /\ Lateness \in Int /\ Lateness < 1048576 /\ d \in Int
  BY LatenessBound, SMT
<1> HIDE DEF d
<1>2. PICK q \in Int, w \in Int :
        q = d \div 16384 /\ w = d % 16384 /\ d = 16384 * q + w
  BY <1>1, Split16384, SMT
<1>3. PICK a \in Int, b \in Int : b = q % 65536 /\ q = 65536 * a + b
  BY Split65536, SMT
<1>4. PICK u \in Int, v \in Int : u = w \div 1024 /\ 0 <= v /\ v < 1024 /\ w = 1024 * u + v
  BY Split1024, SMT
<1> DEFINE r == t - (1024 * (16 * b + u) - x)
<1>5. r \in Int /\ r - e = 1048576 * (1024 * a) + (v + 2 * x)
  BY <1>1, <1>2, <1>3, <1>4, Recovery, SMT DEF d
<1>6. /\ 1024 * a \in Int /\ v + 2 * x \in Int /\ 0 <= v + 2 * x
      /\ v + 2 * x < Lateness /\ v + 2 * x < 1048576
  <2>1. v \in Int /\ 0 <= v /\ v < 1024
    BY <1>4, SMT
  <2> QED
    BY <1>1, <2>1, SMTT(30)
<1>7. (r - e) % 1048576 = v + 2 * x
  <2> HIDE DEF r
  <2> QED
    BY <1>5, <1>6, Remainder1048576, SMTT(30)
<1>8. r = recover_tsf_epoch(aw_seq_number(d), remaining_aw_length(d), x, t)
  BY <1>2, <1>3, <1>4, SMT
  DEF recover_tsf_epoch, aw_seq_number, remaining_aw_length, AW_DURATION, TU
<1> HIDE DEF r
<1> QED
  BY <1>5, <1>6, <1>7, <1>8, SMT DEF CHANNEL_SEQUENCE_DURATION, d

(* The time from the start of a slot to the end of its first window is in  *)
(* that slot, in every channel sequence, although the window number wraps. *)
LEMMA InSlot ==
  ASSUME NEW k \in Int, NEW s \in SlotIndices,
         NEW x \in Int, 0 <= x, x < 16384
  PROVE  current_slot_index(1048576 * k + 65536 * s + x) = s
<1>1. s \in Int /\ 0 <= s /\ s < 16
  BY SMT DEF SlotIndices
<1>2. PICK m \in Int, n \in Int :
        m = k \div 1024 /\ n = k % 1024 /\ 0 <= n /\ n < 1024 /\ k = 1024 * m + n
  BY Split1024, SMTT(20)
<1>3. 64 * k + 4 * s \in Int /\ 1048576 * k + 65536 * s + x = 16384 * (64 * k + 4 * s) + x
  BY SMT, <1>1
<1>4. (1048576 * k + 65536 * s + x) \div 16384 = 64 * k + 4 * s
  BY <1>3, Quotient16384, SMTT(20)
<1>5. (64 * k + 4 * s) % 65536 = 64 * n + 4 * s
  BY SMTT(20), <1>1, <1>2
<1>6. (64 * n + 4 * s) \div 4 = 16 * n + s
  BY SMT, <1>1, <1>2
<1>7. (16 * n + s) % 16 = s
  BY SMT, <1>1, <1>2
<1> QED
  BY SMT, <1>4, <1>5, <1>6, <1>7 DEF current_slot_index, aw_seq_number, AW_DURATION

(* A frame sent 110 microseconds after slot_start_timestamp, on a clock    *)
(* that follows the one that shows the slots, is sent in that slot, and    *)
(* not before now: the subtraction does not fall back to now after the first   *)
(* channel sequence since boot, and a slot that is over is put off.        *)
LEMMA SlotStart ==
  ASSUME now \in Int, 1048576 <= now, NEW e \in Int, NEW p \in Int, NEW s \in SlotIndices,
         (e - p) % CHANNEL_SEQUENCE_DURATION < Lateness
  PROVE  /\ slot_start_timestamp(e, s, 0) + 110 \in Int
         /\ now <= slot_start_timestamp(e, s, 0) + 110
         /\ current_slot_index((slot_start_timestamp(e, s, 0) + 110) - p) = s
<1>1. s \in Int /\ 0 <= s /\ s < 16
  BY SMT DEF SlotIndices
<1>2. now - e \in Int /\ e - p \in Int
  BY SMT
<1>3. PICK k \in Int, elapsed \in Int :
        /\ k = (now - e) \div 1048576 /\ elapsed = (now - e) % 1048576
        /\ 0 <= elapsed /\ elapsed < 1048576 /\ now - e = 1048576 * k + elapsed
  BY <1>2, Split1048576, SMT
<1>4. PICK l \in Int, v \in Int :
        /\ l = (e - p) \div 1048576 /\ v = (e - p) % 1048576
        /\ 0 <= v /\ e - p = 1048576 * l + v
  BY <1>2, Split1048576, SMT
<1>5. v < 15360
  BY <1>4, LatenessBound, SMT DEF CHANNEL_SEQUENCE_DURATION
<1> DEFINE j == IF elapsed > 65536 * s THEN 1 ELSE 0
           u == now - elapsed + 65536 * s + 1048576 * j + 110
<1>6. j \in Int /\ u \in Int /\ now <= u
  BY <1>1, <1>3, SMT
<1>7. u = slot_start_timestamp(e, s, 0) + 110
  BY <1>1, <1>3, SMT DEF slot_start_timestamp, CHANNEL_SEQUENCE_DURATION, SLOT_DURATION
<1>8. /\ k + l + j \in Int /\ 110 + v \in Int /\ 0 <= 110 + v /\ 110 + v < 16384
      /\ u - p = 1048576 * (k + l + j) + 65536 * s + (110 + v)
  <2> HIDE DEF j
  <2> QED
    BY <1>1, <1>3, <1>4, <1>5, <1>6, SMT
<1> HIDE DEF u, j
<1>9. current_slot_index(u - p) = s
  BY <1>8, InSlot, SMT
<1> QED
  BY <1>6, <1>7, <1>9, SMT

-----------------------------------------------------------------------------
(* The inductive invariant: what is cached of the peer is its clock, and   *)
(* the time an MSDU waits for has not passed and is in its slot.           *)
SlotInv ==
  /\ now \in Int /\ Start <= now
  /\ peer.epoch \in Int /\ epoch \in Int
  /\ sync # None => sync \in Int /\ Follows(sync)
  /\ msdu # None =>
       /\ msdu.until \in Int /\ now <= msdu.until
       /\ msdu.to = "Peer" => current_slot_index(msdu.until - peer.epoch) \in common_slots
       /\ msdu.to = "Group" => current_slot_index(msdu.until - peer.epoch) = 9

(* It holds when a session starts, with nothing cached and nothing queued. *)
LEMMA SlotInvInit == Init => SlotInv
<1> SUFFICES ASSUME Init PROVE SlotInv
  OBVIOUS
<1>1. now = Start /\ epoch = Start /\ sync = None /\ msdu = None
  BY SMT DEF Init
<1>2. peer.epoch \in Int
  <2>1. peer \in [epoch : Epochs, sequence : Sequences]
    BY SMT DEF Init
  <2>2. peer.epoch \in Epochs
    BY <2>1
  <2> QED
    BY <2>2, SlotsAssumption, Zenon
<1>3. Start \in Int /\ Start <= Start
  BY SlotsAssumption, SMT
<1> QED
  BY <1>1, <1>2, <1>3, SMT DEF SlotInv

(* A frame of the peer replaces its clock by one that is as good.          *)
LEMMA PeerSendsKeepsInv == SlotInv /\ peer_sends => SlotInv'
<1> SUFFICES ASSUME SlotInv, peer_sends PROVE SlotInv'
  OBVIOUS
<1>1. now \in Int /\ peer.epoch \in Int /\ now' = now /\ peer' = peer /\ msdu' = msdu
  BY DEF SlotInv, peer_sends
<1>2. (sync' # None => sync' \in Int /\ Follows(sync)') /\ epoch' \in Int
  <2>1. ASSUME NEW x \in TxDeltas, process_action_frame(x)
        PROVE  (sync' # None => sync' \in Int /\ Follows(sync)') /\ epoch' \in Int
    <3> DEFINE d == (now - x) - peer.epoch
               r == recover_tsf_epoch(aw_seq_number(d), remaining_aw_length(d), x, now)
    <3>1. r \in Int /\ (r - peer.epoch) % CHANNEL_SEQUENCE_DURATION < Lateness
      BY <1>1, RecoveredEpoch, Zenon
    <3>2. sync' = r
      BY <2>1, Zenon DEF process_action_frame
    <3> HIDE DEF r
    <3> QED
      BY <3>1, <3>2, <2>1, <1>1, Zenon DEF process_action_frame, Follows, SlotInv
  <2>2. CASE UNCHANGED <<sync, epoch>>
    BY <2>2, <1>1, Zenon DEF Follows, SlotInv
  <2> QED
    BY <2>1, <2>2 DEF peer_sends
<1> QED
  BY <1>1, <1>2, SMT DEF SlotInv, common_slots

(* An MSDU that begins to wait does so for a time in its slot.             *)
LEMMA GetCommonSlotKeepsInv == SlotInv /\ get_common_slot_for_peer => SlotInv'
<1> SUFFICES ASSUME SlotInv, get_common_slot_for_peer PROVE SlotInv'
  OBVIOUS
<1>1. /\ now \in Int /\ 1048576 <= now /\ peer.epoch \in Int /\ epoch \in Int
      /\ sync # None => sync \in Int /\ Follows(sync)
  BY SlotsAssumption, SMT DEF SlotInv, CHANNEL_SEQUENCE_DURATION
<1>2. now' = now /\ peer' = peer /\ sync' = sync /\ epoch' = epoch
  BY SMT DEF get_common_slot_for_peer, syncVars
<1>3. CASE /\ sync # None
           /\ \E s \in nearest_common_slots :
                msdu' = [to |-> "Peer", until |-> slot_start_timestamp(sync, s, 0) + 110]
  <2>1. PICK s \in common_slots :
          msdu' = [to |-> "Peer", until |-> slot_start_timestamp(sync, s, 0) + 110]
    BY <1>3, Zenon DEF nearest_common_slots
  <2>2. s \in SlotIndices
    BY <2>1, Zenon DEF common_slots
  <2>3. /\ slot_start_timestamp(sync, s, 0) + 110 \in Int
        /\ now <= slot_start_timestamp(sync, s, 0) + 110
        /\ current_slot_index((slot_start_timestamp(sync, s, 0) + 110) - peer.epoch) = s
    BY <1>1, <1>3, <2>2, SlotStart, SMT DEF Follows
  <2> DEFINE u == slot_start_timestamp(sync, s, 0) + 110
  <2>4. msdu'.to = "Peer" /\ msdu'.until = u
    BY <2>1, SMT
  <2> HIDE DEF u
  <2> QED
    BY <1>1, <1>2, <2>3, <2>4, SMT DEF SlotInv, common_slots, Follows, u
<1>4. CASE msdu' = [to |-> IF Follows(epoch) THEN "Group" ELSE "Strangers",
                    until |-> multicast_slot_start_timestamp + 110]
  <2> DEFINE u == slot_start_timestamp(epoch, 9, 0) + 110
  <2>1. msdu'.to = (IF Follows(epoch) THEN "Group" ELSE "Strangers") /\ msdu'.until = u
    BY <1>4, SMT DEF multicast_slot_start_timestamp
  <2>2. u \in Int /\ now <= u
    BY <1>1, SMT DEF slot_start_timestamp, CHANNEL_SEQUENCE_DURATION, SLOT_DURATION
  <2>3. Follows(epoch) => current_slot_index(u - peer.epoch) = 9
    <3>1. 9 \in SlotIndices
      BY SMT DEF SlotIndices
    <3> QED
      BY <1>1, <3>1, SlotStart, SMT DEF Follows
  <2>4. msdu'.to # "Peer" /\ (msdu'.to = "Group" => Follows(epoch))
    BY <2>1, SMT
  <2> HIDE DEF u
  <2> QED
    BY <1>1, <1>2, <2>1, <2>2, <2>3, <2>4, SMT DEF SlotInv, Follows
<1> QED
  BY <1>3, <1>4, Zenon DEF get_common_slot_for_peer

(* Time stops at the time an MSDU waits for.                               *)
LEMMA TickKeepsInv == SlotInv /\ tick => SlotInv'
<1> SUFFICES ASSUME SlotInv, tick PROVE SlotInv'
  OBVIOUS
<1>1. peer' = peer /\ sync' = sync /\ epoch' = epoch /\ msdu' = msdu
  BY SMT DEF tick, syncVars
<1>2. now' \in Int /\ Start <= now'
  BY SlotsAssumption, SMT DEF tick, SlotInv
<1>3. msdu # None => now' <= msdu.until
  <2>1. msdu # None => msdu.until \in Deadlines
    BY Zenon DEF Deadlines
  <2> QED
    BY <2>1, Zenon DEF tick
<1> QED
  BY <1>1, <1>2, <1>3, SMT DEF SlotInv, Follows, common_slots

(* The timers of the management task do not concern the clock, except that *)
(* the stale peer timer may drop the peer or adopt the clock cached of it. *)
LEMMA OthersKeepInv ==
  /\ SlotInv
  /\ \/ off_channel_request \/ stale_peer_tick \/ send_psf \/ send_mif
     \/ action_frame_sent \/ transmit_edca \/ UNCHANGED vars
  => SlotInv'
<1>1. ASSUME SlotInv, now' = now, peer' = peer, sync' \in {sync, None},
             epoch' \in {epoch} \cup ({sync'} \ {None}), msdu' \in {msdu, None}
      PROVE  SlotInv'
  BY <1>1, SMT DEF SlotInv, Follows, common_slots
<1>2. off_channel_request => UNCHANGED <<now, epoch, peer, sync, msdu>>
  BY SMT DEF off_channel_request, syncVars
<1>3. send_psf => UNCHANGED <<now, epoch, peer, sync, msdu>>
  BY SMT DEF send_psf, syncVars
<1>4. send_mif => UNCHANGED <<now, epoch, peer, sync, msdu>>
  BY SMT DEF send_mif, syncVars
<1>5. action_frame_sent => UNCHANGED <<now, epoch, peer, sync, msdu>>
  BY SMT DEF action_frame_sent, syncVars
<1>6. transmit_edca => UNCHANGED <<now, epoch, peer, sync>> /\ msdu' = None
  BY SMT DEF transmit_edca, syncVars
<1>7. UNCHANGED vars => UNCHANGED <<now, epoch, peer, sync, msdu>>
  BY SMT DEF vars, syncVars
<1>8. stale_peer_tick => /\ UNCHANGED <<now, peer, msdu>> /\ sync' \in {sync, None}
                         /\ epoch' \in {epoch} \cup ({sync'} \ {None})
  BY SMT DEF stale_peer_tick
<1> QED
  BY <1>1, <1>2, <1>3, <1>4, <1>5, <1>6, <1>7, <1>8, Zenon

(* The invariant holds throughout a session.                               *)
THEOREM SlotInvHolds == Spec => []SlotInv
<1>1. SlotInv /\ [Next]_vars => SlotInv'
  BY PeerSendsKeepsInv, GetCommonSlotKeepsInv, TickKeepsInv, OthersKeepInv, Zenon DEF Next
<1> QED
  BY <1>1, SlotInvInit, PTL DEF Spec

(* SynchronizationState::from_af: what we know of the clock of a peer is   *)
(* late by less than a time unit and twice the longest wait of its frames, *)
(* whichever of them are lost.                                             *)
THEOREM ClockIsRight == Spec => []ClockFollowsPeer
<1>1. SlotInv => ClockFollowsPeer
  BY Zenon DEF SlotInv, ClockFollowsPeer
<1> QED
  BY <1>1, SlotInvHolds, PTL

(* AwdlMsduTxRunner::transmit_frame: an MSDU that waited for a slot of the *)
(* peer is sent in it, although frames that arrive during the wait change  *)
(* our clock and the one cached of the peer.                               *)
THEOREM MsdusAreInSlot == Spec => []MsduInSlot
<1>1. SlotInv => MsduInSlot
  <2> SUFFICES ASSUME SlotInv, msdu # None, msdu.until <= now
               PROVE  /\ msdu.to = "Peer" => current_slot_index(now - peer.epoch) \in common_slots
                      /\ msdu.to = "Group" => current_slot_index(now - peer.epoch) = 9
    BY Zenon DEF MsduInSlot
  <2>1. msdu.until = now
    BY SMT DEF SlotInv
  <2> QED
    BY <2>1, Zenon DEF SlotInv
<1> QED
  BY <1>1, SlotInvHolds, PTL

-----------------------------------------------------------------------------
(* The time of the next MIF.                                               *)

(* A time since an epoch, in channel sequences, slots and a rest.          *)
LEMMA SplitSlots ==
  ASSUME NEW d \in Int
  PROVE  \E k \in Int, s \in SlotIndices, x \in Int :
           /\ 0 <= x /\ x < 65536 /\ d = 1048576 * k + 65536 * s + x
           /\ d % 1048576 = 65536 * s + x /\ d % 65536 = x
<1>1. PICK k \in Int, y \in Int :
        y = d % 1048576 /\ 0 <= y /\ y < 1048576 /\ d = 1048576 * k + y
  BY Split1048576, SMTT(30)
<1>2. PICK s \in Int, x \in Int :
        x = y % 65536 /\ 0 <= x /\ x < 65536 /\ y = 65536 * s + x
  BY Split65536, SMTT(30)
<1>3. s \in SlotIndices
  BY <1>1, <1>2, SMTT(30) DEF SlotIndices
<1>4. d % 65536 = x
  BY <1>1, <1>2, SMTT(30)
<1> QED
  BY <1>1, <1>2, <1>3, <1>4, SMTT(30)

(* The windows of a slot: the number of slots they count, although the     *)
(* window number wraps.                                                    *)
LEMMA SlotCount ==
  ASSUME NEW k \in Int, NEW s \in SlotIndices, NEW x \in Int, 0 <= x, x < 65536
  PROVE  \E n \in Int :
           0 <= n /\ aw_seq_number(1048576 * k + 65536 * s + x) \div 4 = 16 * n + s
<1>1. s \in Int /\ 0 <= s /\ s < 16
  BY SMTT(30) DEF SlotIndices
<1>2. PICK m \in Int, n \in Int :
        m = k \div 1024 /\ n = k % 1024 /\ 0 <= n /\ n < 1024 /\ k = 1024 * m + n
  BY Split1024, SMTT(30)
<1>3. PICK a \in Int, b \in Int :
        a = x \div 16384 /\ b = x % 16384 /\ 0 <= b /\ b < 16384 /\ x = 16384 * a + b
  BY Split16384, SMTT(30)
<1>4. 0 <= a /\ a < 4
  BY <1>3, SMTT(30)
<1>5. /\ 64 * k + 4 * s + a \in Int
      /\ 1048576 * k + 65536 * s + x = 16384 * (64 * k + 4 * s + a) + b
  BY <1>1, <1>3, SMTT(30)
<1>6. (1048576 * k + 65536 * s + x) \div 16384 = 64 * k + 4 * s + a
  BY <1>3, <1>5, Quotient16384, SMTT(30)
<1>7. (64 * k + 4 * s + a) % 65536 = 64 * n + 4 * s + a
  BY <1>1, <1>2, <1>4, SMTT(30)
<1>8. (64 * n + 4 * s + a) \div 4 = 16 * n + s
  BY <1>1, <1>2, <1>4, SMTT(30)
<1> QED
  BY <1>2, <1>6, <1>7, <1>8, SMTT(30) DEF aw_seq_number, AW_DURATION

(* mif_transmition_time is not in the past, and a round that ends in the   *)
(* first half of a slot has the MIF sent within 80 time units.             *)
LEMMA MifTime ==
  ASSUME now \in Int, 1048576 <= now, NEW e \in Int
  PROVE  /\ mif_transmition_time(e) \in Int /\ now <= mif_transmition_time(e)
         /\ (now - e) % 65536 < 32768 => mif_transmition_time(e) <= now + 81920
<1> DEFINE d == now - e
<1>1. d \in Int
  BY SMTT(30)
<1>2. PICK k \in Int, s \in SlotIndices, x \in Int :
        /\ 0 <= x /\ x < 65536 /\ d = 1048576 * k + 65536 * s + x
        /\ d % 1048576 = 65536 * s + x /\ d % 65536 = x
  BY <1>1, SplitSlots, SMTT(30)
<1> HIDE DEF d
<1>3. s \in Int /\ 0 <= s /\ s < 16
  BY SMTT(30) DEF SlotIndices
<1>4. PICK n \in Int : 0 <= n /\ aw_seq_number(d) \div 4 = 16 * n + s
  BY <1>2, SlotCount, SMTT(30)
<1> DEFINE r == IF s = 15 THEN 0 ELSE s + 1
<1>5. current_slot_index(d) = s
  <2>1. (16 * n + s) % 16 = s
    BY <1>3, SMTT(30)
  <2> QED
    BY <1>4, <2>1, SMTT(30) DEF current_slot_index
<1>6. next_slot_index(d) = r
  <2>1. (16 * n + s + 1) % 16 = r
    BY <1>3, SMTT(30)
  <2> QED
    BY <1>4, <2>1, SMTT(30) DEF next_slot_index
<1>7. remaining_slot_length(d) < 32 <=> x < 32768
  BY <1>2, SMTT(30) DEF remaining_slot_length, SLOT_DURATION, TU
<1>8. r \in Int
  BY <1>3, SMTT(30)
<1>9. ASSUME NEW i \in Int
      PROVE  slot_start_timestamp(e, i, 16 * TU) =
               now - (65536 * s + x)
                 + IF 65536 * s + x > 65536 * i + 16384 THEN 65536 * i + 16384 + 1048576
                                                       ELSE 65536 * i + 16384
  BY <1>2, <1>3, SMTT(30)
  DEF d, slot_start_timestamp, CHANNEL_SEQUENCE_DURATION, SLOT_DURATION, TU
<1>10. CASE x < 32768
  <2>1. mif_transmition_time(e) = slot_start_timestamp(e, r, 16 * TU)
    BY <1>6, <1>7, <1>10, SMTT(30) DEF d, mif_transmition_time
  <2>2. mif_transmition_time(e) = now + 65536 - x + 16384
    BY <1>2, <1>3, <1>8, <1>9, <2>1, SMTT(30)
  <2> QED
    BY <1>2, <2>2, SMTT(30) DEF d
<1>11. CASE ~(x < 32768)
  <2>1. mif_transmition_time(e) = slot_start_timestamp(e, s, 16 * TU)
    BY <1>5, <1>7, <1>11, SMTT(30) DEF d, mif_transmition_time
  <2>2. mif_transmition_time(e) = now - x + 16384 + 1048576
    BY <1>2, <1>3, <1>9, <1>11, <2>1, SMTT(30)
  <2> QED
    BY <1>2, <1>11, <2>2, SMTT(30) DEF d
<1> QED
  BY <1>10, <1>11, SMTT(30)
-----------------------------------------------------------------------------
(* MIFs keep coming.  A round that ends in the first half of a slot has    *)
(* the MIF sent, and of three PSFs in a row one ends there, for their      *)
(* ticker moves on by 46 time units of the 64 of a slot.                   *)

(* The clock that shows the slots: that of the peer once ours follows it.  *)
clock == IF Follows(epoch) THEN peer.epoch ELSE epoch

(* How many PSFs it takes, the one due at p included, for one whose round  *)
(* ends in the first half of a slot, by the clock with epoch e.            *)
rounds(e, p) ==
  LET x == (p - e) % SLOT_DURATION
  IN IF Lateness <= x /\ x < 28 * TU + Lateness THEN 1
     ELSE IF 28 * TU + Lateness <= x /\ x < 46 * TU + Lateness THEN 2 ELSE 3

(* Is t in the first half of a slot, by every clock that follows e?        *)
early(e, t) == Lateness <= (t - e) % SLOT_DURATION /\ (t - e) % SLOT_DURATION < 32 * TU

(* The MIF goes out by b: that PSF comes in time; or it is being sent, and *)
(* its round ends in the first half of a slot; or the timer of the MIF     *)
(* comes before the next PSF.                                              *)
MifComes(b) ==
  \/ psf + (rounds(clock, psf) - 1) * PSF_PERIOD + 83 * TU <= b
  \/ /\ management # None /\ early(clock, management)
     /\ management + 80 * TU <= b /\ management + 80 * TU < psf /\ psf <= b + 27 * TU
  \/ management = None /\ mif <= b /\ mif < psf /\ psf <= b + 27 * TU

(* How long sending a frame may take (MifsHaveTime).                       *)
sending == 1536 - MaxTxDelta

(* No timer is late by more than it takes to send a frame.                 *)
MifTimers ==
  /\ psf \in Int /\ stale \in Int /\ mif \in Int /\ last_mif \in Int
  /\ last_mif <= now /\ now <= psf + sending /\ psf - PSF_PERIOD <= now
  /\ management # None => management \in Int /\ now <= management /\ management <= psf + sending
  /\ management = None => now <= mif

(* The invariant: the MIF comes within three periods and a round of the    *)
(* last one, or the stale peer timer has put it off and will not again.    *)
MifInv ==
  /\ MifTimers
  /\ ~disturbed =>
       \/ MifComes(last_mif + 413 * TU)
       \/ MifComes(last_mif + 7 * PSF_PERIOD) /\ last_mif + 7 * PSF_PERIOD < stale

(* The ticker of the PSFs moves on by 46 time units of a slot, so that     *)
(* every PSF leaves one round less to go.                                  *)
LEMMA RoundsPass ==
  ASSUME NEW e \in Int, NEW p \in Int, MaxTxDelta <= 1536
  PROVE  /\ rounds(e, p) \in {1, 2, 3}
         /\ rounds(e, p) # 1 => rounds(e, p + PSF_PERIOD) = rounds(e, p) - 1
<1>1. p - e \in Int
  BY SMTT(30)
<1>2. PICK k \in Int, x \in Int :
        x = (p - e) % 65536 /\ 0 <= x /\ x < 65536 /\ p - e = 65536 * k + x
  BY <1>1, Split65536, SMTT(30)
<1>3. ((p + 112640) - e) % 65536 = IF x < 18432 THEN x + 47104 ELSE x - 18432
  BY <1>2, SMTT(30)
<1> QED
  BY <1>2, <1>3, LatenessBound, SMTT(30) DEF rounds, SLOT_DURATION, PSF_PERIOD, TU

(* The round of a PSF that is late by what two frames take at its end ends *)
(* in the first half of a slot if that PSF is the last to go.              *)
LEMMA LastRoundIsEarly ==
  ASSUME NEW e \in Int, NEW p \in Int, NEW t \in Int, p <= t, t <= p + 2 * sending,
         rounds(e, p) = 1, MaxTxDelta <= 1536
  PROVE  early(e, t)
<1>1. p - e \in Int
  BY SMTT(30)
<1>2. PICK k \in Int, x \in Int :
        x = (p - e) % 65536 /\ 0 <= x /\ x < 65536 /\ p - e = 65536 * k + x
  BY <1>1, Split65536, SMTT(30)
<1>3. /\ Lateness \in Int /\ Lateness <= x /\ x < 28672 + Lateness
      /\ 28672 + Lateness + 2 * sending = 32768 /\ sending \in Int
  BY <1>2, LatenessBound, SMTT(30) DEF rounds, sending, SLOT_DURATION, TU
<1>4. (t - e) % 65536 = x + (t - p)
  BY <1>2, <1>3, LatenessBound, SMTT(30)
<1> QED
  BY <1>3, <1>4, SMTT(30) DEF early, SLOT_DURATION, TU

(* What is early by a clock is so by one that follows it.                  *)
LEMMA EarlyByBoth ==
  ASSUME NEW e \in Int, NEW p \in Int, NEW t \in Int,
         (e - p) % CHANNEL_SEQUENCE_DURATION < Lateness, early(p, t)
  PROVE  (t - e) % SLOT_DURATION < 32 * TU
<1>1. e - p \in Int /\ t - p \in Int
  BY SMTT(30)
<1>2. PICK l \in Int, v \in Int :
        /\ l = (e - p) \div 1048576 /\ v = (e - p) % 1048576
        /\ 0 <= v /\ e - p = 1048576 * l + v
  BY <1>1, Split1048576, SMTT(30)
<1>3. PICK k \in Int, x \in Int :
        /\ k = (t - p) \div 65536 /\ x = (t - p) % 65536
        /\ t - p = 65536 * k + x
  BY <1>1, Split65536, SMTT(30)
<1>4. v < Lateness /\ Lateness \in Int /\ Lateness <= x /\ x < 32768
  BY <1>2, <1>3, LatenessBound, SMTT(30)
  DEF early, CHANNEL_SEQUENCE_DURATION, SLOT_DURATION, TU
<1>5. /\ k - 16 * l \in Int /\ x - v \in Int /\ 0 <= x - v /\ x - v < 32768
      /\ t - e = 65536 * (k - 16 * l) + (x - v)
  BY <1>2, <1>3, <1>4, SMTT(30)
<1> QED
  BY <1>5, Remainder65536, SMTT(30) DEF SLOT_DURATION, TU

(* So what is early by the clock that shows the slots is early by ours.    *)
LEMMA EarlyByOurs ==
  ASSUME peer.epoch \in Int, epoch \in Int, NEW t \in Int, early(clock, t)
  PROVE  (t - epoch) % 65536 < 32768
<1>1. CASE ~Follows(epoch)
  BY <1>1, SMTT(30) DEF clock, early, SLOT_DURATION, TU
<1>2. CASE Follows(epoch)
  <2>1. clock = peer.epoch
    BY <1>2, ZenonT(30) DEF clock
  <2>2. (t - epoch) % SLOT_DURATION < 32 * TU
    BY <1>2, <2>1, EarlyByBoth, ZenonT(30) DEF Follows
  <2> QED
    BY <2>2, SMTT(30) DEF SLOT_DURATION, TU
<1> QED
  BY <1>1, <1>2, SMTT(30)

(* Our clock and the one cached of the peer show the same slots, so that   *)
(* to adopt it again changes nothing.                                      *)
LEMMA ClockStays ==
  ASSUME SlotInv, SlotInv', peer' = peer,
         epoch' # epoch => epoch' = sync' /\ sync' # None /\ Follows(epoch)
  PROVE  clock \in Int /\ clock' = clock
<1>1. CASE epoch' = epoch
  BY <1>1, SMTT(30) DEF clock, Follows, SlotInv
<1>2. CASE epoch' # epoch
  BY <1>2, SMTT(30) DEF clock, Follows, SlotInv
<1> QED
  BY <1>1, <1>2

(* What the proofs below use of SlotInv and of the conditions.             *)
LEMMA MifFacts ==
  ASSUME MifsHaveTime, SlotInv
  PROVE  /\ now \in Int /\ 1048576 <= now /\ epoch \in Int /\ peer.epoch \in Int
         /\ clock \in Int
         /\ sending \in Int /\ 0 <= sending /\ sending <= 1536 /\ MaxTxDelta <= 1536
         /\ \A t \in SendTimes : t \in Int /\ 0 <= t /\ t <= sending
         /\ StaleTimeout \in Int /\ 1000000 <= StaleTimeout /\ None \notin Int
<1>1. now \in Int /\ 1048576 <= now /\ epoch \in Int /\ peer.epoch \in Int
  BY SlotsAssumption, SMTT(30) DEF SlotInv, CHANNEL_SEQUENCE_DURATION
<1>2. clock \in Int
  BY <1>1, SMTT(30) DEF clock
<1>3. /\ sending \in Int /\ 0 <= sending /\ sending <= 1536 /\ MaxTxDelta <= 1536
      /\ \A t \in SendTimes : t \in Int /\ 0 <= t /\ t <= sending
  BY SlotsAssumption, LatenessBound, SMTT(30) DEF MifsHaveTime, sending, TU
<1>4. StaleTimeout \in Int /\ 1000000 <= StaleTimeout /\ None \notin Int
  BY SlotsAssumption, SMTT(30) DEF MifsHaveTime
<1> QED
  BY <1>1, <1>2, <1>3, <1>4, SMTT(30)

(* A session starts with the first PSF a period away.                      *)
LEMMA MifInvInit == MifsHaveTime /\ SlotInv /\ Init => MifInv
<1> SUFFICES ASSUME MifsHaveTime, SlotInv, Init PROVE MifInv
  OBVIOUS
<1>1. /\ now \in Int /\ 1048576 <= now /\ epoch \in Int /\ clock \in Int /\ None \notin Int
      /\ sending \in Int /\ 0 <= sending /\ sending <= 1536 /\ MaxTxDelta <= 1536
  BY MifFacts, SMTT(30)
<1>2. /\ management = None /\ psf = now + 112640 /\ stale = now + 1000000
      /\ mif = mif_transmition_time(epoch) /\ last_mif = now
  BY SMTT(30) DEF Init, PSF_PERIOD, TU
<1>3. mif \in Int /\ now <= mif
  BY <1>1, <1>2, MifTime, SMTT(30)
<1>4. psf \in Int /\ rounds(clock, psf) \in {1, 2, 3}
  BY <1>1, <1>2, RoundsPass, SMTT(30)
<1>5. MifTimers
  BY <1>1, <1>2, <1>3, SMTT(30) DEF MifTimers, PSF_PERIOD, TU
<1>6. MifComes(last_mif + 413 * TU)
  BY <1>1, <1>2, <1>4, SMTT(30) DEF MifComes, PSF_PERIOD, TU
<1> QED
  BY <1>5, <1>6, SMTT(30) DEF MifInv

(* Until then it is not late.                                              *)
LEMMA NotLate ==
  ASSUME MifsHaveTime, SlotInv, MifTimers, NEW b \in Int, MifComes(b)
  PROVE  now <= b
<1>1. /\ now \in Int /\ clock \in Int /\ None \notin Int
      /\ sending \in Int /\ 0 <= sending /\ sending <= 1536 /\ MaxTxDelta <= 1536
  BY MifFacts, SMTT(30)
<1>2. psf \in Int /\ rounds(clock, psf) \in {1, 2, 3}
  BY <1>1, RoundsPass, SMTT(30) DEF MifTimers
<1> QED
  BY <1>1, <1>2, SMTT(30) DEF MifTimers, MifComes, PSF_PERIOD, TU

(* A PSF: one round less to go, or the last one, which ends early.         *)
LEMMA SendPsfKeepsMifInv == MifsHaveTime /\ SlotInv /\ SlotInv' /\ MifInv /\ send_psf => MifInv'
<1> SUFFICES ASSUME MifsHaveTime, SlotInv, SlotInv', MifInv, send_psf PROVE MifInv'
  OBVIOUS
<1>1. /\ now \in Int /\ clock \in Int /\ None \notin Int
      /\ \A t \in SendTimes : t \in Int /\ 0 <= t /\ t <= sending
      /\ sending \in Int /\ 0 <= sending /\ sending <= 1536 /\ MaxTxDelta <= 1536
  BY MifFacts, SMTT(30)
<1>2. /\ management = None /\ stale > now /\ psf <= now /\ psf' = psf + 112640
      /\ now' = now /\ peer' = peer /\ epoch' = epoch /\ stale' = stale /\ mif' = mif
      /\ last_mif' = last_mif /\ disturbed' = disturbed
  BY SMTT(30) DEF send_psf, syncVars, PSF_PERIOD, TU
<1>3. PICK t \in SendTimes : management' = now + t
  BY SMTT(30) DEF send_psf
<1>4. /\ psf \in Int /\ stale \in Int /\ mif \in Int /\ last_mif \in Int
      /\ last_mif <= now /\ now <= psf + sending /\ psf - 112640 <= now /\ now <= mif
  BY <1>2, SMTT(30) DEF MifInv, MifTimers, PSF_PERIOD, TU
<1>5. MifTimers'
  BY <1>1, <1>2, <1>3, <1>4, SMTT(30) DEF MifTimers, PSF_PERIOD, TU
<1>6. clock' = clock
  BY <1>2, ClockStays, SMTT(30)
<1>7. /\ rounds(clock, psf) \in {1, 2, 3}
      /\ rounds(clock, psf) # 1 => rounds(clock, psf') = rounds(clock, psf) - 1
  BY <1>1, <1>2, <1>4, RoundsPass, SMTT(30) DEF PSF_PERIOD, TU
<1>8. rounds(clock, psf) = 1 => early(clock, management')
  BY <1>1, <1>2, <1>3, <1>4, LastRoundIsEarly, SMTT(30)
<1>9. ASSUME NEW b \in Int, MifComes(b) PROVE MifComes(b)'
  <2>1. psf + (rounds(clock, psf) - 1) * 112640 + 84992 <= b
    BY <1>1, <1>2, <1>4, <1>7, <1>9, SMTT(30) DEF MifComes, PSF_PERIOD, TU
  <2>2. CASE rounds(clock, psf) = 1
    BY <1>1, <1>2, <1>3, <1>4, <1>6, <1>8, <2>1, <2>2, SMTT(30) DEF MifComes, TU
  <2>3. CASE rounds(clock, psf) # 1
    BY <1>2, <1>4, <1>6, <1>7, <2>1, <2>3, SMTT(30) DEF MifComes, PSF_PERIOD, TU
  <2> QED
    BY <2>2, <2>3
<1>10. last_mif + 413 * TU \in Int /\ last_mif + 7 * PSF_PERIOD \in Int
  BY <1>4, SMTT(30) DEF PSF_PERIOD, TU
<1> QED
  BY <1>2, <1>5, <1>9, <1>10, SMTT(30) DEF MifInv

(* A MIF: the next one has three PSFs to come after.                       *)
LEMMA SendMifKeepsMifInv == MifsHaveTime /\ SlotInv /\ SlotInv' /\ MifInv /\ send_mif => MifInv'
<1> SUFFICES ASSUME MifsHaveTime, SlotInv, SlotInv', MifInv, send_mif PROVE MifInv'
  OBVIOUS
<1>1. /\ now \in Int /\ clock \in Int /\ None \notin Int
      /\ \A t \in SendTimes : t \in Int /\ 0 <= t /\ t <= sending
      /\ sending \in Int /\ 0 <= sending /\ sending <= 1536 /\ MaxTxDelta <= 1536
  BY MifFacts, SMTT(30)
<1>2. /\ management = None /\ now < psf /\ psf' = psf /\ now' = now /\ peer' = peer
      /\ epoch' = epoch /\ stale' = stale /\ mif' = mif /\ last_mif' = now
  BY <1>1, SMTT(30) DEF send_mif, syncVars
<1>3. PICK t \in SendTimes : management' = now + t
  BY SMTT(30) DEF send_mif
<1>4. psf \in Int /\ stale \in Int /\ mif \in Int /\ psf - 112640 <= now
  BY SMTT(30) DEF MifInv, MifTimers, PSF_PERIOD, TU
<1>5. now < psf
  BY <1>1, <1>4, SMTT(30) DEF send_mif
<1>6. MifTimers'
  BY <1>1, <1>2, <1>3, <1>4, <1>5, SMTT(30) DEF MifTimers, PSF_PERIOD, TU
<1>7. clock' = clock /\ rounds(clock, psf) \in {1, 2, 3}
  BY <1>1, <1>2, <1>4, ClockStays, RoundsPass, SMTT(30)
<1>8. MifComes(last_mif + 413 * TU)'
  BY <1>1, <1>2, <1>4, <1>7, SMTT(30) DEF MifComes, PSF_PERIOD, TU
<1> QED
  BY <1>6, <1>8, SMTT(30) DEF MifInv

(* The end of a round that ends early: the timer comes before the PSF.     *)
LEMMA SentKeepsMifInv ==
  MifsHaveTime /\ SlotInv /\ SlotInv' /\ MifInv /\ action_frame_sent => MifInv'
<1> SUFFICES ASSUME MifsHaveTime, SlotInv, SlotInv', MifInv, action_frame_sent PROVE MifInv'
  OBVIOUS
<1>1. /\ now \in Int /\ 1048576 <= now /\ epoch \in Int /\ peer.epoch \in Int
      /\ clock \in Int /\ None \notin Int
      /\ sending \in Int /\ 0 <= sending /\ sending <= 1536 /\ MaxTxDelta <= 1536
  BY MifFacts, SMTT(30)
<1>2. /\ management # None /\ management <= now /\ management' = None
      /\ mif' = mif_transmition_time(epoch)
      /\ psf' = psf /\ now' = now /\ peer' = peer /\ epoch' = epoch /\ stale' = stale
      /\ last_mif' = last_mif /\ disturbed' = disturbed
  BY SMTT(30) DEF action_frame_sent, syncVars
<1>3. /\ psf \in Int /\ stale \in Int /\ last_mif \in Int /\ management \in Int
      /\ last_mif <= now /\ now <= psf + sending /\ psf - 112640 <= now /\ now <= management
  BY <1>2, SMTT(30) DEF MifInv, MifTimers, PSF_PERIOD, TU
<1>4. management = now
  BY <1>1, <1>2, <1>3, SMTT(30)
<1>5. mif' \in Int /\ now <= mif'
  BY <1>1, <1>2, MifTime, SMTT(30)
<1>6. early(clock, management) => mif' <= now + 81920
  BY <1>1, <1>2, <1>4, MifTime, EarlyByOurs, SMTT(30)
<1>7. MifTimers'
  BY <1>1, <1>2, <1>3, <1>5, SMTT(30) DEF MifTimers, PSF_PERIOD, TU
<1>8. clock' = clock
  BY <1>2, ClockStays, SMTT(30)
<1>9. ASSUME NEW b \in Int, MifComes(b) PROVE MifComes(b)'
  BY <1>1, <1>2, <1>3, <1>4, <1>5, <1>6, <1>8, <1>9, SMTT(30) DEF MifComes, TU
<1>10. last_mif + 413 * TU \in Int /\ last_mif + 7 * PSF_PERIOD \in Int
  BY <1>3, SMTT(30) DEF PSF_PERIOD, TU
<1> QED
  BY <1>2, <1>7, <1>9, <1>10, SMTT(30) DEF MifInv

(* The stale peer timer: it may put the MIF off, to the rounds after the   *)
(* next PSF, but it does not come again before that.                       *)
LEMMA StaleKeepsMifInv ==
  MifsHaveTime /\ SlotInv /\ SlotInv' /\ MifInv /\ stale_peer_tick => MifInv'
<1> SUFFICES ASSUME MifsHaveTime, SlotInv, SlotInv', MifInv, stale_peer_tick PROVE MifInv'
  OBVIOUS
<1>1. /\ now \in Int /\ 1048576 <= now /\ clock \in Int /\ None \notin Int
      /\ StaleTimeout \in Int /\ 1000000 <= StaleTimeout /\ epoch' \in Int
      /\ sending \in Int /\ 0 <= sending /\ sending <= 1536 /\ MaxTxDelta <= 1536
  BY MifFacts, SMTT(30) DEF SlotInv
<1>2. /\ management = None /\ stale <= now /\ stale' = now + StaleTimeout
      /\ management' = management /\ mif' = mif_transmition_time(epoch')
      /\ psf' = psf /\ now' = now /\ peer' = peer /\ last_mif' = last_mif
  BY SMTT(30) DEF stale_peer_tick
<1>3. /\ psf \in Int /\ stale \in Int /\ last_mif \in Int
      /\ last_mif <= now /\ now <= psf + sending /\ psf - 112640 <= now
  BY SMTT(30) DEF MifInv, MifTimers, PSF_PERIOD, TU
<1>4. mif' \in Int /\ now <= mif'
  BY <1>1, <1>2, MifTime, SMTT(30)
<1>5. MifTimers'
  BY <1>1, <1>2, <1>3, <1>4, SMTT(30) DEF MifTimers, PSF_PERIOD, TU
<1>6. rounds(clock, psf) \in {1, 2, 3}
  BY <1>1, <1>3, RoundsPass, SMTT(30)
<1>7. ASSUME ~disturbed'
      PROVE  /\ ~disturbed
             /\ epoch' # epoch => epoch' = sync' /\ sync' # None /\ Follows(epoch)
  BY <1>7, ZenonT(30) DEF stale_peer_tick
<1>8. ASSUME ~disturbed'
      PROVE  \/ MifComes(last_mif + 413 * TU)'
             \/ MifComes(last_mif + 7 * PSF_PERIOD)' /\ (last_mif + 7 * PSF_PERIOD < stale)'
  <2>1. clock' = clock
    BY <1>2, <1>7, <1>8, ClockStays, SMTT(30)
  <2>2. CASE MifComes(last_mif + 413 * TU)
    BY <1>1, <1>2, <1>3, <1>6, <2>1, <2>2, SMTT(30) DEF MifComes, PSF_PERIOD, TU
  <2>3. CASE MifComes(last_mif + 7 * PSF_PERIOD) /\ last_mif + 7 * PSF_PERIOD < stale
    <3>1. last_mif + 7 * PSF_PERIOD \in Int /\ MifTimers
      BY <1>3, SMTT(30) DEF MifInv, PSF_PERIOD, TU
    <3>2. now <= last_mif + 7 * PSF_PERIOD
      BY <2>3, <3>1, NotLate, SMTT(30)
    <3> QED
      BY <1>1, <1>2, <1>3, <2>3, <3>1, <3>2, SMTT(30)
  <2> QED
    BY <1>7, <1>8, <2>2, <2>3, SMTT(30) DEF MifInv
<1> QED
  BY <1>5, <1>8, SMTT(30) DEF MifInv

(* Time passes, but no timer that is running.                              *)
LEMMA TickKeepsMifInv == MifsHaveTime /\ SlotInv /\ SlotInv' /\ MifInv /\ tick => MifInv'
<1> SUFFICES ASSUME MifsHaveTime, SlotInv, SlotInv', MifInv, tick PROVE MifInv'
  OBVIOUS
<1>1. /\ now \in Int /\ now' \in Int /\ None \notin Int
      /\ sending \in Int /\ 0 <= sending /\ sending <= 1536 /\ MaxTxDelta <= 1536
  BY MifFacts, SMTT(30) DEF SlotInv
<1>2. /\ management' = management /\ psf' = psf /\ stale' = stale /\ mif' = mif
      /\ last_mif' = last_mif /\ disturbed' = disturbed /\ peer' = peer /\ epoch' = epoch
  BY SMTT(30) DEF tick, syncVars, timerVars
<1>3. /\ now <= now'
      /\ management = None => now' <= psf /\ now' <= mif
      /\ management # None => now' <= management
  <2>1. \A t \in Deadlines : now' <= t
    BY ZenonT(30) DEF tick
  <2>2. /\ management = None => psf \in Deadlines /\ mif \in Deadlines
        /\ management # None => management \in Deadlines
    BY SMTT(30) DEF Deadlines
  <2>3. now <= now'
    BY <1>1, SlotsAssumption, SMTT(30) DEF tick
  <2> QED
    BY <2>1, <2>2, <2>3, ZenonT(30)
<1>4. MifTimers'
  <2>1. MifTimers
    BY ZenonT(30) DEF MifInv
  <2>2. /\ psf \in Int /\ stale \in Int /\ mif \in Int /\ last_mif \in Int
        /\ last_mif <= now /\ psf - 112640 <= now
        /\ management # None => management \in Int /\ management <= psf + sending
    BY <2>1, SMTT(30) DEF MifTimers, PSF_PERIOD, TU
  <2>3. last_mif <= now' /\ psf - 112640 <= now'
    BY <1>1, <1>3, <2>2, SMTT(30)
  <2>4. now' <= psf + sending
    BY <1>1, <1>3, <2>2, SMTT(30)
  <2> QED
    BY <1>2, <1>3, <2>2, <2>3, <2>4, SMTT(30) DEF MifTimers, PSF_PERIOD, TU
<1>5. clock' = clock
  BY <1>2, ClockStays, SMTT(30)
<1> QED
  BY <1>2, <1>4, <1>5, SMTT(30) DEF MifInv, MifComes

(* The rest: a frame of the peer leaves our clock as good as it was, or    *)
(* disturbs the MIFs, as an off channel request does.                      *)
LEMMA OthersKeepMifInv ==
  /\ MifsHaveTime /\ SlotInv /\ SlotInv' /\ MifInv
  /\ \/ off_channel_request \/ peer_sends \/ get_common_slot_for_peer \/ transmit_edca
     \/ UNCHANGED vars
  => MifInv'
<1> SUFFICES ASSUME MifsHaveTime, SlotInv, SlotInv', MifInv PROVE
               \/ off_channel_request \/ peer_sends \/ get_common_slot_for_peer \/ transmit_edca
               \/ UNCHANGED vars
               => MifInv'
  OBVIOUS
<1>1. /\ now \in Int /\ 1048576 <= now /\ epoch \in Int /\ None \notin Int
      /\ sending \in Int /\ 0 <= sending /\ sending <= 1536 /\ MaxTxDelta <= 1536
  BY MifFacts, SMTT(30)
<1>2. CASE off_channel_request
  <2>1. /\ mif' = mif_transmition_time(epoch) /\ disturbed' = TRUE /\ management' = management
        /\ psf' = psf /\ stale' = stale /\ last_mif' = last_mif /\ now' = now
    BY <1>2, SMTT(30) DEF off_channel_request
  <2>2. mif' \in Int /\ now <= mif'
    BY <1>1, <2>1, MifTime, SMTT(30)
  <2> QED
    BY <2>1, <2>2, SMTT(30) DEF MifInv, MifTimers
<1>3. ASSUME UNCHANGED <<now, management, psf, stale, mif, last_mif>>,
             ~disturbed' => ~disturbed /\ clock' = clock
      PROVE  MifInv'
  BY <1>3, SMTT(30) DEF MifInv, MifTimers, MifComes
<1>4. CASE peer_sends
  <2>1. UNCHANGED <<now, peer, management, psf, stale, mif, last_mif>>
    BY <1>4, SMTT(30) DEF peer_sends
  <2>2. ASSUME ~disturbed'
        PROVE  /\ ~disturbed
               /\ epoch' # epoch => epoch' = sync' /\ sync' # None /\ Follows(epoch)
    <3>1. ~disturbed /\ (epoch' # epoch => epoch' = sync' /\ Follows(epoch))
      BY <1>4, <2>2, ZenonT(30) DEF peer_sends, process_action_frame
    <3>2. epoch' \in Int /\ None \notin Int
      BY SlotsAssumption, ZenonT(30) DEF SlotInv
    <3> QED
      BY <3>1, <3>2, ZenonT(30)
  <2> QED
    BY <1>3, <2>1, <2>2, ClockStays, SMTT(30)
<1>5. CASE get_common_slot_for_peer
  BY <1>3, <1>5, ClockStays, SMTT(30) DEF get_common_slot_for_peer, syncVars, timerVars
<1>6. CASE transmit_edca
  BY <1>3, <1>6, ClockStays, SMTT(30) DEF transmit_edca, syncVars, timerVars
<1>7. CASE UNCHANGED vars
  BY <1>3, <1>7, ClockStays, SMTT(30) DEF vars, syncVars, timerVars
<1> QED
  BY <1>2, <1>4, <1>5, <1>6, <1>7, SMTT(30)

(* AwdlManagementRunner::run_session: for every duration of a frame that,  *)
(* with the wait of one of the peer, is at most one and a half time units, *)
(* every clock of a peer and every loss of its frames, the MIFs keep coming within seven periods of the PSFs.          *)
THEOREM MifsComeInTime == Spec => []MifsKeepComing
<1>1. MifsHaveTime /\ SlotInv /\ SlotInv' /\ MifInv /\ [Next]_vars => MifInv'
  BY SendPsfKeepsMifInv, SendMifKeepsMifInv, SentKeepsMifInv, StaleKeepsMifInv,
     TickKeepsMifInv, OthersKeepMifInv, SMTT(30) DEF Next
<1>2. SlotInv /\ (MifsHaveTime => MifInv) => MifsKeepComing
  <2> SUFFICES ASSUME MifsHaveTime, SlotInv, MifInv, ~disturbed
               PROVE  now - last_mif <= 7 * PSF_PERIOD
    BY SMTT(30) DEF MifsKeepComing
  <2>1. /\ now \in Int /\ last_mif \in Int /\ MifTimers
        /\ last_mif + 413 * TU \in Int /\ last_mif + 7 * PSF_PERIOD \in Int
    BY MifFacts, SMTT(30) DEF MifInv, MifTimers, PSF_PERIOD, TU
  <2>2. MifComes(last_mif + 413 * TU) \/ MifComes(last_mif + 7 * PSF_PERIOD)
    BY SMTT(30) DEF MifInv
  <2>3. now <= last_mif + 413 * TU \/ now <= last_mif + 7 * PSF_PERIOD
    BY <2>1, <2>2, NotLate, SMTT(30)
  <2> QED
    BY <2>1, <2>3, SMTT(30) DEF PSF_PERIOD, TU
<1>3. MifsHaveTime => MifsHaveTime'
  BY SMTT(30) DEF MifsHaveTime
<1>4. (MifsHaveTime => MifInv) /\ SlotInv /\ SlotInv' /\ [Next]_vars => (MifsHaveTime => MifInv)'
  BY <1>1, <1>3, SMTT(30) DEF MifsHaveTime
<1>5. Init /\ SlotInv => (MifsHaveTime => MifInv)
  BY MifInvInit, SMTT(30)
<1> QED
  BY <1>2, <1>4, <1>5, SlotInvHolds, PTL DEF Spec

=============================================================================

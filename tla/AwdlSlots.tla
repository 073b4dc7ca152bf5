----------------------------- MODULE AwdlSlots -----------------------------
(* The clock of an AWDL interface: the synchronization state of            *)
(* foa_awdl/src/peer.rs, how it is recovered from the frames of a peer and *)
(* adopted (runner/rx.rs, state.rs), and the two tasks that wait for slots *)
(* on it: the one that sends PSFs and MIFs (runner/management.rs) and the  *)
(* one that sends MSDUs (runner/tx.rs).                                    *)
(*                                                                         *)
(* Time is in microseconds.  A time unit is TU of them, an availability    *)
(* window (AW) 16 time units, a slot four windows and a channel sequence   *)
(* sixteen slots.  The u64 arithmetic of the code wraps at a multiple of   *)
(* every modulus used, so that it agrees with / and % on the integers.     *)
EXTENDS Integers

CONSTANTS
  Start,          \* when the session starts, since boot
  Horizon,        \* bound: when the behaviour ends
  Epochs,         \* possible TSF epochs of the peer, on our clock
  Sequences,      \* possible channel sequences of the peer
  OwnChannel,     \* the channel of the session
  SendTimes,      \* how long sending an action frame may take
  TxDeltas,       \* how long a frame of the peer may wait between being built and leaving
  MaxTxDelta,     \* bound of these
  Jitter,         \* how late the peer may send one
  StaleTimeout,   \* period of the stale peer timer
  None

TU == 1024
AW_DURATION == 16384
SLOT_DURATION == 65536
CHANNEL_SEQUENCE_DURATION == 1048576
PSF_PERIOD == 110 * TU
SlotIndices == 0 .. 15

(* The session starts at least one channel sequence after boot, and a      *)
(* frame of the peer leaves within seven time units of being built.        *)
ASSUME SlotsAssumption ==
  /\ Start \in Nat /\ Start >= CHANNEL_SEQUENCE_DURATION /\ Horizon \in Nat
  /\ Epochs \subseteq Int
  /\ \A s \in Sequences : DOMAIN s = SlotIndices
  /\ SendTimes \subseteq Nat /\ Jitter \subseteq Nat
  /\ TxDeltas \subseteq 0 .. MaxTxDelta /\ MaxTxDelta \in 0 .. 7 * TU
  /\ StaleTimeout \in Nat \ {0}
  /\ None \notin Int

VARIABLES
  now,            \* the time since boot
  epoch,          \* our tsf_epoch_in_us
  peer,           \* the peer: its epoch and channel sequence
  sync,           \* the epoch recovered from its last frame; None: not in the cache
  peer_next,      \* when its next action frame is due
  management,     \* AwdlManagementRunner: when it is done sending; None: in its select
  psf,            \* next tick of psf_ticker
  stale,          \* next tick of stale_peer_ticker
  mif,            \* the timer for the next MIF
  last_mif,       \* history: when the last MIF went out
  disturbed,      \* history: an off channel request came since then, or the clock jumped
  msdu            \* AwdlMsduTxRunner: the frame that waits for its slot, or None

timerVars == <<management, psf, stale, mif, last_mif, disturbed>>
syncVars == <<epoch, peer, sync, peer_next>>
vars == <<now, syncVars, timerVars, msdu>>

-----------------------------------------------------------------------------
(* SynchronizationState.  d is the time since an epoch.                    *)

aw_seq_number(d) == (d \div AW_DURATION) % 65536

remaining_aw_length(d) == (d % AW_DURATION) \div TU

remaining_slot_length(d) == (d % SLOT_DURATION) \div TU

current_slot_index(d) == (aw_seq_number(d) \div 4) % 16

next_slot_index(d) == ((aw_seq_number(d) \div 4) + 1) % 16

(* Mutant: the part of the window that has passed is ignored.              *)
recover_tsf_epoch_Coarse(aw_seq, remaining, tx_delta, rx_timestamp) ==
  rx_timestamp - (TU * (16 * aw_seq) - tx_delta)

(* The epoch of a peer, from the parameters in its frame.  The delta is    *)
(* taken off the time that has passed since the epoch.                     *)
recover_tsf_epoch(aw_seq, remaining, tx_delta, rx_timestamp) ==
  rx_timestamp - (TU * (16 * aw_seq + remaining) - tx_delta)

(* Mutant: a slot that is over in this channel sequence is not put off.    *)
slot_start_timestamp_Past(e, slot, offset) ==
  now - ((now - e) % CHANNEL_SEQUENCE_DURATION) + SLOT_DURATION * slot + offset

(* When a slot starts, plus an offset: in this channel sequence, or in the *)
(* next one if that is over.                                               *)
slot_start_timestamp(e, slot, offset) ==
  LET elapsed == (now - e) % CHANNEL_SEQUENCE_DURATION
      sequence_start == IF elapsed <= now THEN now - elapsed ELSE now
      time_to_slot == SLOT_DURATION * slot + offset
  IN sequence_start + IF elapsed > time_to_slot
                      THEN time_to_slot + CHANNEL_SEQUENCE_DURATION ELSE time_to_slot

multicast_slot_start_timestamp == slot_start_timestamp(epoch, 9, 0)

(* How many slots after slot c slot s comes, for the search that starts at *)
(* c and wraps around.                                                     *)
distance(c, s) == (s - c) % 16

(* The slots in which the peer is where we are.                            *)
common_slots == {s \in SlotIndices : peer.sequence[s] = OwnChannel}

(* next_overlap_timestamp of the peer's state with ours, whose channel is  *)
(* the same in every slot: the slots overlap now, or will in the nearest   *)
(* common slot, if there is one.                                           *)
overlapping == current_slot_index(now - sync) \in common_slots

nearest_common_slots ==
  LET c == current_slot_index(now - sync)
  IN {s \in common_slots : \A r \in common_slots : distance(c, s) <= distance(c, r)}

(* Mutant: at the start of the slot that is running, which has passed.     *)
mif_transmition_time_Current(e) == slot_start_timestamp(e, current_slot_index(now - e), 0)

(* When the next MIF is due: 16 time units into the next slot, or, in the  *)
(* second half of a slot, into the slot that is running, the next time it  *)
(* comes.                                                                  *)
mif_transmition_time(e) ==
  slot_start_timestamp(e,
    IF remaining_slot_length(now - e) < 32 THEN next_slot_index(now - e)
    ELSE current_slot_index(now - e),
    16 * TU)

(* How late a recovered clock may be.  The time unit is lost in rounding.  *)
(* The parameters of a frame are as old as its delta when it leaves, and   *)
(* the delta makes the recovered epoch later still, so it counts twice.    *)
Lateness == TU + 2 * MaxTxDelta

(* Does a clock show the slots of the peer, but for that?                  *)
Follows(e) == (e - peer.epoch) % CHANNEL_SEQUENCE_DURATION < Lateness

-----------------------------------------------------------------------------
(* AwdlManagementRunner::run_session.  Every round of its loop ends with a *)
(* new timer for the MIF; the select prefers what comes first in it.       *)

(* initialize_session_parameters and the start of run_session.             *)
Init ==
  /\ now = Start /\ epoch = Start
  /\ peer \in [epoch : Epochs, sequence : Sequences]
  /\ sync = None
  /\ peer_next \in {Start + j : j \in Jitter}
  /\ management = None
  /\ psf = Start + PSF_PERIOD /\ stale = Start + 1000000
  /\ mif = mif_transmition_time(epoch) /\ last_mif = Start
  /\ disturbed = FALSE
  /\ msdu = None

(* An off channel request is rejected.                                     *)
off_channel_request ==
  /\ management = None /\ ~disturbed
  /\ mif' = mif_transmition_time(epoch)
  /\ disturbed' = TRUE
  /\ UNCHANGED <<now, syncVars, management, psf, stale, last_mif, msdu>>

(* The stale peer timer: the peer may be gone, and the election that       *)
(* follows may adopt a cached one.                                         *)
stale_peer_tick ==
  /\ management = None /\ stale <= now
  /\ stale' = now + StaleTimeout
  /\ sync' \in {sync, None}
  /\ epoch' \in {epoch} \cup ({sync'} \ {None})
  /\ mif' = mif_transmition_time(epoch')
  /\ disturbed' = (disturbed \/ (epoch' # epoch /\ ~Follows(epoch)))
  /\ UNCHANGED <<now, peer, peer_next, management, psf, last_mif, msdu>>

(* A PSF or a MIF is due: it takes a TX buffer and is sent.                *)
send_psf ==
  /\ management = None /\ stale > now /\ psf <= now
  /\ psf' = psf + PSF_PERIOD
  /\ \E t \in SendTimes : management' = now + t
  /\ UNCHANGED <<now, syncVars, stale, mif, last_mif, disturbed, msdu>>

send_mif ==
  /\ management = None /\ stale > now /\ psf > now /\ mif <= now
  /\ \E t \in SendTimes : management' = now + t
  /\ last_mif' = now /\ disturbed' = FALSE
  /\ UNCHANGED <<now, syncVars, psf, stale, mif, msdu>>

action_frame_sent ==
  /\ management # None /\ management <= now
  /\ management' = None
  /\ mif' = mif_transmition_time(epoch)
  /\ UNCHANGED <<now, syncVars, psf, stale, last_mif, disturbed, msdu>>

-----------------------------------------------------------------------------
(* The peer sends its action frames, which may be lost.  It runs the same  *)
(* protocol: serialize_and_send_action_frame builds the frame, with the    *)
(* synchronization parameters of that time, waits for the beacon queue and *)
(* stamps the frame with the time it leaves.  tx_delta is the difference.  *)

(* process_action_frame: the recovered state is cached, and adopted if the *)
(* peer is, or now becomes, our master.                                    *)
process_action_frame(tx_delta) ==
  LET d == (now - tx_delta) - peer.epoch
  IN /\ sync' = recover_tsf_epoch(aw_seq_number(d), remaining_aw_length(d), tx_delta, now)
     /\ epoch' \in {epoch, sync'}

peer_sends ==
  /\ peer_next <= now
  /\ \/ \E tx_delta \in TxDeltas : process_action_frame(tx_delta)
     \/ UNCHANGED <<sync, epoch>>
  /\ \E j \in Jitter : peer_next' = peer_next + PSF_PERIOD + j
  /\ disturbed' = (disturbed \/ (epoch' # epoch /\ ~Follows(epoch)))
  /\ UNCHANGED <<now, peer, management, psf, stale, mif, last_mif, msdu>>

-----------------------------------------------------------------------------
(* AwdlMsduTxRunner::transmit_frame.                                       *)

(* The MSDU has its TX buffer: one for the peer waits for the next common  *)
(* slot, or is sent at once or thrown away; one for everybody waits for    *)
(* the multicast slot.  History: whether that is the slot of the peer.     *)
get_common_slot_for_peer ==
  /\ msdu = None
  /\ \/ /\ sync # None /\ ~overlapping
        /\ \E s \in nearest_common_slots :
             msdu' = [to |-> "Peer", until |-> slot_start_timestamp(sync, s, 0) + 110]
     \/ msdu' = [to |-> IF Follows(epoch) THEN "Group" ELSE "Strangers",
                 until |-> multicast_slot_start_timestamp + 110]
  /\ UNCHANGED <<now, syncVars, timerVars>>

transmit_edca ==
  /\ msdu # None /\ msdu.until <= now
  /\ msdu' = None
  /\ UNCHANGED <<now, syncVars, timerVars>>

-----------------------------------------------------------------------------
(* The times at which something happens.                                   *)
Deadlines ==
  {peer_next} \cup (IF management = None THEN {psf, stale, mif} ELSE {management})
              \cup (IF msdu = None THEN {} ELSE {msdu.until})

(* Timers are exact: time does not pass a deadline.                        *)
tick ==
  /\ \A t \in Deadlines : t > now
  /\ now' \in Deadlines /\ now' \in now .. Horizon
  /\ \A t \in Deadlines : now' <= t
  /\ UNCHANGED <<syncVars, timerVars, msdu>>

Next ==
  \/ off_channel_request \/ stale_peer_tick \/ send_psf \/ send_mif \/ action_frame_sent
  \/ peer_sends
  \/ get_common_slot_for_peer \/ transmit_edca
  \/ tick

Spec == Init /\ [][Next]_vars

-----------------------------------------------------------------------------
(* What we know of the clock of a peer is never early, and late by less    *)
(* than a time unit and twice the longest wait of a frame for the beacon   *)
(* queue, however its frames are lost and whatever the 16 bit window       *)
(* number does: every recovery starts afresh, so errors do not add up, and *)
(* the number wraps at the end of a channel sequence.                      *)
ClockFollowsPeer == sync # None => Follows(sync)

(* An MSDU that waited for a slot is sent in that slot by the clock of the *)
(* peer: when the peer is on our channel, or in multicast slot 9 if the    *)
(* peer was our master when the wait began.                                *)
MsduInSlot ==
  msdu # None /\ msdu.until <= now =>
    LET slot == current_slot_index(now - peer.epoch)
    IN /\ msdu.to = "Peer" => slot \in common_slots
       /\ msdu.to = "Group" => slot = 9

(* MIFs keep coming: unless an off channel request or the clock of a new   *)
(* master comes in between the task sends one at least every seven periods *)
(* of the PSFs, although a round that ends in the second half of a slot    *)
(* puts the MIF off by a whole channel sequence.  It takes frames that are *)
(* sent within one and a half time units, less what those of the peer wait,*)
(* so that the rounds of the PSFs end where the ticker puts them on either *)
(* clock, and a stale peer timer that comes once.                          *)
MifsHaveTime ==
  (\A t \in SendTimes \cup {0} : 2 * (t + MaxTxDelta) <= 3 * TU) /\ StaleTimeout >= 1000000

MifsKeepComing == MifsHaveTime /\ ~disturbed => now - last_mif <= 7 * PSF_PERIOD
=============================================================================

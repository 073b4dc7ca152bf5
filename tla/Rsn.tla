-------------------------------- MODULE Rsn --------------------------------
(***************************************************************************)
(* The keys of a WPA2 connection in foa_sta: the 4-way handshake (do_4whs, *)
(* rsn_initial.rs), the retransmitted messages and group key updates of an *)
(* established connection (handle_eapol_retry, rsn_retransmit.rs,          *)
(* rsn_group.rs) and the packet numbers of data frames (rsn.rs).           *)
(*                                                                         *)
(* The access point is external.  It numbers the EAPOL frames of a         *)
(* connection, retransmits each as often as it likes, and never uses a     *)
(* group key again once it was replaced.  A frame it sent may be received  *)
(* late, more than once or never.  A nonce stands for the exchange it      *)
(* belongs to: a MIC is valid for the exchange whose nonce it was made     *)
(* with.                                                                   *)
(***************************************************************************)
EXTENDS Integers, Sequences

CONSTANTS
  Keys,          \* group keys
  Protected,     \* does the access point protect group messages? both are accepted
  KeyIds,        \* the key IDs the access point uses, of 0 .. 3
  MaxNonce,      \* bound: connections
  MaxHandshake,  \* bound: frames of the 4-way handshake of a connection
  MaxCounter,    \* bound: all EAPOL frames of a connection
  MaxPn,         \* bound: protected frames to the station
  MaxGroupPn,    \* bound: frames under one group key
  RX_QUEUE_LEN,  \* received frames the interface queues
  MaxTxPn,       \* bound: packet numbers after which the station sends no more data
                 \* and no more group messages reach it
  None

ASSUME RsnAssumption ==
  /\ None \notin Keys /\ None \notin 0 .. 3 /\ None \notin {"M1", "M3", "G1", "M4", "G2"}
  /\ Protected \in BOOLEAN
  /\ KeyIds \subseteq 0 .. 3 /\ KeyIds # {}
  /\ MaxNonce \in Nat \ {0} /\ MaxHandshake \in 0 .. MaxCounter /\ MaxCounter \in Nat
  /\ MaxPn \in Nat /\ MaxGroupPn \in Nat /\ MaxTxPn \in Nat
  /\ RX_QUEUE_LEN \in Nat

VARIABLES
  \* ConnectionOperation
  phase,         \* where the handshake is; "Up" once the connection is established
  pending,       \* InitialHandshake
  gtk,           \* the group key of message 3
  \* CryptoState
  crypto,        \* nonce and counter of Message3Replay, the last group message, the
                 \* active group ID, receive floor and next packet number of the PTK
  group_keys,    \* SecurityAssociations::group_keys
  slots,         \* the keys in the hardware slots of the group IDs
  reply,         \* the answer handle_eapol_retry has yet to transmit
  \* the access point, and what it sent
  ap,
  group_pn,      \* how many frames it protected with a group key
  air,           \* its EAPOL frames
  unicast,       \* the packet numbers of its data frames to the station
  rx_queue,      \* its group frames the hardware decrypted, which wait for the router
  \* history of the connection
  delivered,     \* protected data frames handed on
  twice,         \* the keys of those handed on again, and of the floors they passed
  used,          \* packet numbers of protected frames the station sent
  reused,        \* was one used twice?
  acks           \* counters of the group messages it answered

handshakeVars == <<phase, pending, gtk>>
cryptoVars == <<crypto, group_keys, slots>>
apVars == <<ap, group_pn, air, unicast, rx_queue>>
historyVars == <<delivered, twice, used, reused, acks>>
vars == <<handshakeVars, cryptoVars, reply, apVars, historyVars>>

Optional(S) == S \cup {None}
Ids == 0 .. 3
NoKey == [key |-> None, floor |-> 0]
NoGtk == [key |-> None, id |-> 0]
NoFrame == [kind |-> None, nonce |-> 0, counter |-> 0, key |-> None, id |-> 0,
            rsc |-> 0, pn |-> None]
NoCrypto == [nonce |-> 0, counter |-> 0, last |-> NoFrame, active |-> 0,
             floor |-> 0, tx_pn |-> 1]
NoReply == [kind |-> None, counter |-> 0]

-----------------------------------------------------------------------------
(* TransientKeySecurityAssociation.                                        *)

(* Mutant: the number of the last frame passes once more.                  *)
valid_packet_number_Equal(floor, pn) == floor <= pn

(* update_and_validate_replay_counter: the number must have grown.         *)
valid_packet_number(floor, pn) == floor < pn

(* Mutant: the number is read and not advanced.                            *)
next_packet_number_Kept ==
  /\ used' = used \cup {crypto.tx_pn}
  /\ reused' = (reused \/ crypto.tx_pn \in used)
  /\ UNCHANGED crypto

(* next_packet_number, for one protected frame.                            *)
next_packet_number ==
  /\ crypto' = [crypto EXCEPT !.tx_pn = @ + 1]
  /\ used' = used \cup {crypto.tx_pn}
  /\ reused' = (reused \/ crypto.tx_pn \in used)

-----------------------------------------------------------------------------
(* do_4whs.                                                                *)

(* process_message_1 takes any message 1, which has no MIC.                *)
process_message_1(f) ==
  /\ phase = "M1" /\ f.kind = "M1"
  /\ pending' = [nonce |-> f.nonce, counter |-> f.counter]
  /\ phase' = "M2"
  /\ UNCHANGED <<gtk, cryptoVars, reply, apVars, historyVars>>

(* Message 2 was transmitted, or the attempt ends with an error.           *)
send_message_2 ==
  /\ phase = "M2"
  /\ \/ /\ phase' = "M3"
        /\ ap' = [ap EXCEPT !.m2 = @ \/ pending.nonce = ap.nonce]
     \/ phase' = "Failed" /\ UNCHANGED ap
  /\ UNCHANGED <<pending, gtk, cryptoVars, reply, group_pn, air, unicast, rx_queue, historyVars>>

(* InitialHandshake::message_1_retry: message 2 is sent again.             *)
message_1_retry(f) ==
  /\ phase = "M3" /\ f.kind = "M1"
  /\ f.nonce = pending.nonce /\ f.counter >= pending.counter
  /\ pending' = [pending EXCEPT !.counter = f.counter]
  /\ phase' = "M2"
  /\ UNCHANGED <<gtk, cryptoVars, reply, apVars, historyVars>>

(* decrypt_message_3: the kind and the MIC of message 3 are those of the   *)
(* exchange with this nonce.                                               *)
decrypt_message_3(f, nonce) == f.kind = "M3" /\ f.nonce = nonce

(* InitialHandshake::message_3.  Its MIC depends on the nonce the station  *)
(* drew for this attempt, so it is none of an earlier one.                 *)
message_3(f) ==
  /\ phase = "M3" /\ decrypt_message_3(f, ap.nonce)
  /\ f.nonce = pending.nonce /\ f.counter > pending.counter
  /\ pending' = [pending EXCEPT !.counter = f.counter]
  /\ gtk' = [key |-> f.key, id |-> f.id]
  /\ phase' = "M4"
  /\ UNCHANGED <<cryptoVars, reply, apVars, historyVars>>

(* CryptoState::new for the keys of the handshake: all counters start over *)
(* and both keys are programmed.  The state it replaces is dropped.        *)
install ==
  /\ crypto' = [nonce |-> pending.nonce, counter |-> pending.counter, last |-> NoFrame,
                active |-> gtk.id, floor |-> 0, tx_pn |-> 1]
  /\ group_keys' = [[i \in Ids |-> NoKey] EXCEPT ![gtk.id] = [key |-> gtk.key, floor |-> 0]]
  /\ slots' = [[i \in Ids |-> None] EXCEPT ![gtk.id] = gtk.key]

(* Message 4 was transmitted and the keys are installed, or the attempt    *)
(* ends with an error.                                                     *)
send_message_4 ==
  /\ phase = "M4"
  /\ \/ /\ phase' = "Up"
        /\ install
        /\ ap' = [ap EXCEPT !.m4 = TRUE]
        /\ delivered' = {} /\ used' = {} /\ acks' = {}
     \/ phase' = "Failed" /\ UNCHANGED <<cryptoVars, ap, delivered, used, acks>>
  /\ UNCHANGED <<pending, gtk, reply, group_pn, air, unicast, rx_queue, twice, reused>>

-----------------------------------------------------------------------------
(* handle_eapol_retry, on an established connection.                       *)

(* normalize: a clear frame has no packet number; that of a protected one  *)
(* must be new.                                                            *)
normalize(f) == f.pn # None => valid_packet_number(crypto.floor, f.pn)

(* decode_group_message_1: likewise for a group message.                   *)
decode_group_message_1(f) == f.kind = "G1" /\ f.nonce = crypto.nonce

(* The packet number of a protected frame is consumed before the EAPOL     *)
(* frame is looked at.                                                     *)
consume(f) == IF f.pn = None THEN crypto ELSE [crypto EXCEPT !.floor = f.pn]

(* Message3Replay::accept: a retried message 3 is newer and has the        *)
(* installed keys.                                                         *)
valid_retry(f) ==
  /\ f.counter > crypto.counter
  /\ f.id = crypto.active /\ f.key = group_keys[f.id].key

(* Mutant: a retried message 3 installs the pairwise key once more.        *)
accept_message_3_Reinstall(f) ==
  /\ valid_retry(f)
  /\ crypto' = [crypto EXCEPT !.counter = f.counter, !.floor = 0, !.tx_pn = 1]
  /\ UNCHANGED <<group_keys, slots>>

(* It moves the EAPOL counter and leaves the keys alone.                   *)
accept_message_3(f) ==
  /\ valid_retry(f)
  /\ crypto' = [consume(f) EXCEPT !.counter = f.counter]
  /\ UNCHANGED <<group_keys, slots>>

install_group_key(f) ==
  /\ group_keys' = [group_keys EXCEPT ![f.id] = [key |-> f.key, floor |-> f.rsc]]
  /\ slots' = [slots EXCEPT ![f.id] = f.key]

(* Mutant: no key counts as installed.                                     *)
already_installed_Never(f) == FALSE

already_installed(f) == group_keys[f.id].key = f.key

(* Mutant: the counter is not compared.                                    *)
newer_message_Any(f) == \A i \in Ids \ {f.id} : group_keys[i].key # f.key

(* accept_group_message commits a message with a larger counter, unless it *)
(* moves an installed key to another ID.                                   *)
newer_message(f) ==
  /\ f.counter > crypto.counter
  /\ \A i \in Ids \ {f.id} : group_keys[i].key # f.key

(* GroupMessage1::eq leaves out the packet number of the outer frame.      *)
repeated_message(f) ==
  /\ f.counter = crypto.counter
  /\ [f EXCEPT !.pn = None] = [crypto.last EXCEPT !.pn = None]

accept_group_message(f) ==
  \/ /\ newer_message(f)
     /\ crypto' = [consume(f) EXCEPT !.counter = f.counter, !.last = f, !.active = f.id]
     /\ IF already_installed(f) THEN UNCHANGED <<group_keys, slots>> ELSE install_group_key(f)
  \/ /\ repeated_message(f)
     /\ crypto' = consume(f)
     /\ UNCHANGED <<group_keys, slots>>

refuse(f) ==
  /\ f.kind = "G1" => ~newer_message(f) /\ ~repeated_message(f)
  /\ f.kind = "M3" => ~valid_retry(f)
  /\ crypto' = consume(f)
  /\ UNCHANGED <<group_keys, slots>>

(* A frame whose MIC is not of this exchange, or whose packet number is    *)
(* not new, changes nothing.                                               *)
handle_eapol_retry(f) ==
  /\ phase = "Up" /\ reply.kind = None
  /\ f.nonce = crypto.nonce
  /\ f.kind = "G1" => crypto.tx_pn <= MaxTxPn
  /\ normalize(f)
  /\ \/ /\ decode_group_message_1(f) /\ accept_group_message(f)
        /\ reply' = [kind |-> "G2", counter |-> f.counter]
     \/ /\ decrypt_message_3(f, crypto.nonce) /\ accept_message_3(f)
        /\ reply' = [kind |-> "M4", counter |-> f.counter]
     \/ refuse(f) /\ UNCHANGED reply
  /\ UNCHANGED <<handshakeVars, apVars, historyVars>>

(* send_eapol_key_frame: a pairwise message stays clear, since the access  *)
(* point may not have the pairwise key yet; a group message takes a packet *)
(* number of it.                                                           *)
send_eapol_key_frame(is_pairwise) ==
  IF is_pairwise THEN UNCHANGED <<crypto, used, reused>> ELSE next_packet_number

send_group_message_2 ==
  /\ reply.kind = "G2"
  /\ send_eapol_key_frame(FALSE)
  /\ acks' = acks \cup {reply.counter}
  /\ UNCHANGED ap

resend_message_4 ==
  /\ reply.kind = "M4"
  /\ send_eapol_key_frame(TRUE)
  /\ ap' = [ap EXCEPT !.m4 = TRUE]
  /\ UNCHANGED acks

(* The answer is sent once there is a TX buffer.                           *)
send_reply ==
  /\ phase = "Up"
  /\ send_group_message_2 \/ resend_message_4
  /\ reply' = NoReply
  /\ UNCHANGED <<handshakeVars, group_keys, slots, group_pn, air, unicast, rx_queue, delivered, twice>>

-----------------------------------------------------------------------------
(* Data frames.                                                            *)

(* A frame that passed the floor of a key is handed on.                    *)
deliver(d, by) ==
  /\ delivered' = delivered \cup {d}
  /\ twice' = IF d \in delivered THEN twice \cup {[key |-> d.key, by |-> by]} ELSE twice

(* The hardware decrypts a group frame with the key that is in the slot of *)
(* its ID when it is received, and queues it.  One that is received before *)
(* message 3 is not seen here: the router comes to message 3 after it, and *)
(* drops data frames until there is a connection.                          *)
receive_group_data(k, pn) ==
  LET i == ap.ids[k] IN
  /\ phase \in {"M4", "Up"} /\ Len(rx_queue) < RX_QUEUE_LEN
  /\ i # None /\ pn <= group_pn[k] /\ slots[i] = k
  /\ rx_queue' = Append(rx_queue, [key |-> k, id |-> i, pn |-> pn])
  /\ UNCHANGED <<handshakeVars, cryptoVars, reply, ap, group_pn, air, unicast, historyVars>>

(* process_potentially_wrapped_payload checks the frame against the floor  *)
(* of the key that has its ID by then.                                     *)
passes(f) ==
  /\ phase = "Up" /\ group_keys[f.id].key # None
  /\ valid_packet_number(group_keys[f.id].floor, f.pn)

(* RoutingRunner::run for the next group frame of the queue.               *)
handle_group_data ==
  /\ rx_queue # <<>> /\ rx_queue' = Tail(rx_queue)
  /\ LET f == Head(rx_queue) IN
     \/ /\ passes(f)
        /\ group_keys' = [group_keys EXCEPT ![f.id].floor = f.pn]
        /\ deliver([key |-> f.key, pn |-> f.pn], group_keys[f.id].key)
     \/ ~passes(f) /\ UNCHANGED <<group_keys, delivered, twice>>
  /\ UNCHANGED <<handshakeVars, crypto, slots, reply, ap, group_pn, air, unicast, used, reused,
                 acks>>

(* The same for a frame to the station, in one step: the pairwise key of a *)
(* connection stays as it is while the frame is queued.                    *)
handle_unicast_data(pn) ==
  /\ phase = "Up" /\ crypto.nonce = ap.nonce
  /\ valid_packet_number(crypto.floor, pn)
  /\ crypto' = [crypto EXCEPT !.floor = pn]
  /\ deliver([key |-> None, pn |-> pn], None)
  /\ UNCHANGED <<handshakeVars, group_keys, slots, reply, apVars, used, reused, acks>>

(* run_msdu_tx for one MSDU.                                               *)
run_msdu_tx ==
  /\ phase = "Up" /\ crypto.tx_pn <= MaxTxPn
  /\ next_packet_number
  /\ UNCHANGED <<handshakeVars, group_keys, slots, reply, apVars, delivered, twice, acks>>

(* request_group_rekey, while a reply may be waiting for its TX buffer.    *)
request_group_rekey ==
  /\ phase = "Up" /\ crypto.tx_pn <= MaxTxPn
  /\ send_eapol_key_frame(FALSE)
  /\ UNCHANGED <<handshakeVars, group_keys, slots, reply, apVars, delivered, twice, acks>>

-----------------------------------------------------------------------------
(* The access point.                                                       *)

Frame(m, c, p) ==
  [kind |-> m, nonce |-> ap.nonce, counter |-> c, key |-> IF m = "M1" THEN None ELSE ap.key,
   id |-> IF m = "M1" THEN 0 ELSE ap.ids[ap.key],
   rsc |-> IF m = "M1" THEN 0 ELSE group_pn[ap.key], pn |-> p]

ap_unchanged == UNCHANGED <<handshakeVars, cryptoVars, reply, rx_queue, historyVars>>

(* It sends message 1 until it has message 2, then message 3 until it has  *)
(* message 4, then group messages; each as often as it likes, with a new   *)
(* counter every time.                                                     *)
ap_eapol ==
  /\ \/ /\ ~ap.m2 /\ ap.counter < MaxHandshake
        /\ air' = air \cup {Frame("M1", ap.counter + 1, None)}
        /\ ap' = [ap EXCEPT !.counter = @ + 1]
     \/ /\ ap.m2 /\ ~ap.up /\ ap.counter < MaxHandshake
        /\ air' = air \cup {Frame("M3", ap.counter + 1, None)}
        /\ ap' = [ap EXCEPT !.counter = @ + 1]
     \/ /\ ap.up /\ ap.counter < MaxCounter /\ Protected /\ ap.pn < MaxPn
        /\ air' = air \cup {Frame("G1", ap.counter + 1, ap.pn + 1)}
        /\ ap' = [ap EXCEPT !.counter = @ + 1, !.pn = @ + 1]
     \/ /\ ap.up /\ ap.counter < MaxCounter /\ ~Protected
        /\ air' = air \cup {Frame("G1", ap.counter + 1, None)}
        /\ ap' = [ap EXCEPT !.counter = @ + 1]
  /\ ap_unchanged /\ UNCHANGED <<group_pn, unicast>>

(* It repeats its last group message in a frame of its own.                *)
ap_repeats(f) ==
  /\ ap.up /\ Protected /\ ap.pn < MaxPn
  /\ f.kind = "G1" /\ f.nonce = ap.nonce /\ f.counter = ap.counter
  /\ air' = air \cup {[f EXCEPT !.pn = ap.pn + 1]}
  /\ ap' = [ap EXCEPT !.pn = @ + 1]
  /\ ap_unchanged /\ UNCHANGED <<group_pn, unicast>>

(* Message 4 arrived.                                                      *)
ap_message_4 ==
  /\ ap.m4 /\ ~ap.up
  /\ ap' = [ap EXCEPT !.up = TRUE]
  /\ ap_unchanged /\ UNCHANGED <<group_pn, air, unicast>>

(* It replaces its group key by a new one, under another ID.               *)
ap_rekey(k, i) ==
  /\ ap.ids[k] = None /\ i # ap.ids[ap.key]
  /\ ap' = [ap EXCEPT !.key = k, !.ids[k] = i]
  /\ ap_unchanged /\ UNCHANGED <<group_pn, air, unicast>>

(* It sends data frames.                                                   *)
ap_data ==
  /\ \/ /\ group_pn[ap.key] < MaxGroupPn
        /\ group_pn' = [group_pn EXCEPT ![ap.key] = @ + 1]
        /\ UNCHANGED <<ap, unicast>>
     \/ /\ ap.up /\ ap.pn < MaxPn
        /\ ap' = [ap EXCEPT !.pn = @ + 1]
        /\ unicast' = unicast \cup {ap.pn + 1}
        /\ UNCHANGED group_pn
  /\ ap_unchanged /\ UNCHANGED air

(* The connection ends, or the caller gives up an attempt, and the next    *)
(* one begins.  The group keys of the access point outlive it.  The router *)
(* drops the data frames it finds in its queue before the next message 3.  *)
reconnect ==
  /\ ap.nonce < MaxNonce
  /\ phase' = "M1" /\ reply' = NoReply
  /\ ap' = [ap EXCEPT !.nonce = @ + 1, !.counter = 0, !.pn = 0, !.up = FALSE,
                      !.m2 = FALSE, !.m4 = FALSE]
  /\ unicast' = {} /\ rx_queue' = <<>>
  /\ UNCHANGED <<pending, gtk, cryptoVars, group_pn, air, historyVars>>

-----------------------------------------------------------------------------
Init ==
  /\ phase = "M1" /\ pending = [nonce |-> 0, counter |-> 0] /\ gtk = NoGtk
  /\ crypto = NoCrypto
  /\ group_keys = [i \in Ids |-> NoKey] /\ slots = [i \in Ids |-> None]
  /\ reply = NoReply
  /\ \E k \in Keys, i \in KeyIds :
       ap = [nonce |-> 1, counter |-> 0, pn |-> 0, up |-> FALSE, m2 |-> FALSE, m4 |-> FALSE,
             key |-> k, ids |-> [j \in Keys |-> IF j = k THEN i ELSE None]]
  /\ group_pn = [k \in Keys |-> 0]
  /\ air = {} /\ unicast = {} /\ rx_queue = <<>>
  /\ delivered = {} /\ twice = {} /\ used = {} /\ reused = FALSE /\ acks = {}

Next ==
  \/ \E f \in air : \/ process_message_1(f) \/ message_1_retry(f) \/ message_3(f)
                    \/ handle_eapol_retry(f) \/ ap_repeats(f)
  \/ send_message_2 \/ send_message_4 \/ send_reply
  \/ \E k \in Keys, pn \in 1 .. MaxGroupPn : receive_group_data(k, pn)
  \/ handle_group_data
  \/ \E pn \in unicast : handle_unicast_data(pn)
  \/ run_msdu_tx \/ request_group_rekey
  \/ ap_eapol \/ ap_message_4 \/ ap_data
  \/ \E k \in Keys, i \in KeyIds : ap_rekey(k, i)
  \/ reconnect

Spec == Init /\ [][Next]_vars

-----------------------------------------------------------------------------
Frames == [kind : {"M1", "M3", "G1", None}, nonce : 0 .. MaxNonce, counter : 0 .. MaxCounter,
           key : Optional(Keys), id : Ids, rsc : 0 .. MaxGroupPn, pn : Optional(1 .. MaxPn)]

(* The state has its types: the floors stay within what was sent, and the  *)
(* counters of an exchange within what the access point used.              *)
TypeOK ==
  /\ phase \in {"M1", "M2", "M3", "M4", "Up", "Failed"}
  /\ pending \in [nonce : 0 .. MaxNonce, counter : 0 .. MaxCounter]
  /\ gtk \in [key : Optional(Keys), id : Ids]
  /\ crypto \in [nonce : 0 .. MaxNonce, counter : 0 .. MaxCounter, last : Frames,
                 active : Ids, floor : 0 .. MaxPn, tx_pn : Nat]
  /\ group_keys \in [Ids -> [key : Optional(Keys), floor : 0 .. MaxGroupPn]]
  /\ slots \in [Ids -> Optional(Keys)]
  /\ reply \in [kind : {"G2", "M4", None}, counter : 0 .. MaxCounter]
  /\ ap \in [nonce : 1 .. MaxNonce, counter : 0 .. MaxCounter, pn : 0 .. MaxPn, up : BOOLEAN,
             m2 : BOOLEAN, m4 : BOOLEAN, key : Keys, ids : [Keys -> Optional(KeyIds)]]
  /\ group_pn \in [Keys -> 0 .. MaxGroupPn]
  /\ air \subseteq Frames
  /\ unicast \subseteq 1 .. MaxPn
  /\ rx_queue \in Seq([key : Keys, id : Ids, pn : 1 .. MaxGroupPn])
  /\ Len(rx_queue) <= RX_QUEUE_LEN
  /\ delivered \subseteq [key : Optional(Keys), pn : Nat]
  /\ twice \subseteq [key : Optional(Keys), by : Optional(Keys)]
  /\ used \subseteq Nat /\ acks \subseteq 1 .. MaxCounter
  /\ reused \in BOOLEAN

(* No protected frame passes the receive floor of its key when it was      *)
(* delivered before in the connection, however late, often or out of order *)
(* the frames and the key messages arrive: neither a retried message nor a *)
(* new group key lowers the floor of a key that is in use.  A group frame  *)
(* that is queued while its ID gets another key passes the floor of that   *)
(* key instead (the check goes by the ID), and may come a second time.     *)
NoFrameTwice == \A t \in twice : t.by # t.key

(* The absolute form, which does not hold: the router selects the floor by *)
(* the ID of a frame when it takes it from the queue, and a new key under  *)
(* that ID has a floor of its own.                                         *)
NoFrameRepeated == twice = {}

(* A packet number protects one frame: data, rekey requests and answers to *)
(* group messages share one counter, which only a new handshake restarts.  *)
NoPacketNumberReused == ~reused

(* Once the station answered a message about the group key the access      *)
(* point uses now, that key is the active one: an older or changed message *)
(* that arrives late does not bring another key back.                      *)
AckMeansInstalled ==
  phase = "Up" =>
    \A f \in air :
      (f.kind = "G1" /\ f.nonce = crypto.nonce /\ f.counter \in acks /\ f.key = ap.key)
      => crypto.active = f.id /\ slots[f.id] = f.key

(* During a connection no step takes a counter back: not the EAPOL replay  *)
(* counter, not the floor or packet number of the pairwise key, not the    *)
(* floor of a group key that stays installed.                              *)
CountersOnlyGrow ==
  [][crypto'.nonce = crypto.nonce =>
       /\ crypto'.counter >= crypto.counter
       /\ crypto'.floor >= crypto.floor
       /\ crypto'.tx_pn >= crypto.tx_pn
       /\ \A i \in Ids : group_keys'[i].key = group_keys[i].key
                           => group_keys'[i].floor >= group_keys[i].floor]_vars
=============================================================================

----------------------------- MODULE RsnProofs -----------------------------
(***************************************************************************)
(* Proofs about Rsn, for every set of group keys, every order of the       *)
(* frames of the access point and all bounds: no packet number is used     *)
(* twice, no counter is taken back, no protected frame passes the floor of *)
(* its key twice and an answered group key is the active one.              *)
(***************************************************************************)
EXTENDS Rsn, SequenceTheorems, TLAPS

(* The provers of a leaf that names none, with time for a slow machine.    *)
USE SMTT(30), SMTT(40), ZenonT(30), SMTT(50), SMTT(60)

-----------------------------------------------------------------------------
(* Types, group by group.                                                  *)

Phases == {"M1", "M2", "M3", "M4", "Up", "Failed"}
Pendings == [nonce : 0 .. MaxNonce, counter : 0 .. MaxCounter]
Gtks == [key : Optional(Keys), id : Ids]
Cryptos ==
  [nonce : 0 .. MaxNonce, counter : 0 .. MaxCounter, last : Frames,
   active : Ids, floor : 0 .. MaxPn, tx_pn : Nat]
GroupKeys == [key : Optional(Keys), floor : 0 .. MaxGroupPn]
Replies == [kind : {"G2", "M4", None}, counter : 0 .. MaxCounter]
Aps ==
  [nonce : 1 .. MaxNonce, counter : 0 .. MaxCounter, pn : 0 .. MaxPn, up : BOOLEAN,
   m2 : BOOLEAN, m4 : BOOLEAN, key : Keys, ids : [Keys -> Optional(KeyIds)]]

HandshakeType == phase \in Phases /\ pending \in Pendings /\ gtk \in Gtks
CryptoType == crypto \in Cryptos
GroupType == group_keys \in [Ids -> GroupKeys] /\ slots \in [Ids -> Optional(Keys)]
ReplyType == reply \in Replies /\ (reply.kind = "G2" => reply.counter # 0)
ApType == ap \in Aps /\ ap.ids[ap.key] # None
PnType == group_pn \in [Keys -> 0 .. MaxGroupPn]
AirType == air \subseteq Frames /\ \A f \in air : f.counter # 0
UnicastType == unicast \subseteq 1 .. MaxPn
GroupFrames == [key : Keys, id : Ids, pn : 1 .. MaxGroupPn]
QueueType == rx_queue \in Seq(GroupFrames) /\ Len(rx_queue) <= RX_QUEUE_LEN
Deliveries == [key : Optional(Keys), pn : Nat]
Repetitions == [key : Optional(Keys), by : Optional(Keys)]
DeliveredType == delivered \subseteq Deliveries /\ twice \subseteq Repetitions
UsedType == used \subseteq Nat /\ reused \in BOOLEAN
AcksType == acks \subseteq 1 .. MaxCounter

Types ==
  /\ HandshakeType /\ CryptoType /\ GroupType /\ ReplyType /\ ApType /\ PnType /\ AirType
  /\ UnicastType /\ QueueType /\ DeliveredType /\ UsedType /\ AcksType

(* The groups imply the type invariant.                                    *)
LEMMA TypesAre == Types => TypeOK
  BY Zenon DEF Types, TypeOK, HandshakeType, Phases, Pendings, Gtks, CryptoType, Cryptos,
     GroupType, GroupKeys, ReplyType, Replies, ApType, Aps, PnType, AirType, UnicastType,
     QueueType, GroupFrames, DeliveredType, Deliveries, Repetitions, UsedType, AcksType

(* A group whose variables do not change keeps its types.                  *)
LEMMA TypesKept ==
  ASSUME Types
  PROVE  /\ UNCHANGED handshakeVars => HandshakeType'
         /\ UNCHANGED crypto => CryptoType'
         /\ UNCHANGED <<group_keys, slots>> => GroupType'
         /\ UNCHANGED cryptoVars => CryptoType' /\ GroupType'
         /\ UNCHANGED reply => ReplyType'
         /\ UNCHANGED ap => ApType'
         /\ UNCHANGED group_pn => PnType'
         /\ UNCHANGED air => AirType'
         /\ UNCHANGED unicast => UnicastType'
         /\ UNCHANGED rx_queue => QueueType'
         /\ UNCHANGED apVars => ApType' /\ PnType' /\ AirType' /\ UnicastType' /\ QueueType'
         /\ UNCHANGED <<delivered, twice>> => DeliveredType'
         /\ UNCHANGED <<used, reused>> => UsedType'
         /\ UNCHANGED acks => AcksType'
         /\ UNCHANGED historyVars => DeliveredType' /\ UsedType' /\ AcksType'
<1>1. UNCHANGED handshakeVars => HandshakeType'
  BY DEF Types, HandshakeType, handshakeVars
<1>2. UNCHANGED crypto => CryptoType'
  BY DEF Types, CryptoType
<1>3. UNCHANGED <<group_keys, slots>> => GroupType'
  BY DEF Types, GroupType
<1>4. UNCHANGED reply => ReplyType'
  BY DEF Types, ReplyType
<1>5. UNCHANGED ap => ApType'
  BY DEF Types, ApType
<1>6. UNCHANGED group_pn => PnType'
  BY DEF Types, PnType
<1>7. UNCHANGED air => AirType'
  BY DEF Types, AirType
<1>8. UNCHANGED unicast => UnicastType'
  BY DEF Types, UnicastType
<1>9. UNCHANGED <<delivered, twice>> => DeliveredType'
  BY DEF Types, DeliveredType
<1>10. UNCHANGED <<used, reused>> => UsedType'
  BY DEF Types, UsedType
<1>11. UNCHANGED acks => AcksType'
  BY DEF Types, AcksType
<1>12. UNCHANGED rx_queue => QueueType'
  BY DEF Types, QueueType
<1> QED
  BY <1>1, <1>2, <1>3, <1>4, <1>5, <1>6, <1>7, <1>8, <1>9, <1>10, <1>11, <1>12
     DEF cryptoVars, apVars, historyVars

-----------------------------------------------------------------------------
(* What the handlers do to the crypto state.                               *)

(* The constants, apart from each other.                                   *)
LEMMA Constants ==
  /\ None \notin Keys /\ None \notin Ids /\ KeyIds \subseteq Ids /\ None \in Optional(Keys)
  /\ Keys \subseteq Optional(Keys) /\ KeyIds \subseteq Optional(KeyIds)
  /\ MaxNonce \in Nat \ {0} /\ MaxCounter \in Nat /\ MaxPn \in Nat /\ MaxGroupPn \in Nat
  /\ MaxTxPn \in Nat /\ MaxHandshake \in Nat /\ MaxHandshake <= MaxCounter
  /\ RX_QUEUE_LEN \in Nat
  BY RsnAssumption DEF Ids, Optional

(* Consuming a packet number moves the floor of the pairwise key up.       *)
LEMMA ConsumeEffect ==
  ASSUME crypto \in Cryptos, NEW f \in Frames, normalize(f)
  PROVE  /\ consume(f) \in Cryptos
         /\ consume(f).nonce = crypto.nonce /\ consume(f).counter = crypto.counter
         /\ consume(f).active = crypto.active /\ consume(f).tx_pn = crypto.tx_pn
         /\ consume(f).floor >= crypto.floor
<1>1. CASE f.pn = None
  BY <1>1 DEF consume, Cryptos
<1>2. CASE f.pn # None
  <2>1. f.pn \in 1 .. MaxPn /\ f.pn > crypto.floor /\ crypto.floor \in 0 .. MaxPn
    BY <1>2 DEF Frames, Optional, normalize, valid_packet_number, Cryptos
  <2>2. consume(f) = [crypto EXCEPT !.floor = f.pn]
    BY <1>2, Zenon DEF consume
  <2>3. f.pn \in 0 .. MaxPn /\ f.pn >= crypto.floor
    BY <2>1, Constants
  <2> QED
    BY <2>2, <2>3 DEF Cryptos
<1> QED
  BY <1>1, <1>2

(* What handling an EAPOL frame on an established connection does: it      *)
(* leaves the keys and the counter, it accepts a retry of the installed    *)
(* keys, or it accepts a newer group message.                              *)
Unmoved(f) ==
  /\ UNCHANGED <<group_keys, slots>>
  /\ crypto'.counter = crypto.counter /\ crypto'.active = crypto.active
  /\ reply' = reply \/ reply'.counter = crypto.counter

Retried(f) ==
  /\ UNCHANGED <<group_keys, slots>>
  /\ f.kind = "M3" /\ valid_retry(f)
  /\ crypto'.counter = f.counter /\ crypto'.active = crypto.active
  /\ reply'.counter = f.counter

Rekeyed(f) ==
  /\ f.kind = "G1" /\ newer_message(f)
  /\ IF already_installed(f) THEN UNCHANGED <<group_keys, slots>> ELSE install_group_key(f)
  /\ crypto'.counter = f.counter /\ crypto'.active = f.id
  /\ reply'.counter = f.counter

(* One of the three happens, and the pairwise key keeps its packet number. *)
LEMMA HandleEffect ==
  ASSUME Types, NEW f \in air, handle_eapol_retry(f)
  PROVE  /\ f \in Frames /\ f.nonce = crypto.nonce /\ phase = "Up"
         /\ crypto' \in Cryptos /\ crypto'.nonce = crypto.nonce
         /\ crypto'.tx_pn = crypto.tx_pn /\ crypto'.floor >= crypto.floor
         /\ Unmoved(f) \/ Retried(f) \/ Rekeyed(f)
<1> DEFINE c == consume(f)
<1>1. /\ f \in Frames /\ f.nonce = crypto.nonce /\ phase = "Up" /\ normalize(f)
      /\ f.counter \in 0 .. MaxCounter /\ f.id \in Ids /\ crypto \in Cryptos
  BY DEF handle_eapol_retry, Types, AirType, CryptoType, Frames
<1>2. /\ c \in Cryptos /\ c.nonce = crypto.nonce /\ c.counter = crypto.counter
      /\ c.active = crypto.active /\ c.tx_pn = crypto.tx_pn /\ c.floor >= crypto.floor
  BY <1>1, ConsumeEffect
<1> HIDE DEF c
<1>3. CASE /\ crypto' = c /\ UNCHANGED <<group_keys, slots>>
           /\ reply' = reply \/ reply'.counter = crypto.counter
  BY <1>1, <1>2, <1>3 DEF Unmoved
<1>4. CASE /\ decrypt_message_3(f, crypto.nonce) /\ accept_message_3(f)
           /\ reply' = [kind |-> "M4", counter |-> f.counter]
  <2>1. crypto' = [c EXCEPT !.counter = f.counter]
    BY <1>4, Zenon DEF accept_message_3, c
  <2>2. /\ crypto' \in Cryptos /\ crypto'.nonce = c.nonce /\ crypto'.tx_pn = c.tx_pn
        /\ crypto'.floor = c.floor /\ crypto'.counter = f.counter /\ crypto'.active = c.active
    BY <1>1, <1>2, <2>1 DEF Cryptos
  <2>3. Retried(f)
    BY <1>2, <1>4, <2>2 DEF Retried, accept_message_3, decrypt_message_3
  <2> QED
    BY <1>1, <1>2, <2>2, <2>3
<1>5. CASE /\ f.kind = "G1" /\ newer_message(f)
           /\ crypto' = [c EXCEPT !.counter = f.counter, !.last = f, !.active = f.id]
           /\ IF already_installed(f) THEN UNCHANGED <<group_keys, slots>>
                                      ELSE install_group_key(f)
           /\ reply' = [kind |-> "G2", counter |-> f.counter]
  <2>1. /\ crypto' \in Cryptos /\ crypto'.nonce = c.nonce /\ crypto'.tx_pn = c.tx_pn
        /\ crypto'.floor = c.floor /\ crypto'.counter = f.counter /\ crypto'.active = f.id
    BY <1>1, <1>2, <1>5, ZenonT(30) DEF Cryptos
  <2>2. Rekeyed(f)
    BY <1>5, <2>1 DEF Rekeyed
  <2> QED
    BY <1>1, <1>2, <2>1, <2>2
<1>6. CASE refuse(f) /\ UNCHANGED reply
  <2>1. crypto' = c /\ UNCHANGED <<group_keys, slots>>
    BY <1>6 DEF refuse, c
  <2> QED
    BY <1>3, <1>6, <2>1
<1>7. CASE /\ decode_group_message_1(f) /\ accept_group_message(f)
           /\ reply' = [kind |-> "G2", counter |-> f.counter]
  <2>1. CASE repeated_message(f) /\ crypto' = consume(f) /\ UNCHANGED <<group_keys, slots>>
    <3>1. reply'.counter = crypto.counter
      BY <1>7, <2>1 DEF repeated_message
    <3> QED
      BY <1>3, <2>1, <3>1 DEF c
  <2>2. CASE /\ newer_message(f)
             /\ crypto' = [consume(f) EXCEPT !.counter = f.counter, !.last = f, !.active = f.id]
             /\ IF already_installed(f) THEN UNCHANGED <<group_keys, slots>>
                                        ELSE install_group_key(f)
    BY <1>5, <1>7, <2>2 DEF decode_group_message_1, c
  <2> QED
    BY <1>7, <2>1, <2>2 DEF accept_group_message
<1> QED
  BY <1>4, <1>6, <1>7, Zenon DEF handle_eapol_retry

(* next_packet_number moves the packet number of the pairwise key by one.  *)
LEMMA NumberEffect ==
  ASSUME crypto \in Cryptos, next_packet_number
  PROVE  /\ crypto' \in Cryptos /\ crypto'.tx_pn = crypto.tx_pn + 1
         /\ crypto'.nonce = crypto.nonce /\ crypto'.counter = crypto.counter
         /\ crypto'.active = crypto.active /\ crypto'.floor = crypto.floor
  BY DEF next_packet_number, Cryptos

(* Installing the keys of a handshake starts all counters over.            *)
LEMMA InstallEffect ==
  ASSUME Types, install
  PROVE  /\ CryptoType' /\ GroupType'
         /\ crypto'.nonce = pending.nonce /\ crypto'.counter = pending.counter
         /\ crypto'.active = gtk.id /\ crypto'.floor = 0 /\ crypto'.tx_pn = 1
         /\ gtk.id \in Ids /\ gtk.key \in Optional(Keys)
         /\ \A i \in Ids : group_keys'[i] = IF i = gtk.id THEN [key |-> gtk.key, floor |-> 0]
                                                         ELSE NoKey
         /\ \A i \in Ids : slots'[i] = IF i = gtk.id THEN gtk.key ELSE None
<1>1. /\ pending.nonce \in 0 .. MaxNonce /\ pending.counter \in 0 .. MaxCounter
      /\ gtk.id \in Ids /\ gtk.key \in Optional(Keys)
  BY DEF Types, HandshakeType, Pendings, Gtks
<1>2. NoFrame \in Frames /\ 0 \in 0 .. MaxPn /\ 0 \in 0 .. MaxGroupPn
  BY Constants DEF NoFrame, Frames, Optional, Ids
<1>3. /\ CryptoType'
      /\ crypto'.nonce = pending.nonce /\ crypto'.counter = pending.counter
      /\ crypto'.active = gtk.id /\ crypto'.floor = 0 /\ crypto'.tx_pn = 1
  BY <1>1, <1>2 DEF install, CryptoType, Cryptos
<1>4. /\ group_keys' \in [Ids -> GroupKeys]
      /\ \A i \in Ids : group_keys'[i] = IF i = gtk.id THEN [key |-> gtk.key, floor |-> 0]
                                                      ELSE NoKey
  BY <1>1, <1>2, Constants DEF install, GroupKeys, NoKey
<1>5. /\ slots' \in [Ids -> Optional(Keys)]
      /\ \A i \in Ids : slots'[i] = IF i = gtk.id THEN gtk.key ELSE None
  BY <1>1, Constants DEF install
<1> QED
  BY <1>1, <1>3, <1>4, <1>5 DEF GroupType

(* Handling an EAPOL frame keeps the types.                                *)
LEMMA HandleTypes ==
  ASSUME Types, NEW f \in air, handle_eapol_retry(f)
  PROVE  Types'
<1>1. f \in Frames /\ crypto' \in Cryptos
  BY HandleEffect
<1>2. /\ f.counter \in 0 .. MaxCounter /\ f.counter # 0 /\ f.id \in Ids
      /\ f.key \in Optional(Keys) /\ f.rsc \in 0 .. MaxGroupPn
  BY <1>1 DEF Frames, Types, AirType
<1>3. GroupType'
  <2>1. CASE UNCHANGED <<group_keys, slots>>
    BY <2>1, TypesKept
  <2>2. CASE install_group_key(f)
    BY <1>2, <2>2 DEF install_group_key, Types, GroupType, GroupKeys
  <2> QED
    BY <2>1, <2>2, HandleEffect DEF Unmoved, Retried, Rekeyed
<1>4. ReplyType'
  <2>1. CASE reply' = [kind |-> "G2", counter |-> f.counter]
    BY <1>2, <2>1 DEF ReplyType, Replies
  <2>2. CASE reply' = [kind |-> "M4", counter |-> f.counter]
    BY <1>2, <2>2 DEF ReplyType, Replies
  <2>3. CASE UNCHANGED reply
    BY <2>3, TypesKept
  <2> QED
    BY <2>1, <2>2, <2>3 DEF handle_eapol_retry
<1>5. UNCHANGED <<handshakeVars, apVars, historyVars>>
  BY DEF handle_eapol_retry
<1> QED
  BY <1>1, <1>3, <1>4, <1>5, TypesKept DEF Types, CryptoType

(* A frame the access point sends about its group key.                     *)
LEMMA FrameTyped ==
  ASSUME Types, NEW m \in {"M1", "M3", "G1"}, NEW c \in 1 .. MaxCounter,
         NEW p \in Optional(1 .. MaxPn)
  PROVE  Frame(m, c, p) \in Frames /\ Frame(m, c, p).counter = c
         /\ Frame(m, c, p).kind = m /\ Frame(m, c, p).nonce = ap.nonce
         /\ (m # "M1" => Frame(m, c, p).key = ap.key /\ Frame(m, c, p).id = ap.ids[ap.key])
<1>1. /\ ap.nonce \in 0 .. MaxNonce /\ ap.key \in Optional(Keys)
      /\ ap.ids[ap.key] \in Ids /\ group_pn[ap.key] \in 0 .. MaxGroupPn
  BY Constants DEF Types, ApType, Aps, PnType, Optional
<1>2. 0 \in Ids /\ 0 \in 0 .. MaxGroupPn /\ None \in Optional(Keys) /\ c \in 0 .. MaxCounter
  BY Constants DEF Ids
<1> QED
  BY <1>1, <1>2 DEF Frame, Frames

(* What the access point does when it sends a new EAPOL frame.             *)
Sends(f) ==
  /\ air' = air \cup {f} /\ f.nonce = ap.nonce /\ f.counter = ap.counter + 1
  /\ f.kind # "M1" => f.key = ap.key /\ f.id = ap.ids[ap.key]
  /\ ap' \in Aps /\ ap'.nonce = ap.nonce /\ ap'.counter = ap.counter + 1
  /\ ap'.key = ap.key /\ ap'.ids = ap.ids

(* It does so in every case of ap_eapol.                                   *)
LEMMA EapolEffect ==
  ASSUME Types, ap_eapol
  PROVE  \E f \in Frames : Sends(f)
<1>0. ap \in Aps /\ ap.counter \in Nat /\ ap.pn \in Nat
  BY DEF Types, ApType, Aps
<1>1. ASSUME NEW m \in {"M1", "M3", "G1"}, NEW p \in Optional(1 .. MaxPn),
             ap.counter < MaxCounter, air' = air \cup {Frame(m, ap.counter + 1, p)},
             ap' \in Aps, ap'.nonce = ap.nonce, ap'.counter = ap.counter + 1,
             ap'.key = ap.key, ap'.ids = ap.ids
      PROVE  \E f \in Frames : Sends(f)
  <2> DEFINE f == Frame(m, ap.counter + 1, p)
  <2>1. ap.counter + 1 \in 1 .. MaxCounter
    BY <1>0, <1>1, Constants
  <2>2. /\ f \in Frames /\ f.counter = ap.counter + 1 /\ f.nonce = ap.nonce
        /\ f.kind # "M1" => f.key = ap.key /\ f.id = ap.ids[ap.key]
    BY <2>1, FrameTyped
  <2> HIDE DEF f
  <2> QED
    BY <1>1, <2>2 DEF f, Sends
<1>2. ap.counter < MaxHandshake => ap.counter < MaxCounter
  BY <1>0, Constants
<1>3. ASSUME ap.counter < MaxCounter, ap' = [ap EXCEPT !.counter = @ + 1]
      PROVE  /\ ap' \in Aps /\ ap'.nonce = ap.nonce /\ ap'.counter = ap.counter + 1
             /\ ap'.key = ap.key /\ ap'.ids = ap.ids
  BY <1>0, <1>3, Constants DEF Aps
<1>4. CASE /\ ap.counter < MaxHandshake /\ ap' = [ap EXCEPT !.counter = @ + 1]
           /\ \/ air' = air \cup {Frame("M1", ap.counter + 1, None)}
              \/ air' = air \cup {Frame("M3", ap.counter + 1, None)}
  <2>1. None \in Optional(1 .. MaxPn) /\ "M1" \in {"M1", "M3", "G1"} /\ "M3" \in {"M1", "M3", "G1"}
    BY DEF Optional
  <2>2. ap.counter < MaxCounter
    BY <1>2, <1>4
  <2>3. /\ ap' \in Aps /\ ap'.nonce = ap.nonce /\ ap'.counter = ap.counter + 1
        /\ ap'.key = ap.key /\ ap'.ids = ap.ids
    BY <1>3, <1>4, <2>2
  <2>4. CASE air' = air \cup {Frame("M1", ap.counter + 1, None)}
    BY <1>1, <2>1, <2>2, <2>3, <2>4, Zenon
  <2>5. CASE air' = air \cup {Frame("M3", ap.counter + 1, None)}
    BY <1>1, <2>1, <2>2, <2>3, <2>5, Zenon
  <2> QED
    BY <1>4, <2>4, <2>5
<1>5. CASE /\ ap.counter < MaxCounter /\ ap.pn < MaxPn
           /\ air' = air \cup {Frame("G1", ap.counter + 1, ap.pn + 1)}
           /\ ap' = [ap EXCEPT !.counter = @ + 1, !.pn = @ + 1]
  <2>1. ap.pn + 1 \in Optional(1 .. MaxPn) /\ "G1" \in {"M1", "M3", "G1"}
    BY <1>0, <1>5, Constants DEF Optional
  <2>2. /\ ap' \in Aps /\ ap'.nonce = ap.nonce /\ ap'.counter = ap.counter + 1
        /\ ap'.key = ap.key /\ ap'.ids = ap.ids
    <3>1. /\ ap.counter + 1 \in 0 .. MaxCounter /\ ap.pn + 1 \in 0 .. MaxPn
          /\ ap' = [ap EXCEPT !.counter = ap.counter + 1, !.pn = ap.pn + 1]
      BY <1>0, <1>5, Constants
    <3> QED
      BY <1>0, <3>1, ZenonT(30) DEF Aps
  <2>3. /\ ap.counter < MaxCounter
        /\ air' = air \cup {Frame("G1", ap.counter + 1, ap.pn + 1)}
    BY <1>5
  <2> QED
    BY <1>1, <2>1, <2>2, <2>3, Zenon
<1>6. CASE /\ ap.counter < MaxCounter
           /\ air' = air \cup {Frame("G1", ap.counter + 1, None)}
           /\ ap' = [ap EXCEPT !.counter = @ + 1]
  <2>1. None \in Optional(1 .. MaxPn) /\ "G1" \in {"M1", "M3", "G1"}
    BY DEF Optional
  <2> QED
    BY <1>1, <1>3, <1>6, <2>1
<1> QED
  BY <1>4, <1>5, <1>6 DEF ap_eapol

-----------------------------------------------------------------------------
(* What a step does, for the access point and for the station.             *)

ApKept ==
  /\ ap' \in Aps /\ ap'.nonce = ap.nonce /\ ap'.counter = ap.counter
  /\ ap'.key = ap.key /\ ap'.ids = ap.ids

ApSame == UNCHANGED air /\ ApKept

ApRepeats ==
  /\ ApKept
  /\ \E f \in air, g \in Frames :
       /\ air' = air \cup {g} /\ g.kind = f.kind /\ g.nonce = f.nonce /\ g.counter = f.counter
       /\ g.key = f.key /\ g.id = f.id

ApRekeys ==
  /\ UNCHANGED air /\ ap' \in Aps /\ ap'.nonce = ap.nonce /\ ap'.counter = ap.counter
  /\ \E k \in Keys : /\ ap.ids[k] = None /\ ap'.key = k /\ ap'.ids[k] # None
                     /\ \A j \in Keys \ {k} : ap'.ids[j] = ap.ids[j]

ApRestarts ==
  /\ reconnect /\ UNCHANGED air
  /\ ap' \in Aps /\ ap'.nonce = ap.nonce + 1 /\ ap'.key = ap.key /\ ap'.ids = ap.ids

ApMoves == ApSame \/ (\E f \in Frames : Sends(f)) \/ ApRepeats \/ ApRekeys \/ ApRestarts

(* What a step does to the frames on the air and the keys of the access    *)
(* point.                                                                  *)
LEMMA ApSteps ==
  ASSUME Types, [Next]_vars
  PROVE  ApMoves
<1>0. ap \in Aps /\ ap.pn \in Nat /\ ap.nonce \in Nat
  BY DEF Types, ApType, Aps
<1>1. UNCHANGED <<ap, air>> => ApSame
  BY <1>0 DEF ApSame, ApKept
<1>2. UNCHANGED apVars => ApSame
  BY <1>1 DEF apVars
<1>3. \A f \in air : process_message_1(f) \/ message_1_retry(f) \/ message_3(f)
                       \/ handle_eapol_retry(f) => ApSame
  BY <1>2 DEF process_message_1, message_1_retry, message_3, handle_eapol_retry
<1>4. ASSUME send_message_2 \/ send_message_4 \/ send_reply \/ ap_message_4 PROVE ApSame
  <2>1. ApKept
    BY <1>0, <1>4, ZenonT(30) DEF send_message_2, send_message_4, send_reply,
       send_group_message_2, resend_message_4, ap_message_4, ApKept, Aps
  <2> QED
    BY <1>4, <2>1 DEF send_message_2, send_message_4, send_reply, ap_message_4, ApSame
<1>5. /\ \A k \in Keys, pn \in 1 .. MaxGroupPn : receive_group_data(k, pn) => ApSame
      /\ handle_group_data => ApSame
      /\ \A pn \in unicast : handle_unicast_data(pn) => ApSame
      /\ run_msdu_tx \/ request_group_rekey \/ UNCHANGED vars => ApSame
  BY <1>1, <1>2, ZenonT(30) DEF receive_group_data, handle_group_data, handle_unicast_data,
     run_msdu_tx, request_group_rekey, vars
<1>6. ASSUME ap.pn < MaxPn, ap' = [ap EXCEPT !.pn = @ + 1] PROVE ApKept
  <2>1. ap.pn + 1 \in 0 .. MaxPn
    BY <1>0, <1>6, Constants
  <2> QED
    BY <1>0, <1>6, <2>1, ZenonT(30) DEF ApKept, Aps
<1>7. ASSUME NEW f \in air, ap_repeats(f) PROVE ApRepeats
  <2> DEFINE g == [f EXCEPT !.pn = ap.pn + 1]
  <2>1. f \in Frames /\ ap.pn + 1 \in 1 .. MaxPn
    BY <1>0, <1>7, Constants DEF Types, AirType, ap_repeats
  <2>2. /\ g \in Frames /\ g.kind = f.kind /\ g.nonce = f.nonce /\ g.counter = f.counter
        /\ g.key = f.key /\ g.id = f.id
    BY <2>1 DEF Frames, Optional
  <2>3. air' = air \cup {g} /\ ApKept
    BY <1>6, <1>7 DEF ap_repeats
  <2> HIDE DEF g
  <2> QED
    BY <2>2, <2>3 DEF ApRepeats
<1>8. ap_eapol => \E f \in Frames : Sends(f)
  BY EapolEffect
<1>9. ap_data => ApSame
  BY <1>1, <1>6 DEF ap_data, ApSame
<1>10. ASSUME NEW k \in Keys, NEW i \in KeyIds, ap_rekey(k, i) PROVE ApRekeys
  <2>1. /\ ap' = [ap EXCEPT !.key = k, !.ids[k] = i] /\ ap.ids[k] = None /\ UNCHANGED air
        /\ i \in Optional(KeyIds) /\ i # None
    BY <1>10, Constants DEF ap_rekey
  <2>2. ap' \in Aps
    BY <1>0, <2>1, ZenonT(30) DEF Aps
  <2>3. /\ ap'.nonce = ap.nonce /\ ap'.counter = ap.counter /\ ap'.key = k /\ ap'.ids[k] = i
        /\ \A j \in Keys \ {k} : ap'.ids[j] = ap.ids[j]
    BY <1>0, <2>1 DEF Aps
  <2> QED
    BY <2>1, <2>2, <2>3 DEF ApRekeys
<1>11. ASSUME reconnect PROVE ApRestarts
  <2>1. /\ ap.nonce + 1 \in 1 .. MaxNonce /\ 0 \in 0 .. MaxCounter /\ 0 \in 0 .. MaxPn
        /\ ap' = [ap EXCEPT !.nonce = ap.nonce + 1, !.counter = 0, !.pn = 0, !.up = FALSE,
                            !.m2 = FALSE, !.m4 = FALSE]
    BY <1>0, <1>11, Constants DEF reconnect
  <2>2. ap' \in Aps /\ ap'.nonce = ap.nonce + 1 /\ ap'.key = ap.key /\ ap'.ids = ap.ids
    BY <1>0, <2>1, ZenonT(30) DEF Aps
  <2> QED
    BY <1>11, <2>2 DEF reconnect, ApRestarts
<1> QED
  BY <1>3, <1>4, <1>5, <1>7, <1>8, <1>9, <1>10, <1>11, Zenon DEF Next, ApMoves

Idle == UNCHANGED <<cryptoVars, reply, historyVars>>

Ends ==
  /\ phase = "M4" /\ install /\ phase' = "Up"
  /\ delivered' = {} /\ used' = {} /\ acks' = {} /\ UNCHANGED <<reply, twice, reused>>

Numbers == next_packet_number /\ UNCHANGED <<group_keys, slots, reply, delivered, twice, acks>>

StationMoves ==
  \/ Idle \/ Ends \/ Numbers \/ send_reply \/ reconnect
  \/ \E f \in air : handle_eapol_retry(f)
  \/ handle_group_data
  \/ \E pn \in unicast : handle_unicast_data(pn)

(* What a step does to the crypto state, the answer that is due and the    *)
(* history.                                                                *)
LEMMA StationSteps ==
  ASSUME [Next]_vars
  PROVE  StationMoves
<1>1. \A f \in air : process_message_1(f) \/ message_1_retry(f) \/ message_3(f) => Idle
  BY DEF process_message_1, message_1_retry, message_3, Idle
<1>2. /\ send_message_2 \/ ap_unchanged \/ UNCHANGED vars => Idle
      /\ \A k \in Keys, pn \in 1 .. MaxGroupPn : receive_group_data(k, pn) => Idle
  BY DEF send_message_2, ap_unchanged, vars, receive_group_data, Idle
<1>3. send_message_4 => Idle \/ Ends
  BY DEF send_message_4, Idle, Ends, historyVars
<1>4. run_msdu_tx \/ request_group_rekey => Numbers
  BY ZenonT(30) DEF run_msdu_tx, request_group_rekey, send_eapol_key_frame, Numbers
<1>5. /\ ap_eapol \/ ap_message_4 \/ ap_data => ap_unchanged
      /\ \A k \in Keys, i \in KeyIds : ap_rekey(k, i) => ap_unchanged
      /\ \A f \in air : ap_repeats(f) => ap_unchanged
  BY ZenonT(30) DEF ap_eapol, ap_message_4, ap_data, ap_rekey, ap_repeats
<1> QED
  BY <1>1, <1>2, <1>3, <1>4, <1>5, ZenonT(30) DEF Next, StationMoves

-----------------------------------------------------------------------------
(* Types.                                                                  *)

(* The frame the router takes from the queue.                              *)
LEMMA HeadTyped ==
  ASSUME Types, handle_group_data
  PROVE  /\ Head(rx_queue) \in GroupFrames /\ Head(rx_queue) = rx_queue[1]
         /\ Len(rx_queue) \in Nat \ {0} /\ rx_queue' = Tail(rx_queue)
  BY DEF Types, QueueType, handle_group_data

(* Every step keeps the types of the crypto state and the history.         *)
LEMMA StationTypes ==
  ASSUME Types, [Next]_vars
  PROVE  CryptoType' /\ GroupType' /\ ReplyType' /\ DeliveredType' /\ UsedType' /\ AcksType'
<1>0. crypto \in Cryptos /\ NoReply \in Replies /\ NoReply.kind # "G2"
  BY RsnAssumption DEF Types, CryptoType, NoReply, Replies
<1>1. CASE Idle
  BY <1>1, TypesKept DEF Idle
<1>2. CASE Ends
  BY <1>2, InstallEffect, TypesKept DEF Ends, DeliveredType, UsedType, AcksType, Types
<1>3. next_packet_number => CryptoType' /\ UsedType'
  BY <1>0, NumberEffect DEF next_packet_number, CryptoType, UsedType, Types, Cryptos
<1>4. CASE Numbers
  BY <1>3, <1>4, TypesKept DEF Numbers
<1>5. CASE send_reply
  <2>1. CryptoType' /\ UsedType'
    BY <1>3, <1>5, TypesKept DEF send_reply, send_group_message_2, resend_message_4,
       send_eapol_key_frame
  <2>2. AcksType'
    <3>1. reply.kind = "G2" => reply.counter \in 1 .. MaxCounter
      BY Constants DEF Types, ReplyType, Replies
    <3>2. acks \subseteq 1 .. MaxCounter
      BY DEF AcksType, Types
    <3> QED
      BY <1>5, <3>1, <3>2, ZenonT(30) DEF send_reply, send_group_message_2, resend_message_4,
         AcksType
  <2> QED
    BY <1>0, <1>5, <2>1, <2>2, TypesKept DEF send_reply, ReplyType
<1>6. CASE reconnect
  BY <1>0, <1>6, TypesKept DEF reconnect, ReplyType
<1>7. ASSUME NEW f \in air, handle_eapol_retry(f)
      PROVE  CryptoType' /\ GroupType' /\ ReplyType' /\ DeliveredType' /\ UsedType' /\ AcksType'
  BY <1>7, HandleTypes DEF Types
<1>8. ASSUME NEW d \in Deliveries, NEW by \in Optional(Keys), deliver(d, by)
      PROVE  DeliveredType'
  <2>1. d.key \in Optional(Keys) /\ delivered \subseteq Deliveries /\ twice \subseteq Repetitions
    BY DEF Deliveries, DeliveredType, Types
  <2>2. [key |-> d.key, by |-> by] \in Repetitions
    BY <2>1 DEF Repetitions
  <2> QED
    BY <1>8, <2>1, <2>2, ZenonT(30) DEF deliver, DeliveredType
<1>9. ASSUME handle_group_data
      PROVE  CryptoType' /\ GroupType' /\ ReplyType' /\ DeliveredType' /\ UsedType' /\ AcksType'
  <2> DEFINE f == Head(rx_queue)
             i == f.id
  <2>1. /\ UNCHANGED <<crypto, slots, reply, used, reused, acks>>
        /\ \/ UNCHANGED <<group_keys, delivered, twice>>
           \/ /\ group_keys' = [group_keys EXCEPT ![i].floor = f.pn]
              /\ deliver([key |-> f.key, pn |-> f.pn], group_keys[i].key)
    BY <1>9 DEF handle_group_data
  <2>2. f \in GroupFrames
    BY <1>9, HeadTyped
  <2> HIDE DEF f
  <2>3. /\ i \in Ids /\ f.pn \in 0 .. MaxGroupPn /\ group_keys[i].key \in Optional(Keys)
        /\ [key |-> f.key, pn |-> f.pn] \in Deliveries
    BY <2>2, Constants DEF GroupFrames, Optional, Deliveries, Types, GroupType, GroupKeys
  <2> HIDE DEF i
  <2>4. CASE UNCHANGED <<group_keys, delivered, twice>>
    BY <2>1, <2>4, TypesKept
  <2>5. CASE /\ group_keys' = [group_keys EXCEPT ![i].floor = f.pn]
             /\ deliver([key |-> f.key, pn |-> f.pn], group_keys[i].key)
    <3>1. GroupType'
      BY <2>1, <2>3, <2>5 DEF GroupKeys, GroupType, Types
    <3> QED
      BY <1>8, <2>1, <2>3, <2>5, <3>1, TypesKept
  <2> QED
    BY <2>1, <2>4, <2>5
<1>10. ASSUME NEW pn \in unicast, handle_unicast_data(pn)
       PROVE  CryptoType' /\ GroupType' /\ ReplyType' /\ DeliveredType' /\ UsedType' /\ AcksType'
  <2>1. pn \in 0 .. MaxPn /\ pn \in Nat
    BY Constants DEF Types, UnicastType
  <2>2. /\ crypto' = [crypto EXCEPT !.floor = pn] /\ deliver([key |-> None, pn |-> pn], None)
        /\ UNCHANGED <<group_keys, slots, reply, used, reused, acks>>
    BY <1>10 DEF handle_unicast_data
  <2>3. CryptoType'
    BY <1>0, <2>1, <2>2 DEF CryptoType, Cryptos
  <2>4. [key |-> None, pn |-> pn] \in Deliveries
    BY <2>1, Constants DEF Deliveries, Optional
  <2> QED
    BY <1>8, <2>2, <2>3, <2>4, TypesKept, Constants
<1> QED
  BY <1>1, <1>2, <1>4, <1>5, <1>6, <1>7, <1>9, <1>10, StationSteps DEF StationMoves

(* Every step keeps the types of the access point and of what it sent.     *)
LEMMA ApTypes ==
  ASSUME Types, [Next]_vars
  PROVE  ApType' /\ PnType' /\ AirType' /\ UnicastType'
<1>0. ap \in Aps /\ ap.ids[ap.key] # None /\ air \subseteq Frames /\ \A f \in air : f.counter # 0
  BY DEF Types, ApType, AirType
<1>1. ApType' /\ AirType'
  <2>1. CASE ApSame \/ ApRekeys \/ ApRestarts
    BY <1>0, <2>1 DEF ApSame, ApKept, ApRekeys, ApRestarts, ApType, AirType
  <2>2. ASSUME NEW f \in Frames, Sends(f) PROVE ApType' /\ AirType'
    BY <1>0, <2>2 DEF Sends, ApType, AirType, Aps
  <2>3. CASE ApRepeats
    BY <1>0, <2>3 DEF ApRepeats, ApKept, ApType, AirType
  <2> QED
    BY <2>1, <2>2, <2>3, ApSteps DEF ApMoves
<1>2. UNCHANGED <<group_pn, unicast>> \/ ap_data \/ reconnect
  <2>1. \A f \in air : process_message_1(f) \/ message_1_retry(f) \/ message_3(f)
          \/ handle_eapol_retry(f) \/ ap_repeats(f) => UNCHANGED <<group_pn, unicast>>
    BY DEF process_message_1, message_1_retry, message_3, handle_eapol_retry, ap_repeats, apVars
  <2>2. send_message_2 \/ send_message_4 \/ send_reply \/ run_msdu_tx \/ request_group_rekey
          \/ ap_eapol \/ ap_message_4 \/ UNCHANGED vars => UNCHANGED <<group_pn, unicast>>
    BY ZenonT(30) DEF send_message_2, send_message_4, send_reply, run_msdu_tx,
       request_group_rekey, ap_eapol, ap_message_4, vars, apVars
  <2>3. /\ \A k \in Keys, pn \in 1 .. MaxGroupPn :
             receive_group_data(k, pn) => UNCHANGED <<group_pn, unicast>>
        /\ handle_group_data => UNCHANGED <<group_pn, unicast>>
        /\ \A pn \in unicast : handle_unicast_data(pn) => UNCHANGED <<group_pn, unicast>>
        /\ \A k \in Keys, i \in KeyIds : ap_rekey(k, i) => UNCHANGED <<group_pn, unicast>>
    BY ZenonT(30) DEF receive_group_data, handle_group_data, handle_unicast_data, ap_rekey,
       apVars
  <2> QED
    BY <2>1, <2>2, <2>3, ZenonT(30) DEF Next
<1>3. CASE ap_data
  <2>1. CASE /\ group_pn[ap.key] < MaxGroupPn
             /\ group_pn' = [group_pn EXCEPT ![ap.key] = @ + 1] /\ UNCHANGED unicast
    <3>1. PnType'
      BY <1>0, <2>1, Constants DEF PnType, Types, Aps
    <3> QED
      BY <1>1, <2>1, <3>1, TypesKept
  <2>2. CASE ap.pn < MaxPn /\ unicast' = unicast \cup {ap.pn + 1} /\ UNCHANGED group_pn
    <3>1. ap.pn + 1 \in 1 .. MaxPn /\ unicast \subseteq 1 .. MaxPn
      BY <1>0, <2>2, Constants DEF UnicastType, Types, Aps
    <3> QED
      BY <1>1, <2>2, <3>1, TypesKept, ZenonT(30) DEF UnicastType
  <2> QED
    BY <1>3, <2>1, <2>2 DEF ap_data
<1> QED
  BY <1>1, <1>2, <1>3, TypesKept DEF reconnect, UnicastType

(* What a step does to the queue of received frames.                       *)
LEMMA QueueSteps ==
  ASSUME [Next]_vars
  PROVE  \/ UNCHANGED rx_queue \/ rx_queue' = <<>> \/ handle_group_data
         \/ \E k \in Keys, pn \in 1 .. MaxGroupPn : receive_group_data(k, pn)
<1>1. \A f \in air : process_message_1(f) \/ message_1_retry(f) \/ message_3(f)
        \/ handle_eapol_retry(f) \/ ap_repeats(f) => UNCHANGED rx_queue
  BY DEF process_message_1, message_1_retry, message_3, handle_eapol_retry, ap_repeats, apVars,
     ap_unchanged
<1>2. send_message_2 \/ send_message_4 \/ send_reply \/ run_msdu_tx \/ request_group_rekey
        \/ ap_eapol \/ ap_message_4 \/ ap_data \/ UNCHANGED vars => UNCHANGED rx_queue
  BY ZenonT(30) DEF send_message_2, send_message_4, send_reply, run_msdu_tx,
     request_group_rekey, ap_eapol, ap_message_4, ap_data, vars, apVars, ap_unchanged
<1>3. /\ \A pn \in unicast : handle_unicast_data(pn) => UNCHANGED rx_queue
      /\ \A k \in Keys, i \in KeyIds : ap_rekey(k, i) => UNCHANGED rx_queue
      /\ reconnect => rx_queue' = <<>>
  BY ZenonT(30) DEF handle_unicast_data, ap_rekey, apVars, ap_unchanged, reconnect
<1> QED
  BY <1>1, <1>2, <1>3, ZenonT(30) DEF Next

(* Every step keeps the queue within its length.                           *)
LEMMA QueueTypes ==
  ASSUME Types, [Next]_vars
  PROVE  QueueType'
<1>0. rx_queue \in Seq(GroupFrames) /\ Len(rx_queue) <= RX_QUEUE_LEN /\ RX_QUEUE_LEN \in Nat
  BY Constants DEF Types, QueueType
<1>1. CASE UNCHANGED rx_queue
  BY <1>1, TypesKept
<1>2. CASE rx_queue' = <<>>
  BY <1>0, <1>2 DEF QueueType
<1>3. CASE handle_group_data
  BY <1>0, <1>3, HeadTyped DEF QueueType
<1>4. ASSUME NEW k \in Keys, NEW pn \in 1 .. MaxGroupPn, receive_group_data(k, pn)
      PROVE  QueueType'
  <2> DEFINE i == ap.ids[k]
             f == [key |-> k, id |-> i, pn |-> pn]
  <2>1. Len(rx_queue) < RX_QUEUE_LEN /\ i # None /\ rx_queue' = Append(rx_queue, f)
    BY <1>4 DEF receive_group_data
  <2>2. i \in Ids
    BY <2>1, Constants DEF Types, ApType, Aps, Optional
  <2> HIDE DEF i
  <2>3. f \in GroupFrames
    BY <2>2 DEF GroupFrames
  <2> HIDE DEF f
  <2> QED
    BY <1>0, <2>1, <2>3 DEF QueueType
<1> QED
  BY <1>1, <1>2, <1>3, <1>4, QueueSteps

(* Every step keeps the types.                                             *)
LEMMA TypesNext ==
  ASSUME Types, [Next]_vars
  PROVE  Types'
<1>0. phase \in Phases /\ pending \in Pendings /\ gtk \in Gtks
  BY DEF Types, HandshakeType
<1>1. UNCHANGED handshakeVars => HandshakeType'
  BY TypesKept
<1>2. ASSUME NEW f \in air, process_message_1(f) \/ message_1_retry(f) \/ message_3(f)
      PROVE  HandshakeType'
  <2>1. f \in Frames
    BY DEF Types, AirType
  <2>2. phase' \in Phases
    BY <1>2 DEF process_message_1, message_1_retry, message_3, Phases
  <2>3. pending' \in Pendings
    BY <1>0, <1>2, <2>1 DEF process_message_1, message_1_retry, message_3, Pendings, Frames
  <2>4. gtk' \in Gtks
    BY <1>0, <1>2, <2>1 DEF process_message_1, message_1_retry, message_3, Gtks, Frames
  <2> QED
    BY <2>2, <2>3, <2>4 DEF HandshakeType
<1>3. \A f \in air : handle_eapol_retry(f) \/ ap_repeats(f) => HandshakeType'
  BY <1>1 DEF handle_eapol_retry, ap_repeats, ap_unchanged
<1>4. send_message_2 \/ send_message_4 \/ reconnect => HandshakeType'
  BY <1>0 DEF send_message_2, send_message_4, reconnect, HandshakeType, Phases
<1>5. send_reply \/ run_msdu_tx \/ request_group_rekey \/ ap_eapol \/ ap_message_4 \/ ap_data
        \/ UNCHANGED vars => HandshakeType'
  BY <1>1, ZenonT(30) DEF send_reply, run_msdu_tx, request_group_rekey, ap_eapol, ap_message_4,
     ap_data, ap_unchanged, vars
<1>6. /\ \A k \in Keys, pn \in 1 .. MaxGroupPn : receive_group_data(k, pn) => HandshakeType'
      /\ handle_group_data => HandshakeType'
      /\ \A pn \in unicast : handle_unicast_data(pn) => HandshakeType'
      /\ \A k \in Keys, i \in KeyIds : ap_rekey(k, i) => HandshakeType'
  BY <1>1, ZenonT(30) DEF receive_group_data, handle_group_data, handle_unicast_data, ap_rekey,
     ap_unchanged
<1>7. HandshakeType'
  BY <1>2, <1>3, <1>4, <1>5, <1>6, ZenonT(30) DEF Next
<1> QED
  BY <1>7, StationTypes, ApTypes, QueueTypes DEF Types

-----------------------------------------------------------------------------
(* The inductive invariant.                                                *)

(* The packet numbers the station used are below the next one.             *)
PnInv == ~reused /\ \A p \in used : p < crypto.tx_pn

(* The keys of an established connection are those of its exchange; during *)
(* a handshake they are of an earlier one, and no answer is due.           *)
NonceInv ==
  /\ phase = "Up" => crypto.nonce = ap.nonce
  /\ phase # "Up" => crypto.nonce < ap.nonce /\ reply = NoReply
  /\ phase = "M4" => pending.nonce = ap.nonce

(* The messages that carry a group key.                                    *)
Keyed == {f \in air : f.kind # "M1"}

(* The frames on the air are of this exchange or an earlier one, and carry *)
(* a key under the ID the access point gave it.                            *)
AirInv ==
  /\ \A f \in air : f.nonce <= ap.nonce /\ (f.nonce = ap.nonce => f.counter <= ap.counter)
  /\ \A f \in Keyed : f.key \in Keys /\ f.id = ap.ids[f.key]

(* The order in which the access point sent: by exchange, then by counter. *)
Before(f, g) == f.nonce < g.nonce \/ (f.nonce = g.nonce /\ f.counter <= g.counter)

(* A group key is not used again: the messages about one key follow each   *)
(* other, and those about the current key are last.                        *)
CurrentIsLast == \A f, g \in Keyed : Before(f, g) /\ f.key = ap.key => g.key = ap.key

NoKeyReturns ==
  \A f, g, h \in Keyed : Before(f, h) /\ Before(h, g) /\ f.key = g.key => h.key = f.key

OrderInv == CurrentIsLast /\ NoKeyReturns

(* The group key to be installed came with a message of the access point.  *)
PendingInv ==
  phase = "M4" =>
    \E f \in Keyed : /\ f.nonce = pending.nonce /\ f.counter = pending.counter
                     /\ f.key = gtk.key /\ f.id = gtk.id

(* The messages up to the replay counter of the connection.                *)
Taken == {f \in Keyed : Before(f, crypto)}

(* The hardware has the keys of the state, each came with a message, and   *)
(* the active one with the last message.                                   *)
Installed(i) == \E f \in Taken : f.key = group_keys[i].key /\ f.id = i

Active ==
  \E f \in Taken : /\ f.nonce = crypto.nonce /\ f.counter = crypto.counter
                   /\ f.key = group_keys[crypto.active].key /\ f.id = crypto.active

KeysInv ==
  /\ \A i \in Ids : slots[i] = group_keys[i].key
  /\ \A i \in Ids : group_keys[i].key # None => Installed(i)
  /\ phase = "Up" => Active

(* Answers, sent or due, are to messages up to the replay counter.         *)
AckInv == reply.counter <= crypto.counter /\ \A c \in acks : c <= crypto.counter

(* A group key is replaced once a later message was about another.         *)
Superseded(k) == \E f, h \in Taken : f.key = k /\ h.key # k /\ Before(f, h)

(* A frame in the queue has the ID of its key, which is installed under it *)
(* or replaced.                                                            *)
Waits(f) ==
  f.id = ap.ids[f.key] /\ (group_keys[f.id].key = f.key \/ Superseded(f.key))

QueueInv == \A n \in 1 .. Len(rx_queue) : Waits(rx_queue[n])

(* A delivered frame is at or below the floor of its key, or its key is    *)
(* replaced.                                                               *)
Below(d) ==
  IF d.key = None THEN d.pn <= crypto.floor
  ELSE /\ \A i \in Ids : group_keys[i].key = d.key => d.pn <= group_keys[i].floor
       /\ (\A i \in Ids : group_keys[i].key # d.key) => Superseded(d.key)

DeliveredInv == NoFrameTwice /\ \A d \in delivered : Below(d)

IInv ==
  /\ Types /\ PnInv /\ NonceInv /\ AirInv /\ OrderInv /\ PendingInv /\ KeysInv /\ AckInv
  /\ QueueInv /\ DeliveredInv

(* Before the first handshake.                                             *)
LEMMA InitCorrect == Init => IInv
<1> SUFFICES ASSUME Init PROVE IInv
  OBVIOUS
<1>0. PICK k \in Keys, i \in KeyIds :
        ap = [nonce |-> 1, counter |-> 0, pn |-> 0, up |-> FALSE, m2 |-> FALSE, m4 |-> FALSE,
              key |-> k, ids |-> [j \in Keys |-> IF j = k THEN i ELSE None]]
  BY Zenon DEF Init
<1>1. Types
  <2>0. /\ 0 \in 0 .. MaxNonce /\ 1 \in 1 .. MaxNonce /\ 0 \in 0 .. MaxCounter
        /\ 0 \in 0 .. MaxPn /\ 0 \in 0 .. MaxGroupPn /\ 0 \in Ids /\ 1 \in Nat
    BY Constants DEF Ids
  <2>1. HandshakeType
    BY <2>0, Constants DEF Init, HandshakeType, Phases, Pendings, Gtks, NoGtk
  <2>2. CryptoType
    <3>1. NoFrame \in Frames
      BY <2>0, Constants DEF NoFrame, Frames, Optional
    <3> QED
      BY <2>0, <3>1 DEF Init, CryptoType, Cryptos, NoCrypto
  <2>3. GroupType
    BY <2>0, Constants DEF Init, GroupType, GroupKeys, NoKey
  <2>4. ReplyType
    BY <2>0, RsnAssumption DEF Init, ReplyType, Replies, NoReply
  <2>5. ApType
    <3>1. [j \in Keys |-> IF j = k THEN i ELSE None] \in [Keys -> Optional(KeyIds)]
      BY DEF Optional
    <3>2. ap \in Aps
      BY <1>0, <2>0, <3>1, ZenonT(30) DEF Aps
    <3>3. ap.ids[ap.key] = i /\ i # None
      BY <1>0, Constants
    <3> QED
      BY <3>2, <3>3 DEF ApType
  <2>6. PnType
    BY <2>0 DEF Init, PnType
  <2>7. AirType /\ UnicastType /\ UsedType /\ AcksType
    BY ZenonT(30) DEF Init, AirType, UnicastType, UsedType, AcksType
  <2>8. DeliveredType
    BY ZenonT(30) DEF Init, DeliveredType
  <2>9. QueueType
    BY Constants DEF Init, QueueType
  <2> QED
    BY <2>1, <2>2, <2>3, <2>4, <2>5, <2>6, <2>7, <2>8, <2>9 DEF Types
<1>2. PnInv
  BY Zenon DEF Init, PnInv
<1>3. NonceInv
  BY <1>0 DEF Init, NonceInv, NoCrypto
<1>4. Keyed = {} /\ air = {}
  BY DEF Init, Keyed
<1>5. AirInv
  BY <1>4, Zenon DEF AirInv
<1>6. OrderInv
  BY <1>4, ZenonT(30) DEF OrderInv, CurrentIsLast, NoKeyReturns
<1>7. PendingInv
  BY DEF Init, PendingInv
<1>8. KeysInv
  BY DEF Init, KeysInv, NoKey
<1>9. AckInv
  BY DEF Init, AckInv, NoReply, NoCrypto
<1>10. DeliveredInv
  BY Zenon DEF Init, DeliveredInv, NoFrameTwice
<1>11. QueueInv
  BY DEF Init, QueueInv
<1> QED
  BY <1>1, <1>2, <1>3, <1>5, <1>6, <1>7, <1>8, <1>9, <1>10, <1>11 DEF IInv

-----------------------------------------------------------------------------
(* The access point.                                                       *)

(* The frames on the air, by type.                                         *)
LEMMA AirTypes ==
  ASSUME Types
  PROVE  /\ \A f \in air : f \in Frames /\ f.nonce \in Nat /\ f.counter \in Nat /\ f.id \in Ids
         /\ ap.nonce \in Nat /\ ap.counter \in Nat /\ ap.key \in Keys /\ ap.ids[ap.key] # None
         /\ crypto.nonce \in Nat /\ crypto.counter \in Nat /\ crypto.floor \in Nat
         /\ crypto.tx_pn \in Nat /\ crypto.active \in Ids
<1>1. \A f \in air : f \in Frames
  BY DEF Types, AirType
<1>2. \A f \in Frames : f.nonce \in Nat /\ f.counter \in Nat /\ f.id \in Ids
  BY Constants DEF Frames
<1>3. ap.nonce \in Nat /\ ap.counter \in Nat /\ ap.key \in Keys /\ ap.ids[ap.key] # None
  BY Constants DEF Types, ApType, Aps
<1>4. /\ crypto.nonce \in Nat /\ crypto.counter \in Nat /\ crypto.floor \in Nat
      /\ crypto.tx_pn \in Nat /\ crypto.active \in Ids
  BY Constants DEF Types, CryptoType, Cryptos
<1> QED
  BY <1>1, <1>2, <1>3, <1>4

(* Frames stay on the air.                                                 *)
LEMMA AirGrows ==
  ASSUME Types, [Next]_vars
  PROVE  air \subseteq air' /\ Keyed \subseteq Keyed'
<1>1. air \subseteq air'
  BY ApSteps DEF ApMoves, ApSame, Sends, ApRepeats, ApRekeys, ApRestarts
<1> QED
  BY <1>1 DEF Keyed

(* Every step keeps what is on the air in order.                           *)
LEMMA AirNext ==
  ASSUME Types, AirInv, OrderInv, [Next]_vars
  PROVE  AirInv' /\ OrderInv'
<1>0. /\ \A f \in air : f \in Frames /\ f.nonce \in Nat /\ f.counter \in Nat /\ f.id \in Ids
      /\ ap.nonce \in Nat /\ ap.counter \in Nat /\ ap.key \in Keys /\ ap.ids[ap.key] # None
  BY AirTypes
<1>1. CASE ApSame
  <2>1. Keyed' = Keyed
    BY <1>1 DEF ApSame, Keyed
  <2>2. AirInv'
    BY <1>1, <2>1 DEF ApSame, ApKept, AirInv
  <2>3. OrderInv'
    BY <1>1, <2>1 DEF ApSame, ApKept, OrderInv, CurrentIsLast, NoKeyReturns
  <2> QED
    BY <2>2, <2>3
<1>2. ASSUME NEW f \in Frames, Sends(f) PROVE AirInv' /\ OrderInv'
  <2>0. /\ air' = air \cup {f} /\ f.nonce = ap.nonce /\ f.counter = ap.counter + 1
        /\ f.kind # "M1" => f.key = ap.key /\ f.id = ap.ids[ap.key]
        /\ ap'.nonce = ap.nonce /\ ap'.counter = ap.counter + 1
        /\ ap'.key = ap.key /\ ap'.ids = ap.ids
    BY <1>2 DEF Sends
  <2>1. \A g \in Keyed' : g \in Keyed \/ (g = f /\ g.kind # "M1")
    BY <2>0 DEF Keyed
  <2>2. \A g \in Keyed : /\ g \in air /\ g.nonce \in Nat /\ g.counter \in Nat
                         /\ g.nonce <= f.nonce /\ (g.nonce = f.nonce => g.counter < f.counter)
    BY <1>0, <2>0 DEF Keyed, AirInv
  <2>3. AirInv'
    <3>1. \A g \in air' : /\ g.nonce <= ap'.nonce
                          /\ g.nonce = ap'.nonce => g.counter <= ap'.counter
      BY <1>0, <2>0 DEF AirInv
    <3>2. \A g \in Keyed' : g.key \in Keys /\ g.id = ap'.ids[g.key]
      BY <1>0, <2>0, <2>1 DEF AirInv
    <3> QED
      BY <3>1, <3>2 DEF AirInv
  <2>a. f.nonce \in Nat /\ f.counter \in Nat
    BY <1>0, <2>0
  <2>b. \A g \in Keyed : ~Before(f, g)
    BY <2>a, <2>2 DEF Before
  <2>4. ASSUME NEW g \in Keyed', NEW h \in Keyed', Before(g, h), g.key = ap'.key
        PROVE  h.key = ap'.key
    <3>1. CASE h = f /\ h.kind # "M1"
      BY <2>0, <3>1
    <3>2. CASE h \in Keyed
      <4>1. g \in Keyed
        BY <2>1, <2>b, <2>4, <3>2
      <4> QED
        BY <2>0, <2>4, <3>2, <4>1 DEF OrderInv, CurrentIsLast
    <3> QED
      BY <2>1, <3>1, <3>2
  <2>5. ASSUME NEW d \in Keyed', NEW g \in Keyed', NEW h \in Keyed', Before(d, h),
               Before(h, g), d.key = g.key
        PROVE  h.key = d.key
    <3>1. CASE g = f /\ g.kind # "M1"
      BY <2>0, <2>4, <2>5, <3>1
    <3>2. CASE g \in Keyed
      <4>1. h \in Keyed
        BY <2>1, <2>b, <2>5, <3>2
      <4>2. d \in Keyed
        BY <2>1, <2>b, <2>5, <4>1
      <4> QED
        BY <2>5, <3>2, <4>1, <4>2 DEF OrderInv, NoKeyReturns
    <3> QED
      BY <2>1, <3>1, <3>2
  <2>6. CurrentIsLast'
    BY <2>4 DEF CurrentIsLast
  <2>7. NoKeyReturns'
    BY <2>5 DEF NoKeyReturns
  <2> QED
    BY <2>3, <2>6, <2>7 DEF OrderInv
<1>3. CASE ApRepeats
  <2>1. PICK f \in air, g \in Frames :
          /\ air' = air \cup {g} /\ g.kind = f.kind /\ g.nonce = f.nonce
          /\ g.counter = f.counter /\ g.key = f.key /\ g.id = f.id
    BY <1>3 DEF ApRepeats
  <2>2. /\ ap'.nonce = ap.nonce /\ ap'.counter = ap.counter
        /\ ap'.key = ap.key /\ ap'.ids = ap.ids
    BY <1>3 DEF ApRepeats, ApKept
  <2>3. \A a \in air' : \E b \in air : /\ a.kind = b.kind /\ a.nonce = b.nonce
                                       /\ a.counter = b.counter /\ a.key = b.key /\ a.id = b.id
    BY <2>1
  <2>4. \A a \in Keyed' : \E b \in Keyed : /\ a.nonce = b.nonce /\ a.counter = b.counter
                                           /\ a.key = b.key /\ a.id = b.id
    BY <2>3 DEF Keyed
  <2>5. AirInv'
    <3>1. \A a \in air' : /\ a.nonce <= ap'.nonce
                          /\ a.nonce = ap'.nonce => a.counter <= ap'.counter
      BY <2>2, <2>3 DEF AirInv
    <3>2. \A a \in Keyed' : a.key \in Keys /\ a.id = ap'.ids[a.key]
      BY <2>2, <2>4 DEF AirInv
    <3> QED
      BY <3>1, <3>2 DEF AirInv
  <2>6. OrderInv'
    <3>1. ASSUME NEW a \in Keyed', NEW b \in Keyed', Before(a, b), a.key = ap'.key
          PROVE  b.key = ap'.key
      <4>1. PICK aa \in Keyed : a.nonce = aa.nonce /\ a.counter = aa.counter /\ a.key = aa.key
        BY <2>4
      <4>2. PICK bb \in Keyed : b.nonce = bb.nonce /\ b.counter = bb.counter /\ b.key = bb.key
        BY <2>4
      <4>3. Before(aa, bb) /\ aa.key = ap.key
        BY <2>2, <3>1, <4>1, <4>2, ZenonT(30) DEF Before
      <4>4. bb.key = ap.key
        BY <4>3 DEF OrderInv, CurrentIsLast
      <4> QED
        BY <2>2, <4>2, <4>4
    <3>2. ASSUME NEW a \in Keyed', NEW b \in Keyed', NEW c \in Keyed', Before(a, c),
                 Before(c, b), a.key = b.key
          PROVE  c.key = a.key
      <4>1. PICK aa \in Keyed : a.nonce = aa.nonce /\ a.counter = aa.counter /\ a.key = aa.key
        BY <2>4
      <4>2. PICK bb \in Keyed : b.nonce = bb.nonce /\ b.counter = bb.counter /\ b.key = bb.key
        BY <2>4
      <4>3. PICK cc \in Keyed : c.nonce = cc.nonce /\ c.counter = cc.counter /\ c.key = cc.key
        BY <2>4
      <4>4. Before(aa, cc) /\ Before(cc, bb) /\ aa.key = bb.key
        BY <3>2, <4>1, <4>2, <4>3, ZenonT(30) DEF Before
      <4>5. cc.key = aa.key
        BY <4>4 DEF OrderInv, NoKeyReturns
      <4> QED
        BY <4>1, <4>3, <4>5
    <3>3. CurrentIsLast'
      BY <3>1 DEF CurrentIsLast
    <3>4. NoKeyReturns'
      BY <3>2 DEF NoKeyReturns
    <3> QED
      BY <3>3, <3>4 DEF OrderInv
  <2> QED
    BY <2>5, <2>6
<1>4. CASE ApRekeys
  <2>1. PICK k \in Keys : /\ ap.ids[k] = None /\ ap'.key = k
                          /\ \A j \in Keys \ {k} : ap'.ids[j] = ap.ids[j]
    BY <1>4 DEF ApRekeys
  <2>2. /\ UNCHANGED air /\ Keyed' = Keyed /\ ap'.nonce = ap.nonce /\ ap'.counter = ap.counter
    BY <1>4 DEF ApRekeys, Keyed
  <2>3. \A f \in Keyed : f.key # k
    BY <1>0, <2>1, Constants DEF AirInv, Keyed
  <2>4. AirInv'
    BY <2>1, <2>2, <2>3 DEF AirInv
  <2>5. OrderInv'
    BY <2>1, <2>2, <2>3 DEF OrderInv, CurrentIsLast, NoKeyReturns
  <2> QED
    BY <2>4, <2>5
<1>5. CASE ApRestarts
  <2>1. Keyed' = Keyed
    BY <1>5 DEF ApRestarts, Keyed
  <2>2. AirInv'
    BY <1>0, <1>5, <2>1 DEF ApRestarts, AirInv
  <2>3. OrderInv'
    BY <1>5, <2>1 DEF ApRestarts, OrderInv, CurrentIsLast, NoKeyReturns
  <2> QED
    BY <2>2, <2>3
<1> QED
  BY <1>1, <1>2, <1>3, <1>4, <1>5, ApSteps DEF ApMoves


-----------------------------------------------------------------------------
(* The station.                                                            *)

(* Later steps take in the messages of earlier ones.                       *)
LEMMA TakenGrows ==
  ASSUME Types, [Next]_vars, crypto'.nonce \in Nat, crypto'.counter \in Nat,
         \/ crypto'.nonce > crypto.nonce
         \/ crypto'.nonce = crypto.nonce /\ crypto'.counter >= crypto.counter
  PROVE  Taken \subseteq Taken' /\ \A k : Superseded(k) => Superseded(k)'
<1>1. Taken \subseteq Taken'
  <2>1. ASSUME NEW f \in Taken PROVE f \in Taken'
    <3>1. f \in Keyed /\ Before(f, crypto)
      BY DEF Taken
    <3>2. /\ f \in Keyed' /\ f.nonce \in Nat /\ f.counter \in Nat
          /\ crypto.nonce \in Nat /\ crypto.counter \in Nat
      BY <3>1, AirGrows, AirTypes DEF Keyed
    <3>3. Before(f, crypto')
      BY <3>1, <3>2 DEF Before
    <3> QED
      BY <3>2, <3>3 DEF Taken
  <2> QED
    BY <2>1
<1> QED
  BY <1>1 DEF Superseded

(* A step that moves no key and at most raises floors.                     *)
Quiet ==
  /\ crypto'.nonce = crypto.nonce /\ crypto'.counter = crypto.counter
  /\ crypto'.active = crypto.active /\ crypto'.floor >= crypto.floor /\ crypto'.floor \in Nat
  /\ crypto'.tx_pn >= crypto.tx_pn /\ UNCHANGED slots
  /\ \A i \in Ids : /\ group_keys'[i].key = group_keys[i].key
                    /\ group_keys'[i].floor >= group_keys[i].floor
                    /\ group_keys'[i].floor \in Nat /\ group_keys[i].floor \in Nat

(* Such a step takes in no more messages, and keeps those it had.          *)
LEMMA QuietGrows ==
  ASSUME Types, [Next]_vars, Quiet
  PROVE  Taken \subseteq Taken' /\ \A k : Superseded(k) => Superseded(k)'
<1>1. crypto.counter \in Nat /\ crypto.nonce \in Nat
  BY AirTypes
<1>2. /\ crypto'.nonce = crypto.nonce /\ crypto'.counter >= crypto.counter
      /\ crypto'.counter \in Nat /\ crypto'.nonce \in Nat
  BY <1>1 DEF Quiet
<1> QED
  BY <1>2, TakenGrows

(* It keeps the keys, and what was delivered below the floors.             *)
LEMMA QuietKeeps ==
  ASSUME Types, [Next]_vars, Quiet
  PROVE  /\ KeysInv /\ (phase' = "Up" => phase = "Up") => KeysInv'
         /\ \A d \in Deliveries : Below(d) => Below(d)'
<1>0. /\ Taken \subseteq Taken' /\ \A k : Superseded(k) => Superseded(k)'
      /\ crypto.floor \in Nat /\ crypto.active \in Ids
  BY AirTypes, QuietGrows
<1>1. ASSUME KeysInv, phase' = "Up" => phase = "Up" PROVE KeysInv'
  <2>1. \A i \in Ids : slots'[i] = group_keys'[i].key
    BY <1>1 DEF Quiet, KeysInv
  <2>2. \A i \in Ids : Installed(i) => Installed(i)'
    BY <1>0 DEF Quiet, Installed
  <2>3. Active => Active'
    BY <1>0 DEF Quiet, Active
  <2>4. \A i \in Ids : group_keys'[i].key # None => Installed(i)'
    BY <1>1, <2>2 DEF Quiet, KeysInv
  <2> QED
    BY <1>1, <2>1, <2>3, <2>4 DEF KeysInv
<1>2. ASSUME NEW d \in Deliveries, Below(d) PROVE Below(d)'
  <2>1. CASE d.key = None
    BY <1>0, <1>2, <2>1 DEF Quiet, Below, Deliveries
  <2>2. CASE d.key # None
    <3>1. \A i \in Ids : group_keys'[i].key = d.key => d.pn <= group_keys'[i].floor
      BY <1>2, <2>2 DEF Quiet, Below, Deliveries
    <3>2. (\A i \in Ids : group_keys'[i].key # d.key) => Superseded(d.key)'
      BY <1>0, <1>2, <2>2 DEF Quiet, Below
    <3> QED
      BY <2>2, <3>1, <3>2 DEF Below
  <2> QED
    BY <2>1, <2>2
<1> QED
  BY <1>1, <1>2

(* The group keys, by type.                                                *)
LEMMA GroupTypes ==
  ASSUME Types
  PROVE  \A i \in Ids : /\ group_keys[i].floor \in Nat /\ group_keys[i].key \in Optional(Keys)
                        /\ slots[i] \in Optional(Keys)
  BY Constants DEF Types, GroupType, GroupKeys

(* Steps that leave the crypto state alone are quiet, and so is taking a   *)
(* packet number.                                                          *)
LEMMA StillIsQuiet ==
  ASSUME Types, UNCHANGED <<group_keys, slots>>, UNCHANGED crypto \/ next_packet_number
  PROVE  Quiet
<1>1. /\ crypto'.nonce = crypto.nonce /\ crypto'.counter = crypto.counter
      /\ crypto'.active = crypto.active /\ crypto'.floor = crypto.floor
      /\ crypto'.tx_pn = crypto.tx_pn \/ crypto'.tx_pn = crypto.tx_pn + 1
  BY NumberEffect DEF Types, CryptoType
<1>2. crypto.floor \in Nat /\ crypto.tx_pn \in Nat
  BY AirTypes
<1> QED
  BY <1>1, <1>2, GroupTypes DEF Quiet

(* Handling a data frame is quiet: it raises one floor.                    *)
LEMMA DataIsQuiet ==
  ASSUME Types
  PROVE  /\ handle_group_data => Quiet
         /\ \A pn \in unicast : handle_unicast_data(pn) => Quiet
<1>1. ASSUME handle_group_data PROVE Quiet
  <2> DEFINE f == Head(rx_queue)
             j == f.id
             pn == f.pn
  <2>1. /\ UNCHANGED <<crypto, slots>>
        /\ \/ UNCHANGED group_keys
           \/ /\ group_keys' = [group_keys EXCEPT ![j].floor = pn]
              /\ group_keys[j].floor < pn
    BY <1>1 DEF handle_group_data, passes, valid_packet_number
  <2>2. group_keys \in [Ids -> GroupKeys] /\ pn \in Nat
    BY <1>1, HeadTyped, Constants DEF GroupFrames, Types, GroupType
  <2> HIDE DEF j, pn
  <2>3. CASE UNCHANGED group_keys
    BY <2>1, <2>3, StillIsQuiet
  <2>4. CASE group_keys' = [group_keys EXCEPT ![j].floor = pn] /\ group_keys[j].floor < pn
    <3>1. \A i \in Ids : /\ group_keys'[i].key = group_keys[i].key
                         /\ group_keys'[i].floor = IF i = j THEN pn ELSE group_keys[i].floor
      BY <2>2, <2>4 DEF GroupKeys
    <3>2. \A i \in Ids : /\ group_keys'[i].floor >= group_keys[i].floor
                         /\ group_keys'[i].floor \in Nat /\ group_keys[i].floor \in Nat
      BY <2>2, <2>4, <3>1, GroupTypes
    <3> QED
      BY <2>1, <3>1, <3>2, AirTypes DEF Quiet
  <2> QED
    BY <2>1, <2>3, <2>4
<1>2. ASSUME NEW pn \in unicast, handle_unicast_data(pn) PROVE Quiet
  <2>1. /\ UNCHANGED <<group_keys, slots>> /\ crypto' = [crypto EXCEPT !.floor = pn]
        /\ crypto.floor < pn
    BY <1>2 DEF handle_unicast_data, valid_packet_number
  <2>2. /\ crypto \in Cryptos /\ pn \in Nat /\ crypto.floor \in Nat
        /\ crypto.tx_pn \in Nat
    BY Constants DEF Types, UnicastType, CryptoType, Cryptos
  <2>3. /\ crypto'.nonce = crypto.nonce /\ crypto'.counter = crypto.counter
        /\ crypto'.active = crypto.active /\ crypto'.floor = pn
        /\ crypto'.tx_pn = crypto.tx_pn
    BY <2>1, <2>2 DEF Cryptos
  <2> QED
    BY <2>1, <2>2, <2>3, GroupTypes DEF Quiet
<1> QED
  BY <1>1, <1>2

(* Every step other than the end of a handshake and an EAPOL frame of an   *)
(* established connection is quiet.                                        *)
LEMMA QuietSteps ==
  ASSUME Types, [Next]_vars
  PROVE  Quiet \/ Ends \/ \E f \in air : handle_eapol_retry(f)
<1>1. Idle \/ Numbers \/ reconnect => Quiet
  BY StillIsQuiet DEF Idle, Numbers, reconnect, cryptoVars
<1>2. send_reply => Quiet
  BY StillIsQuiet DEF send_reply, send_group_message_2, resend_message_4, send_eapol_key_frame
<1> QED
  BY <1>1, <1>2, DataIsQuiet, StationSteps, Zenon DEF StationMoves

(* Every step keeps the packet numbers below the next one.                 *)
LEMMA PnNext ==
  ASSUME Types, PnInv, [Next]_vars
  PROVE  PnInv'
<1>0. crypto \in Cryptos /\ crypto.tx_pn \in Nat /\ used \subseteq Nat
  BY AirTypes DEF Types, CryptoType, UsedType
<1>1. UNCHANGED <<used, reused>> /\ crypto'.tx_pn = crypto.tx_pn => PnInv'
  BY DEF PnInv
<1>2. UNCHANGED <<crypto, used, reused>> => PnInv'
  BY <1>1
<1>3. ASSUME next_packet_number PROVE PnInv'
  <2>1. crypto'.tx_pn = crypto.tx_pn + 1
    BY <1>0, <1>3, NumberEffect
  <2>2. used' = used \cup {crypto.tx_pn} /\ reused' = (reused \/ crypto.tx_pn \in used)
    BY <1>3 DEF next_packet_number
  <2>3. crypto.tx_pn \notin used
    BY <1>0 DEF PnInv
  <2>4. ~reused'
    BY <2>2, <2>3, Zenon DEF PnInv
  <2>5. \A p \in used' : p < crypto'.tx_pn
    BY <1>0, <2>1, <2>2 DEF PnInv
  <2> QED
    BY <2>4, <2>5 DEF PnInv
<1>4. Idle \/ Numbers \/ reconnect => PnInv'
  BY <1>2, <1>3 DEF Idle, Numbers, reconnect, cryptoVars, historyVars
<1>5. ASSUME NEW f \in air, handle_eapol_retry(f) PROVE PnInv'
  BY <1>1, <1>5, HandleEffect DEF handle_eapol_retry, historyVars
<1>6. Ends => PnInv'
  BY DEF Ends, PnInv
<1>7. send_reply => PnInv'
  BY <1>2, <1>3 DEF send_reply, send_group_message_2, resend_message_4, send_eapol_key_frame
<1>8. handle_group_data => PnInv'
  BY <1>2 DEF handle_group_data
<1>9. ASSUME NEW pn \in unicast, handle_unicast_data(pn) PROVE PnInv'
  <2>1. crypto'.tx_pn = crypto.tx_pn
    BY <1>0, <1>9, ZenonT(30) DEF handle_unicast_data, Cryptos
  <2> QED
    BY <1>1, <1>9, <2>1 DEF handle_unicast_data
<1> QED
  BY <1>4, <1>5, <1>6, <1>7, <1>8, <1>9, StationSteps, Zenon DEF StationMoves

(* What a step does to the handshake and the answer that is due.           *)
HandshakeMoves ==
  \/ UNCHANGED handshakeVars /\ (phase # "Up" => UNCHANGED reply)
  \/ phase # "Up" /\ phase' \notin {"Up", "M4"} /\ UNCHANGED reply
  \/ \E f \in air : message_3(f)
  \/ phase = "M4" /\ phase' = "Up" /\ install /\ UNCHANGED reply
  \/ reconnect

(* Every step does one of these.                                           *)
LEMMA HandshakeSteps ==
  ASSUME [Next]_vars
  PROVE  HandshakeMoves
<1>1. \A f \in air : process_message_1(f) \/ message_1_retry(f) \/ handle_eapol_retry(f)
                       \/ ap_repeats(f) => HandshakeMoves
  BY DEF process_message_1, message_1_retry, handle_eapol_retry, ap_repeats, ap_unchanged,
     HandshakeMoves
<1>2. send_message_2 \/ send_message_4 => HandshakeMoves
  BY DEF send_message_2, send_message_4, HandshakeMoves
<1>3. send_reply \/ run_msdu_tx \/ request_group_rekey => HandshakeMoves
  BY ZenonT(30) DEF send_reply, run_msdu_tx, request_group_rekey, HandshakeMoves
<1>4. ap_eapol \/ ap_message_4 \/ ap_data \/ UNCHANGED vars => HandshakeMoves
  BY DEF ap_eapol, ap_message_4, ap_data, ap_unchanged, vars, HandshakeMoves
<1>5. /\ \A k \in Keys, pn \in 1 .. MaxGroupPn : receive_group_data(k, pn) => HandshakeMoves
      /\ handle_group_data => HandshakeMoves
      /\ \A pn \in unicast : handle_unicast_data(pn) => HandshakeMoves
      /\ \A k \in Keys, i \in KeyIds : ap_rekey(k, i) => HandshakeMoves
  BY ZenonT(30) DEF receive_group_data, handle_group_data, handle_unicast_data, ap_rekey,
     ap_unchanged, HandshakeMoves
<1>6. (\E f \in air : message_3(f)) \/ reconnect => HandshakeMoves
  BY DEF HandshakeMoves
<1> QED
  BY <1>1, <1>2, <1>3, <1>4, <1>5, <1>6, ZenonT(30) DEF Next

(* The exchange of the keys changes only when a handshake ends.            *)
LEMMA NonceKept ==
  ASSUME Types, [Next]_vars, ~(phase = "M4" /\ phase' = "Up")
  PROVE  crypto'.nonce = crypto.nonce
<1>1. Quiet => crypto'.nonce = crypto.nonce
  BY DEF Quiet
<1>2. \A f \in air : handle_eapol_retry(f) => crypto'.nonce = crypto.nonce
  BY HandleEffect
<1> QED
  BY <1>1, <1>2, QuietSteps DEF Ends

(* Every step keeps the exchange of the keys in order.                     *)
LEMMA NonceNext ==
  ASSUME Types, NonceInv, [Next]_vars
  PROVE  NonceInv'
<1>0. /\ crypto.nonce \in Nat /\ ap.nonce \in Nat
      /\ (reconnect => ap'.nonce = ap.nonce + 1) /\ (~reconnect => ap'.nonce = ap.nonce)
  BY AirTypes, ApSteps, ZenonT(30) DEF ApMoves, ApSame, ApKept, Sends, ApRepeats, ApRekeys,
     ApRestarts, reconnect, Types, ApType, Aps
<1>1. CASE reconnect
  <2>1. phase' = "M1" /\ reply' = NoReply /\ UNCHANGED crypto /\ crypto.nonce <= ap.nonce
    BY <1>0, <1>1 DEF reconnect, cryptoVars, NonceInv
  <2>2. crypto.nonce < ap'.nonce
    BY <1>0, <1>1, <2>1
  <2> QED
    BY <2>1, <2>2 DEF NonceInv
<1>2. CASE ap'.nonce = ap.nonce /\ UNCHANGED handshakeVars /\ (phase # "Up" => UNCHANGED reply)
  BY <1>2, NonceKept DEF NonceInv, handshakeVars
<1>3. CASE /\ ap'.nonce = ap.nonce /\ UNCHANGED reply
           /\ phase # "Up" /\ phase' \notin {"Up", "M4"}
  BY <1>3, NonceKept DEF NonceInv
<1>4. ASSUME NEW f \in air, message_3(f), ap'.nonce = ap.nonce PROVE NonceInv'
  <2>1. /\ phase = "M3" /\ phase' = "M4" /\ UNCHANGED <<reply, crypto>>
        /\ pending.nonce = ap.nonce /\ pending'.nonce = pending.nonce
    BY <1>4 DEF message_3, decrypt_message_3, cryptoVars, Types, HandshakeType, Pendings
  <2> QED
    BY <1>4, <2>1 DEF NonceInv
<1>5. CASE phase = "M4" /\ phase' = "Up" /\ install /\ ap'.nonce = ap.nonce
  BY <1>5, InstallEffect DEF NonceInv
<1> QED
  BY <1>0, <1>1, <1>2, <1>3, <1>4, <1>5, HandshakeSteps DEF HandshakeMoves

(* Every step keeps the origin of the group key to be installed.           *)
LEMMA PendingNext ==
  ASSUME Types, PendingInv, [Next]_vars
  PROVE  PendingInv'
<1>0. Keyed \subseteq Keyed'
  BY AirGrows
<1>1. CASE UNCHANGED handshakeVars
  BY <1>0, <1>1 DEF handshakeVars, PendingInv
<1>2. CASE phase' # "M4"
  BY <1>2 DEF PendingInv
<1>3. ASSUME NEW f \in air, message_3(f) PROVE PendingInv'
  <2>1. /\ f.kind = "M3" /\ f.nonce = pending.nonce
        /\ pending' = [pending EXCEPT !.counter = f.counter]
        /\ gtk' = [key |-> f.key, id |-> f.id]
    BY <1>3 DEF message_3, decrypt_message_3
  <2>2. pending'.nonce = f.nonce /\ pending'.counter = f.counter
    BY <2>1 DEF Types, HandshakeType, Pendings
  <2>3. f \in Keyed'
    BY <1>0, <2>1 DEF Keyed
  <2> QED
    BY <2>1, <2>2, <2>3 DEF PendingInv
<1>4. reconnect => phase' # "M4"
  BY DEF reconnect
<1> QED
  BY <1>1, <1>2, <1>3, <1>4, HandshakeSteps DEF HandshakeMoves


(* An accepted message is newer than all before it, and is taken in.       *)
LEMMA AcceptedIsTaken ==
  ASSUME Types, [Next]_vars, NEW f \in air, handle_eapol_retry(f), Retried(f) \/ Rekeyed(f)
  PROVE  /\ f \in Keyed /\ f \in Taken' /\ f.nonce = crypto.nonce
         /\ f.counter > crypto.counter /\ f.counter \in Nat /\ f.id \in Ids
         /\ crypto'.nonce = crypto.nonce /\ crypto'.counter = f.counter
         /\ Taken \subseteq Taken' /\ \A k : Superseded(k) => Superseded(k)'
<1>1. f.nonce = crypto.nonce /\ crypto'.nonce = crypto.nonce
  BY HandleEffect
<1>2. /\ f.counter > crypto.counter /\ crypto'.counter = f.counter
      /\ f.kind = "M3" \/ f.kind = "G1"
  BY DEF Retried, Rekeyed, valid_retry, newer_message
<1>3. /\ f \in Frames /\ f.counter \in Nat /\ f.id \in Ids /\ crypto.counter \in Nat
      /\ crypto.nonce \in Nat
  BY AirTypes
<1>4. f \in Keyed /\ f \in Keyed'
  BY <1>2, AirGrows DEF Keyed
<1>5. f \in Taken'
  BY <1>1, <1>2, <1>3, <1>4 DEF Taken, Before
<1>6. Taken \subseteq Taken' /\ \A k : Superseded(k) => Superseded(k)'
  BY <1>1, <1>2, <1>3, TakenGrows
<1> QED
  BY <1>1, <1>2, <1>3, <1>4, <1>5, <1>6

(* A message that is neither a newer one nor a valid retry is quiet.       *)
LEMMA UnmovedIsQuiet ==
  ASSUME Types, NEW f \in air, handle_eapol_retry(f), Unmoved(f)
  PROVE  Quiet
<1>1. /\ crypto' \in Cryptos /\ crypto'.nonce = crypto.nonce
      /\ crypto'.floor >= crypto.floor /\ crypto'.tx_pn = crypto.tx_pn
  BY HandleEffect
<1>2. crypto'.floor \in Nat /\ crypto.tx_pn \in Nat
  BY <1>1, AirTypes DEF Cryptos
<1> QED
  BY <1>1, <1>2, GroupTypes DEF Unmoved, Quiet

(* What installing a group key does, slot by slot.                         *)
LEMMA GroupInstall ==
  ASSUME Types, NEW f \in air, install_group_key(f)
  PROVE  /\ \A i \in Ids : group_keys'[i] = IF i = f.id THEN [key |-> f.key, floor |-> f.rsc]
                                                       ELSE group_keys[i]
         /\ \A i \in Ids : slots'[i] = IF i = f.id THEN f.key ELSE slots[i]
  BY AirTypes DEF install_group_key, Types, GroupType

(* Every step keeps the keys installed with the messages they came with.   *)
LEMMA KeysNext ==
  ASSUME Types, NonceInv, PendingInv, KeysInv, [Next]_vars
  PROVE  KeysInv'
<1>0. crypto.active \in Ids /\ crypto.counter \in Nat
  BY AirTypes
<1>1. CASE Quiet
  <2>1. phase' = "Up" /\ phase # "Up" => crypto'.nonce # crypto.nonce
    <3>1. ASSUME phase = "M4", install PROVE crypto'.nonce # crypto.nonce
      BY <3>1, InstallEffect, AirTypes DEF NonceInv
    <3>2. ASSUME NEW f \in air, message_3(f) PROVE phase' # "Up"
      BY <3>2 DEF message_3
    <3>3. reconnect => phase' # "Up"
      BY DEF reconnect
    <3> QED
      BY <3>1, <3>2, <3>3, HandshakeSteps DEF HandshakeMoves, handshakeVars
  <2>2. phase' = "Up" => phase = "Up"
    BY <1>1, <2>1 DEF Quiet
  <2> QED
    BY <1>1, <2>2, QuietKeeps
<1>2. ASSUME phase = "M4", install PROVE KeysInv'
  <2>1. PICK f \in Keyed : /\ f.nonce = pending.nonce /\ f.counter = pending.counter
                           /\ f.key = gtk.key /\ f.id = gtk.id
    BY <1>2 DEF PendingInv
  <2>2. /\ crypto'.nonce = pending.nonce /\ crypto'.counter = pending.counter
        /\ crypto'.active = gtk.id /\ gtk.id \in Ids
        /\ \A i \in Ids : group_keys'[i] = IF i = gtk.id THEN [key |-> gtk.key, floor |-> 0]
                                                        ELSE NoKey
        /\ \A i \in Ids : slots'[i] = IF i = gtk.id THEN gtk.key ELSE None
    BY <1>2, InstallEffect
  <2>3. f \in Taken' /\ f.nonce = crypto'.nonce /\ f.counter = crypto'.counter
    BY <2>1, <2>2, AirGrows, AirTypes DEF Taken, Keyed, Before
  <2>4. group_keys'[gtk.id].key = gtk.key
    BY <2>2
  <2>5. Active'
    BY <2>1, <2>2, <2>3, <2>4 DEF Active
  <2>6. \A i \in Ids : slots'[i] = group_keys'[i].key
    BY <2>2 DEF NoKey
  <2>7. ASSUME NEW i \in Ids, group_keys'[i].key # None PROVE Installed(i)'
    <3>1. i = gtk.id
      BY <2>2, <2>7 DEF NoKey
    <3> QED
      BY <2>1, <2>3, <2>4, <3>1 DEF Installed
  <2> QED
    BY <2>5, <2>6, <2>7 DEF KeysInv
<1>3. ASSUME NEW f \in air, handle_eapol_retry(f) PROVE KeysInv'
  <2>1. CASE Unmoved(f)
    BY <1>1, <1>3, <2>1, UnmovedIsQuiet
  <2>2. CASE Retried(f)
    <3>1. /\ f \in Taken' /\ crypto'.nonce = f.nonce /\ crypto'.counter = f.counter
          /\ Taken \subseteq Taken'
      BY <1>3, <2>2, AcceptedIsTaken
    <3>2. /\ UNCHANGED <<group_keys, slots>> /\ crypto'.active = crypto.active
          /\ f.id = crypto.active /\ f.key = group_keys[f.id].key
      BY <2>2 DEF Retried, valid_retry
    <3>3. Active'
      BY <3>1, <3>2 DEF Active
    <3>4. \A i \in Ids : Installed(i) => Installed(i)'
      BY <3>1, <3>2 DEF Installed
    <3> QED
      BY <3>2, <3>3, <3>4 DEF KeysInv
  <2>3. CASE Rekeyed(f)
    <3>1. /\ f \in Taken' /\ crypto'.nonce = f.nonce /\ crypto'.counter = f.counter
          /\ Taken \subseteq Taken' /\ f.id \in Ids
      BY <1>3, <2>3, AcceptedIsTaken
    <3>2. crypto'.active = f.id
      BY <2>3 DEF Rekeyed
    <3>3. /\ group_keys'[f.id].key = f.key
          /\ \A i \in Ids : slots'[i] = group_keys'[i].key
          /\ \A i \in Ids \ {f.id} : group_keys'[i].key = group_keys[i].key
      <4>1. CASE already_installed(f)
        BY <2>3, <4>1 DEF Rekeyed, already_installed, KeysInv
      <4>2. CASE ~already_installed(f)
        <5>1. install_group_key(f)
          BY <2>3, <4>2, ZenonT(30) DEF Rekeyed
        <5>2. /\ \A i \in Ids : group_keys'[i] = IF i = f.id THEN [key |-> f.key, floor |-> f.rsc]
                                                      ELSE group_keys[i]
              /\ \A i \in Ids : slots'[i] = IF i = f.id THEN f.key ELSE slots[i]
          BY <5>1, GroupInstall
        <5> QED
          BY <3>1, <5>2 DEF KeysInv
      <4> QED
        BY <4>1, <4>2
    <3>4. Active'
      BY <3>1, <3>2, <3>3 DEF Active
    <3>5. ASSUME NEW i \in Ids, group_keys'[i].key # None PROVE Installed(i)'
      <4>1. CASE i = f.id
        BY <3>1, <3>3, <4>1 DEF Installed
      <4>2. CASE i # f.id
        <5>1. group_keys'[i].key = group_keys[i].key
          BY <3>3, <4>2
        <5>2. Installed(i)
          BY <3>5, <5>1 DEF KeysInv
        <5> QED
          BY <3>1, <5>1, <5>2 DEF Installed
      <4> QED
        BY <4>1, <4>2
    <3> QED
      BY <3>3, <3>4, <3>5 DEF KeysInv
  <2> QED
    BY <1>3, <2>1, <2>2, <2>3, HandleEffect
<1> QED
  BY <1>1, <1>2, <1>3, QuietSteps DEF Ends

(* Every step keeps the answers at or below the replay counter.            *)
LEMMA AckNext ==
  ASSUME Types, NonceInv, AckInv, [Next]_vars
  PROVE  AckInv'
<1>0. /\ crypto.counter \in Nat /\ reply.counter \in Nat /\ acks \subseteq Nat
  BY AirTypes, Constants DEF Types, ReplyType, Replies, AcksType
<1>1. ASSUME UNCHANGED <<reply, acks>>, crypto'.counter = crypto.counter PROVE AckInv'
  BY <1>1 DEF AckInv
<1>3. CASE Idle \/ Numbers
  BY <1>1, <1>3, NumberEffect DEF Idle, Numbers, cryptoVars, historyVars, Types, CryptoType
<1>4. ASSUME NEW f \in air, handle_eapol_retry(f) PROVE AckInv'
  <2>1. UNCHANGED acks
    BY <1>4 DEF handle_eapol_retry, historyVars
  <2>2. CASE Unmoved(f)
    BY <1>0, <2>1, <2>2 DEF Unmoved, AckInv
  <2>3. CASE Retried(f) \/ Rekeyed(f)
    <3>1. /\ f.counter > crypto.counter /\ f.counter \in Nat /\ crypto'.counter = f.counter
          /\ reply'.counter = f.counter
      BY <1>4, <2>3, AcceptedIsTaken DEF Retried, Rekeyed
    <3> QED
      BY <1>0, <2>1, <3>1 DEF AckInv
  <2> QED
    BY <1>4, <2>2, <2>3, HandleEffect
<1>5. CASE Ends
  <2>1. reply' = NoReply /\ acks' = {} /\ crypto'.counter \in Nat
    BY <1>5, InstallEffect DEF Ends, NonceInv, CryptoType, Cryptos
  <2> QED
    BY <2>1 DEF AckInv, NoReply
<1>6. CASE send_reply
  <2>1. crypto'.counter = crypto.counter
    BY <1>6, NumberEffect DEF send_reply, send_group_message_2, resend_message_4,
       send_eapol_key_frame, Types, CryptoType
  <2>2. acks' \subseteq acks \cup {reply.counter} /\ reply' = NoReply
    BY <1>6, Zenon DEF send_reply, send_group_message_2, resend_message_4
  <2> QED
    BY <1>0, <2>1, <2>2 DEF AckInv, NoReply
<1>7. handle_group_data => AckInv'
  BY <1>1 DEF handle_group_data
<1>8. ASSUME NEW pn \in unicast, handle_unicast_data(pn) PROVE AckInv'
  <2>1. crypto'.counter = crypto.counter
    BY <1>8, ZenonT(30) DEF handle_unicast_data, Types, CryptoType, Cryptos
  <2> QED
    BY <1>1, <1>8, <2>1 DEF handle_unicast_data
<1>9. CASE reconnect
  BY <1>0, <1>9 DEF reconnect, NoReply, cryptoVars, historyVars, AckInv
<1> QED
  BY <1>3, <1>4, <1>5, <1>6, <1>7, <1>8, <1>9, StationSteps, Zenon DEF StationMoves

(* An installed group key is in the slot of the ID the access point gave   *)
(* it, and in no other.                                                    *)
LEMMA OneSlot ==
  ASSUME Types, AirInv, KeysInv, NEW i \in Ids, group_keys[i].key # None
  PROVE  group_keys[i].key \in Keys /\ ap.ids[group_keys[i].key] = i
  BY DEF KeysInv, Installed, AirInv, Taken

(* What was taken in was sent before a newer message of the exchange.      *)
LEMMA TakenBefore ==
  ASSUME Types, NEW f \in air, f.nonce = crypto.nonce, f.counter > crypto.counter,
         NEW h \in Taken
  PROVE  Before(h, f)
<1>1. h \in air /\ Before(h, crypto)
  BY DEF Taken, Keyed
<1>2. /\ h.nonce \in Nat /\ h.counter \in Nat /\ f.counter \in Nat
      /\ crypto.nonce \in Nat /\ crypto.counter \in Nat
  BY <1>1, AirTypes
<1> QED
  BY <1>1, <1>2 DEF Before

(* A newer group message leaves every delivered frame below the floor of   *)
(* its key, or its key replaced: it cannot bring back a key that was       *)
(* replaced, since the access point never uses one again.                  *)
LEMMA RekeyedKeepsBelow ==
  ASSUME Types, AirInv, OrderInv, KeysInv, [Next]_vars, NEW f \in air, handle_eapol_retry(f),
         Rekeyed(f), NEW d \in Deliveries, Below(d)
  PROVE  Below(d)'
<1>1. /\ f \in Keyed /\ f \in Taken' /\ f.nonce = crypto.nonce /\ f.counter > crypto.counter
      /\ f.counter \in Nat /\ f.id \in Ids /\ Taken \subseteq Taken'
      /\ \A k : Superseded(k) => Superseded(k)'
  BY AcceptedIsTaken
<1>2. crypto'.floor >= crypto.floor /\ crypto'.floor \in Nat /\ crypto.floor \in Nat
  BY HandleEffect, AirTypes DEF Cryptos
<1>3. CASE d.key = None
  BY <1>2, <1>3 DEF Below, Deliveries
<1>4. CASE d.key # None
  <2>0. /\ \A i \in Ids : group_keys[i].key = d.key => d.pn <= group_keys[i].floor
        /\ (\A i \in Ids : group_keys[i].key # d.key) => Superseded(d.key)
    BY <1>4 DEF Below
  <2>1. CASE already_installed(f)
    <3>1. UNCHANGED group_keys
      BY <2>1, Zenon DEF Rekeyed
    <3> QED
      BY <1>1, <1>4, <2>0, <3>1 DEF Below
  <2>2. CASE ~already_installed(f)
    <3>1. install_group_key(f) /\ newer_message(f)
      BY <2>2, Zenon DEF Rekeyed
    <3>2. \A i \in Ids : group_keys'[i] = IF i = f.id THEN [key |-> f.key, floor |-> f.rsc]
                                                     ELSE group_keys[i]
      BY <3>1, GroupInstall
    <3>3. \A i \in Ids : group_keys[i].key # f.key
      BY <2>2, <3>1 DEF newer_message, already_installed
    <3>4. ~Superseded(f.key)
      <4>1. SUFFICES ASSUME NEW a \in Taken, NEW h \in Taken, a.key = f.key, h.key # f.key,
                            Before(a, h)
                     PROVE  FALSE
        BY DEF Superseded
      <4>2. a \in Keyed /\ h \in Keyed
        BY DEF Taken
      <4>3. Before(h, f)
        BY <1>1, TakenBefore
      <4>4. h.key = a.key
        BY <1>1, <4>1, <4>2, <4>3 DEF OrderInv, NoKeyReturns
      <4> QED
        BY <4>1, <4>4
    <3>5. d.key # f.key
      BY <2>0, <3>3, <3>4
    <3>6. \A i \in Ids : group_keys'[i].key = d.key => d.pn <= group_keys'[i].floor
      BY <2>0, <3>2, <3>5
    <3>7. ASSUME \A i \in Ids : group_keys'[i].key # d.key PROVE Superseded(d.key)'
      <4>1. CASE \A i \in Ids : group_keys[i].key # d.key
        BY <1>1, <2>0, <4>1
      <4>2. CASE group_keys[f.id].key = d.key
        <5>1. PICK a \in Taken : a.key = d.key
          BY <1>1, <1>4, <4>2 DEF KeysInv, Installed
        <5>2. a \in Taken' /\ Before(a, f)
          BY <1>1, TakenBefore
        <5> QED
          BY <1>1, <3>5, <5>1, <5>2 DEF Superseded
      <4> QED
        BY <3>2, <3>7, <4>1, <4>2
    <3> QED
      BY <1>4, <3>6, <3>7, ZenonT(30) DEF Below
  <2> QED
    BY <2>1, <2>2
<1> QED
  BY <1>3, <1>4

(* A step that hands on a frame above the floor of a key: if it was handed *)
(* on before, the floor is that of another key.                            *)
LEMMA DeliverKeeps ==
  ASSUME Types, DeliveredInv, Quiet, [Next]_vars, NEW d \in Deliveries, NEW by,
         deliver(d, by), d \in delivered => by # d.key, Below(d)'
  PROVE  DeliveredInv'
<1>1. delivered' = delivered \cup {d} /\ NoFrameTwice'
  <2>1. /\ delivered' = delivered \cup {d} /\ NoFrameTwice
        /\ twice' = IF d \in delivered THEN twice \cup {[key |-> d.key, by |-> by]} ELSE twice
    BY Zenon DEF deliver, DeliveredInv
  <2>2. [key |-> d.key, by |-> by].key = d.key /\ [key |-> d.key, by |-> by].by = by
    OBVIOUS
  <2> QED
    BY <2>1, <2>2 DEF NoFrameTwice
<1>2. delivered \subseteq Deliveries
  BY DEF Types, DeliveredType
<1>3. \A e \in delivered : Below(e)'
  BY <1>2, QuietKeeps DEF DeliveredInv
<1>4. \A e \in delivered' : Below(e)'
  BY <1>1, <1>3, Zenon
<1> QED
  BY <1>1, <1>4, Zenon DEF DeliveredInv

(* A frame in the queue keeps the ID of its key: the access point gives    *)
(* IDs to new keys only.                                                   *)
LEMMA IdsKept ==
  ASSUME Types, [Next]_vars, NEW k \in Keys, ap.ids[k] # None
  PROVE  ap'.ids[k] = ap.ids[k]
  BY ApSteps, ZenonT(30) DEF ApMoves, ApSame, ApKept, Sends, ApRepeats, ApRekeys, ApRestarts

(* A frame that waits goes on waiting: when another key is installed under *)
(* its ID, that of the frame is replaced.                                  *)
LEMMA WaitsNext ==
  ASSUME Types, NonceInv, AirInv, PendingInv, KeysInv, [Next]_vars, NEW q \in GroupFrames,
         Waits(q)
  PROVE  Waits(q)'
<1>0. /\ q.key \in Keys /\ q.key # None /\ q.id \in Ids /\ q.id = ap.ids[q.key]
      /\ group_keys[q.id].key = q.key \/ Superseded(q.key)
  BY Constants DEF GroupFrames, Waits
<1>1. ap'.ids[q.key] = ap.ids[q.key]
  BY <1>0, IdsKept, Constants
<1>2. ASSUME group_keys'[q.id].key = group_keys[q.id].key, Superseded(q.key) => Superseded(q.key)'
      PROVE  Waits(q)'
  BY <1>0, <1>1, <1>2 DEF Waits
<1>3. ASSUME Taken \subseteq Taken', \A k : Superseded(k) => Superseded(k)',
             NEW f \in Taken', f.key # q.key, \A a \in Taken : Before(a, f)
      PROVE  Waits(q)'
  <2>1. CASE Superseded(q.key)
    BY <1>0, <1>1, <1>3, <2>1 DEF Waits
  <2>2. CASE group_keys[q.id].key = q.key
    <3>1. PICK a \in Taken : a.key = q.key
      BY <1>0, <2>2 DEF KeysInv, Installed
    <3>2. Superseded(q.key)'
      BY <1>3, <3>1 DEF Superseded
    <3> QED
      BY <1>0, <1>1, <3>2 DEF Waits
  <2> QED
    BY <1>0, <2>1, <2>2
<1>4. CASE Quiet
  BY <1>0, <1>2, <1>4, QuietGrows DEF Quiet
<1>5. CASE Ends
  <2>1. PICK f \in Keyed : /\ f.nonce = pending.nonce /\ f.counter = pending.counter
                           /\ f.key = gtk.key /\ f.id = gtk.id
    BY <1>5 DEF Ends, PendingInv
  <2>2. /\ crypto'.nonce = pending.nonce /\ crypto'.counter = pending.counter
        /\ crypto'.nonce > crypto.nonce /\ gtk.id \in Ids
        /\ group_keys'[gtk.id].key = gtk.key
    BY <1>5, InstallEffect, AirTypes DEF Ends, NonceInv
  <2>3. /\ f \in air /\ f \in Keyed' /\ f.nonce \in Nat /\ f.counter \in Nat
        /\ crypto.nonce \in Nat /\ crypto.counter \in Nat
    BY AirGrows, AirTypes DEF Keyed
  <2>4. f \in Taken'
    BY <2>1, <2>2, <2>3 DEF Taken, Before
  <2>5. Taken \subseteq Taken' /\ \A k : Superseded(k) => Superseded(k)'
    BY <2>1, <2>2, <2>3, TakenGrows
  <2>6. ASSUME NEW a \in Taken PROVE Before(a, f)
    <3>1. a \in air /\ Before(a, crypto)
      BY DEF Taken, Keyed
    <3>2. a.nonce \in Nat
      BY <3>1, AirTypes
    <3> QED
      BY <2>1, <2>2, <2>3, <3>1, <3>2 DEF Before
  <2>7. CASE f.key = q.key
    <3>1. gtk.id = q.id
      BY <1>0, <2>1, <2>7 DEF AirInv
    <3> QED
      BY <1>0, <1>1, <2>1, <2>2, <2>7, <3>1 DEF Waits
  <2>8. CASE f.key # q.key
    BY <1>3, <2>4, <2>5, <2>6, <2>8
  <2> QED
    BY <2>7, <2>8
<1>6. ASSUME NEW f \in air, handle_eapol_retry(f) PROVE Waits(q)'
  <2>1. CASE Unmoved(f)
    BY <1>4, <1>6, <2>1, UnmovedIsQuiet
  <2>2. CASE Retried(f) \/ Rekeyed(f)
    <3>1. /\ f \in Taken' /\ f.nonce = crypto.nonce /\ f.counter > crypto.counter /\ f.id \in Ids
          /\ Taken \subseteq Taken' /\ \A k : Superseded(k) => Superseded(k)'
      BY <1>6, <2>2, AcceptedIsTaken
    <3>2. CASE UNCHANGED group_keys
      BY <1>2, <3>1, <3>2
    <3>3. CASE install_group_key(f)
      <4>1. \A i \in Ids : group_keys'[i] = IF i = f.id THEN [key |-> f.key, floor |-> f.rsc]
                                                       ELSE group_keys[i]
        BY <3>3, GroupInstall
      <4>2. CASE f.key # q.key
        BY <1>3, <3>1, <4>2, TakenBefore
      <4>3. CASE f.key = q.key /\ f.id = q.id
        <5>1. group_keys'[q.id].key = q.key
          BY <1>0, <4>1, <4>3
        <5> QED
          BY <1>0, <1>1, <5>1 DEF Waits
      <4>4. CASE f.id # q.id
        <5>1. group_keys'[q.id].key = group_keys[q.id].key
          BY <1>0, <4>1, <4>4
        <5> QED
          BY <1>2, <3>1, <5>1
      <4> QED
        BY <4>2, <4>3, <4>4
    <3> QED
      BY <2>2, <3>2, <3>3, Zenon DEF Retried, Rekeyed
  <2> QED
    BY <1>6, <2>1, <2>2, HandleEffect
<1> QED
  BY <1>4, <1>5, <1>6, QuietSteps

(* Every step keeps the keys of the frames in the queue installed or       *)
(* replaced: the hardware decrypts with an installed key.                  *)
LEMMA QueueNext ==
  ASSUME Types, NonceInv, AirInv, PendingInv, KeysInv, QueueInv, [Next]_vars
  PROVE  QueueInv'
<1>0. rx_queue \in Seq(GroupFrames)
  BY DEF Types, QueueType
<1>1. \A q \in GroupFrames : Waits(q) => Waits(q)'
  BY WaitsNext
<1>2. ASSUME \A n \in 1 .. Len(rx_queue') :
               \E q \in GroupFrames : q = rx_queue'[n] /\ Waits(q)
      PROVE  QueueInv'
  BY <1>1, <1>2 DEF QueueInv
<1>3. \A n \in 1 .. Len(rx_queue) : rx_queue[n] \in GroupFrames /\ Waits(rx_queue[n])
  BY <1>0 DEF QueueInv
<1>4. CASE UNCHANGED rx_queue
  BY <1>2, <1>3, <1>4
<1>5. CASE rx_queue' = <<>>
  BY <1>5 DEF QueueInv
<1>6. CASE handle_group_data
  <2>1. Len(rx_queue) \in Nat \ {0} /\ rx_queue' = Tail(rx_queue)
    BY <1>6, HeadTyped
  <2>2. \A n \in 1 .. Len(rx_queue') : /\ n + 1 \in 1 .. Len(rx_queue)
                                       /\ rx_queue'[n] = rx_queue[n + 1]
    BY <1>0, <2>1
  <2> QED
    BY <1>2, <1>3, <2>2
<1>7. ASSUME NEW k \in Keys, NEW pn \in 1 .. MaxGroupPn, receive_group_data(k, pn)
      PROVE  QueueInv'
  <2>1. PICK i : i = ap.ids[k]
    OBVIOUS
  <2> DEFINE q == [key |-> k, id |-> i, pn |-> pn]
  <2>2. slots[i] = k /\ i # None /\ rx_queue' = Append(rx_queue, q)
    BY <1>7, <2>1 DEF receive_group_data
  <2>3. i \in Ids
    BY <2>1, <2>2, Constants DEF Types, ApType, Aps, Optional
  <2>4. q \in GroupFrames /\ q.key = k /\ q.id = i
    BY <2>3 DEF GroupFrames
  <2> HIDE DEF q
  <2>5. Waits(q)
    BY <2>1, <2>2, <2>3, <2>4 DEF Waits, KeysInv
  <2>6. \A n \in 1 .. Len(rx_queue') :
          rx_queue'[n] = q \/ (n \in 1 .. Len(rx_queue) /\ rx_queue'[n] = rx_queue[n])
    <3>1. /\ Len(rx_queue') = Len(rx_queue) + 1 /\ Len(rx_queue) \in Nat
          /\ rx_queue'[Len(rx_queue) + 1] = q
          /\ \A n \in 1 .. Len(rx_queue) : rx_queue'[n] = rx_queue[n]
      BY <1>0, <2>2, <2>4, AppendProperties
    <3>2. \A n \in 1 .. Len(rx_queue) + 1 : n \in 1 .. Len(rx_queue) \/ n = Len(rx_queue) + 1
      BY <3>1
    <3> QED
      BY <3>1, <3>2
  <2> QED
    BY <1>2, <1>3, <2>4, <2>5, <2>6
<1> QED
  BY <1>4, <1>5, <1>6, <1>7, QueueSteps

(* Every step keeps the delivered frames at or below the floors.           *)
LEMMA DeliveredNext ==
  ASSUME Types, AirInv, OrderInv, KeysInv, QueueInv, DeliveredInv, [Next]_vars
  PROVE  DeliveredInv'
<1>0. delivered \subseteq Deliveries
  BY DEF Types, DeliveredType
<1>1. ASSUME Quiet, UNCHANGED <<delivered, twice>> PROVE DeliveredInv'
  <2>1. \A e \in delivered' : Below(e)'
    BY <1>0, <1>1, QuietKeeps DEF DeliveredInv
  <2> QED
    BY <1>1, <2>1, Zenon DEF DeliveredInv, NoFrameTwice
<1>2. Idle \/ Numbers \/ reconnect => DeliveredInv'
  BY <1>1, StillIsQuiet DEF Idle, Numbers, reconnect, cryptoVars, historyVars
<1>3. send_reply => DeliveredInv'
  BY <1>1, StillIsQuiet DEF send_reply, send_group_message_2, resend_message_4,
     send_eapol_key_frame
<1>4. ASSUME NEW f \in air, handle_eapol_retry(f) PROVE DeliveredInv'
  <2>1. UNCHANGED <<delivered, twice>>
    BY <1>4 DEF handle_eapol_retry, historyVars
  <2>2. ASSUME NEW d \in Deliveries, Below(d), Retried(f)
        PROVE  Below(d)'
    <3>1. \A k : Superseded(k) => Superseded(k)'
      BY <1>4, <2>2, AcceptedIsTaken
    <3>2. crypto'.floor >= crypto.floor /\ crypto'.floor \in Nat /\ crypto.floor \in Nat
      BY <1>4, HandleEffect, AirTypes DEF Cryptos
    <3>3. UNCHANGED group_keys
      BY <2>2 DEF Retried
    <3>4. CASE d.key = None
      BY <2>2, <3>2, <3>4 DEF Below, Deliveries
    <3>5. CASE d.key # None
      BY <2>2, <3>1, <3>3, <3>5 DEF Below
    <3> QED
      BY <3>4, <3>5
  <2>3. CASE Unmoved(f)
    BY <1>1, <1>4, <2>1, <2>3, UnmovedIsQuiet
  <2>4. CASE Retried(f) \/ Rekeyed(f)
    <3>1. \A e \in delivered : Below(e)'
      BY <1>0, <1>4, <2>2, <2>4, RekeyedKeepsBelow DEF DeliveredInv
    <3> QED
      BY <2>1, <3>1, Zenon DEF DeliveredInv, NoFrameTwice
  <2> QED
    BY <1>4, <2>3, <2>4, HandleEffect
<1>5. Ends => DeliveredInv'
  BY DEF Ends, DeliveredInv, NoFrameTwice
<1>6. ASSUME handle_group_data PROVE DeliveredInv'
  <2>1. PICK f \in GroupFrames : f = Head(rx_queue)
    BY <1>6, HeadTyped
  <2> DEFINE k == f.key
             pn == f.pn
             j == f.id
             d == [key |-> k, pn |-> pn]
  <2>2. PICK by : by = group_keys[j].key
    OBVIOUS
  <2>3. Quiet
    BY <1>6, DataIsQuiet
  <2>a. \/ UNCHANGED <<delivered, twice>>
        \/ /\ group_keys[j].floor < pn /\ deliver(d, by)
           /\ group_keys' = [group_keys EXCEPT ![j].floor = pn]
    BY <1>6, <2>1, <2>2 DEF handle_group_data, passes, valid_packet_number
  <2>b. Waits(f)
    BY <1>6, <2>1, HeadTyped DEF QueueInv
  <2>4. /\ j \in Ids /\ pn \in Nat /\ k \in Keys /\ k # None /\ d \in Deliveries
        /\ d.key = k /\ d.pn = pn /\ j = ap.ids[k] /\ (by = k \/ Superseded(k))
    BY <2>2, <2>b, Constants, SMTT(30) DEF GroupFrames, Waits, Optional, Deliveries
  <2> HIDE DEF d, j, k, pn
  <2>5. \A i \in Ids : group_keys'[i].key = k => i = j /\ group_keys[i].key = k
    <3>1. ASSUME NEW i \in Ids, group_keys'[i].key = k PROVE i = j /\ group_keys[i].key = k
      <4>1. group_keys[i].key = k
        BY <2>3, <3>1 DEF Quiet
      <4> QED
        BY <2>4, <4>1, OneSlot
    <3> QED
      BY <3>1
  <2>6. CASE UNCHANGED <<delivered, twice>>
    BY <1>1, <2>3, <2>6
  <2>7. CASE /\ group_keys[j].floor < pn /\ deliver(d, by)
             /\ group_keys' = [group_keys EXCEPT ![j].floor = pn]
    <3>1. group_keys'[j].floor = pn /\ group_keys[j].floor \in Nat
      BY <2>4, <2>7, GroupTypes DEF Types, GroupType, GroupKeys
    <3>2. group_keys'[j].key = by
      BY <2>2, <2>3, <2>4 DEF Quiet
    <3>3. CASE by = k
      <4>1. ~Below(d)
        BY <2>2, <2>4, <2>7, <3>1, <3>3 DEF Below
      <4>2. d \notin delivered
        BY <4>1, Zenon DEF DeliveredInv
      <4>3. Below(d)'
        BY <2>4, <2>5, <3>1, <3>2, <3>3 DEF Below
      <4> QED
        BY <2>3, <2>4, <2>7, <4>2, <4>3, DeliverKeeps
    <3>4. CASE by # k
      <4>1. \A i \in Ids : group_keys'[i].key # k
        BY <2>2, <2>5, <3>4
      <4>2. Superseded(k)'
        BY <2>3, <2>4, <3>4, QuietGrows
      <4>3. Below(d)'
        BY <2>4, <4>1, <4>2 DEF Below
      <4> QED
        BY <2>3, <2>4, <2>7, <3>4, <4>3, DeliverKeeps
    <3> QED
      BY <3>3, <3>4
  <2> QED
    BY <2>a, <2>6, <2>7
<1>7. ASSUME NEW pn \in unicast, handle_unicast_data(pn) PROVE DeliveredInv'
  <2> DEFINE d == [key |-> None, pn |-> pn]
  <2>1. /\ crypto.floor < pn /\ deliver(d, None) /\ crypto' = [crypto EXCEPT !.floor = pn]
    BY <1>7 DEF handle_unicast_data, valid_packet_number
  <2>0. pn \in Nat /\ crypto.floor \in Nat
    BY AirTypes, Constants DEF Types, UnicastType
  <2>2. /\ pn \in Nat /\ crypto.floor \in Nat /\ d.key = None /\ d.pn = pn
        /\ d \in Deliveries
    BY <2>0, Constants DEF Deliveries, Optional
  <2>3. Quiet
    BY <1>7, DataIsQuiet
  <2> HIDE DEF d
  <2>4. d \notin delivered
    <3>1. ~Below(d)
      BY <2>1, <2>2 DEF Below
    <3> QED
      BY <3>1, Zenon DEF DeliveredInv
  <2>5. Below(d)'
    <3>1. crypto'.floor = pn
      BY <2>1 DEF Types, CryptoType, Cryptos
    <3> QED
      BY <2>2, <3>1 DEF Below
  <2> QED
    BY <2>1, <2>2, <2>3, <2>4, <2>5, DeliverKeeps
<1> QED
  BY <1>2, <1>3, <1>4, <1>5, <1>6, <1>7, StationSteps, Zenon DEF StationMoves

-----------------------------------------------------------------------------
(* The invariant holds, and what follows from it.                          *)

(* Every step keeps the invariant.                                         *)
LEMMA StepCorrect == IInv /\ [Next]_vars => IInv'
<1> SUFFICES ASSUME IInv, [Next]_vars PROVE IInv'
  OBVIOUS
<1> QED
  BY TypesNext, PnNext, NonceNext, AirNext, PendingNext, KeysNext, AckNext, QueueNext,
     DeliveredNext DEF IInv

(* The invariant holds throughout, whatever the order, delay, repetition   *)
(* and loss of the frames of the access point.                             *)
THEOREM RsnCorrect == Spec => []IInv
  BY InitCorrect, StepCorrect, PTL DEF Spec

(* Handshake, crypto state, group keys and what was sent keep their types. *)
THEOREM RsnTypeCorrect == Spec => []TypeOK
<1>1. IInv => TypeOK
  BY TypesAre DEF IInv
<1> QED
  BY <1>1, RsnCorrect, PTL

(* next_packet_number: no packet number of a pairwise key protects two     *)
(* frames, though data, rekey requests and group answers share it and      *)
(* retried messages may arrive at any time.                                *)
THEOREM PacketNumbersUnique == Spec => []NoPacketNumberReused
<1>1. IInv => NoPacketNumberReused
  BY DEF IInv, PnInv, NoPacketNumberReused
<1> QED
  BY <1>1, RsnCorrect, PTL

(* update_and_validate_replay_counter: no protected frame that was         *)
(* delivered in a connection passes the floor of its key again, across     *)
(* retried messages and new group keys.  A group frame is delivered twice  *)
(* only past the floor of another key, which got its ID while it was in    *)
(* the RX queue.                                                           *)
THEOREM FramesDeliveredOnce == Spec => []NoFrameTwice
<1>1. IInv => NoFrameTwice
  BY DEF IInv, DeliveredInv, NoFrameTwice
<1> QED
  BY <1>1, RsnCorrect, PTL

(* accept_group_message: the station answered a message about the group    *)
(* key the access point uses now only if that key is active and in its     *)
(* hardware slot, and no late message brings another one back.             *)
THEOREM AcknowledgedIsInstalled == Spec => []AckMeansInstalled
<1>1. ASSUME IInv PROVE AckMeansInstalled
  <2>1. SUFFICES ASSUME phase = "Up", NEW f \in air, f.kind = "G1", f.nonce = crypto.nonce,
                        f.counter \in acks, f.key = ap.key
                 PROVE  crypto.active = f.id /\ slots[f.id] = f.key
    BY DEF AckMeansInstalled
  <2>2. /\ Types /\ AirInv /\ CurrentIsLast /\ KeysInv /\ AckInv
    BY <1>1 DEF IInv, OrderInv
  <2>3. PICK h \in Taken : /\ h.nonce = crypto.nonce /\ h.counter = crypto.counter
                           /\ h.key = group_keys[crypto.active].key /\ h.id = crypto.active
    BY <2>1, <2>2 DEF KeysInv, Active
  <2>4. f \in Keyed /\ h \in Keyed /\ h.nonce = crypto.nonce /\ f.counter <= h.counter
    BY <2>1, <2>2, <2>3 DEF Keyed, Taken, AckInv
  <2>5. h.key = ap.key
    BY <2>1, <2>2, <2>4 DEF CurrentIsLast, Before
  <2>6. f.id = h.id
    BY <2>1, <2>2, <2>4, <2>5 DEF AirInv
  <2>7. crypto.active \in Ids
    BY <2>2, AirTypes
  <2> QED
    BY <2>1, <2>2, <2>3, <2>5, <2>6, <2>7, ZenonT(30) DEF KeysInv
<1> QED
  BY <1>1, RsnCorrect, PTL

(* What CountersOnlyGrow says of a step.                                   *)
Grows ==
  crypto'.nonce = crypto.nonce =>
    /\ crypto'.counter >= crypto.counter
    /\ crypto'.floor >= crypto.floor
    /\ crypto'.tx_pn >= crypto.tx_pn
    /\ \A i \in Ids : group_keys'[i].key = group_keys[i].key
                        => group_keys'[i].floor >= group_keys[i].floor

(* No step of a connection takes a counter back: neither the EAPOL replay  *)
(* counter, nor the floor and packet number of the pairwise key, nor the   *)
(* floor of a group key that stays installed.  Only a completed handshake, *)
(* of a later exchange, starts them over.                                  *)
THEOREM CountersGrow == Spec => CountersOnlyGrow
<1>1. ASSUME IInv, [Next]_vars PROVE Grows
  <2>0. /\ Types /\ NonceInv
    BY <1>1 DEF IInv
  <2>1. crypto.counter \in Nat /\ crypto.tx_pn \in Nat /\ crypto.floor \in Nat
    BY <2>0, AirTypes
  <2>2. ASSUME phase = "M4", install PROVE Grows
    BY <2>0, <2>2, InstallEffect, AirTypes DEF NonceInv, Grows
  <2>3. ASSUME NEW f \in air, handle_eapol_retry(f) PROVE Grows
    <3>1. crypto'.tx_pn = crypto.tx_pn /\ crypto'.floor >= crypto.floor
      BY <2>0, <2>3, HandleEffect
    <3>2. Unmoved(f) \/ Retried(f) \/ Rekeyed(f)
      BY <2>0, <2>3, HandleEffect
    <3>3. crypto'.counter >= crypto.counter
      BY <1>1, <2>0, <2>1, <2>3, <3>2, AcceptedIsTaken DEF Unmoved
    <3>4. ASSUME NEW i \in Ids, group_keys'[i].key = group_keys[i].key
          PROVE  group_keys'[i].floor >= group_keys[i].floor
      <4>1. group_keys[i].floor \in Nat
        BY <2>0, GroupTypes
      <4>2. CASE UNCHANGED group_keys
        BY <4>1, <4>2
      <4>3. CASE install_group_key(f) /\ ~already_installed(f)
        <5>1. \A j \in Ids : group_keys'[j] = IF j = f.id THEN [key |-> f.key, floor |-> f.rsc]
                                                         ELSE group_keys[j]
          BY <2>0, <4>3, GroupInstall
        <5>2. group_keys[f.id].key # f.key
          BY <4>3 DEF already_installed
        <5>3. i # f.id
          BY <3>4, <5>1, <5>2
        <5> QED
          BY <4>1, <5>1, <5>3
      <4> QED
        BY <3>2, <4>2, <4>3, Zenon DEF Unmoved, Retried, Rekeyed
    <3> QED
      BY <2>1, <3>1, <3>3, <3>4 DEF Grows
  <2>4. CASE Quiet
    BY <2>1, <2>4 DEF Quiet, Grows
  <2> QED
    BY <1>1, <2>0, <2>2, <2>3, <2>4, QuietSteps DEF Ends
<1>2. IInv /\ [Next]_vars => [Grows]_vars
  BY <1>1
<1> QED
  BY <1>2, RsnCorrect, PTL DEF Spec, CountersOnlyGrow, Grows

=============================================================================

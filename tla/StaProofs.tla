----------------------------- MODULE StaProofs -----------------------------
(***************************************************************************)
(* Proofs about Sta, for every set of networks, every number of key slots  *)
(* and every number of retries: the keys of a connection are installed,    *)
(* the runner never misses a change of the connection, and a connection    *)
(* made after the runner has caught up holds its channel and its filters.  *)
(***************************************************************************)
EXTENDS Sta, TLAPS

(* The provers of a leaf that names none, with time for a slow machine.    *)
USE SMTT(30), ZenonT(30), SMTT(60)

-----------------------------------------------------------------------------
(* Types.                                                                  *)

Controls ==
  [at : {"Idle", "Switching", "Waiting", "Disconnecting", "Scanning"} \cup Connecting,
   bss : Optional(Networks), old : Optional(Networks), attempt : 0 .. handshake_retries]

(* A call that is making an attempt to connect.                            *)
Attempting == {"Waiting"} \cup Connecting

(* An attempt to connect is to a network, and a deauth to one.             *)
AttemptInv ==
  /\ control.at \in {"Switching"} \cup Attempting => control.bss \in Networks
  /\ control.at \in {"Switching", "Disconnecting"} => control.old \in Networks

(* The states of the control task are typed.                               *)
LEMMA ControlTyped ==
  ASSUME NEW p \in {"Idle", "Switching", "Waiting", "Disconnecting", "Scanning"}
                     \cup Connecting,
         NEW n \in Optional(Networks), NEW m \in Optional(Networks)
  PROVE  /\ Control(p, n, m, 0) \in Controls
         /\ Control(p, n, m, 0).at = p /\ Control(p, n, m, 0).bss = n
         /\ Control(p, n, m, 0).old = m
  BY StaAssumption DEF Control, Controls

(* The idle control task.                                                  *)
LEMMA IdleTyped == IdleControl \in Controls /\ IdleControl.at = "Idle"
  BY ControlTyped DEF IdleControl, Optional

(* A failed or dropped attempt leaves no lock, no filter and no call.      *)
LEMMA DropEffect ==
  ASSUME drop_attempt
  PROVE  /\ lock' = None /\ ra_filter' = FALSE /\ bssid_filter' = None
         /\ control' \in Controls /\ control'.at = "Idle"
  BY IdleTyped DEF drop_attempt, drop_connection_operation

(* What the attempt has set when it is about to send its first frame.      *)
LEMMA PrepareEffect ==
  ASSUME NEW n \in Networks, NEW l \in Optional(Networks), prepare(n, l)
  PROVE  /\ lock' \in Optional(Networks) /\ ra_filter' \in BOOLEAN
         /\ bssid_filter' \in Optional(Networks) /\ control' \in Controls
         /\ \/ control'.at = "Idle"
            \/ /\ control'.at = "Auth" /\ control'.bss = n /\ lock' = l
               /\ bssid_filter' = n /\ ra_filter' = TRUE
<1>1. CASE drop_attempt
  BY <1>1, DropEffect DEF Optional
<1>2. CASE /\ configure_rx_filters(n) /\ lock' = l
           /\ control' = Control("Auth", n, None, 0)
  <2>1. n \in Optional(Networks) /\ None \in Optional(Networks)
    BY DEF Optional
  <2> QED
    BY <1>2, <2>1, ControlTyped DEF configure_rx_filters, Connecting
<1> QED
  BY <1>1, <1>2, ZenonT(30) DEF prepare

(* What the first part of ConnectionOperation::run has set when it waits,  *)
(* has sent its first frame or has failed.                                 *)
LEMMA BeginEffect ==
  ASSUME TypeOK, NEW n \in Networks, begin_connection(n)
  PROVE  /\ lock' \in Optional(Networks) /\ radio' \in Optional(Networks)
         /\ ra_filter' \in BOOLEAN
         /\ bssid_filter' \in Optional(Networks) /\ control' \in Controls
         /\ \/ control'.at = "Idle"
            \/ control'.at = "Waiting" /\ control'.bss = n /\ lock' = n
            \/ /\ control'.at = "Auth" /\ control'.bss = n /\ lock' = n
               /\ bssid_filter' = n /\ ra_filter' = TRUE
<1>0. n \in Optional(Networks) /\ None \in Optional(Networks)
  BY DEF Optional
<1>1. CASE /\ drop_connection_operation /\ control' = IdleControl
           /\ UNCHANGED channelVars
  BY <1>0, <1>1, IdleTyped, ZenonT(30) DEF drop_connection_operation, channelVars, TypeOK
<1>2. CASE /\ lock' = n /\ radio' = n /\ control' = Control("Waiting", n, None, 0)
           /\ UNCHANGED filterVars
  BY <1>0, <1>2, ControlTyped DEF filterVars, TypeOK
<1>3. CASE radio' = n /\ prepare(n, n)
  BY <1>0, <1>3, PrepareEffect, ZenonT(30)
<1> QED
  BY <1>1, <1>2, <1>3, ZenonT(30) DEF begin_connection

-----------------------------------------------------------------------------
(* Types, group by group.                                                  *)

TrackerType == state \in Optional(Networks) /\ signal \in BOOLEAN
ChannelType == lock \in Optional(Networks) /\ radio \in Optional(Networks)
OthersType == other_lock \in BOOLEAN /\ operation \in {"Self", "Other", None}
RequestType == completed \in BOOLEAN /\ request \in {"Requested", "Granted", None}
SavedType == previously_locked \in Optional(Networks \cup {"Other"})
LmacType == OthersType /\ SavedType /\ RequestType
FilterType == ra_filter \in BOOLEAN /\ bssid_filter \in Optional(Networks)
LinkType == runner \in [at : {"Parked", "Up"}, bss : Optional(Networks)]
RunType ==
  /\ run_connection \in {"Idle", "Completion", "Deauth"}
  /\ run_msdu_tx \in {"Idle", "Completion", "Alloc"}
RunnerType == LinkType /\ RunType
PhyType == phy_rate \in {"Lowest", "Override"}
KeysType == crypto_state \in Optional(Rsn)
ControlType == control \in Controls /\ AttemptInv
DeauthsType == deauths \subseteq Networks
Frames ==
  [kind : {"Msdu", "Deauth", None}, bss : Optional(Networks),
   radio : Optional(Networks), keys : Optional(Rsn)]
SentType == sent \in Frames
PacedType == paced \in BOOLEAN

Types ==
  /\ TrackerType /\ ChannelType /\ LmacType /\ FilterType /\ RunnerType /\ PhyType
  /\ KeysType /\ ControlType /\ DeauthsType /\ SentType /\ PacedType

(* The groups are the type invariant.                                      *)
LEMMA TypesAre == Types <=> TypeOK /\ AttemptInv
  BY Zenon DEF Types, TypeOK, TrackerType, ChannelType, LmacType, OthersType, SavedType, RequestType,
     FilterType, RunnerType, LinkType, RunType, PhyType, KeysType, ControlType, Controls,
     DeauthsType, SentType, Frames, PacedType

(* The home channel is that of a network or of the other interface.        *)
LEMMA HomeTyped == ChannelType => home_channel \in Optional(Networks \cup {"Other"})
  BY DEF ChannelType, home_channel, Optional

(* A group whose variables do not change keeps its types.                  *)
LEMMA TypesKept ==
  ASSUME Types
  PROVE  /\ UNCHANGED trackerVars => TrackerType'
         /\ UNCHANGED channelVars => ChannelType'
         /\ UNCHANGED lmacVars => LmacType'
         /\ UNCHANGED filterVars => FilterType'
         /\ UNCHANGED runnerVars => RunnerType'
         /\ UNCHANGED phy_rate => PhyType'
         /\ UNCHANGED crypto_state => KeysType'
         /\ UNCHANGED control => ControlType'
         /\ UNCHANGED deauths => DeauthsType'
         /\ UNCHANGED sent => SentType'
         /\ UNCHANGED paced => PacedType'
<1>1. UNCHANGED trackerVars => TrackerType'
  BY DEF Types, TrackerType, trackerVars
<1>2. UNCHANGED channelVars => ChannelType'
  BY DEF Types, ChannelType, channelVars
<1>3. UNCHANGED lmacVars => LmacType'
  BY DEF Types, LmacType, OthersType, SavedType, RequestType, lmacVars
<1>4. UNCHANGED filterVars => FilterType'
  BY DEF Types, FilterType, filterVars
<1>5. UNCHANGED runnerVars => RunnerType'
  BY DEF Types, RunnerType, LinkType, RunType, runnerVars
<1>6. UNCHANGED phy_rate => PhyType'
  BY DEF Types, PhyType
<1>7. UNCHANGED crypto_state => KeysType'
  BY DEF Types, KeysType
<1>8. UNCHANGED control => ControlType'
  BY Zenon DEF Types, ControlType, AttemptInv
<1>9. UNCHANGED deauths => DeauthsType'
  BY DEF Types, DeauthsType
<1>10. UNCHANGED sent => SentType'
  BY DEF Types, SentType
<1>11. UNCHANGED paced => PacedType'
  BY DEF Types, PacedType
<1> QED
  BY <1>1, <1>2, <1>3, <1>4, <1>5, <1>6, <1>7, <1>8, <1>9, <1>10, <1>11

(* The parts of the types that the calls of the control task set.          *)
LEMMA ControlTypes ==
  ASSUME Types
  PROVE  /\ control' = IdleControl => ControlType'
         /\ drop_attempt => ControlType' /\ FilterType' /\ lock' \in Optional(Networks)
         /\ \A n \in Networks :
              begin_connection(n) => ChannelType' /\ FilterType' /\ ControlType'
         /\ \A n \in Networks, l \in Optional(Networks) :
              prepare(n, l) => ControlType' /\ FilterType' /\ lock' \in Optional(Networks)
<1>0. /\ "Idle" \notin {"Switching"} \cup Attempting /\ None \in Optional(Networks)
      /\ {"Idle", "Waiting", "Auth"} \cap {"Switching", "Disconnecting"} = {}
      /\ "Idle" \in {"Idle", "Waiting", "Auth"}
  BY DEF Attempting, Connecting, Optional
<1>1. control' = IdleControl => ControlType'
  BY <1>0, IdleTyped, Zenon DEF ControlType, AttemptInv
<1>2. drop_attempt => ControlType' /\ FilterType' /\ lock' \in Optional(Networks)
  BY <1>0, DropEffect, ZenonT(30) DEF ControlType, FilterType, AttemptInv
<1>3. ASSUME NEW n \in Networks, begin_connection(n)
      PROVE  ChannelType' /\ FilterType' /\ ControlType'
  <2>1. TypeOK
    BY TypesAre
  <2>2. /\ lock' \in Optional(Networks) /\ radio' \in Optional(Networks)
        /\ ra_filter' \in BOOLEAN
        /\ bssid_filter' \in Optional(Networks) /\ control' \in Controls
        /\ control'.at \in {"Idle", "Waiting", "Auth"}
        /\ control'.at = "Idle" \/ control'.bss = n
    BY <1>3, <2>1, BeginEffect, ZenonT(30)
  <2> QED
    BY <2>2, <1>0, ZenonT(30) DEF ChannelType, FilterType, ControlType, AttemptInv
<1>4. ASSUME NEW n \in Networks, NEW l \in Optional(Networks), prepare(n, l)
      PROVE  ControlType' /\ FilterType' /\ lock' \in Optional(Networks)
  <2>1. /\ lock' \in Optional(Networks) /\ ra_filter' \in BOOLEAN
        /\ bssid_filter' \in Optional(Networks) /\ control' \in Controls
        /\ control'.at \in {"Idle", "Waiting", "Auth"}
        /\ control'.at = "Idle" \/ control'.bss = n
    BY <1>4, PrepareEffect, ZenonT(30)
  <2> QED
    BY <2>1, <1>0, ZenonT(30) DEF FilterType, ControlType, AttemptInv
<1> QED
  BY <1>1, <1>2, <1>3, <1>4

(* Every call of StaControl keeps the types.                               *)
LEMMA ConnectTypes ==
  ASSUME Types, NEW n \in Networks, connect(n)
  PROVE  Types'
<1>1. TrackerType'
  BY TypesKept, ZenonT(30) DEF connect, signal_state, TrackerType, Optional
<1>2. PhyType' /\ SentType' /\ PacedType'
  <2>1. paced' \in BOOLEAN
    BY DEF connect
  <2> QED
    BY <2>1 DEF connect, reset_phy_rate, PhyType, SentType, Frames, Nothing, PacedType,
                Optional
<1>3. LmacType' /\ RunnerType' /\ KeysType'
  BY TypesKept DEF connect
<1>4. ChannelType' /\ FilterType' /\ ControlType' /\ DeauthsType'
  <2>1. CASE /\ begin_connection(n)
             /\ deauths' = IF connected THEN deauths \cup {state} ELSE deauths
    <3>1. DeauthsType'
      BY <2>1 DEF Types, DeauthsType, TrackerType, connected, Optional
    <3> QED
      BY <2>1, <3>1, ControlTypes
  <2>2. CASE /\ connected /\ control' = Control("Switching", n, state, 0)
             /\ UNCHANGED <<channelVars, filterVars, deauths>>
    <3>1. n \in Optional(Networks) /\ state \in Optional(Networks)
      BY DEF Types, TrackerType, Optional
    <3>2. control' \in Controls /\ control'.bss = n /\ control'.old = state
      BY <2>2, <3>1, ControlTyped
    <3>3. state \in Networks
      BY <2>2, <3>1 DEF connected, Optional
    <3> QED
      BY <2>2, <3>2, <3>3, TypesKept, Zenon DEF ControlType, AttemptInv
  <2> QED
    BY <2>1, <2>2 DEF connect
<1> QED
  BY <1>1, <1>2, <1>3, <1>4 DEF Types

(* Every step keeps the types.                                             *)
LEMMA TypesNext ==
  ASSUME Types, [Next]_vars, runner.at = "Up" => runner.bss # None
  PROVE  Types'
<1>1. None \in Optional(Networks) /\ Networks \subseteq Optional(Networks)
  BY DEF Optional
<1>2. sent' = Nothing => SentType'
  BY DEF SentType, Frames, Nothing, Optional
<1>3. \A n \in Networks : connect(n) => Types'
  BY ConnectTypes
<1>4. ASSUME connect_resumed PROVE Types'
  <2>1. control.bss \in Networks /\ control.old \in Networks
    BY <1>4 DEF connect_resumed, Types, ControlType, AttemptInv
  <2>2. DeauthsType'
    BY <1>4, <2>1 DEF connect_resumed, Types, DeauthsType
  <2>3. ChannelType' /\ FilterType' /\ ControlType'
    BY <1>4, <2>1, ControlTypes DEF connect_resumed
  <2>4. PhyType'
    BY <1>4 DEF connect_resumed, reset_phy_rate, PhyType
  <2> QED
    BY <1>4, <1>2, <2>2, <2>3, <2>4, TypesKept, Zenon DEF connect_resumed, Types
<1>5. ASSUME connect_waited PROVE Types'
  <2>1. control.bss \in Networks /\ lock \in Optional(Networks)
    BY <1>5, Zenon DEF connect_waited, Types, ControlType, AttemptInv, ChannelType, Attempting
  <2>2. ControlType' /\ FilterType' /\ ChannelType'
    BY <1>5, <2>1, ControlTypes, Zenon DEF connect_waited, ChannelType, Types
  <2> QED
    BY <1>5, <1>2, <2>2, TypesKept, Zenon DEF connect_waited, Types
<1>6. ASSUME connection_step PROVE Types'
  <2>1. control.bss \in Networks
    BY <1>6 DEF connection_step, Types, ControlType, AttemptInv, Attempting
  <2>2. ChannelType'
    <3>1. lock' \in Optional(Networks) /\ radio' = radio
      BY <1>6, ControlTypes DEF connection_step, establish, fail_attempt, Types, ChannelType
    <3> QED
      BY <3>1 DEF Types, ChannelType
  <2>3. FilterType'
    BY <1>6, ControlTypes, TypesKept DEF connection_step, establish, fail_attempt
  <2>4. TrackerType'
    BY <1>1, <1>6, <2>1, TypesKept, ZenonT(30) DEF connection_step, establish, fail_attempt, signal_state,
       TrackerType
  <2>5. KeysType'
    BY <1>6, <2>1, TypesKept DEF connection_step, establish, fail_attempt, installed,
       KeysType, Types, Optional
  <2>6. ControlType'
    <3>1. CASE control' = Control(IF control.at = "Auth" THEN "Assoc" ELSE "Handshake",
                                  control.bss, None, 0)
      <4>1. /\ control' \in Controls /\ control'.bss = control.bss
            /\ control'.at \notin {"Switching", "Disconnecting"}
        BY <1>1, <2>1, <3>1, ControlTyped DEF Connecting
      <4> QED
        BY <2>1, <4>1 DEF ControlType, AttemptInv
    <3> QED
      BY <1>6, <3>1, ControlTypes DEF connection_step, establish, fail_attempt
  <2> QED
    BY <1>6, <1>2, <2>2, <2>3, <2>4, <2>5, <2>6, TypesKept DEF connection_step, Types
<1>7. ASSUME response_timeout PROVE Types'
  <2>1. ControlType'
    <3>1. CASE AttemptsLeft /\ control' = [control EXCEPT !.attempt = @ + 1]
      <4>1. /\ control' \in Controls /\ control'.at = control.at
            /\ control'.bss = control.bss /\ control'.old = control.old
        BY <3>1, StaAssumption DEF AttemptsLeft, Types, ControlType, Controls
      <4> QED
        BY <4>1 DEF Types, ControlType, AttemptInv
    <3> QED
      BY <1>7, <3>1, ControlTypes DEF response_timeout, fail_attempt
  <2>2. ChannelType'
    BY <1>7, ControlTypes DEF response_timeout, fail_attempt, ChannelType, Types
  <2>3. FilterType' /\ TrackerType' /\ KeysType'
    BY <1>7, ControlTypes, TypesKept DEF response_timeout, fail_attempt
  <2> QED
    BY <1>7, <1>2, <2>1, <2>2, <2>3, TypesKept DEF response_timeout, Types
<1>8. ASSUME disconnect PROVE Types'
  <2>1. state \in Networks
    BY <1>8 DEF disconnect, connected, Types, TrackerType, Optional
  <2>2. ControlType' /\ DeauthsType'
    <3>1. CASE control' = Control("Disconnecting", None, state, 0)
      <4>1. /\ control' \in Controls /\ control'.at = "Disconnecting"
            /\ control'.old = state
        BY <1>1, <2>1, <3>1, ControlTyped
      <4>2. ControlType'
        BY <2>1, <4>1 DEF ControlType, AttemptInv, Attempting, Connecting
      <4> QED
        BY <1>8, <4>2, <2>1, TypesKept DEF disconnect, Types, DeauthsType
    <3> QED
      BY <1>8, <3>1, <2>1, TypesKept DEF disconnect, Types, DeauthsType
  <2>3. TrackerType' /\ ChannelType' /\ PhyType'
    BY <1>1, <1>8 DEF disconnect, signal_state, reset_phy_rate, TrackerType, ChannelType,
       PhyType, Types
  <2> QED
    BY <1>8, <1>2, <2>2, <2>3, TypesKept DEF disconnect, Types
<1>9. ASSUME disconnect_resumed PROVE Types'
  <2>1. control.old \in Networks
    BY <1>9 DEF disconnect_resumed, Types, ControlType, AttemptInv
  <2>2. DeauthsType'
    BY <1>9, <2>1 DEF disconnect_resumed, Types, DeauthsType
  <2> QED
    BY <1>9, <1>2, <2>2, TypesKept, ControlTypes, Zenon DEF disconnect_resumed, Types
<1>10. ASSUME abandon_call PROVE Types'
  <2>1. ControlType' /\ FilterType'
    BY <1>10, TypesKept, ControlTypes, Zenon DEF abandon_call
  <2>2. ChannelType'
    BY <1>10, ControlTypes DEF abandon_call, ChannelType, Types
  <2> QED
    BY <1>10, <1>2, <2>1, <2>2, TypesKept, Zenon DEF abandon_call, Types
<1>11. ASSUME override_phy_rate PROVE Types'
  BY <1>11, <1>2, TypesKept DEF override_phy_rate, Types, PhyType
<1>12. ASSUME begin_scan PROVE Types'
  <2>1. ControlType'
    <3>1. control' \in Controls /\ control'.at = "Scanning"
      BY <1>1, <1>12, ControlTyped DEF begin_scan
    <3> QED
      BY <3>1 DEF ControlType, AttemptInv, Attempting, Connecting
  <2>2. ChannelType' /\ LmacType'
    BY <1>1, <1>12, HomeTyped DEF begin_scan, ChannelType, LmacType, OthersType, SavedType,
       RequestType, Types
  <2> QED
    BY <1>12, <1>2, <2>1, <2>2, TypesKept, Zenon DEF begin_scan, Types
<1>13. ASSUME complete_operation PROVE Types'
  <2>1. ControlType'
    BY <1>13, TypesKept, ControlTypes DEF complete_operation
  <2>2. ChannelType' /\ LmacType'
    <3>1. radio' \in Optional(Networks) /\ previously_locked' = None
      BY <1>1, <1>13, HomeTyped DEF complete_operation, ChannelType, LmacType, SavedType,
         Optional, Types
    <3> QED
      BY <1>1, <1>13, <3>1, HomeTyped DEF complete_operation, ChannelType, LmacType,
         OthersType, SavedType, RequestType, Optional, Types
  <2> QED
    BY <1>13, <1>2, <2>1, <2>2, TypesKept, Zenon DEF complete_operation, Types
<1>14. link_down => /\ TrackerType' /\ lock' \in Optional(Networks) /\ PhyType'
                    /\ bssid_filter' \in Optional(Networks) /\ RunnerType'
  <2>1. ParkedRunner \in [at : {"Parked", "Up"}, bss : Optional(Networks)]
    BY <1>1 DEF ParkedRunner
  <2> QED
    BY <1>1, <2>1, ZenonT(30) DEF link_down, TrackerType, PhyType, RunnerType, LinkType, RunType
<1>15. ASSUME wait_for_connection PROVE Types'
  <2>1. TrackerType'
    BY <1>15, ZenonT(30) DEF wait_for_connection, TrackerType, Types
  <2>2. RunnerType'
    BY <1>15 DEF wait_for_connection, TrackerType, RunnerType, LinkType, RunType, Types
  <2> QED
    BY <1>15, <1>2, <2>1, <2>2, TypesKept, Zenon DEF wait_for_connection, Types
<1>16. ASSUME wait_for_disconnection PROVE Types'
  <2>1. TrackerType' /\ PhyType' /\ RunnerType'
    BY <1>14, <1>16, TypesKept, ZenonT(30) DEF wait_for_disconnection, TrackerType, Types
  <2>2. ChannelType' /\ FilterType'
    BY <1>14, <1>16 DEF wait_for_disconnection, ChannelType, FilterType, Types
  <2> QED
    BY <1>16, <1>2, <2>1, <2>2, TypesKept, Zenon DEF wait_for_disconnection, Types
<1>17. ASSUME handle_deauth PROVE Types'
  <2>1. ChannelType' /\ FilterType'
    BY <1>14, <1>17 DEF handle_deauth, ChannelType, FilterType, Types
  <2> QED
    BY <1>14, <1>17, <1>2, <2>1, TypesKept, Zenon DEF handle_deauth, Types
<1>18. ASSUME beacon_timeout PROVE Types'
  <2>1. runner.bss \in Networks
    BY <1>18 DEF beacon_timeout, Serving, Types, RunnerType, LinkType, Optional
  <2>2. CASE /\ deauths' = deauths \cup {runner.bss} /\ link_down
    <3>1. ChannelType' /\ FilterType'
      BY <1>14, <1>18, <2>2 DEF beacon_timeout, ChannelType, FilterType, Types
    <3>2. DeauthsType'
      BY <2>1, <2>2 DEF DeauthsType, Types
    <3> QED
      BY <1>14, <1>18, <1>2, <2>2, <3>1, <3>2, TypesKept, Zenon DEF beacon_timeout, Types
  <2>3. CASE /\ run_connection' = "Deauth"
             /\ UNCHANGED <<trackerVars, lock, bssid_filter, phy_rate, runner, run_msdu_tx,
                            deauths>>
    <3>1. ChannelType' /\ FilterType'
      BY <1>18, <2>3 DEF beacon_timeout, ChannelType, FilterType, Types
    <3>2. RunnerType'
      BY <2>3 DEF RunnerType, LinkType, RunType, Types
    <3> QED
      BY <1>18, <1>2, <2>3, <3>1, <3>2, TypesKept, Zenon DEF beacon_timeout, Types
  <2> QED
    BY <1>18, <2>2, <2>3, Zenon DEF beacon_timeout
<1>19. ASSUME grant PROVE Types'
  <2>1. LmacType' /\ RunnerType'
    BY <1>19 DEF grant, LmacType, OthersType, SavedType, RequestType, RunnerType, LinkType, RunType,
       Types
  <2> QED
    BY <1>19, <1>2, <2>1, TypesKept, Zenon DEF grant, Types
<1>20. ASSUME completion_received PROVE Types'
  <2>1. RunnerType'
    BY <1>20 DEF completion_received, RunnerType, LinkType, RunType, Types
  <2> QED
    BY <1>20, <1>2, <2>1, TypesKept, Zenon DEF completion_received, Types
<1>21. ASSUME msdu_tx PROVE Types'
  <2>1. RunnerType'
    BY <1>21 DEF msdu_tx, RunnerType, LinkType, RunType, Types
  <2>2. [kind |-> "Msdu", bss |-> runner.bss, radio |-> radio, keys |-> crypto_state]
          \in Frames
    BY DEF Frames, RunnerType, LinkType, ChannelType, KeysType, Types
  <2>3. SentType'
    BY <1>21, <1>2, <2>2, Zenon DEF msdu_tx, SentType
  <2> QED
    BY <1>21, <2>1, <2>3, TypesKept, Zenon DEF msdu_tx, Types
<1>22. ASSUME NEW n \in Networks, transmit_deauth(n) PROVE Types'
  <2>1. [kind |-> "Deauth", bss |-> n, radio |-> radio, keys |-> None] \in Frames
    BY <1>1 DEF Frames, ChannelType, Types, Optional
  <2>2. SentType' /\ DeauthsType'
    BY <1>22, <2>1 DEF transmit_deauth, SentType, DeauthsType, Types
  <2> QED
    BY <1>22, <2>2, TypesKept, Zenon DEF transmit_deauth, Types
<1>23. ASSUME other_locks PROVE Types'
  <2>1. LmacType' /\ ChannelType'
    BY <1>1, <1>23, ZenonT(30) DEF other_locks, LmacType, OthersType, SavedType, RequestType,
       ChannelType, Types
  <2> QED
    BY <1>23, <1>2, <2>1, TypesKept, Zenon DEF other_locks, Types
<1>24. ASSUME other_operation PROVE Types'
  <2>1. LmacType' /\ ChannelType'
    BY <1>1, <1>24, HomeTyped DEF other_operation, LmacType, OthersType, SavedType,
       RequestType, ChannelType, Types
  <2> QED
    BY <1>24, <1>2, <2>1, TypesKept, Zenon DEF other_operation, Types
<1>25. ASSUME UNCHANGED vars PROVE Types'
  <2>1. /\ UNCHANGED trackerVars /\ UNCHANGED channelVars /\ UNCHANGED lmacVars
        /\ UNCHANGED filterVars /\ UNCHANGED runnerVars /\ UNCHANGED phy_rate
        /\ UNCHANGED crypto_state /\ UNCHANGED control /\ UNCHANGED deauths
        /\ UNCHANGED sent /\ UNCHANGED paced
    BY <1>25 DEF vars, trackerVars, channelVars, lmacVars, filterVars, runnerVars
  <2> QED
    BY <2>1, TypesKept, Zenon DEF Types
<1> QED
  BY <1>3, <1>4, <1>5, <1>6, <1>7, <1>8, <1>9, <1>10, <1>11, <1>12, <1>13, <1>15, <1>16,
     <1>17, <1>18, <1>19, <1>20, <1>21, <1>22, <1>23, <1>24, <1>25, Zenon DEF Next, Runner

-----------------------------------------------------------------------------
(* The tracker, the signal and the runner.                                 *)

Calls == {"Switching", "Disconnecting"} \cup Attempting

(* The runner has a link exactly while it serves a network; a call that is *)
(* making or ending a connection found none or has ended it; and a signal  *)
(* that the runner has not taken can announce a connection only to a       *)
(* runner that is parked.  So when the runner has taken the last signal,   *)
(* it serves the connection of the tracker.                                *)
TrackerInv ==
  /\ runner.at = "Parked" <=> runner.bss = None
  /\ control.at \in Calls => ~connected
  /\ connected /\ signal => runner.at = "Parked"
  /\ RunnerServesConnection

(* A step that is not seen by the tracker and the runner.                  *)
LEMMA TrackerKept ==
  ASSUME TrackerInv, UNCHANGED trackerVars, UNCHANGED runner,
         control'.at \in Calls => ~connected
  PROVE  TrackerInv'
  BY DEF TrackerInv, trackerVars, connected, RunnerServesConnection, RunnerPolled

(* A connection that the control task ends.                                *)
LEMMA TrackerEnds ==
  ASSUME TrackerInv, signal_state(None), UNCHANGED runner
  PROVE  TrackerInv'
  BY DEF TrackerInv, signal_state, connected, RunnerServesConnection, RunnerPolled

(* A connection that the runner ends.                                      *)
LEMMA TrackerDown ==
  ASSUME TrackerInv, link_down
  PROVE  TrackerInv'
<1>1. ParkedRunner.at = "Parked" /\ ParkedRunner.bss = None
  BY DEF ParkedRunner
<1> QED
  BY <1>1 DEF TrackerInv, link_down, connected, RunnerServesConnection, RunnerPolled

(* Where a call stands when its attempt fails or is given up, and after    *)
(* the first part of ConnectionOperation::run.                             *)
LEMMA CallsEnd ==
  ASSUME TypeOK
  PROVE  /\ control' = IdleControl => control'.at \notin Calls
         /\ drop_attempt => control'.at \notin Calls
  BY IdleTyped DEF drop_attempt, Calls, Attempting, Connecting

(* Every step keeps the invariant of the tracker.                          *)
LEMMA TrackerNext ==
  ASSUME Types, TrackerInv, [Next]_vars
  PROVE  TrackerInv'
<1>0. TypeOK /\ control \in Controls
  BY TypesAre DEF Types, ControlType
<1>1. ASSUME NEW n \in Networks, connect(n) PROVE TrackerInv'
  <2>1. CASE connected
    BY <1>1, <2>1, TrackerEnds DEF connect, runnerVars
  <2>2. CASE ~connected
    BY <1>1, <2>2, TrackerKept DEF connect, runnerVars
  <2> QED
    BY <2>1, <2>2
<1>2. ASSUME connect_resumed PROVE TrackerInv'
  <2>1. ~connected
    BY <1>2 DEF connect_resumed, TrackerInv, Calls
  <2> QED
    BY <1>2, <2>1, TrackerKept DEF connect_resumed, runnerVars
<1>3. ASSUME connect_waited PROVE TrackerInv'
  <2>1. ~connected
    BY <1>3 DEF connect_waited, TrackerInv, Calls, Attempting
  <2> QED
    BY <1>3, <2>1, TrackerKept DEF connect_waited, runnerVars
<1>4. ASSUME connection_step PROVE TrackerInv'
  <2>1. ~connected /\ ~signal /\ runner.at = "Parked" /\ runner.bss = None
    BY <1>4 DEF connection_step, TrackerInv, Calls, Attempting, RunnerServesConnection,
       RunnerPolled, connected
  <2>2. CASE UNCHANGED trackerVars
    BY <1>4, <2>1, <2>2, TrackerKept DEF connection_step, runnerVars
  <2>3. CASE control' = IdleControl /\ signal_state(control.bss)
    <3>1. control'.at \notin Calls
      BY <1>0, <2>3, CallsEnd
    <3>2. signal' = TRUE /\ runner' = runner
      BY <1>4, <2>3 DEF signal_state, connection_step, runnerVars
    <3> QED
      BY <2>1, <3>1, <3>2 DEF TrackerInv, RunnerServesConnection, RunnerPolled
  <2> QED
    BY <1>4, <2>2, <2>3 DEF connection_step, establish, fail_attempt
<1>5. ASSUME response_timeout PROVE TrackerInv'
  <2>1. ~connected
    BY <1>5 DEF response_timeout, TrackerInv, Calls, Attempting, Connecting
  <2> QED
    BY <1>5, <2>1, TrackerKept DEF response_timeout, fail_attempt, runnerVars
<1>6. ASSUME disconnect PROVE TrackerInv'
  BY <1>6, TrackerEnds DEF disconnect, runnerVars
<1>7. ASSUME disconnect_resumed \/ abandon_call PROVE TrackerInv'
  <2>1. control'.at \notin Calls /\ UNCHANGED trackerVars /\ UNCHANGED runner
    BY <1>0, <1>7, CallsEnd DEF disconnect_resumed, abandon_call, runnerVars
  <2> QED
    BY <2>1, TrackerKept
<1>8. ASSUME override_phy_rate PROVE TrackerInv'
  BY <1>8, TrackerKept DEF override_phy_rate, runnerVars, TrackerInv
<1>9. ASSUME begin_scan PROVE TrackerInv'
  <2>1. control'.at \notin Calls
    BY <1>9 DEF begin_scan, Control, Calls, Attempting, Connecting
  <2> QED
    BY <1>9, <2>1, TrackerKept DEF begin_scan, runnerVars
<1>10. ASSUME complete_operation PROVE TrackerInv'
  <2>1. control'.at \in Calls => control' = control
    BY <1>0, <1>10, CallsEnd DEF complete_operation
  <2> QED
    BY <1>10, <2>1, TrackerKept DEF complete_operation, runnerVars, TrackerInv
<1>11. ASSUME wait_for_connection PROVE TrackerInv'
  <2>1. /\ state' = state /\ signal' = FALSE /\ control' = control
        /\ runner.at = "Parked" /\ runner.bss = None
    BY <1>11 DEF wait_for_connection, TrackerInv
  <2>2. CASE connected
    <3>1. runner'.at = "Up" /\ runner'.bss = state
      BY <1>11, <2>2 DEF wait_for_connection
    <3> QED
      BY <2>1, <2>2, <3>1 DEF TrackerInv, connected, RunnerServesConnection, RunnerPolled
  <2>3. CASE ~connected
    <3>1. runner' = runner
      BY <1>11, <2>3 DEF wait_for_connection
    <3> QED
      BY <2>1, <2>3, <3>1 DEF TrackerInv, connected, RunnerServesConnection, RunnerPolled
  <2> QED
    BY <2>2, <2>3
<1>12. ASSUME wait_for_disconnection PROVE TrackerInv'
  <2>1. ~connected /\ link_down
    BY <1>12 DEF wait_for_disconnection, TrackerInv
  <2> QED
    BY <2>1, TrackerDown
<1>13. ASSUME handle_deauth PROVE TrackerInv'
  BY <1>13, TrackerDown DEF handle_deauth
<1>14. ASSUME beacon_timeout PROVE TrackerInv'
  <2>1. CASE link_down
    BY <2>1, TrackerDown
  <2>2. CASE UNCHANGED <<trackerVars, runner, control>>
    BY <2>2, TrackerKept DEF TrackerInv
  <2> QED
    BY <1>14, <2>1, <2>2 DEF beacon_timeout
<1>15. ASSUME grant \/ completion_received \/ msdu_tx PROVE TrackerInv'
  BY <1>15, TrackerKept DEF grant, completion_received, msdu_tx, TrackerInv
<1>16. ASSUME NEW n \in Networks, transmit_deauth(n) PROVE TrackerInv'
  BY <1>16, TrackerKept DEF transmit_deauth, TrackerInv, runnerVars
<1>17. ASSUME other_locks \/ other_operation PROVE TrackerInv'
  BY <1>17, TrackerKept DEF other_locks, other_operation, TrackerInv, runnerVars
<1>18. ASSUME UNCHANGED vars PROVE TrackerInv'
  BY <1>18, TrackerKept DEF vars, trackerVars, TrackerInv
<1> QED
  BY <1>1, <1>2, <1>3, <1>4, <1>5, <1>6, <1>7, <1>8, <1>9, <1>10, <1>11, <1>12, <1>13,
     <1>14, <1>15, <1>16, <1>17, <1>18, Zenon DEF Next, Runner

-----------------------------------------------------------------------------
(* The keys of the connection.                                             *)

(* Every step keeps the keys: a connection and its keys appear together.   *)
LEMMA KeysNext ==
  ASSUME KeysInstalled, [Next]_vars
  PROVE  KeysInstalled'
<1>1. UNCHANGED <<state, crypto_state>> => KeysInstalled'
  BY DEF KeysInstalled
<1>2. state' = None => KeysInstalled'
  BY StaAssumption DEF KeysInstalled
<1>3. UNCHANGED <<trackerVars, crypto_state>> => KeysInstalled'
  BY <1>1 DEF trackerVars
<1>4. \A n \in Networks : connect(n) => KeysInstalled'
  BY <1>2, <1>3 DEF connect, signal_state
<1>5. connection_step => KeysInstalled'
  <2>1. crypto_state' = installed(control.bss) /\ state' = control.bss => KeysInstalled'
    BY DEF installed, KeysInstalled
  <2> QED
    BY <2>1, <1>3 DEF connection_step, establish, fail_attempt, signal_state
<1>6. response_timeout => KeysInstalled'
  BY <1>3 DEF response_timeout, fail_attempt
<1>7. connect_resumed \/ connect_waited \/ disconnect_resumed \/ abandon_call => KeysInstalled'
  BY <1>3 DEF connect_resumed, connect_waited, disconnect_resumed, abandon_call
<1>8. override_phy_rate \/ begin_scan \/ complete_operation => KeysInstalled'
  BY <1>3 DEF override_phy_rate, begin_scan, complete_operation
<1>9. disconnect => KeysInstalled'
  BY <1>2 DEF disconnect, signal_state
<1>10. Runner => KeysInstalled'
  <2>1. wait_for_connection \/ wait_for_disconnection => KeysInstalled'
    BY <1>1, <1>2 DEF wait_for_connection, wait_for_disconnection, link_down
  <2>2. handle_deauth \/ beacon_timeout => KeysInstalled'
    BY <1>2, <1>3 DEF handle_deauth, beacon_timeout, link_down
  <2>3. grant \/ completion_received \/ msdu_tx => KeysInstalled'
    BY <1>3 DEF grant, completion_received, msdu_tx
  <2> QED
    BY <2>1, <2>2, <2>3 DEF Runner
<1>11. \A n \in Networks : transmit_deauth(n) => KeysInstalled'
  BY <1>3 DEF transmit_deauth
<1>12. other_locks \/ other_operation => KeysInstalled'
  BY <1>3 DEF other_locks, other_operation
<1>13. UNCHANGED vars => KeysInstalled'
  BY <1>1 DEF vars
<1> QED
  BY <1>4, <1>5, <1>6, <1>7, <1>8, <1>9, <1>10, <1>11, <1>12, <1>13, Zenon DEF Next

-----------------------------------------------------------------------------
(* The channel and the filters of a connection.                            *)

(* If the runner had caught up when connect was called, it stays parked    *)
(* until the connection is there, so nothing takes the lock and the        *)
(* filters of the attempt away.                                            *)
PacedInv ==
  paced =>
    /\ control.at # "Switching"
    /\ control.at \in Attempting =>
         lock = control.bss /\ runner.at = "Parked" /\ ~signal
    /\ control.at \in Connecting => bssid_filter = control.bss /\ ra_filter = TRUE
    /\ ConnectedHoldsChannel

(* A step that is not seen by the attempt and the connection.              *)
LEMMA PacedKept ==
  ASSUME PacedInv, UNCHANGED <<state, signal, lock, ra_filter, bssid_filter, runner>>,
         UNCHANGED paced, control' = control \/ control'.at \notin Calls
  PROVE  PacedInv'
  BY DEF PacedInv, ConnectedHoldsChannel, connected, Calls, Attempting

(* The end of a connection or of an attempt.                               *)
LEMMA PacedEnds ==
  ASSUME state' = None, control'.at \notin {"Switching"} \cup Attempting
  PROVE  PacedInv'
  BY DEF PacedInv, ConnectedHoldsChannel, connected, Attempting

(* The first part of ConnectionOperation::run, and the part after its wait.*)
LEMMA PacedBegins ==
  ASSUME TypeOK, NEW n \in Networks, state' = None,
         begin_connection(n) \/ prepare(n, n),
         paced' => runner'.at = "Parked" /\ ~signal'
  PROVE  PacedInv'
<1>1. \/ control'.at = "Idle"
      \/ control'.at = "Waiting" /\ control'.bss = n /\ lock' = n
      \/ /\ control'.at = "Auth" /\ control'.bss = n /\ lock' = n
         /\ bssid_filter' = n /\ ra_filter' = TRUE
  <2>1. n \in Optional(Networks)
    BY DEF Optional
  <2> QED
    BY <2>1, BeginEffect, PrepareEffect, Zenon
<1> QED
  BY <1>1 DEF PacedInv, ConnectedHoldsChannel, connected, Attempting, Connecting

(* Every step keeps the channel and the filters.                           *)
LEMMA PacedNext ==
  ASSUME Types, TrackerInv, PacedInv, [Next]_vars
  PROVE  PacedInv'
<1>0. TypeOK /\ control \in Controls /\ AttemptInv
  BY TypesAre DEF Types, ControlType
<1>1. ASSUME NEW n \in Networks, connect(n) PROVE PacedInv'
  <2>1. /\ state' = None /\ runner' = runner
        /\ paced' => runner.at = "Parked" /\ ~signal
    BY <1>1, ZenonT(30) DEF connect, signal_state, runnerVars, trackerVars, connected, RunnerPolled
  <2>2. paced' => ~connected
    BY <2>1 DEF TrackerInv, RunnerServesConnection, RunnerPolled, connected
  <2>3. CASE connected
    BY <2>2, <2>3 DEF PacedInv
  <2>4. CASE ~connected
    <3>1. begin_connection(n) /\ signal' = signal
      BY <1>1, <2>4 DEF connect, trackerVars
    <3> QED
      BY <1>0, <2>1, <3>1, PacedBegins
  <2> QED
    BY <2>3, <2>4
<1>2. ASSUME connect_resumed PROVE PacedInv'
  BY <1>2 DEF connect_resumed, PacedInv
<1>3. ASSUME connect_waited PROVE PacedInv'
  <2>1. CASE ~paced
    BY <1>3, <2>1 DEF connect_waited, PacedInv
  <2>2. CASE paced
    <3>1. /\ lock = control.bss /\ runner.at = "Parked" /\ ~signal /\ state = None
          /\ control.bss \in Networks
      BY <1>0, <1>3, <2>2 DEF connect_waited, PacedInv, TrackerInv, AttemptInv, Attempting,
         Calls, connected
    <3>2. /\ prepare(control.bss, control.bss)
          /\ runner' = runner /\ signal' = signal /\ state' = state
      BY <1>3, <3>1 DEF connect_waited, trackerVars, runnerVars
    <3> QED
      BY <1>0, <3>1, <3>2, PacedBegins
  <2> QED
    BY <2>1, <2>2
<1>4. ASSUME connection_step PROVE PacedInv'
  <2>0. /\ state = None /\ runner' = runner /\ paced' = paced
        /\ control.at \in Connecting /\ control.at \in Attempting
    BY <1>4 DEF connection_step, TrackerInv, Attempting, Calls, connected, runnerVars
  <2>1. CASE /\ control' = Control(IF control.at = "Auth" THEN "Assoc" ELSE "Handshake",
                                   control.bss, None, 0)
             /\ UNCHANGED <<trackerVars, lock, filterVars, crypto_state>>
    <3>1. control'.at \in {"Assoc", "Handshake"} /\ control'.bss = control.bss
      BY <2>1 DEF Control
    <3>2. /\ state' = None /\ signal' = signal /\ lock' = lock
          /\ ra_filter' = ra_filter /\ bssid_filter' = bssid_filter
      BY <2>0, <2>1 DEF trackerVars, filterVars
    <3> QED
      BY <2>0, <3>1, <3>2 DEF PacedInv, ConnectedHoldsChannel, connected, Attempting
  <2>2. CASE establish(control.bss)
    <3>1. /\ state' = control.bss /\ lock' = lock
          /\ ra_filter' = ra_filter /\ bssid_filter' = bssid_filter
      BY <2>2 DEF establish, signal_state, filterVars
    <3>2. control'.at \notin Calls
      BY <1>0, <2>2, CallsEnd DEF establish
    <3> QED
      BY <2>0, <3>1, <3>2 DEF PacedInv, ConnectedHoldsChannel, connected, Attempting, Calls
  <2>3. CASE fail_attempt
    <3>1. control'.at \notin Calls /\ state' = None
      BY <1>0, <2>0, <2>3, CallsEnd DEF fail_attempt, trackerVars
    <3> QED
      BY <3>1, PacedEnds DEF Calls
  <2> QED
    BY <1>4, <2>1, <2>2, <2>3 DEF connection_step
<1>5. ASSUME response_timeout PROVE PacedInv'
  <2>0. /\ state = None /\ runner' = runner /\ paced' = paced
        /\ control.at \in Connecting /\ control.at \in Attempting
    BY <1>5 DEF response_timeout, TrackerInv, Attempting, Calls, Connecting, connected,
       runnerVars
  <2>1. CASE fail_attempt
    <3>1. control'.at \notin Calls /\ state' = None
      BY <1>0, <2>0, <2>1, CallsEnd DEF fail_attempt, trackerVars
    <3> QED
      BY <3>1, PacedEnds DEF Calls
  <2>2. CASE /\ control' = [control EXCEPT !.attempt = @ + 1]
             /\ UNCHANGED <<trackerVars, lock, filterVars, crypto_state>>
    <3>1. control'.at = control.at /\ control'.bss = control.bss
      BY <1>0, <2>2 DEF Controls
    <3>2. /\ state' = state /\ signal' = signal /\ lock' = lock
          /\ ra_filter' = ra_filter /\ bssid_filter' = bssid_filter
      BY <2>2 DEF trackerVars, filterVars
    <3> QED
      BY <2>0, <3>1, <3>2 DEF PacedInv, ConnectedHoldsChannel, connected
  <2> QED
    BY <1>5, <2>1, <2>2 DEF response_timeout
<1>6. ASSUME disconnect PROVE PacedInv'
  <2>1. control'.at \notin {"Switching"} \cup Attempting
    BY <1>6 DEF disconnect, Control, Attempting, Connecting
  <2> QED
    BY <1>6, <2>1, PacedEnds DEF disconnect, signal_state
<1>7. ASSUME disconnect_resumed PROVE PacedInv'
  <2>1. control'.at \notin Calls
    BY <1>0, <1>7, CallsEnd DEF disconnect_resumed
  <2> QED
    BY <1>7, <2>1, PacedKept DEF disconnect_resumed, trackerVars, channelVars, filterVars,
       runnerVars
<1>8. ASSUME abandon_call PROVE PacedInv'
  <2>1. control'.at \notin Calls
    BY <1>0, <1>8, CallsEnd DEF abandon_call
  <2>2. state' = None
    BY <1>8 DEF abandon_call, TrackerInv, Calls, Attempting, connected, trackerVars
  <2> QED
    BY <2>1, <2>2, PacedEnds DEF Calls
<1>9. ASSUME override_phy_rate PROVE PacedInv'
  BY <1>9, PacedKept DEF override_phy_rate, trackerVars, channelVars, filterVars, runnerVars
<1>10. ASSUME begin_scan PROVE PacedInv'
  <2>1. control'.at \notin Calls
    BY <1>10 DEF begin_scan, Control, Calls, Attempting, Connecting
  <2> QED
    BY <1>10, <2>1, PacedKept DEF begin_scan, trackerVars, filterVars, runnerVars
<1>11. ASSUME complete_operation PROVE PacedInv'
  <2>1. control' = control \/ control'.at \notin Calls
    BY <1>0, <1>11, CallsEnd DEF complete_operation
  <2> QED
    BY <1>11, <2>1, PacedKept DEF complete_operation, trackerVars, filterVars, runnerVars
<1>12. ASSUME wait_for_connection PROVE PacedInv'
  <2>1. /\ UNCHANGED <<state, lock, ra_filter, bssid_filter, control, paced>>
        /\ signal
    BY <1>12 DEF wait_for_connection, channelVars, filterVars
  <2> QED
    BY <2>1 DEF PacedInv, ConnectedHoldsChannel, connected, Connecting, Attempting
<1>13. ASSUME link_down, runner.at = "Up", UNCHANGED <<control, paced>> PROVE PacedInv'
  <2>1. state' = None
    BY <1>13 DEF link_down
  <2>2. ~paced \/ control.at \notin {"Switching"} \cup Attempting
    BY <1>13 DEF PacedInv
  <2>3. CASE ~paced
    BY <1>13, <2>3 DEF PacedInv
  <2> QED
    BY <1>13, <2>1, <2>2, <2>3, PacedEnds
<1>14. ASSUME wait_for_disconnection \/ handle_deauth PROVE PacedInv'
  <2>1. link_down /\ runner.at = "Up" /\ UNCHANGED <<control, paced>>
    BY <1>14 DEF wait_for_disconnection, handle_deauth, Serving, TrackerInv
  <2> QED
    BY <1>13, <2>1
<1>15. ASSUME beacon_timeout PROVE PacedInv'
  <2>1. CASE link_down
    BY <1>13, <1>15, <2>1 DEF beacon_timeout, Serving
  <2>2. CASE UNCHANGED <<trackerVars, lock, bssid_filter, phy_rate, runner, run_msdu_tx,
                         deauths>>
    BY <1>15, <2>2, PacedKept DEF beacon_timeout, trackerVars
  <2> QED
    BY <1>15, <2>1, <2>2 DEF beacon_timeout
<1>16. ASSUME grant \/ completion_received \/ msdu_tx PROVE PacedInv'
  BY <1>16, PacedKept DEF grant, completion_received, msdu_tx, trackerVars, channelVars,
     filterVars
<1>17. ASSUME NEW n \in Networks, transmit_deauth(n) PROVE PacedInv'
  BY <1>17, PacedKept DEF transmit_deauth, trackerVars, channelVars, filterVars, runnerVars
<1>18. ASSUME other_locks \/ other_operation PROVE PacedInv'
  BY <1>18, PacedKept DEF other_locks, other_operation, trackerVars, filterVars, runnerVars
<1>19. ASSUME UNCHANGED vars PROVE PacedInv'
  BY <1>19, PacedKept DEF vars
<1> QED
  BY <1>1, <1>2, <1>3, <1>4, <1>5, <1>6, <1>7, <1>8, <1>9, <1>10, <1>11, <1>12, <1>14,
     <1>15, <1>16, <1>17, <1>18, <1>19, Zenon DEF Next, Runner

-----------------------------------------------------------------------------
(* The theorems.                                                           *)

(* The invariants hold at first and in every step.                         *)
LEMMA StaInit == Init => Types /\ TrackerInv /\ KeysInstalled /\ PacedInv
<1> SUFFICES ASSUME Init PROVE Types /\ TrackerInv /\ KeysInstalled /\ PacedInv
  OBVIOUS
<1>0. /\ None \in Optional(Networks) /\ None \in Optional(Rsn)
      /\ None \in Optional(Networks \cup {"Other"})
  BY DEF Optional
<1>1. ControlType
  BY IdleTyped DEF Init, ControlType, AttemptInv, Attempting, Connecting
<1>2. LinkType /\ SentType
  BY <1>0 DEF Init, LinkType, ParkedRunner, SentType, Frames, Nothing
<1>3. Types
  BY <1>0, <1>1, <1>2, Zenon DEF Init, Types, TrackerType, ChannelType, LmacType,
     OthersType, SavedType, RequestType, FilterType, RunnerType, RunType, PhyType, KeysType,
     DeauthsType, PacedType
<1>4. TrackerInv
  BY IdleTyped DEF Init, TrackerInv, ParkedRunner, Calls, Attempting, Connecting, connected,
     RunnerServesConnection, RunnerPolled
<1>5. KeysInstalled /\ PacedInv
  BY StaAssumption DEF Init, KeysInstalled, PacedInv
<1> QED
  BY <1>3, <1>4, <1>5

(* The inductive invariant of the station.                                 *)
LEMMA StaCorrect == Spec => [](Types /\ TrackerInv /\ KeysInstalled /\ PacedInv)
<1>1. Types /\ TrackerInv /\ KeysInstalled /\ PacedInv /\ [Next]_vars
        => Types' /\ TrackerInv' /\ KeysInstalled' /\ PacedInv'
  <2>1. TrackerInv => (runner.at = "Up" => runner.bss # None)
    BY DEF TrackerInv
  <2> QED
    BY <2>1, TypesNext, TrackerNext, KeysNext, PacedNext
<1> QED
  BY <1>1, StaInit, PTL DEF Spec

(* Every variable keeps its type.                                          *)
THEOREM StaTypeCorrect == Spec => []TypeOK
  BY StaCorrect, TypesAre, PTL

(* A station connected to an RSN network has the keys of that network      *)
(* installed: run replaces the crypto state before connect tells the       *)
(* tracker, and nothing else touches either.                               *)
THEOREM KeysAreInstalled == Spec => []KeysInstalled
  BY StaCorrect, PTL

(* Once the runner has taken the last signal it serves the connection of   *)
(* the tracker, although the signal keeps one value only: no connection    *)
(* can be made before the runner has taken the end of the one before.      *)
THEOREM RunnerServes == Spec => []RunnerServesConnection
<1>1. TrackerInv => RunnerServesConnection
  BY DEF TrackerInv
<1> QED
  BY <1>1, StaCorrect, PTL

(* A connection made after the runner has finished the one before holds    *)
(* the lock of its channel and both RX filters until it ends.              *)
THEOREM ConnectionHoldsChannel == Spec => []ConnectedHoldsChannel
<1>1. PacedInv => ConnectedHoldsChannel
  BY DEF PacedInv, ConnectedHoldsChannel
<1> QED
  BY <1>1, StaCorrect, PTL

=============================================================================

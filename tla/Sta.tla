-------------------------------- MODULE Sta --------------------------------
(***************************************************************************)
(* The station interface of foa_sta: StaControl, which the application     *)
(* calls to connect, disconnect and scan, the ConnectionRunner in the      *)
(* background, and what they share: the ConnectionStateTracker, the        *)
(* interface's channel lock and RX filters, the PHY rate and the crypto    *)
(* state.  The lower MAC below them is LMac; here it is reduced to this    *)
(* interface's lock, one other interface, and the radio.                   *)
(*                                                                         *)
(* An action is what a task does between two awaits that really suspend    *)
(* it.  Allocating a TX buffer suspends only when the pool is empty and    *)
(* deauthenticate returns once its frame is queued, so connect and         *)
(* disconnect can run a long way before the runner is polled.  A task that *)
(* waits for a frame to be sent or received is woken by an interrupt, and  *)
(* in the meantime the executor polls every task that was already woken.   *)
(***************************************************************************)
EXTENDS Naturals

CONSTANTS
  Networks,        \* the BSSs in range, each on a channel of its own
  Rsn,             \* those whose security_config is not Open
  KEY_SLOT_COUNT,  \* the key slots of the hardware
  handshake_retries,
  None

ASSUME StaAssumption ==
  /\ Rsn \subseteq Networks /\ None \notin Networks
  /\ KEY_SLOT_COUNT \in Nat /\ handshake_retries \in Nat

VARIABLES
  state,         \* ConnectionState: the network connected to, or None
  signal,        \* connection_state_signal
  lock,          \* the network for whose channel this interface holds the lock
  other_lock,    \* does the other interface hold the lock of another channel?
  radio,         \* the network whose channel the radio is on, None for another
  operation,     \* off_channel_operation_interface: "Self", "Other" or None
  previously_locked,  \* the home channel when it began
  completed,     \* was off_channel_completion_signal ever sent?
  request,       \* the off channel request to this interface
  ra_filter,     \* is the receiver address filter set?
  bssid_filter,  \* the BSSID in the filter, or None
  phy_rate,      \* "Lowest" after reset_phy_rate, "Override" after an override
  crypto_state,  \* the network whose keys are installed, or None
  control,       \* the task that calls StaControl
  runner,        \* ConnectionRunner::run and the connection it serves
  run_connection,
  run_msdu_tx,
  deauths,       \* the networks for which a deauth frame is in the TX queue
  sent,          \* what the last step transmitted (history)
  paced          \* had the runner caught up when connect was called? (history)

trackerVars == <<state, signal>>
channelVars == <<lock, radio>>
lmacVars == <<other_lock, operation, previously_locked, completed, request>>
filterVars == <<ra_filter, bssid_filter>>
runnerVars == <<runner, run_connection, run_msdu_tx>>
vars == <<state, signal, lock, other_lock, radio, operation, previously_locked,
          completed, request, ra_filter, bssid_filter, phy_rate, crypto_state, control, runner,
          run_connection, run_msdu_tx, deauths, sent, paced>>

Optional(S) == S \cup {None}
Connecting == {"Auth", "Assoc", "Handshake"}
Control(p, n, m, a) == [at |-> p, bss |-> n, old |-> m, attempt |-> a]
IdleControl == Control("Idle", None, None, 0)
ParkedRunner == [at |-> "Parked", bss |-> None]
Nothing == [kind |-> None, bss |-> None, radio |-> None, keys |-> None]

connected == state # None

(* The key slots in use: four for GTKs and one for the PTK, once in the    *)
(* crypto state and once in a connection attempt that has acquired its own.*)
KeySlotsHeld ==
  (IF crypto_state # None THEN 5 ELSE 0)
    + (IF control.at \in Connecting /\ control.bss \in Rsn THEN 5 ELSE 0)

-----------------------------------------------------------------------------
(* Shared state.                                                           *)

(* Mutant: the state changes and nobody is told.                           *)
signal_state_Silent(s) == state' = s /\ UNCHANGED signal

(* ConnectionStateTracker::signal_state.                                   *)
signal_state(s) == state' = s /\ signal' = TRUE

(* LMacInterfaceControl::wait_for_off_channel_completion returns at once   *)
(* if no operation is running, or if any has ever completed.               *)
completion_pends == operation # None /\ ~completed

(* StaTxRx::in_off_channel_operation.                                      *)
in_off_channel_operation == operation = "Self"

(* LMacInterfaceControl::home_channel: the channel some interface locked,  *)
(* by its network, "Other" for that of the other interface.                *)
home_channel == IF lock # None THEN lock ELSE IF other_lock THEN "Other" ELSE None

(* The executor polls the runner before the radio answers anyone.          *)
RunnerPolled == ~signal

-----------------------------------------------------------------------------
(* StaControl::connect.                                                    *)

(* Mutant: the BSSID filter is left to the previous connection.            *)
configure_rx_filters_RaOnly(n) == ra_filter' = TRUE /\ UNCHANGED bssid_filter

(* ConnectionOperation::configure_rx_filters.                              *)
configure_rx_filters(n) == ra_filter' = TRUE /\ bssid_filter' = n

(* ConnectionOperation::drop clears the filters.                           *)
drop_connection_operation == ra_filter' = FALSE /\ bssid_filter' = None

(* The attempt fails or its future is dropped: the filters are cleared,    *)
(* InterfaceBringupOperation::drop unlocks, the key slots are released.    *)
drop_attempt ==
  /\ drop_connection_operation
  /\ lock' = None
  /\ control' = IdleControl

KeySlotsAvailable(n) == n \in Rsn => KeySlotsHeld + 5 <= KEY_SLOT_COUNT

(* ConnectionOperation::run from the end of its waits to the first frame:  *)
(* the key slots are acquired, the PSK checked and the filters set; the    *)
(* lock is l unless that fails.                                            *)
prepare(n, l) ==
  \/ /\ KeySlotsAvailable(n)
     /\ configure_rx_filters(n)
     /\ lock' = l
     /\ control' = Control("Auth", n, None, 0)
  \/ n \in Rsn /\ drop_attempt

(* ConnectionOperation::run: the channel is locked, which fails if the     *)
(* other interface holds another one and otherwise tunes the radio, and    *)
(* the operations in progress are waited for.                              *)
begin_connection(n) ==
  \/ /\ other_lock
     /\ drop_connection_operation
     /\ control' = IdleControl
     /\ UNCHANGED channelVars
  \/ /\ ~other_lock /\ completion_pends
     /\ lock' = n /\ radio' = n
     /\ control' = Control("Waiting", n, None, 0)
     /\ UNCHANGED filterVars
  \/ /\ ~other_lock /\ ~completion_pends
     /\ radio' = n
     /\ prepare(n, n)

(* StaTxRx::reset_phy_rate.                                                *)
reset_phy_rate == phy_rate' = "Lowest"

(* StaControl::connect.  If there is a connection to another network, the  *)
(* tracker is told and a deauth is queued, for which the control task may  *)
(* have to wait until a TX buffer is free; the channel stays locked.       *)
connect(n) ==
  /\ control.at = "Idle" /\ state # n
  /\ paced' = (runner.at = "Parked" /\ RunnerPolled)
  /\ IF connected THEN signal_state(None) ELSE UNCHANGED trackerVars
  /\ reset_phy_rate
  /\ \/ /\ connected
        /\ control' = Control("Switching", n, state, 0)
        /\ UNCHANGED <<channelVars, filterVars, deauths>>
     \/ /\ deauths' = IF connected THEN deauths \cup {state} ELSE deauths
        /\ begin_connection(n)
  /\ sent' = Nothing
  /\ UNCHANGED <<lmacVars, runnerVars, crypto_state>>

(* A TX buffer became free: the deauth is queued and connect goes on.      *)
connect_resumed ==
  /\ control.at = "Switching"
  /\ deauths' = deauths \cup {control.old}
  /\ reset_phy_rate
  /\ begin_connection(control.bss)
  /\ sent' = Nothing
  /\ UNCHANGED <<trackerVars, lmacVars, runnerVars, crypto_state, paced>>

(* wait_for_off_channel_completion returns in ConnectionOperation::run.    *)
connect_waited ==
  /\ control.at = "Waiting" /\ completed
  /\ prepare(control.bss, lock)
  /\ sent' = Nothing
  /\ UNCHANGED <<trackerVars, radio, lmacVars, runnerVars, phy_rate, crypto_state,
                 deauths, paced>>

(* Mutant: keys that are already there are kept.                           *)
installed_Kept(n) == IF n \in Rsn /\ crypto_state = None THEN n ELSE crypto_state

(* The crypto state of a new connection; that of an open network leaves    *)
(* the one it finds.                                                       *)
installed(n) == IF n \in Rsn THEN n ELSE crypto_state

(* The last response arrived: ConnectionOperation::run completes, its      *)
(* lock and filters stay, and connect tells the tracker.                   *)
establish(n) ==
  /\ crypto_state' = installed(n)
  /\ control' = IdleControl
  /\ signal_state(n)
  /\ UNCHANGED <<lock, filterVars>>

fail_attempt == drop_attempt /\ UNCHANGED <<trackerVars, crypto_state>>

(* A response to do_auth or do_assoc, or one in do_4whs: the next step, or *)
(* the failure that the response or a lost transmission reports.           *)
connection_step ==
  /\ control.at \in Connecting /\ RunnerPolled
  /\ \/ /\ control.at = "Auth" \/ (control.at = "Assoc" /\ control.bss \in Rsn)
        /\ control' = Control(IF control.at = "Auth" THEN "Assoc" ELSE "Handshake",
                              control.bss, None, 0)
        /\ UNCHANGED <<trackerVars, lock, filterVars, crypto_state>>
     \/ /\ control.at = "Handshake" \/ (control.at = "Assoc" /\ control.bss \notin Rsn)
        /\ establish(control.bss)
     \/ fail_attempt
  /\ sent' = Nothing
  /\ UNCHANGED <<radio, lmacVars, runnerVars, phy_rate, deauths, paced>>

AttemptsLeft == control.attempt < handshake_retries

(* do_bidirectional_connection_step: the response timed out.               *)
response_timeout ==
  /\ control.at \in {"Auth", "Assoc"} /\ RunnerPolled
  /\ IF AttemptsLeft
     THEN /\ control' = [control EXCEPT !.attempt = @ + 1]
          /\ UNCHANGED <<trackerVars, lock, filterVars, crypto_state>>
     ELSE fail_attempt
  /\ sent' = Nothing
  /\ UNCHANGED <<radio, lmacVars, runnerVars, phy_rate, deauths, paced>>

-----------------------------------------------------------------------------
(* StaControl: disconnect, the PHY rate, scans, and dropped futures.       *)

(* StaControl::disconnect: the channel is unlocked, the tracker told, and  *)
(* a deauth queued as soon as there is a TX buffer for it.                 *)
disconnect ==
  /\ control.at = "Idle" /\ connected
  /\ lock' = None
  /\ signal_state(None)
  /\ reset_phy_rate
  /\ \/ deauths' = deauths \cup {state} /\ UNCHANGED control
     \/ control' = Control("Disconnecting", None, state, 0) /\ UNCHANGED deauths
  /\ sent' = Nothing
  /\ UNCHANGED <<radio, lmacVars, filterVars, runnerVars, crypto_state, paced>>

disconnect_resumed ==
  /\ control.at = "Disconnecting"
  /\ deauths' = deauths \cup {control.old}
  /\ control' = IdleControl
  /\ sent' = Nothing
  /\ UNCHANGED <<trackerVars, channelVars, lmacVars, filterVars, runnerVars, phy_rate,
                 crypto_state, paced>>

(* The caller drops the future of connect or disconnect.                   *)
abandon_call ==
  /\ \/ /\ control.at \in {"Switching", "Disconnecting"}
        /\ control' = IdleControl
        /\ UNCHANGED <<lock, filterVars>>
     \/ control.at \in {"Waiting"} \cup Connecting /\ drop_attempt
  /\ sent' = Nothing
  /\ UNCHANGED <<trackerVars, radio, lmacVars, runnerVars, phy_rate, crypto_state,
                 deauths, paced>>

(* StaControl::override_phy_rate.                                          *)
override_phy_rate ==
  /\ control.at = "Idle"
  /\ phy_rate' = "Override"
  /\ sent' = Nothing
  /\ UNCHANGED <<trackerVars, channelVars, lmacVars, filterVars, runnerVars, control,
                 crypto_state, deauths, paced>>

(* StaControl::scan: an off channel operation of this interface begins.    *)
begin_scan ==
  /\ control.at = "Idle" /\ operation = None
  /\ control' = Control("Scanning", None, None, 0)
  /\ operation' = "Self" /\ previously_locked' = home_channel /\ radio' = None
  /\ sent' = Nothing
  /\ UNCHANGED <<trackerVars, lock, other_lock, completed, request, filterVars,
                 runnerVars, phy_rate, crypto_state, deauths, paced>>

(* OffChannelOperation::drop: the radio returns to the channel that is     *)
(* locked now, or else to the one that was when the operation began.       *)
complete_operation ==
  /\ operation # None
  /\ operation' = None /\ previously_locked' = None /\ completed' = TRUE
  /\ LET channel == IF home_channel # None THEN home_channel ELSE previously_locked IN
     radio' = CASE channel = None -> radio
                [] channel = "Other" -> None
                [] OTHER -> channel
  /\ control' = IF in_off_channel_operation THEN IdleControl ELSE control
  /\ sent' = Nothing
  /\ UNCHANGED <<trackerVars, lock, other_lock, request, filterVars, runnerVars,
                 phy_rate, crypto_state, deauths, paced>>

-----------------------------------------------------------------------------
(* ConnectionRunner::run.  Its select3 polls wait_for_disconnection first, *)
(* so the other two go on only when there is no signal.                    *)

Serving == runner.at = "Up" /\ RunnerPolled

(* wait_for_connection receives the signal.  If the station is connected   *)
(* the link goes up, else it waits again.                                  *)
wait_for_connection ==
  /\ runner.at = "Parked" /\ signal
  /\ signal' = FALSE
  /\ runner' = IF connected THEN [at |-> "Up", bss |-> state] ELSE runner
  /\ sent' = Nothing
  /\ UNCHANGED <<state, channelVars, lmacVars, filterVars, run_connection, run_msdu_tx,
                 phy_rate, crypto_state, control, deauths, paced>>

(* Mutant: the tracker is not told.                                        *)
link_down_Untold ==
  /\ lock' = None
  /\ phy_rate' = "Lowest"
  /\ bssid_filter' = None
  /\ signal' = FALSE
  /\ runner' = ParkedRunner /\ run_connection' = "Idle" /\ run_msdu_tx' = "Idle"
  /\ UNCHANGED state

(* The end of a connection in ConnectionRunner::run: the pending MSDU is   *)
(* discarded, the parameters are reset and the link goes down.  The signal *)
(* it sends is consumed by the wait_for_connection that follows.           *)
link_down ==
  /\ lock' = None
  /\ phy_rate' = "Lowest"
  /\ bssid_filter' = None
  /\ state' = None /\ signal' = FALSE
  /\ runner' = ParkedRunner /\ run_connection' = "Idle" /\ run_msdu_tx' = "Idle"

(* wait_for_disconnection receives the signal.                             *)
wait_for_disconnection ==
  /\ runner.at = "Up" /\ signal
  /\ \/ ~connected /\ link_down
     \/ /\ connected /\ signal' = FALSE
        /\ UNCHANGED <<state, lock, phy_rate, bssid_filter, runnerVars>>
  /\ sent' = Nothing
  /\ UNCHANGED <<radio, lmacVars, ra_filter, crypto_state, control, deauths, paced>>

(* run_connection receives a deauthentication frame.                       *)
handle_deauth ==
  /\ Serving /\ run_connection = "Idle"
  /\ link_down
  /\ sent' = Nothing
  /\ UNCHANGED <<radio, lmacVars, ra_filter, crypto_state, control, deauths, paced>>

(* The beacon timeout of run_connection: a deauth is queued, as soon as    *)
(* there is a TX buffer for it.                                            *)
beacon_timeout ==
  /\ Serving
  /\ \/ /\ run_connection \in {"Idle", "Deauth"}
        /\ deauths' = deauths \cup {runner.bss}
        /\ link_down
     \/ /\ run_connection = "Idle" /\ run_connection' = "Deauth"
        /\ UNCHANGED <<trackerVars, lock, bssid_filter, phy_rate, runner, run_msdu_tx,
                       deauths>>
  /\ sent' = Nothing
  /\ UNCHANGED <<radio, lmacVars, ra_filter, crypto_state, control, paced>>

(* run_connection grants an off channel request and waits for completion.  *)
grant ==
  /\ Serving /\ run_connection = "Idle" /\ request = "Requested"
  /\ request' = "Granted"
  /\ run_connection' = IF completion_pends THEN "Completion" ELSE "Idle"
  /\ sent' = Nothing
  /\ UNCHANGED <<trackerVars, channelVars, other_lock, operation, previously_locked,
                 completed, filterVars, runner, run_msdu_tx, phy_rate, crypto_state,
                 control, deauths, paced>>

completion_received ==
  /\ Serving /\ run_connection = "Completion" /\ completed
  /\ run_connection' = "Idle"
  /\ sent' = Nothing
  /\ UNCHANGED <<trackerVars, channelVars, lmacVars, filterVars, runner, run_msdu_tx,
                 phy_rate, crypto_state, control, deauths, paced>>

(* run_msdu_tx takes an MSDU, waits for the completion of an off channel   *)
(* operation of its own interface and for a TX buffer, and queues it.      *)
msdu_tx ==
  /\ Serving
  /\ \/ /\ run_msdu_tx = "Idle" /\ in_off_channel_operation /\ completion_pends
        /\ run_msdu_tx' = "Completion" /\ sent' = Nothing
     \/ /\ \/ run_msdu_tx = "Idle" /\ ~(in_off_channel_operation /\ completion_pends)
           \/ run_msdu_tx = "Completion" /\ completed
        /\ run_msdu_tx' = "Alloc" /\ sent' = Nothing
     \/ /\ \/ run_msdu_tx = "Idle" /\ ~(in_off_channel_operation /\ completion_pends)
           \/ run_msdu_tx = "Completion" /\ completed
           \/ run_msdu_tx = "Alloc"
        /\ run_msdu_tx' = "Idle"
        /\ sent' = [kind |-> "Msdu", bss |-> runner.bss, radio |-> radio,
                    keys |-> crypto_state]
  /\ UNCHANGED <<trackerVars, channelVars, lmacVars, filterVars, runner, run_connection,
                 phy_rate, crypto_state, control, deauths, paced>>

-----------------------------------------------------------------------------
(* The TX queue, and the other interface.                                  *)

(* The TX runner transmits a queued deauth frame.                          *)
transmit_deauth(n) ==
  /\ n \in deauths
  /\ deauths' = deauths \ {n}
  /\ sent' = [kind |-> "Deauth", bss |-> n, radio |-> radio, keys |-> None]
  /\ UNCHANGED <<trackerVars, channelVars, lmacVars, filterVars, runnerVars, phy_rate,
                 crypto_state, control, paced>>

(* The other interface locks its channel, or unlocks it.                   *)
other_locks ==
  /\ \/ /\ lock = None /\ ~other_lock
        /\ other_lock' = TRUE /\ radio' = None
     \/ /\ other_lock
        /\ other_lock' = FALSE /\ UNCHANGED radio
  /\ sent' = Nothing
  /\ UNCHANGED <<trackerVars, lock, operation, previously_locked, completed, request,
                 filterVars, runnerVars, phy_rate, crypto_state, control, deauths, paced>>

(* The other interface asks for an off channel operation, or begins one.   *)
other_operation ==
  /\ operation = None
  /\ \/ /\ lock # None /\ request = None /\ request' = "Requested"
        /\ UNCHANGED <<operation, previously_locked, radio>>
     \/ /\ lock = None \/ request = "Granted"
        /\ operation' = "Other" /\ previously_locked' = home_channel
        /\ request' = None /\ radio' = None
  /\ sent' = Nothing
  /\ UNCHANGED <<trackerVars, lock, other_lock, completed, filterVars, runnerVars,
                 phy_rate, crypto_state, control, deauths, paced>>

-----------------------------------------------------------------------------
Init ==
  /\ state = None /\ signal = FALSE
  /\ lock = None /\ other_lock = FALSE /\ radio = None
  /\ operation = None /\ previously_locked = None /\ completed = FALSE /\ request = None
  /\ ra_filter = FALSE /\ bssid_filter = None
  /\ phy_rate = "Lowest" /\ crypto_state = None
  /\ control = IdleControl
  /\ runner = ParkedRunner /\ run_connection = "Idle" /\ run_msdu_tx = "Idle"
  /\ deauths = {} /\ sent = Nothing /\ paced = FALSE

Runner ==
  \/ wait_for_connection \/ wait_for_disconnection \/ handle_deauth
  \/ beacon_timeout \/ grant \/ completion_received \/ msdu_tx

Next ==
  \/ \E n \in Networks : connect(n)
  \/ connect_resumed \/ connect_waited \/ connection_step \/ response_timeout
  \/ disconnect \/ disconnect_resumed \/ abandon_call
  \/ override_phy_rate \/ begin_scan \/ complete_operation
  \/ Runner
  \/ \E n \in Networks : transmit_deauth(n)
  \/ other_locks \/ other_operation

Spec == Init /\ [][Next]_vars

(* The executor polls a runner that was signalled.                         *)
FairSpec == Spec /\ WF_vars(wait_for_connection) /\ WF_vars(wait_for_disconnection)

-----------------------------------------------------------------------------
(* Properties.                                                             *)

(* Every variable has its type.                                            *)
TypeOK ==
  /\ state \in Optional(Networks) /\ signal \in BOOLEAN
  /\ lock \in Optional(Networks) /\ other_lock \in BOOLEAN
  /\ radio \in Optional(Networks)
  /\ operation \in {"Self", "Other", None} /\ completed \in BOOLEAN
  /\ previously_locked \in Optional(Networks \cup {"Other"})
  /\ request \in {"Requested", "Granted", None}
  /\ ra_filter \in BOOLEAN /\ bssid_filter \in Optional(Networks)
  /\ phy_rate \in {"Lowest", "Override"} /\ crypto_state \in Optional(Rsn)
  /\ control \in [at : {"Idle", "Switching", "Waiting", "Disconnecting", "Scanning"}
                          \cup Connecting,
                   bss : Optional(Networks), old : Optional(Networks),
                   attempt : 0 .. handshake_retries]
  /\ runner \in [at : {"Parked", "Up"}, bss : Optional(Networks)]
  /\ run_connection \in {"Idle", "Completion", "Deauth"}
  /\ run_msdu_tx \in {"Idle", "Completion", "Alloc"}
  /\ deauths \subseteq Networks
  /\ sent \in [kind : {"Msdu", "Deauth", None}, bss : Optional(Networks),
                radio : Optional(Networks), keys : Optional(Rsn)]
  /\ paced \in BOOLEAN

(* While the station is connected to a network, its interface holds the    *)
(* lock of that network's channel and both RX filters are set for it, if   *)
(* the caller let the runner finish the old connection before connect.     *)
ConnectedHoldsChannel ==
  paced /\ connected => lock = state /\ bssid_filter = state /\ ra_filter

(* A station connected to an RSN network has the keys of that network      *)
(* installed, and not those of an earlier one (ConnectionOperation::run    *)
(* replaces the crypto state before connect tells the tracker).            *)
KeysInstalled == state \in Rsn => crypto_state = state

(* Once the runner has taken the last signal, the link it serves is the    *)
(* connection of the tracker: a change between two connections is never    *)
(* missed although the Signal keeps one value only.                        *)
RunnerServesConnection == RunnerPolled => runner.bss = state

(* The link state the runner reports follows the connection tracker: the   *)
(* link of a connection that ended goes down, and a connection that is up  *)
(* in the tracker gets its link up, unless it ends before.                 *)
LinkFollowsState ==
  /\ ~connected ~> runner.at = "Parked"
  /\ \A n \in Networks : state = n ~> (runner.bss = n \/ state # n)

-----------------------------------------------------------------------------
(* What the comments in the code say.                                      *)

(* runner.rs: "At this point, the channel will have been locked" when the  *)
(* runner serves a connection.                                             *)
ConnectedIsLocked == connected => lock = state

(* runner.rs: "We don't want to accidentally transmit a MSDU, while we're  *)
(* not on channel."                                                        *)
MsdusOnChannel == sent.kind = "Msdu" => operation = None

(* runner.rs: "We reset all connection specific parameters here.", so that *)
(* the MSDUs of a connection never use the keys of an earlier one.         *)
MsdusUseOwnKeys == sent.kind = "Msdu" => sent.keys \in {None, sent.bss}

(* control.rs: "no other interface could attempt to lock it before we're   *)
(* done here", so the deauth is sent before the radio leaves the channel   *)
(* of the network, when no off channel operation is running.               *)
DeauthOnChannel ==
  sent.kind = "Deauth" /\ operation = None => sent.radio = sent.bss
=============================================================================

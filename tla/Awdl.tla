-------------------------------- MODULE Awdl -------------------------------
(***************************************************************************)
(* An AWDL session of foa_awdl: AwdlControl starts and stops it through a  *)
(* Signal, the runner carries it out (runner/mod.rs), and while it lasts   *)
(* the peer cache, the master election and the user events follow the      *)
(* action frames of the peers and a timer (runner/rx.rs and                *)
(* runner/management.rs, state.rs, peer_cache.rs, peer.rs).                *)
(*                                                                         *)
(* The peers are external: an action frame carries any advert.  Time       *)
(* passes in units of a second, and a timer that is due fires before more  *)
(* time passes.                                                            *)
(***************************************************************************)
EXTENDS Naturals, FiniteSets, SequencesExt

CONSTANTS
  Peers,             \* the addresses of the peers
  Self,              \* our own address
  Adverts,           \* election parameters a peer may send; counter None: version 1
  SELF_METRIC,       \* ElectionState::new
  PEER_CACHE_SIZE,
  EVENT_QUEUE_DEPTH,
  Timeouts,          \* values of the stale peer timeout
  None

ASSUME AwdlAssumption ==
  /\ Self \notin Peers /\ IsFiniteSet(Peers)
  /\ \A a \in Adverts : /\ a.metric \in Nat /\ a.counter \in Nat \cup {None}
                        /\ a.root \in Peers \cup {Self} /\ a.distance \in Nat
  /\ PEER_CACHE_SIZE \in Nat \ {0} /\ EVENT_QUEUE_DEPTH \in Nat /\ SELF_METRIC \in Nat
  /\ Timeouts \subseteq Nat \ {0} /\ Timeouts # {}
  /\ None \notin Nat /\ None \notin Peers /\ None \notin Adverts
  /\ None \notin {"Active", "Inactive"}

VARIABLES
  control,      \* AwdlControl: is a call of start waiting?
  cancelled,    \* history: was the future of the last start dropped?
  lock,         \* does the interface hold its channel lock?
  filters,      \* the banks in which it has a receive filter
  signal,       \* CommonResources::state_signal
  session,      \* is the runner in a session?
  link,         \* the link state of the network device
  cache,        \* the peer cache
  election,     \* our ElectionState
  stale_peer_timeout,
  ticker,       \* seconds until the stale peer timer fires
  interval,     \* its period
  queued,       \* length of the event queue
  known,        \* history: the peers the events of this session tell of
  overflowed,   \* history: was an event of this session dropped?
  heard         \* history: the peers heard in this session

controlVars == <<control, cancelled, lock, filters, stale_peer_timeout>>
sessionVars == <<session, link>>
peerVars == <<cache, election, heard>>
timeVars == <<ticker, interval>>
eventVars == <<queued, known, overflowed>>
vars == <<controlVars, signal, sessionVars, peerVars, timeVars, eventVars>>

NoPeer == [advert |-> None, age |-> 0, service |-> FALSE]
EmptyCache == [p \in Peers |-> NoPeer]
Cached(c) == {p \in Peers : c[p].advert # None}
FilterBanks == {"Bssid", "ReceiverAddress"}
OwnElection == [sync_peer |-> Self, root_peer |-> Self, distance |-> 0]
OwnAdvert == [metric |-> SELF_METRIC, counter |-> 0, root |-> Self, distance |-> 0]

-----------------------------------------------------------------------------
(* The election.                                                           *)

(* is_more_eligible.  Both counters it compares are that of lhs.           *)
is_more_eligible(lhs, rhs) ==
  IF lhs.counter # None
  THEN \/ lhs.counter < lhs.counter
       \/ lhs.counter = lhs.counter /\ lhs.metric < rhs.metric
  ELSE rhs.counter # None \/ lhs.metric <= rhs.metric

(* What a station of the election advertises.                              *)
state(c, p) == IF p = Self THEN OwnAdvert ELSE c[p].advert

(* find_master goes through the cache in the order of the map: the best of *)
(* us and the first i peers.                                               *)
find_master(c, order) ==
  LET best[i \in 0 .. Len(order)] ==
        IF i = 0 THEN Self
        ELSE IF is_more_eligible(state(c, best[i - 1]), state(c, order[i])) THEN order[i]
        ELSE best[i - 1]
  IN best[Len(order)]

(* ElectionState::adopt_master.                                            *)
adopt_master(p, advert) ==
  [sync_peer |-> p, root_peer |-> advert.root, distance |-> advert.distance + 1]

(* Mutant: a station that wins the election keeps its old master.          *)
elect_master_Kept(c) ==
  \E order \in SetToSeqs(Cached(c)) :
    LET p == find_master(c, order) IN
    election' = IF p = Self THEN election ELSE adopt_master(p, c[p].advert)

(* CommonResources::elect_master.                                          *)
elect_master(c) ==
  \E order \in SetToSeqs(Cached(c)) :
    LET p == find_master(c, order) IN
    election' = CASE p # Self -> adopt_master(p, c[p].advert)
                  [] p = Self /\ election.sync_peer = Self -> election
                  [] OTHER -> OwnElection

-----------------------------------------------------------------------------
(* raise_user_event: n events, each dropped when the queue is full.        *)
raise_user_event(n) ==
  /\ queued' = Min({queued + n, EVENT_QUEUE_DEPTH})
  /\ overflowed' = (overflowed \/ queued + n > EVENT_QUEUE_DEPTH)

(* The user takes an event.                                                *)
receive_event ==
  /\ queued > 0
  /\ queued' = queued - 1
  /\ UNCHANGED <<controlVars, signal, sessionVars, peerVars, timeVars, known, overflowed>>

-----------------------------------------------------------------------------
(* AwdlControl.                                                            *)

(* start takes the channel lock and waits for off channel operations; or   *)
(* another interface has locked another channel and it returns an error.   *)
start ==
  /\ control = "Idle"
  /\ control' = "Starting" /\ lock' = TRUE /\ cancelled' = FALSE
  /\ UNCHANGED <<filters, stale_peer_timeout, signal, sessionVars, peerVars, timeVars, eventVars>>

(* Mutant: start returns without a word to the runner.                     *)
start_resumed_Untold ==
  /\ control = "Starting"
  /\ control' = "Idle" /\ filters' = FilterBanks
  /\ UNCHANGED <<cancelled, lock, stale_peer_timeout, signal, sessionVars, peerVars, timeVars,
                 eventVars>>

start_resumed ==
  /\ control = "Starting"
  /\ control' = "Idle" /\ filters' = FilterBanks /\ signal' = "Active"
  /\ UNCHANGED <<cancelled, lock, stale_peer_timeout, sessionVars, peerVars, timeVars, eventVars>>

(* Dropping the future drops the bringup operation, which unlocks.         *)
drop_start ==
  /\ control = "Starting"
  /\ control' = "Idle" /\ lock' = FALSE /\ cancelled' = TRUE
  /\ UNCHANGED <<filters, stale_peer_timeout, signal, sessionVars, peerVars, timeVars, eventVars>>

(* Mutant: the runner is only told of a session that runs already.         *)
stop_Untold ==
  /\ control = "Idle"
  /\ lock' = FALSE /\ filters' = {} /\ signal' = IF session THEN "Inactive" ELSE signal
  /\ UNCHANGED <<control, cancelled, stale_peer_timeout, sessionVars, peerVars, timeVars, eventVars>>

stop ==
  /\ control = "Idle"
  /\ lock' = FALSE /\ filters' = {} /\ signal' = "Inactive"
  /\ UNCHANGED <<control, cancelled, stale_peer_timeout, sessionVars, peerVars, timeVars, eventVars>>

set_peer_stale_timeout(t) ==
  /\ stale_peer_timeout' = t
  /\ UNCHANGED <<control, cancelled, lock, filters, signal, sessionVars, peerVars, timeVars, eventVars>>

-----------------------------------------------------------------------------
(* AwdlRunner::run.                                                        *)

(* Mutant: the peer cache outlives the session.                            *)
clear_peer_cache_Kept == UNCHANGED cache

clear_peer_cache == cache' = EmptyCache

(* The runner takes the state out of the signal.  A session in progress    *)
(* ends: its peers are forgotten and the link goes down.  An active state  *)
(* begins the next one; the parameters of the session are set up first.    *)
run ==
  /\ signal # None /\ signal' = None
  /\ IF session THEN clear_peer_cache ELSE UNCHANGED cache
  /\ session' = (signal = "Active") /\ link' = (signal = "Active")
  /\ IF signal = "Active"
     THEN /\ election' = OwnElection /\ heard' = {}
          /\ ticker' = 1 /\ interval' = 1
          /\ queued' = 0 /\ known' = {} /\ overflowed' = FALSE
     ELSE UNCHANGED <<election, heard, timeVars, eventVars>>
  /\ UNCHANGED controlVars

(* A frame of the peer that is our master is adopted at once.              *)
resynchronize(p) ==
  election' = IF election.sync_peer = p THEN adopt_master(p, cache'[p].advert) ELSE election

(* AwdlPeer::update for a cached peer: parameters that are missing from    *)
(* the frame (None) stay as they were.  A first service raises an event.   *)
update(p, advert, service) ==
  /\ p \in Cached(cache)
  /\ service => ~cache[p].service
  /\ cache' = [cache EXCEPT ![p] = [advert |-> IF advert = None THEN @.advert ELSE advert,
                                    age |-> 0, service |-> @.service \/ service]]
  /\ raise_user_event(IF service THEN 1 ELSE 0)
  /\ resynchronize(p)
  /\ UNCHANGED known

(* A new peer is cached if there is room, and starts an election.          *)
add(p, advert) ==
  /\ p \notin Cached(cache) /\ Cardinality(Cached(cache)) < PEER_CACHE_SIZE
  /\ advert # None
  /\ cache' = [cache EXCEPT ![p] = [advert |-> advert, age |-> 0, service |-> FALSE]]
  /\ raise_user_event(1) /\ known' = known \cup {p}
  /\ elect_master(cache')

process_action_frame(p, advert) ==
  /\ session
  /\ add(p, advert) \/ \E service \in BOOLEAN : update(p, advert, service)
  /\ heard' = heard \cup {p}
  /\ UNCHANGED <<controlVars, signal, sessionVars, timeVars>>

-----------------------------------------------------------------------------
(* AwdlManagementRunner::run_session.                                      *)

(* Mutant: a peer may be silent for exactly the timeout.                   *)
retained_Le(p) == cache[p].age <= stale_peer_timeout

retained(p) == cache[p].age < stale_peer_timeout

(* Mutant: nobody is told of a purged peer.                                *)
purge_stale_peers_Silent(purged) ==
  /\ cache' = [p \in Peers |-> IF p \in purged THEN NoPeer ELSE cache[p]]
  /\ UNCHANGED eventVars

purge_stale_peers(purged) ==
  /\ cache' = [p \in Peers |-> IF p \in purged THEN NoPeer ELSE cache[p]]
  /\ raise_user_event(Cardinality(purged)) /\ known' = known \ purged

(* The timer fires: stale peers go, the timer takes the current timeout,   *)
(* and a master is elected among the rest.                                 *)
stale_peer_tick ==
  /\ session /\ ticker = 0
  /\ purge_stale_peers({p \in Cached(cache) : ~retained(p)})
  /\ ticker' = stale_peer_timeout /\ interval' = stale_peer_timeout
  /\ elect_master(cache')
  /\ UNCHANGED <<controlVars, signal, sessionVars, heard>>

(* A second passes.                                                        *)
pass ==
  /\ session /\ ticker > 0
  /\ ticker' = ticker - 1
  /\ cache' = [p \in Peers |-> IF p \in Cached(cache) THEN [cache[p] EXCEPT !.age = @ + 1]
                                                      ELSE NoPeer]
  /\ UNCHANGED <<controlVars, signal, sessionVars, election, heard, interval, eventVars>>

-----------------------------------------------------------------------------
Init ==
  /\ control = "Idle" /\ cancelled = FALSE /\ lock = FALSE /\ filters = {"Bssid"}
  /\ signal = None
  /\ stale_peer_timeout \in Timeouts
  /\ session = FALSE /\ link = FALSE
  /\ cache = EmptyCache /\ election = OwnElection /\ heard = {}
  /\ ticker = 0 /\ interval = 1
  /\ queued = 0 /\ known = {} /\ overflowed = FALSE

Next ==
  \/ start \/ start_resumed \/ drop_start \/ stop
  \/ \E t \in Timeouts : set_peer_stale_timeout(t)
  \/ receive_event
  \/ run
  \/ \E p \in Peers, advert \in Adverts \cup {None} : process_action_frame(p, advert)
  \/ stale_peer_tick \/ pass

Spec == Init /\ [][Next]_vars

(* The executor polls a runner whose signal is set, and start returns once *)
(* off channel operations are done.                                        *)
FairSpec == Spec /\ WF_vars(run) /\ WF_vars(start_resumed)

-----------------------------------------------------------------------------
(* The state has its types; the cache holds at most PEER_CACHE_SIZE peers. *)
TypeOK ==
  /\ control \in {"Idle", "Starting"} /\ lock \in BOOLEAN /\ filters \subseteq FilterBanks
  /\ cancelled \in BOOLEAN
  /\ signal \in {None, "Active", "Inactive"}
  /\ stale_peer_timeout \in Timeouts
  /\ session \in BOOLEAN /\ link \in BOOLEAN
  /\ \A p \in Peers : cache[p].advert \in Adverts \cup {None} /\ cache[p].age \in Nat
  /\ Cardinality(Cached(cache)) <= PEER_CACHE_SIZE
  /\ election.sync_peer \in Peers \cup {Self} /\ election.root_peer \in Peers \cup {Self}
  /\ election.distance \in Nat
  /\ ticker \in 0 .. interval /\ interval \in Timeouts \cup {1}
  /\ queued \in 0 .. EVENT_QUEUE_DEPTH /\ known \subseteq Peers /\ overflowed \in BOOLEAN
  /\ heard \subseteq Peers

(* During a session the master is ourselves or a peer in the cache, with   *)
(* the root it last told us of and one hop more: a master that goes silent *)
(* is replaced in the step that purges it, and one that changes its own    *)
(* master is followed.                                                     *)
MasterIsFollowed ==
  session =>
    IF election.sync_peer = Self
    THEN election = OwnElection
    ELSE /\ election.sync_peer \in Cached(cache)
         /\ election = adopt_master(election.sync_peer, cache[election.sync_peer].advert)

(* A session only knows peers it heard itself: what the runner comments as *)
(* "so the next session starts of fresh", however starts and stops race it.*)
SessionStartsFresh == Cached(cache) \subseteq (IF session THEN heard ELSE {})

(* Once the runner has taken the last signal and no start is in progress,  *)
(* a session has all its receive filters, and without one no frame is      *)
(* received by our address (the filter on the BSSID is there from the      *)
(* creation of the interface to the first stop).  The channel lock is held *)
(* exactly when there is a session; unless the last start was cancelled,   *)
(* which takes the lock of a session that is already running.              *)
SessionHoldsChannel ==
  control = "Idle" /\ signal = None =>
    /\ IF session THEN filters = FilterBanks ELSE "ReceiverAddress" \notin filters
    /\ ~cancelled => lock = session

(* A peer that falls silent is gone before twice the period of the timer.  *)
StalePeersLeave == \A p \in Cached(cache) : cache[p].age < 2 * interval

(* Unless an event was dropped, the events of a session tell which peers   *)
(* are in the cache.                                                       *)
EventsTellPeers == session /\ ~overflowed => known = Cached(cache)

(* The runner obeys start and stop: after stop the link goes down, unless  *)
(* a session is started again; after start there is a session, unless it   *)
(* is stopped again or the call is dropped.                                *)
SignalsAreObeyed ==
  /\ (signal = "Inactive") ~> (~link \/ signal = "Active")
  /\ (control = "Starting") ~> ((session /\ signal = None) \/ signal = "Inactive" \/ cancelled)

(* is_more_eligible is documented to "Check if the other election state is *)
(* more eligibile to be master, than this state.": while we are our own    *)
(* master, no cached peer counts more than we do.  Checked with peers that *)
(* never change their advert.                                              *)
CounterDecides ==
  session /\ election.sync_peer = Self =>
    \A p \in Cached(cache) : cache[p].advert.counter # None => cache[p].advert.counter <= 0

(* run_session comments "We purge stale peers and resynchronize every      *)
(* second.": no peer is cached a second after it became stale.             *)
PurgedEverySecond == \A p \in Cached(cache) : cache[p].age <= stale_peer_timeout
=============================================================================

----------------------------- MODULE AwdlProofs -----------------------------
(* Proofs about Awdl: the invariants of a session hold for every set of    *)
(* peers, whatever they advertise, every size of the peer cache and of the *)
(* event queue and every timeout.                                          *)
EXTENDS Awdl, FiniteSetTheorems, WellFoundedInduction, TLAPS

(* The provers of a leaf that names none, with time for a slow machine.    *)
USE SMTT(30), ZenonT(30), SMTT(60)

-----------------------------------------------------------------------------
(* Induction on the natural numbers, for sets of them.                     *)

(* A set of natural numbers that is not empty has a least element.         *)
LEMMA Least ==
  ASSUME NEW S, S \subseteq Nat, S # {}
  PROVE  \E n \in S : \A m \in S : n <= m
<1> DEFINE R == OpToRel(<, Nat)
<1>1. IsWellFoundedOn(R, Nat)
  BY NatLessThanWellFounded, ZenonT(30)
<1>2. \A x, y \in Nat : x < y => <<x, y>> \in R
  BY SMTT(30) DEF OpToRel
<1> HIDE DEF R
<1>3. PICK n \in S : \A m \in S : ~(<<m, n>> \in R)
  BY <1>1, WFMin, ZenonT(30)
<1>4. \A m \in S : ~(m < n) /\ m \in Nat /\ n \in Nat
  BY <1>2, <1>3, ZenonT(30)
<1>5. \A m \in S : n <= m
  BY <1>4, SMTT(30)
<1> QED
  BY <1>5, ZenonT(30)

(* A set with 0 and the successor of each of its elements has them all.    *)
LEMMA Induct ==
  ASSUME NEW S, S \subseteq Nat, 0 \in S, \A n \in S : n + 1 \in S
  PROVE  S = Nat
<1> SUFFICES ASSUME NEW x \in Nat \ S PROVE FALSE
  BY ZenonT(30)
<1>1. PICK n \in Nat \ S : \A m \in Nat \ S : n <= m
  BY Least, ZenonT(30)
<1>2. n # 0
  BY <1>1, ZenonT(30)
<1>3. n - 1 \in S
  BY <1>1, <1>2, SMTT(30)
<1>4. n = (n - 1) + 1
  BY <1>1, SMTT(30)
<1> QED
  BY <1>1, <1>3, <1>4, ZenonT(30)

-----------------------------------------------------------------------------
(* The election.                                                           *)

(* The function find_master computes, for the first n peers of an order.   *)
bestOf(c, order, n, best) ==
  best = [i \in 0 .. n |->
            IF i = 0 THEN Self
            ELSE IF is_more_eligible(state(c, best[i - 1]), state(c, order[i])) THEN order[i]
            ELSE best[i - 1]]

(* There is such a function.                                               *)
LEMMA BestExists ==
  ASSUME NEW c, NEW order, NEW n \in Nat
  PROVE  \E best : bestOf(c, order, n, best)
<1> DEFINE S == {k \in Nat : \E best : bestOf(c, order, k, best)}
<1>1. 0 \in S
  <2> DEFINE best == [i \in 0 .. 0 |-> Self]
  <2>1. bestOf(c, order, 0, best)
    BY SMTT(30) DEF bestOf
  <2> QED
    BY <2>1, SMTT(30)
<1>2. ASSUME NEW k \in S PROVE k + 1 \in S
  <2>1. k \in Nat /\ k + 1 \in Nat
    BY SMTT(30)
  <2>2. PICK g : bestOf(c, order, k, g)
    BY ZenonT(30)
  <2> DEFINE next == IF is_more_eligible(state(c, g[k]), state(c, order[k + 1])) THEN order[k + 1]
                     ELSE g[k]
             best == [i \in 0 .. k + 1 |-> IF i = k + 1 THEN next ELSE g[i]]
  <2>3. \A i \in 0 .. k : best[i] = g[i]
    BY <2>1, SMTT(30)
  <2>4. \A i \in 0 .. k :
          g[i] = IF i = 0 THEN Self
                 ELSE IF is_more_eligible(state(c, g[i - 1]), state(c, order[i])) THEN order[i]
                 ELSE g[i - 1]
    BY <2>1, <2>2, SMTT(30) DEF bestOf
  <2>5. ASSUME NEW i \in 0 .. k + 1
        PROVE  best[i] = IF i = 0 THEN Self
                 ELSE IF is_more_eligible(state(c, best[i - 1]), state(c, order[i])) THEN order[i]
                 ELSE best[i - 1]
    <3>1. CASE i \in 0 .. k /\ i # 0
      <4>1. best[i] = g[i] /\ best[i - 1] = g[i - 1]
        BY <2>1, <2>3, <3>1, SMTT(30)
      <4> QED
        BY <2>4, <3>1, <4>1, ZenonT(30)
    <3>2. CASE i = k + 1
      <4>1. best[i] = next /\ best[i - 1] = g[k] /\ i # 0
        BY <2>1, <2>3, <3>2, SMTT(30)
      <4> QED
        BY <3>2, <4>1, ZenonT(30)
    <3>3. CASE i = 0
      BY <2>1, <2>3, <2>4, <3>3, SMTT(30)
    <3> QED
      BY <2>1, <3>1, <3>2, <3>3, SMTT(30)
  <2>6. bestOf(c, order, k + 1, best)
    <3> DEFINE rhs == [i \in 0 .. k + 1 |->
             IF i = 0 THEN Self
             ELSE IF is_more_eligible(state(c, best[i - 1]), state(c, order[i])) THEN order[i]
             ELSE best[i - 1]]
    <3>1. best = [i \in 0 .. k + 1 |-> best[i]]
      OBVIOUS
    <3>2. \A i \in 0 .. k + 1 : best[i] = rhs[i]
      BY <2>5, ZenonT(30)
    <3>3. best = rhs
      <4> HIDE DEF best
      <4> QED
        BY <3>1, <3>2, ZenonT(30)
    <3> QED
      BY <3>3, ZenonT(30) DEF bestOf
  <2> HIDE DEF best
  <2> QED
    BY <2>1, <2>6, ZenonT(30)
<1>3. S = Nat
  <2> HIDE DEF S
  <2>1. S \subseteq Nat
    BY ZenonT(30) DEF S
  <2> QED
    BY <1>1, <1>2, <2>1, Induct, ZenonT(30)
<1> QED
  BY <1>3, ZenonT(30)

(* Its values are stations: ourselves or a peer of the order.              *)
LEMMA BestIsStation ==
  ASSUME NEW c, NEW T, NEW n \in Nat, NEW order \in [1 .. n -> T], NEW best,
         bestOf(c, order, n, best)
  PROVE  best[n] \in T \cup {Self}
<1> DEFINE S == {k \in Nat : k <= n => best[k] \in T \cup {Self}}
<1>1. \A i \in 0 .. n :
        best[i] = IF i = 0 THEN Self
                  ELSE IF is_more_eligible(state(c, best[i - 1]), state(c, order[i])) THEN order[i]
                  ELSE best[i - 1]
  BY SMTT(30) DEF bestOf
<1>2. 0 \in S
  BY <1>1, SMTT(30)
<1>3. ASSUME NEW k \in S PROVE k + 1 \in S
  <2>1. k \in Nat /\ k + 1 \in Nat /\ (k <= n => best[k] \in T \cup {Self})
    BY SMTT(30)
  <2>2. ASSUME k + 1 <= n PROVE best[k + 1] \in T \cup {Self}
    <3>1. /\ k + 1 \in 0 .. n /\ k + 1 # 0 /\ (k + 1) - 1 = k /\ k <= n
          /\ order[k + 1] \in T
      BY <2>1, <2>2, SMTT(30)
    <3>2. best[k + 1] \in {order[k + 1], best[k]}
      BY <1>1, <3>1, SMTT(30)
    <3> QED
      BY <2>1, <3>1, <3>2, ZenonT(30)
  <2> QED
    BY <2>1, <2>2, ZenonT(30)
<1>4. S = Nat
  <2> HIDE DEF S
  <2>1. S \subseteq Nat
    BY ZenonT(30) DEF S
  <2> QED
    BY <1>2, <1>3, <2>1, Induct, ZenonT(30)
<1>5. n <= n
  BY SMTT(30)
<1> QED
  BY <1>4, <1>5, ZenonT(30)

(* find_master returns us or a cached peer, in whatever order the cache is *)
(* gone through.                                                           *)
LEMMA MasterIsStation ==
  ASSUME NEW c, IsFiniteSet(Cached(c)), NEW order \in SetToSeqs(Cached(c))
  PROVE  find_master(c, order) \in Cached(c) \cup {Self}
<1> DEFINE n == Cardinality(Cached(c))
<1>1. n \in Nat
  BY FS_CardinalityType, ZenonT(30)
<1>2. order \in [1 .. n -> Cached(c)]
  BY SMTT(30) DEF SetToSeqs
<1> HIDE DEF n
<1>3. Len(order) = n
  BY <1>1, <1>2, SMTT(30)
<1> DEFINE best == CHOOSE g : bestOf(c, order, n, g)
<1>4. bestOf(c, order, n, best)
  BY <1>1, BestExists, ZenonT(30)
<1>5. find_master(c, order) = best[n]
  BY <1>3, ZenonT(30) DEF find_master, bestOf
<1> HIDE DEF best
<1>6. best[n] \in Cached(c) \cup {Self}
  BY <1>1, <1>2, <1>4, BestIsStation, ZenonT(30)
<1> QED
  BY <1>5, <1>6, ZenonT(30)

-----------------------------------------------------------------------------
(* The invariants of a session, which are inductive together.              *)

(* What the cache holds; the age of a peer and the time until the stale    *)
(* peer timer make less than two periods.                                  *)
Entries == [advert : Adverts \cup {None}, age : Nat, service : BOOLEAN]

CacheInv ==
  /\ cache \in [Peers -> Entries]
  /\ stale_peer_timeout \in Timeouts
  /\ ticker \in Nat /\ interval \in Nat /\ interval > 0 /\ ticker <= interval
  /\ \A p \in Cached(cache) : cache[p].age + ticker < 2 * interval

(* The signal and the session in the words of AwdlControl: is it active,   *)
(* once the runner has taken the signal?                                   *)
active == IF signal = None THEN session ELSE signal = "Active"

ControlInv ==
  /\ control \in {"Idle", "Starting"} /\ signal \in {None, "Active", "Inactive"}
  /\ session \in BOOLEAN /\ lock \in BOOLEAN /\ filters \subseteq FilterBanks
  /\ IF active THEN filters = FilterBanks ELSE "ReceiverAddress" \notin filters
  /\ control = "Starting" => lock /\ ~cancelled
  /\ control = "Idle" /\ ~cancelled => lock = active

AwdlInv ==
  /\ CacheInv /\ ControlInv
  /\ MasterIsFollowed /\ SessionStartsFresh /\ EventsTellPeers

(* Nothing is cached or signalled at first.                                *)
LEMMA AwdlInvInit == Init => AwdlInv
<1> SUFFICES ASSUME Init PROVE AwdlInv
  OBVIOUS
<1>1. cache = EmptyCache /\ NoPeer \in Entries /\ NoPeer.advert = None
  BY SMTT(30) DEF Init, NoPeer, Entries
<1>2. cache \in [Peers -> Entries] /\ Cached(cache) = {}
  BY <1>1, SMTT(30) DEF EmptyCache, Cached
<1>3. CacheInv
  BY <1>2, SMTT(30) DEF Init, CacheInv
<1>4. ControlInv
  <2>1. filters \subseteq FilterBanks /\ "ReceiverAddress" \notin filters
    BY SMTT(30) DEF Init, FilterBanks
  <2> QED
    BY <2>1, ZenonT(30) DEF Init, ControlInv, active
<1>5. MasterIsFollowed
  BY ZenonT(30) DEF Init, MasterIsFollowed
<1>6. SessionStartsFresh /\ EventsTellPeers
  BY <1>2, ZenonT(30) DEF Init, SessionStartsFresh, EventsTellPeers
<1> QED
  BY <1>3, <1>4, <1>5, <1>6, ZenonT(30) DEF AwdlInv

(* The parts of the invariant that a step which leaves the cache, the      *)
(* election and the timer alone cannot disturb.                            *)
LEMMA PeersStay ==
  ASSUME AwdlInv, UNCHANGED <<session, cache, election, heard, ticker, interval, known>>,
         stale_peer_timeout' \in Timeouts, overflowed' = overflowed
  PROVE  CacheInv' /\ MasterIsFollowed' /\ SessionStartsFresh' /\ EventsTellPeers'
<1>1. CacheInv'
  BY SMTT(30) DEF AwdlInv, CacheInv, Cached
<1>2. MasterIsFollowed'
  BY ZenonT(30) DEF AwdlInv, MasterIsFollowed, Cached, adopt_master
<1>3. SessionStartsFresh' /\ EventsTellPeers'
  BY ZenonT(30) DEF AwdlInv, SessionStartsFresh, EventsTellPeers, Cached
<1> QED
  BY <1>1, <1>2, <1>3, ZenonT(30)

(* The calls of the user: what the runner will be told is what the         *)
(* interface holds.                                                        *)
LEMMA ControlKeepsInv ==
  /\ AwdlInv
  /\ \/ start \/ start_resumed \/ drop_start \/ stop \/ receive_event
     \/ \E t \in Timeouts : set_peer_stale_timeout(t)
     \/ UNCHANGED vars
  => AwdlInv'
<1> SUFFICES ASSUME AwdlInv PROVE
         (\/ start \/ start_resumed \/ drop_start \/ stop \/ receive_event
          \/ \E t \in Timeouts : set_peer_stale_timeout(t)
          \/ UNCHANGED vars)
         => AwdlInv'
  OBVIOUS
<1>1. ASSUME UNCHANGED <<session, cache, election, heard, ticker, interval, known, overflowed>>,
             stale_peer_timeout' \in Timeouts, ControlInv'
      PROVE  AwdlInv'
  BY <1>1, PeersStay, ZenonT(30) DEF AwdlInv
<1>2. stale_peer_timeout \in Timeouts /\ ControlInv
  BY ZenonT(30) DEF AwdlInv, CacheInv
<1>3. CASE start
  <2>1. ControlInv'
    BY <1>2, <1>3, ZenonT(30) DEF start, ControlInv, active, sessionVars
  <2> QED
    BY <1>1, <1>2, <1>3, <2>1, ZenonT(30) DEF start, sessionVars, peerVars, timeVars, eventVars
<1>4. CASE start_resumed
  <2>1. ControlInv'
    BY <1>2, <1>4, AwdlAssumption, ZenonT(30) DEF start_resumed, ControlInv, active, sessionVars
  <2> QED
    BY <1>1, <1>2, <1>4, <2>1, ZenonT(30)
    DEF start_resumed, sessionVars, peerVars, timeVars, eventVars
<1>5. CASE drop_start
  <2>1. ControlInv'
    BY <1>2, <1>5, ZenonT(30) DEF drop_start, ControlInv, active, sessionVars
  <2> QED
    BY <1>1, <1>2, <1>5, <2>1, ZenonT(30) DEF drop_start, sessionVars, peerVars, timeVars, eventVars
<1>6. CASE stop
  <2>1. ControlInv'
    BY <1>2, <1>6, AwdlAssumption, ZenonT(30) DEF stop, ControlInv, active, sessionVars
  <2> QED
    BY <1>1, <1>2, <1>6, <2>1, ZenonT(30) DEF stop, sessionVars, peerVars, timeVars, eventVars
<1>7. CASE receive_event
  <2>1. ControlInv'
    BY <1>2, <1>7, ZenonT(30) DEF receive_event, ControlInv, active, sessionVars, controlVars
  <2> QED
    BY <1>1, <1>2, <1>7, <2>1, ZenonT(30)
    DEF receive_event, sessionVars, peerVars, timeVars, controlVars
<1>8. ASSUME NEW t \in Timeouts, set_peer_stale_timeout(t) PROVE AwdlInv'
  <2>1. ControlInv'
    BY <1>2, <1>8, ZenonT(30) DEF set_peer_stale_timeout, ControlInv, active, sessionVars
  <2> QED
    BY <1>1, <1>8, <2>1, ZenonT(30)
    DEF set_peer_stale_timeout, sessionVars, peerVars, timeVars, eventVars
<1>9. CASE UNCHANGED vars
  <2>1. ControlInv'
    BY <1>2, <1>9, ZenonT(30) DEF vars, ControlInv, active, sessionVars, controlVars
  <2> QED
    BY <1>1, <1>2, <1>9, <2>1, ZenonT(30)
    DEF vars, sessionVars, peerVars, timeVars, eventVars, controlVars
<1> QED
  BY <1>3, <1>4, <1>5, <1>6, <1>7, <1>8, <1>9, ZenonT(30)

(* The runner takes the signal: a new session has an empty cache, for the  *)
(* one it ends was cleared and no other left a peer in it.                 *)
LEMMA RunKeepsInv == AwdlInv /\ run => AwdlInv'
<1> SUFFICES ASSUME AwdlInv, run PROVE AwdlInv'
  OBVIOUS
<1>1. /\ signal # None /\ signal' = None /\ session' = (signal = "Active")
      /\ UNCHANGED <<control, cancelled, lock, filters, stale_peer_timeout>>
      /\ cache' = (IF session THEN EmptyCache ELSE cache)
      /\ signal = "Active" => /\ election' = OwnElection /\ heard' = {} /\ known' = {}
                              /\ ticker' = 1 /\ interval' = 1
      /\ signal # "Active" => UNCHANGED <<ticker, interval>>
  BY ZenonT(30) DEF run, controlVars, clear_peer_cache, timeVars
<1>2. ControlInv'
  BY <1>1, ZenonT(30) DEF AwdlInv, ControlInv, active
<1>3. NoPeer \in Entries /\ NoPeer.advert = None
  BY SMTT(30) DEF NoPeer, Entries
<1>4. cache' \in [Peers -> Entries] /\ Cached(cache)' = {}
  <2>1. CASE session
    BY <1>1, <1>3, <2>1, SMTT(30) DEF EmptyCache, Cached
  <2>2. CASE ~session
    BY <1>1, <2>2, ZenonT(30) DEF AwdlInv, CacheInv, SessionStartsFresh, Cached
  <2> QED
    BY <2>1, <2>2
<1>5. CacheInv'
  <2>1. CacheInv
    BY ZenonT(30) DEF AwdlInv
  <2>2. CASE signal = "Active"
    BY <1>1, <1>4, <2>1, <2>2, SMTT(30) DEF CacheInv
  <2>3. CASE signal # "Active"
    BY <1>1, <1>4, <2>1, <2>3, SMTT(30) DEF CacheInv
  <2> QED
    BY <2>2, <2>3
<1>6. MasterIsFollowed'
  <2>1. OwnElection.sync_peer = Self
    BY SMTT(30) DEF OwnElection
  <2> QED
    BY <1>1, <2>1, ZenonT(30) DEF MasterIsFollowed, OwnElection
<1>7. SessionStartsFresh' /\ EventsTellPeers'
  BY <1>1, <1>4, ZenonT(30) DEF SessionStartsFresh, EventsTellPeers
<1> QED
  BY <1>2, <1>5, <1>6, <1>7, ZenonT(30) DEF AwdlInv

(* What leaves the calls of the user alone keeps their part.               *)
LEMMA ControlStays ==
  ASSUME ControlInv, UNCHANGED <<controlVars, signal, sessionVars>>
  PROVE  ControlInv'
  BY ZenonT(30) DEF ControlInv, active, controlVars, sessionVars

(* An election among the cached peers has a master that is followed.       *)
LEMMA ElectionIsFollowed ==
  ASSUME IsFiniteSet(Cached(cache)'), MasterIsFollowed, session, elect_master(cache')
  PROVE  MasterIsFollowed'
<1>1. PICK order \in SetToSeqs(Cached(cache')) :
        LET p == find_master(cache', order) IN
        election' = CASE p # Self -> adopt_master(p, cache'[p].advert)
                      [] p = Self /\ election.sync_peer = Self -> election
                      [] OTHER -> OwnElection
  BY ZenonT(30) DEF elect_master
<1> DEFINE p == find_master(cache', order)
<1>2. p \in Cached(cache') \cup {Self}
  BY MasterIsStation, ZenonT(30) DEF Cached
<1> HIDE DEF p
<1>3. CASE p # Self
  <2>1. election' = adopt_master(p, cache'[p].advert)
    BY <1>1, <1>3, ZenonT(30) DEF p
  <2>2. election'.sync_peer = p
    BY <2>1, SMTT(30) DEF adopt_master
  <2> QED
    BY <1>2, <1>3, <2>1, <2>2, ZenonT(30) DEF MasterIsFollowed, Cached, adopt_master
<1>4. CASE p = Self
  <2>1. election' = OwnElection
    BY <1>1, <1>4, ZenonT(30) DEF p, MasterIsFollowed
  <2>2. OwnElection.sync_peer = Self
    BY SMTT(30) DEF OwnElection
  <2> QED
    BY <2>1, <2>2, ZenonT(30) DEF MasterIsFollowed, OwnElection
<1> QED
  BY <1>3, <1>4

(* The cached peers are finitely many.                                     *)
LEMMA CacheIsFinite == ASSUME NEW c PROVE IsFiniteSet(Cached(c))
<1>1. Cached(c) \subseteq Peers
  BY ZenonT(30) DEF Cached
<1> QED
  BY <1>1, AwdlAssumption, FS_Subset, ZenonT(30)

(* A frame of a cached peer: the peer stays, and the master is followed.   *)
LEMMA UpdateKeepsInv ==
  ASSUME AwdlInv, NEW p \in Peers, NEW advert \in Adverts \cup {None}, NEW service \in BOOLEAN,
         session, update(p, advert, service), heard' = heard \cup {p},
         UNCHANGED <<controlVars, signal, sessionVars, timeVars>>
  PROVE  AwdlInv'
<1>1. CacheInv /\ ControlInv /\ MasterIsFollowed /\ SessionStartsFresh /\ EventsTellPeers
  BY ZenonT(30) DEF AwdlInv
<1>2. ControlInv'
  BY <1>1, ControlStays, ZenonT(30)
<1>3. /\ p \in Cached(cache) /\ known' = known /\ (~overflowed' => ~overflowed)
      /\ session' = session /\ stale_peer_timeout' = stale_peer_timeout
      /\ ticker' = ticker /\ interval' = interval
  BY ZenonT(30) DEF update, raise_user_event, sessionVars, controlVars, timeVars
<1> DEFINE entry == [advert |-> IF advert = None THEN cache[p].advert ELSE advert,
                     age |-> 0, service |-> cache[p].service \/ service]
<1>4. cache' = [cache EXCEPT ![p] = entry]
  BY ZenonT(30) DEF update
<1>5. /\ cache \in [Peers -> Entries] /\ cache[p] \in Entries /\ cache[p].advert # None
      /\ \A q \in Peers : cache[q].age \in Nat
  BY <1>1, <1>3, SMTT(30) DEF CacheInv, Cached, Entries
<1>6. entry \in Entries /\ entry.advert # None /\ entry.age = 0
  <2>1. (IF advert = None THEN cache[p].advert ELSE advert) \in Adverts
    BY <1>5, SMTT(30) DEF Entries
  <2>2. (IF advert = None THEN cache[p].advert ELSE advert) # None
    BY <2>1, AwdlAssumption, ZenonT(30)
  <2>3. (cache[p].service \/ service) \in BOOLEAN
    BY ZenonT(30)
  <2> QED
    BY <2>1, <2>2, <2>3, SMTT(30) DEF Entries
<1> HIDE DEF entry
<1>7. /\ cache' \in [Peers -> Entries] /\ cache'[p] = entry
      /\ \A q \in Peers : q # p => cache'[q] = cache[q]
  BY <1>4, <1>5, <1>6, SMTT(30)
<1>8. Cached(cache)' = Cached(cache)
  BY <1>3, <1>6, <1>7, SMTT(30) DEF Cached
<1>9. CacheInv'
  <2>1. ASSUME NEW q \in Cached(cache)' PROVE cache'[q].age + ticker' < 2 * interval'
    <3>1. CASE q = p
      BY <1>1, <1>3, <1>6, <1>7, <3>1, SMTT(30) DEF CacheInv
    <3>2. CASE q # p
      <4>1. q \in Cached(cache) /\ cache'[q] = cache[q]
        BY <1>7, <1>8, <3>2, ZenonT(30) DEF Cached
      <4> QED
        BY <1>1, <1>3, <4>1, ZenonT(30) DEF CacheInv
    <3> QED
      BY <3>1, <3>2
  <2> QED
    BY <1>1, <1>3, <1>7, <2>1, ZenonT(30) DEF CacheInv
<1>10. MasterIsFollowed'
  <2>1. election' = IF election.sync_peer = p THEN adopt_master(p, cache'[p].advert) ELSE election
    BY ZenonT(30) DEF update, resynchronize
  <2>2. CASE election.sync_peer = p
    <3>1. election' = adopt_master(p, cache'[p].advert) /\ election'.sync_peer = p
      BY <2>1, <2>2, SMTT(30) DEF adopt_master
    <3>2. p \in Cached(cache)' /\ p # Self
      BY <1>3, <1>8, AwdlAssumption, ZenonT(30)
    <3> QED
      BY <3>1, <3>2, ZenonT(30) DEF MasterIsFollowed, adopt_master
  <2>3. CASE election.sync_peer # p
    <3>1. election' = election
      BY <2>1, <2>3, ZenonT(30)
    <3>2. CASE election.sync_peer = Self
      BY <1>1, <3>1, <3>2, ZenonT(30) DEF MasterIsFollowed, OwnElection
    <3>3. CASE election.sync_peer # Self
      <4>1. /\ election.sync_peer \in Cached(cache)
            /\ election = adopt_master(election.sync_peer, cache[election.sync_peer].advert)
        BY <1>1, <3>3, ZenonT(30) DEF MasterIsFollowed
      <4>2. cache'[election.sync_peer] = cache[election.sync_peer]
        BY <1>7, <2>3, <4>1, ZenonT(30) DEF Cached
      <4> QED
        BY <1>8, <3>1, <3>3, <4>1, <4>2, ZenonT(30) DEF MasterIsFollowed, adopt_master
    <3> QED
      BY <3>2, <3>3
  <2> QED
    BY <2>2, <2>3
<1>11. SessionStartsFresh'
  BY <1>1, <1>3, <1>8, ZenonT(30) DEF SessionStartsFresh
<1>12. EventsTellPeers'
  BY <1>1, <1>3, <1>8, ZenonT(30) DEF EventsTellPeers
<1> QED
  BY <1>2, <1>9, <1>10, <1>11, <1>12, ZenonT(30) DEF AwdlInv

(* A frame of a new peer: it is cached, heard and told of.                 *)
LEMMA AddKeepsInv ==
  ASSUME AwdlInv, NEW p \in Peers, NEW advert \in Adverts \cup {None}, session, add(p, advert),
         heard' = heard \cup {p}, UNCHANGED <<controlVars, signal, sessionVars, timeVars>>
  PROVE  AwdlInv'
<1>1. CacheInv /\ ControlInv /\ MasterIsFollowed /\ SessionStartsFresh /\ EventsTellPeers
  BY ZenonT(30) DEF AwdlInv
<1>2. ControlInv'
  BY <1>1, ControlStays, ZenonT(30)
<1>3. /\ advert # None /\ known' = known \cup {p} /\ (~overflowed' => ~overflowed)
      /\ session' = session /\ stale_peer_timeout' = stale_peer_timeout
      /\ ticker' = ticker /\ interval' = interval /\ elect_master(cache')
  BY ZenonT(30) DEF add, raise_user_event, sessionVars, controlVars, timeVars
<1> DEFINE entry == [advert |-> advert, age |-> 0, service |-> FALSE]
<1>4. cache' = [cache EXCEPT ![p] = entry]
  BY ZenonT(30) DEF add
<1>5. entry \in Entries /\ entry.advert # None /\ entry.age = 0
  BY <1>3, SMTT(30) DEF Entries
<1> HIDE DEF entry
<1>6. /\ cache' \in [Peers -> Entries] /\ cache'[p] = entry
      /\ \A q \in Peers : q # p => cache'[q] = cache[q]
  BY <1>1, <1>4, <1>5, SMTT(30) DEF CacheInv
<1>7. Cached(cache)' = Cached(cache) \cup {p}
  BY <1>5, <1>6, SMTT(30) DEF Cached
<1>8. CacheInv'
  <2>1. ASSUME NEW q \in Cached(cache)' PROVE cache'[q].age + ticker' < 2 * interval'
    <3>1. CASE q = p
      BY <1>1, <1>3, <1>5, <1>6, <3>1, SMTT(30) DEF CacheInv
    <3>2. CASE q # p
      <4>1. q \in Cached(cache) /\ cache'[q] = cache[q]
        BY <1>6, <1>7, <3>2, ZenonT(30) DEF Cached
      <4> QED
        BY <1>1, <1>3, <4>1, ZenonT(30) DEF CacheInv
    <3> QED
      BY <3>1, <3>2
  <2> QED
    BY <1>1, <1>3, <1>6, <2>1, ZenonT(30) DEF CacheInv
<1>9. MasterIsFollowed'
  <2>1. IsFiniteSet(Cached(cache)')
    BY CacheIsFinite, ZenonT(30) DEF Cached
  <2> QED
    BY <1>1, <1>3, <2>1, ElectionIsFollowed, ZenonT(30)
<1>10. SessionStartsFresh'
  BY <1>1, <1>3, <1>7, ZenonT(30) DEF SessionStartsFresh
<1>11. EventsTellPeers'
  BY <1>1, <1>3, <1>7, ZenonT(30) DEF EventsTellPeers
<1> QED
  BY <1>2, <1>8, <1>9, <1>10, <1>11, ZenonT(30) DEF AwdlInv

(* The stale peer timer: what stays is younger than the new period, and a  *)
(* master that goes is replaced.                                           *)
LEMMA TimerKeepsInv == AwdlInv /\ stale_peer_tick => AwdlInv'
<1> SUFFICES ASSUME AwdlInv, stale_peer_tick PROVE AwdlInv'
  OBVIOUS
<1>1. CacheInv /\ ControlInv /\ MasterIsFollowed /\ SessionStartsFresh /\ EventsTellPeers
  BY ZenonT(30) DEF AwdlInv
<1>2. ControlInv'
  BY <1>1, ControlStays, ZenonT(30) DEF stale_peer_tick
<1> DEFINE purged == {p \in Cached(cache) : ~retained(p)}
<1>3. /\ known' = known \ purged /\ (~overflowed' => ~overflowed)
      /\ session /\ session' = session /\ stale_peer_timeout' = stale_peer_timeout
      /\ ticker' = stale_peer_timeout /\ interval' = stale_peer_timeout /\ heard' = heard
      /\ elect_master(cache')
      /\ cache' = [p \in Peers |-> IF p \in purged THEN NoPeer ELSE cache[p]]
  BY ZenonT(30)
  DEF stale_peer_tick, purge_stale_peers, raise_user_event, sessionVars, controlVars
<1>4. purged \subseteq Cached(cache) /\ \A p \in Cached(cache) \ purged : retained(p)
  BY ZenonT(30)
<1> HIDE DEF purged
<1>5. NoPeer \in Entries /\ NoPeer.advert = None
  BY SMTT(30) DEF NoPeer, Entries
<1>6. /\ cache' \in [Peers -> Entries]
      /\ \A p \in purged : p \in Peers => cache'[p].advert = None
      /\ \A p \in Peers : p \notin purged => cache'[p] = cache[p]
  BY <1>1, <1>3, <1>5, SMTT(30) DEF CacheInv
<1>7. Cached(cache)' = Cached(cache) \ purged
  BY <1>4, <1>6, SMTT(30) DEF Cached
<1>8. CacheInv'
  <2>1. stale_peer_timeout \in Nat /\ stale_peer_timeout > 0
    BY <1>1, AwdlAssumption, SMTT(30) DEF CacheInv
  <2>2. ASSUME NEW q \in Cached(cache)' PROVE cache'[q].age + ticker' < 2 * interval'
    <3>1. q \in Peers /\ cache'[q] = cache[q] /\ cache[q].age < stale_peer_timeout
      BY <1>4, <1>6, <1>7, ZenonT(30) DEF Cached, retained
    <3>2. cache[q].age \in Nat
      BY <1>1, <3>1, SMTT(30) DEF CacheInv, Entries
    <3> QED
      BY <1>3, <2>1, <3>1, <3>2, SMTT(30)
  <2> QED
    BY <1>1, <1>3, <1>6, <2>1, <2>2, SMTT(30) DEF CacheInv
<1>9. MasterIsFollowed'
  <2>1. IsFiniteSet(Cached(cache)')
    BY CacheIsFinite, ZenonT(30) DEF Cached
  <2> QED
    BY <1>1, <1>3, <2>1, ElectionIsFollowed, ZenonT(30)
<1>10. SessionStartsFresh'
  BY <1>1, <1>3, <1>7, ZenonT(30) DEF SessionStartsFresh
<1>11. EventsTellPeers'
  BY <1>1, <1>3, <1>7, ZenonT(30) DEF EventsTellPeers
<1> QED
  BY <1>2, <1>8, <1>9, <1>10, <1>11, ZenonT(30) DEF AwdlInv

(* A second passes: the peers age as the timer comes nearer.               *)
LEMMA PassKeepsInv == AwdlInv /\ pass => AwdlInv'
<1> SUFFICES ASSUME AwdlInv, pass PROVE AwdlInv'
  OBVIOUS
<1>1. CacheInv /\ ControlInv /\ MasterIsFollowed /\ SessionStartsFresh /\ EventsTellPeers
  BY ZenonT(30) DEF AwdlInv
<1>2. ControlInv'
  BY <1>1, ControlStays, ZenonT(30) DEF pass
<1>3. /\ known' = known /\ overflowed' = overflowed
      /\ session' = session /\ stale_peer_timeout' = stale_peer_timeout
      /\ ticker > 0 /\ ticker' = ticker - 1 /\ interval' = interval
      /\ heard' = heard /\ election' = election
      /\ cache' = [p \in Peers |-> IF p \in Cached(cache) THEN [cache[p] EXCEPT !.age = @ + 1]
                                                          ELSE NoPeer]
  BY ZenonT(30) DEF pass, sessionVars, controlVars, eventVars
<1>4. NoPeer \in Entries /\ NoPeer.advert = None
  BY SMTT(30) DEF NoPeer, Entries
<1>5. ASSUME NEW e \in Entries
      PROVE  /\ [e EXCEPT !.age = @ + 1] \in Entries
             /\ [e EXCEPT !.age = @ + 1].advert = e.advert
             /\ [e EXCEPT !.age = @ + 1].age = e.age + 1 /\ e.age \in Nat
  BY SMTT(30) DEF Entries
<1>6. /\ cache' \in [Peers -> Entries]
      /\ \A p \in Cached(cache) : /\ cache'[p].advert = cache[p].advert
                                  /\ cache'[p].age = cache[p].age + 1 /\ cache[p].age \in Nat
      /\ \A p \in Peers : p \notin Cached(cache) => cache'[p].advert = None
  <2>1. \A p \in Peers : cache[p] \in Entries
    BY <1>1, SMTT(30) DEF CacheInv
  <2>2. Cached(cache) \subseteq Peers
    BY ZenonT(30) DEF Cached
  <2>3. \A p \in Peers : cache'[p] = IF p \in Cached(cache) THEN [cache[p] EXCEPT !.age = @ + 1]
                                                            ELSE NoPeer
    BY <1>3, ZenonT(30)
  <2>4. \A p \in Peers : cache'[p] \in Entries
    BY <1>4, <1>5, <2>1, <2>3, ZenonT(30)
  <2>5. cache' \in [Peers -> Entries]
    BY <1>3, <2>4, SMTT(30)
  <2> QED
    BY <1>4, <1>5, <2>1, <2>2, <2>3, <2>5, ZenonT(30)
<1>7. Cached(cache)' = Cached(cache)
  BY <1>6, SMTT(30) DEF Cached
<1>8. CacheInv'
  <2>1. ASSUME NEW q \in Cached(cache)' PROVE cache'[q].age + ticker' < 2 * interval'
    <3>1. q \in Cached(cache) /\ cache'[q].age = cache[q].age + 1 /\ cache[q].age \in Nat
      BY <1>6, <1>7, ZenonT(30)
    <3> QED
      BY <1>1, <1>3, <3>1, SMTT(30) DEF CacheInv
  <2> QED
    BY <1>1, <1>3, <1>6, <2>1, SMTT(30) DEF CacheInv
<1>9. MasterIsFollowed'
  BY <1>1, <1>3, <1>6, <1>7, ZenonT(30) DEF MasterIsFollowed, adopt_master, OwnElection
<1>10. SessionStartsFresh' /\ EventsTellPeers'
  BY <1>1, <1>3, <1>7, ZenonT(30) DEF SessionStartsFresh, EventsTellPeers
<1> QED
  BY <1>2, <1>8, <1>9, <1>10, ZenonT(30) DEF AwdlInv

(* An action frame of any peer.                                            *)
LEMMA FrameKeepsInv ==
  ASSUME AwdlInv, NEW p \in Peers, NEW advert \in Adverts \cup {None},
         process_action_frame(p, advert)
  PROVE  AwdlInv'
<1>1. CASE add(p, advert)
  BY <1>1, AddKeepsInv, ZenonT(30) DEF process_action_frame
<1>2. ASSUME NEW service \in BOOLEAN, update(p, advert, service) PROVE AwdlInv'
  BY <1>2, UpdateKeepsInv, ZenonT(30) DEF process_action_frame
<1> QED
  BY <1>1, <1>2, ZenonT(30) DEF process_action_frame

(* The invariants hold throughout.                                         *)
THEOREM AwdlInvHolds == Spec => []AwdlInv
<1>1. AwdlInv /\ [Next]_vars => AwdlInv'
  BY ControlKeepsInv, RunKeepsInv, FrameKeepsInv, TimerKeepsInv, PassKeepsInv, ZenonT(30) DEF Next
<1> QED
  BY <1>1, AwdlInvInit, PTL DEF Spec

(* CommonResources::elect_master and AwdlPeer::update: the master of a     *)
(* session is ourselves or a cached peer, and what we tell others of it is *)
(* what it told us last, although peers are purged and change their mind.  *)
THEOREM MasterFollowed == Spec => []MasterIsFollowed
<1>1. AwdlInv => MasterIsFollowed
  BY ZenonT(30) DEF AwdlInv
<1> QED
  BY <1>1, AwdlInvHolds, PTL

(* AwdlRunner::run: no session knows a peer of an earlier one, however     *)
(* many starts and stops come before the runner is polled.                 *)
THEOREM SessionsStartFresh == Spec => []SessionStartsFresh
<1>1. AwdlInv => SessionStartsFresh
  BY ZenonT(30) DEF AwdlInv
<1> QED
  BY <1>1, AwdlInvHolds, PTL

(* AwdlControl::start and stop: once the runner has caught up, the channel *)
(* lock is held exactly when a session runs, which has its filters, and    *)
(* the filter on our address is not set without one.                       *)
THEOREM ChannelIsHeld == Spec => []SessionHoldsChannel
<1>1. AwdlInv => SessionHoldsChannel
  BY ZenonT(30) DEF AwdlInv, ControlInv, active, SessionHoldsChannel
<1> QED
  BY <1>1, AwdlInvHolds, PTL

(* AwdlManagementRunner::run_session: a silent peer is purged before two   *)
(* periods of the timer have passed, although the timeout changes.         *)
THEOREM SilentPeersLeave == Spec => []StalePeersLeave
<1>1. AwdlInv => StalePeersLeave
  <2> SUFFICES ASSUME CacheInv, NEW p \in Cached(cache) PROVE cache[p].age < 2 * interval
    BY ZenonT(30) DEF AwdlInv, StalePeersLeave
  <2>1. cache[p].age \in Nat
    BY SMTT(30) DEF CacheInv, Cached, Entries
  <2> QED
    BY <2>1, SMTT(30) DEF CacheInv
<1> QED
  BY <1>1, AwdlInvHolds, PTL

(* raise_user_event: until the queue of events is full once, the events    *)
(* of a session tell which peers are cached.                               *)
THEOREM EventsAreComplete == Spec => []EventsTellPeers
<1>1. AwdlInv => EventsTellPeers
  BY ZenonT(30) DEF AwdlInv
<1> QED
  BY <1>1, AwdlInvHolds, PTL

-----------------------------------------------------------------------------
(* The types, with the bounds of the peer cache and of the event queue.    *)

Elections == [sync_peer : Peers \cup {Self}, root_peer : Peers \cup {Self}, distance : Nat]

RestInv ==
  /\ cancelled \in BOOLEAN /\ link \in BOOLEAN /\ overflowed \in BOOLEAN
  /\ election \in Elections /\ interval \in Timeouts \cup {1}
  /\ queued \in 0 .. EVENT_QUEUE_DEPTH /\ known \subseteq Peers /\ heard \subseteq Peers

CacheBound == Cardinality(Cached(cache)) <= PEER_CACHE_SIZE

(* raise_user_event drops what does not fit.                               *)
LEMMA EventsFit ==
  ASSUME NEW n \in Nat, queued \in 0 .. EVENT_QUEUE_DEPTH, raise_user_event(n)
  PROVE  queued' \in 0 .. EVENT_QUEUE_DEPTH /\ overflowed' \in BOOLEAN
<1>1. EVENT_QUEUE_DEPTH \in Nat /\ queued + n \in Nat
  BY AwdlAssumption, SMTT(30)
<1>2. ASSUME NEW a \in Nat, NEW b \in Nat PROVE Min({a, b}) \in 0 .. b
  BY SMTT(30) DEF Min
<1> QED
  BY <1>1, <1>2, ZenonT(30) DEF raise_user_event

(* What is adopted has the types of an election.                           *)
LEMMA AdoptType ==
  ASSUME NEW p \in Peers, NEW advert \in Adverts
  PROVE  adopt_master(p, advert) \in Elections
<1>1. advert.root \in Peers \cup {Self} /\ advert.distance \in Nat
  BY AwdlAssumption, ZenonT(30)
<1> QED
  BY <1>1, SMTT(30) DEF adopt_master, Elections

(* So has the result of an election.                                       *)
LEMMA ElectType ==
  ASSUME cache' \in [Peers -> Entries], election \in Elections, elect_master(cache')
  PROVE  election' \in Elections
<1>1. PICK order \in SetToSeqs(Cached(cache')) :
        LET p == find_master(cache', order) IN
        election' = CASE p # Self -> adopt_master(p, cache'[p].advert)
                      [] p = Self /\ election.sync_peer = Self -> election
                      [] OTHER -> OwnElection
  BY ZenonT(30) DEF elect_master
<1> DEFINE p == find_master(cache', order)
<1>2. p \in Cached(cache') \cup {Self}
  BY MasterIsStation, CacheIsFinite, ZenonT(30)
<1> HIDE DEF p
<1>3. OwnElection \in Elections
  BY SMTT(30) DEF OwnElection, Elections
<1>4. p # Self => p \in Peers /\ cache'[p].advert \in Adverts
  BY <1>2, SMTT(30) DEF Cached, Entries
<1>5. election' \in {adopt_master(p, cache'[p].advert), election, OwnElection}
      /\ (p = Self => election' \in {election, OwnElection})
  BY <1>1, ZenonT(30) DEF p
<1> QED
  BY <1>3, <1>4, <1>5, AdoptType, ZenonT(30)

(* Types: the calls of the user and the runner.                            *)
LEMMA ControlKeepsTypes ==
  /\ RestInv
  /\ \/ start \/ start_resumed \/ drop_start \/ stop \/ receive_event \/ run \/ pass
     \/ \E t \in Timeouts : set_peer_stale_timeout(t)
     \/ UNCHANGED vars
  => RestInv'
<1> SUFFICES ASSUME RestInv PROVE
         (\/ start \/ start_resumed \/ drop_start \/ stop \/ receive_event \/ run \/ pass
          \/ \E t \in Timeouts : set_peer_stale_timeout(t)
          \/ UNCHANGED vars)
         => RestInv'
  OBVIOUS
<1>1. ASSUME UNCHANGED <<link, overflowed, election, interval, queued, known, heard>>,
             cancelled' \in BOOLEAN
      PROVE  RestInv'
  BY <1>1, ZenonT(30) DEF RestInv
<1>2. cancelled \in BOOLEAN
  BY ZenonT(30) DEF RestInv
<1>3. start \/ start_resumed \/ drop_start \/ stop => RestInv'
  BY <1>1, <1>2, ZenonT(30)
  DEF start, start_resumed, drop_start, stop, sessionVars, peerVars, timeVars, eventVars
<1>4. (\E t \in Timeouts : set_peer_stale_timeout(t)) \/ UNCHANGED vars \/ pass => RestInv'
  BY <1>1, <1>2, ZenonT(30)
  DEF set_peer_stale_timeout, pass, vars, controlVars, sessionVars, peerVars, timeVars, eventVars
<1>5. CASE receive_event
  <2>1. queued' \in 0 .. EVENT_QUEUE_DEPTH
    BY <1>5, AwdlAssumption, SMTT(30) DEF receive_event, RestInv
  <2> QED
    BY <1>5, <2>1, ZenonT(30) DEF receive_event, RestInv, controlVars, sessionVars, peerVars, timeVars
<1>6. CASE run
  <2>1. OwnElection \in Elections
    BY SMTT(30) DEF OwnElection, Elections
  <2>2. 0 \in 0 .. EVENT_QUEUE_DEPTH
    BY AwdlAssumption, SMTT(30)
  <2>3. CASE signal = "Active"
    BY <1>6, <2>1, <2>2, <2>3, ZenonT(30) DEF run, RestInv, controlVars
  <2>4. CASE signal # "Active"
    BY <1>6, <2>4, ZenonT(30) DEF run, RestInv, controlVars, timeVars, eventVars
  <2> QED
    BY <2>3, <2>4
<1> QED
  BY <1>3, <1>4, <1>5, <1>6, ZenonT(30)

(* Types: the frames of the peers and the timer.                           *)
LEMMA PeersKeepTypes ==
  /\ RestInv /\ AwdlInv /\ AwdlInv'
  /\ \/ \E p \in Peers, advert \in Adverts \cup {None} : process_action_frame(p, advert)
     \/ stale_peer_tick
  => RestInv'
<1> SUFFICES ASSUME RestInv, AwdlInv, AwdlInv' PROVE
         (\/ \E p \in Peers, advert \in Adverts \cup {None} : process_action_frame(p, advert)
          \/ stale_peer_tick)
         => RestInv'
  OBVIOUS
<1>1. cache' \in [Peers -> Entries] /\ 0 \in Nat /\ 1 \in Nat
  BY ZenonT(30) DEF AwdlInv, CacheInv
<1>2. ASSUME NEW n \in Nat, raise_user_event(n), election' \in Elections,
             cancelled' = cancelled, link' = link, interval' \in Timeouts \cup {1},
             known' \subseteq Peers, heard' \subseteq Peers
      PROVE  RestInv'
  BY <1>2, EventsFit, ZenonT(30) DEF RestInv
<1>3. ASSUME NEW p \in Peers, NEW advert \in Adverts \cup {None}, process_action_frame(p, advert)
      PROVE  RestInv'
  <2>1. cancelled' = cancelled /\ link' = link /\ interval' = interval /\ heard' = heard \cup {p}
    BY <1>3, ZenonT(30) DEF process_action_frame, controlVars, sessionVars, timeVars
  <2>2. CASE add(p, advert)
    <3>1. election' \in Elections
      BY <1>1, <2>2, ElectType, ZenonT(30) DEF add, RestInv
    <3> QED
      BY <1>1, <1>2, <2>1, <2>2, <3>1, ZenonT(30) DEF add, RestInv
  <2>3. ASSUME NEW service \in BOOLEAN, update(p, advert, service) PROVE RestInv'
    <3>1. cache'[p].advert \in Adverts
      <4>1. cache \in [Peers -> Entries] /\ p \in Cached(cache)
        BY <2>3, ZenonT(30) DEF update, AwdlInv, CacheInv
      <4>2. cache[p].advert \in Adverts
        BY <4>1, SMTT(30) DEF Entries, Cached
      <4>3. cache'[p].advert = IF advert = None THEN cache[p].advert ELSE advert
        BY <2>3, <4>1, SMTT(30) DEF update
      <4> QED
        BY <4>2, <4>3, ZenonT(30)
    <3>2. election' \in Elections
      BY <2>3, <3>1, AdoptType, ZenonT(30) DEF update, resynchronize, RestInv
    <3>3. PICK n \in Nat : raise_user_event(n)
      BY <1>1, <2>3, ZenonT(30) DEF update
    <3> QED
      BY <1>2, <2>1, <2>3, <3>2, <3>3, ZenonT(30) DEF update, RestInv
  <2> QED
    BY <1>3, <2>2, <2>3, ZenonT(30) DEF process_action_frame
<1>4. CASE stale_peer_tick
  <2> DEFINE purged == {p \in Cached(cache) : ~retained(p)}
  <2>1. Cardinality(purged) \in Nat
    <3>1. IsFiniteSet(purged)
      BY CacheIsFinite, FS_Subset, ZenonT(30)
    <3> QED
      BY <3>1, FS_CardinalityType, ZenonT(30)
  <2>2. election' \in Elections
    BY <1>1, <1>4, ElectType, ZenonT(30) DEF stale_peer_tick, RestInv
  <2>3. /\ raise_user_event(Cardinality(purged)) /\ known' = known \ purged
        /\ cancelled' = cancelled /\ link' = link /\ interval' = stale_peer_timeout
        /\ heard' = heard
    BY <1>4, ZenonT(30) DEF stale_peer_tick, purge_stale_peers, controlVars, sessionVars
  <2>4. stale_peer_timeout \in Timeouts
    BY ZenonT(30) DEF AwdlInv, CacheInv
  <2> HIDE DEF purged
  <2> QED
    BY <1>2, <2>1, <2>2, <2>3, <2>4, ZenonT(30) DEF RestInv
<1> QED
  BY <1>3, <1>4, ZenonT(30)

(* Only a new peer makes the cache grow, and only when there is room.      *)
LEMMA CacheStaysBounded == AwdlInv /\ AwdlInv' /\ CacheBound /\ [Next]_vars => CacheBound'
<1> SUFFICES ASSUME AwdlInv, AwdlInv', CacheBound, [Next]_vars PROVE CacheBound'
  OBVIOUS
<1>1. /\ IsFiniteSet(Cached(cache)) /\ Cardinality(Cached(cache)) \in Nat
      /\ PEER_CACHE_SIZE \in Nat
  BY CacheIsFinite, FS_CardinalityType, AwdlAssumption, ZenonT(30)
<1>2. ASSUME Cached(cache)' \subseteq Cached(cache) PROVE CacheBound'
  <2>1. /\ Cardinality(Cached(cache)') \in Nat
        /\ Cardinality(Cached(cache)') <= Cardinality(Cached(cache))
    BY <1>1, <1>2, FS_Subset, FS_CardinalityType, ZenonT(30)
  <2> QED
    BY <1>1, <2>1, SMTT(30) DEF CacheBound
<1>3. ASSUME cache' = cache PROVE CacheBound'
  BY <1>3, ZenonT(30) DEF CacheBound, Cached
<1>4. start \/ start_resumed \/ drop_start \/ stop \/ receive_event
      \/ (\E t \in Timeouts : set_peer_stale_timeout(t)) \/ UNCHANGED vars
      => cache' = cache
  BY ZenonT(30)
  DEF start, start_resumed, drop_start, stop, receive_event, set_peer_stale_timeout, vars, peerVars
<1>5. NoPeer.advert = None
  BY SMTT(30) DEF NoPeer
<1>6. CASE run
  <2>1. CASE session
    <3>1. cache' = EmptyCache
      BY <1>6, <2>1, ZenonT(30) DEF run, clear_peer_cache
    <3>2. Cached(cache)' = {}
      BY <1>5, <3>1, SMTT(30) DEF EmptyCache, Cached
    <3> QED
      BY <1>2, <3>2, ZenonT(30)
  <2>2. CASE ~session
    BY <1>3, <1>6, <2>2, ZenonT(30) DEF run
  <2> QED
    BY <2>1, <2>2
<1>7. ASSUME NEW p \in Peers, NEW advert \in Adverts \cup {None}, process_action_frame(p, advert)
      PROVE  CacheBound'
  <2>1. \A q \in Peers : q # p => cache'[q] = cache[q]
    <3>1. cache \in [Peers -> Entries]
      BY ZenonT(30) DEF AwdlInv, CacheInv
    <3>2. \E entry : cache' = [cache EXCEPT ![p] = entry]
      BY <1>7, ZenonT(30) DEF process_action_frame, add, update
    <3> QED
      BY <3>1, <3>2, SMTT(30)
  <2>2. Cached(cache)' \subseteq Cached(cache) \cup {p}
    BY <2>1, ZenonT(30) DEF Cached
  <2>3. CASE p \in Cached(cache)
    BY <1>2, <2>2, <2>3, ZenonT(30)
  <2>4. CASE p \notin Cached(cache)
    <3>1. Cardinality(Cached(cache)) < PEER_CACHE_SIZE
      BY <1>7, <2>4, ZenonT(30) DEF process_action_frame, add, update
    <3>2. /\ IsFiniteSet(Cached(cache) \cup {p})
          /\ Cardinality(Cached(cache) \cup {p}) = Cardinality(Cached(cache)) + 1
      BY <1>1, <2>4, FS_AddElement, ZenonT(30)
    <3>3. /\ Cardinality(Cached(cache)') \in Nat
          /\ Cardinality(Cached(cache)') <= Cardinality(Cached(cache) \cup {p})
      BY <2>2, <3>2, FS_Subset, FS_CardinalityType, ZenonT(30)
    <3> QED
      BY <1>1, <3>1, <3>2, <3>3, SMTT(30) DEF CacheBound
  <2> QED
    BY <2>3, <2>4
<1>8. CASE stale_peer_tick
  <2>1. cache' = [p \in Peers |-> IF p \in {q \in Cached(cache) : ~retained(q)} THEN NoPeer
                                  ELSE cache[p]]
    BY <1>8, ZenonT(30) DEF stale_peer_tick, purge_stale_peers
  <2>2. \A p \in Peers : cache'[p] \in {NoPeer, cache[p]}
    BY <2>1, ZenonT(30)
  <2> QED
    BY <1>2, <1>5, <2>2, ZenonT(30) DEF Cached
<1>9. CASE pass
  <2>1. \A p \in Peers : p \notin Cached(cache) => cache'[p] = NoPeer
    BY <1>9, ZenonT(30) DEF pass
  <2> QED
    BY <1>2, <1>5, <2>1, ZenonT(30) DEF Cached
<1> QED
  BY <1>3, <1>4, <1>6, <1>7, <1>8, <1>9, ZenonT(30) DEF Next

(* AwdlPeerCache and the queue of user events are bounded, and what the    *)
(* session keeps has its types.                                            *)
THEOREM AwdlTypes == Spec => []TypeOK
<1>1. Init => RestInv /\ CacheBound
  <2> SUFFICES ASSUME Init PROVE RestInv /\ CacheBound
    OBVIOUS
  <2>1. RestInv
    <3>1. OwnElection \in Elections /\ 0 \in 0 .. EVENT_QUEUE_DEPTH
      BY AwdlAssumption, SMTT(30) DEF OwnElection, Elections
    <3> QED
      BY <3>1, ZenonT(30) DEF Init, RestInv
  <2>2. Cached(cache) = {}
    BY SMTT(30) DEF Init, EmptyCache, NoPeer, Cached
  <2>3. Cardinality(Cached(cache)) = 0 /\ 0 <= PEER_CACHE_SIZE
    BY <2>2, FS_EmptySet, AwdlAssumption, SMTT(30)
  <2> QED
    BY <2>1, <2>3, ZenonT(30) DEF CacheBound
<1>2. RestInv /\ AwdlInv /\ AwdlInv' /\ [Next]_vars => RestInv'
  BY ControlKeepsTypes, PeersKeepTypes, ZenonT(30) DEF Next
<1>3. AwdlInv /\ RestInv /\ CacheBound => TypeOK
  <2> SUFFICES ASSUME AwdlInv, RestInv, CacheBound PROVE TypeOK
    OBVIOUS
  <2>1. \A p \in Peers : cache[p].advert \in Adverts \cup {None} /\ cache[p].age \in Nat
    BY SMTT(30) DEF AwdlInv, CacheInv, Entries
  <2>2. /\ election.sync_peer \in Peers \cup {Self} /\ election.root_peer \in Peers \cup {Self}
        /\ election.distance \in Nat
    BY SMTT(30) DEF RestInv, Elections
  <2>3. ticker \in 0 .. interval
    BY SMTT(30) DEF AwdlInv, CacheInv
  <2> QED
    BY <2>1, <2>2, <2>3, ZenonT(30) DEF TypeOK, AwdlInv, CacheInv, ControlInv, RestInv, CacheBound
<1> QED
  BY <1>1, <1>2, <1>3, CacheStaysBounded, AwdlInvHolds, PTL DEF Spec

-----------------------------------------------------------------------------
(* Who wins an election.                                                   *)

(* AwdlPeerCache::find_master: among stations that all send a counter, the *)
(* one that wins has the largest metric, in whatever order the cache is    *)
(* gone through and whatever the counters are.                             *)
THEOREM LargestMetricWins ==
  ASSUME NEW c, NEW order \in SetToSeqs(Cached(c)),
         \A p \in Cached(c) : c[p].advert \in Adverts /\ c[p].advert.counter # None
  PROVE  \A p \in Cached(c) \cup {Self} :
           state(c, p).metric <= state(c, find_master(c, order)).metric
<1> DEFINE n == Cardinality(Cached(c))
           Stations == Cached(c) \cup {Self}
           metric(p) == state(c, p).metric
<1>1. n \in Nat /\ IsFiniteSet(Cached(c))
  BY CacheIsFinite, FS_CardinalityType, ZenonT(30)
<1>2. order \in [1 .. n -> Cached(c)] /\ \A i, j \in 1 .. n : i # j => order[i] # order[j]
  BY SMTT(30) DEF SetToSeqs
<1>3. \A p \in Stations : state(c, p).counter # None /\ metric(p) \in Nat
  <2>1. Self \notin Cached(c)
    BY AwdlAssumption, ZenonT(30) DEF Cached
  <2>2. OwnAdvert.counter # None /\ OwnAdvert.metric \in Nat
    BY AwdlAssumption, SMTT(30) DEF OwnAdvert
  <2> QED
    BY <2>1, <2>2, AwdlAssumption, ZenonT(30) DEF state
<1>4. \A p, q \in Stations : is_more_eligible(state(c, p), state(c, q)) <=> metric(p) < metric(q)
  <2> TAKE p, q \in Stations
  <2>1. state(c, p).counter # None
    BY <1>3, ZenonT(30)
  <2>2. state(c, p).counter \in Nat
    BY <2>1, AwdlAssumption, SMTT(30) DEF state, OwnAdvert
  <2>3. ~(state(c, p).counter < state(c, p).counter)
    BY <2>2, SMTT(30)
  <2> QED
    BY <2>1, <2>3, ZenonT(30) DEF is_more_eligible
<1> HIDE DEF n, metric
<1>5. Len(order) = n
  BY <1>1, <1>2, SMTT(30)
<1> DEFINE best == CHOOSE g : bestOf(c, order, n, g)
<1>6. bestOf(c, order, n, best)
  BY <1>1, BestExists, ZenonT(30)
<1>7. find_master(c, order) = best[n]
  BY <1>5, ZenonT(30) DEF find_master, bestOf
<1> HIDE DEF best
<1>8. \A i \in 0 .. n :
        best[i] = IF i = 0 THEN Self
                  ELSE IF is_more_eligible(state(c, best[i - 1]), state(c, order[i])) THEN order[i]
                  ELSE best[i - 1]
  BY <1>1, <1>6, SMTT(30) DEF bestOf
<1> DEFINE S == {k \in Nat : k <= n => /\ best[k] \in Stations /\ metric(Self) <= metric(best[k])
                                       /\ \A j \in 1 .. k : metric(order[j]) <= metric(best[k])}
<1>9. 0 \in S
  <2>1. best[0] = Self
    BY <1>1, <1>8, SMTT(30)
  <2> QED
    BY <1>3, <2>1, SMTT(30)
<1>10. ASSUME NEW k \in S PROVE k + 1 \in S
  <2>1. /\ k \in Nat /\ k + 1 \in Nat
        /\ k <= n => /\ best[k] \in Stations /\ metric(Self) <= metric(best[k])
                     /\ \A j \in 1 .. k : metric(order[j]) <= metric(best[k])
    BY SMTT(30)
  <2>2. ASSUME k + 1 <= n
        PROVE  /\ best[k + 1] \in Stations /\ metric(Self) <= metric(best[k + 1])
               /\ \A j \in 1 .. k + 1 : metric(order[j]) <= metric(best[k + 1])
    <3>1. /\ k + 1 \in 0 .. n /\ k + 1 # 0 /\ (k + 1) - 1 = k /\ k <= n
          /\ order[k + 1] \in Cached(c) /\ \A j \in 1 .. k : order[j] \in Cached(c)
      BY <1>1, <1>2, <2>1, <2>2, SMTT(30)
    <3>2. /\ best[k] \in Stations /\ metric(Self) <= metric(best[k])
          /\ \A j \in 1 .. k : metric(order[j]) <= metric(best[k])
      BY <2>1, <3>1, ZenonT(30)
    <3>3. best[k + 1] = IF metric(best[k]) < metric(order[k + 1]) THEN order[k + 1] ELSE best[k]
      <4>1. best[k + 1] = IF is_more_eligible(state(c, best[k]), state(c, order[k + 1]))
                          THEN order[k + 1] ELSE best[k]
        BY <1>8, <3>1, SMTT(30)
      <4> QED
        BY <1>4, <3>1, <3>2, <4>1, ZenonT(30)
    <3>4. /\ metric(Self) \in Nat /\ metric(best[k]) \in Nat /\ metric(order[k + 1]) \in Nat
          /\ \A j \in 1 .. k : metric(order[j]) \in Nat
      BY <1>3, <3>1, <3>2, ZenonT(30)
    <3>5. best[k + 1] \in Stations
      BY <3>1, <3>2, <3>3, ZenonT(30)
    <3>6. metric(best[k]) <= metric(best[k + 1]) /\ metric(order[k + 1]) <= metric(best[k + 1])
      BY <3>3, <3>4, SMTT(30)
    <3>7. metric(best[k + 1]) \in Nat
      BY <1>3, <3>5, ZenonT(30)
    <3>8. ASSUME NEW j \in 1 .. k + 1 PROVE metric(order[j]) <= metric(best[k + 1])
      <4>1. CASE j = k + 1
        BY <3>6, <4>1, ZenonT(30)
      <4>2. CASE j # k + 1
        <5>1. j \in 1 .. k
          BY <2>1, <4>2, SMTT(30)
        <5> QED
          BY <3>2, <3>4, <3>6, <3>7, <5>1, SMTT(30)
      <4> QED
        BY <4>1, <4>2
    <3>9. metric(Self) <= metric(best[k + 1])
      BY <3>2, <3>4, <3>6, <3>7, SMTT(30)
    <3> QED
      BY <3>5, <3>8, <3>9, ZenonT(30)
  <2> QED
    BY <2>1, <2>2, ZenonT(30)
<1>11. S = Nat
  <2> HIDE DEF S
  <2>1. S \subseteq Nat
    BY ZenonT(30) DEF S
  <2> QED
    BY <1>9, <1>10, <2>1, Induct, ZenonT(30)
<1>12. n <= n /\ n \in S
  BY <1>1, <1>11, SMTT(30)
<1>13. order \in Surjection(1 .. n, Cached(c))
  <2>1. order \in Injection(1 .. n, Cached(c))
    BY <1>2, ZenonT(30) DEF Injection, IsInjective
  <2>2. Cardinality(1 .. n) = n
    BY <1>1, FS_Interval, SMTT(30)
  <2> QED
    BY <1>1, <2>1, <2>2, FS_Injection, ZenonT(30) DEF n
<1>14. \A p \in Cached(c) : \E j \in 1 .. n : order[j] = p
  BY <1>13, ZenonT(30) DEF Surjection
<1>15. \A p \in Stations : metric(p) <= metric(best[n])
  BY <1>12, <1>14, ZenonT(30)
<1> QED
  BY <1>7, <1>15, ZenonT(30) DEF metric

=============================================================================

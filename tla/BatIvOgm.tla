------------------------------- MODULE BatIvOgm -------------------------------
(***************************************************************************)
(* What one batman-adv node keeps about one originator, for one outgoing   *)
(* interface, and how the originator's OGMs change it: bat_iv_ogm.c        *)
(* (update_seqnos, process_per_outif, orig_update, forward), the sequence  *)
(* number windows of bitarray.c, batadv_window_protected and update_route  *)
(* of routing.c, and the purging of originator.c.                          *)
(*                                                                         *)
(* Any neighbour may deliver any sequence number at any time: OGMs are     *)
(* lost, repeated, delayed, reordered, and the originator restarts.  What  *)
(* calc_tq makes of a link is an input (TqMetric has its arithmetic), and  *)
(* so are the routes to other originators and the passing of timeouts.     *)
(*                                                                         *)
(* The purge is a work item and an OGM is handled in a softirq, on another *)
(* CPU perhaps: orig_update finds the neighbour, rates it and sets the     *)
(* route in steps between which the purge may take that neighbour off the  *)
(* list, and the other way round.  What was taken off the list lives on    *)
(* while the handler or the route refers to it.  OGMs of one originator    *)
(* are handled one after the other here, and so are its purges (they hold  *)
(* the lock of its hash bucket).                                           *)
(***************************************************************************)
EXTENDS Integers, FiniteSets, Functions

CONSTANTS
  Nbrs,     \* direct neighbours that OGMs are heard from
  Orig,     \* the originator: a neighbour itself if it is in Nbrs
  None,
  M,        \* sequence numbers are taken modulo M (2^32 in the code)
  W,        \* BATADV_TQ_LOCAL_WINDOW_SIZE
  SeqnoRange, \* BATADV_EXPECTED_SEQNO_RANGE
  GW,       \* BATADV_TQ_GLOBAL_WINDOW_SIZE
  MaxTq,    \* BATADV_TQ_MAX_VALUE
  Ttls,     \* ttl values that OGMs arrive with
  Seqs,     \* bound: OGMs are counted from 0, and only these arrive;
  Base      \* they carry the sequence number (Base + a) % M

ASSUME OgmAssumption ==
  /\ None \notin Nbrs
  /\ W \in Nat \ {0} /\ GW \in Nat \ {0} /\ MaxTq \in Nat \ {0}
  /\ SeqnoRange \in Nat /\ W < SeqnoRange /\ Base \in Nat /\ Ttls \subseteq Nat
  /\ M \in Nat /\ M % 2 = 0 /\ Seqs \subseteq Nat /\ \A a \in Seqs : 2 * a < M
  \* the longest step that is no restart, and a bit of the window
  /\ 2 * (SeqnoRange - 1 + W - 1) < M

Entry == [bits : SUBSET (0..(W - 1)), ring : [0..(GW - 1) -> 0..MaxTq],
          index : 0..(GW - 1)]

ASSUME NoneAssumption == None \notin Nbrs \cup Entry

Wire(a) == (Base + a) % M

VARIABLES
  neigh,      \* neighbour -> its entry in neigh_list, or None
  last,       \* orig_ifinfo->last_real_seqno
  lastTtl,    \* orig_ifinfo->last_ttl
  guarded,    \* batman_seqno_reset is less than RESET_PROTECTION_MS ago
  router,     \* orig_ifinfo->router, or None
  stale,      \* its entry if that is no longer in neigh_list, else None
  hand,       \* how far orig_update is, and with what
  purge,      \* batadv_purge_orig_node: "idle", "removed" or "found"
  bestNeigh,  \* best_neigh_node in it
  heard,      \* history: OGMs a listed neighbour delivered, in the window
  sent,       \* history: OGMs of the window passed on for a neighbour
  again,      \* history: one of them was passed on a second time
  missed,     \* history: neighbour -> ranked OGMs of others since its own
  crossed     \* history: the route was last set by an OGM to a purged neighbour

seqVars == <<last, guarded, heard, sent, again>>
purgeVars == <<purge, bestNeigh>>
ogmVars == <<neigh, lastTtl, router, stale, hand, missed, crossed, seqVars, purgeVars>>

\* A neighbour entry: real_bits, and the ring buffer tq_recv.
NewEntry == [bits |-> {}, ring |-> [i \in 0..(GW - 1) |-> 0], index |-> 0]
Listed == {n \in Nbrs : neigh[n] # None}

\* hand: the neighbour n, of which the OGM with tq and ttl was, fresh if it was
\* no duplicate; lost is the entry of n if that was purged after it was found,
\* and routed says that this entry is also the one of the router.
NoHand == [step |-> "idle", n |-> None, tq |-> 0, ttl |-> 0, fresh |-> FALSE,
           lost |-> None, routed |-> FALSE]

\* batadv_orig_node_new: last_real_seqno is zero; the last reset is set so
\* that there is no protection.
OgmInit ==
  /\ neigh = [n \in Nbrs |-> None]
  /\ last = 0 /\ lastTtl = 0 /\ guarded = FALSE /\ router = None /\ stale = None
  /\ hand = NoHand /\ purge = "idle" /\ bestNeigh = None
  /\ heard = [n \in Nbrs |-> {}]
  /\ sent = [n \in Nbrs |-> {}] /\ again = FALSE
  /\ missed = [n \in Nbrs |-> 0] /\ crossed = FALSE

-----------------------------------------------------------------------------
(* The window *)

\* The difference of two u32 values as an s32.
Diff(x, y) ==
  LET d == (x - y) % M IN IF d >= M \div 2 THEN d - M ELSE d

TestBit(bits, old, new) ==
  LET d == Diff(old, new) IN d >= 0 /\ d < W /\ d \in bits

ShiftBits(bits, d) == {b + d : b \in {x \in bits : x + d < W}}

\* batadv_bit_get_packet: the bits afterwards, and whether the window moved.
GetPacket(bits, d, mark) ==
  IF d <= 0 /\ d > -W THEN IF mark THEN bits \cup {-d} ELSE bits
  ELSE (IF d > 0 /\ d < W THEN ShiftBits(bits, d) ELSE {})
       \cup (IF mark THEN {0} ELSE {})
Moves(d) == ~(d <= 0 /\ d > -W)

\* The part of batadv_window_protected that tells a restart.
IsReset(d) == d <= -W \/ d >= SeqnoRange

\* dup_status of update_seqnos when the packet is not protected.
DupStatus(n, seqno) ==
  IF n \in Listed /\ TestBit(neigh[n].bits, last, seqno) THEN "NEIGH_DUP"
  ELSE IF \E m \in Listed \ {n} : TestBit(neigh[m].bits, last, seqno)
       THEN "ORIG_DUP" ELSE "NO_DUP"

\* Mutant of Marked: the window of the neighbour alone is moved.
MarkedOwnOnly(n, d) ==
  [m \in Nbrs |-> IF m # n \/ neigh[m] = None THEN neigh[m]
                  ELSE [neigh[m] EXCEPT !.bits = GetPacket(@, d, TRUE)]]

\* The loop over neigh_list in update_seqnos.
Marked(n, d) ==
  [m \in Nbrs |-> IF neigh[m] = None THEN None
                  ELSE [neigh[m] EXCEPT !.bits = GetPacket(@, d, m = n)]]

-----------------------------------------------------------------------------
(* Ranking *)

\* Mutant of RingSet: the index does not wrap.
RingSetNoWrap(e, value) ==
  [e EXCEPT !.ring[e.index] = value, !.index = e.index + 1]

\* batadv_ring_buffer_set and batadv_ring_buffer_avg
RingSet(e, value) ==
  [e EXCEPT !.ring[e.index] = value, !.index = (e.index + 1) % GW]
Avg(e) ==
  LET used == {i \in DOMAIN e.ring : e.ring[i] # 0} IN
  IF used = {} THEN 0
  ELSE SumFunction(e.ring) \div Cardinality(used)

\* Mutant of Ranked: other neighbours are not told that they missed an OGM.
RankedWithoutZeros(list, n, fresh) ==
  [list EXCEPT ![n] = IF @ = None THEN NewEntry ELSE @]

\* The list after the first half of orig_update: the neighbour is in it, and a
\* new OGM is a zero for all the others.
Ranked(list, n, fresh) ==
  [m \in Nbrs |->
     IF m = n THEN IF list[n] = None THEN NewEntry ELSE list[n]
     ELSE IF list[m] # None /\ fresh THEN RingSet(list[m], 0)
     ELSE list[m]]

\* The entry that the router of the list refers to.
RouterEntry(list) == IF stale # None THEN stale ELSE list[router]

\* batadv_find_best_neighbor: a neighbour with the largest average, in an
\* order that depends on when they were added.
BestNeighbours(list) ==
  LET here == {n \in Nbrs : list[n] # None} IN
  IF here = {} THEN {None}
  ELSE {n \in here : \A m \in here : Avg(list[m]) <= Avg(list[n])}

-----------------------------------------------------------------------------
(* The handler *)

\* Bookkeeping of the history variables that goes with update_seqnos: the
\* OGMs that fall out of the window, or that a reset makes obsolete, go.
InWindow(set, a, d) ==
  IF Listed = {} \/ ~Moves(d) THEN set
  ELSE IF IsReset(d) THEN {}
  ELSE {x \in set : x > a - W}
HeardNext(n, a, d) ==
  [m \in Nbrs |-> InWindow(heard[m], a, d)
                  \cup IF m = n /\ neigh[n] # None THEN {a} ELSE {}]
SentNext(n, a, d, passOn) ==
  /\ sent' = [m \in Nbrs |-> InWindow(sent[m], a, d)
                             \cup IF m = n /\ passOn /\ neigh[n] # None THEN {a} ELSE {}]
  /\ again' = (again \/ (passOn /\ n # Orig /\ a \in InWindow(sent[n], a, d)))

\* Mutant of PassesOn: duplicates are passed on.
PassesOnDuplicates(n, dup, tq, ttl) ==
  /\ ttl > 1
  /\ n = Orig \/ (tq > 0 /\ router = n /\ Avg(RouterEntry(neigh)) # 0)

\* The end of process_per_outif and forward.  The OGM of a single hop
\* neighbour always goes on (flagged NOT_BEST_NEXT_HOP if it is not from the
\* router); others only once and only from the router.
PassesOn(n, dup, tq, ttl) ==
  /\ ttl > 1
  /\ n = Orig
     \/ (tq > 0 /\ dup # "NEIGH_DUP" /\ router = n /\ Avg(RouterEntry(neigh)) # 0)

\* orig_update is for new OGMs, and for copies of the newest one that did
\* not come a longer way.
Ranks(seqno, newest, dup, tq, ttl) ==
  tq > 0 /\ (dup = "NO_DUP" \/ (seqno = newest /\ lastTtl - 3 <= ttl))

\* batadv_iv_ogm_update_seqnos for OGM a from n: nothing happens, not even
\* in the rest of the handler, if the window is protected.
UpdateSeqnos(n, a) ==
  LET d == Diff(Wire(a), last) IN
  /\ hand.step = "idle"
  /\ ~(Listed # {} /\ IsReset(d) /\ guarded)
  /\ guarded' = (guarded \/ (Listed # {} /\ IsReset(d)))
  /\ last' = IF Listed # {} /\ Moves(d) THEN Wire(a) ELSE last
  /\ heard' = HeardNext(n, a, d)

\* An OGM that is dropped after that: its TQ is 0, or it may make a loop, or
\* there is no route towards its sender.  The last two depend on what is
\* known of other originators, so any OGM may be dropped.
RecvDropped(n, a) ==
  LET d == Diff(Wire(a), last) IN
  /\ UpdateSeqnos(n, a)
  /\ neigh' = Marked(n, d)
  /\ SentNext(n, a, d, FALSE)
  /\ UNCHANGED <<lastTtl, router, stale, hand, missed, crossed, purgeVars>>

\* batadv_iv_ogm_process_per_outif but for orig_update; tq is what calc_tq makes
\* of the TQ in the OGM, 0 if the link is not bidirectional.  The decision to
\* forward rests on the router there was before orig_update.
Recv(n, a, tq, ttl) ==
  LET d == Diff(Wire(a), last)
      dup == DupStatus(n, Wire(a))
  IN
  /\ UpdateSeqnos(n, a)
  /\ SentNext(n, a, d, PassesOn(n, dup, tq, ttl))
     \* calc_tq makes an entry for a direct neighbour
  /\ neigh' = IF n = Orig /\ neigh[n] = None
              THEN [Marked(n, d) EXCEPT ![n] = NewEntry] ELSE Marked(n, d)
  /\ hand' = IF Ranks(Wire(a), last', dup, tq, ttl)
             THEN [NoHand EXCEPT !.step = "seen", !.n = n, !.tq = tq, !.ttl = ttl,
                                 !.fresh = (dup = "NO_DUP")]
             ELSE NoHand
  /\ UNCHANGED <<lastTtl, router, stale, missed, crossed, purgeVars>>

\* orig_update walks the list, and holds the entry of the neighbour then.
FindNeigh ==
  /\ hand.step = "seen"
  /\ neigh' = Ranked(neigh, hand.n, hand.fresh)
  /\ missed' = [m \in Nbrs |->
       IF m = hand.n THEN 0
       ELSE IF hand.fresh /\ missed[m] < GW THEN missed[m] + 1
       ELSE missed[m]]
  /\ hand' = [hand EXCEPT !.step = "found"]
  /\ UNCHANGED <<lastTtl, router, stale, crossed, seqVars, purgeVars>>

\* The neighbour is no worse than the router.  Which link is more symmetric, the
\* tie breaker, depends on bcast_own_sum of the neighbours and is open.
Better(n, avg, list) ==
  IF router = None THEN {TRUE}
  ELSE IF Avg(RouterEntry(list)) > avg THEN {FALSE}
  ELSE IF Avg(RouterEntry(list)) = avg THEN IF router = n THEN {FALSE} ELSE BOOLEAN
  ELSE {TRUE}

\* The entry held gets its value, and is compared with that of the router unless
\* it is the same.
RateNeigh ==
  LET n     == hand.n
      there == hand.lost = None
      entry == RingSet(IF there THEN neigh[n] ELSE hand.lost, hand.tq)
      same  == router = n /\ IF there THEN stale = None ELSE hand.routed
  IN
  /\ hand.step = "found"
  /\ neigh' = IF there THEN [neigh EXCEPT ![n] = entry] ELSE neigh
  /\ stale' = IF same /\ ~there THEN entry ELSE stale
  /\ lastTtl' = IF hand.fresh THEN hand.ttl ELSE lastTtl
  /\ \E better \in IF same THEN {FALSE} ELSE Better(n, Avg(entry), neigh') :
       hand' = IF better
               THEN [NoHand EXCEPT !.step = "better", !.n = n, !.fresh = hand.fresh,
                                   !.lost = IF there THEN None ELSE entry]
               ELSE NoHand
  /\ UNCHANGED <<router, missed, crossed, seqVars, purgeVars>>

\* batadv_update_route at the end of orig_update, without any lock.
UpdateRoute ==
  /\ hand.step = "better"
  /\ router' = hand.n /\ stale' = hand.lost /\ crossed' = (hand.lost # None)
  /\ hand' = NoHand
  /\ UNCHANGED <<neigh, lastTtl, missed, seqVars, purgeVars>>

\* RESET_PROTECTION_MS have passed since the last reset.
ProtectionEnds ==
  /\ guarded
  /\ guarded' = FALSE
  /\ UNCHANGED <<neigh, last, lastTtl, router, stale, hand, heard, sent, again, missed,
                 crossed, purgeVars>>

\* batadv_purge_orig_node takes the neighbours that have timed out off the list,
\* under neigh_list_lock.  The handler and the route may still refer to them.
PurgeNeighbours(old) ==
  /\ purge = "idle" /\ old # {} /\ old \subseteq Listed
  /\ neigh' = [n \in Nbrs |-> IF n \in old THEN None ELSE neigh[n]]
  /\ stale' = IF stale = None /\ router \in old THEN neigh[router] ELSE stale
  /\ hand' = IF hand.step \in {"found", "better"} /\ hand.n \in old /\ hand.lost = None
             THEN [hand EXCEPT !.lost = neigh[hand.n],
                               !.routed = (hand.step = "found" /\ router = hand.n
                                           /\ stale = None)]
             ELSE hand
  /\ heard' = [n \in Nbrs |-> IF n \in old THEN {} ELSE heard[n]]
  /\ sent' = [n \in Nbrs |-> IF n \in old THEN {} ELSE sent[n]]
  /\ missed' = [n \in Nbrs |-> IF n \in old THEN 0 ELSE missed[n]]
  /\ purge' = "removed"
  /\ UNCHANGED <<last, lastTtl, guarded, router, again, crossed, bestNeigh>>

\* The best of the others is looked for,
FindBest ==
  /\ purge = "removed" /\ purge' = "found"
  /\ bestNeigh' \in BestNeighbours(neigh)
  /\ UNCHANGED <<neigh, lastTtl, router, stale, hand, missed, crossed, seqVars>>

\* Mutant of PurgeRoute: the route is left as it is.
PurgeRouteKept ==
  /\ purge = "found" /\ purge' = "idle" /\ bestNeigh' = None
  /\ UNCHANGED <<neigh, lastTtl, router, stale, hand, missed, crossed, seqVars>>

\* and becomes the router.
PurgeRoute ==
  /\ purge = "found" /\ purge' = "idle" /\ bestNeigh' = None
  /\ router' = bestNeigh /\ stale' = None /\ crossed' = FALSE
  /\ hand' = [hand EXCEPT !.routed = FALSE]
  /\ UNCHANGED <<neigh, lastTtl, missed, seqVars>>

\* _batadv_purge_orig: the originator has timed out and is forgotten.  An OGM in
\* hand goes on with what was taken out of the hash.
PurgeOrig ==
  /\ purge = "idle" /\ UNCHANGED purgeVars
  /\ neigh' = [n \in Nbrs |-> None]
  /\ last' = 0 /\ lastTtl' = 0 /\ guarded' = FALSE
  /\ router' = None /\ stale' = None /\ hand' = NoHand /\ crossed' = FALSE
  /\ heard' = [n \in Nbrs |-> {}]
  /\ sent' = [n \in Nbrs |-> {}] /\ again' = again
  /\ missed' = [n \in Nbrs |-> 0]

OgmNext ==
  \/ \E n \in Nbrs, a \in Seqs :
       \/ RecvDropped(n, a)
       \/ \E tq \in 0..MaxTq, ttl \in Ttls : Recv(n, a, tq, ttl)
  \/ FindNeigh \/ RateNeigh \/ UpdateRoute
  \/ ProtectionEnds
  \/ (\E old \in SUBSET Nbrs : PurgeNeighbours(old)) \/ FindBest \/ PurgeRoute
  \/ PurgeOrig

OgmSpec == OgmInit /\ [][OgmNext]_ogmVars

-----------------------------------------------------------------------------
(***************************************************************************)
(* Properties                                                              *)
(***************************************************************************)
OgmTypeOK ==
  /\ neigh \in [Nbrs -> Entry \cup {None}]
  /\ last \in 0..(M - 1)
  /\ lastTtl \in Ttls \cup {0}
  /\ guarded \in BOOLEAN
  /\ router \in Nbrs \cup {None} /\ stale \in Entry \cup {None}
  /\ hand \in [step : {"idle", "seen", "found", "better"}, n : Nbrs \cup {None},
               tq : 0..MaxTq, ttl : Ttls \cup {0}, fresh : BOOLEAN,
               lost : Entry \cup {None}, routed : BOOLEAN]
  /\ purge \in {"idle", "removed", "found"} /\ bestNeigh \in Nbrs \cup {None}
  /\ crossed \in BOOLEAN
  /\ heard \in [Nbrs -> SUBSET Seqs]
  /\ sent \in [Nbrs -> SUBSET Seqs] /\ again \in BOOLEAN
  /\ missed \in [Nbrs -> 0..GW]

\* A window says exactly which of the last W sequence numbers the neighbour
\* delivered since the originator last restarted, also when the numbers wrap
\* around (real_bits, from which the link quality is computed).
WindowIsHistory ==
  \A n \in Listed, a \in Seqs :
    LET age == Diff(last, Wire(a)) IN
    (age >= 0 /\ age < W) => (age \in neigh[n].bits <=> a \in heard[n])

\* However often and in whatever order the copies arrive, an OGM of a distant
\* originator is passed on once for a neighbour, while the neighbour stays in the
\* list and the window of the originator is not reset: the flood comes to an end.
PassedOnOnce == ~again

\* The router is a neighbour that is listed, timeouts and OGMs that come while
\* neighbours are purged included; unless the purge has still to set the route,
\* or the neighbour was purged while orig_update made it the router.
RouterIsListed ==
  router # None /\ purge = "idle" /\ ~crossed => stale = None /\ router \in Listed

\* A router that has missed GW new OGMs in a row is given up as soon as another
\* neighbour delivers a new one, with the exceptions of RouterIsListed: routes
\* do not stick to a dead link.
SilentRouterReplaced ==
  [][hand.step # "idle" /\ hand'.step = "idle" /\ hand.fresh
       /\ router' # None /\ purge' = "idle" /\ ~crossed'
       => missed'[router'] < GW]_ogmVars

\* Every variable keeps its type; the window and the ring of TQ values of each
\* neighbour are what was really received (update_packet_counter and ring_buffer
\* across wraps, restarts and protection), and the router is a listed neighbour
\* unless a purge crosses an OGM of it.
OgmConsistent == OgmTypeOK /\ WindowIsHistory /\ RouterIsListed
===============================================================================

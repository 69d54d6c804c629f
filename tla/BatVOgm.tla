-------------------------------- MODULE BatVOgm --------------------------------
(***************************************************************************)
(* B.A.T.M.A.N. V routing (bat_v_ogm.c, bat_v.c) towards one originator.   *)
(* It sends OGM2s with increasing sequence numbers; every node that gets   *)
(* one lowers its throughput to the bottleneck so far, decides on a next   *)
(* hop and passes it on once.  Every node has one interface, so it keeps   *)
(* two tables: BATADV_IF_DEFAULT ("default", for its own packets) and that *)
(* of the interface ("iface", for packets it forwards).                    *)
(*                                                                         *)
(* An OGM arrives before its sender sends the next one, or not at all;     *)
(* links change, the originator restarts with another sequence number,     *)
(* neighbours time out.  Sequence numbers wrap at VSeqMod, as the code's   *)
(* do at 2^32.                                                             *)
(***************************************************************************)
EXTENDS Integers, FiniteSets

CONSTANTS
  VNodes, VOrig, VNone,
  VLinks,         \* {n, m} that hear each other
  VTps,           \* averages a link may have
  VHalfDuplex,    \* nodes whose interface is half duplex
  VHopPenalty,    \* hop_penalty, of 255
  VMaxTp,         \* BATADV_THROUGHPUT_MAX_VALUE
  VTtl,           \* BATADV_TTL
  VSeqMod,        \* sequence numbers wrap here
  VFirst, VSeqs,  \* the first one, and those the originator restarts with
  VOrigDiff,      \* BATADV_OGM_MAX_ORIGDIFF
  VMaxAge,        \* BATADV_OGM_MAX_AGE
  VSeqRange,      \* BATADV_EXPECTED_SEQNO_RANGE
  VMaxOgms, VMaxChanges   \* bounds: OGMs; link changes, restarts and timeouts

ASSUME VAssumption ==
  /\ VOrig \in VNodes /\ VNone \notin VNodes /\ IsFiniteSet(VNodes)
  /\ \A l \in VLinks : l \subseteq VNodes /\ Cardinality(l) = 2
  /\ {VMaxTp, VTtl, VSeqMod, VOrigDiff, VMaxAge, VSeqRange, VMaxOgms, VMaxChanges} \subseteq Nat
  /\ VTps \subseteq 1..VMaxTp /\ VTps # {} /\ VHopPenalty \in 0..255
  /\ VSeqs \cup {VFirst} \subseteq 0..(VSeqMod - 1)
  /\ VHalfDuplex \subseteq VNodes

VTables == {"default", "iface"}
VOthers == VNodes \ {VOrig}

VARIABLES
  vSeq,      \* next sequence number of the originator
  vLink,     \* <<node, neighbour>> -> average throughput of the link
  vMsgs,     \* OGMs on their way: [to, from, seq, tp, ttl]
  vInfo,     \* node -> table -> neighbour -> neigh_ifinfo [known, tp, seq]
  vRouter,   \* node -> table -> next hop
  vIf,       \* node -> table -> orig_ifinfo [real, fwd, guarded]
  vOgms, vChanges,  \* counters for the bounds
  vCalm,     \* history: no restart and no timeout so far
  vPassed,   \* history: <<node, seq, k>>: the node passed the OGM on k times
  vOverput   \* history: a reference of a router was given back twice

vVars == <<vSeq, vLink, vMsgs, vInfo, vRouter, vIf, vOgms, vChanges, vCalm, vPassed, vOverput>>

Unheard == [known |-> FALSE, tp |-> 0, seq |-> 0]
VNeighbours(n) == {m \in VNodes : {n, m} \in VLinks}

VInit ==
  /\ vSeq = VFirst
  /\ vLink = [l \in {p \in VOthers \X VNodes : {p[1], p[2]} \in VLinks} |->
                CHOOSE tp \in VTps : \A other \in VTps : other <= tp]
  /\ vMsgs = {}
  /\ vInfo = [n \in VOthers |-> [t \in VTables |-> [m \in VNodes |-> Unheard]]]
  /\ vRouter = [n \in VOthers |-> [t \in VTables |-> VNone]]
  /\ vIf = [n \in VOthers |-> [t \in VTables |-> [real |-> 0, fwd |-> 0, guarded |-> FALSE]]]
  /\ vOgms = 0 /\ vChanges = 0
  /\ vCalm = TRUE /\ vPassed = {} /\ vOverput = FALSE

\* s32 difference of two u32 sequence numbers
SeqDiff(a, b) == ((a - b + VSeqMod \div 2) % VSeqMod) - VSeqMod \div 2

\* To every neighbour; the originator itself drops its OGMs (is_my_mac).  What
\* a neighbour did not get until then is lost.
v_ogm_send_to_if(n, seq, tp, ttl) ==
  {o \in vMsgs : o.from # n} \cup
  {[to |-> m, from |-> n, seq |-> seq, tp |-> tp, ttl |-> ttl] : m \in VNeighbours(n) \ {VOrig}}

\* The originator sends its next OGM.
v_ogm_send ==
  /\ vOgms < VMaxOgms
  /\ vOgms' = vOgms + 1
  /\ vMsgs' = v_ogm_send_to_if(VOrig, vSeq, VMaxTp, VTtl)
  /\ vSeq' = (vSeq + 1) % VSeqMod
  /\ UNCHANGED <<vLink, vInfo, vRouter, vIf, vChanges, vCalm, vPassed, vOverput>>

-----------------------------------------------------------------------------
(* An OGM is received: one table after the other *)

window_protected(diff, if) == (diff <= -VMaxAge \/ diff >= VSeqRange) /\ if.guarded
window_restarts(diff) == diff <= -VMaxAge \/ diff >= VSeqRange

v_forward_penalty(n, t, tp) ==
  IF t = "default" THEN tp
  ELSE IF tp > 10 /\ n \in VHalfDuplex THEN tp \div 2
  ELSE (tp * (255 - VHopPenalty)) \div 255

\* Mutant: an OGM older than the newest one is taken, too.
v_seq_is_old_never(diff, started) == FALSE

v_seq_is_old(diff, started) == diff < 0 /\ ~started

\* Mutant: the route goes to whoever sent the newest OGM.
v_keeps_router_if_newer(info, router, m) == SeqDiff(info[m].seq, info[router].seq) < 1

\* v_ogm_orig_update: the router stays, as good as m and not long unheard.
v_keeps_router(info, router, m) ==
  /\ SeqDiff(info[m].seq, info[router].seq) < VOrigDiff
  /\ info[router].tp >= info[m].tp

v_ogm_orig_update(info, router, m) ==
  IF router # VNone /\ router # m /\ v_keeps_router(info, router, m) THEN router ELSE m

\* v_ogm_metric_update of table t at n, for an OGM o lowered to tp: what is known
\* of the neighbour and the last number, or {} for one that is out of its time.
v_ogm_metric_update(n, t, o, tp) ==
  LET if == vIf[n][t]
      diff == SeqDiff(o.seq, if.real)
      started == window_restarts(diff)
  IN
  IF window_protected(diff, if) \/ v_seq_is_old(diff, started) THEN {}
  ELSE {[info |-> [vInfo[n][t] EXCEPT ![o.from] =
                     [known |-> TRUE, tp |-> v_forward_penalty(n, t, tp), seq |-> o.seq]],
         if |-> [if EXCEPT !.real = o.seq, !.guarded = @ \/ started]]}

\* v_ogm_route_update, with new from the metric update: the next hop, and whether
\* the OGM is passed on.  The reference of the old router is put back at once,
\* and again at the end when the OGM was passed on before.
v_ogm_route_update(n, t, o, new) ==
  LET router == v_ogm_orig_update(new.info, vRouter[n][t], o.from)
      again == new.if.fwd = o.seq
      fwd == ~again /\ router = o.from /\ t # "default"
  IN  [info |-> new.info, router |-> router, fwd |-> fwd,
       if |-> [new.if EXCEPT !.fwd = IF fwd THEN o.seq ELSE @],
       overput |-> again /\ vRouter[n][t] # VNone]

v_ogm_process_per_outif(n, t, o, tp) ==
  LET new == v_ogm_metric_update(n, t, o, tp)
  IN  IF new = {}
      THEN [info |-> vInfo[n][t], router |-> vRouter[n][t], if |-> vIf[n][t],
            fwd |-> FALSE, overput |-> FALSE]
      ELSE v_ogm_route_update(n, t, o, CHOOSE x \in new : TRUE)

\* v_ogm_forward, unless the ttl is used up
v_ogm_forward(n, o, tp) ==
  IF o.ttl > 1 THEN v_ogm_send_to_if(n, o.seq, tp, o.ttl - 1) ELSE vMsgs

\* v_ogm_process: an OGM of throughput 0 is dropped.
v_ogm_process(o) ==
  LET n == o.to
      tp == IF vLink[<<n, o.from>>] < o.tp THEN vLink[<<n, o.from>>] ELSE o.tp
      new == [t \in VTables |-> v_ogm_process_per_outif(n, t, o, tp)]
      sent == new["iface"].fwd
      times == IF <<n, o.seq, 1>> \in vPassed THEN 2 ELSE 1
  IN
  /\ IF o.tp = 0
     THEN /\ vMsgs' = vMsgs \ {o}
          /\ UNCHANGED <<vInfo, vRouter, vIf, vPassed, vOverput>>
     ELSE /\ vInfo' = [vInfo EXCEPT ![n] = [t \in VTables |-> new[t].info]]
          /\ vRouter' = [vRouter EXCEPT ![n] = [t \in VTables |-> new[t].router]]
          /\ vIf' = [vIf EXCEPT ![n] = [t \in VTables |-> new[t].if]]
          /\ vOverput' = (vOverput \/ \E t \in VTables : new[t].overput)
          /\ vMsgs' = (IF sent THEN v_ogm_forward(n, o, new["iface"].info[o.from].tp)
                       ELSE vMsgs) \ {o}
          /\ vPassed' = IF sent THEN vPassed \cup {<<n, o.seq, times>>} ELSE vPassed
  /\ UNCHANGED <<vSeq, vLink, vOgms, vChanges, vCalm>>

-----------------------------------------------------------------------------
(* Changes *)

VChange == vChanges < VMaxChanges /\ vChanges' = vChanges + 1

\* The average of a link changes (v_elp_throughput_metric_update).
LinkChanges(l, tp) ==
  /\ VChange /\ vLink[l] # tp
  /\ vLink' = [vLink EXCEPT ![l] = tp]
  /\ UNCHANGED <<vSeq, vMsgs, vInfo, vRouter, vIf, vOgms, vCalm, vPassed, vOverput>>

\* The originator restarts: v_ogm_init takes a random sequence number.
v_ogm_init(seq) ==
  /\ VChange
  /\ vSeq' = seq
  /\ vCalm' = FALSE /\ vPassed' = {}
  /\ UNCHANGED <<vLink, vMsgs, vInfo, vRouter, vIf, vOgms, vOverput>>

\* BATADV_RESET_PROTECTION_MS after a restart was seen, by both tables at once.
VProtectionEnds(n) ==
  /\ \E t \in VTables : vIf[n][t].guarded
  /\ vIf' = [vIf EXCEPT ![n] = [t \in VTables |-> [@[t] EXCEPT !.guarded = FALSE]]]
  /\ UNCHANGED <<vSeq, vLink, vMsgs, vInfo, vRouter, vOgms, vChanges, vCalm, vPassed, vOverput>>

\* find_best_neighbor with v_neigh_cmp: any neighbour of the highest throughput.
Best(info, known) == {m \in known : \A o \in known : info[m].tp >= info[o].tp}

\* purge_orig_node: m was not heard for BATADV_PURGE_TIMEOUT; both tables take
\* the best of the neighbours that are left.
NeighbourTimesOut(n, m) ==
  LET info == [t \in VTables |-> [vInfo[n][t] EXCEPT ![m] = Unheard]]
      known == {o \in VNodes : info["default"][o].known}
  IN
  /\ VChange /\ vInfo[n]["default"][m].known
  /\ vInfo' = [vInfo EXCEPT ![n] = info]
  /\ \E d \in IF known = {} THEN {VNone} ELSE Best(info["default"], known) :
     \E i \in IF known = {} THEN {VNone} ELSE Best(info["iface"], known) :
       vRouter' = [vRouter EXCEPT ![n] = [t \in VTables |-> IF t = "default" THEN d ELSE i]]
  /\ vCalm' = FALSE
  /\ UNCHANGED <<vSeq, vLink, vMsgs, vIf, vOgms, vPassed, vOverput>>

VNext ==
  \/ v_ogm_send
  \/ \E o \in vMsgs : v_ogm_process(o)
  \/ \E l \in DOMAIN vLink, tp \in VTps : LinkChanges(l, tp)
  \/ \E s \in VSeqs : v_ogm_init(s)
  \/ \E n \in VOthers : VProtectionEnds(n)
  \/ \E n \in VOthers, m \in VNodes : NeighbourTimesOut(n, m)

VSpec == VInit /\ [][VNext]_vVars

-----------------------------------------------------------------------------
(* Properties *)

\* Every variable keeps its type; a next hop is a neighbour something is known of.
VTypeOK ==
  /\ vSeq \in 0..(VSeqMod - 1)
  /\ \A n \in VOthers, t \in VTables :
       /\ vRouter[n][t] \in VNodes \cup {VNone}
       /\ vRouter[n][t] # VNone => /\ {n, vRouter[n][t]} \in VLinks
                                   /\ vInfo[n][t][vRouter[n][t]].known
       /\ \A m \in VNodes : vInfo[n][t][m].tp \in 0..VMaxTp

\* Nodes a packet comes to, from n on, by the tables of the interfaces.
Hops[k \in 0..Cardinality(VNodes)] ==
  [n \in VNodes |->
     IF n = VOrig \/ k = 0 \/ vRouter[n]["iface"] = VNone THEN {}
     ELSE {vRouter[n]["iface"]} \cup Hops[k - 1][vRouter[n]["iface"]]]

\* A packet for the originator never comes back to a node that forwarded it,
\* whatever is lost or late and however the links change, as long as no neighbour
\* timed out and the originator did not restart.
VNoLoop ==
  vCalm => \A n \in VOthers : n \notin Hops[Cardinality(VNodes)][n]

\* The next hop of a node is never behind another neighbour by as many OGMs as
\* BATADV_OGM_MAX_ORIGDIFF: a dead route is left for a live one, however slow.
VRouterIsFresh ==
  vCalm => \A n \in VOthers, t \in VTables, m \in VNodes :
    vInfo[n][t][m].known /\ vRouter[n][t] # VNone =>
      SeqDiff(vInfo[n][t][m].seq, vInfo[n][t][vRouter[n][t]].seq) < VOrigDiff

\* A node passes an OGM on once, although it decides on it again for every copy
\* it gets of it (last_seqno_forwarded).
VForwardsOnce == vCalm => \A k \in vPassed : k[3] = 1

\* "refcount: number of contexts the object is used": the reference of the router
\* that v_ogm_route_update takes is given back once.
VReferencesKept == ~vOverput

\* The routes towards an originator: typed, without loops and fresh, and the
\* flood ends, whatever order the OGMs of v_ogm_process and the changes of the
\* links come in.
VRoutesSound == VTypeOK /\ VNoLoop /\ VRouterIsFresh /\ VForwardsOnce
=============================================================================

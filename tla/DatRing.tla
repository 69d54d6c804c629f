------------------------------- MODULE DatRing -------------------------------
(***************************************************************************)
(* Who stores an IP address in the distributed ARP table: each node walks  *)
(* over the originators it knows, once per candidate, and takes the next   *)
(* one on a ring of 16 bit addresses (batadv_dat_select_candidates).  A    *)
(* node that stores and a node that asks choose apart from each other, and *)
(* neither has itself among its originators.                               *)
(***************************************************************************)
EXTENDS Naturals, FiniteSets, Sequences

Fcn == INSTANCE Functions

CONSTANTS
  RingNodes,       \* nodes with DAT, as numbers
  RingSize,        \* 2^16 in the code
  CandidatesNum,   \* BATADV_DAT_CANDIDATES_NUM
  RingWalks,       \* orders of the originators in the hash table
  RingMissing      \* bound: originators a node has not heard of yet

ASSUME RingAssumption ==
  /\ RingNodes \subseteq Nat \ {0} /\ {1, 2} \subseteq RingNodes
  /\ RingSize \in Nat \ {0, 1} /\ CandidatesNum \in Nat \ {0}
  /\ RingWalks \subseteq Seq(RingNodes)
  /\ \A w \in RingWalks : Fcn!IsInjective(w) /\ Fcn!Range(w) = RingNodes
  /\ RingMissing \in Nat

VARIABLES
  ringAddr,   \* node -> dat_addr
  ringKey,    \* the hash of the IP address
  ringSel     \* the two choosers
ringVars == <<ringAddr, ringKey, ringSel>>

NoOrig == 0
AddrMax == RingSize - 1     \* BATADV_DAT_ADDR_MAX

\* batadv_dat_select_candidates, before the first round; the hash table holds
\* the originators that are known, in the order of walk.
dat_select_candidates(who, knows, walk) ==
  [who |-> who, knows |-> knows, walk |-> walk, cands |-> <<>>, last_max |-> AddrMax]

\* Addresses are hashes modulo BATADV_DAT_ADDR_MAX (batadv_dat_init_orig_node_addr).
\* Nodes differ only in their addresses: 1 and 2 stand for any two of them,
\* and the others come in the order of their addresses.
RingInit ==
  /\ ringAddr \in [RingNodes -> 0..AddrMax - 1]
  /\ \A o \in RingNodes \ {1, 2}, q \in RingNodes \ {1, 2} :
       o < q => ringAddr[o] <= ringAddr[q]
  /\ ringKey \in 0..AddrMax - 1
  /\ \E V \in SUBSET (RingNodes \ {1}), W \in SUBSET (RingNodes \ {2}),
        v \in RingWalks, w \in RingWalks :
       /\ Cardinality(V) >= Cardinality(RingNodes) - 1 - RingMissing
       /\ Cardinality(W) >= Cardinality(RingNodes) - 1 - RingMissing
       /\ ringSel = <<dat_select_candidates(1, V, v), dat_select_candidates(2, W, w)>>

\* The place of a node, in the width of batadv_dat_addr_t
RingPlace(o) == (AddrMax - ringAddr[o] + ringKey) % RingSize

\* Mutant: a node chosen in an earlier round is chosen again.
is_orig_node_eligible_again(s, best, o) ==
  RingPlace(o) <= s.last_max /\ RingPlace(o) >= best.max

\* Mutant: places are counted from the own address, not from the IP's.
is_orig_node_eligible_own(s, best, o) ==
  LET Own(q) == (AddrMax - ringAddr[q] + ringAddr[s.who]) % RingSize IN
  /\ o \notin Fcn!Range(s.cands)
  /\ best.max_orig_node = NoOrig \/ Own(o) >= Own(best.max_orig_node)

\* batadv_is_orig_node_eligible.  batadv_compare_eth only says whether two
\* addresses are equal, so of two nodes in one place the last one visited stays.
is_orig_node_eligible(s, best, o) ==
  /\ o \notin Fcn!Range(s.cands)
  /\ RingPlace(o) <= s.last_max
  /\ RingPlace(o) >= best.max
  /\ ~(RingPlace(o) = best.max /\ best.max_orig_node = o)

\* batadv_choose_next_candidate: one round over the hash table
choose_next_candidate(i) ==
  LET s == ringSel[i]
      Visit(best, o) == IF o \in s.knows /\ is_orig_node_eligible(s, best, o)
                        THEN [max |-> RingPlace(o), max_orig_node |-> o] ELSE best
      after[k \in 0..Len(s.walk)] ==
        IF k = 0 THEN [max |-> 0, max_orig_node |-> NoOrig] ELSE Visit(after[k - 1], s.walk[k])
      best == after[Len(s.walk)]
  IN  /\ Len(s.cands) < CandidatesNum
      /\ ringSel' = [ringSel EXCEPT ![i] =
           [s EXCEPT !.cands = Append(@, best.max_orig_node), !.last_max = best.max]]
      /\ UNCHANGED <<ringAddr, ringKey>>

\* The two share nothing: the second chooses when the first is done.
RingNext == \E i \in {1, 2} :
  (i = 2 => Len(ringSel[1].cands) = CandidatesNum) /\ choose_next_candidate(i)
RingSpec == RingInit /\ [][RingNext]_ringVars

-----------------------------------------------------------------------------
(***************************************************************************)
(* Properties                                                              *)
(***************************************************************************)
RingDone(i) == Len(ringSel[i].cands) = CandidatesNum
Chosen(i) == Fcn!Range(ringSel[i].cands) \ {NoOrig}

\* Also across the wrap of the ring and with nodes in the same place, a node
\* finds as many candidates as there can be.
RingFindsAll ==
  \A i \in {1, 2} : RingDone(i) =>
    Cardinality(Chosen(i)) =
      IF Cardinality(ringSel[i].knows) < CandidatesNum THEN Cardinality(ringSel[i].knows)
      ELSE CandidatesNum

\* A node that asks comes upon a node that was told, or is one of them: what
\* one stores the other finds, although they choose apart, neither counts
\* itself and each may not have heard of some node yet.  (With nodes in one
\* place this rests on one order of the walk: the code has no rule for them.)
RingMeet ==
  (RingDone(1) /\ RingDone(2)) =>
    (Chosen(1) \cup {ringSel[1].who}) \cap (Chosen(2) \cup {ringSel[2].who}) # {}

\* The choice of candidates for an address (dat_select_candidates).
RingWorks == RingFindsAll /\ RingMeet
=============================================================================

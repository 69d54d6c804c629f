----------------------------- MODULE Fragmentation -----------------------------
(***************************************************************************)
(* Splitting a packet into fragments and merging it again: fragmentation.c *)
(* of batman-adv, one sending and one receiving node.  The mesh between    *)
(* them loses, repeats and reorders fragments.                             *)
(*                                                                         *)
(* Payload is counted in units and a fragment holds FragSize of them.      *)
(* `pkt' in a fragment is history: the number of the packet it was cut     *)
(* from, which is not on the wire.                                         *)
(***************************************************************************)
EXTENDS Integers, Sequences, FiniteSets, FiniteSetsExt

CONSTANTS
  FragSize,      \* max_fragment_size
  MaxFragments,  \* BATADV_FRAG_MAX_FRAGMENTS
  Buckets,       \* BATADV_FRAG_BUFFER_COUNT
  SeqMod,        \* range of the u16 frag_seqno, a multiple of Buckets
  StartSeq,      \* frag_seqno after loading the module (random)
  Lens,          \* lengths of the packets that are sent
  FragWindow,        \* bound: late fragments belong to the last FragWindow packets
  MaxPkts,       \* bound: packets sent
  AllocFails     \* TRUE: pskb_expand_head may fail

ASSUME FragAssumption ==
  /\ FragSize \in Nat \ {0} /\ MaxFragments \in Nat \ {0}
  /\ Buckets \in Nat \ {0} /\ SeqMod \in Nat \ {0} /\ SeqMod % Buckets = 0
  /\ StartSeq \in 0..(SeqMod - 1) /\ Lens \subseteq Nat \ {0}
  /\ FragWindow \in Nat \ {0} /\ MaxPkts \in Nat /\ AllocFails \in BOOLEAN

VARIABLES
  sent,       \* history: lengths and results of batadv_frag_send_packet
  net,        \* fragments in flight
  chain,      \* orig_node->fragments
  delivered,  \* history: packet number -> how often it was merged
  mangled,    \* history: something else was merged
  seen,       \* history: bucket -> packet that last used it, what came of it
  doubleFree  \* history: a buffer was freed twice

fragVars == <<sent, net, chain, delivered, mangled, seen, doubleFree>>

\* batadv_frag_size_limit
SizeLimit == FragSize * MaxFragments
Packets == 1..MaxPkts
Seqno(k) == (StartSeq + k) % SeqMod
Bucket(seqno) == seqno % Buckets

\* batadv_orig_node_new clears the table.
NewChain == [seqno |-> 0, size |-> 0, total |-> 0, frags |-> {}]
Unseen == [pkt |-> 0, nos |-> {}, whole |-> FALSE]

FragInit ==
  /\ sent = << >> /\ net = {} /\ mangled = FALSE /\ doubleFree = FALSE
  /\ chain = [b \in 0..(Buckets - 1) |-> NewChain]
  /\ seen = [b \in 0..(Buckets - 1) |-> Unseen]
  /\ delivered = [k \in Packets |-> 0]

-----------------------------------------------------------------------------
(* Sending *)

\* Fragments are cut from the tail; the rest, which is the head of the
\* packet, goes into the last one.
NumFragments(len) == (len + FragSize - 1) \div FragSize

\* Mutant of Fragment: the last one loses what its number says too much.
FragmentShort(k, len, no) ==
  [pkt |-> k, seqno |-> Seqno(k), no |-> no, total |-> len,
   size |-> IF no < NumFragments(len) - 1 THEN FragSize
            ELSE len - (no + 1) * FragSize]

Fragment(k, len, no) ==
  [pkt |-> k, seqno |-> Seqno(k), no |-> no, total |-> len,
   size |-> IF no < NumFragments(len) - 1 THEN FragSize ELSE len - no * FragSize]

\* The loop gives up when MaxFragments - 1 fragments have been cut.
Cut(len) == Min({NumFragments(len) - 1, MaxFragments - 1})
Succeeds(len) == len <= SizeLimit /\ Cut(len) < MaxFragments - 1

\* batadv_frag_send_packet.  Fragments older than FragWindow packets do not
\* arrive any more, and a chain is purged (BATADV_FRAG_TIMEOUT) before the
\* sequence numbers come round.
SendPacket(len) ==
  /\ Len(sent) < MaxPkts
  /\ \A b \in DOMAIN chain : \A f \in chain[b].frags : f.pkt + SeqMod > Len(sent) + 1
  /\ LET k == Len(sent) + 1
         last == IF Succeeds(len) THEN {NumFragments(len) - 1} ELSE {}
     IN /\ sent' = Append(sent, [len |-> len, ok |-> Succeeds(len)])
        /\ net' = {f \in net : f.pkt + FragWindow > k} \cup
             IF len > SizeLimit THEN {}
             ELSE {Fragment(k, len, no) : no \in (0..(Cut(len) - 1)) \cup last}
  /\ UNCHANGED <<chain, delivered, mangled, seen, doubleFree>>

-----------------------------------------------------------------------------
(* Receiving *)

\* Mutant of InitChain: the size of the old fragments is kept.
InitChainKeepsSize(c, f) ==
  IF c.seqno = f.seqno THEN c
  ELSE [seqno |-> f.seqno, size |-> c.size, total |-> f.total, frags |-> {}]

\* batadv_frag_init_chain: fragments with another sequence number go.
InitChain(c, f) ==
  IF c.seqno = f.seqno THEN c
  ELSE [seqno |-> f.seqno, size |-> 0, total |-> f.total, frags |-> {}]

\* Mutant of Placed: an empty chain takes any fragment.
PlacedInEmpty(c, f) == c.seqno # f.seqno \/ \A g \in c.frags : g.no # f.no

\* Mutant of Placed: the end of the list is not looked at.
PlacedBefore(c, f) == c.seqno # f.seqno \/ \E g \in c.frags : g.no < f.no

\* Whether a place is found for the fragment: always in a chain that was
\* just prepared, never in an empty one that had the sequence number before,
\* and not when its number is there already.
Placed(c, f) ==
  \/ c.seqno # f.seqno
  \/ c.frags # {} /\ \A g \in c.frags : g.no # f.no

\* batadv_frag_insert_packet up to the label out
Inserted(c, f) ==
  IF Placed(c, f)
  THEN [InitChain(c, f) EXCEPT !.frags = @ \cup {f}, !.size = @ + f.size]
  ELSE c

TooBig(c, f) == c.size > SizeLimit \/ c.total # f.total \/ c.total > SizeLimit

\* Mutant of Complete: off by one.
CompleteEarly(c, f) == ~TooBig(c, f) /\ f.total <= c.size + 1

\* "All fragments received"
Complete(c, f) == ~TooBig(c, f) /\ f.total = c.size

Cleared(c) == [c EXCEPT !.frags = {}, !.size = 0]

\* batadv_frag_merge_packets copies the fragments from the highest number to
\* the lowest one: that is packet k, from its head to its tail.
IsPacket(frags, k) ==
  /\ k \in 1..Len(sent)
  /\ frags = {Fragment(k, sent[k].len, no) : no \in 0..(NumFragments(sent[k].len) - 1)}

\* What arrived of the packet that uses the bucket now, and whether the
\* chain could take it from the start.
Seen(s, c, f) ==
  IF s.pkt = f.pkt THEN [s EXCEPT !.nos = @ \cup {f.no}]
  ELSE [pkt |-> f.pkt, nos |-> {f.no}, whole |-> c.seqno # f.seqno]

Merge(c, f) ==
  /\ \/ /\ mangled' = (mangled \/ ~IsPacket(c.frags, f.pkt))
        /\ delivered' = [delivered EXCEPT ![f.pkt] = @ + 1]
        /\ UNCHANGED doubleFree
     \/ \* The merge frees every fragment and reports the failure, upon which
        \* batadv_batman_skb_recv frees the fragment it called with.
        /\ AllocFails
        /\ doubleFree' = TRUE
        /\ UNCHANGED <<mangled, delivered>>

\* batadv_frag_skb_buffer
RecvFragment(f) ==
  LET b == Bucket(f.seqno)
      c == Inserted(chain[b], f)
      done == Complete(c, f)
  IN /\ f \in net
     /\ net' \in {net, net \ {f}}
     /\ IF Placed(chain[b], f) \/ chain[b].frags = {}
        THEN /\ chain' = [chain EXCEPT ![b] = IF TooBig(c, f) \/ done
                                              THEN Cleared(c) ELSE c]
             /\ IF done THEN Merge(c, f)
                ELSE UNCHANGED <<mangled, delivered, doubleFree>>
        ELSE UNCHANGED <<chain, mangled, delivered, doubleFree>>
     /\ seen' = [seen EXCEPT ![b] = Seen(@, chain[b], f)]
     /\ UNCHANGED sent

\* batadv_frag_purge_orig with batadv_frag_check_entry
PurgeChain(b) ==
  /\ chain[b].frags # {}
  /\ chain' = [chain EXCEPT ![b] = Cleared(@)]
  /\ seen' = [seen EXCEPT ![b].whole = FALSE]
  /\ UNCHANGED <<sent, net, delivered, mangled, doubleFree>>

\* The originator times out and is found again: the table is a new one.  By
\* then nothing that was sent before is in flight.
PurgeOrig ==
  /\ chain' = [b \in DOMAIN chain |-> NewChain]
  /\ seen' = [b \in DOMAIN chain |-> Unseen]
  /\ net' = {}
  /\ UNCHANGED <<sent, delivered, mangled, doubleFree>>

FragNext ==
  \/ \E len \in Lens : SendPacket(len)
  \/ \E f \in net : RecvFragment(f)
  \/ \E b \in DOMAIN chain : PurgeChain(b)
  \/ PurgeOrig

FragSpec == FragInit /\ [][FragNext]_fragVars

-----------------------------------------------------------------------------
(***************************************************************************)
(* Properties                                                              *)
(***************************************************************************)
IsFragment(f) ==
  f \in [pkt : Packets, seqno : 0..(SeqMod - 1), no : 0..(MaxFragments - 1),
         total : Lens, size : 1..FragSize]

FragTypeOK ==
  /\ \A k \in DOMAIN sent : sent[k] \in [len : Lens, ok : BOOLEAN]
  /\ \A f \in net : IsFragment(f)
  /\ \A b \in 0..(Buckets - 1) :
       /\ chain[b].seqno \in 0..(SeqMod - 1)
       /\ chain[b].size \in 0..SizeLimit /\ chain[b].total \in Lens \cup {0}
       /\ \A f \in chain[b].frags : IsFragment(f)
       /\ seen[b].pkt \in 0..MaxPkts
  /\ delivered \in [Packets -> Nat]
  /\ mangled \in BOOLEAN /\ doubleFree \in BOOLEAN

\* The units of payload that the fragments hold.
Units(frags) == UNION {{f} \X (1..f.size) : f \in frags}

\* chain->size is what the merge relies on to call a packet complete: it is
\* the sum of the fragments that are in the list, all of them of one packet.
SizeIsSum ==
  \A b \in DOMAIN chain :
    /\ chain[b].size = Cardinality(Units(chain[b].frags))
    /\ \A f, g \in chain[b].frags : f.pkt = g.pkt /\ (f.no = g.no => f = g)

\* Nothing is merged but packets as they were sent, whatever is lost,
\* repeated or reordered and when sequence numbers come round: although
\* completeness is judged by the sum of the sizes alone.
MergedIsSent == ~mangled

\* No packet is delivered twice, though every fragment may arrive twice: a
\* chain that was handed over keeps its sequence number and takes no more.
DeliveredOnce == \A k \in Packets : delivered[k] <= 1

\* A packet of which every fragment arrived, with nothing of another packet
\* in its bucket between them and no timeout, was delivered: if the chain
\* did not have its sequence number already.
CompleteIsDelivered ==
  \A b \in DOMAIN seen : LET k == seen[b].pkt IN
    (k > 0 /\ seen[b].whole /\ seen[b].nos = 0..(NumFragments(sent[k].len) - 1))
      => delivered[k] > 0

\* The same without the exception: the comment on batadv_frag_init_chain says
\* that it returns true whenever the chain is empty.
CompleteIsAlwaysDelivered ==
  \A b \in DOMAIN seen : LET k == seen[b].pkt IN
    (k > 0 /\ seen[b].nos = 0..(NumFragments(sent[k].len) - 1)
       /\ chain[b].frags = {})
      => delivered[k] > 0

\* "create up to 16 fragments from the passed skb"; "The initial check in
\* this function should cover this case".
FitsIsSent == \A k \in DOMAIN sent : sent[k].len <= SizeLimit => sent[k].ok

\* "Error: Return false and leave skb as is".
FreedOnce == ~doubleFree

\* Every variable keeps its type, the size kept with a chain is the sum of its
\* fragments, and what frag_merge_packets hands up is a packet that was sent,
\* whole and once.
FragDeliversAsSent == FragTypeOK /\ SizeIsSum /\ MergedIsSent /\ DeliveredOnce
=============================================================================

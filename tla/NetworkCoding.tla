---------------------------- MODULE NetworkCoding ----------------------------
(***************************************************************************)
(* Network coding (network-coding.c): a node that forwards two unicast     *)
(* packets to two neighbours sends their exclusive or, once, when each of  *)
(* the neighbours is believed to hold the other packet already.  A packet  *)
(* waits in a coding path for a partner; packets sent or overheard wait in *)
(* a decoding path for a coded packet they can open.                       *)
(*                                                                         *)
(* A payload is a sequence of blocks, each the set of packets that went    *)
(* into it an odd number of times; the checksum that names a packet is its *)
(* payload, so collisions are left out.  A node handles one frame or one   *)
(* run of its worker at a time: this leaves out a race of the code.  The   *)
(* worker finds a path timed out and empty and unlinks it (:456-470) while *)
(* a frame has just looked that path up (:969-974, :1498-1500); the packet *)
(* goes into a path nobody finds any more and is neither sent nor freed.   *)
(***************************************************************************)
EXTENDS Naturals, FiniteSets, Sequences

SeqsExt == INSTANCE SequencesExt

CONSTANTS
  NcNodes,
  NcNeighbours,   \* node -> nodes that hear it
  NcNextHop,      \* <<node, destination>> -> next hop
  NcPackets,
  NcSrc, NcDst,   \* packet -> originator and destination
  NcBlocks,       \* packet -> length in blocks
  NcTq,           \* node -> TQ of the route to it
  FwdDelay,       \* max_fwd_delay, in runs of the worker
  BufferTime,     \* max_buffer_time
  PathFactor,     \* delays after which an unused path goes: 10 in the code
  Late,           \* a run of the worker that comes much too late
  NcOgms,         \* bound: <<n, x, y>>, OGMs of x that y passes on to n
  NcTicking,      \* bound: nodes whose worker runs
  NcMaxFaults     \* bound: lost frames, failed allocations, late runs, writes

ASSUME NcAssumption ==
  /\ IsFiniteSet(NcNodes)
  /\ NcNextHop \in [NcNodes \X NcNodes -> NcNodes]
  /\ NcNeighbours \in [NcNodes -> SUBSET NcNodes]
  /\ NcSrc \in [NcPackets -> NcNodes] /\ NcDst \in [NcPackets -> NcNodes]
  /\ NcBlocks \in [NcPackets -> Nat \ {0}]
  /\ NcTq \in [NcNodes -> 0..255]
  /\ FwdDelay \in Nat \ {0} /\ BufferTime \in Nat /\ BufferTime > FwdDelay
  /\ Late \in Nat /\ Late > PathFactor * BufferTime
  /\ PathFactor \in Nat \ {0}
  /\ NcOgms \subseteq NcNodes \X NcNodes \X NcNodes /\ NcTicking \subseteq NcNodes
  /\ NcMaxFaults \in Nat

VARIABLES
  nc,         \* node -> struct batadv_priv_nc and the coding lists
  air,        \* <<frame, receiver>> on their way
  ncDelivered, \* history: unicast packets that reached their header's address
  ncTaken,    \* history: <<node, packet>> accepted for forwarding
  ncSent,     \* history: <<node, packet>> -> times the node forwarded it
  ncUnsent,   \* packets their originator has not sent yet
  ncFaults,   \* faults so far
  ncLate      \* history: a run of the worker came late

ncVars == <<nc, air, ncDelivered, ncTaken, ncSent, ncUnsent, ncFaults, ncLate>>

NcLinks == {l \in NcNodes \X NcNodes : l[2] \in NcNeighbours[l[1]]}
Body(p) == [i \in 1..NcBlocks[p] |-> {p}]

\* Mutant: the time of the last flush is not set.
nc_mesh_init_unset ==
  [on |-> TRUE, coding |-> <<>>, decoding |-> <<>>, hears |-> {},
   timestamp_fwd_flush |-> Late + 1, timestamp_sniffed_purge |-> 0]

\* batadv_nc_mesh_init.  hears: <<x, y>> when x is in the in_coding_list of y
\* and y in the out_coding_list of x.
nc_mesh_init ==
  [on |-> TRUE, coding |-> <<>>, decoding |-> <<>>, hears |-> {},
   timestamp_fwd_flush |-> 0, timestamp_sniffed_purge |-> 0]

NcInit ==
  /\ nc = [n \in NcNodes |-> nc_mesh_init]
  /\ air = {} /\ ncDelivered = {} /\ ncTaken = {} /\ ncUnsent = NcPackets
  /\ ncSent = [k \in NcNodes \X NcPackets |-> 0]
  /\ ncFaults = 0 /\ ncLate = FALSE

-----------------------------------------------------------------------------
(* Paths: a hash maps <<prev_hop, next_hop>> to the packets on it.         *)

\* batadv_nc_hash_find: there is such a path
nc_hash_find(hash, path) == path \in DOMAIN hash

\* batadv_nc_get_path
nc_get_path(hash, path) ==
  [q \in DOMAIN hash \cup {path} |->
     IF q # path THEN hash[q]
     ELSE [last_valid |-> 0,
           packet_list |-> IF nc_hash_find(hash, q) THEN hash[q].packet_list ELSE <<>>]]

\* batadv_nc_skb_add_to_path
nc_skb_add_to_path(hash, path, packet) ==
  [nc_get_path(hash, path) EXCEPT ![path].packet_list = Append(@, packet)]

\* batadv_nc_skb_store_for_decoding
nc_skb_store_for_decoding(nd, path, body) ==
  IF ~nd.on THEN nd
  ELSE [nd EXCEPT !.decoding = nc_skb_add_to_path(@, path, [body |-> body, age |-> 0])]

\* A unicast packet u = [dest, body, decoded] and a coded one, in a frame
Unicast(n, next, u) == [type |-> "UNICAST", src |-> n, dst |-> next,
                        dest |-> u.dest, body |-> u.body]

\* The outcome of a step of node n: its state, the frames it sends and the
\* packets it forwards with them.
Outcome(nd, out, fwd) == [nd |-> nd, out |-> out, fwd |-> fwd]

\* batadv_send_skb_packet with a unicast packet
Plain(nd, n, next, u) ==
  Outcome(nc_skb_store_for_decoding(nd, <<n, next>>, u.body),
          {Unicast(n, next, u)}, {u.body})

\* batadv_nc_random_weight_tq: the product is cut to eight bits.
nc_random_weight_tq(tq, rand_val) == 255 - (((rand_val * (255 - tq)) % 256) \div 255)
WeightsOf == [n \in NcNodes |-> {nc_random_weight_tq(NcTq[n], r) : r \in 0..255}]

\* batadv_nc_memxor over the first len blocks
nc_memxor(dst, src, len) ==
  [i \in DOMAIN dst |-> IF i > len THEN dst[i]
                        ELSE (dst[i] \ src[i]) \cup (src[i] \ dst[i])]

\* batadv_nc_code_packets: one is [prev, next, u], the other too; the first
\* is the one whose route is the weaker.
nc_code_packets(n, first, second) ==
  LET long == IF Len(first.u.body) >= Len(second.u.body) THEN first.u.body
              ELSE second.u.body
      short == IF long = first.u.body THEN second.u.body ELSE first.u.body
  IN  [type |-> "CODED", src |-> n, dst |-> first.next,
       first_source |-> first.prev, first_orig_dest |-> first.u.dest,
       first_crc |-> first.u.body,
       second_dest |-> second.next, second_source |-> second.prev,
       second_orig_dest |-> second.u.dest, second_crc |-> second.u.body,
       coded_len |-> Len(short), body |-> nc_memxor(long, short, Len(short))]

\* batadv_nc_skb_coding_possible
nc_skb_coding_possible(decoded, dst, src) == decoded => dst = src

\* batadv_nc_skb_dst_search, _src_search and _path_search: <<x, y, i>> for the
\* packet at i on the path from x to y, when next hears x and y hears prev.
Partners(nd, prev, next, u) ==
  {k \in NcNodes \X NcNodes \X (1..Cardinality(NcPackets)) :
     LET x == k[1]  y == k[2]  IN
     /\ <<x, next>> \in nd.hears /\ <<prev, y>> \in nd.hears
     /\ nc_skb_coding_possible(u.decoded, y, prev)
     /\ nc_hash_find(nd.coding, <<x, y>>)
     /\ LET list == nd.coding[<<x, y>>].packet_list
            Fits(i) == nc_skb_coding_possible(list[i].u.decoded, next, x)
        IN  k[3] \in DOMAIN list /\ Fits(k[3]) /\ \A i \in 1..k[3] - 1 : ~Fits(i)}

\* batadv_nc_skb_store_before_coding, for the packet and its partner
nc_skb_store_before_coding(nd, n, one, other) ==
  nc_skb_store_for_decoding(
    nc_skb_store_for_decoding(nd, <<n, one.next>>, one.u.body),
    <<n, other.next>>, other.u.body)

\* A packet meets the partner k: they are coded, or both go out as they are.
WithPartner(nd, n, one, k, failed) ==
  LET path == <<k[1], k[2]>>
      other == [prev |-> k[1], next |-> k[2], u |-> nd.coding[path].packet_list[k[3]].u]
      taken == [nd EXCEPT !.coding[path].packet_list = SeqsExt!RemoveAt(@, k[3])]
      stored == nc_skb_store_before_coding(taken, n, one, other)
      both == {one.u.body, other.u.body}
      sent == Plain(stored, n, other.next, other.u)
      twice == Plain(sent.nd, n, one.next, one.u)
  IN  IF failed THEN {Outcome(twice.nd, sent.out \cup twice.out, both)}
      ELSE {Outcome(stored, {f}, both) : f \in
             UNION {{IF w >= v THEN nc_code_packets(n, other, one)
                     ELSE nc_code_packets(n, one, other)
                       : v \in WeightsOf[other.next]} : w \in WeightsOf[one.next]}}

\* batadv_nc_skb_forward as batadv_send_skb_to_orig calls it: the outcomes for
\* a packet from prev that goes on to next.
nc_skb_forward(nd, n, prev, next, u, failed) ==
  LET one == [prev |-> prev, next |-> next, u |-> u]
      ks == Partners(nd, prev, next, u)
      added == nc_skb_add_to_path(nd.coding, <<prev, next>>, [u |-> u, age |-> 0])
  IN  IF ~nd.on THEN IF failed THEN {} ELSE {Plain(nd, n, next, u)}
      ELSE IF ks # {} THEN UNION {WithPartner(nd, n, one, k, failed) : k \in ks}
      ELSE IF failed THEN {Plain(nd, n, next, u)}
      ELSE {Outcome([nd EXCEPT !.coding = added], {}, {})}

\* batadv_nc_find_decoding_packet: where the packet is that opens frame f
Openers(nd, n, f) ==
  LET mine == f.second_dest = n
      path == <<IF mine THEN f.first_source ELSE f.second_source, f.src>>
      id == IF mine THEN f.first_crc ELSE f.second_crc
  IN  IF ~nc_hash_find(nd.decoding, path) THEN {}
      ELSE {<<path, i>> : i \in {j \in DOMAIN nd.decoding[path].packet_list :
              nd.decoding[path].packet_list[j].body = id}}

\* Mutant: the tail of the longer packet stays.
nc_skb_decode_packet_long(n, f, stored) ==
  [dest |-> IF f.second_dest = n THEN f.second_orig_dest ELSE f.first_orig_dest,
   body |-> nc_memxor(f.body, stored, f.coded_len), decoded |-> TRUE]

\* batadv_nc_skb_decode_packet.  What is left of the longer packet is cut off.
nc_skb_decode_packet(n, f, stored) ==
  LET plain == nc_memxor(f.body, stored, f.coded_len) IN
  [dest |-> IF f.second_dest = n THEN f.second_orig_dest ELSE f.first_orig_dest,
   body |-> IF Len(stored) > f.coded_len THEN SubSeq(plain, 1, f.coded_len) ELSE plain,
   decoded |-> TRUE]

-----------------------------------------------------------------------------
(* Steps *)

NcFault(happens) ==
  /\ happens => ncFaults < NcMaxFaults
  /\ ncFaults' = IF happens THEN ncFaults + 1 ELSE ncFaults

PacketOf(body) == CHOOSE p \in NcPackets : p \in body[1]

\* Node n ends in outcome o; rest is what was on the air.
Done(n, o, rest) ==
  /\ nc' = [nc EXCEPT ![n] = o.nd]
  /\ air' = rest \cup {<<f, m>> : f \in o.out, m \in NcNeighbours[n]}
  /\ ncSent' = [k \in DOMAIN ncSent |->
       IF k[1] = n /\ \E b \in o.fwd : PacketOf(b) = k[2] THEN ncSent[k] + 1
       ELSE ncSent[k]]

\* The originator sends: batadv_send_skb_to_orig without a receiving interface
Originate(p) ==
  LET n == NcSrc[p] IN
  /\ p \in ncUnsent
  /\ ncUnsent' = ncUnsent \ {p}
  /\ Done(n, Plain(nc[n], n, NcNextHop[<<n, NcDst[p]>>],
                   [dest |-> NcDst[p], body |-> Body(p), decoded |-> FALSE]), air)
  /\ ncTaken' = ncTaken \cup {<<n, p>>}
  /\ UNCHANGED <<ncDelivered, ncFaults, ncLate>>

\* batadv_recv_unicast_packet for the node itself or for another one
Unpacked(n, nd, prev, u, rest) ==
  \/ /\ u.dest = n
     /\ ncDelivered' = ncDelivered \cup {[dest |-> u.dest, body |-> u.body]}
     /\ Done(n, Outcome(nd, {}, {}), rest)
     /\ UNCHANGED <<ncTaken, ncFaults, ncLate>>
  \/ /\ u.dest # n
     /\ \E failed \in BOOLEAN :
          /\ NcFault(failed) /\ UNCHANGED ncLate
          /\ \E o \in nc_skb_forward(nd, n, prev, NcNextHop[<<n, u.dest>>], u, failed) :
               Done(n, o, rest)
     /\ ncTaken' = ncTaken \cup {<<n, PacketOf(u.body)>>}
     /\ UNCHANGED ncDelivered

\* A unicast frame; for another node it is overheard
\* (batadv_nc_skb_store_sniffed_unicast).
RecvUnicast(n, f) ==
  /\ f.type = "UNICAST"
  /\ \/ /\ f.dst # n
        /\ Done(n, Outcome(nc_skb_store_for_decoding(nc[n], <<f.src, f.dst>>, f.body),
                           {}, {}), air \ {<<f, n>>})
        /\ UNCHANGED <<ncDelivered, ncTaken, ncFaults, ncLate>>
     \/ /\ f.dst = n
        /\ Unpacked(n, nc[n], f.src, [dest |-> f.dest, body |-> f.body, decoded |-> FALSE],
                    air \ {<<f, n>>})

\* batadv_nc_recv_coded_packet
nc_recv_coded_packet(n, f) ==
  LET found == Openers(nc[n], n, f) IN
  /\ f.type = "CODED"
  /\ \/ /\ ~nc[n].on \/ n \notin {f.dst, f.second_dest} \/ found = {}
        /\ air' = air \ {<<f, n>>}
        /\ UNCHANGED <<nc, ncDelivered, ncTaken, ncSent, ncFaults, ncLate>>
     \/ /\ nc[n].on /\ n \in {f.dst, f.second_dest} /\ found # {}
        /\ LET k == CHOOSE k \in found : \A j \in found : k[2] <= j[2]
               stored == nc[n].decoding[k[1]].packet_list[k[2]].body
               nd == [nc[n] EXCEPT !.decoding[k[1]].packet_list = SeqsExt!RemoveAt(@, k[2])]
           IN  Unpacked(n, nd, f.src, nc_skb_decode_packet(n, f, stored), air \ {<<f, n>>})

Recv(n, f) == (RecvUnicast(n, f) \/ nc_recv_coded_packet(n, f)) /\ UNCHANGED ncUnsent

Miss(n, f) ==
  /\ air' = air \ {<<f, n>>}
  /\ NcFault(TRUE)
  /\ UNCHANGED <<nc, ncDelivered, ncTaken, ncSent, ncUnsent, ncLate>>

\* batadv_nc_update_nc_node after an OGM of x that y has passed on to n, or of
\* the neighbour x = y itself
nc_update_nc_node(n, x, y) ==
  /\ n \in NcNeighbours[y] /\ (x = y \/ y \in NcNeighbours[x]) /\ x # n
  /\ nc[n].on
  /\ <<x, y>> \notin nc[n].hears
  /\ nc' = [nc EXCEPT ![n].hears = @ \cup {<<x, y>>}]
  /\ UNCHANGED <<air, ncDelivered, ncTaken, ncSent, ncUnsent, ncFaults, ncLate>>

\* batadv_has_timed_out compares an age with a timeout; no timeout is as long
\* as Late.
Later(age, d) == IF age + d < Late THEN age + d ELSE Late

Aged(hash, d) ==
  [q \in DOMAIN hash |->
     [last_valid |-> Later(hash[q].last_valid, d),
      packet_list |-> [i \in DOMAIN hash[q].packet_list |->
        [hash[q].packet_list[i] EXCEPT !.age = Later(@, d)]]]]

\* Mutant: a path is removed with what is on it.
nc_purge_paths_full(hash, timeout) ==
  [q \in {q \in DOMAIN hash : hash[q].last_valid <= timeout} |-> hash[q]]

\* batadv_nc_purge_paths
nc_purge_paths(hash, timeout) ==
  [q \in {q \in DOMAIN hash : hash[q].last_valid <= timeout
                              \/ hash[q].packet_list # <<>>} |-> hash[q]]

\* Mutant: packets wait for twice the delay.
ExpiredTwice(list, timeout) ==
  {i \in DOMAIN list : \A j \in 1..i : list[j].age > 2 * timeout}

\* batadv_nc_process_nc_paths with _fwd_flush or _sniffed_purge: the packets
\* at the head of a path that have waited longer than the timeout
Expired(list, timeout) ==
  {i \in DOMAIN list : \A j \in 1..i : list[j].age > timeout}

nc_process_nc_paths(hash, timeout) ==
  [q \in DOMAIN hash |->
     [hash[q] EXCEPT !.packet_list =
        SubSeq(@, Cardinality(Expired(@, timeout)) + 1, Len(@))]]

\* What waits too long, on any path
Overdue(nd) ==
  UNION {{<<q, i>> : i \in Expired(nd.coding[q].packet_list, FwdDelay)} : q \in DOMAIN nd.coding}

\* The orders in which they are handled: any for the paths, oldest first on
\* a path.
FlushOrders(nd) ==
  {s \in SeqsExt!SetToSeqs(Overdue(nd)) :
     \A i, j \in DOMAIN s : i < j /\ s[i][1] = s[j][1] => s[i][2] < s[j][2]}

\* batadv_nc_fwd_flush
nc_fwd_flush(nd, n, order) ==
  LET flushed == [nd EXCEPT !.coding = nc_process_nc_paths(@, FwdDelay),
                            !.timestamp_fwd_flush = 0]
      Put(o, k) == LET sent == Plain(o.nd, n, k[1][2], nd.coding[k[1]].packet_list[k[2]].u) IN
                   Outcome(sent.nd, o.out \cup sent.out, o.fwd \cup sent.fwd)
      after[i \in 0..Len(order)] ==
        IF i = 0 THEN Outcome(flushed, {}, {}) ELSE Put(after[i - 1], order[i])
  IN  after[Len(order)]

\* batadv_nc_purge_orig_hash: some neighbours have timed out.
nc_purge_orig(nd, gone) == [nd EXCEPT !.hears = @ \ gone]

\* batadv_nc_worker, d after the last run
nc_worker(n, d, gone) ==
  LET aged == [nc[n] EXCEPT !.coding = Aged(@, d), !.decoding = Aged(@, d),
                            !.timestamp_fwd_flush = Later(@, d),
                            !.timestamp_sniffed_purge = Later(@, d)]
      purged == [nc_purge_orig(aged, gone) EXCEPT
                   !.coding = nc_purge_paths(@, PathFactor * FwdDelay),
                   !.decoding = nc_purge_paths(@, PathFactor * BufferTime)]
      Sniffed(o) == [o EXCEPT !.nd.decoding = nc_process_nc_paths(@, BufferTime),
                              !.nd.timestamp_sniffed_purge = 0]
  IN  /\ NcFault(d > 1) /\ ncLate' = (ncLate \/ d > 1)
      /\ \E order \in FlushOrders(purged) :
           LET o == IF purged.timestamp_fwd_flush > FwdDelay THEN nc_fwd_flush(purged, n, order)
                    ELSE Outcome(purged, {}, {})
           IN  Done(n, IF o.nd.timestamp_sniffed_purge > BufferTime THEN Sniffed(o) ELSE o, air)
      /\ UNCHANGED <<ncDelivered, ncTaken, ncUnsent>>

\* A write to the network_coding attribute (batadv_nc_status_update)
nc_status_update(n) ==
  /\ NcFault(TRUE)
  /\ nc' = [nc EXCEPT ![n].on = ~@]
  /\ UNCHANGED <<air, ncDelivered, ncTaken, ncSent, ncUnsent, ncLate>>

NcNext ==
  \/ \E p \in NcPackets : Originate(p)
  \/ \E a \in air : Recv(a[2], a[1]) \/ Miss(a[2], a[1])
  \/ \E k \in NcOgms : nc_update_nc_node(k[1], k[2], k[3])
  \/ \E n \in NcTicking, d \in {1, Late} :
       \E gone \in SUBSET nc[n].hears : nc_worker(n, d, gone)
  \/ \E n \in NcNodes : nc_status_update(n)

NcSpec == NcInit /\ [][NcNext]_ncVars

-----------------------------------------------------------------------------
(***************************************************************************)
(* Properties                                                              *)
(***************************************************************************)
Buffered(n) == UNION {{nc[n].coding[q].packet_list[i] : i \in DOMAIN nc[n].coding[q].packet_list}
                      : q \in DOMAIN nc[n].coding}

NcTypeOK ==
  /\ \A n \in NcNodes :
       /\ nc[n].hears \subseteq NcNodes \X NcNodes
       /\ DOMAIN nc[n].coding \subseteq NcNodes \X NcNodes
       /\ nc[n].timestamp_fwd_flush \in 0..Late
  /\ ncTaken \subseteq NcNodes \X NcPackets
  /\ ncSent \in [NcNodes \X NcPackets -> Nat]

\* A packet that was coded, opened and perhaps coded again on the way is, to
\* its last block, the packet that was sent, at the node it was meant for.
NcDeliveredIsSent ==
  \A u \in ncDelivered : \E p \in NcPackets : u = [dest |-> NcDst[p], body |-> Body(p)]

\* Each packet that a node takes for forwarding is waiting there or has been
\* sent by it once, alone or coded, whether or not an allocation failed, the
\* worker came late or the feature was switched off.
NcForwardedOnce ==
  \A n \in NcNodes, p \in NcPackets :
    <<n, p>> \in ncTaken =>
      ncSent[<<n, p>>] + Cardinality({b \in Buffered(n) : PacketOf(b.u.body) = p}) = 1

\* A packet without a partner is not held longer than two delays, as long as
\* the worker runs on time.
NcNotHeldLong ==
  ~ncLate =>
    \A n \in NcNodes : \A b \in Buffered(n) : b.age <= 2 * FwdDelay

\* The buffers of a forwarder: typed, every packet sent once, none held long
\* (nc_process_nc_paths, nc_skb_forward, nc_purge_paths).
NcForwardsAll == NcTypeOK /\ NcForwardedOnce /\ NcNotHeldLong
=============================================================================

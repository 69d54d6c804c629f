---------------------------- MODULE DistributedArp ----------------------------
(***************************************************************************)
(* The distributed ARP table (distributed-arp-table.c): nodes snoop the    *)
(* ARP packets of their clients, keep what they learn in a cache, store it *)
(* at the candidates of an address (DHT_PUT) and ask them (DHT_GET) before *)
(* an ARP request is broadcast.  The broadcast is delayed for that long    *)
(* and dropped when the answer is known by then, by the node that asks and *)
(* by every node that passes the flood on (routing.c, send.c).             *)
(*                                                                         *)
(* One VLAN.  A client is its MAC address; who is a client of which node   *)
(* is the translation table's knowledge and does not change.  A broadcast  *)
(* is sent once per hop, and its TTL is large enough.                      *)
(***************************************************************************)
EXTENDS Naturals, FiniteSets

CONSTANTS
  DatNodes, DatClients, DatIps,
  DatNoMac,
  DatAt,          \* client -> its node
  DatHears,       \* node -> nodes that hear it
  DatCandidates,  \* <<node, ip>> -> nodes that store the address
  DatFirst,       \* ip -> client that has it at the start
  DatTimeout,     \* BATADV_DAT_ENTRY_TIMEOUT, in runs of the worker
  DatRequests,    \* bound: ARP requests, as numbers
  DatMaxFaults    \* bound: packets lost, moves of an address, runs of the worker

ASSUME DatAssumption ==
  /\ DatNoMac \notin DatClients
  /\ DatAt \in [DatClients -> DatNodes]
  /\ DatHears \in [DatNodes -> SUBSET DatNodes]
  /\ DatCandidates \in [DatNodes \X DatIps -> SUBSET DatNodes]
  /\ DatFirst \in [DatIps -> DatClients]
  /\ DatRequests \subseteq Nat
  /\ {DatTimeout, DatMaxFaults} \subseteq Nat

\* A flood can get from every node to every other.
ASSUME DatConnected ==
  \A reached \in SUBSET DatNodes :
    reached # {} /\ (\A n \in reached : DatHears[n] \subseteq reached) => reached = DatNodes

VARIABLES
  datCache,    \* node -> ip -> [mac, age]
  datOwner,    \* ip -> client that has it
  datHad,      \* history: <<ip, client>> that were true once
  datMsgs,     \* packets on their way: [kind, to, arp]
  datReq,      \* request -> its state at the node of the client that asks
  datRelay,    \* request -> node -> state of the flood at the other nodes
  datFaults    \* faults so far

datVars == <<datCache, datOwner, datHad, datMsgs, datReq, datRelay, datFaults>>

NoEntry == [mac |-> DatNoMac, age |-> 0]
Idle == [state |-> "none", client |-> DatNoMac, from |-> DatNoMac, ip |-> DatNoMac,
         answer |-> DatNoMac]

DatInit ==
  /\ datCache = [n \in DatNodes |-> [i \in DatIps |-> NoEntry]]
  /\ datOwner = DatFirst
  /\ datHad = {<<i, DatFirst[i]>> : i \in DatIps}
  /\ datMsgs = {}
  /\ datReq = [r \in DatRequests |-> Idle]
  /\ datRelay = [r \in DatRequests |-> [n \in DatNodes |-> "none"]]
  /\ datFaults = 0

-----------------------------------------------------------------------------
Mac(n, ip) == datCache[n][ip].mac
is_my_client(n, mac) == DatAt[mac] = n

\* Mutant: last_update of an entry is not set.
dat_entry_add_unset(cache, ip, mac) ==
  [cache EXCEPT ![ip] = [mac |-> mac, age |-> DatTimeout + 1]]

\* batadv_dat_entry_add, with batadv_dat_entry_hash_find
dat_entry_add(cache, ip, mac) == [cache EXCEPT ![ip] = [mac |-> mac, age |-> 0]]

\* Mutant of learnt_from_reply: the addresses are crossed.
learnt_from_reply_crossed(cache, arp) ==
  dat_entry_add(dat_entry_add(cache, arp.ip_src, arp.hw_dst), arp.ip_dst, arp.hw_src)

\* What both handlers of ARP replies learn
learnt_from_reply(cache, arp) ==
  dat_entry_add(dat_entry_add(cache, arp.ip_src, arp.hw_src), arp.ip_dst, arp.hw_dst)

\* The ARP packet of a client c with address from that asks for ip
Request(r, c, from, ip) ==
  [op |-> "REQUEST", ip_src |-> from, hw_src |-> c, ip_dst |-> ip, hw_dst |-> DatNoMac,
   req |-> r]
RequestOf(r) == Request(r, datReq[r].client, datReq[r].from, datReq[r].ip)

Reply(arp, mac) == [op |-> "REPLY", ip_src |-> arp.ip_dst, hw_src |-> mac,
                    ip_dst |-> arp.ip_src, hw_dst |-> arp.hw_src, req |-> arp.req]

\* batadv_dat_send_data, to the candidates of an address
dat_send_data(n, arp, ip, kind) ==
  {[kind |-> kind, to |-> d, arp |-> arp] : d \in DatCandidates[<<n, ip>>]}

\* A frame goes to the LAN of node n: the client that has the address answers,
\* and its answer comes to the node.
Lan(n, arp) ==
  LET o == datOwner[arp.ip_dst] IN
  IF arp.op = "REQUEST" /\ DatAt[o] = n
  THEN {[kind |-> "FROM_LAN", to |-> n, arp |-> Reply(arp, o)]} ELSE {}

Answered(r, mac) ==
  [datReq EXCEPT ![r].answer = IF @ = DatNoMac THEN mac ELSE @]

-----------------------------------------------------------------------------
(* Steps *)

DatFault == datFaults < DatMaxFaults /\ datFaults' = datFaults + 1

\* Client c, whose address is from, asks for ip: batadv_interface_tx with
\* batadv_dat_snoop_outgoing_arp_request.  The broadcast is queued in any case.
dat_snoop_outgoing_arp_request(r, c, from, ip) ==
  LET n == DatAt[c]
      known == Mac(n, ip)
      neighbour == DatAt[datOwner[ip]] = n    \* heard the request itself
      answer == IF neighbour THEN datOwner[ip]
                ELSE IF known # DatNoMac /\ ~is_my_client(n, known) THEN known
                ELSE DatNoMac
  IN  /\ datReq[r].state = "none" /\ \A q \in DatRequests : q < r => datReq[q].state # "none"
      /\ datOwner[from] = c /\ datOwner[ip] # c
      /\ datCache' = [datCache EXCEPT ![n] = dat_entry_add(@, from, c)]
      /\ datMsgs' = datMsgs \cup
           IF known = DatNoMac THEN dat_send_data(n, Request(r, c, from, ip), ip, "DHT_GET")
           ELSE {}
      /\ datReq' = [datReq EXCEPT ![r] = [state |-> "delayed", client |-> c, from |-> from,
                                          ip |-> ip, answer |-> answer]]
      /\ UNCHANGED <<datOwner, datHad, datRelay, datFaults>>

\* Mutant: the broadcast is dropped when the question went to a candidate.
dat_drop_broadcast_packet_sent(n, ip) ==
  Mac(n, ip) # DatNoMac \/ DatCandidates[<<n, ip>>] # {}

\* batadv_dat_drop_broadcast_packet
dat_drop_broadcast_packet(n, ip) == Mac(n, ip) # DatNoMac

\* batadv_recv_bcast_packet: neither the node's own broadcast nor a duplicate
bcast_is_new(r, n) == n # DatAt[datReq[r].client] /\ datRelay[r][n] = "none"

\* The broadcast of a request at the neighbours of n.  A copy that would come to
\* a node that has had one is ignored there whenever it comes: it is left out.
Bcast(n, r) ==
  {[kind |-> "BCAST", to |-> d, arp |-> RequestOf(r)] :
     d \in {d \in DatHears[n] : bcast_is_new(r, d)}}

\* The delay of the broadcast is over (batadv_send_outstanding_bcast_packet).
SendBroadcast(r) ==
  LET n == DatAt[datReq[r].client]
      dropped == dat_drop_broadcast_packet(n, datReq[r].ip)
  IN  /\ datReq[r].state = "delayed"
      /\ datReq' = [datReq EXCEPT ![r].state = IF dropped THEN "dropped" ELSE "sent"]
      /\ datMsgs' = datMsgs \cup IF dropped THEN {} ELSE Bcast(n, r)
      /\ UNCHANGED <<datCache, datOwner, datHad, datRelay, datFaults>>

\* The same at a node that passes the flood on.
RelayBroadcast(r, n) ==
  LET dropped == dat_drop_broadcast_packet(n, datReq[r].ip)
  IN  /\ datRelay[r][n] = "delayed"
      /\ datRelay' = [datRelay EXCEPT ![r][n] = IF dropped THEN "dropped" ELSE "sent"]
      /\ datMsgs' = datMsgs \cup IF dropped THEN {} ELSE Bcast(n, r)
      /\ UNCHANGED <<datCache, datOwner, datHad, datReq, datFaults>>

\* batadv_dat_snoop_incoming_arp_request, then the LAN.  A broadcast is passed
\* on whether the node answers it or not.
dat_snoop_incoming_arp_request(m) ==
  LET n == m.to
      known == Mac(n, m.arp.ip_dst)
  IN  /\ m.kind \in {"DHT_GET", "BCAST"}
      /\ datRelay' = IF m.kind = "BCAST" THEN [datRelay EXCEPT ![m.arp.req][n] = "delayed"]
                     ELSE datRelay
      /\ datCache' = [datCache EXCEPT ![n] = dat_entry_add(@, m.arp.ip_src, m.arp.hw_src)]
      /\ datMsgs' = (datMsgs \ {m}) \cup
           IF known = DatNoMac THEN Lan(n, m.arp)
           ELSE {[kind |-> "CACHE_REPLY", to |-> DatAt[m.arp.hw_src],
                  arp |-> Reply(m.arp, known)]}
      /\ UNCHANGED <<datOwner, datHad, datReq, datFaults>>

\* batadv_dat_snoop_outgoing_arp_reply, then the packet itself
dat_snoop_outgoing_arp_reply(m) ==
  LET n == m.to IN
  /\ m.kind = "FROM_LAN"
  /\ datCache' = [datCache EXCEPT ![n] = learnt_from_reply(@, m.arp)]
  /\ datMsgs' = (datMsgs \ {m})
       \cup dat_send_data(n, m.arp, m.arp.ip_src, "DHT_PUT")
       \cup dat_send_data(n, m.arp, m.arp.ip_dst, "DHT_PUT")
       \cup {[kind |-> "DATA", to |-> DatAt[m.arp.hw_dst], arp |-> m.arp]}
  /\ UNCHANGED <<datOwner, datHad, datReq, datRelay, datFaults>>

\* batadv_dat_snoop_incoming_arp_reply: the client gets it, when it is one of
\* the node's and the answer is not about another one.
dat_snoop_incoming_arp_reply(m) ==
  LET n == m.to
      dropped == ~is_my_client(n, m.arp.hw_dst) \/ is_my_client(n, m.arp.hw_src)
  IN  /\ m.kind \in {"DATA", "DHT_PUT", "CACHE_REPLY"}
      /\ datCache' = [datCache EXCEPT ![n] = learnt_from_reply(@, m.arp)]
      /\ datMsgs' = datMsgs \ {m}
      /\ datReq' = IF dropped THEN datReq ELSE Answered(m.arp.req, m.arp.hw_src)
      /\ UNCHANGED <<datOwner, datHad, datRelay, datFaults>>

\* batadv_dat_purge: the entries of all nodes age at the same pace.
dat_purge ==
  /\ DatFault
  /\ datCache' = [n \in DatNodes |-> [i \in DatIps |->
       LET e == datCache[n][i] IN
       IF e.mac = DatNoMac \/ e.age + 1 > DatTimeout THEN NoEntry
       ELSE [e EXCEPT !.age = @ + 1]]]
  /\ UNCHANGED <<datOwner, datHad, datMsgs, datReq, datRelay>>

\* An address goes to another client that has none.
Move(ip, c) ==
  /\ DatFault
  /\ \A i \in DatIps : datOwner[i] # c
  /\ datOwner' = [datOwner EXCEPT ![ip] = c]
  /\ datHad' = datHad \cup {<<ip, c>>}
  /\ UNCHANGED <<datCache, datMsgs, datReq, datRelay>>

DatLose(m) ==
  /\ DatFault /\ m.kind # "FROM_LAN"
  /\ datMsgs' = datMsgs \ {m}
  /\ UNCHANGED <<datCache, datOwner, datHad, datReq, datRelay>>

DatNext ==
  \/ \E r \in DatRequests :
       \/ \E c \in DatClients, from, ip \in DatIps :
            dat_snoop_outgoing_arp_request(r, c, from, ip)
       \/ SendBroadcast(r)
       \/ \E n \in DatNodes : RelayBroadcast(r, n)
  \/ \E m \in datMsgs :
       \/ dat_snoop_incoming_arp_request(m) \/ dat_snoop_outgoing_arp_reply(m)
       \/ dat_snoop_incoming_arp_reply(m) \/ DatLose(m)
  \/ \E ip \in DatIps, c \in DatClients : Move(ip, c)
  \/ dat_purge

DatSpec == DatInit /\ [][DatNext]_datVars

-----------------------------------------------------------------------------
(***************************************************************************)
(* Properties                                                              *)
(***************************************************************************)
DatTypeOK ==
  /\ datCache \in [DatNodes -> [DatIps -> [mac : DatClients \cup {DatNoMac},
                                           age : 0..DatTimeout]]]
  /\ \A r \in DatRequests :
       /\ datReq[r].state \in {"none", "delayed", "sent", "dropped"}
       /\ datRelay[r] \in [DatNodes -> {"none", "delayed", "sent", "dropped"}]

\* An answer, from the client itself or from any cache on the way, names a
\* client that has had that very address, and so does every cache.
DatAnswerWasTrue ==
  /\ \A r \in DatRequests :
       datReq[r].answer # DatNoMac => <<datReq[r].ip, datReq[r].answer>> \in datHad
  /\ \A n \in DatNodes, i \in DatIps :
       Mac(n, i) # DatNoMac => <<i, Mac(n, i)>> \in datHad

\* The nodes at which the flood of a request ended because they know the address
DroppedAt(r) ==
  {n \in DatNodes : \/ datRelay[r][n] = "dropped"
                    \/ n = DatAt[datReq[r].client] /\ datReq[r].state = "dropped"}

\* Without loss, moves and expiry a request is answered, whatever way the
\* answers, the stored copies and the delayed broadcasts overtake each other,
\* unless a node, the asking one or one on the way, dropped its broadcast: then
\* that node has the answer, for the client that asks again.
DatServed ==
  datFaults = 0 => \A r \in DatRequests :
    /\ datReq[r].state \in {"sent", "dropped"} /\ \A m \in datMsgs : m.arp.req # r
    /\ \A n \in DatNodes : datRelay[r][n] # "delayed"
    => \/ datReq[r].answer # DatNoMac
       \/ \E n \in DroppedAt(r) : Mac(n, datReq[r].ip) = datOwner[datReq[r].ip]

\* The caches and the answers of the distributed ARP table: typed, true at some
\* time, and there for every request that nothing disturbs.
DatAnswers == DatTypeOK /\ DatAnswerWasTrue /\ DatServed
=============================================================================

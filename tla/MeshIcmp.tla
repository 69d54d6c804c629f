------------------------------ MODULE MeshIcmp ------------------------------
(***************************************************************************)
(* batctl ping and traceroute over the icmp socket of batman-adv           *)
(* (batctl ping.c, traceroute.c; batman-adv icmp_socket.c, and the icmp    *)
(* handlers of routing.c).                                                 *)
(*                                                                         *)
(* Programs on one host open the socket file, write echo requests and wait *)
(* for the answers, which come back late, in another order or never (a     *)
(* packet that is lost stays on its way for ever in the model).  An        *)
(* answer finds its program through the slot number the kernel put in the  *)
(* request.  The nodes form a line with fixed routes, the host first.      *)
(*                                                                         *)
(* Every program is one session: it opens the socket once.  Opening looks  *)
(* for a free slot and takes it without a lock; an answer is looked up and *)
(* queued in two steps.  Addresses, times, statistics and the record of    *)
(* the route (only its length) are abstracted.                             *)
(***************************************************************************)
EXTENDS Integers, Sequences, FiniteSets

CONSTANTS
  IcClients,    \* sessions of ping and traceroute
  IcSlots,      \* indices of batadv_socket_client_hash
  IcNodes,      \* number of nodes on the line, node 1 is the host
  IcKind,       \* IcKind[c]: "ping", "ping_rr" or "traceroute"
  IcCount,      \* requests of a ping (-c)
  IcTtl,        \* initial ttl of a ping and of an answer (BATADV_TTL)
  IcTtlMax,     \* TTL_MAX of a traceroute
  IcTries,      \* NUM_PACKETS of a traceroute
  IcRrLen,      \* BATADV_RR_LEN
  IcQueueMax    \* packets a socket queues (100)

NoClient == "no client"
NoSlot == -1
Unset == 0  \* what a program writes where the kernel puts its slot number
Host == 1
Target == IcNodes

ASSUME IcAssumption ==
  /\ NoClient \notin IcClients
  /\ IcSlots \subseteq Nat /\ Unset \in IcSlots
  /\ IcNodes \in Nat /\ IcNodes >= 2
  /\ IcKind \in [IcClients -> {"ping", "ping_rr", "traceroute"}]
  /\ IcTtl \in Nat /\ IcTtlMax \in Nat \ {0}
  /\ IcCount \in Nat /\ IcTries \in Nat /\ IcRrLen \in Nat /\ IcQueueMax \in Nat \ {0}

VARIABLES
  icSlot,     \* batadv_socket_client_hash
  icIndex,    \* index of an open client
  icQueue,    \* queue_list of a client
  icProg,     \* the program of a client
  icNet,      \* packets on the way: [at] is the node that receives next
  icAdding,   \* answers looked up and not queued yet: [client, packet]
  icShared    \* clients whose slot number another client had too

icVars == <<icSlot, icIndex, icQueue, icProg, icNet, icAdding, icShared>>

Program(kind) ==
  [pc |-> "open", kind |-> kind, seq |-> 0, left |-> IcCount, ttl |-> 1, try |-> 0,
   out |-> 0, in |-> 0, written |-> 0, hops |-> [t \in 1 .. IcTtlMax |-> 0], reached |-> FALSE]

Ping(c) == IcKind[c] # "traceroute"
Open(c) == icProg[c].pc \notin {"open", "claim", "closed"}

----------------------------------------------------------------------------
(***************************************************************************)
(* The socket.                                                             *)
(***************************************************************************)
Free == {i \in IcSlots : icSlot[i] = NoClient}

\* batadv_socket_open: the first free slot; without one the open fails.
socket_open_find(c) ==
  /\ icProg[c].pc = "open"
  /\ IF Free = {} THEN icProg' = [icProg EXCEPT ![c].pc = "closed"] /\ UNCHANGED icIndex
     ELSE /\ icProg' = [icProg EXCEPT ![c].pc = "claim"]
          /\ icIndex' = [icIndex EXCEPT ![c] = CHOOSE i \in Free : \A j \in Free : i <= j]
  /\ UNCHANGED <<icSlot, icQueue, icNet, icAdding, icShared>>

\* ... and taking it, whoever took it meanwhile.
socket_open_claim(c) ==
  LET same == {d \in IcClients \ {c} : icIndex[d] = icIndex[c]}
  IN  /\ icProg[c].pc = "claim"
      /\ icSlot' = [icSlot EXCEPT ![icIndex[c]] = c]
      /\ icProg' = [icProg EXCEPT ![c].pc = "write"]
      /\ icShared' = icShared \cup (IF same = {} THEN {} ELSE same \cup {c})
      /\ UNCHANGED <<icIndex, icQueue, icNet, icAdding>>

\* batadv_socket_release: the queue is emptied, the slot is free.
socket_release(c) ==
  /\ icProg[c].pc = "close"
  /\ icProg' = [icProg EXCEPT ![c].pc = "closed"]
  /\ icQueue' = [icQueue EXCEPT ![c] = <<>>]
  /\ icSlot' = [icSlot EXCEPT ![icIndex[c]] = NoClient]
  /\ UNCHANGED <<icIndex, icNet, icAdding, icShared>>

\* The queue with one more packet: above the maximum the oldest one goes.
queued(q, p) == LET r == Append(q, p) IN IF Len(r) > IcQueueMax THEN Tail(r) ELSE r

\* batadv_socket_receive_packet: the client of the slot, if there is one.
socket_receive_packet(p) ==
  IF icSlot[p.uid] = NoClient THEN UNCHANGED icAdding
  ELSE icAdding' = icAdding \cup {[client |-> icSlot[p.uid], packet |-> p]}

\* batadv_socket_add_packet: nothing when the slot is empty by now.  What was
\* queued to a client that was closed and replaced is lost with its memory.
socket_add_packet(r) ==
  /\ r \in icAdding
  /\ icAdding' = icAdding \ {r}
  /\ icQueue' = IF icSlot[r.packet.uid] = NoClient \/ ~Open(r.client) THEN icQueue
                ELSE [icQueue EXCEPT ![r.client] = queued(@, r.packet)]
  /\ UNCHANGED <<icSlot, icIndex, icProg, icNet, icShared>>

----------------------------------------------------------------------------
(***************************************************************************)
(* The programs.                                                           *)
(***************************************************************************)
\* The next request of a program: a ping has one per round until the count
\* is used up, a traceroute IcTries per ttl until the target answered.
Finished(pr) ==
  IF pr.kind # "traceroute" THEN pr.left = 0
  ELSE pr.try = IcTries /\ (pr.reached \/ pr.ttl + 1 >= IcTtlMax)

AfterOne(pr) ==
  IF pr.kind # "traceroute" THEN [pr EXCEPT !.left = @ - 1, !.seq = @ + 1]
  ELSE IF pr.try = IcTries THEN [pr EXCEPT !.ttl = @ + 1, !.try = 1, !.seq = @ + 1]
  ELSE [pr EXCEPT !.try = @ + 1, !.seq = @ + 1]

Request(c, pr) ==
  [type |-> "request", orig |-> Host, dst |-> Target, uid |-> icIndex[c], seqno |-> pr.seq,
   ttl |-> IF Ping(c) THEN IcTtl ELSE pr.ttl, rr |-> IF pr.kind = "ping_rr" THEN 1 ELSE 0,
   at |-> Host + 1]

\* batadv_socket_write: without a route the request comes back as destination
\* unreachable; otherwise it goes to the next hop.  The slot number is only put in
\* a request that goes out: what comes back is looked up under the number that the
\* program wrote (and no number of a queued packet is read again).
socket_write(c, pr, routed) ==
  LET p == Request(c, pr)
  IN  IF routed THEN icNet' = icNet \cup {p} /\ UNCHANGED icQueue
      ELSE /\ icQueue' = IF icSlot[Unset] = NoClient THEN icQueue
                         ELSE [icQueue EXCEPT ![c] = queued(@, [p EXCEPT !.type = "unreachable"])]
           /\ UNCHANGED icNet

program_write(c, routed) ==
  LET pr == AfterOne(icProg[c])
  IN  /\ icProg[c].pc = "write"
      /\ IF Finished(icProg[c])
         THEN icProg' = [icProg EXCEPT ![c].pc = "close"] /\ UNCHANGED <<icQueue, icNet>>
         ELSE /\ icProg' = [icProg EXCEPT ![c] = [pr EXCEPT !.pc = "read", !.written = @ + 1]]
              /\ socket_write(c, pr, routed)
      /\ UNCHANGED <<icSlot, icIndex, icAdding, icShared>>

\* What a program does with the answer to the request it waits for.
ping_answer(pr, p) ==
  [pr EXCEPT !.in = IF p.type = "reply" THEN @ + 1 ELSE @, !.pc = "write"]

traceroute_answer(pr, p) ==
  IF p.type = "unreachable" THEN [pr EXCEPT !.pc = "close"]
  ELSE [pr EXCEPT !.pc = "write", !.reached = @ \/ p.type = "reply",
                  !.hops[pr.ttl] = IF @ = 0 THEN p.orig ELSE @]

\* A packet shorter than the request is dropped, and the request with it.
TooShort(pr, p) == pr.kind = "ping_rr" /\ p.rr = 0

\* A plausible slip: any answer is taken for the one that was waited for.
packet_read_any(pr, p) ==
  IF TooShort(pr, p) THEN [pr EXCEPT !.pc = "write"]
  ELSE IF pr.kind = "traceroute" THEN traceroute_answer(pr, p) ELSE ping_answer(pr, p)

\* After an unexpected seqno the program keeps waiting for its answer.
packet_read(pr, p) ==
  IF TooShort(pr, p) THEN [pr EXCEPT !.pc = "write"]
  ELSE IF p.seqno # pr.seq THEN pr
  ELSE IF pr.kind = "traceroute" THEN traceroute_answer(pr, p) ELSE ping_answer(pr, p)

\* select says there is a packet, and batadv_socket_read takes the first one.
\* A ping counts a packet as transmitted every time it waited.
program_read(c) ==
  LET pr == [icProg[c] EXCEPT !.out = @ + 1]
  IN  /\ icProg[c].pc = "read" /\ icQueue[c] # <<>>
      /\ icProg' = [icProg EXCEPT ![c] = packet_read(pr, Head(icQueue[c]))]
      /\ icQueue' = [icQueue EXCEPT ![c] = Tail(@)]
      /\ UNCHANGED <<icSlot, icIndex, icNet, icAdding, icShared>>

\* select timed out.
program_timeout(c) ==
  /\ icProg[c].pc = "read" /\ icQueue[c] = <<>>
  /\ icProg' = [icProg EXCEPT ![c].pc = "write", ![c].out = @ + 1]
  /\ UNCHANGED <<icSlot, icIndex, icQueue, icNet, icAdding, icShared>>

\* SIGINT or SIGTERM: a ping leaves its loop, a traceroute is killed.
program_abort(c) ==
  /\ icProg[c].pc \in {"write", "read"}
  /\ icProg' = [icProg EXCEPT ![c].pc = "close"]
  /\ UNCHANGED <<icSlot, icIndex, icQueue, icNet, icAdding, icShared>>

----------------------------------------------------------------------------
(***************************************************************************)
(* The nodes.                                                              *)
(***************************************************************************)
Towards(n, dst) == IF dst > n THEN n + 1 ELSE n - 1

\* batadv_recv_my_icmp_packet and batadv_recv_icmp_ttl_exceeded: an answer
\* goes back to the sender.
answer_of(p, type) ==
  [p EXCEPT !.type = type, !.dst = p.orig, !.orig = p.at, !.ttl = IcTtl,
            !.at = Towards(p.at, p.orig)]

\* A packet that records its route grows at every node, and is dropped where
\* it is full.
records(p) == p.rr > 0 /\ p.type \in {"request", "reply"}
recorded(p) == IF records(p) THEN [p EXCEPT !.rr = @ + 1] ELSE p

\* A plausible slip: the ttl is counted down before it is looked at.
forwarded_early(p) ==
  IF p.ttl < 3 THEN IF p.type = "request" THEN {answer_of(p, "exceeded")} ELSE {}
  ELSE {[p EXCEPT !.ttl = @ - 1, !.at = Towards(p.at, p.dst)]}

\* What a node that is not the destination sends on.
forwarded(p) ==
  IF p.ttl < 2 THEN IF p.type = "request" THEN {answer_of(p, "exceeded")} ELSE {}
  ELSE {[p EXCEPT !.ttl = @ - 1, !.at = Towards(p.at, p.dst)]}

\* batadv_recv_icmp_packet.
recv_icmp_packet(p) ==
  LET r == recorded(p)
      rest == icNet \ {p}
  IN  /\ p \in icNet
      /\ IF records(p) /\ p.rr >= IcRrLen THEN icNet' = rest /\ UNCHANGED icAdding
         ELSE IF p.at # p.dst THEN icNet' = rest \cup forwarded(r) /\ UNCHANGED icAdding
         ELSE IF p.type = "request"
         THEN icNet' = rest \cup {answer_of(r, "reply")} /\ UNCHANGED icAdding
         ELSE icNet' = rest /\ socket_receive_packet(r)
      /\ UNCHANGED <<icSlot, icIndex, icQueue, icProg, icShared>>

----------------------------------------------------------------------------
IcmpInit ==
  /\ icSlot = [i \in IcSlots |-> NoClient]
  /\ icIndex = [c \in IcClients |-> NoSlot]
  /\ icQueue = [c \in IcClients |-> <<>>]
  /\ icProg = [c \in IcClients |-> Program(IcKind[c])]
  /\ icNet = {} /\ icAdding = {} /\ icShared = {}

IcmpNext ==
  \/ \E c \in IcClients :
       \/ socket_open_find(c) \/ socket_open_claim(c) \/ socket_release(c)
       \/ program_read(c) \/ program_timeout(c) \/ program_abort(c)
       \/ \E routed \in BOOLEAN : program_write(c, routed)
  \/ \E r \in icAdding : socket_add_packet(r)
  \/ \E p \in icNet : recv_icmp_packet(p)

IcmpSpec == IcmpInit /\ [][IcmpNext]_icVars

----------------------------------------------------------------------------
(***************************************************************************)
(* Properties.                                                             *)
(***************************************************************************)
\* A traceroute (traceroute.c:141) names for every ttl the node at that
\* distance (the target, beyond it) or none, however late the answers to
\* earlier requests come, and only an answer of the target ends it early.
\* For sessions whose slot no other session had: the answers of another
\* session cannot be told apart by slot and sequence number.
IcHopsAreNodes ==
  \A c \in IcClients \ icShared :
    /\ \A t \in 1 .. IcTtlMax :
         icProg[c].hops[t] \in {0, IF Host + t < Target THEN Host + t ELSE Target}
    /\ icProg[c].reached => \E t \in 1 .. IcTtlMax : icProg[c].hops[t] = Target

\* "%u packets transmitted" (ping.c:341): the number of requests it wrote.
IcTransmitted ==
  \A c \in IcClients : Ping(c) /\ icProg[c].pc = "write" => icProg[c].out = icProg[c].written
=============================================================================

------------------------------- MODULE ForwQueue -------------------------------
(***************************************************************************)
(* The two queues of packets that a batman-adv node will send later: OGMs  *)
(* (forw_bat_list) and broadcasts (forw_bcast_list).  send.c, with the     *)
(* queueing half of bat_iv_ogm.c and the enabling and disabling of hard    *)
(* interfaces (hard-interface.c).                                          *)
(*                                                                         *)
(* Three parties share the lists: receive and transmit paths that queue    *)
(* packets, the single thread of batadv_event_workqueue that sends them,   *)
(* and the one task under rtnl that disables an interface and purges its   *)
(* packets.  The purge drops the list lock while it cancels a packet's     *)
(* work, so the worker may be anywhere inside the same packet.             *)
(***************************************************************************)
EXTENDS Integers, FiniteSets, Functions

CONSTANTS
  NPkts,      \* bound: batadv_forw_packet objects that exist at once
  Ifaces,     \* hard interfaces
  None,
  OgmSlots,   \* BATADV_BATMAN_QUEUE_LEN
  BcastSlots, \* BATADV_BCAST_QUEUE_LEN
  MaxBcasts,  \* BATADV_NUM_BCASTS_MAX
  MaxAggr,    \* OGMs that fit behind the first of a packet
  MaxEnables, \* bound: how often interfaces are enabled
  AllocFails  \* TRUE: kmalloc(GFP_ATOMIC) for an own OGM may fail

ASSUME ForwAssumption ==
  /\ NPkts \in Nat /\ None \notin Ifaces
  /\ OgmSlots \in Nat /\ BcastSlots \in Nat /\ MaxBcasts \in Nat \ {0}
  /\ MaxAggr \in Nat /\ MaxEnables \in Nat /\ AllocFails \in BOOLEAN

Pkts == 1..NPkts

VARIABLES
  pkt,      \* object -> None (free memory) or the packet
  left,     \* bcast_queue_left and batman_queue_left
  status,   \* interface -> "off", "on", "leaving" (NOT_IN_USE, still attached)
  primary,  \* bat_priv->primary_if
  active,   \* mesh_state is not BATADV_MESH_DEACTIVATING
  worker,   \* None, or the packet whose work runs and how far it got
  purger,   \* None, or the purge in progress
  enables

vars == <<pkt, left, status, primary, active, worker, purger, enables>>

Kinds == {"ogm", "bcast"}
Packet == [kind : Kinds, own : BOOLEAN, in : Ifaces, out : Ifaces \cup {None},
           num : Nat, listed : BOOLEAN, armed : BOOLEAN]
WorkerStates == [p : Pkts, at : {"start", "send", "next", "free"}]
PurgerStates == [iface : Ifaces \cup {None}, list : Kinds, todo : SUBSET Pkts,
                 at : Pkts \cup {None}]

ASSUME NoneAssumption == None \notin Pkts \cup Packet \cup WorkerStates \cup PurgerStates

Used == {p \in Pkts : pkt[p] # None}
\* kmalloc: which free object it takes makes no difference.
Fresh(before) == {p \in Pkts : before[p] = None}
Alloc == {p \in Fresh(pkt) : \A q \in Fresh(pkt) : p <= q}
Of(kind) == {p \in Used : pkt[p].kind = kind}
Running(p) == worker # None /\ worker.p = p
\* cancel_delayed_work_sync waits for the running work of p, and meanwhile
\* queue_delayed_work on p does nothing.
Canceling(p) == purger # None /\ purger.at = p

\* An object comes from kmalloc with the timer not yet started.
NewPacket(kind, own, in, out) ==
  [kind |-> kind, own |-> own, in |-> in, out |-> out, num |-> 0,
   listed |-> TRUE, armed |-> TRUE]

Init ==
  /\ pkt = [p \in Pkts |-> None]
  /\ left = [k \in Kinds |-> IF k = "ogm" THEN OgmSlots ELSE BcastSlots]
  /\ status = [i \in Ifaces |-> "off"] /\ primary = None /\ active = TRUE
  /\ worker = None /\ purger = None /\ enables = 0

-----------------------------------------------------------------------------
(* Queueing *)

Forgotten(p) ==
  IF purger = None THEN None ELSE [purger EXCEPT !.todo = @ \ {p}]

\* Mutant of AddBcast: the counter is decremented without the test.
AddBcastUnlimited(p) ==
  /\ active /\ primary # None /\ p \in Alloc
  /\ \E own \in BOOLEAN :
       pkt' = [pkt EXCEPT ![p] = NewPacket("bcast", own, primary, None)]
  /\ left' = [left EXCEPT !["bcast"] = @ - 1]
  /\ UNCHANGED <<status, primary, active, worker, purger, enables>>

\* batadv_add_bcast_packet_to_list.  Nothing assigns forw_packet->own.
AddBcast(p) ==
  /\ active /\ primary # None /\ left["bcast"] > 0 /\ p \in Alloc
  /\ \E own \in BOOLEAN :
       pkt' = [pkt EXCEPT ![p] = NewPacket("bcast", own, primary, None)]
  /\ left' = [left EXCEPT !["bcast"] = @ - 1]
  /\ UNCHANGED <<status, primary, active, worker, purger, enables>>

\* Which queued packet an OGM of a neighbour may travel with.
CanAggregate(p, in, out) ==
  /\ pkt[p].kind = "ogm" /\ pkt[p].listed /\ pkt[p].num < MaxAggr
  /\ pkt[p].out = out /\ primary # None
  /\ ~pkt[p].own \/ pkt[p].in = primary \/ pkt[p].in = in

\* batadv_iv_ogm_queue_add for the OGM of a neighbour that came in on one
\* interface and leaves on another one.
ForwardOgm(in, out) ==
  /\ active /\ status[in] = "on" /\ status[out] = "on"
  /\ \/ \E p \in Used :
          /\ CanAggregate(p, in, out)
          /\ pkt' = [pkt EXCEPT ![p].num = @ + 1]
          /\ UNCHANGED left
     \/ /\ left["ogm"] > 0
        /\ \E p \in Alloc :
             pkt' = [pkt EXCEPT ![p] = NewPacket("ogm", FALSE, in, out)]
        /\ left' = [left EXCEPT !["ogm"] = @ - 1]
  /\ UNCHANGED <<status, primary, active, worker, purger, enables>>

\* Mutant of OwnOuts: the primary interface leaves itself out.
OwnOutsOthers(i, prim, attached) ==
  IF i = prim THEN attached \ {i} ELSE {i}

\* The interfaces that batadv_iv_ogm_schedule queues a copy of the OGM for.
OwnOuts(i, prim, attached) == IF i = prim THEN attached ELSE {i}

\* The objects that the copies for outs may take: the first free ones.
Placements(before, outs) ==
  {f \in Injection(outs, Fresh(before)) :
     \A x \in outs, p \in Fresh(before) : p < f[x] => \E y \in outs : p = f[y]}

\* The queue with an own OGM of interface i for every o, in the object new[o].
WithCopies(before, i, new) ==
  [p \in Pkts |-> IF \E o \in DOMAIN new : new[o] = p
                  THEN NewPacket("ogm", TRUE, i, CHOOSE o \in DOMAIN new : new[o] = p)
                  ELSE before[p]]

\* Queues one copy per interface of outs (or of some of them, if memory is
\* short).  Own packets take no slot.
Scheduled(before, i, outs) ==
  UNION {{WithCopies(before, i, new) : new \in Placements(before, got)} :
           got \in IF AllocFails THEN SUBSET outs ELSE {outs}}

-----------------------------------------------------------------------------
(* The worker *)

\* The copies of an own OGM have one send time: those of a period have been
\* sent when the original of the next one is due.
Due(p) ==
  pkt[p].own /\ pkt[p].in = pkt[p].out =>
    \A q, r \in {x \in Of("ogm") : /\ pkt[x].own /\ pkt[x].armed
                                   /\ pkt[x].in = pkt[p].in /\ pkt[x].out # pkt[p].in} :
      pkt[q].out = pkt[r].out => q = r

\* The timer of p expires and its work starts.  The work of a packet whose
\* interface has been disabled (PurgedIsGone is about it) finds the bat_priv
\* through soft_iface, a null pointer by then: the node crashes, and a behaviour
\* of the model goes on without that step, or until the interface is enabled again.
Fire(p) ==
  /\ worker = None /\ p \in Used /\ pkt[p].armed /\ status[pkt[p].in] # "off"
  /\ Due(p)
  /\ pkt' = [pkt EXCEPT ![p].armed = FALSE]
  /\ worker' = [p |-> p, at |-> "start"]
  /\ UNCHANGED <<left, status, primary, active, purger, enables>>

\* Mutant of Unlink: a purge keeps the list lock while it waits.
UnlinkLocked ==
  /\ worker # None /\ worker.at = "start" /\ ~(purger # None /\ purger.at # None)
  /\ pkt' = [pkt EXCEPT ![worker.p].listed = FALSE]
  /\ worker' = [worker EXCEPT !.at = "send"]
  /\ UNCHANGED <<left, status, primary, active, purger, enables>>

\* hlist_del under the list lock
Unlink ==
  /\ worker # None /\ worker.at = "start"
  /\ pkt' = [pkt EXCEPT ![worker.p].listed = FALSE]
  /\ worker' = [worker EXCEPT !.at = "send"]
  /\ UNCHANGED <<left, status, primary, active, purger, enables>>

\* The rest of batadv_send_outstanding_bcast_packet.  DAT may have answered
\* the ARP request that is being broadcast (drop).
SendBcast ==
  /\ worker # None /\ worker.at = "send" /\ pkt[worker.p].kind = "bcast"
  /\ LET p == worker.p
         free == /\ pkt' = [pkt EXCEPT ![p] = None]
                 /\ left' = [left EXCEPT !["bcast"] = @ + 1]
                 /\ purger' = Forgotten(p)
     IN \/ free
        \/ /\ active
           /\ IF pkt[p].num + 1 < MaxBcasts
              THEN /\ pkt' = [pkt EXCEPT ![p].num = @ + 1, ![p].listed = TRUE,
                                         ![p].armed = ~Canceling(p)]
                   /\ UNCHANGED <<left, purger>>
              ELSE free
  /\ worker' = None
  /\ UNCHANGED <<status, primary, active, enables>>

\* The sent packet is the original of an own OGM, and its interface is used:
\* the test of batadv_schedule_bat_ogm is passed.
Reschedules(p) ==
  active /\ pkt[p].own /\ pkt[p].in = pkt[p].out /\ status[pkt[p].in] = "on"

\* batadv_send_outstanding_bat_ogm_packet up to that test
SendOgm ==
  /\ worker # None /\ worker.at = "send" /\ pkt[worker.p].kind = "ogm"
  /\ worker' = [worker EXCEPT !.at = IF Reschedules(worker.p) THEN "next"
                                     ELSE "free"]
  /\ UNCHANGED <<pkt, left, status, primary, active, purger, enables>>

\* ... batadv_iv_ogm_schedule
QueueNext ==
  /\ worker # None /\ worker.at = "next"
  /\ pkt' \in Scheduled(pkt, pkt[worker.p].in,
                        OwnOuts(pkt[worker.p].in, primary,
                                {i \in Ifaces : status[i] # "off"}))
  /\ worker' = [worker EXCEPT !.at = "free"]
  /\ UNCHANGED <<left, status, primary, active, purger, enables>>

\* Mutant of Returned: the slot is given back for own packets too.
ReturnedAlways(p) == [left EXCEPT ![pkt[p].kind] = @ + 1]

\* "don't count own packet"
Returned(p) ==
  IF pkt[p].own THEN left ELSE [left EXCEPT ![pkt[p].kind] = @ + 1]

\* ... and the packet is freed.
FreeOgm ==
  /\ worker # None /\ worker.at = "free"
  /\ left' = Returned(worker.p)
  /\ pkt' = [pkt EXCEPT ![worker.p] = None]
  /\ purger' = Forgotten(worker.p)
  /\ worker' = None
  /\ UNCHANGED <<status, primary, active, enables>>

-----------------------------------------------------------------------------
(* Interfaces, under rtnl *)

\* batadv_hardif_enable_interface: the first one becomes the primary one.
Enable(i) ==
  /\ active /\ purger = None /\ status[i] = "off" /\ enables < MaxEnables
  /\ status' = [status EXCEPT ![i] = "on"]
  /\ primary' = IF primary = None THEN i ELSE primary
  /\ pkt' \in Scheduled(pkt, i, OwnOuts(i, primary',
                                        {j \in Ifaces : status'[j] # "off"}))
  /\ enables' = enables + 1
  /\ UNCHANGED <<left, active, worker, purger>>

\* The packets a pass over one list is to visit.
Visits(iface, kind) ==
  {p \in Of(kind) : pkt[p].listed /\ (iface = None \/ iface \in {pkt[p].in, pkt[p].out})}

StartPurge(iface) ==
  purger' = [iface |-> iface, list |-> "bcast", todo |-> Visits(iface, "bcast"),
             at |-> None]

\* batadv_hardif_disable_interface up to batadv_purge_outstanding_packets
Disable(i) ==
  /\ purger = None /\ status[i] = "on"
  /\ status' = [status EXCEPT ![i] = "leaving"]
  /\ primary' \in IF primary # i THEN {primary}
                  ELSE IF \E j \in Ifaces \ {i} : status[j] = "on"
                       THEN {j \in Ifaces \ {i} : status[j] = "on"} ELSE {None}
  /\ StartPurge(i)
  /\ UNCHANGED <<pkt, left, active, worker, enables>>

\* batadv_mesh_free, after the last interface has left the mesh
MeshFree ==
  /\ purger = None /\ active /\ enables = MaxEnables
  /\ \A i \in Ifaces : status[i] = "off"
  /\ active' = FALSE
  /\ StartPurge(None)
  /\ UNCHANGED <<pkt, left, status, primary, worker, enables>>

-----------------------------------------------------------------------------
(* batadv_purge_outstanding_packets *)

\* Mutant of PurgePending: the packet stays in the list.
PurgePendingKept(p) ==
  /\ purger # None /\ purger.at = None /\ p \in purger.todo
  /\ pkt[p].listed /\ pkt[p].armed
  /\ pkt' = [pkt EXCEPT ![p].armed = FALSE]
  /\ purger' = Forgotten(p)
  /\ UNCHANGED <<left, status, primary, active, worker, enables>>

\* The work of p was pending: it is cancelled, and p deleted and freed.
PurgePending(p) ==
  /\ purger # None /\ purger.at = None /\ p \in purger.todo
  /\ pkt[p].listed /\ pkt[p].armed
  /\ left' = Returned(p)
  /\ pkt' = [pkt EXCEPT ![p] = None]
  /\ purger' = Forgotten(p)
  /\ UNCHANGED <<status, primary, active, worker, enables>>

\* The work of p runs, or nothing would ever run it: there is nothing to
\* cancel, and the purge waits for a running work.
PurgeWait(p) ==
  /\ purger # None /\ purger.at = None /\ p \in purger.todo
  /\ pkt[p].listed /\ ~pkt[p].armed
  /\ purger' = [purger EXCEPT !.at = p]
  /\ UNCHANGED <<pkt, left, status, primary, active, worker, enables>>

\* The work is done, or has freed p.  pending is false: nothing is deleted.
PurgeWaited ==
  /\ purger # None /\ purger.at # None /\ ~Running(purger.at)
  /\ purger' = [Forgotten(purger.at) EXCEPT !.at = None]
  /\ UNCHANGED <<pkt, left, status, primary, active, worker, enables>>

\* p left the list, or moved to its head, before the purge came to it.
PurgeMiss(p) ==
  /\ purger # None /\ purger.at = None /\ p \in purger.todo
  /\ ~pkt[p].listed
  /\ purger' = Forgotten(p)
  /\ UNCHANGED <<pkt, left, status, primary, active, worker, enables>>

\* The second list; and the end of the purge and of disable_interface, where
\* the interface loses its soft interface.
PurgeNextList ==
  /\ purger # None /\ purger.at = None /\ purger.todo = {} /\ purger.list = "bcast"
  /\ purger' = [purger EXCEPT !.list = "ogm", !.todo = Visits(purger.iface, "ogm")]
  /\ UNCHANGED <<pkt, left, status, primary, active, worker, enables>>
PurgeEnd ==
  /\ purger # None /\ purger.at = None /\ purger.todo = {} /\ purger.list = "ogm"
  /\ status' = [i \in Ifaces |-> IF i = purger.iface THEN "off" ELSE status[i]]
  /\ purger' = None
  /\ UNCHANGED <<pkt, left, primary, active, worker, enables>>

-----------------------------------------------------------------------------
Purge ==
  \/ \E p \in Pkts : PurgePending(p) \/ PurgeWait(p) \/ PurgeMiss(p)
  \/ PurgeWaited \/ PurgeNextList \/ PurgeEnd
Work ==
  (\E p \in Pkts : Fire(p)) \/ Unlink \/ SendBcast \/ SendOgm \/ QueueNext \/ FreeOgm

Next ==
  \/ \E p \in Pkts : AddBcast(p)
  \/ \E i, o \in Ifaces : ForwardOgm(i, o)
  \/ \E i \in Ifaces : Enable(i) \/ Disable(i)
  \/ MeshFree \/ Purge \/ Work

Spec == Init /\ [][Next]_vars
\* A purge and the worker never stop half way.
FairSpec == Spec /\ WF_vars(Purge) /\ WF_vars(Unlink \/ SendBcast \/ SendOgm
                                              \/ QueueNext \/ FreeOgm)

-----------------------------------------------------------------------------
(* Properties *)

TypeOK ==
  /\ pkt \in [Pkts -> Packet \cup {None}]
  /\ left \in [Kinds -> Nat]
  /\ status \in [Ifaces -> {"off", "on", "leaving"}]
  /\ primary \in Ifaces \cup {None} /\ active \in BOOLEAN
  /\ worker # None => worker \in WorkerStates /\ worker.p \in Used
  /\ purger # None => purger \in PurgerStates /\ purger.todo \subseteq Used
  /\ enables \in 0..MaxEnables

\* @batman_queue_left (types.h): OGM slots that are left and OGMs of
\* neighbours that are held add up, whatever the worker and a purge do to the
\* same packet; so the queue neither overflows nor shrinks for good.
OgmSlotsAccounted ==
  left["ogm"] + Cardinality({p \in Of("ogm") : ~pkt[p].own}) = OgmSlots

\* @bcast_queue_left (types.h): the same for broadcasts.
BcastSlotsAccounted ==
  left["bcast"] + Cardinality(Of("bcast")) = BcastSlots

\* Every OGM packet that is held will be dealt with: its timer runs, or its
\* work does.  A packet without either would keep its memory, its slot and
\* its interfaces for ever.
NoOgmForgotten == \A p \in Of("ogm") : pkt[p].armed \/ Running(p)

\* "we have to have at least one packet in the queue": an interface in use
\* has its own OGM queued or in the worker's hands, or it is never heard of
\* again.
OwnOgmKept ==
  \A i \in Ifaces : status[i] = "on" =>
    \E p \in Of("ogm") : /\ pkt[p].own /\ pkt[p].in = i /\ pkt[p].out = i
                         /\ pkt[p].armed \/ (Running(p) /\ worker.at # "free")

\* "delete all references to this hard_iface": no packet that is still to be
\* sent refers to an interface that has been disabled.
PurgedIsGone ==
  \A p \in Used : pkt[p].armed => \A i \in {pkt[p].in, pkt[p].out} \ {None} : status[i] # "off"

\* A purge comes to its end, although it waits for the worker with rtnl held.
PurgeEnds == purger # None ~> purger = None

\* Every variable keeps its type; the slots of the OGM queue are given back once
\* for every packet that leaves it, wherever worker and purge meet, and an
\* enabled interface keeps its own OGM scheduled.
ForwConsistent == TypeOK /\ OgmSlotsAccounted /\ OwnOgmKept
=============================================================================

------------------------------- MODULE Multicast -------------------------------
(***************************************************************************)
(* Multicast optimisation (multicast.c) of one node.  A node announces the *)
(* groups it listens to in the translation table, and in its OGMs whether  *)
(* it does so at all and which traffic it wants all of; a sender counts    *)
(* who wants a packet and floods it, sends it to the only node that does,  *)
(* or drops it.                                                            *)
(*                                                                         *)
(* An originator here is an orig_node: it is removed from the originator   *)
(* table at once and from the counters only when its memory is freed (an   *)
(* RCU callback), while another one with the same address may be there.    *)
(***************************************************************************)
EXTENDS Naturals, FiniteSets

CONSTANTS
  McOrigs,    \* orig_nodes
  McGroups    \* multicast addresses

McFlags == {"unsnoopables", "ipv4", "ipv6"}

\* Packets to a group: the protocol, whether the group is link local, and whether
\* it is the IPv6 group of all nodes.
McPackets == [proto : {"ipv4", "ipv6", "other"}, local : BOOLEAN, all : BOOLEAN, group : McGroups]

ASSUME McAssumption == IsFiniteSet(McOrigs) /\ IsFiniteSet(McGroups)

VARIABLES
  mcOrig,      \* orig -> [state, cap, init, flags, tt (groups in the global table)]
  mcDisabled,  \* num_disabled
  mcNum,       \* flag -> num_want_all_...
  mcWant,      \* flag -> want_all_..._list
  mcMode,      \* multicast_mode
  mcDev,       \* groups of the mesh interface
  mcBridge,    \* the mesh interface is in a bridge
  mcEnabled,   \* the own container is in the OGMs
  mcMla,       \* mla_list
  mcLocalTt    \* groups in the own local table

mcVars == <<mcOrig, mcDisabled, mcNum, mcWant, mcMode, mcDev, mcBridge, mcEnabled, mcMla, mcLocalTt>>
mcRemote == <<mcOrig, mcDisabled, mcNum, mcWant>>
mcLocal == <<mcMode, mcDev, mcBridge, mcEnabled, mcMla, mcLocalTt>>

McUnknown == [state |-> "none", cap |-> FALSE, init |-> FALSE, flags |-> {}, tt |-> {}]

McInit ==
  /\ mcOrig = [o \in McOrigs |-> McUnknown]
  /\ mcDisabled = 0
  /\ mcNum = [f \in McFlags |-> 0]
  /\ mcWant = [f \in McFlags |-> {}]
  /\ mcMode = TRUE /\ mcDev = {} /\ mcBridge = FALSE /\ mcEnabled = FALSE
  /\ mcMla = {} /\ mcLocalTt = {}

-----------------------------------------------------------------------------
(* The others *)

\* mcast_want_..._update, for the three flags: what the flags change from and to.
want_update(o, flags) ==
  /\ mcNum' = [f \in McFlags |->
       IF f \in flags \ mcOrig[o].flags THEN mcNum[f] + 1
       ELSE IF f \in mcOrig[o].flags \ flags THEN mcNum[f] - 1 ELSE mcNum[f]]
  /\ mcWant' = [f \in McFlags |-> IF f \in flags THEN mcWant[f] \cup {o} ELSE mcWant[f] \ {o}]

\* Mutant: an originator seen for the first time is taken for one that was
\* counted before.
disabled_after_counts_first(orig, enabled) ==
  IF enabled /\ ~orig.cap THEN (IF mcDisabled = 0 THEN 0 ELSE mcDisabled - 1)
  ELSE IF ~enabled /\ (orig.cap \/ ~orig.init) THEN mcDisabled + 1 ELSE mcDisabled

disabled_after(orig, enabled) ==
  IF enabled /\ ~orig.cap /\ orig.init THEN mcDisabled - 1
  ELSE IF ~enabled /\ (orig.cap \/ ~orig.init) THEN mcDisabled + 1 ELSE mcDisabled

\* mcast_tvlv_ogm_handler_v1: an OGM of o, with the container or without, and
\* with what the translation table gets to know by it.
McOgm(o, enabled, flags, groups) ==
  LET new == IF enabled THEN flags ELSE {}
  IN
  /\ mcOrig[o].state \in {"none", "live"}
  /\ mcDisabled' = disabled_after(mcOrig[o], enabled)
  /\ want_update(o, new)
  /\ mcOrig' = [mcOrig EXCEPT ![o] =
       [state |-> "live", cap |-> enabled, init |-> TRUE, flags |-> new, tt |-> groups]]
  /\ UNCHANGED mcLocal

\* The originator timed out: its entries of the global table go at once.
McPurged(o) ==
  /\ mcOrig[o].state = "live"
  /\ mcOrig' = [mcOrig EXCEPT ![o].state = "dying", ![o].tt = {}]
  /\ UNCHANGED <<mcDisabled, mcNum, mcWant, mcLocal>>

\* Mutant: an originator that could multicast is not looked at.
counted_disabled_if_capable(orig) == orig.cap /\ orig.init

\* Was the originator counted in num_disabled?
counted_disabled(orig) == ~orig.cap /\ orig.init

\* mcast_purge_orig, in the callback that frees the orig_node.
mcast_purge_orig(o) ==
  /\ mcOrig[o].state = "dying"
  /\ mcDisabled' = IF counted_disabled(mcOrig[o]) THEN mcDisabled - 1 ELSE mcDisabled
  /\ want_update(o, {})
  /\ mcOrig' = [mcOrig EXCEPT ![o] = McUnknown]
  /\ UNCHANGED mcLocal

-----------------------------------------------------------------------------
(* Sending *)

\* mcast_forw_mode_check: may the packet be sent to less than everybody?
\* Packets that leave the link have to reach the routers.
forw_mode_check(p) ==
  /\ mcMode /\ mcDisabled = 0
  /\ p.proto \in {"ipv4", "ipv6"} /\ p.local

is_unsnoopable(p) == p.proto = "ipv4" \/ p.all

Live(origs) == {o \in origs : mcOrig[o].state = "live"}
InTt(p) == {o \in McOrigs : p.group \in mcOrig[o].tt}

\* Mutant: who wants the unsnoopable groups is not asked.
unsnoop_count_none(p) == 0

unsnoop_count(p) == IF is_unsnoopable(p) THEN mcNum["unsnoopables"] ELSE 0

\* mcast_forw_mode: who gets p, as "all" or at most one.
mcast_forw_mode(p) ==
  LET tt == Cardinality(InTt(p))
      ip == mcNum[p.proto]
      single == IF tt > 0 THEN InTt(p)
                ELSE IF ip > 0 THEN Live(mcWant[p.proto])
                ELSE Live(mcWant["unsnoopables"])
      total == tt + ip + unsnoop_count(p)
  IN
  IF ~forw_mode_check(p) \/ total > 1 THEN McOrigs
  ELSE IF total = 1 THEN single ELSE {}

-----------------------------------------------------------------------------
(* The own listeners *)

\* mcast_mla_update, before an own OGM is sent: got is what mla_softif_get
\* copied, complete or not (out of memory); added what tt_local_add took.
mcast_mla_update(oom, added) ==
  LET list == IF mcBridge THEN {} ELSE mcDev
      kept == mcMla \cap list
  IN
  /\ oom => ~mcBridge
  /\ mcEnabled' = ~mcBridge
  /\ IF oom
     THEN UNCHANGED <<mcMla, mcLocalTt>>
     ELSE /\ added \subseteq list \ kept
          /\ mcMla' = kept \cup added
          /\ mcLocalTt' = (mcLocalTt \ (mcMla \ list)) \cup added
  /\ UNCHANGED <<mcRemote, mcMode, mcDev, mcBridge>>

\* The kernel's lists and user space.
McSetting(mode, dev, bridge) ==
  /\ <<mode, dev, bridge>> # <<mcMode, mcDev, mcBridge>>
  /\ mcMode' = mode /\ mcDev' = dev /\ mcBridge' = bridge
  /\ UNCHANGED <<mcRemote, mcEnabled, mcMla, mcLocalTt>>

\* mcast_free: the handler and the container go, and the groups.
mcast_free ==
  /\ mcEnabled' = FALSE
  /\ mcLocalTt' = mcLocalTt \ mcMla
  /\ mcMla' = {}
  /\ UNCHANGED <<mcRemote, mcMode, mcDev, mcBridge>>

McNext ==
  \/ \E o \in McOrigs, e \in BOOLEAN, f \in SUBSET McFlags, g \in SUBSET McGroups : McOgm(o, e, f, g)
  \/ \E o \in McOrigs : McPurged(o) \/ mcast_purge_orig(o)
  \/ \E oom \in BOOLEAN, a \in SUBSET McGroups : mcast_mla_update(oom, a)
  \/ \E m, b \in BOOLEAN, d \in SUBSET McGroups : McSetting(m, d, b)
  \/ mcast_free

McSpec == McInit /\ [][McNext]_mcVars

-----------------------------------------------------------------------------
(* Properties *)

\* An originator p has to reach, as far as its last OGM tells.
WantsPacket(o, p) ==
  \/ p.group \in mcOrig[o].tt
  \/ p.proto \in mcOrig[o].flags
  \/ is_unsnoopable(p) /\ "unsnoopables" \in mcOrig[o].flags
  \/ ~mcOrig[o].cap

\* A packet is never kept from a node that wants it, after any sequence of OGMs
\* with and without the container, timeouts and originators met again before the
\* old one is freed; and the counters have not run away (nobody left means 0).
McReachesListeners ==
  /\ \A o \in {x \in McOrigs : mcOrig[x].state = "live"} : \A p \in McPackets :
       mcMode /\ WantsPacket(o, p) => o \in mcast_forw_mode(p)
  /\ (\A o \in McOrigs : mcOrig[o].state = "none") =>
       mcDisabled = 0 /\ \A f \in McFlags : mcNum[f] = 0 /\ mcWant[f] = {}
=============================================================================

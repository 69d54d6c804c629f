---------------------------- MODULE ServicesProofs ----------------------------
(***************************************************************************)
(* Theorems about the services of batman-adv: multicast, for any finite    *)
(* number of originators and groups; the distributed ARP table, for any    *)
(* nodes, addresses, candidates, requests and faults; the gateways, for    *)
(* any number of them, any link qualities, offers and settings; bridge     *)
(* loop avoidance, for any finite numbers of gateways and clients and any  *)
(* claim frames lost; and the choice of DAT candidates on the hash ring.   *)
(***************************************************************************)
EXTENDS Multicast, DistributedArp, DatRing, Gateways, BridgeLoopAvoidance,
        FiniteSetTheorems, WellFoundedInduction, TLAPS

-----------------------------------------------------------------------------
(***************************************************************************)
(* Multicast                                                               *)
(***************************************************************************)
\* Every variable the sender reads keeps its type.
McTypeOK ==
  /\ mcOrig \in [McOrigs -> [state : {"none", "live", "dying"}, cap : BOOLEAN,
                             init : BOOLEAN, flags : SUBSET McFlags, tt : SUBSET McGroups]]
  /\ mcNum \in [McFlags -> Nat]
  /\ mcWant \in [McFlags -> SUBSET McOrigs]
  /\ mcMode \in BOOLEAN

\* The originators that are in num_disabled.
Counted == {o \in McOrigs : counted_disabled(mcOrig[o])}

\* What nobody recomputes in the code: a counter is moved by one with each OGM
\* and each orig_node that is freed, and has to be the size of what it counts.
McCounts ==
  /\ mcDisabled = Cardinality(Counted)
  /\ \A f \in McFlags :
       /\ mcWant[f] = {o \in McOrigs : f \in mcOrig[o].flags}
       /\ mcNum[f] = Cardinality(mcWant[f])

\* What an orig_node can be before its first OGM, and after it.
McStates ==
  \A o \in McOrigs :
    /\ mcOrig[o].state = "none" => mcOrig[o] = McUnknown
    /\ mcOrig[o].state = "live" => mcOrig[o].init

McInv == McTypeOK /\ McCounts /\ McStates

-----------------------------------------------------------------------------
\* Counting a subset of the originators.
LEMMA SubsetCounted ==
  ASSUME NEW S \in SUBSET McOrigs
  PROVE  IsFiniteSet(S) /\ Cardinality(S) \in Nat /\ (Cardinality(S) = 0 <=> S = {})
BY McAssumption, FS_Subset, FS_CardinalityType, FS_EmptySet

\* One more, or one less.
LEMMA CountMoves ==
  ASSUME NEW S \in SUBSET McOrigs, NEW x \in McOrigs
  PROVE  /\ x \notin S => Cardinality(S \cup {x}) = Cardinality(S) + 1
         /\ x \in S => /\ Cardinality(S \ {x}) = Cardinality(S) - 1
                       /\ Cardinality(S) > 0
<1>1. IsFiniteSet(S)
  BY SubsetCounted
<1>2. x \notin S => Cardinality(S \cup {x}) = Cardinality(S) + 1
  BY <1>1, FS_AddElement
<1>3. ASSUME x \in S
      PROVE  Cardinality(S \ {x}) = Cardinality(S) - 1 /\ Cardinality(S) > 0
  <2>1. Cardinality(S \ {x}) = Cardinality(S) - 1
    BY <1>1, <1>3, FS_RemoveElement
  <2>2. Cardinality(S) \in Nat /\ Cardinality(S) # 0
    BY <1>3, SubsetCounted
  <2> QED BY <2>1, <2>2
<1> QED BY <1>2, <1>3

\* mcast_want_..._update keeps each list the nodes with the flag, and each
\* counter its size, whatever the flags were and are.
LEMMA WantUpdateCounts ==
  ASSUME McTypeOK, McCounts, NEW o \in McOrigs, NEW flags \in SUBSET McFlags,
         want_update(o, flags),
         mcOrig' \in [McOrigs -> [state : {"none", "live", "dying"}, cap : BOOLEAN,
                                  init : BOOLEAN, flags : SUBSET McFlags, tt : SUBSET McGroups]],
         mcOrig'[o].flags = flags,
         \A x \in McOrigs \ {o} : mcOrig'[x].flags = mcOrig[x].flags
  PROVE  /\ mcNum' \in [McFlags -> Nat]
         /\ mcWant' \in [McFlags -> SUBSET McOrigs]
         /\ \A f \in McFlags :
              /\ mcWant'[f] = {x \in McOrigs : f \in mcOrig'[x].flags}
              /\ mcNum'[f] = Cardinality(mcWant'[f])
<1>1. mcWant' \in [McFlags -> SUBSET McOrigs]
  BY DEF want_update, McTypeOK
<1>2. ASSUME NEW f \in McFlags
      PROVE  /\ mcWant'[f] = {x \in McOrigs : f \in mcOrig'[x].flags}
             /\ mcNum'[f] = Cardinality(mcWant'[f])
             /\ mcNum'[f] \in Nat
  <2>1. mcWant[f] = {x \in McOrigs : f \in mcOrig[x].flags} /\ mcNum[f] = Cardinality(mcWant[f])
    BY <1>2 DEF McCounts
  <2>2. mcWant'[f] = IF f \in flags THEN mcWant[f] \cup {o} ELSE mcWant[f] \ {o}
    BY <1>2 DEF want_update
  <2>3. mcNum'[f] = IF f \in flags \ mcOrig[o].flags THEN mcNum[f] + 1
                    ELSE IF f \in mcOrig[o].flags \ flags THEN mcNum[f] - 1 ELSE mcNum[f]
    BY <1>2 DEF want_update
  <2>4. mcWant'[f] = {x \in McOrigs : f \in mcOrig'[x].flags}
    BY <2>1, <2>2
  <2>5. o \in mcWant[f] <=> f \in mcOrig[o].flags
    BY <2>1
  <2>6. mcWant[f] \in SUBSET McOrigs /\ mcWant'[f] \in SUBSET McOrigs
    BY <2>1, <2>4
  <2>7. mcNum'[f] = Cardinality(mcWant'[f])
    <3>1. CASE f \in flags /\ o \in mcWant[f]
      <4>1. mcWant'[f] = mcWant[f]
        BY <2>2, <3>1
      <4> QED BY <4>1, <2>1, <2>3, <2>5, <3>1
    <3>2. CASE f \in flags /\ o \notin mcWant[f]
      <4>1. mcWant'[f] = mcWant[f] \cup {o} /\ mcNum'[f] = mcNum[f] + 1
        BY <2>2, <2>3, <2>5, <3>2
      <4>2. Cardinality(mcWant[f] \cup {o}) = Cardinality(mcWant[f]) + 1
        BY <2>6, <3>2, CountMoves
      <4> QED BY <4>1, <4>2, <2>1
    <3>3. CASE f \notin flags /\ o \in mcWant[f]
      <4>1. mcWant'[f] = mcWant[f] \ {o} /\ mcNum'[f] = mcNum[f] - 1
        BY <2>2, <2>3, <2>5, <3>3
      <4>2. Cardinality(mcWant[f] \ {o}) = Cardinality(mcWant[f]) - 1
        BY <2>6, <3>3, CountMoves
      <4> QED BY <4>1, <4>2, <2>1
    <3>4. CASE f \notin flags /\ o \notin mcWant[f]
      <4>1. mcWant'[f] = mcWant[f]
        BY <2>2, <3>4
      <4> QED BY <4>1, <2>1, <2>3, <2>5, <3>4
    <3> QED BY <3>1, <3>2, <3>3, <3>4
  <2>8. mcNum'[f] \in Nat
    BY <2>6, <2>7, SubsetCounted
  <2> QED BY <2>4, <2>7, <2>8
<1>3. mcNum' \in [McFlags -> Nat]
  <2>1. DOMAIN mcNum' = McFlags /\ mcNum' = [f \in McFlags |-> mcNum'[f]]
    BY DEF want_update
  <2> QED BY <1>2, <2>1
<1> QED BY <1>1, <1>2, <1>3

-----------------------------------------------------------------------------
\* The handler of OGMs: the four ways disabled_after can go are the four ways
\* an originator can enter or leave Counted, or stay.
LEMMA OgmKeeps ==
  ASSUME McInv, NEW o \in McOrigs, NEW e \in BOOLEAN, NEW f \in SUBSET McFlags,
         NEW g \in SUBSET McGroups, McOgm(o, e, f, g)
  PROVE  McInv'
<1> DEFINE new == IF e THEN f ELSE {}
<1>1. /\ mcDisabled' = disabled_after(mcOrig[o], e)
      /\ want_update(o, new)
      /\ mcOrig' = [mcOrig EXCEPT ![o] =
           [state |-> "live", cap |-> e, init |-> TRUE, flags |-> new, tt |-> g]]
      /\ mcMode' = mcMode
  BY DEF McOgm, mcLocal
<1>2. new \in SUBSET McFlags
  OBVIOUS
<1> HIDE DEF new
<1>3. mcOrig' \in [McOrigs -> [state : {"none", "live", "dying"}, cap : BOOLEAN,
                               init : BOOLEAN, flags : SUBSET McFlags, tt : SUBSET McGroups]]
  <2>1. [state |-> "live", cap |-> e, init |-> TRUE, flags |-> new, tt |-> g]
          \in [state : {"none", "live", "dying"}, cap : BOOLEAN,
               init : BOOLEAN, flags : SUBSET McFlags, tt : SUBSET McGroups]
    BY <1>2
  <2> QED BY <1>1, <2>1 DEF McInv, McTypeOK
<1>4. /\ mcOrig'[o] = [state |-> "live", cap |-> e, init |-> TRUE, flags |-> new, tt |-> g]
      /\ \A x \in McOrigs \ {o} : mcOrig'[x] = mcOrig[x]
  BY <1>1 DEF McInv, McTypeOK
<1>5. mcOrig'[o].flags = new /\ \A x \in McOrigs \ {o} : mcOrig'[x].flags = mcOrig[x].flags
  BY <1>4
<1>6. /\ mcNum' \in [McFlags -> Nat]
      /\ mcWant' \in [McFlags -> SUBSET McOrigs]
      /\ \A k \in McFlags :
           /\ mcWant'[k] = {x \in McOrigs : k \in mcOrig'[x].flags}
           /\ mcNum'[k] = Cardinality(mcWant'[k])
  BY <1>1, <1>2, <1>3, <1>5, WantUpdateCounts DEF McInv
<1>7. mcDisabled' = Cardinality(Counted')
  <2>1. mcDisabled = Cardinality(Counted) /\ Counted \in SUBSET McOrigs
    BY DEF McInv, McCounts, Counted
  <2>2. o \in Counted' <=> ~e
    BY <1>4 DEF Counted, counted_disabled
  <2>3. \A x \in McOrigs \ {o} : x \in Counted' <=> x \in Counted
    BY <1>4 DEF Counted, counted_disabled
  <2>4. o \in Counted <=> ~mcOrig[o].cap /\ mcOrig[o].init
    BY DEF Counted, counted_disabled
  <2>5. mcOrig[o].cap \in BOOLEAN /\ mcOrig[o].init \in BOOLEAN
    BY DEF McInv, McTypeOK
  <2>6. CASE e /\ o \in Counted
    <3>1. Counted' = Counted \ {o}
      BY <2>2, <2>3, <2>6 DEF Counted
    <3>2. mcDisabled' = mcDisabled - 1
      BY <1>1, <2>4, <2>6 DEF disabled_after
    <3> QED BY <2>1, <2>6, <3>1, <3>2, CountMoves
  <2>7. CASE e /\ o \notin Counted
    <3>1. Counted' = Counted
      BY <2>2, <2>3, <2>7 DEF Counted
    <3>2. mcDisabled' = mcDisabled
      BY <1>1, <2>4, <2>5, <2>7 DEF disabled_after
    <3> QED BY <2>1, <3>1, <3>2
  <2>8. CASE ~e /\ o \in Counted
    <3>1. Counted' = Counted
      BY <2>2, <2>3, <2>8 DEF Counted
    <3>2. mcDisabled' = mcDisabled
      BY <1>1, <2>4, <2>5, <2>8 DEF disabled_after
    <3> QED BY <2>1, <3>1, <3>2
  <2>9. CASE ~e /\ o \notin Counted
    <3>1. Counted' = Counted \cup {o}
      BY <2>2, <2>3, <2>9 DEF Counted
    <3>2. mcDisabled' = mcDisabled + 1
      BY <1>1, <2>4, <2>5, <2>9 DEF disabled_after
    <3> QED BY <2>1, <2>9, <3>1, <3>2, CountMoves
  <2> QED BY <2>6, <2>7, <2>8, <2>9
<1>8. McTypeOK'
  BY <1>1, <1>3, <1>6 DEF McInv, McTypeOK
<1>9. McCounts'
  BY <1>6, <1>7 DEF McCounts
<1>10. McStates'
  BY <1>4 DEF McInv, McStates
<1> QED BY <1>8, <1>9, <1>10 DEF McInv

\* A node that is freed is no longer counted, whatever it announced last.
LEMMA PurgeKeeps ==
  ASSUME McInv, NEW o \in McOrigs, mcast_purge_orig(o)
  PROVE  McInv'
<1>1. /\ mcOrig[o].state = "dying"
      /\ mcDisabled' = IF counted_disabled(mcOrig[o]) THEN mcDisabled - 1 ELSE mcDisabled
      /\ want_update(o, {})
      /\ mcOrig' = [mcOrig EXCEPT ![o] = McUnknown]
      /\ mcMode' = mcMode
  BY DEF mcast_purge_orig, mcLocal
<1>2. McUnknown.flags = {} /\ McUnknown.state = "none" /\ ~McUnknown.init
  BY DEF McUnknown
<1>3. mcOrig' \in [McOrigs -> [state : {"none", "live", "dying"}, cap : BOOLEAN,
                               init : BOOLEAN, flags : SUBSET McFlags, tt : SUBSET McGroups]]
  <2>1. McUnknown \in [state : {"none", "live", "dying"}, cap : BOOLEAN,
                       init : BOOLEAN, flags : SUBSET McFlags, tt : SUBSET McGroups]
    BY DEF McUnknown
  <2> QED BY <1>1, <2>1 DEF McInv, McTypeOK
<1>4. mcOrig'[o] = McUnknown /\ \A x \in McOrigs \ {o} : mcOrig'[x] = mcOrig[x]
  BY <1>1 DEF McInv, McTypeOK
<1>5. mcOrig'[o].flags = {} /\ \A x \in McOrigs \ {o} : mcOrig'[x].flags = mcOrig[x].flags
  BY <1>2, <1>4
<1>6. /\ mcNum' \in [McFlags -> Nat]
      /\ mcWant' \in [McFlags -> SUBSET McOrigs]
      /\ \A k \in McFlags :
           /\ mcWant'[k] = {x \in McOrigs : k \in mcOrig'[x].flags}
           /\ mcNum'[k] = Cardinality(mcWant'[k])
  BY <1>1, <1>3, <1>5, WantUpdateCounts DEF McInv
<1>7. mcDisabled' = Cardinality(Counted')
  <2>1. mcDisabled = Cardinality(Counted) /\ Counted \in SUBSET McOrigs
    BY DEF McInv, McCounts, Counted
  <2>2. Counted' = Counted \ {o}
    BY <1>2, <1>4 DEF Counted, counted_disabled
  <2>3. o \in Counted <=> counted_disabled(mcOrig[o])
    BY DEF Counted
  <2>4. CASE o \in Counted
    BY <1>1, <2>1, <2>2, <2>3, <2>4, CountMoves
  <2>5. CASE o \notin Counted
    <3>1. Counted' = Counted
      BY <2>2, <2>5
    <3> QED BY <1>1, <2>1, <2>3, <2>5, <3>1
  <2> QED BY <2>4, <2>5
<1>8. McTypeOK'
  BY <1>1, <1>3, <1>6 DEF McInv, McTypeOK
<1>9. McCounts'
  BY <1>6, <1>7 DEF McCounts
<1>10. McStates'
  BY <1>2, <1>4 DEF McInv, McStates
<1> QED BY <1>8, <1>9, <1>10 DEF McInv

\* The counters, the lists and what the OGMs said agree in every state.
THEOREM CountersTrue == McSpec => []McInv
<1>1. McInit => McInv
  <2> SUFFICES ASSUME McInit PROVE McInv
    OBVIOUS
  <2>1. McUnknown \in [state : {"none", "live", "dying"}, cap : BOOLEAN,
                       init : BOOLEAN, flags : SUBSET McFlags, tt : SUBSET McGroups]
    BY DEF McUnknown
  <2>2. McTypeOK
    BY <2>1 DEF McInit, McTypeOK
  <2>3. Counted = {}
    BY DEF McInit, McUnknown, Counted, counted_disabled
  <2>4. \A f \in McFlags : {o \in McOrigs : f \in mcOrig[o].flags} = {}
    BY DEF McInit, McUnknown
  <2>5. McCounts
    BY <2>3, <2>4, FS_EmptySet DEF McInit, McCounts
  <2>6. McStates
    BY DEF McInit, McStates, McUnknown
  <2> QED BY <2>2, <2>5, <2>6 DEF McInv
<1>2. McInv /\ [McNext]_mcVars => McInv'
  <2> SUFFICES ASSUME McInv, [McNext]_mcVars PROVE McInv'
    OBVIOUS
  <2>1. ASSUME NEW o \in McOrigs, NEW e \in BOOLEAN, NEW f \in SUBSET McFlags,
               NEW g \in SUBSET McGroups, McOgm(o, e, f, g)
        PROVE  McInv'
    BY <2>1, OgmKeeps
  <2>2. ASSUME NEW o \in McOrigs, McPurged(o)
        PROVE  McInv'
    <3>1. /\ mcOrig' = [mcOrig EXCEPT ![o].state = "dying", ![o].tt = {}]
          /\ mcDisabled' = mcDisabled /\ mcNum' = mcNum /\ mcWant' = mcWant
          /\ mcMode' = mcMode
      BY <2>2 DEF McPurged, mcLocal
    <3>2. McTypeOK'
      <4> DEFINE Origs == [state : {"none", "live", "dying"}, cap : BOOLEAN,
                           init : BOOLEAN, flags : SUBSET McFlags, tt : SUBSET McGroups]
                 dead == [mcOrig[o] EXCEPT !.state = "dying", !.tt = {}]
      <4>1. mcOrig \in [McOrigs -> Origs] /\ mcOrig' = [mcOrig EXCEPT ![o] = dead]
        BY <3>1 DEF McInv, McTypeOK
      <4>2. dead \in Origs
        BY <4>1
      <4> HIDE DEF Origs, dead
      <4>3. mcOrig' \in [McOrigs -> Origs]
        BY <4>1, <4>2
      <4> QED BY <3>1, <4>3 DEF McInv, McTypeOK, Origs
    <3>3. \A x \in McOrigs : /\ mcOrig'[x].flags = mcOrig[x].flags
                             /\ mcOrig'[x].cap = mcOrig[x].cap
                             /\ mcOrig'[x].init = mcOrig[x].init
      BY <3>1 DEF McInv, McTypeOK
    <3>4. Counted' = Counted
      BY <3>3 DEF Counted, counted_disabled
    <3>5. McCounts'
      BY <3>1, <3>3, <3>4 DEF McInv, McCounts
    <3>6. \A x \in McOrigs : \/ mcOrig'[x] = mcOrig[x]
                             \/ mcOrig'[x].state = "dying"
      BY <3>1 DEF McInv, McTypeOK
    <3>7. McStates'
      BY <3>6 DEF McInv, McStates
    <3> QED BY <3>2, <3>5, <3>7 DEF McInv
  <2>3. ASSUME NEW o \in McOrigs, mcast_purge_orig(o)
        PROVE  McInv'
    BY <2>3, PurgeKeeps
  <2>4. ASSUME UNCHANGED mcRemote, mcMode' \in BOOLEAN
        PROVE  McInv'
    BY <2>4 DEF mcRemote, McInv, McTypeOK, McCounts, Counted, McStates
  <2>5. ASSUME NEW oom \in BOOLEAN, NEW a \in SUBSET McGroups, mcast_mla_update(oom, a)
        PROVE  McInv'
    BY <2>4, <2>5 DEF mcast_mla_update, McInv, McTypeOK
  <2>6. ASSUME NEW m \in BOOLEAN, NEW b \in BOOLEAN, NEW d \in SUBSET McGroups,
               McSetting(m, d, b)
        PROVE  McInv'
    BY <2>4, <2>6 DEF McSetting
  <2>7. CASE mcast_free
    BY <2>4, <2>7 DEF mcast_free, McInv, McTypeOK
  <2>8. CASE UNCHANGED mcVars
    BY <2>4, <2>8 DEF mcVars, mcRemote, McInv, McTypeOK
  <2> QED BY <2>1, <2>2, <2>3, <2>5, <2>6, <2>7, <2>8 DEF McNext
<1> QED BY <1>1, <1>2, PTL DEF McSpec

-----------------------------------------------------------------------------
\* mcast_forw_mode as a sum: with no node disabled, a node among the ones that
\* one of the three numbers counts is not passed over.
LEMMA NobodyPassedOver ==
  ASSUME McInv, mcMode, NEW o \in McOrigs, mcOrig[o].state = "live",
         NEW p \in McPackets, WantsPacket(o, p)
  PROVE  o \in mcast_forw_mode(p)
<1>1. CASE ~forw_mode_check(p)
  BY <1>1 DEF mcast_forw_mode
<1>2. CASE forw_mode_check(p)
  <2>1. mcDisabled = 0 /\ p.proto \in {"ipv4", "ipv6"} /\ p.proto \in McFlags
    BY <1>2 DEF forw_mode_check, McFlags
  <2>2. mcOrig[o].cap
    <3>1. Counted = {}
      BY <2>1, SubsetCounted DEF McInv, McCounts, Counted
    <3>2. mcOrig[o].init /\ mcOrig[o].cap \in BOOLEAN
      BY DEF McInv, McStates, McTypeOK
    <3> QED BY <3>1, <3>2 DEF Counted, counted_disabled
  <2> DEFINE tt == Cardinality(InTt(p))
             ip == mcNum[p.proto]
             un == unsnoop_count(p)
  <2>3. InTt(p) \in SUBSET McOrigs /\ tt \in Nat /\ (tt = 0 <=> InTt(p) = {})
    BY SubsetCounted DEF InTt
  <2>4. "unsnoopables" \in McFlags
    BY DEF McFlags
  <2>5. ip \in Nat /\ un \in Nat
    BY <2>1, <2>4 DEF McInv, McTypeOK, unsnoop_count
  <2>6. ASSUME NEW f \in McFlags, f \in mcOrig[o].flags
        PROVE  mcNum[f] > 0 /\ o \in Live(mcWant[f])
    <3>1. o \in mcWant[f] /\ mcWant[f] \in SUBSET McOrigs /\ mcNum[f] = Cardinality(mcWant[f])
      BY <2>6 DEF McInv, McCounts
    <3>2. Cardinality(mcWant[f]) \in Nat /\ Cardinality(mcWant[f]) # 0
      BY <3>1, SubsetCounted
    <3> QED BY <3>1, <3>2 DEF Live
  <2>7. mcast_forw_mode(p) =
          IF tt + ip + un > 1 THEN McOrigs
          ELSE IF tt + ip + un = 1
               THEN IF tt > 0 THEN InTt(p)
                    ELSE IF ip > 0 THEN Live(mcWant[p.proto]) ELSE Live(mcWant["unsnoopables"])
               ELSE {}
    BY <1>2 DEF mcast_forw_mode
  <2> HIDE DEF tt, ip, un
  <2>8. CASE o \in InTt(p)
    <3>1. tt > 0
      BY <2>3, <2>8
    <3> QED BY <2>3, <2>5, <2>7, <2>8, <3>1
  <2>9. CASE o \notin InTt(p) /\ p.proto \in mcOrig[o].flags
    <3>1. ip > 0 /\ o \in Live(mcWant[p.proto])
      BY <2>1, <2>6, <2>9 DEF ip
    <3>2. tt > 0 => tt + ip + un > 1
      BY <2>3, <2>5, <3>1
    <3> QED BY <2>3, <2>5, <2>7, <3>1, <3>2
  <2>10. CASE o \notin InTt(p) /\ is_unsnoopable(p) /\ "unsnoopables" \in mcOrig[o].flags
    <3>1. un > 0 /\ o \in Live(mcWant["unsnoopables"])
      BY <2>4, <2>6, <2>10 DEF un, unsnoop_count
    <3>2. tt > 0 \/ ip > 0 => tt + ip + un > 1
      BY <2>3, <2>5, <3>1
    <3> QED BY <2>3, <2>5, <2>7, <3>1, <3>2
  <2>11. o \in InTt(p) <=> p.group \in mcOrig[o].tt
    BY DEF InTt
  <2> QED BY <2>2, <2>8, <2>9, <2>10, <2>11 DEF WantsPacket
<1> QED BY <1>1, <1>2

\* A packet is never kept from a node that wants it, and the counters are back
\* at 0 when nobody is left (mcast_forw_mode on what the handlers counted).
THEOREM ListenersReached == McSpec => []McReachesListeners
<1>1. McInv => McReachesListeners
  <2> SUFFICES ASSUME McInv PROVE McReachesListeners
    OBVIOUS
  <2>1. ASSUME NEW o \in McOrigs, mcOrig[o].state = "live", NEW p \in McPackets,
               mcMode, WantsPacket(o, p)
        PROVE  o \in mcast_forw_mode(p)
    BY <2>1, NobodyPassedOver
  <2>2. ASSUME \A o \in McOrigs : mcOrig[o].state = "none"
        PROVE  mcDisabled = 0 /\ \A f \in McFlags : mcNum[f] = 0 /\ mcWant[f] = {}
    <3>1. \A o \in McOrigs : mcOrig[o] = McUnknown
      BY <2>2 DEF McInv, McStates
    <3>2. Counted = {}
      BY <3>1 DEF Counted, counted_disabled, McUnknown
    <3>3. \A f \in McFlags : mcWant[f] = {}
      BY <3>1 DEF McInv, McCounts, McUnknown
    <3> QED BY <3>2, <3>3, FS_EmptySet DEF McInv, McCounts
  <2> QED BY <2>1, <2>2 DEF McReachesListeners
<1> QED BY <1>1, CountersTrue, PTL

-----------------------------------------------------------------------------
(***************************************************************************)
(* DistributedArp                                                          *)
(***************************************************************************)
Entries == [mac : DatClients \cup {DatNoMac}, age : 0..DatTimeout]

FloodStates == {"none", "delayed", "sent", "dropped"}

ReqStates == [state : FloodStates, client : DatClients \cup {DatNoMac},
              from : DatIps \cup {DatNoMac}, ip : DatIps \cup {DatNoMac},
              answer : DatClients \cup {DatNoMac}]

Arps == [op : {"REQUEST", "REPLY"}, ip_src : DatIps, hw_src : DatClients,
         ip_dst : DatIps, hw_dst : DatClients \cup {DatNoMac}, req : DatRequests]

Questions == {"DHT_GET", "BCAST"}
Answers == {"FROM_LAN", "DATA", "DHT_PUT", "CACHE_REPLY"}
Msgs == [kind : Questions \cup Answers, to : DatNodes, arp : Arps]

TypeInv ==
  /\ datCache \in [DatNodes -> [DatIps -> Entries]]
  /\ datOwner \in [DatIps -> DatClients]
  /\ datHad \subseteq DatIps \X DatClients
  /\ datMsgs \subseteq Msgs
  /\ datReq \in [DatRequests -> ReqStates]
  /\ datRelay \in [DatRequests -> [DatNodes -> FloodStates]]

\* Who has an address has had it.
OwnersInv == \A i \in DatIps : <<i, datOwner[i]>> \in datHad

\* A request under way is one of a client, from an address it has had, for an
\* address; one that has not begun has no answer and no flood.
RequestsInv ==
  \A r \in DatRequests :
    /\ datReq[r].state # "none" =>
         /\ datReq[r].client \in DatClients /\ datReq[r].from \in DatIps /\ datReq[r].ip \in DatIps
         /\ <<datReq[r].from, datReq[r].client>> \in datHad
    /\ datReq[r].state = "none" =>
         datReq[r].answer = DatNoMac /\ \A n \in DatNodes : datRelay[r][n] = "none"

\* What travels is true of its sender and is its request, or is about what it
\* asks; a reply is true of its receiver, too.
TrueQuestion(m) == m.arp = RequestOf(m.arp.req)
TrueReply(m) ==
  /\ m.arp.op = "REPLY" /\ m.arp.ip_src = datReq[m.arp.req].ip
  /\ m.arp.hw_dst \in DatClients /\ <<m.arp.ip_dst, m.arp.hw_dst>> \in datHad
TrueMsg(m) ==
  /\ <<m.arp.ip_src, m.arp.hw_src>> \in datHad
  /\ datReq[m.arp.req].state # "none"
  /\ m.kind \in Questions => TrueQuestion(m)
  /\ m.kind \in Answers => TrueReply(m)

MsgsInv == \A m \in datMsgs : TrueMsg(m)

DatInv == TypeInv /\ OwnersInv /\ RequestsInv /\ MsgsInv /\ DatAnswerWasTrue

-----------------------------------------------------------------------------
\* What a step does to the caches: an entry is one it was, a new one that is
\* true, or none.
CachesLearn(learnt) ==
  \A n \in DatNodes, i \in DatIps :
    \/ datCache'[n][i].mac = datCache[n][i].mac
    \/ <<i, datCache'[n][i].mac>> \in learnt
    \/ datCache'[n][i].mac = DatNoMac

\* An entry that is added is typed, and nothing else changes.
LEMMA AddEntry ==
  ASSUME NEW cache \in [DatIps -> Entries], NEW ip \in DatIps, NEW mac \in DatClients
  PROVE  /\ dat_entry_add(cache, ip, mac) \in [DatIps -> Entries]
         /\ dat_entry_add(cache, ip, mac)[ip].mac = mac
         /\ \A i \in DatIps \ {ip} : dat_entry_add(cache, ip, mac)[i] = cache[i]
<1>1. [mac |-> mac, age |-> 0] \in Entries
  BY DatAssumption DEF Entries
<1> QED BY <1>1 DEF dat_entry_add

\* The two entries a reply teaches.
LEMMA LearnReply ==
  ASSUME NEW cache \in [DatIps -> Entries], NEW arp \in Arps, arp.hw_dst \in DatClients
  PROVE  /\ learnt_from_reply(cache, arp) \in [DatIps -> Entries]
         /\ \A i \in DatIps :
              \/ learnt_from_reply(cache, arp)[i].mac = cache[i].mac
              \/ <<i, learnt_from_reply(cache, arp)[i].mac>>
                   \in {<<arp.ip_src, arp.hw_src>>, <<arp.ip_dst, arp.hw_dst>>}
<1> DEFINE first == dat_entry_add(cache, arp.ip_src, arp.hw_src)
<1>1. arp.ip_src \in DatIps /\ arp.hw_src \in DatClients /\ arp.ip_dst \in DatIps
  BY DEF Arps
<1>2. /\ first \in [DatIps -> Entries] /\ first[arp.ip_src].mac = arp.hw_src
      /\ \A i \in DatIps \ {arp.ip_src} : first[i] = cache[i]
  BY <1>1, AddEntry
<1>3. learnt_from_reply(cache, arp) = dat_entry_add(first, arp.ip_dst, arp.hw_dst)
  BY DEF learnt_from_reply
<1> HIDE DEF first
<1>4. /\ dat_entry_add(first, arp.ip_dst, arp.hw_dst) \in [DatIps -> Entries]
      /\ dat_entry_add(first, arp.ip_dst, arp.hw_dst)[arp.ip_dst].mac = arp.hw_dst
      /\ \A i \in DatIps \ {arp.ip_dst} :
           dat_entry_add(first, arp.ip_dst, arp.hw_dst)[i] = first[i]
  BY <1>1, <1>2, AddEntry
<1> QED BY <1>2, <1>3, <1>4

\* A node that learns what was true changes no other node's cache.
LEMMA NodeLearns ==
  ASSUME TypeInv, NEW n \in DatNodes, NEW new \in [DatIps -> Entries],
         datCache' = [datCache EXCEPT ![n] = new], NEW learnt,
         \A i \in DatIps : new[i].mac = datCache[n][i].mac \/ <<i, new[i].mac>> \in learnt
  PROVE  datCache' \in [DatNodes -> [DatIps -> Entries]] /\ CachesLearn(learnt)
<1>1. datCache' \in [DatNodes -> [DatIps -> Entries]]
  BY DEF TypeInv
<1>2. \A o \in DatNodes : datCache'[o] = IF o = n THEN new ELSE datCache[o]
  BY DEF TypeInv
<1> QED BY <1>1, <1>2 DEF CachesLearn

\* Caches that learned what was true, and answers that are old or true, keep
\* the property.
LEMMA StaysTrue ==
  ASSUME DatAnswerWasTrue, datHad \subseteq datHad', NEW learnt \in SUBSET datHad',
         CachesLearn(learnt),
         \A r \in DatRequests :
           \/ datReq'[r].answer = DatNoMac
           \/ datReq'[r].answer = datReq[r].answer /\ datReq'[r].ip = datReq[r].ip
           \/ <<datReq'[r].ip, datReq'[r].answer>> \in datHad'
  PROVE  DatAnswerWasTrue'
BY DEF DatAnswerWasTrue, CachesLearn, Mac

\* The request is the one it was.
SameRequest(r) ==
  /\ datReq'[r].client = datReq[r].client /\ datReq'[r].from = datReq[r].from
  /\ datReq'[r].ip = datReq[r].ip

\* A message stays true while its request is the same.
LEMMA MsgStays ==
  ASSUME NEW m, TrueMsg(m), datHad \subseteq datHad',
         SameRequest(m.arp.req), datReq'[m.arp.req].state # "none"
  PROVE  TrueMsg(m)'
<1>1. RequestOf(m.arp.req)' = RequestOf(m.arp.req)
  BY DEF RequestOf, Request, SameRequest
<1> QED BY <1>1 DEF TrueMsg, TrueQuestion, TrueReply, SameRequest

\* The packet of a request under way.
LEMMA RequestIs ==
  ASSUME DatInv, NEW r \in DatRequests, datReq[r].state # "none"
  PROVE  /\ RequestOf(r) \in Arps /\ RequestOf(r).req = r /\ RequestOf(r).op = "REQUEST"
         /\ RequestOf(r).ip_src = datReq[r].from /\ RequestOf(r).hw_src = datReq[r].client
         /\ RequestOf(r).ip_dst = datReq[r].ip
BY DEF DatInv, RequestsInv, RequestOf, Request, Arps

\* The copies of a flood.
LEMMA Flooded ==
  ASSUME DatInv, NEW r \in DatRequests, datReq[r].state # "none", NEW n \in DatNodes
  PROVE  \A m \in Bcast(n, r) :
           m \in Msgs /\ m.kind = "BCAST" /\ m.arp = RequestOf(r)
<1>1. RequestOf(r) \in Arps
  BY RequestIs
<1> DEFINE arp == RequestOf(r)
<1> HIDE DEF arp
<1>2. ASSUME NEW d \in DatNodes
      PROVE  [kind |-> "BCAST", to |-> d, arp |-> arp] \in Msgs
  BY <1>1 DEF Msgs, Questions, arp
<1>3. DatHears[n] \subseteq DatNodes
  BY DatAssumption
<1> QED BY <1>2, <1>3 DEF Bcast, arp

\* The copies that go to the candidates of an address.
LEMMA SentData ==
  ASSUME NEW n \in DatNodes, NEW ip \in DatIps, NEW kind \in Questions \cup Answers,
         NEW arp \in Arps
  PROVE  \A m \in dat_send_data(n, arp, ip, kind) :
           m \in Msgs /\ m.kind = kind /\ m.arp = arp
BY DatAssumption DEF dat_send_data, Msgs

\* A reply to a true question, with an address that was true, is a true message.
LEMMA RepliesTrue ==
  ASSUME TypeInv, NEW q \in Msgs, q.kind \in Questions, TrueMsg(q),
         NEW mac \in DatClients, <<q.arp.ip_dst, mac>> \in datHad,
         NEW kind \in Answers, NEW to \in DatNodes
  PROVE  [kind |-> kind, to |-> to, arp |-> Reply(q.arp, mac)] \in Msgs
         /\ TrueMsg([kind |-> kind, to |-> to, arp |-> Reply(q.arp, mac)])
<1> DEFINE m == [kind |-> kind, to |-> to, arp |-> Reply(q.arp, mac)]
<1>1. q.arp \in Arps
  BY DEF Msgs
<1>2. Reply(q.arp, mac) \in Arps
  BY <1>1 DEF Arps, Reply
<1>3. m \in Msgs
  BY <1>2 DEF Msgs
<1>4. /\ m.arp.op = "REPLY" /\ m.arp.ip_src = q.arp.ip_dst /\ m.arp.hw_src = mac
      /\ m.arp.ip_dst = q.arp.ip_src /\ m.arp.hw_dst = q.arp.hw_src /\ m.arp.req = q.arp.req
      /\ m.kind = kind
  BY DEF Reply
<1>5. <<q.arp.ip_src, q.arp.hw_src>> \in datHad /\ q.arp.hw_src \in DatClients
  BY <1>1 DEF TrueMsg, Arps
<1>6. q.arp.ip_dst = datReq[q.arp.req].ip /\ datReq[q.arp.req].state # "none"
  BY DEF TrueMsg, TrueQuestion, RequestOf, Request
<1>7. kind \notin Questions
  BY DEF Questions, Answers
<1> HIDE DEF m
<1>8. TrueMsg(m)
  BY <1>4, <1>5, <1>6, <1>7 DEF TrueMsg, TrueReply
<1> QED BY <1>3, <1>8 DEF m

\* An entry of a cache that is there is a client that has had the address.
LEMMA CacheTrue ==
  ASSUME TypeInv, DatAnswerWasTrue, NEW n \in DatNodes, NEW i \in DatIps, Mac(n, i) # DatNoMac
  PROVE  Mac(n, i) \in DatClients /\ <<i, Mac(n, i)>> \in datHad
BY DEF TypeInv, Entries, Mac, DatAnswerWasTrue

-----------------------------------------------------------------------------
\* A client asks: its request, its own entry, and a question to the candidates.
LEMMA OutgoingRequest ==
  ASSUME DatInv, NEW r \in DatRequests, NEW c \in DatClients, NEW own \in DatIps,
         NEW ip \in DatIps, dat_snoop_outgoing_arp_request(r, c, own, ip)
  PROVE  DatInv'
<1> DEFINE n == DatAt[c]
           arp == Request(r, c, own, ip)
           answer == IF DatAt[datOwner[ip]] = n THEN datOwner[ip]
                     ELSE IF Mac(n, ip) # DatNoMac /\ ~is_my_client(n, Mac(n, ip)) THEN Mac(n, ip)
                     ELSE DatNoMac
           asked == IF Mac(n, ip) = DatNoMac THEN dat_send_data(n, arp, ip, "DHT_GET") ELSE {}
           new == [state |-> "delayed", client |-> c, from |-> own, ip |-> ip, answer |-> answer]
<1>1. /\ datReq[r].state = "none" /\ datOwner[own] = c
      /\ datCache' = [datCache EXCEPT ![n] = dat_entry_add(@, own, c)]
      /\ datMsgs' = datMsgs \cup asked
      /\ datReq' = [datReq EXCEPT ![r] = new]
      /\ datOwner' = datOwner /\ datHad' = datHad /\ datRelay' = datRelay
  BY DEF dat_snoop_outgoing_arp_request
<1>2. n \in DatNodes
  BY DatAssumption
<1>3. <<own, c>> \in datHad /\ datOwner[ip] \in DatClients /\ <<ip, datOwner[ip]>> \in datHad
  BY <1>1 DEF DatInv, OwnersInv, TypeInv
<1>4. answer \in DatClients \cup {DatNoMac} /\ (answer # DatNoMac => <<ip, answer>> \in datHad)
  BY <1>2, <1>3, CacheTrue DEF DatInv
<1>5. arp \in Arps
  BY DEF Arps, Request
<1>6. \A m \in asked : m \in Msgs /\ m.kind = "DHT_GET" /\ m.arp = arp
  BY <1>2, <1>5, SentData DEF Questions
<1>7. new \in ReqStates
  BY <1>4 DEF ReqStates, FloodStates
<1>8. arp.op = "REQUEST" /\ arp.ip_src = own /\ arp.hw_src = c /\ arp.ip_dst = ip /\ arp.req = r
  BY DEF Request
<1>9. /\ new.state = "delayed" /\ new.client = c /\ new.from = own /\ new.ip = ip
      /\ new.answer = answer
  OBVIOUS
<1>17. arp = Request(r, c, own, ip)
  OBVIOUS
<1> HIDE DEF n, arp, answer, asked, new
<1>10. datReq' \in [DatRequests -> ReqStates] /\ datReq'[r] = new
       /\ \A x \in DatRequests \ {r} : datReq'[x] = datReq[x]
  BY <1>1, <1>7 DEF DatInv, TypeInv
<1>11. datCache' \in [DatNodes -> [DatIps -> Entries]] /\ CachesLearn({<<own, c>>})
  <2>1. datCache[n] \in [DatIps -> Entries]
    BY <1>2 DEF DatInv, TypeInv
  <2>2. datCache' = [datCache EXCEPT ![n] = dat_entry_add(datCache[n], own, c)]
    BY <1>1
  <2>3. dat_entry_add(datCache[n], own, c) \in [DatIps -> Entries]
    BY <1>2, <2>1, AddEntry
  <2>4. \A i \in DatIps : \/ dat_entry_add(datCache[n], own, c)[i].mac = datCache[n][i].mac
                          \/ <<i, dat_entry_add(datCache[n], own, c)[i].mac>> \in {<<own, c>>}
    BY <1>2, <2>1, AddEntry
  <2> DEFINE table == dat_entry_add(datCache[n], own, c)
             learnt == {<<own, c>>}
  <2> HIDE DEF table, learnt
  <2>5. /\ table \in [DatIps -> Entries] /\ datCache' = [datCache EXCEPT ![n] = table]
        /\ \A i \in DatIps : table[i].mac = datCache[n][i].mac \/ <<i, table[i].mac>> \in learnt
    BY <2>2, <2>3, <2>4 DEF table, learnt
  <2>6. datCache' \in [DatNodes -> [DatIps -> Entries]] /\ CachesLearn(learnt)
    BY <1>2, <2>5, NodeLearns DEF DatInv
  <2> QED BY <2>6 DEF learnt
<1>12. TypeInv'
  BY <1>1, <1>6, <1>10, <1>11 DEF DatInv, TypeInv
<1>13. OwnersInv'
  BY <1>1 DEF DatInv, OwnersInv
<1>14. RequestsInv'
  BY <1>1, <1>3, <1>9, <1>10 DEF DatInv, RequestsInv
<1>15. MsgsInv'
  <2>1. ASSUME NEW m \in datMsgs PROVE TrueMsg(m)'
    <3>1. TrueMsg(m) /\ m.arp.req \in DatRequests
      BY <2>1 DEF DatInv, MsgsInv, TypeInv, Msgs, Arps
    <3>2. m.arp.req # r
      BY <1>1, <3>1 DEF TrueMsg
    <3>3. SameRequest(m.arp.req) /\ datReq'[m.arp.req].state # "none"
      BY <1>10, <3>1, <3>2 DEF TrueMsg, SameRequest
    <3> QED BY <1>1, <3>1, <3>3, MsgStays
  <2>2. ASSUME NEW m \in asked PROVE TrueMsg(m)'
    <3>1. m.kind = "DHT_GET" /\ m.arp = arp
      BY <1>6, <2>2
    <3>2. TrueQuestion(m)'
      BY <1>8, <1>9, <1>10, <1>17, <3>1 DEF TrueQuestion, RequestOf
    <3> QED BY <1>1, <1>3, <1>8, <1>9, <1>10, <3>1, <3>2 DEF TrueMsg, Questions, Answers
  <2> QED BY <1>1, <2>1, <2>2 DEF MsgsInv
<1>16. DatAnswerWasTrue'
  <2>1. \A x \in DatRequests :
          \/ datReq'[x].answer = DatNoMac
          \/ datReq'[x].answer = datReq[x].answer /\ datReq'[x].ip = datReq[x].ip
          \/ <<datReq'[x].ip, datReq'[x].answer>> \in datHad'
    BY <1>1, <1>4, <1>9, <1>10
  <2> QED BY <1>1, <1>3, <1>11, <2>1, StaysTrue DEF DatInv
<1> QED BY <1>12, <1>13, <1>14, <1>15, <1>16 DEF DatInv

\* What both broadcasts do: more copies of the request, and its state.
LEMMA FloodKeeps ==
  ASSUME DatInv, NEW r \in DatRequests, datReq[r].state # "none", NEW n \in DatNodes,
         NEW flood \in SUBSET Bcast(n, r), datMsgs' = datMsgs \cup flood,
         datReq' \in [DatRequests -> ReqStates],
         datRelay' \in [DatRequests -> [DatNodes -> FloodStates]],
         \A x \in DatRequests :
           /\ SameRequest(x) /\ datReq'[x].answer = datReq[x].answer
           /\ (datReq'[x].state = "none") <=> (datReq[x].state = "none")
           /\ datReq[x].state = "none" => datRelay'[x] = datRelay[x],
         datCache' = datCache, datOwner' = datOwner, datHad' = datHad
  PROVE  DatInv'
<1>1. \A m \in flood : m \in Msgs /\ m.kind = "BCAST" /\ m.arp = RequestOf(r)
  BY Flooded
<1>2. TypeInv'
  BY <1>1 DEF DatInv, TypeInv
<1>3. OwnersInv'
  BY DEF DatInv, OwnersInv
<1>4. RequestsInv'
  BY DEF DatInv, RequestsInv, SameRequest
<1>5. MsgsInv'
  <2>1. ASSUME NEW m \in datMsgs PROVE TrueMsg(m)'
    <3>1. TrueMsg(m) /\ m.arp.req \in DatRequests
      BY <2>1 DEF DatInv, MsgsInv, TypeInv, Msgs, Arps
    <3>2. SameRequest(m.arp.req) /\ datReq'[m.arp.req].state # "none"
      BY <3>1 DEF TrueMsg
    <3> QED BY <3>1, <3>2, MsgStays
  <2>2. ASSUME NEW m \in flood PROVE TrueMsg(m)'
    <3>1. m.kind = "BCAST" /\ m.arp = RequestOf(r)
      BY <1>1, <2>2
    <3>2. /\ RequestOf(r).req = r /\ RequestOf(r).ip_src = datReq[r].from
          /\ RequestOf(r).hw_src = datReq[r].client
      BY RequestIs
    <3>3. <<datReq[r].from, datReq[r].client>> \in datHad
      BY DEF DatInv, RequestsInv
    <3>4. TrueMsg(m)
      BY <3>1, <3>2, <3>3 DEF TrueMsg, TrueQuestion, Questions, Answers
    <3>5. m.arp.req = r
      BY <3>1, <3>2
    <3> QED BY <3>4, <3>5, MsgStays
  <2> QED BY <2>1, <2>2 DEF MsgsInv
<1>6. DatAnswerWasTrue'
  BY DEF DatInv, DatAnswerWasTrue, Mac, SameRequest
<1> QED BY <1>2, <1>3, <1>4, <1>5, <1>6 DEF DatInv

\* The delay is over: the broadcast asks what the request asks, or is dropped.
LEMMA Broadcast ==
  ASSUME DatInv, NEW r \in DatRequests, SendBroadcast(r)
  PROVE  DatInv'
<1> DEFINE n == DatAt[datReq[r].client]
           dropped == dat_drop_broadcast_packet(n, datReq[r].ip)
           flood == IF dropped THEN {} ELSE Bcast(n, r)
           state == IF dropped THEN "dropped" ELSE "sent"
<1>1. /\ datReq[r].state = "delayed"
      /\ datReq' = [datReq EXCEPT ![r].state = state]
      /\ datMsgs' = datMsgs \cup flood
      /\ datCache' = datCache /\ datOwner' = datOwner /\ datHad' = datHad
      /\ datRelay' = datRelay
  BY DEF SendBroadcast
<1>2. n \in DatNodes
  BY <1>1, DatAssumption DEF DatInv, RequestsInv
<1>3. state \in {"dropped", "sent"} /\ flood \in SUBSET Bcast(n, r)
  OBVIOUS
<1> HIDE DEF n, dropped, flood, state
<1>4. /\ datReq' \in [DatRequests -> ReqStates]
      /\ \A x \in DatRequests :
           /\ SameRequest(x) /\ datReq'[x].answer = datReq[x].answer
           /\ (datReq'[x].state = "none") <=> (datReq[x].state = "none")
  BY <1>1, <1>3 DEF DatInv, TypeInv, ReqStates, FloodStates, SameRequest
<1>5. datRelay' \in [DatRequests -> [DatNodes -> FloodStates]]
  BY <1>1 DEF DatInv, TypeInv
<1> QED BY <1>1, <1>2, <1>3, <1>4, <1>5, FloodKeeps

\* The same at a node that passes the flood on.
LEMMA Relays ==
  ASSUME DatInv, NEW r \in DatRequests, NEW n \in DatNodes, RelayBroadcast(r, n)
  PROVE  DatInv'
<1> DEFINE dropped == dat_drop_broadcast_packet(n, datReq[r].ip)
           flood == IF dropped THEN {} ELSE Bcast(n, r)
           state == IF dropped THEN "dropped" ELSE "sent"
<1>1. /\ datRelay[r][n] = "delayed"
      /\ datRelay' = [datRelay EXCEPT ![r][n] = state]
      /\ datMsgs' = datMsgs \cup flood
      /\ datCache' = datCache /\ datOwner' = datOwner /\ datHad' = datHad
      /\ datReq' = datReq
  BY DEF RelayBroadcast
<1>2. datReq[r].state # "none"
  BY <1>1 DEF DatInv, RequestsInv
<1>3. state \in FloodStates /\ flood \in SUBSET Bcast(n, r)
  BY DEF FloodStates
<1> HIDE DEF dropped, flood, state
<1>4. /\ datReq' \in [DatRequests -> ReqStates]
      /\ \A x \in DatRequests :
           /\ SameRequest(x) /\ datReq'[x].answer = datReq[x].answer
           /\ (datReq'[x].state = "none") <=> (datReq[x].state = "none")
  BY <1>1 DEF DatInv, TypeInv, SameRequest
<1>5. /\ datRelay' \in [DatRequests -> [DatNodes -> FloodStates]]
      /\ \A x \in DatRequests : datReq[x].state = "none" => datRelay'[x] = datRelay[x]
  BY <1>1, <1>2, <1>3 DEF DatInv, TypeInv
<1> QED BY <1>1, <1>2, <1>3, <1>4, <1>5, FloodKeeps

\* A question arrives: its sender is learned; it is answered from the cache, or
\* by the client that has the address.
LEMMA IncomingRequest ==
  ASSUME DatInv, NEW m \in datMsgs, dat_snoop_incoming_arp_request(m)
  PROVE  DatInv'
<1> DEFINE n == m.to
           known == Mac(n, m.arp.ip_dst)
           reply == IF known = DatNoMac THEN Lan(n, m.arp)
                    ELSE {[kind |-> "CACHE_REPLY", to |-> DatAt[m.arp.hw_src],
                           arp |-> Reply(m.arp, known)]}
<1>1. /\ m.kind \in Questions
      /\ datCache' = [datCache EXCEPT ![n] = dat_entry_add(datCache[n], m.arp.ip_src, m.arp.hw_src)]
      /\ datMsgs' = (datMsgs \ {m}) \cup reply
      /\ datOwner' = datOwner /\ datHad' = datHad /\ datReq' = datReq
      /\ \/ datRelay' = datRelay
         \/ datRelay' = [datRelay EXCEPT ![m.arp.req][n] = "delayed"]
  BY DEF dat_snoop_incoming_arp_request, Questions
<1>2. m \in Msgs /\ n \in DatNodes /\ m.arp \in Arps /\ TrueMsg(m)
  BY DEF DatInv, TypeInv, MsgsInv, Msgs
<1>3. m.arp.ip_src \in DatIps /\ m.arp.hw_src \in DatClients /\ m.arp.ip_dst \in DatIps
  BY <1>2 DEF Arps
<1>4. \A x \in reply : x \in Msgs /\ TrueMsg(x)
  <2>1. CASE known = DatNoMac
    <3> DEFINE o == datOwner[m.arp.ip_dst]
    <3>1. o \in DatClients /\ <<m.arp.ip_dst, o>> \in datHad
      BY <1>3 DEF DatInv, TypeInv, OwnersInv
    <3>2. /\ [kind |-> "FROM_LAN", to |-> n, arp |-> Reply(m.arp, o)] \in Msgs
          /\ TrueMsg([kind |-> "FROM_LAN", to |-> n, arp |-> Reply(m.arp, o)])
      BY <1>1, <1>2, <3>1, RepliesTrue DEF DatInv, Answers
    <3>3. reply \subseteq {[kind |-> "FROM_LAN", to |-> n, arp |-> Reply(m.arp, o)]}
      BY <2>1 DEF Lan
    <3> QED BY <3>2, <3>3
  <2>2. CASE known # DatNoMac
    <3>1. known \in DatClients /\ <<m.arp.ip_dst, known>> \in datHad
      BY <1>2, <1>3, <2>2, CacheTrue DEF DatInv
    <3>2. DatAt[m.arp.hw_src] \in DatNodes
      BY <1>3, DatAssumption
    <3>3. /\ [kind |-> "CACHE_REPLY", to |-> DatAt[m.arp.hw_src],
              arp |-> Reply(m.arp, known)] \in Msgs
          /\ TrueMsg([kind |-> "CACHE_REPLY", to |-> DatAt[m.arp.hw_src],
                      arp |-> Reply(m.arp, known)])
      BY <1>1, <1>2, <3>1, <3>2, RepliesTrue DEF DatInv, Answers
    <3> QED BY <2>2, <3>3
  <2> QED BY <2>1, <2>2
<1> HIDE DEF n, known, reply
<1>5. datCache' \in [DatNodes -> [DatIps -> Entries]]
      /\ CachesLearn({<<m.arp.ip_src, m.arp.hw_src>>})
  <2>1. datCache[n] \in [DatIps -> Entries]
    BY <1>2 DEF DatInv, TypeInv
  <2> DEFINE new == dat_entry_add(datCache[n], m.arp.ip_src, m.arp.hw_src)
  <2>2. /\ new \in [DatIps -> Entries]
        /\ \A i \in DatIps : \/ new[i].mac = datCache[n][i].mac
                             \/ <<i, new[i].mac>> \in {<<m.arp.ip_src, m.arp.hw_src>>}
    BY <1>3, <2>1, AddEntry
  <2> HIDE DEF new
  <2>3. datCache' = [datCache EXCEPT ![n] = new]
    BY <1>1 DEF new
  <2> QED BY <1>2, <2>2, <2>3, NodeLearns DEF DatInv
<1>11. /\ datRelay' \in [DatRequests -> [DatNodes -> FloodStates]]
       /\ \A x \in DatRequests : datReq[x].state = "none" => datRelay'[x] = datRelay[x]
  <2>1. m.arp.req \in DatRequests /\ datReq[m.arp.req].state # "none"
    BY <1>2 DEF Arps, TrueMsg
  <2> DEFINE r == m.arp.req
  <2> HIDE DEF r
  <2>2. CASE datRelay' = [datRelay EXCEPT ![r][n] = "delayed"]
    BY <1>2, <2>1, <2>2 DEF DatInv, TypeInv, FloodStates, r
  <2>3. CASE datRelay' = datRelay
    BY <2>3 DEF DatInv, TypeInv
  <2> QED BY <1>1, <2>2, <2>3 DEF r
<1>6. TypeInv'
  BY <1>1, <1>4, <1>5, <1>11 DEF DatInv, TypeInv
<1>7. OwnersInv' /\ RequestsInv'
  BY <1>1, <1>11 DEF DatInv, OwnersInv, RequestsInv
<1>8. MsgsInv'
  <2>1. \A x \in datMsgs' : TrueMsg(x)
    BY <1>1, <1>4 DEF DatInv, MsgsInv
  <2> QED BY <1>1, <2>1 DEF MsgsInv, TrueMsg, TrueQuestion, TrueReply, RequestOf
<1>9. <<m.arp.ip_src, m.arp.hw_src>> \in datHad
  BY <1>2 DEF TrueMsg
<1>10. DatAnswerWasTrue'
  BY <1>1, <1>5, <1>9, StaysTrue DEF DatInv
<1> QED BY <1>6, <1>7, <1>8, <1>10 DEF DatInv
\* What both reply handlers do to the cache of their node.
LEMMA ReplyLearned ==
  ASSUME DatInv, NEW m \in datMsgs, m.kind \in Answers,
         datCache' = [datCache EXCEPT ![m.to] = learnt_from_reply(datCache[m.to], m.arp)],
         datHad' = datHad
  PROVE  \E learnt \in SUBSET datHad' :
           datCache' \in [DatNodes -> [DatIps -> Entries]] /\ CachesLearn(learnt)
<1>1. m.to \in DatNodes /\ m.arp \in Arps /\ TrueMsg(m)
  BY DEF DatInv, TypeInv, MsgsInv, Msgs
<1>2. /\ <<m.arp.ip_src, m.arp.hw_src>> \in datHad
      /\ m.arp.hw_dst \in DatClients /\ <<m.arp.ip_dst, m.arp.hw_dst>> \in datHad
  BY <1>1 DEF TrueMsg, TrueReply
<1> DEFINE learnt == {<<m.arp.ip_src, m.arp.hw_src>>, <<m.arp.ip_dst, m.arp.hw_dst>>}
           new == learnt_from_reply(datCache[m.to], m.arp)
<1>3. datCache[m.to] \in [DatIps -> Entries]
  BY <1>1 DEF DatInv, TypeInv
<1>4. /\ new \in [DatIps -> Entries]
      /\ \A i \in DatIps : new[i].mac = datCache[m.to][i].mac \/ <<i, new[i].mac>> \in learnt
  BY <1>1, <1>2, <1>3, LearnReply
<1>5. datCache' = [datCache EXCEPT ![m.to] = new] /\ learnt \in SUBSET datHad'
  BY <1>2
<1> HIDE DEF new, learnt
<1>6. datCache' \in [DatNodes -> [DatIps -> Entries]] /\ CachesLearn(learnt)
  BY <1>1, <1>4, <1>5, NodeLearns DEF DatInv
<1> QED BY <1>5, <1>6

\* A client answers: its node learns both, stores them at the candidates and
\* sends the answer on.
LEMMA OutgoingReply ==
  ASSUME DatInv, NEW m \in datMsgs, dat_snoop_outgoing_arp_reply(m)
  PROVE  DatInv'
<1> DEFINE n == m.to
           puts == dat_send_data(n, m.arp, m.arp.ip_src, "DHT_PUT")
                   \cup dat_send_data(n, m.arp, m.arp.ip_dst, "DHT_PUT")
           data == [kind |-> "DATA", to |-> DatAt[m.arp.hw_dst], arp |-> m.arp]
<1>1. /\ m.kind = "FROM_LAN" /\ m.kind \in Answers
      /\ datCache' = [datCache EXCEPT ![m.to] = learnt_from_reply(datCache[m.to], m.arp)]
      /\ datMsgs' = ((datMsgs \ {m}) \cup puts) \cup {data}
      /\ datOwner' = datOwner /\ datHad' = datHad /\ datReq' = datReq
      /\ datRelay' = datRelay
  BY DEF dat_snoop_outgoing_arp_reply, Answers
<1>2. m \in Msgs /\ n \in DatNodes /\ m.arp \in Arps /\ TrueMsg(m)
  BY DEF DatInv, TypeInv, MsgsInv, Msgs
<1>3. TrueReply(m) /\ m.arp.hw_dst \in DatClients
  BY <1>1, <1>2 DEF TrueMsg, TrueReply
<1>4. m.arp.ip_src \in DatIps /\ m.arp.ip_dst \in DatIps
  BY <1>2 DEF Arps
<1>5. \A x \in puts : x \in Msgs /\ x.kind = "DHT_PUT" /\ x.arp = m.arp
  <2>1. ASSUME NEW ip \in DatIps
        PROVE  \A x \in dat_send_data(n, m.arp, ip, "DHT_PUT") :
                 x \in Msgs /\ x.kind = "DHT_PUT" /\ x.arp = m.arp
    <3>1. "DHT_PUT" \in Questions \cup Answers
      BY DEF Answers
    <3> HIDE DEF n
    <3> QED BY <1>2, <2>1, <3>1, SentData
  <2> HIDE DEF n
  <2> QED BY <1>4, <2>1
<1>6. data \in Msgs /\ data.kind = "DATA" /\ data.arp = m.arp
  <2>1. DatAt[m.arp.hw_dst] \in DatNodes
    BY <1>3, DatAssumption
  <2> QED BY <1>2, <2>1 DEF Msgs, Answers
<1> HIDE DEF n, puts, data
<1>7. \A x \in puts \cup {data} : TrueMsg(x)
  <2>1. ASSUME NEW x, x.kind \in {"DHT_PUT", "DATA"}, x.arp = m.arp
        PROVE  TrueMsg(x)
    BY <1>2, <1>3, <2>1 DEF TrueMsg, TrueReply, Questions, Answers
  <2> QED BY <1>5, <1>6, <2>1
<1>8. PICK learnt \in SUBSET datHad' :
        datCache' \in [DatNodes -> [DatIps -> Entries]] /\ CachesLearn(learnt)
  BY <1>1, ReplyLearned
<1>9. TypeInv'
  BY <1>1, <1>5, <1>6, <1>8 DEF DatInv, TypeInv
<1>10. OwnersInv' /\ RequestsInv'
  BY <1>1 DEF DatInv, OwnersInv, RequestsInv
<1>11. MsgsInv'
  <2>1. \A x \in datMsgs' : TrueMsg(x)
    BY <1>1, <1>7 DEF DatInv, MsgsInv
  <2> QED BY <1>1, <2>1 DEF MsgsInv, TrueMsg, TrueQuestion, TrueReply, RequestOf
<1>12. DatAnswerWasTrue'
  BY <1>1, <1>8, StaysTrue DEF DatInv
<1> QED BY <1>9, <1>10, <1>11, <1>12 DEF DatInv

\* An answer arrives, and with it what the client that asked gets to know.
LEMMA IncomingReply ==
  ASSUME DatInv, NEW m \in datMsgs, dat_snoop_incoming_arp_reply(m)
  PROVE  DatInv'
<1> DEFINE r == m.arp.req
<1>1. /\ m.kind \in Answers
      /\ datCache' = [datCache EXCEPT ![m.to] = learnt_from_reply(datCache[m.to], m.arp)]
      /\ datMsgs' = datMsgs \ {m}
      /\ datReq' = datReq \/ datReq' = Answered(r, m.arp.hw_src)
      /\ datOwner' = datOwner /\ datHad' = datHad /\ datRelay' = datRelay
  BY DEF dat_snoop_incoming_arp_reply, Answers
<1>2. m \in Msgs /\ m.arp \in Arps /\ TrueMsg(m)
  BY DEF DatInv, TypeInv, MsgsInv, Msgs
<1>3. r \in DatRequests /\ m.arp.hw_src \in DatClients
  BY <1>2 DEF Arps
<1>4. /\ <<m.arp.ip_src, m.arp.hw_src>> \in datHad /\ m.arp.ip_src = datReq[r].ip
      /\ datReq[r].state # "none"
  BY <1>1, <1>2 DEF TrueMsg, TrueReply
<1> HIDE DEF r
<1>5. /\ datReq' \in [DatRequests -> ReqStates]
      /\ \A x \in DatRequests :
           /\ SameRequest(x) /\ datReq'[x].state = datReq[x].state
           /\ x # r => datReq'[x].answer = datReq[x].answer
           /\ datReq'[x].answer \in {datReq[x].answer, m.arp.hw_src}
  <2>1. CASE datReq' = datReq
    BY <2>1 DEF DatInv, TypeInv, SameRequest
  <2>2. CASE datReq' = Answered(r, m.arp.hw_src)
    BY <1>3, <2>2 DEF DatInv, TypeInv, Answered, ReqStates, SameRequest
  <2> QED BY <1>1, <2>1, <2>2
<1>6. PICK learnt \in SUBSET datHad' :
        datCache' \in [DatNodes -> [DatIps -> Entries]] /\ CachesLearn(learnt)
  BY <1>1, ReplyLearned
<1>7. TypeInv'
  BY <1>1, <1>5, <1>6 DEF DatInv, TypeInv
<1>8. OwnersInv'
  BY <1>1 DEF DatInv, OwnersInv
<1>9. RequestsInv'
  BY <1>1, <1>4, <1>5 DEF DatInv, RequestsInv, SameRequest
<1>10. MsgsInv'
  <2>1. ASSUME NEW x \in datMsgs' PROVE TrueMsg(x)'
    <3>1. x \in datMsgs /\ TrueMsg(x) /\ x.arp.req \in DatRequests
      BY <1>1, <2>1 DEF DatInv, MsgsInv, TypeInv, Msgs, Arps
    <3>2. SameRequest(x.arp.req) /\ datReq'[x.arp.req].state # "none"
      BY <1>5, <3>1 DEF TrueMsg
    <3> QED BY <1>1, <3>1, <3>2, MsgStays
  <2> QED BY <2>1 DEF MsgsInv
<1>11. DatAnswerWasTrue'
  <2>1. \A x \in DatRequests :
          \/ datReq'[x].answer = DatNoMac
          \/ datReq'[x].answer = datReq[x].answer /\ datReq'[x].ip = datReq[x].ip
          \/ <<datReq'[x].ip, datReq'[x].answer>> \in datHad'
    BY <1>1, <1>4, <1>5 DEF SameRequest
  <2> QED BY <1>1, <1>6, <2>1, StaysTrue DEF DatInv
<1> QED BY <1>7, <1>8, <1>9, <1>10, <1>11 DEF DatInv

\* An address goes to another client: what was true stays on record.
LEMMA Moves ==
  ASSUME DatInv, NEW ip \in DatIps, NEW c \in DatClients, Move(ip, c)
  PROVE  DatInv'
<1>1. /\ datOwner' = [datOwner EXCEPT ![ip] = c]
      /\ datHad' = datHad \cup {<<ip, c>>}
      /\ datCache' = datCache /\ datMsgs' = datMsgs /\ datReq' = datReq
      /\ datRelay' = datRelay
  BY DEF Move
<1>2. TypeInv'
  BY <1>1 DEF DatInv, TypeInv
<1>3. OwnersInv'
  BY <1>1 DEF DatInv, OwnersInv, TypeInv
<1>4. RequestsInv'
  BY <1>1 DEF DatInv, RequestsInv
<1>5. MsgsInv'
  <2>1. ASSUME NEW m \in datMsgs PROVE TrueMsg(m)'
    <3>1. TrueMsg(m)
      BY <2>1 DEF DatInv, MsgsInv
    <3>2. datReq'[m.arp.req].state # "none" /\ SameRequest(m.arp.req)
      BY <1>1, <3>1 DEF TrueMsg, SameRequest
    <3> QED BY <1>1, <3>1, <3>2, MsgStays
  <2> QED BY <1>1, <2>1 DEF MsgsInv
<1>6. DatAnswerWasTrue'
  BY <1>1 DEF DatInv, DatAnswerWasTrue, Mac
<1> QED BY <1>2, <1>3, <1>4, <1>5, <1>6 DEF DatInv

\* Entries that expire take nothing with them that others say.
LEMMA Purges ==
  ASSUME DatInv, dat_purge
  PROVE  DatInv'
<1> DEFINE Aged(e) == IF e.mac = DatNoMac \/ e.age + 1 > DatTimeout THEN NoEntry
                      ELSE [e EXCEPT !.age = @ + 1]
<1>1. /\ datCache' = [n \in DatNodes |-> [i \in DatIps |-> Aged(datCache[n][i])]]
      /\ datOwner' = datOwner /\ datHad' = datHad /\ datMsgs' = datMsgs /\ datReq' = datReq
      /\ datRelay' = datRelay
  BY DEF dat_purge
<1>2. ASSUME NEW e \in Entries
      PROVE  Aged(e) \in Entries /\ (Aged(e).mac = DatNoMac \/ Aged(e).mac = e.mac)
  <2>1. NoEntry \in Entries /\ NoEntry.mac = DatNoMac
    BY DatAssumption DEF Entries, NoEntry
  <2>2. ASSUME e.age + 1 <= DatTimeout
        PROVE  [e EXCEPT !.age = @ + 1] \in Entries /\ [e EXCEPT !.age = @ + 1].mac = e.mac
    BY <1>2, <2>2, DatAssumption DEF Entries
  <2>3. e.age \in Nat /\ DatTimeout \in Nat
    BY <1>2, DatAssumption DEF Entries
  <2> QED BY <2>1, <2>2, <2>3
<1> HIDE DEF Aged
<1>3. \A n \in DatNodes, i \in DatIps :
        datCache'[n][i] = Aged(datCache[n][i]) /\ datCache[n][i] \in Entries
  BY <1>1 DEF DatInv, TypeInv
<1>4. TypeInv'
  BY <1>1, <1>2, <1>3 DEF DatInv, TypeInv
<1>5. CachesLearn({})
  BY <1>2, <1>3 DEF CachesLearn
<1>6. DatAnswerWasTrue'
  BY <1>1, <1>5, StaysTrue DEF DatInv
<1>7. OwnersInv' /\ RequestsInv'
  BY <1>1 DEF DatInv, OwnersInv, RequestsInv
<1>8. MsgsInv'
  BY <1>1 DEF DatInv, MsgsInv, TrueMsg, TrueQuestion, TrueReply, RequestOf
<1> QED BY <1>4, <1>6, <1>7, <1>8 DEF DatInv

-----------------------------------------------------------------------------
\* Messages, requests and caches agree in every state.
THEOREM MessagesTrue == DatSpec => []DatInv
<1>1. DatInit => DatInv
  <2> SUFFICES ASSUME DatInit PROVE DatInv
    OBVIOUS
  <2>1. NoEntry \in Entries /\ NoEntry.mac = DatNoMac
    BY DatAssumption DEF Entries, NoEntry
  <2>2. Idle \in ReqStates /\ Idle.state = "none" /\ Idle.answer = DatNoMac
    BY DEF Idle, ReqStates, FloodStates
  <2>3. TypeInv
    BY <2>1, <2>2, DatAssumption DEF DatInit, TypeInv, FloodStates
  <2>4. OwnersInv /\ MsgsInv
    BY DEF DatInit, OwnersInv, MsgsInv
  <2>5. RequestsInv /\ DatAnswerWasTrue
    BY <2>1, <2>2 DEF DatInit, RequestsInv, DatAnswerWasTrue, Mac
  <2> QED BY <2>3, <2>4, <2>5 DEF DatInv
<1>2. DatInv /\ [DatNext]_datVars => DatInv'
  <2> SUFFICES ASSUME DatInv, [DatNext]_datVars PROVE DatInv'
    OBVIOUS
  <2>1. ASSUME NEW m \in datMsgs, DatLose(m) PROVE DatInv'
    <3>1. /\ datMsgs' = datMsgs \ {m}
          /\ datCache' = datCache /\ datOwner' = datOwner /\ datHad' = datHad
          /\ datReq' = datReq /\ datRelay' = datRelay
      BY <2>1 DEF DatLose
    <3>2. TypeInv' /\ OwnersInv' /\ RequestsInv' /\ DatAnswerWasTrue'
      BY <3>1 DEF DatInv, TypeInv, OwnersInv, RequestsInv, DatAnswerWasTrue, Mac
    <3>3. MsgsInv'
      BY <3>1 DEF DatInv, MsgsInv, TrueMsg, TrueQuestion, TrueReply, RequestOf
    <3> QED BY <3>2, <3>3 DEF DatInv
  <2>2. CASE UNCHANGED datVars
    BY <2>2 DEF datVars, DatInv, TypeInv, OwnersInv, RequestsInv, MsgsInv, TrueMsg,
                TrueQuestion, TrueReply, RequestOf, DatAnswerWasTrue, Mac
  <2> QED BY <2>1, <2>2, OutgoingRequest, Broadcast, Relays, IncomingRequest, OutgoingReply,
             IncomingReply, Moves, Purges DEF DatNext
<1> QED BY <1>1, <1>2, PTL DEF DatSpec

\* No answer and no cache names a client that never had the address, however
\* messages are lost, overtaken or late and addresses move (dat_snoop_...).
THEOREM AnswersWereTrue == DatSpec => []DatAnswerWasTrue
<1>1. DatInv => DatAnswerWasTrue
  BY DEF DatInv
<1> QED BY <1>1, MessagesTrue, PTL

-----------------------------------------------------------------------------
(* Requests are answered *)

\* Before anything is lost, moves or expires, only owners were ever on record.
TrulyOwned == \A i \in DatIps, c \in DatClients : <<i, c>> \in datHad => c = datOwner[i]

\* The answer to request r on its way, from the owner or from the cache of its node.
OnItsWay(m, r) ==
  LET q == datReq[r]
      o == datOwner[q.ip]
  IN  /\ m.arp.req = r
      /\ \/ m.kind = "FROM_LAN" /\ m.arp.hw_src = o /\ m.arp.hw_dst = q.client
         \/ /\ m.kind \in {"DATA", "CACHE_REPLY"} /\ m.to = DatAt[q.client]
            /\ m.arp.hw_src = o /\ m.arp.hw_dst = q.client

\* The client and the owner of the address are at different nodes, as they are
\* for every request that did not have its answer at once.
Apart(r) == DatAt[datOwner[datReq[r].ip]] # DatAt[datReq[r].client]

\* How far the flood of a request is at a node, the asking one included.
Stage(r, n) == IF n = DatAt[datReq[r].client] THEN datReq[r].state ELSE datRelay[r][n]

\* The flood has come to node d, or is about to.
Comes(r, d) ==
  Stage(r, d) # "none" \/ [kind |-> "BCAST", to |-> d, arp |-> RequestOf(r)] \in datMsgs

\* A node that has sent the flood on reaches all that hear it; one that has not
\* knows the address.
FloodOn(r) ==
  \A n \in DatNodes :
    /\ Stage(r, n) = "sent" => \A d \in DatHears[n] : Comes(r, d)
    /\ Stage(r, n) = "dropped" => Mac(n, datReq[r].ip) # DatNoMac

\* Once the flood has been at the owner's node, the answer is on its way.
AnswerComes(r) ==
  \/ datReq[r].state = "none"
  \/ datReq[r].answer # DatNoMac
  \/ /\ Apart(r)
     /\ Stage(r, DatAt[datOwner[datReq[r].ip]]) # "none" => \E m \in datMsgs : OnItsWay(m, r)

QuietInv ==
  datFaults = 0 =>
    TrulyOwned /\ \A r \in DatRequests : FloodOn(r) /\ AnswerComes(r)

\* An entry of a cache is not taken away.
CachesKeep ==
  \A n \in DatNodes, i \in DatIps :
    datCache[n][i].mac # DatNoMac => datCache'[n][i].mac # DatNoMac

\* What a step must not disturb, for the flood to go on.
LEMMA FloodStays ==
  ASSUME DatInv, NEW r \in DatRequests, datReq[r].state # "none", FloodOn(r), CachesKeep,
         SameRequest(r),
         \A d \in DatNodes : Comes(r, d) => Comes(r, d)',
         \A n \in DatNodes :
           /\ Stage(r, n)' = "sent" =>
                Stage(r, n) = "sent" \/ \A d \in DatHears[n] : Comes(r, d)'
           /\ Stage(r, n)' = "dropped" =>
                Stage(r, n) = "dropped" \/ Mac(n, datReq[r].ip) # DatNoMac
  PROVE  FloodOn(r)'
<1>1. datReq[r].ip \in DatIps /\ datReq'[r].ip = datReq[r].ip
  BY DEF DatInv, RequestsInv, SameRequest
<1>2. ASSUME NEW n \in DatNodes, Stage(r, n)' = "sent", NEW d \in DatHears[n]
      PROVE  Comes(r, d)'
  <2>1. d \in DatNodes
    BY <1>2, DatAssumption
  <2>2. CASE Stage(r, n) = "sent"
    BY <1>2, <2>1, <2>2 DEF FloodOn
  <2>3. CASE \A e \in DatHears[n] : Comes(r, e)'
    BY <1>2, <2>3
  <2> QED BY <1>2, <2>2, <2>3
<1>3. ASSUME NEW n \in DatNodes, Stage(r, n)' = "dropped"
      PROVE  Mac(n, datReq[r].ip)' # DatNoMac
  <2>1. Mac(n, datReq[r].ip) # DatNoMac
    BY <1>3 DEF FloodOn
  <2> QED BY <1>1, <1>3, <2>1 DEF Mac, CachesKeep
<1>4. DatHears' = DatHears
  OBVIOUS
<1> QED BY <1>2, <1>3, <1>4 DEF FloodOn

\* What a step must not disturb, for an answer still to come.
LEMMA AnswerStays ==
  ASSUME NEW r \in DatRequests, datReq[r].state # "none", AnswerComes(r), datOwner' = datOwner,
         SameRequest(r), NEW at, at = DatAt[datOwner[datReq[r].ip]],
         datReq'[r].answer = datReq[r].answer \/ datReq'[r].answer # DatNoMac,
         \A m \in datMsgs : OnItsWay(m, r) /\ Apart(r) =>
           datReq'[r].answer # DatNoMac \/ \E x \in datMsgs' : OnItsWay(x, r),
         Stage(r, at)' # "none" =>
           \/ Stage(r, at) # "none"
           \/ \E x \in datMsgs' : OnItsWay(x, r)
  PROVE  AnswerComes(r)'
<1>1. \A x : OnItsWay(x, r) => OnItsWay(x, r)'
  BY DEF OnItsWay, SameRequest
<1>2. Apart(r) => Apart(r)'
  BY DEF Apart, SameRequest
<1>3. CASE datReq'[r].answer # DatNoMac
  BY <1>3 DEF AnswerComes
<1>4. CASE datReq'[r].answer = DatNoMac
  <2>1. /\ Apart(r)
        /\ Stage(r, at) # "none" => \E m \in datMsgs : OnItsWay(m, r)
    BY <1>4 DEF AnswerComes
  <2>2. ASSUME Stage(r, at)' # "none" PROVE \E x \in datMsgs' : OnItsWay(x, r)'
    BY <1>1, <1>4, <2>1, <2>2
  <2>3. DatAt[datOwner[datReq[r].ip]]' = at
    BY DEF SameRequest
  <2>4. Stage(r, DatAt[datOwner[datReq[r].ip]])' # "none" => \E x \in datMsgs' : OnItsWay(x, r)'
    BY <2>2, <2>3 DEF Stage
  <2> QED BY <1>2, <2>1, <2>4 DEF AnswerComes
<1> QED BY <1>3, <1>4

\* A request whose flood a step leaves alone.
LEMMA StillComes ==
  ASSUME DatInv, NEW r \in DatRequests, FloodOn(r), AnswerComes(r), datOwner' = datOwner,
         CachesKeep, SameRequest(r), datReq'[r].state = datReq[r].state,
         datRelay'[r] = datRelay[r],
         datReq'[r].answer = datReq[r].answer \/ datReq'[r].answer # DatNoMac,
         \A m \in datMsgs : m.kind = "BCAST" /\ m.arp.req = r => m \in datMsgs',
         \A m \in datMsgs : OnItsWay(m, r) /\ Apart(r) =>
           datReq'[r].answer # DatNoMac \/ \E x \in datMsgs' : OnItsWay(x, r)
  PROVE  FloodOn(r)' /\ AnswerComes(r)'
<1>1. \A n : Stage(r, n)' = Stage(r, n)
  BY DEF Stage, SameRequest
<1>2. RequestOf(r)' = RequestOf(r)
  BY DEF RequestOf, Request, SameRequest
<1>3. CASE datReq[r].state = "none"
  <2>1. \A n \in DatNodes : Stage(r, n) = "none"
    BY <1>3 DEF DatInv, RequestsInv, Stage
  <2> QED BY <1>1, <1>3, <2>1 DEF FloodOn, AnswerComes
<1>4. CASE datReq[r].state # "none"
  <2>1. RequestOf(r).req = r
    BY <1>4, RequestIs
  <2>2. ASSUME NEW d \in DatNodes, Comes(r, d) PROVE Comes(r, d)'
    <3> DEFINE m == [kind |-> "BCAST", to |-> d, arp |-> RequestOf(r)]
    <3>1. m.kind = "BCAST" /\ m.arp.req = r
      BY <2>1
    <3>2. m \in datMsgs => m \in datMsgs'
      BY <3>1
    <3> QED BY <1>1, <1>2, <2>2, <3>2 DEF Comes
  <2>3. FloodOn(r)'
    BY <1>1, <1>4, <2>2, FloodStays
  <2>4. AnswerComes(r)'
    BY <1>1, <1>4, AnswerStays
  <2> QED BY <2>3, <2>4
<1> QED BY <1>3, <1>4

LEMMA EntryKept ==
  ASSUME TypeInv, NEW n \in DatNodes, NEW new \in [DatIps -> Entries],
         datCache' = [datCache EXCEPT ![n] = new], NEW learnt \in SUBSET (DatIps \X DatClients),
         \A i \in DatIps : new[i].mac = datCache[n][i].mac \/ <<i, new[i].mac>> \in learnt
  PROVE  CachesKeep
<1>1. \A o \in DatNodes : datCache'[o] = IF o = n THEN new ELSE datCache[o]
  BY DEF TypeInv
<1>2. \A i \in DatIps : datCache[n][i].mac # DatNoMac => new[i].mac # DatNoMac
  BY DatAssumption
<1> QED BY <1>1, <1>2 DEF CachesKeep

\* While only owners are on record, what a cache says is who has the address.
LEMMA CacheSaysOwner ==
  ASSUME DatInv, TrulyOwned, NEW n \in DatNodes, NEW i \in DatIps, Mac(n, i) # DatNoMac
  PROVE  Mac(n, i) = datOwner[i]
<1>1. Mac(n, i) \in DatClients /\ <<i, Mac(n, i)>> \in datHad
  BY CacheTrue DEF DatInv
<1> QED BY <1>1 DEF TrulyOwned

LEMMA AddKept ==
  ASSUME DatInv, NEW n \in DatNodes, NEW ip \in DatIps, NEW mac \in DatClients,
         datCache' = [datCache EXCEPT ![n] = dat_entry_add(datCache[n], ip, mac)]
  PROVE  CachesKeep
<1> DEFINE new == dat_entry_add(datCache[n], ip, mac)
           learnt == {<<ip, mac>>}
<1>1. datCache[n] \in [DatIps -> Entries] /\ TypeInv
  BY DEF DatInv, TypeInv
<1>2. /\ new \in [DatIps -> Entries] /\ new[ip].mac = mac
      /\ \A i \in DatIps \ {ip} : new[i] = datCache[n][i]
  BY <1>1, AddEntry
<1>3. learnt \in SUBSET (DatIps \X DatClients)
  OBVIOUS
<1>4. datCache' = [datCache EXCEPT ![n] = new]
  OBVIOUS
<1>5. \A i \in DatIps : new[i].mac = datCache[n][i].mac \/ <<i, new[i].mac>> \in learnt
  BY <1>2
<1> HIDE DEF new, learnt
<1> QED BY <1>1, <1>2, <1>3, <1>4, <1>5, EntryKept

LEMMA LearnKept ==
  ASSUME DatInv, NEW m \in datMsgs, m.kind \in Answers,
         datCache' = [datCache EXCEPT ![m.to] = learnt_from_reply(datCache[m.to], m.arp)]
  PROVE  CachesKeep
<1> DEFINE new == learnt_from_reply(datCache[m.to], m.arp)
           learnt == {<<m.arp.ip_src, m.arp.hw_src>>, <<m.arp.ip_dst, m.arp.hw_dst>>}
<1>1. m.to \in DatNodes /\ m.arp \in Arps /\ TrueMsg(m) /\ TypeInv
  BY DEF DatInv, TypeInv, MsgsInv, Msgs
<1>2. m.arp.hw_dst \in DatClients
  BY <1>1 DEF TrueMsg, TrueReply
<1>3. datCache[m.to] \in [DatIps -> Entries]
  BY <1>1 DEF TypeInv
<1>4. /\ new \in [DatIps -> Entries]
      /\ \A i \in DatIps : new[i].mac = datCache[m.to][i].mac \/ <<i, new[i].mac>> \in learnt
  BY <1>1, <1>2, <1>3, LearnReply
<1>5. learnt \in SUBSET (DatIps \X DatClients)
  BY <1>1, <1>2 DEF Arps
<1>6. datCache' = [datCache EXCEPT ![m.to] = new]
  OBVIOUS
<1> HIDE DEF new, learnt
<1> QED BY <1>1, <1>4, <1>5, <1>6, EntryKept

\* A request begins: its answer is known, or its broadcast waits.
LEMMA OutgoingServed ==
  ASSUME DatInv, QuietInv, NEW r \in DatRequests, NEW c \in DatClients, NEW own \in DatIps,
         NEW ip \in DatIps, dat_snoop_outgoing_arp_request(r, c, own, ip)
  PROVE  QuietInv'
<1> DEFINE n == DatAt[c]
           answer == IF DatAt[datOwner[ip]] = n THEN datOwner[ip]
                     ELSE IF Mac(n, ip) # DatNoMac /\ ~is_my_client(n, Mac(n, ip)) THEN Mac(n, ip)
                     ELSE DatNoMac
           new == [state |-> "delayed", client |-> c, from |-> own, ip |-> ip, answer |-> answer]
<1>1. /\ datReq[r].state = "none"
      /\ datCache' = [datCache EXCEPT ![n] = dat_entry_add(datCache[n], own, c)]
      /\ datMsgs \subseteq datMsgs'
      /\ datReq' = [datReq EXCEPT ![r] = new] /\ datRelay' = datRelay
      /\ datOwner' = datOwner /\ datHad' = datHad /\ datFaults' = datFaults
  BY DEF dat_snoop_outgoing_arp_request
<1>2. n \in DatNodes
  BY DatAssumption
<1> SUFFICES ASSUME datFaults = 0
             PROVE  TrulyOwned' /\ \A x \in DatRequests : FloodOn(x)' /\ AnswerComes(x)'
  BY <1>1 DEF QuietInv
<1>3. TrulyOwned /\ \A x \in DatRequests : FloodOn(x) /\ AnswerComes(x)
  BY DEF QuietInv
<1>4. CachesKeep
  <2> HIDE DEF n
  <2> QED BY <1>1, <1>2, AddKept
<1>5. ASSUME NEW x \in DatRequests \ {r} PROVE FloodOn(x)' /\ AnswerComes(x)'
  <2>1. datReq'[x] = datReq[x] /\ datRelay'[x] = datRelay[x]
    BY <1>1, <1>5 DEF DatInv, TypeInv
  <2>2. SameRequest(x) /\ datReq'[x].state = datReq[x].state /\ datReq'[x].answer = datReq[x].answer
    BY <2>1 DEF SameRequest
  <2>3. /\ \A m \in datMsgs : m.kind = "BCAST" /\ m.arp.req = x => m \in datMsgs'
        /\ \A m \in datMsgs : OnItsWay(m, x) /\ Apart(x) =>
             datReq'[x].answer # DatNoMac \/ \E y \in datMsgs' : OnItsWay(y, x)
    BY <1>1
  <2> QED BY <1>1, <1>3, <1>4, <1>5, <2>1, <2>2, <2>3, StillComes
<1>8. datReq'[r] = new /\ \A d \in DatNodes : datRelay'[r][d] = "none"
  BY <1>1 DEF DatInv, TypeInv, RequestsInv
<1>9. new.state = "delayed" /\ new.client = c /\ new.ip = ip /\ new.answer = answer
  OBVIOUS
<1>10. \A d \in DatNodes : Stage(r, d)' = IF d = n THEN "delayed" ELSE "none"
  BY <1>8, <1>9 DEF Stage
<1>11. FloodOn(r)'
  BY <1>10 DEF FloodOn
<1>6. AnswerComes(r)'
  <2>1. datOwner[ip] \in DatClients /\ DatNoMac \notin DatClients
    BY DatAssumption DEF DatInv, TypeInv
  <2>2. DatAt[datOwner[ip]] \in DatNodes
    BY <2>1, DatAssumption
  <2>3. CASE DatAt[datOwner[ip]] = n
    BY <1>8, <1>9, <2>1, <2>3 DEF AnswerComes
  <2>4. CASE DatAt[datOwner[ip]] # n
    <3>1. Apart(r)'
      BY <1>1, <1>8, <1>9, <2>4 DEF Apart
    <3>2. Stage(r, DatAt[datOwner[datReq[r].ip]])' = "none"
      BY <1>1, <1>8, <1>9, <1>10, <2>2, <2>4
    <3> QED BY <3>1, <3>2 DEF AnswerComes
  <2> QED BY <2>3, <2>4
<1>7. TrulyOwned'
  BY <1>1, <1>3 DEF TrulyOwned
<1> QED BY <1>5, <1>6, <1>7, <1>11

\* A node that sends the flood on sends it to all that hear it; one that drops
\* it knows the address.
LEMMA FloodServed ==
  ASSUME DatInv, QuietInv, NEW r \in DatRequests, datReq[r].state # "none", NEW n \in DatNodes,
         datCache' = datCache, datOwner' = datOwner, datHad' = datHad, datFaults' = datFaults,
         datMsgs \subseteq datMsgs',
         Mac(n, datReq[r].ip) = DatNoMac => Bcast(n, r) \subseteq datMsgs',
         \A x \in DatRequests : SameRequest(x) /\ datReq'[x].answer = datReq[x].answer,
         \A x \in DatRequests \ {r} :
           datReq'[x].state = datReq[x].state /\ datRelay'[x] = datRelay[x],
         \A d \in DatNodes \ {n} : Stage(r, d)' = Stage(r, d),
         Stage(r, n) # "none",
         \/ Stage(r, n)' = Stage(r, n)
         \/ Stage(r, n)' = IF Mac(n, datReq[r].ip) # DatNoMac THEN "dropped" ELSE "sent"
  PROVE  QuietInv'
<1> SUFFICES ASSUME datFaults = 0
             PROVE  TrulyOwned' /\ \A x \in DatRequests : FloodOn(x)' /\ AnswerComes(x)'
  BY DEF QuietInv
<1>1. TrulyOwned /\ \A x \in DatRequests : FloodOn(x) /\ AnswerComes(x)
  BY DEF QuietInv
<1>2. CachesKeep
  BY DEF CachesKeep
<1>3. ASSUME NEW x \in DatRequests \ {r} PROVE FloodOn(x)' /\ AnswerComes(x)'
  BY <1>1, <1>2, <1>3, StillComes
<1>4. \A d \in DatNodes : Stage(r, d) # "none" => Stage(r, d)' # "none"
  OBVIOUS
<1>5. RequestOf(r)' = RequestOf(r)
  BY DEF RequestOf, Request, SameRequest
<1>6. ASSUME NEW d \in DatNodes, Comes(r, d) PROVE Comes(r, d)'
  BY <1>4, <1>5, <1>6 DEF Comes
<1>7. ASSUME Mac(n, datReq[r].ip) = DatNoMac, NEW d \in DatHears[n] PROVE Comes(r, d)'
  <2>1. d \in DatNodes
    BY <1>7, DatAssumption
  <2>2. CASE bcast_is_new(r, d)
    <3>1. [kind |-> "BCAST", to |-> d, arp |-> RequestOf(r)] \in datMsgs'
      BY <1>7, <2>2 DEF Bcast
    <3> QED BY <1>5, <3>1 DEF Comes
  <2>3. CASE ~bcast_is_new(r, d)
    <3>1. Stage(r, d) # "none"
      BY <2>3 DEF bcast_is_new, Stage
    <3> QED BY <1>4, <2>1, <3>1 DEF Comes
  <2> QED BY <2>2, <2>3
<1>8. FloodOn(r)'
  <2>1. ASSUME NEW o \in DatNodes
        PROVE  /\ Stage(r, o)' = "sent" =>
                    Stage(r, o) = "sent" \/ \A d \in DatHears[o] : Comes(r, d)'
               /\ Stage(r, o)' = "dropped" =>
                    Stage(r, o) = "dropped" \/ Mac(o, datReq[r].ip) # DatNoMac
    <3>1. CASE Stage(r, o)' = Stage(r, o)
      BY <3>1
    <3>2. CASE o = n /\ Mac(n, datReq[r].ip) # DatNoMac /\ Stage(r, o)' = "dropped"
      BY <3>2
    <3>3. CASE o = n /\ Mac(n, datReq[r].ip) = DatNoMac /\ Stage(r, o)' = "sent"
      BY <1>7, <3>3
    <3> QED BY <3>1, <3>2, <3>3
  <2> QED BY <1>1, <1>2, <1>6, <2>1, FloodStays
<1>9. AnswerComes(r)'
  <2>1. datReq[r].ip \in DatIps
    BY DEF DatInv, RequestsInv
  <2>2. DatAt[datOwner[datReq[r].ip]] \in DatNodes
    BY <2>1, DatAssumption DEF DatInv, TypeInv
  <2>3. PICK at \in DatNodes : at = DatAt[datOwner[datReq[r].ip]]
    BY <2>2
  <2>4. Stage(r, at)' # "none" => Stage(r, at) # "none"
    BY <2>3
  <2> QED BY <1>1, <2>3, <2>4, AnswerStays
<1>10. TrulyOwned'
  BY <1>1 DEF TrulyOwned
<1> QED BY <1>3, <1>8, <1>9, <1>10

LEMMA BroadcastServed ==
  ASSUME DatInv, QuietInv, NEW r \in DatRequests, SendBroadcast(r)
  PROVE  QuietInv'
<1>2. datReq[r].state = "delayed" /\ DatAt[datReq[r].client] \in DatNodes
  BY DatAssumption DEF SendBroadcast, DatInv, RequestsInv
<1>7. PICK n \in DatNodes : n = DatAt[datReq[r].client]
  BY <1>2
<1> DEFINE state == IF Mac(n, datReq[r].ip) # DatNoMac THEN "dropped" ELSE "sent"
<1>1. /\ datReq[r].state = "delayed"
      /\ datReq' = [datReq EXCEPT ![r].state = state]
      /\ datMsgs \subseteq datMsgs'
      /\ Mac(n, datReq[r].ip) = DatNoMac => Bcast(n, r) \subseteq datMsgs'
      /\ datOwner' = datOwner /\ datHad' = datHad /\ datFaults' = datFaults
      /\ datCache' = datCache /\ datRelay' = datRelay
  BY <1>7 DEF SendBroadcast, dat_drop_broadcast_packet
<1>3. /\ datReq'[r].state = state /\ datReq'[r].client = datReq[r].client
      /\ \A x \in DatRequests : SameRequest(x) /\ datReq'[x].answer = datReq[x].answer
      /\ \A x \in DatRequests \ {r} :
           datReq'[x].state = datReq[x].state /\ datRelay'[x] = datRelay[x]
  BY <1>1 DEF DatInv, TypeInv, ReqStates, SameRequest
<1>4. /\ Stage(r, n) # "none" /\ Stage(r, n)' = state
      /\ \A d \in DatNodes \ {n} : Stage(r, d)' = Stage(r, d)
  BY <1>1, <1>3, <1>7 DEF Stage
<1>5. Stage(r, n)' = IF Mac(n, datReq[r].ip) # DatNoMac THEN "dropped" ELSE "sent"
  BY <1>4
<1>6. datReq[r].state # "none"
  BY <1>1
<1> HIDE DEF state
<1> QED BY <1>1, <1>3, <1>4, <1>5, <1>6, FloodServed

LEMMA RelayServed ==
  ASSUME DatInv, QuietInv, NEW r \in DatRequests, NEW n \in DatNodes, RelayBroadcast(r, n)
  PROVE  QuietInv'
<1> DEFINE state == IF Mac(n, datReq[r].ip) # DatNoMac THEN "dropped" ELSE "sent"
<1>1. /\ datRelay[r][n] = "delayed"
      /\ datRelay' = [datRelay EXCEPT ![r][n] = state]
      /\ datMsgs \subseteq datMsgs'
      /\ Mac(n, datReq[r].ip) = DatNoMac => Bcast(n, r) \subseteq datMsgs'
      /\ datOwner' = datOwner /\ datHad' = datHad /\ datFaults' = datFaults
      /\ datCache' = datCache /\ datReq' = datReq
  BY DEF RelayBroadcast, dat_drop_broadcast_packet
<1>2. datReq[r].state # "none"
  BY <1>1 DEF DatInv, RequestsInv
<1>3. /\ \A x \in DatRequests : SameRequest(x) /\ datReq'[x].answer = datReq[x].answer
      /\ \A x \in DatRequests \ {r} :
           datReq'[x].state = datReq[x].state /\ datRelay'[x] = datRelay[x]
      /\ datRelay'[r][n] = state /\ \A d \in DatNodes \ {n} : datRelay'[r][d] = datRelay[r][d]
  BY <1>1 DEF DatInv, TypeInv, SameRequest
<1>4. /\ Stage(r, n) # "none" /\ Stage(r, n)' \in {Stage(r, n), state}
      /\ \A d \in DatNodes \ {n} : Stage(r, d)' = Stage(r, d)
  BY <1>1, <1>2, <1>3 DEF Stage
<1>5. \/ Stage(r, n)' = Stage(r, n)
      \/ Stage(r, n)' = IF Mac(n, datReq[r].ip) # DatNoMac THEN "dropped" ELSE "sent"
  BY <1>4
<1> HIDE DEF state
<1> QED BY <1>1, <1>2, <1>3, <1>4, <1>5, FloodServed

\* A question at a node: the flood has been there, and the owner's node brings
\* it to the owner or answers from its cache.
LEMMA QuestionServed ==
  ASSUME DatInv, QuietInv, NEW m \in datMsgs, dat_snoop_incoming_arp_request(m)
  PROVE  QuietInv'
<1> DEFINE n == m.to
           r == m.arp.req
           known == Mac(n, m.arp.ip_dst)
<1>1. /\ m.kind \in Questions
      /\ datCache' = [datCache EXCEPT ![n] = dat_entry_add(datCache[n], m.arp.ip_src, m.arp.hw_src)]
      /\ datMsgs' = (datMsgs \ {m}) \cup
           IF known = DatNoMac THEN Lan(n, m.arp)
           ELSE {[kind |-> "CACHE_REPLY", to |-> DatAt[m.arp.hw_src],
                  arp |-> Reply(m.arp, known)]}
      /\ datOwner' = datOwner /\ datHad' = datHad /\ datFaults' = datFaults /\ datReq' = datReq
      /\ m.kind = "BCAST" => datRelay' = [datRelay EXCEPT ![r][n] = "delayed"]
      /\ m.kind # "BCAST" => datRelay' = datRelay
  BY DEF dat_snoop_incoming_arp_request, Questions
<1>2. n \in DatNodes /\ m.arp \in Arps /\ TrueMsg(m)
  BY DEF DatInv, TypeInv, MsgsInv, Msgs
<1>3. /\ m.arp.ip_src \in DatIps /\ m.arp.hw_src \in DatClients /\ m.arp.ip_dst \in DatIps
      /\ r \in DatRequests
  BY <1>2 DEF Arps
<1>4. m.arp = RequestOf(r) /\ datReq[r].state # "none"
  BY <1>1, <1>2 DEF TrueMsg, TrueQuestion
<1>5. m.arp.op = "REQUEST" /\ m.arp.ip_dst = datReq[r].ip /\ m.arp.hw_src = datReq[r].client
  BY <1>3, <1>4, RequestIs
<1> SUFFICES ASSUME datFaults = 0
             PROVE  TrulyOwned' /\ \A x \in DatRequests : FloodOn(x)' /\ AnswerComes(x)'
  BY <1>1 DEF QuietInv
<1>6. TrulyOwned /\ \A x \in DatRequests : FloodOn(x) /\ AnswerComes(x)
  BY DEF QuietInv
<1>7. CachesKeep
  <2> HIDE DEF n
  <2> QED BY <1>1, <1>2, <1>3, AddKept
<1>8. \A x \in DatRequests, y \in datMsgs : OnItsWay(y, x) => y \in datMsgs'
  BY <1>1 DEF OnItsWay, Questions
<1>9. \A x \in DatRequests : SameRequest(x)
  BY <1>1 DEF SameRequest
<1>10. ASSUME NEW x \in DatRequests, datRelay'[x] = datRelay[x],
              \A y \in datMsgs : y.kind = "BCAST" /\ y.arp.req = x => y \in datMsgs'
       PROVE  FloodOn(x)' /\ AnswerComes(x)'
  BY <1>1, <1>6, <1>7, <1>8, <1>9, <1>10, StillComes
<1>11. CASE m.kind # "BCAST"
  <2>1. \A y \in datMsgs : y.kind = "BCAST" => y \in datMsgs'
    BY <1>1, <1>11
  <2>2. \A x \in DatRequests : FloodOn(x)' /\ AnswerComes(x)'
    BY <1>1, <1>10, <1>11, <2>1
  <2> QED BY <1>1, <1>6, <2>2 DEF TrulyOwned
<1>12. CASE m.kind = "BCAST"
  <2>1. ASSUME NEW x \in DatRequests \ {r} PROVE FloodOn(x)' /\ AnswerComes(x)'
    <3>1. datRelay'[x] = datRelay[x]
      BY <1>1, <1>12, <2>1 DEF DatInv, TypeInv
    <3>2. \A y \in datMsgs : y.arp.req = x => y \in datMsgs'
      BY <1>1, <2>1
    <3> QED BY <1>10, <2>1, <3>1, <3>2
  <2>2. /\ datRelay'[r][n] = "delayed"
        /\ \A d \in DatNodes \ {n} : datRelay'[r][d] = datRelay[r][d]
    BY <1>1, <1>2, <1>3, <1>12 DEF DatInv, TypeInv
  <2>3. /\ \A d \in DatNodes \ {n} : Stage(r, d)' = Stage(r, d)
        /\ Stage(r, n)' \in {Stage(r, n), "delayed"} /\ Stage(r, n)' # "none"
    BY <1>1, <1>4, <2>2 DEF Stage
  <2>4. RequestOf(r)' = RequestOf(r)
    BY <1>1 DEF RequestOf
  <2>5. ASSUME NEW d \in DatNodes, Comes(r, d) PROVE Comes(r, d)'
    <3>1. CASE d = n
      BY <2>3, <3>1 DEF Comes
    <3>2. CASE d # n
      <4> DEFINE y == [kind |-> "BCAST", to |-> d, arp |-> RequestOf(r)]
      <4>1. y # m
        BY <3>2
      <4>2. y \in datMsgs => y \in datMsgs'
        BY <1>1, <4>1
      <4> QED BY <2>3, <2>4, <2>5, <3>2, <4>2 DEF Comes
    <3> QED BY <3>1, <3>2
  <2>6. FloodOn(r)'
    <3> HIDE DEF n, r
    <3>1. \A o \in DatNodes : \/ Stage(r, o)' = Stage(r, o) \/ Stage(r, o)' = "delayed"
      BY <2>3
    <3> QED BY <1>3, <1>4, <1>6, <1>7, <1>9, <2>5, <3>1, FloodStays
  <2>7. AnswerComes(r)'
    <3>1. PICK o \in DatClients : o = datOwner[datReq[r].ip]
      BY <1>3, <1>5 DEF DatInv, TypeInv
    <3>2. PICK at \in DatNodes : at = DatAt[o]
      BY DatAssumption
    <3>3. ASSUME n = at PROVE \E y \in datMsgs' : OnItsWay(y, r)
      <4>1. CASE known = DatNoMac
        <5> DEFINE y == [kind |-> "FROM_LAN", to |-> n, arp |-> Reply(m.arp, o)]
        <5>1. y \in datMsgs'
          BY <1>1, <1>5, <3>1, <3>2, <3>3, <4>1 DEF Lan
        <5>2. /\ y.kind = "FROM_LAN" /\ y.arp.req = r /\ y.arp.hw_src = o
              /\ y.arp.hw_dst = datReq[r].client
          BY <1>5 DEF Reply
        <5> HIDE DEF y
        <5>3. OnItsWay(y, r)
          BY <3>1, <5>2 DEF OnItsWay
        <5> QED BY <5>1, <5>3
      <4>2. CASE known # DatNoMac
        <5> DEFINE y == [kind |-> "CACHE_REPLY", to |-> DatAt[m.arp.hw_src],
                         arp |-> Reply(m.arp, known)]
        <5>1. y \in datMsgs'
          BY <1>1, <4>2
        <5>2. known = o
          BY <1>2, <1>3, <1>5, <1>6, <3>1, <4>2, CacheSaysOwner
        <5>3. /\ y.kind = "CACHE_REPLY" /\ y.arp.req = r /\ y.to = DatAt[datReq[r].client]
              /\ y.arp.hw_src = o /\ y.arp.hw_dst = datReq[r].client
          BY <1>5, <5>2 DEF Reply
        <5> HIDE DEF y
        <5>4. OnItsWay(y, r)
          BY <3>1, <5>3 DEF OnItsWay
        <5> QED BY <5>1, <5>4
      <4> QED BY <4>1, <4>2
    <3>4. Stage(r, at)' # "none" =>
            Stage(r, at) # "none" \/ \E y \in datMsgs' : OnItsWay(y, r)
      BY <2>3, <3>3
    <3>5. at = DatAt[datOwner[datReq[r].ip]]
      BY <3>1, <3>2
    <3> HIDE DEF n, r
    <3> QED BY <1>1, <1>3, <1>4, <1>6, <1>8, <1>9, <3>4, <3>5, AnswerStays
  <2> QED BY <1>1, <1>6, <2>1, <2>6, <2>7 DEF TrulyOwned
<1> QED BY <1>11, <1>12

\* The owner's answer leaves its node for the client that asked.
LEMMA OwnAnswerServed ==
  ASSUME DatInv, QuietInv, NEW m \in datMsgs, dat_snoop_outgoing_arp_reply(m)
  PROVE  QuietInv'
<1> DEFINE data == [kind |-> "DATA", to |-> DatAt[m.arp.hw_dst], arp |-> m.arp]
<1>1. /\ m.kind = "FROM_LAN" /\ m.kind \in Answers
      /\ datCache' = [datCache EXCEPT ![m.to] = learnt_from_reply(datCache[m.to], m.arp)]
      /\ datMsgs \ {m} \subseteq datMsgs' /\ data \in datMsgs'
      /\ datOwner' = datOwner /\ datHad' = datHad /\ datFaults' = datFaults /\ datReq' = datReq
      /\ datRelay' = datRelay
  BY DEF dat_snoop_outgoing_arp_reply, Answers
<1> SUFFICES ASSUME datFaults = 0
             PROVE  TrulyOwned' /\ \A x \in DatRequests : FloodOn(x)' /\ AnswerComes(x)'
  BY <1>1 DEF QuietInv
<1>2. TrulyOwned /\ \A x \in DatRequests : FloodOn(x) /\ AnswerComes(x)
  BY DEF QuietInv
<1>3. CachesKeep
  BY <1>1, LearnKept
<1>4. ASSUME NEW r \in DatRequests, OnItsWay(m, r)
      PROVE  OnItsWay(data, r)
  <2>1. /\ data.kind = "DATA" /\ data.to = DatAt[m.arp.hw_dst] /\ data.arp = m.arp
    OBVIOUS
  <2> HIDE DEF data
  <2> QED BY <1>1, <1>4, <2>1 DEF OnItsWay
<1> HIDE DEF data
<1>5. ASSUME NEW r \in DatRequests PROVE FloodOn(r)' /\ AnswerComes(r)'
  <2>1. \A x \in datMsgs : OnItsWay(x, r) /\ Apart(r) =>
          datReq'[r].answer # DatNoMac \/ \E y \in datMsgs' : OnItsWay(y, r)
    BY <1>1, <1>4
  <2>2. SameRequest(r) /\ \A x \in datMsgs : x.kind = "BCAST" => x \in datMsgs'
    BY <1>1 DEF SameRequest
  <2> QED BY <1>1, <1>2, <1>3, <2>1, <2>2, StillComes
<1>6. TrulyOwned'
  BY <1>1, <1>2 DEF TrulyOwned
<1> QED BY <1>5, <1>6

\* The answer arrives at the node of the client that asked: it is for a client
\* of that node, and about one of another.
LEMMA AnswerServed ==
  ASSUME DatInv, QuietInv, NEW m \in datMsgs, dat_snoop_incoming_arp_reply(m)
  PROVE  QuietInv'
<1> DEFINE dropped == ~is_my_client(m.to, m.arp.hw_dst) \/ is_my_client(m.to, m.arp.hw_src)
<1>1. /\ m.kind \in Answers /\ m.kind # "FROM_LAN"
      /\ datCache' = [datCache EXCEPT ![m.to] = learnt_from_reply(datCache[m.to], m.arp)]
      /\ datMsgs' = datMsgs \ {m}
      /\ dropped => datReq' = datReq
      /\ ~dropped => datReq' = Answered(m.arp.req, m.arp.hw_src)
      /\ datOwner' = datOwner /\ datHad' = datHad /\ datFaults' = datFaults
      /\ datRelay' = datRelay
  BY DEF dat_snoop_incoming_arp_reply, Answers
<1>2. m.arp \in Arps
  BY DEF DatInv, TypeInv, Msgs
<1>3. m.arp.req \in DatRequests /\ m.arp.hw_src \in DatClients /\ DatNoMac \notin DatClients
  BY <1>2, DatAssumption DEF Arps
<1> SUFFICES ASSUME datFaults = 0
             PROVE  TrulyOwned' /\ \A x \in DatRequests : FloodOn(x)' /\ AnswerComes(x)'
  BY <1>1 DEF QuietInv
<1>4. TrulyOwned /\ \A x \in DatRequests : FloodOn(x) /\ AnswerComes(x)
  BY DEF QuietInv
<1>5. CachesKeep
  BY <1>1, LearnKept
<1>6. /\ \A x \in DatRequests :
           /\ datReq'[x].state = datReq[x].state /\ SameRequest(x)
           /\ datReq'[x].answer = datReq[x].answer \/ datReq'[x].answer # DatNoMac
      /\ ~dropped => datReq'[m.arp.req].answer # DatNoMac
  <2>1. CASE dropped
    BY <1>1, <2>1 DEF SameRequest
  <2>2. CASE ~dropped
    <3> DEFINE q == m.arp.req
    <3>1. datReq' = Answered(q, m.arp.hw_src) /\ q \in DatRequests
      BY <1>1, <1>3, <2>2
    <3> HIDE DEF q
    <3>2. \A x \in DatRequests :
            /\ datReq'[x].state = datReq[x].state /\ SameRequest(x)
            /\ datReq'[x].answer = datReq[x].answer \/ datReq'[x].answer # DatNoMac
      BY <1>3, <3>1 DEF DatInv, TypeInv, ReqStates, Answered, SameRequest
    <3>3. datReq'[q].answer # DatNoMac
      BY <1>3, <3>1 DEF DatInv, TypeInv, ReqStates, Answered
    <3> QED BY <3>2, <3>3 DEF q
  <2> QED BY <2>1, <2>2
<1>7. ASSUME NEW r \in DatRequests, OnItsWay(m, r), Apart(r)
      PROVE  datReq'[r].answer # DatNoMac
  <2>1. m.arp.req = r
    BY <1>7 DEF OnItsWay
  <2>2. /\ m.to = DatAt[datReq[r].client] /\ m.arp.hw_src = datOwner[datReq[r].ip]
        /\ m.arp.hw_dst = datReq[r].client
    BY <1>1, <1>7 DEF OnItsWay, Answers
  <2>3. ~dropped
    BY <1>7, <2>2 DEF is_my_client, Apart
  <2> QED BY <1>6, <2>1, <2>3
<1>8. ASSUME NEW r \in DatRequests PROVE FloodOn(r)' /\ AnswerComes(r)'
  <2>1. \A x \in datMsgs : OnItsWay(x, r) /\ Apart(r) =>
          datReq'[r].answer # DatNoMac \/ \E y \in datMsgs' : OnItsWay(y, r)
    BY <1>1, <1>7
  <2>2. \A x \in datMsgs : x.kind = "BCAST" => x \in datMsgs'
    BY <1>1 DEF Answers
  <2> QED BY <1>1, <1>4, <1>5, <1>6, <2>1, <2>2, StillComes
<1>9. TrulyOwned'
  BY <1>1, <1>4 DEF TrulyOwned
<1> QED BY <1>8, <1>9

\* The faults are a count.
FaultsInv == datFaults \in Nat

LEMMA FaultsCounted == DatSpec => []FaultsInv
<1>1. DatInit => FaultsInv
  BY DEF DatInit, FaultsInv
<1>2. FaultsInv /\ [DatNext]_datVars => FaultsInv'
  <2> SUFFICES ASSUME FaultsInv, [DatNext]_datVars PROVE datFaults' = datFaults \/ DatFault
    BY DEF FaultsInv, DatFault
  <2>1. ASSUME NEW r \in DatRequests,
               \/ \E c \in DatClients, from, ip \in DatIps :
                    dat_snoop_outgoing_arp_request(r, c, from, ip)
               \/ SendBroadcast(r)
               \/ \E n \in DatNodes : RelayBroadcast(r, n)
        PROVE  datFaults' = datFaults
    BY <2>1 DEF dat_snoop_outgoing_arp_request, SendBroadcast, RelayBroadcast
  <2>2. ASSUME NEW m \in datMsgs,
               \/ dat_snoop_incoming_arp_request(m) \/ dat_snoop_outgoing_arp_reply(m)
               \/ dat_snoop_incoming_arp_reply(m)
        PROVE  datFaults' = datFaults
    BY <2>2 DEF dat_snoop_incoming_arp_request, dat_snoop_outgoing_arp_reply,
                dat_snoop_incoming_arp_reply
  <2>3. ASSUME \/ \E ip \in DatIps, c \in DatClients : Move(ip, c)
               \/ dat_purge \/ \E m \in datMsgs : DatLose(m)
        PROVE  DatFault
    BY <2>3 DEF Move, dat_purge, DatLose
  <2>4. CASE UNCHANGED datVars
    BY <2>4 DEF datVars
  <2> QED BY <2>1, <2>2, <2>3, <2>4 DEF DatNext
<1> QED BY <1>1, <1>2, PTL DEF DatSpec

\* While nothing is lost, moves or expires, every flood goes on, and every
\* request whose flood has come to the owner has its answer or gets it.
LEMMA AnswersOnTheirWay == DatSpec => []QuietInv
<1>1. DatInit => QuietInv
  <2> SUFFICES ASSUME DatInit
               PROVE  TrulyOwned /\ \A r \in DatRequests : FloodOn(r) /\ AnswerComes(r)
    BY DEF QuietInv
  <2>1. TrulyOwned
    BY DEF DatInit, TrulyOwned
  <2>2. \A r \in DatRequests :
          datReq[r].state = "none" /\ \A n \in DatNodes : datRelay[r][n] = "none"
    BY DEF DatInit, Idle
  <2> QED BY <2>1, <2>2 DEF AnswerComes, FloodOn, Stage
<1>2. DatInv /\ FaultsInv /\ QuietInv /\ [DatNext]_datVars => QuietInv'
  <2> SUFFICES ASSUME DatInv, FaultsInv, QuietInv, [DatNext]_datVars PROVE QuietInv'
    OBVIOUS
  <2>1. CASE DatFault
    BY <2>1 DEF DatFault, FaultsInv, QuietInv
  <2>2. CASE UNCHANGED datVars
    BY <2>2 DEF datVars, QuietInv, TrulyOwned, AnswerComes, Apart, OnItsWay, Mac, FloodOn,
                Stage, Comes, RequestOf
  <2>3. CASE \/ \E ip \in DatIps, c \in DatClients : Move(ip, c)
             \/ dat_purge \/ \E m \in datMsgs : DatLose(m)
    BY <2>1, <2>3 DEF Move, dat_purge, DatLose
  <2>4. CASE \E r \in DatRequests :
               \/ \E c \in DatClients, from, ip \in DatIps :
                    dat_snoop_outgoing_arp_request(r, c, from, ip)
               \/ SendBroadcast(r)
               \/ \E n \in DatNodes : RelayBroadcast(r, n)
    BY <2>4, OutgoingServed, BroadcastServed, RelayServed
  <2>5. CASE \E m \in datMsgs :
               \/ dat_snoop_incoming_arp_request(m) \/ dat_snoop_outgoing_arp_reply(m)
               \/ dat_snoop_incoming_arp_reply(m)
    BY <2>5, QuestionServed, OwnAnswerServed, AnswerServed
  <2> QED BY <2>2, <2>3, <2>4, <2>5 DEF DatNext
<1> QED BY <1>1, <1>2, MessagesTrue, FaultsCounted, PTL DEF DatSpec

\* The distributed ARP table is typed, names nobody who never had the address,
\* and answers every request that nothing disturbs, over any number of hops: the
\* flood comes to the owner or ends at nodes that have the answer
\* (distributed-arp-table.c, routing.c, send.c).
THEOREM RequestsServed == DatSpec => []DatAnswers
<1>1. DatInv => DatTypeOK
  BY DEF DatInv, TypeInv, Entries, ReqStates, FloodStates, DatTypeOK
<1>2. DatInv => DatAnswerWasTrue
  BY DEF DatInv
<1>3. DatInv /\ QuietInv => DatServed
  <2> SUFFICES ASSUME DatInv, QuietInv, datFaults = 0, NEW r \in DatRequests,
                      datReq[r].state \in {"sent", "dropped"}, \A m \in datMsgs : m.arp.req # r,
                      \A n \in DatNodes : datRelay[r][n] # "delayed",
                      datReq[r].answer = DatNoMac
               PROVE  \E n \in DroppedAt(r) : Mac(n, datReq[r].ip) = datOwner[datReq[r].ip]
    BY DEF DatServed
  <2>1. /\ DatAt[datReq[r].client] \in DatNodes /\ datReq[r].ip \in DatIps
        /\ DatAt[datOwner[datReq[r].ip]] \in DatNodes
    BY DatAssumption DEF DatInv, RequestsInv, TypeInv
  <2>2. TrulyOwned /\ FloodOn(r) /\ AnswerComes(r)
    BY DEF QuietInv
  <2>3. CASE \E n \in DatNodes : Stage(r, n) = "dropped"
    <3>1. PICK n \in DatNodes : Stage(r, n) = "dropped"
      BY <2>3
    <3>2. n \in DroppedAt(r)
      BY <3>1 DEF DroppedAt, Stage
    <3>3. Mac(n, datReq[r].ip) # DatNoMac
      BY <2>2, <3>1 DEF FloodOn
    <3> QED BY <2>1, <2>2, <3>2, <3>3, CacheSaysOwner
  <2>4. CASE \A n \in DatNodes : Stage(r, n) # "dropped"
    <3> DEFINE reached == {n \in DatNodes : Stage(r, n) # "none"}
    <3>1. DatAt[datReq[r].client] \in reached
      BY <2>1 DEF Stage
    <3>2. ASSUME NEW n \in reached PROVE DatHears[n] \subseteq reached
      <4>1. Stage(r, n) \in FloodStates /\ Stage(r, n) \notin {"none", "delayed", "dropped"}
        BY <2>4, <3>2 DEF Stage, DatInv, TypeInv, ReqStates
      <4>2. \A d \in DatHears[n] : Comes(r, d)
        BY <2>2, <3>2, <4>1 DEF FloodOn, FloodStates
      <4>3. RequestOf(r).req = r
        BY RequestIs
      <4>4. ASSUME NEW d \in DatNodes
            PROVE  [kind |-> "BCAST", to |-> d, arp |-> RequestOf(r)] \notin datMsgs
        BY <4>3
      <4>5. DatHears[n] \subseteq DatNodes
        BY <3>2, DatAssumption
      <4> QED BY <4>2, <4>4, <4>5 DEF Comes
    <3>3. reached = DatNodes
      <4>1. reached \in SUBSET DatNodes /\ reached # {}
        BY <3>1
      <4> HIDE DEF reached
      <4> QED BY <3>2, <4>1, DatConnected
    <3>4. \E m \in datMsgs : OnItsWay(m, r)
      BY <2>1, <2>2, <3>3 DEF AnswerComes
    <3> QED BY <3>4 DEF OnItsWay
  <2> QED BY <2>3, <2>4
<1> QED BY <1>1, <1>2, <1>3, MessagesTrue, AnswersOnTheirWay, PTL DEF DatAnswers

-----------------------------------------------------------------------------
(***************************************************************************)
(* Gateways                                                                *)
(***************************************************************************)
(* Induction, and the functions on prefixes of the list that it gives *)

LEMMA SmallestNumber ==
  ASSUME NEW T \in SUBSET Nat, T # {}
  PROVE  \E x \in T : \A y \in T : x <= y
<1> DEFINE R == {ss \in Nat \X Nat : ss[1] < ss[2]}
<1>1. IsWellFoundedOn(R, Nat)
  BY NatLessThanWellFounded DEF OpToRel
<1> HIDE DEF R
<1>2. PICK x \in T : \A y \in T : ~(<<y, x>> \in R)
  BY <1>1, WFMin
<1>3. \A y \in T : ~(y < x)
  BY <1>2 DEF R
<1> QED BY <1>3

LEMMA NumbersUpTo ==
  ASSUME NEW n \in Nat, NEW S, 0 \in S, \A i \in 0..(n - 1) : i \in S => i + 1 \in S
  PROVE  0..n \subseteq S
<1> SUFFICES ASSUME NEW m \in 0..n, m \notin S PROVE FALSE
  OBVIOUS
<1> DEFINE T == {i \in Nat : i <= n /\ i \notin S}
<1>1. m \in T /\ T \in SUBSET Nat
  OBVIOUS
<1>2. PICK x \in T : \A y \in T : x <= y
  BY <1>1, SmallestNumber
<1>3. x # 0 /\ x - 1 \in 0..(n - 1)
  OBVIOUS
<1>4. x - 1 \in S
  BY <1>2, <1>3
<1>5. (x - 1) + 1 \in S
  BY <1>3, <1>4
<1> QED BY <1>5

\* What Left and BestOf do with one gateway more
LeftStep(removed, left, i) ==
  IF i = 0 THEN <<>>
  ELSE IF gwList[i].orig \in removed THEN left[i - 1]
  ELSE Append(left[i - 1], gwList[i])

BestStep(best, i) ==
  IF i = 0 THEN [gw |-> NoGateway, tq |-> 0, factor |-> 0]
  ELSE gw_better(gwList[i], best[i - 1])

LEMMA LeftIs ==
  ASSUME NEW removed, Len(gwList) \in Nat
  PROVE  Left(removed) = [i \in 0..Len(gwList) |-> LeftStep(removed, Left(removed), i)]
<1> DEFINE n == Len(gwList)
           Made(m) == \E G : G = [i \in 0..m |-> LeftStep(removed, G, i)]
           S == {m \in 0..n : Made(m)}
<1>1. 0 \in S
  <2>1. [i \in 0..0 |-> <<>>] = [i \in 0..0 |-> LeftStep(removed, [j \in 0..0 |-> <<>>], i)]
    BY DEF LeftStep
  <2> QED BY <2>1
<1>2. ASSUME NEW m \in 0..(n - 1), m \in S
      PROVE  m + 1 \in S
  <2>1. PICK G : G = [i \in 0..m |-> LeftStep(removed, G, i)]
    BY <1>2
  <2> DEFINE H == [i \in 0..(m + 1) |-> IF i <= m THEN G[i] ELSE LeftStep(removed, G, i)]
  <2>2. ASSUME NEW i \in 0..(m + 1)
        PROVE  LeftStep(removed, G, i) = LeftStep(removed, H, i)
    <3>1. i = 0 \/ (i - 1 \in 0..(m + 1) /\ i - 1 <= m)
      OBVIOUS
    <3>2. i = 0 \/ H[i - 1] = G[i - 1]
      BY <3>1
    <3> HIDE DEF H
    <3> QED BY <3>2 DEF LeftStep
  <2>3. ASSUME NEW i \in 0..(m + 1)
        PROVE  H[i] = LeftStep(removed, H, i)
    <3>1. H[i] = LeftStep(removed, G, i)
      <4>1. CASE i <= m
        <5>1. i \in 0..m
          BY <4>1
        <5> HIDE DEF n
        <5>2. G[i] = LeftStep(removed, G, i)
          BY <2>1, <5>1
        <5> QED BY <4>1, <5>2
      <4>2. CASE ~(i <= m)
        BY <4>2
      <4> QED BY <4>1, <4>2
    <3> HIDE DEF H
    <3> QED BY <2>2, <3>1
  <2>4. H = [i \in 0..(m + 1) |-> H[i]]
    OBVIOUS
  <2>5. H = [i \in 0..(m + 1) |-> LeftStep(removed, H, i)]
    <3> HIDE DEF H
    <3> QED BY <2>3, <2>4
  <2>6. m + 1 \in 0..n
    OBVIOUS
  <2> QED BY <2>5, <2>6
<1>3. n \in S
  <2> HIDE DEF S
  <2>1. 0..n \subseteq S
    BY <1>1, <1>2, NumbersUpTo
  <2> QED BY <2>1
<1>4. PICK G : G = [i \in 0..n |-> LeftStep(removed, G, i)]
  BY <1>3
<1> DEFINE L == CHOOSE F : F = [i \in 0..n |-> LeftStep(removed, F, i)]
<1>5. L = [i \in 0..n |-> LeftStep(removed, L, i)]
  BY <1>4
<1>6. Left(removed) = L
  BY DEF Left, LeftStep
<1> HIDE DEF L
<1> QED BY <1>5, <1>6

LEMMA BestIs ==
  ASSUME Len(gwList) \in Nat
  PROVE  BestOf = [i \in 0..Len(gwList) |-> BestStep(BestOf, i)]
<1> DEFINE n == Len(gwList)
           Made(m) == \E G : G = [i \in 0..m |-> BestStep(G, i)]
           S == {m \in 0..n : Made(m)}
           none == [gw |-> NoGateway, tq |-> 0, factor |-> 0]
<1>1. 0 \in S
  <2>1. [i \in 0..0 |-> none] = [i \in 0..0 |-> BestStep([j \in 0..0 |-> none], i)]
    BY DEF BestStep
  <2> QED BY <2>1
<1>2. ASSUME NEW m \in 0..(n - 1), m \in S
      PROVE  m + 1 \in S
  <2>1. PICK G : G = [i \in 0..m |-> BestStep(G, i)]
    BY <1>2
  <2> DEFINE H == [i \in 0..(m + 1) |-> IF i <= m THEN G[i] ELSE BestStep(G, i)]
  <2>2. ASSUME NEW i \in 0..(m + 1)
        PROVE  BestStep(G, i) = BestStep(H, i)
    <3>1. i = 0 \/ (i - 1 \in 0..(m + 1) /\ i - 1 <= m)
      OBVIOUS
    <3>2. i = 0 \/ H[i - 1] = G[i - 1]
      BY <3>1
    <3> HIDE DEF H
    <3> QED BY <3>2 DEF BestStep
  <2>3. ASSUME NEW i \in 0..(m + 1)
        PROVE  H[i] = BestStep(H, i)
    <3>1. H[i] = BestStep(G, i)
      <4>1. CASE i <= m
        <5>1. i \in 0..m
          BY <4>1
        <5> HIDE DEF n
        <5>2. G[i] = BestStep(G, i)
          BY <2>1, <5>1
        <5> QED BY <4>1, <5>2
      <4>2. CASE ~(i <= m)
        BY <4>2
      <4> QED BY <4>1, <4>2
    <3> HIDE DEF H
    <3> QED BY <2>2, <3>1
  <2>4. H = [i \in 0..(m + 1) |-> H[i]]
    OBVIOUS
  <2>5. H = [i \in 0..(m + 1) |-> BestStep(H, i)]
    <3> HIDE DEF H
    <3> QED BY <2>3, <2>4
  <2>6. m + 1 \in 0..n
    OBVIOUS
  <2> QED BY <2>5, <2>6
<1>3. n \in S
  <2> HIDE DEF S
  <2>1. 0..n \subseteq S
    BY <1>1, <1>2, NumbersUpTo
  <2> QED BY <2>1
<1>4. PICK G : G = [i \in 0..n |-> BestStep(G, i)]
  BY <1>3
<1> DEFINE L == CHOOSE F : F = [i \in 0..n |-> BestStep(F, i)]
<1>5. L = [i \in 0..n |-> BestStep(L, i)]
  BY <1>4
<1>6. BestOf = L
  BY DEF BestOf, BestStep
<1> HIDE DEF L
<1> QED BY <1>5, <1>6
-----------------------------------------------------------------------------
(* The invariant *)

\* A pointer to a gateway, or to none
GwRefSet == {NoGateway} \cup [orig : Gateways, listed : BOOLEAN]

GwSpeedSet == [down : Nat \ {0}, up : Nat \ {0}]

GwEntries == [orig : Gateways, down : Nat, up : Nat]

\* The list holds a gateway once, none with a bandwidth of zero.
GwListOK ==
  /\ gwList \in Seq(GwEntries)
  /\ \A i, j \in DOMAIN gwList : gwList[i].orig = gwList[j].orig => i = j
  /\ \A i \in DOMAIN gwList : gwList[i].down # 0

GwTyped ==
  /\ gwMode \in GwModes /\ gwClass \in 1..255 /\ gwReselect \in {0, 1}
  /\ gwOwn \in GwSpeedSet
  /\ gwTq \in [Gateways -> GwTqs \cup {NoRouter}]
  /\ gwCurr \in GwRefSet /\ gwWork.curr \in GwRefSet /\ gwWork.next \in GwRefSet
  /\ gwWork.at \in {"idle", "elect", "best", "select"}
  /\ gwWork \in [at : {"idle", "elect", "best", "select"}, curr : GwRefSet, next : GwRefSet]
  /\ gwStore = NotStoring \/ gwStore \in [to : GwModes, event : BOOLEAN]
  /\ gwStore.to # gwMode
  /\ gwView \in Gateways \cup {GwNone}
  /\ gwUp \in BOOLEAN /\ gwRaced \in BOOLEAN /\ gwFinal \in BOOLEAN

Announced ==
  gwStore = NotStoring /\ gwUp => gwAnnounced = gw_tvlv_container(gwMode, gwOwn)

\* The selection while nothing overlapped an election
Settled ==
  ~gwRaced =>
    /\ Electing => gwStore = NotStoring /\ gwMode = "client"
    /\ gwWork.at = "best" => gwWork.curr = gwCurr
    /\ gwWork.at = "select" => /\ gwView = gwWork.next.orig
                               /\ gwWork.next = NoGateway \/ gwWork.next.listed
    /\ gwWork.at # "select" => gwView = gwCurr.orig \/ gwStore.event
    /\ gwStore # NotStoring \/ gwMode # "client" => gwCurr = NoGateway
    /\ ~Electing /\ gwMode = "client" /\ gwCurr # NoGateway
       => gwCurr.listed \/ gwReselect = 1

\* No gateway g is better than the selected one by what the class asks for.
WithinOf(g) ==
  gwTq[g] > 0 =>
    /\ gwCurr # NoGateway
    /\ gwTq[g] - gwTq[gwCurr.orig] < (IF gwClass > 3 THEN gwClass ELSE 1)

\* None is better than the one an election chose.
BehindNext(g) ==
  gwTq[g] > 0 => gwWork.next # NoGateway /\ gwTq[g] <= gwTq[gwWork.next.orig]

Fitting ==
  ~gwRaced /\ gwUp /\ gwClass > 2 =>
    /\ gwStore # NotStoring => ~gwFinal /\ (gwMode # "client" => gwReselect = 1)
    /\ gwStore = NotStoring /\ gwMode = "client" =>
         /\ gwWork.at \in {"idle", "elect"} =>
              \A g \in Listed : gwFinal \/ (g \in gwHeard /\ gwReselect = 0) => WithinOf(g)
         /\ gwWork.at = "select" =>
              \A g \in Listed : gwFinal \/ g \in gwHeard => BehindNext(g)

\* A gateway that was heard since the last change is listed.
HeardIsListed == gwHeard \subseteq Listed

GwInv == GwTyped /\ GwListOK /\ HeardIsListed /\ Announced /\ Settled /\ Fitting

-----------------------------------------------------------------------------
(* The list *)

\* s is what is left of the first i gateways of the list.
LeftFits(removed, s, i) ==
  /\ s \in Seq(GwEntries)
  /\ \A k \in 1..Len(s) :
       \E m \in 1..i : s[k] = gwList[m] /\ gwList[m].orig \notin removed
  /\ \A j, k \in 1..Len(s) : s[j].orig = s[k].orig => j = k
  /\ \A m \in 1..i : gwList[m].orig \notin removed => \E k \in 1..Len(s) : s[k] = gwList[m]

LEMMA LeftFitsAll ==
  ASSUME GwListOK, NEW removed
  PROVE  LeftFits(removed, Left(removed)[Len(gwList)], Len(gwList))
<1> DEFINE n == Len(gwList)
           L == Left(removed)
           S == {i \in 0..n : LeftFits(removed, L[i], i)}
<1>0. n \in Nat /\ \A i \in 1..n : gwList[i] \in GwEntries
  BY DEF GwListOK
<1>1. \A i \in 0..n : L[i] = LeftStep(removed, L, i)
  <2>1. L = [i \in 0..n |-> LeftStep(removed, L, i)]
    BY <1>0, LeftIs
  <2> HIDE DEF L
  <2> QED BY <2>1
<1> HIDE DEF L, n
<1>2. 0 \in S
  <2>1. L[0] = <<>> /\ 0 \in 0..n
    BY <1>0, <1>1 DEF LeftStep
  <2>2. <<>> \in Seq(GwEntries) /\ Len(<<>>) = 0 /\ 1..0 = {}
    OBVIOUS
  <2>3. LeftFits(removed, <<>>, 0)
    BY <2>2 DEF LeftFits
  <2> QED BY <2>1, <2>3
<1>3. ASSUME NEW i \in 0..(n - 1), i \in S
      PROVE  i + 1 \in S
  <2>1. i + 1 \in 1..n /\ i + 1 # 0 /\ (i + 1) - 1 = i /\ i \in Nat
    BY <1>0
  <2> DEFINE e == gwList[i + 1]
             s == L[i]
  <2>2. LeftFits(removed, s, i) /\ e \in GwEntries
    BY <1>0, <1>3, <2>1
  <2>3. L[i + 1] = IF e.orig \in removed THEN s ELSE Append(s, e)
    BY <1>0, <1>1, <2>1 DEF LeftStep
  <2>4. CASE e.orig \in removed
    <3>1. LeftFits(removed, s, i + 1)
      <4>1. ASSUME NEW m \in 1..(i + 1), gwList[m].orig \notin removed
            PROVE  m \in 1..i
        BY <2>1, <2>4, <4>1
      <4>2. \A m \in 1..i : m \in 1..(i + 1)
        BY <2>1
      <4> QED BY <2>2, <4>1, <4>2 DEF LeftFits
    <3> QED BY <1>0, <2>1, <2>3, <2>4, <3>1
  <2>5. CASE e.orig \notin removed
    <3> DEFINE t == Append(s, e)
    <3>1. /\ s \in Seq(GwEntries) /\ t \in Seq(GwEntries) /\ Len(s) \in Nat
          /\ Len(t) = Len(s) + 1 /\ t[Len(t)] = e /\ \A k \in 1..Len(s) : t[k] = s[k]
      BY <2>2 DEF LeftFits
    <3> HIDE DEF t
    <3>2. \A k \in 1..Len(s) : \E m \in 1..i : s[k] = gwList[m] /\ gwList[m].orig \notin removed
      BY <2>2 DEF LeftFits
    <3>3. \A k \in 1..Len(t) : \E m \in 1..(i + 1) : t[k] = gwList[m] /\ gwList[m].orig \notin removed
      <4>1. ASSUME NEW k \in 1..Len(t)
            PROVE  \E m \in 1..(i + 1) : t[k] = gwList[m] /\ gwList[m].orig \notin removed
        <5>1. CASE k = Len(t)
          BY <2>1, <2>5, <3>1, <5>1
        <5>2. CASE k # Len(t)
          <6>1. k \in 1..Len(s)
            BY <3>1, <5>2
          <6>2. PICK m \in 1..i : s[k] = gwList[m] /\ gwList[m].orig \notin removed
            BY <3>2, <6>1
          <6>3. m \in 1..(i + 1) /\ t[k] = s[k]
            BY <2>1, <3>1, <6>1
          <6> QED BY <6>2, <6>3
        <5> QED BY <5>1, <5>2
      <4> QED BY <4>1
    <3>4. \A k \in 1..Len(s) : s[k].orig # e.orig
      <4>1. ASSUME NEW k \in 1..Len(s), s[k].orig = e.orig
            PROVE  FALSE
        <5>1. PICK m \in 1..i : s[k] = gwList[m]
          BY <3>2
        <5>2. m \in DOMAIN gwList /\ i + 1 \in DOMAIN gwList /\ m # i + 1
          BY <1>0, <2>1 DEF n, GwListOK
        <5> QED BY <4>1, <5>1, <5>2 DEF GwListOK
      <4> QED BY <4>1
    <3>5. \A j, k \in 1..Len(t) : t[j].orig = t[k].orig => j = k
      <4>1. \A j, k \in 1..Len(s) : s[j].orig = s[k].orig => j = k
        BY <2>2 DEF LeftFits
      <4>2. \A k \in 1..Len(t) : k = Len(t) \/ k \in 1..Len(s)
        BY <3>1
      <4> QED BY <3>1, <3>4, <4>1, <4>2
    <3>6. \A m \in 1..(i + 1) : gwList[m].orig \notin removed => \E k \in 1..Len(t) : t[k] = gwList[m]
      <4>1. ASSUME NEW m \in 1..(i + 1), gwList[m].orig \notin removed
            PROVE  \E k \in 1..Len(t) : t[k] = gwList[m]
        <5>1. CASE m = i + 1
          BY <3>1, <5>1
        <5>2. CASE m # i + 1
          <6>1. m \in 1..i
            BY <2>1, <5>2
          <6>2. PICK k \in 1..Len(s) : s[k] = gwList[m]
            BY <2>2, <4>1, <6>1 DEF LeftFits
          <6>3. k \in 1..Len(t)
            BY <3>1
          <6> QED BY <3>1, <6>2, <6>3
        <5> QED BY <5>1, <5>2
      <4> QED BY <4>1
    <3>7. LeftFits(removed, t, i + 1)
      BY <3>1, <3>3, <3>5, <3>6 DEF LeftFits
    <3>8. L[i + 1] = t
      BY <2>3, <2>5 DEF t
    <3>9. i + 1 \in 0..n
      BY <1>0, <2>1
    <3> QED BY <3>7, <3>8, <3>9
  <2> QED BY <2>4, <2>5
<1>4. n \in S
  <2> HIDE DEF S
  <2>1. 0..n \subseteq S
    BY <1>0, <1>2, <1>3, NumbersUpTo
  <2> QED BY <1>0, <2>1
<1> QED BY <1>4 DEF n, L

\* The list that is left holds the gateways that were not removed.
LEMMA LeftKeeps ==
  ASSUME GwListOK, NEW removed, gwList' = Left(removed)[Len(gwList)]
  PROVE  GwListOK' /\ Listed' = Listed \ removed
<1> DEFINE s == Left(removed)[Len(gwList)]
           n == Len(gwList)
<1>1. LeftFits(removed, s, n) /\ gwList' = s
  BY LeftFitsAll
<1>2. n \in Nat /\ DOMAIN gwList = 1..n /\ \A i \in 1..n : gwList[i].down # 0
  BY DEF GwListOK
<1> HIDE DEF s, n
<1>3. s \in Seq(GwEntries) /\ DOMAIN s = 1..Len(s)
  BY <1>1 DEF LeftFits
<1>4. \A k \in 1..Len(s) : \E m \in 1..n : s[k] = gwList[m] /\ gwList[m].orig \notin removed
  BY <1>1 DEF LeftFits
<1>5. \A m \in 1..n : gwList[m].orig \notin removed => \E k \in 1..Len(s) : s[k] = gwList[m]
  BY <1>1 DEF LeftFits
<1>6. \A j, k \in 1..Len(s) : s[j].orig = s[k].orig => j = k
  BY <1>1 DEF LeftFits
<1>7. GwListOK'
  <2>1. \A k \in 1..Len(s) : s[k].down # 0
    BY <1>2, <1>4
  <2> QED BY <1>1, <1>3, <1>6, <2>1 DEF GwListOK
<1>8. Listed' = {s[k].orig : k \in 1..Len(s)}
  BY <1>1, <1>3 DEF Listed
<1>9. Listed = {gwList[m].orig : m \in 1..n}
  BY <1>2 DEF Listed
<1>10. Listed' \subseteq Listed \ removed
  BY <1>4, <1>8, <1>9
<1>11. Listed \ removed \subseteq Listed'
  BY <1>5, <1>8, <1>9
<1> QED BY <1>7, <1>10, <1>11

-----------------------------------------------------------------------------
(* The best gateway *)

\* b is a result for the first i gateways of the list.
BestFits(b, i) ==
  /\ b.tq \in Nat
  /\ b.gw = NoGateway \/ \E m \in 1..i : b.gw = [orig |-> gwList[m].orig, listed |-> TRUE]
  /\ gwClass # 1 =>
       /\ \A m \in 1..i : gwTq[gwList[m].orig] <= b.tq
       /\ b.tq > 0 => b.gw # NoGateway /\ gwTq[b.gw.orig] = b.tq

\* The gateways of the list
LEMMA ListIs ==
  ASSUME GwListOK
  PROVE  /\ Len(gwList) \in Nat /\ DOMAIN gwList = 1..Len(gwList)
         /\ \A m \in 1..Len(gwList) : gwList[m] \in GwEntries /\ gwList[m].orig \in Gateways
<1>1. gwList \in Seq(GwEntries)
  BY DEF GwListOK
<1>2. /\ Len(gwList) \in Nat /\ DOMAIN gwList = 1..Len(gwList)
      /\ \A m \in 1..Len(gwList) : gwList[m] \in GwEntries
  BY <1>1
<1> QED BY <1>2 DEF GwEntries

LEMMA BetterFits ==
  ASSUME GwTyped, GwListOK, NEW i \in Nat, i + 1 \in 1..Len(gwList), NEW b, BestFits(b, i)
  PROVE  BestFits(gw_better(gwList[i + 1], b), i + 1)
<1> DEFINE e == gwList[i + 1]
           t == gwTq[e.orig]
           c == gw_better(e, b)
<1>1. e \in GwEntries /\ e.orig \in Gateways
  BY ListIs
<1>2. t \in Int /\ t >= NoRouter /\ NoRouter = -1 /\ (t = NoRouter \/ t \in Nat)
  <2>1. t \in GwTqs \cup {NoRouter}
    BY <1>1 DEF GwTyped
  <2> HIDE DEF t
  <2>2. GwTqs \subseteq Nat
    BY GwAssumption
  <2>3. t = NoRouter \/ t \in Nat
    BY <2>1, <2>2
  <2> QED BY <2>3 DEF NoRouter
<1>3. [orig |-> e.orig, listed |-> TRUE] # NoGateway
  BY <1>1, GwAssumption DEF NoGateway
<1>4. \A m \in 1..(i + 1) : m \in 1..i \/ m = i + 1
  OBVIOUS
<1>5. \A m \in 1..i : m \in 1..(i + 1)
  OBVIOUS
<1>6. i + 1 \in 1..(i + 1)
  OBVIOUS
<1>7. CASE t = NoRouter
  <2>1. c = b
    BY <1>7 DEF gw_better
  <2>2. b.tq \in Nat /\ t <= b.tq
    <3>1. b.tq \in Nat
      BY DEF BestFits
    <3> DEFINE q == b.tq
    <3> HIDE DEF q
    <3> QED BY <1>2, <1>7, <3>1 DEF q
  <2> HIDE DEF c
  <2> QED BY <1>4, <1>5, <2>1, <2>2 DEF BestFits, c
<1>8. CASE t # NoRouter
  <2> DEFINE wins == IF gwClass = 1
                     THEN \/ (IF gwClass = 1 THEN gw_factor(e) ELSE 0) > b.factor
                          \/ (IF gwClass = 1 THEN gw_factor(e) ELSE 0) = b.factor /\ t > b.tq
                     ELSE t > b.tq
  <2>1. /\ c.gw = (IF wins THEN [orig |-> e.orig, listed |-> TRUE] ELSE b.gw)
        /\ c.tq = (IF t > b.tq THEN t ELSE b.tq)
    BY <1>8 DEF gw_better
  <2>2. gwClass # 1 => (wins <=> t > b.tq)
    OBVIOUS
  <2> HIDE DEF c, wins
  <2>3. b.tq \in Nat /\ t \in Nat
    BY <1>2, <1>8 DEF BestFits
  <2> DEFINE bt == b.tq
             ct == c.tq
  <2>4. ct \in Nat /\ t <= ct /\ bt <= ct /\ (t > bt => ct = t) /\ (~(t > bt) => ct = bt)
    <3>1. ct = (IF t > bt THEN t ELSE bt)
      BY <2>1
    <3>2. bt \in Nat /\ t \in Nat
      BY <2>3
    <3> HIDE DEF ct, bt, t
    <3> QED BY <3>1, <3>2
  <2>5. c.gw = NoGateway \/ \E m \in 1..(i + 1) : c.gw = [orig |-> gwList[m].orig, listed |-> TRUE]
    <3>1. CASE wins
      BY <1>6, <2>1, <3>1
    <3>2. CASE ~wins
      BY <1>5, <2>1, <3>2 DEF BestFits
    <3> QED BY <3>1, <3>2
  <2>6. ASSUME gwClass # 1
        PROVE  /\ \A m \in 1..(i + 1) : gwTq[gwList[m].orig] <= c.tq
               /\ c.tq > 0 => c.gw # NoGateway /\ gwTq[c.gw.orig] = c.tq
    <3>1. ASSUME NEW m \in 1..(i + 1)
          PROVE  gwTq[gwList[m].orig] <= ct
      <4>1. CASE m = i + 1
        BY <2>4, <4>1
      <4>2. CASE m \in 1..i
        <5> DEFINE q == gwTq[gwList[m].orig]
        <5>1. q <= bt
          BY <2>6, <4>2 DEF BestFits
        <5>2. q \in Int
          <6>0. m \in 1..Len(gwList)
            BY <4>2, ListIs
          <6>1. gwList[m].orig \in Gateways
            BY <6>0, ListIs
          <6>2. q \in GwTqs \cup {NoRouter}
            BY <6>1 DEF GwTyped
          <6> HIDE DEF q
          <6> QED BY <6>2, GwAssumption DEF NoRouter
        <5> HIDE DEF q, bt, ct
        <5>3. bt \in Nat
          BY <2>3 DEF bt
        <5>4. q <= ct
          BY <2>4, <5>1, <5>2, <5>3
        <5> QED BY <5>4 DEF q
      <4> QED BY <1>4, <4>1, <4>2
    <3>2. CASE t > bt
      <4>1. c.gw = [orig |-> e.orig, listed |-> TRUE] /\ ct = t
        BY <2>1, <2>2, <2>4, <2>6, <3>2
      <4>2. c.gw.orig = e.orig
        BY <4>1
      <4> QED BY <1>3, <3>1, <4>1, <4>2
    <3>3. CASE ~(t > bt)
      <4>1. c.gw = b.gw /\ ct = bt
        BY <2>1, <2>2, <2>4, <2>6, <3>3
      <4>2. bt > 0 => b.gw # NoGateway /\ gwTq[b.gw.orig] = bt
        BY <2>6 DEF BestFits
      <4> QED BY <3>1, <4>1, <4>2
    <3> QED BY <3>2, <3>3
  <2>7. c.tq \in Nat
    BY <2>4
  <2>8. BestFits(c, i + 1)
    BY <2>5, <2>6, <2>7 DEF BestFits
  <2> QED BY <2>8 DEF c
<1> QED BY <1>7, <1>8

LEMMA BestFitsAll ==
  ASSUME GwTyped, GwListOK
  PROVE  BestFits(BestOf[Len(gwList)], Len(gwList))
<1> DEFINE n == Len(gwList)
           B == BestOf
           S == {i \in 0..n : BestFits(B[i], i)}
<1>0. n \in Nat
  BY DEF GwListOK
<1>1. \A i \in 0..n : B[i] = BestStep(B, i)
  <2>1. B = [i \in 0..n |-> BestStep(B, i)]
    BY <1>0, BestIs
  <2> HIDE DEF B
  <2> QED BY <2>1
<1> HIDE DEF B
<1>2. 0 \in S
  <2>1. B[0] = [gw |-> NoGateway, tq |-> 0, factor |-> 0]
    BY <1>0, <1>1 DEF BestStep
  <2> QED BY <1>0, <2>1 DEF BestFits
<1>3. ASSUME NEW i \in 0..(n - 1), i \in S
      PROVE  i + 1 \in S
  <2>1. i + 1 \in 1..n /\ i + 1 # 0 /\ (i + 1) - 1 = i /\ i \in Nat /\ i + 1 \in 0..n
    BY <1>0
  <2>2. BestFits(B[i], i)
    BY <1>3
  <2>3. B[i + 1] = gw_better(gwList[i + 1], B[i])
    BY <1>1, <2>1 DEF BestStep
  <2>4. BestFits(B[i + 1], i + 1)
    BY <2>1, <2>2, <2>3, BetterFits
  <2> QED BY <2>1, <2>4
<1>4. n \in S
  <2> HIDE DEF S, n
  <2>1. 0..n \subseteq S
    BY <1>0, <1>2, <1>3, NumbersUpTo
  <2> QED BY <1>0, <2>1
<1> QED BY <1>4 DEF B

\* What an election chooses: a gateway of the list, and but for class 1 none of
\* the list is better.
LEMMA BestIsBest ==
  ASSUME GwTyped, GwListOK
  PROVE  LET best == gw_get_best_gw_node
         IN  /\ best \in GwRefSet
             /\ best = NoGateway \/ best.listed
             /\ gwClass # 1 =>
                  \A g \in Listed : gwTq[g] > 0 => best # NoGateway /\ gwTq[g] <= gwTq[best.orig]
<1> DEFINE n == Len(gwList)
           b == BestOf[n]
<1>1. BestFits(b, n) /\ gw_get_best_gw_node = b.gw
  BY BestFitsAll DEF gw_get_best_gw_node
<1>2. n \in Nat /\ DOMAIN gwList = 1..n /\ \A m \in 1..n : gwList[m].orig \in Gateways
  BY ListIs
<1> HIDE DEF n, b
<1>3. b.gw = NoGateway \/ \E m \in 1..n : b.gw = [orig |-> gwList[m].orig, listed |-> TRUE]
  BY <1>1 DEF BestFits
<1>4. b.gw \in GwRefSet /\ (b.gw = NoGateway \/ b.gw.listed)
  <2>1. CASE b.gw = NoGateway
    BY <2>1 DEF GwRefSet
  <2>2. CASE \E m \in 1..n : b.gw = [orig |-> gwList[m].orig, listed |-> TRUE]
    BY <1>2, <2>2 DEF GwRefSet
  <2> QED BY <1>3, <2>1, <2>2
<1>5. ASSUME gwClass # 1, NEW g \in Listed, gwTq[g] > 0
      PROVE  b.gw # NoGateway /\ gwTq[g] <= gwTq[b.gw.orig]
  <2>1. PICK m \in 1..n : g = gwList[m].orig
    BY <1>2 DEF Listed
  <2>2. gwTq[g] <= b.tq /\ b.tq \in Nat
    BY <1>1, <1>5, <2>1 DEF BestFits
  <2>3. g \in Gateways /\ gwTq[g] \in Int
    <3>0. g \in Gateways
      BY <1>2, <2>1
    <3> DEFINE q == gwTq[g]
    <3>1. q \in GwTqs \cup {NoRouter}
      BY <3>0 DEF GwTyped
    <3> HIDE DEF q
    <3>2. q \in Int
      BY <3>1, GwAssumption DEF NoRouter
    <3> QED BY <3>0, <3>2 DEF q
  <2>4. b.tq > 0
    <3> DEFINE q == gwTq[g]
               bt == b.tq
    <3>1. q > 0 /\ q <= bt /\ q \in Int /\ bt \in Nat
      BY <1>5, <2>2, <2>3
    <3> HIDE DEF q, bt
    <3>2. bt > 0
      BY <3>1
    <3> QED BY <3>2 DEF bt
  <2>5. b.gw # NoGateway /\ gwTq[b.gw.orig] = b.tq
    BY <1>1, <1>5, <2>4 DEF BestFits
  <2> QED BY <2>2, <2>5
<1> QED BY <1>1, <1>4, <1>5

-----------------------------------------------------------------------------
(* The actions *)

\* A link quality
LEMMA TqIs ==
  ASSUME GwTyped, NEW g \in Gateways
  PROVE  gwTq[g] \in Int /\ (gwTq[g] = NoRouter \/ gwTq[g] \in Nat) /\ NoRouter = -1
<1> DEFINE q == gwTq[g]
<1>1. q \in GwTqs \cup {NoRouter}
  BY DEF GwTyped
<1> HIDE DEF q
<1>2. q \in Int /\ (q = NoRouter \/ q \in Nat) /\ NoRouter = -1
  BY <1>1, GwAssumption DEF NoRouter
<1> QED BY <1>2 DEF q

\* What is unlinked is still the same gateway.
LEMMA UnlinkIs ==
  ASSUME NEW gw \in GwRefSet, NEW removed \in SUBSET Gateways
  PROVE  /\ Unlink(gw, removed) \in GwRefSet
         /\ Unlink(gw, removed).orig = gw.orig
         /\ Unlink(gw, removed) = NoGateway <=> gw = NoGateway
         /\ gw.orig \notin removed => Unlink(gw, removed) = gw
<1>1. CASE gw = NoGateway
  BY <1>1, GwAssumption DEF Unlink, GwRefSet, NoGateway
<1>2. CASE gw # NoGateway
  <2>1. PICK g \in Gateways, b \in BOOLEAN : gw = [orig |-> g, listed |-> b]
    BY <1>2 DEF GwRefSet
  <2>2. PICK c \in BOOLEAN : /\ Unlink(gw, removed) = [orig |-> g, listed |-> c]
                             /\ g \notin removed => c = b
    <3>1. CASE g \in removed
      <4>1. Unlink(gw, removed) = [orig |-> g, listed |-> FALSE]
        BY <2>1, <3>1 DEF Unlink
      <4> QED BY <3>1, <4>1
    <3>2. CASE g \notin removed
      <4>1. Unlink(gw, removed) = [orig |-> g, listed |-> b]
        BY <2>1, <3>2 DEF Unlink
      <4> QED BY <3>2, <4>1
    <3> QED BY <3>1, <3>2
  <2>3. Unlink(gw, removed) # NoGateway
    BY <2>2, GwAssumption DEF NoGateway
  <2>4. Unlink(gw, removed) \in GwRefSet
    BY <2>2 DEF GwRefSet
  <2> QED BY <1>2, <2>1, <2>2, <2>3, <2>4
<1> QED BY <1>1, <1>2

\* A pointer to a gateway is one.
LEMMA RefIs ==
  ASSUME NEW gw \in GwRefSet
  PROVE  /\ gw.listed \in BOOLEAN
         /\ gw = NoGateway => gw.orig = GwNone /\ ~gw.listed
         /\ gw # NoGateway => gw.orig \in Gateways
<1>1. CASE gw = NoGateway
  BY <1>1 DEF NoGateway
<1>2. CASE gw # NoGateway
  <2>1. gw \in [orig : Gateways, listed : BOOLEAN]
    BY <1>2 DEF GwRefSet
  <2> QED BY <1>2, <2>1
<1> QED BY <1>1, <1>2

\* The worker's pointers, field by field
LEMMA WorkIs ==
  ASSUME GwTyped
  PROVE  /\ gwWork = [at |-> gwWork.at, curr |-> gwWork.curr, next |-> gwWork.next]
         /\ gwWork.curr \in GwRefSet /\ gwWork.next \in GwRefSet
         /\ gwWork.at \in {"idle", "elect", "best", "select"}
BY DEF GwTyped

LEMMA GwInitHolds ==
  ASSUME GwInit
  PROVE  GwInv
<1>1. NoGateway \in GwRefSet
  BY DEF GwRefSet
<1>2. GwTyped
  <2>1. gwMode \in GwModes /\ gwClass \in 1..255 /\ gwReselect \in {0, 1}
    BY GwAssumption DEF GwInit, GwModes
  <2>2. gwOwn \in GwSpeedSet
    BY DEF GwInit, GwDefault, GwSpeedSet
  <2>3. gwTq \in [Gateways -> GwTqs \cup {NoRouter}]
    BY DEF GwInit
  <2>4. /\ gwCurr \in GwRefSet /\ gwWork.curr \in GwRefSet /\ gwWork.next \in GwRefSet
        /\ gwWork.at \in {"idle", "elect", "best", "select"}
        /\ gwWork \in [at : {"idle", "elect", "best", "select"}, curr : GwRefSet, next : GwRefSet]
    BY <1>1 DEF GwInit, GwIdle
  <2>5. gwStore = NotStoring /\ gwStore.to # gwMode
    BY DEF GwInit, NotStoring
  <2> QED BY <2>1, <2>2, <2>3, <2>4, <2>5 DEF GwInit, GwTyped
<1>3. GwListOK
  BY DEF GwInit, GwListOK
<1>7. HeardIsListed
  BY DEF GwInit, HeardIsListed
<1>4. Announced
  BY DEF GwInit, Announced, gw_tvlv_container
<1>5. Settled
  BY DEF GwInit, Settled, Electing, GwIdle, NoGateway, NotStoring
<1>6. Fitting
  BY DEF GwInit, Fitting, NotStoring
<1> QED BY <1>2, <1>3, <1>4, <1>5, <1>6, <1>7 DEF GwInv

\* A gateway an OGM brings no election for is not better by what the class asks for.
LEMMA NoElectionIsWithin ==
  ASSUME GwTyped, NEW g \in Gateways, ~gw_check_election(g)
  PROVE  WithinOf(g)
<1>1. /\ gwCurr # NoGateway /\ gwTq[gwCurr.orig] # NoRouter
      /\ gwCurr.orig = g \/ gwTq[g] = NoRouter \/ ~better_by_class(g, gwCurr.orig)
  BY DEF gw_check_election
<1>2. gwCurr.orig \in Gateways
  BY <1>1, RefIs DEF GwTyped
<1> DEFINE t == gwTq[g]
           c == gwTq[gwCurr.orig]
<1>3. /\ t \in Int /\ (t = NoRouter \/ t \in Nat) /\ NoRouter = -1
      /\ c \in Int /\ (c = NoRouter \/ c \in Nat)
  BY <1>2, TqIs
<1>4. \/ c = t \/ t = NoRouter
      \/ ~(t >= c /\ (gwClass > 3 => t - c >= gwClass))
  BY <1>1 DEF better_by_class
<1>5. gwClass \in 1..255
  BY DEF GwTyped
<1> HIDE DEF t, c
<1>6. t > 0 => t - c < (IF gwClass > 3 THEN gwClass ELSE 1)
  BY <1>3, <1>4, <1>5
<1> QED BY <1>1, <1>6 DEF WithinOf, t, c

LEMMA GwOgmKeeps ==
  ASSUME GwInv, NEW g \in Gateways, NEW o \in GwOffers, Ogm(g, o)
  PROVE  GwInv'
<1> USE DEF GwInv
<1>0. GwTyped /\ GwListOK /\ HeardIsListed /\ Announced /\ Settled /\ Fitting
  OBVIOUS
<1>1. UNCHANGED <<gwMode, gwClass, gwOwn, gwAnnounced, gwStore, gwUp, gwTq, gwView>>
  BY DEF Ogm, SameSettings
<1>2. Announced'
  BY <1>0, <1>1 DEF Announced
<1>3. o.down \in Nat /\ o.up \in Nat
  BY GwAssumption
<1>4. CASE o.down = 0 \/ o.up = 0
  <2>1. /\ gwList' = Left({g})[Len(gwList)]
        /\ gwReselect' = gw_reselect_if_current({g})
        /\ gwCurr' = Unlink(gwCurr, {g})
        /\ gwWork' = [gwWork EXCEPT !.curr = Unlink(@, {g}), !.next = Unlink(@, {g})]
        /\ gwRaced' = (gwRaced \/ (gwWork.at = "select" /\ gwWork.next.orig = g))
        /\ IF g \in Listed THEN Changed ELSE UNCHANGED <<gwHeard, gwFinal>>
    BY <1>4 DEF Ogm, gw_node_delete
  <2>2. GwListOK' /\ Listed' = Listed \ {g}
    BY <1>0, <2>1, LeftKeeps
  <2>3. gwWork' = [at |-> gwWork.at, curr |-> Unlink(gwWork.curr, {g}),
                   next |-> Unlink(gwWork.next, {g})]
    <3>1. gwWork \in [at : {"idle", "elect", "best", "select"}, curr : GwRefSet, next : GwRefSet]
      BY <1>0 DEF GwTyped
    <3> QED BY <2>1, <3>1
  <2>4. /\ gwWork'.at = gwWork.at /\ gwWork'.curr = Unlink(gwWork.curr, {g})
        /\ gwWork'.next = Unlink(gwWork.next, {g})
    BY <2>3
  <2>5. gwCurr \in GwRefSet /\ gwWork.curr \in GwRefSet /\ gwWork.next \in GwRefSet
    BY <1>0 DEF GwTyped
  <2>6. /\ gwCurr' \in GwRefSet /\ gwCurr'.orig = gwCurr.orig
        /\ gwCurr' = NoGateway <=> gwCurr = NoGateway
        /\ gwCurr.orig # g => gwCurr' = gwCurr
    BY <2>1, <2>5, UnlinkIs
  <2>7. /\ gwWork'.next \in GwRefSet /\ gwWork'.next.orig = gwWork.next.orig
        /\ gwWork'.next = NoGateway <=> gwWork.next = NoGateway
        /\ gwWork.next.orig # g => gwWork'.next = gwWork.next
    BY <2>4, <2>5, UnlinkIs
  <2>8. gwWork'.curr \in GwRefSet
    BY <2>4, <2>5, UnlinkIs
  <2>9. gwReselect' \in {0, 1} /\ (gwReselect = 1 => gwReselect' = 1)
    BY <1>0, <2>1 DEF gw_reselect_if_current, GwTyped
  <2>10. GwTyped'
    <3>1. gwRaced' \in BOOLEAN /\ gwFinal' \in BOOLEAN
      BY <1>0, <2>1 DEF GwTyped, Changed
    <3>2. gwWork' \in [at : {"idle", "elect", "best", "select"}, curr : GwRefSet, next : GwRefSet]
      BY <1>0, <2>3, <2>4, <2>7, <2>8 DEF GwTyped
    <3> QED BY <1>0, <1>1, <2>4, <2>6, <2>7, <2>8, <2>9, <3>1, <3>2 DEF GwTyped
  <2>11. Settled'
    <3> SUFFICES ASSUME ~gwRaced' PROVE Settled'
      BY DEF Settled
    <3>1. ~gwRaced /\ (gwWork.at = "select" => gwWork.next.orig # g)
      BY <2>1
    <3>2. Electing' = Electing
      BY <2>4 DEF Electing
    <3>3. gwCurr # NoGateway => gwCurr'.listed = gwCurr.listed \/ gwReselect' = 1
      <4>1. CASE gwCurr.orig = g /\ gwCurr.listed
        BY <2>1, <4>1 DEF gw_reselect_if_current
      <4>2. CASE gwCurr.orig = g /\ ~gwCurr.listed
        <5>1. gwCurr # NoGateway => gwCurr'.listed = FALSE
          BY <2>1, <2>5, <4>2 DEF Unlink, GwRefSet
        <5>2. gwCurr.listed = FALSE
          BY <2>5, <4>2, RefIs
        <5> QED BY <5>1, <5>2
      <4>3. CASE gwCurr.orig # g
        BY <2>6, <4>3
      <4> QED BY <4>1, <4>2, <4>3
    <3>4. Electing => gwStore = NotStoring /\ gwMode = "client"
      BY <1>0, <3>1 DEF Settled
    <3>5. gwWork.at = "best" => gwWork'.curr = gwCurr'
      BY <1>0, <2>1, <2>4, <3>1 DEF Settled
    <3>6. gwWork.at = "select" => gwView = gwWork'.next.orig
                                  /\ (gwWork'.next = NoGateway \/ gwWork'.next.listed)
      BY <1>0, <2>7, <3>1 DEF Settled
    <3>7. gwWork.at # "select" => gwView = gwCurr'.orig \/ gwStore.event
      BY <1>0, <2>6, <3>1 DEF Settled
    <3>8. gwStore # NotStoring \/ gwMode # "client" => gwCurr' = NoGateway
      BY <1>0, <2>6, <3>1 DEF Settled
    <3>9. ~Electing /\ gwMode = "client" /\ gwCurr' # NoGateway => gwCurr'.listed \/ gwReselect' = 1
      BY <1>0, <2>6, <2>9, <3>1, <3>3 DEF Settled
    <3> QED BY <1>1, <2>4, <3>2, <3>4, <3>5, <3>6, <3>7, <3>8, <3>9 DEF Settled
  <2>12. Fitting'
    <3> SUFFICES ASSUME ~gwRaced', gwUp', gwClass' > 2 PROVE Fitting'
      BY DEF Fitting
    <3>1. ~gwRaced /\ gwUp /\ gwClass > 2
      BY <1>1, <2>1
    <3>2. \A f \in Listed' : f \in Listed /\ WithinOf(f)' = WithinOf(f) /\ BehindNext(f)' = BehindNext(f)
      BY <1>1, <2>2, <2>6, <2>7 DEF WithinOf, BehindNext
    <3>3. /\ gwFinal' => gwFinal
          /\ \A f \in gwHeard' : f \in gwHeard
          /\ gwReselect' = 0 => gwReselect = 0
      BY <1>0, <2>1, <2>9 DEF Changed, GwTyped
    <3>4. gwStore # NotStoring => ~gwFinal' /\ (gwMode # "client" => gwReselect' = 1)
      BY <1>0, <2>9, <3>1, <3>3 DEF Fitting
    <3>5. ASSUME gwStore = NotStoring, gwMode = "client", gwWork.at \in {"idle", "elect"},
                 NEW f \in Listed', gwFinal' \/ (f \in gwHeard' /\ gwReselect' = 0)
          PROVE  WithinOf(f)'
      BY <1>0, <3>1, <3>2, <3>3, <3>5 DEF Fitting
    <3>6. ASSUME gwStore = NotStoring, gwMode = "client", gwWork.at = "select",
                 NEW f \in Listed', gwFinal' \/ f \in gwHeard'
          PROVE  BehindNext(f)'
      BY <1>0, <3>1, <3>2, <3>3, <3>6 DEF Fitting
    <3> QED BY <1>1, <2>4, <3>4, <3>5, <3>6 DEF Fitting
  <2>13. HeardIsListed'
    BY <1>0, <2>1, <2>2 DEF HeardIsListed, Changed
  <2> QED BY <1>2, <2>2, <2>10, <2>11, <2>12, <2>13
<1>5. CASE ~(o.down = 0 \/ o.up = 0)
  <2>1. /\ gwList' = IF g \in Listed THEN gw_node_set(g, o) ELSE gw_node_add(g, o)
        /\ gwReselect' = IF gwMode = "client" /\ gwClass > 2 /\ gw_check_election(g)
                         THEN 1 ELSE gwReselect
        /\ gwHeard' = IF Electing THEN gwHeard ELSE gwHeard \cup {g}
        /\ gwFinal' = (gwFinal /\ g \in Listed)
        /\ UNCHANGED <<gwCurr, gwWork, gwRaced>>
    BY <1>5 DEF Ogm
  <2> DEFINE new == [orig |-> g, down |-> o.down, up |-> o.up]
             n == Len(gwList)
  <2>2. new \in GwEntries /\ new.orig = g /\ new.down # 0
    BY <1>3, <1>5 DEF GwEntries
  <2>3. n \in Nat /\ DOMAIN gwList = 1..n /\ \A m \in 1..n : gwList[m] \in GwEntries
    BY <1>0, ListIs
  <2>4. /\ \A i, j \in 1..n : gwList[i].orig = gwList[j].orig => i = j
        /\ \A i \in 1..n : gwList[i].down # 0
        /\ gwList \in Seq(GwEntries)
    BY <1>0, <2>3 DEF GwListOK
  <2>5. Listed = {gwList[i].orig : i \in 1..n}
    BY <2>3 DEF Listed
  <2>6. GwListOK' /\ Listed' = Listed \cup {g}
    <3>1. CASE g \in Listed
      <4>1. gwList' = [i \in 1..n |-> IF gwList[i].orig = g THEN new ELSE gwList[i]]
        BY <2>1, <2>3, <3>1 DEF gw_node_set
      <4> HIDE DEF new, n
      <4>2. /\ \A i \in 1..n : gwList'[i] \in GwEntries /\ gwList'[i].orig = gwList[i].orig
                               /\ gwList'[i].down # 0
            /\ DOMAIN gwList' = 1..n
        BY <2>2, <2>3, <2>4, <4>1
      <4>3. gwList' \in Seq(GwEntries)
        <5>1. gwList' \in [1..n -> GwEntries]
          BY <2>2, <2>3, <4>1
        <5> QED BY <2>3, <5>1
      <4>4. GwListOK'
        BY <2>4, <4>2, <4>3 DEF GwListOK
      <4>5. Listed' = {gwList[i].orig : i \in 1..n}
        BY <4>2 DEF Listed
      <4> QED BY <2>5, <3>1, <4>4, <4>5
    <3>2. CASE g \notin Listed
      <4>1. gwList' = <<new>> \o gwList
        BY <2>1, <3>2 DEF gw_node_add
      <4> HIDE DEF new, n
      <4>2. /\ gwList' \in Seq(GwEntries) /\ Len(gwList') = n + 1 /\ DOMAIN gwList' = 1..(n + 1)
            /\ gwList'[1] = new /\ \A i \in 2..(n + 1) : gwList'[i] = gwList[i - 1]
        BY <2>2, <2>4, <4>1 DEF n
      <4>3. \A i \in 1..(n + 1) : i = 1 \/ (i \in 2..(n + 1) /\ i - 1 \in 1..n)
        BY <2>3
      <4>4. \A i \in 1..n : i + 1 \in 2..(n + 1) /\ (i + 1) - 1 = i
        BY <2>3
      <4>5. \A i \in 1..n : gwList[i].orig # g
        BY <2>5, <3>2
      <4>6. ASSUME NEW i \in 1..(n + 1), NEW j \in 1..(n + 1), gwList'[i].orig = gwList'[j].orig
            PROVE  i = j
        <5>1. CASE i = 1 /\ j = 1
          BY <5>1
        <5>2. CASE i = 1 /\ j # 1
          BY <2>2, <4>2, <4>3, <4>5, <4>6, <5>2
        <5>3. CASE i # 1 /\ j = 1
          BY <2>2, <4>2, <4>3, <4>5, <4>6, <5>3
        <5>4. CASE i # 1 /\ j # 1
          <6>1. i - 1 = j - 1
            BY <2>4, <4>2, <4>3, <4>6, <5>4
          <6> QED BY <6>1
        <5> QED BY <5>1, <5>2, <5>3, <5>4
      <4>7. \A i \in 1..(n + 1) : gwList'[i].down # 0
        BY <2>2, <2>4, <4>2, <4>3
      <4>8. GwListOK'
        BY <4>2, <4>6, <4>7 DEF GwListOK
      <4>9. Listed' = {gwList'[i].orig : i \in 1..(n + 1)}
        BY <4>2 DEF Listed
      <4>10. Listed' \subseteq Listed \cup {g}
        <5>1. ASSUME NEW i \in 1..(n + 1) PROVE gwList'[i].orig \in Listed \cup {g}
          BY <2>2, <2>5, <4>2, <4>3
        <5> QED BY <4>9, <5>1
      <4>11. Listed \cup {g} \subseteq Listed'
        <5>1. g \in Listed'
          <6>1. 1 \in 1..(n + 1)
            BY <2>3
          <6>2. gwList'[1].orig = g
            BY <2>2, <4>2
          <6> QED BY <4>9, <6>1, <6>2
        <5>2. ASSUME NEW i \in 1..n PROVE gwList[i].orig \in Listed'
          <6>1. i + 1 \in 1..(n + 1) /\ gwList'[i + 1].orig = gwList[i].orig
            BY <2>3, <4>2, <4>4
          <6> QED BY <4>9, <6>1
        <5> QED BY <2>5, <5>1, <5>2
      <4> QED BY <4>8, <4>10, <4>11
    <3> QED BY <3>1, <3>2
  <2> HIDE DEF new, n
  <2>7. gwReselect' \in {0, 1} /\ (gwReselect = 1 => gwReselect' = 1)
    BY <1>0, <2>1 DEF GwTyped
  <2>8. GwTyped'
    BY <1>0, <1>1, <2>1, <2>7 DEF GwTyped
  <2>9. Settled'
    BY <1>0, <1>1, <2>1, <2>7 DEF Settled, Electing
  <2>10. Fitting'
    <3> SUFFICES ASSUME ~gwRaced', gwUp', gwClass' > 2 PROVE Fitting'
      BY DEF Fitting
    <3>1. ~gwRaced /\ gwUp /\ gwClass > 2
      BY <1>1, <2>1
    <3>2. \A f \in Gateways : WithinOf(f)' = WithinOf(f) /\ BehindNext(f)' = BehindNext(f)
      BY <1>1, <2>1 DEF WithinOf, BehindNext
    <3>3. Listed \subseteq Gateways
      BY <2>3, <2>5 DEF GwEntries
    <3>4. gwStore # NotStoring => ~gwFinal' /\ (gwMode # "client" => gwReselect' = 1)
      BY <1>0, <2>1, <2>7, <3>1 DEF Fitting
    <3>5. ASSUME gwStore = NotStoring, gwMode = "client", gwWork.at \in {"idle", "elect"},
                 NEW f \in Listed', gwFinal' \/ (f \in gwHeard' /\ gwReselect' = 0)
          PROVE  WithinOf(f)'
      <4>1. gwReselect' = 0 => gwReselect = 0 /\ ~gw_check_election(g)
        BY <1>0, <2>1, <3>1, <3>5 DEF GwTyped
      <4>2. f \in Gateways
        BY <2>6, <3>3
      <4>3. CASE gwFinal'
        <5>1. f \in Listed /\ gwFinal
          BY <2>1, <2>6, <4>3
        <5>2. WithinOf(f)
          BY <1>0, <3>1, <3>5, <5>1 DEF Fitting
        <5> QED BY <3>2, <4>2, <5>2
      <4>4. CASE ~gwFinal' /\ f = g
        BY <1>0, <3>2, <3>5, <4>1, <4>2, <4>4, NoElectionIsWithin
      <4>5. CASE ~gwFinal' /\ f # g
        <5>1. f \in Listed /\ f \in gwHeard /\ gwReselect = 0
          BY <2>1, <2>6, <3>5, <4>1, <4>5
        <5>2. WithinOf(f)
          BY <1>0, <3>1, <3>5, <5>1 DEF Fitting
        <5> QED BY <3>2, <4>2, <5>2
      <4> QED BY <4>3, <4>4, <4>5
    <3>6. ASSUME gwStore = NotStoring, gwMode = "client", gwWork.at = "select",
                 NEW f \in Listed', gwFinal' \/ f \in gwHeard'
          PROVE  BehindNext(f)'
      <4>1. gwHeard' = gwHeard
        BY <2>1, <3>6 DEF Electing
      <4>2. f \in Gateways
        BY <2>6, <3>3
      <4>3. CASE gwFinal'
        <5>1. f \in Listed /\ gwFinal
          BY <2>1, <2>6, <4>3
        <5>2. BehindNext(f)
          BY <1>0, <3>1, <3>6, <5>1 DEF Fitting
        <5> QED BY <3>2, <4>2, <5>2
      <4>4. CASE f \in gwHeard /\ f \in Listed
        <5>1. BehindNext(f)
          BY <1>0, <3>1, <3>6, <4>4 DEF Fitting
        <5> QED BY <3>2, <4>2, <5>1
      <4> QED BY <1>0, <3>6, <4>1, <4>3, <4>4 DEF HeardIsListed
    <3> QED BY <1>1, <2>1, <3>4, <3>5, <3>6 DEF Fitting
  <2>11. HeardIsListed'
    BY <1>0, <2>1, <2>6 DEF HeardIsListed
  <2> QED BY <1>2, <2>6, <2>8, <2>9, <2>10, <2>11
<1> QED BY <1>4, <1>5

\* A route changes: what was heard of the gateways is out of date.
LEMMA RouteKeeps ==
  ASSUME GwInv, NEW g \in Gateways, NEW t \in GwTqs \cup {NoRouter}, Route(g, t)
  PROVE  GwInv'
<1>0. GwTyped /\ GwListOK /\ HeardIsListed /\ Announced /\ Settled /\ Fitting
  BY DEF GwInv
<1>1. /\ UNCHANGED <<gwMode, gwClass, gwOwn, gwAnnounced, gwStore, gwUp>>
      /\ UNCHANGED <<gwReselect, gwList, gwCurr, gwWork, gwView, gwRaced>>
      /\ gwTq' = [gwTq EXCEPT ![g] = t] /\ gwHeard' = {} /\ gwFinal' = FALSE
  BY DEF Route, SameSettings, Changed
<1>2. gwTq' \in [Gateways -> GwTqs \cup {NoRouter}]
  BY <1>0, <1>1 DEF GwTyped
<1>3. GwTyped'
  BY <1>0, <1>1, <1>2 DEF GwTyped
<1>4. GwListOK' /\ HeardIsListed' /\ Announced'
  BY <1>0, <1>1 DEF GwListOK, HeardIsListed, Announced
<1>5. Settled'
  BY <1>0, <1>1 DEF Settled, Electing
<1>6. Fitting'
  BY <1>0, <1>1 DEF Fitting
<1> QED BY <1>3, <1>4, <1>5, <1>6 DEF GwInv

LEMMA GwPurgeKeeps ==
  ASSUME GwInv, NEW gone \in SUBSET Gateways, Purge(gone)
  PROVE  GwInv'
<1>0. GwTyped /\ GwListOK /\ HeardIsListed /\ Announced /\ Settled /\ Fitting
  BY DEF GwInv
<1>1. /\ UNCHANGED <<gwMode, gwClass, gwOwn, gwAnnounced, gwStore, gwUp, gwView, gwRaced>>
      /\ gwWork.at = "idle" /\ gwList' = Left(gone)[Len(gwList)]
      /\ gwReselect' = gw_reselect_if_current(gone) /\ gwCurr' = Unlink(gwCurr, gone)
      /\ gwTq' = [g \in Gateways |-> IF g \in gone THEN NoRouter ELSE gwTq[g]]
      /\ gwWork' = [GwIdle EXCEPT !.at = "elect"]
      /\ IF gone # {} THEN Changed ELSE UNCHANGED <<gwHeard, gwFinal>>
  BY DEF Purge, gw_node_delete, SameSettings
<1>2. GwListOK' /\ Listed' = Listed \ gone
  BY <1>0, <1>1, LeftKeeps
<1>3. HeardIsListed'
  BY <1>0, <1>1, <1>2 DEF HeardIsListed, Changed
<1>4. gwWork' = [at |-> "elect", curr |-> NoGateway, next |-> NoGateway]
  BY <1>1 DEF GwIdle
<1>5. gwCurr \in GwRefSet
  BY <1>0 DEF GwTyped
<1>6. /\ gwCurr' \in GwRefSet /\ gwCurr'.orig = gwCurr.orig
      /\ gwCurr' = NoGateway <=> gwCurr = NoGateway
      /\ gwCurr.orig \notin gone => gwCurr' = gwCurr
  BY <1>1, <1>5, UnlinkIs
<1>7. gwReselect' \in {0, 1} /\ (gwReselect = 1 => gwReselect' = 1)
  BY <1>0, <1>1 DEF gw_reselect_if_current, GwTyped
<1>8. GwTyped'
  <2>1. gwTq' \in [Gateways -> GwTqs \cup {NoRouter}]
    BY <1>0, <1>1 DEF GwTyped
  <2>2. gwFinal' \in BOOLEAN
    BY <1>0, <1>1 DEF GwTyped, Changed
  <2>3. /\ gwWork'.curr \in GwRefSet /\ gwWork'.next \in GwRefSet
        /\ gwWork'.at \in {"idle", "elect", "best", "select"}
        /\ gwWork' \in [at : {"idle", "elect", "best", "select"}, curr : GwRefSet, next : GwRefSet]
    <3>1. NoGateway \in GwRefSet
      BY DEF GwRefSet
    <3> QED BY <1>4, <3>1
  <2> QED BY <1>0, <1>1, <1>6, <1>7, <2>1, <2>2, <2>3 DEF GwTyped
<1>9. Announced'
  BY <1>0, <1>1 DEF Announced
<1>10. Settled'
  <2>1. gwCurr' # NoGateway => gwCurr'.listed = gwCurr.listed \/ gwReselect' = 1
    <3>1. CASE gwCurr.orig \in gone /\ gwCurr.listed
      BY <1>1, <3>1 DEF gw_reselect_if_current
    <3>2. CASE gwCurr.orig \in gone /\ ~gwCurr.listed
      <4>1. gwCurr' # NoGateway => gwCurr'.listed = FALSE
        BY <1>1, <1>5, <1>6, <3>2 DEF Unlink, GwRefSet
      <4>2. gwCurr.listed = FALSE
        BY <1>5, <3>2, RefIs
      <4> QED BY <4>1, <4>2
    <3>3. CASE gwCurr.orig \notin gone
      BY <1>6, <3>3
    <3> QED BY <3>1, <3>2, <3>3
  <2>2. ~Electing /\ ~Electing'
    BY <1>1, <1>4 DEF Electing
  <2>3. gwWork'.at = "elect"
    BY <1>4
  <2> QED BY <1>0, <1>1, <1>6, <1>7, <2>1, <2>2, <2>3 DEF Settled
<1>11. Fitting'
  <2> SUFFICES ASSUME ~gwRaced', gwUp', gwClass' > 2 PROVE Fitting'
    BY DEF Fitting
  <2>1. gwWork'.at = "elect"
    BY <1>4
  <2>2. CASE gone # {}
    <3>1. gwFinal' = FALSE /\ gwHeard' = {}
      BY <1>1, <2>2 DEF Changed
    <3> QED BY <1>0, <1>1, <1>7, <2>1, <3>1 DEF Fitting
  <2>3. CASE gone = {}
    <3>1. \A g \in Gateways : gwTq'[g] = gwTq[g]
      BY <1>1, <2>3
    <3>2. gwTq' = gwTq
      BY <1>0, <1>1, <2>3, <3>1 DEF GwTyped
    <3>3. \A f : WithinOf(f)' = WithinOf(f)
      BY <1>1, <1>6, <3>2 DEF WithinOf
    <3>4. Listed' = Listed /\ gwFinal' = gwFinal /\ gwHeard' = gwHeard
      BY <1>1, <1>2, <2>3
    <3>5. gwReselect' = 0 => gwReselect = 0
      BY <1>0, <1>7 DEF GwTyped
    <3> QED BY <1>0, <1>1, <1>7, <2>1, <3>3, <3>4, <3>5 DEF Fitting
  <2> QED BY <2>2, <2>3
<1> QED BY <1>2, <1>3, <1>8, <1>9, <1>10, <1>11 DEF GwInv

LEMMA ElectionBeginsKeeps ==
  ASSUME GwInv, ElectionBegins
  PROVE  GwInv'
<1>0. GwTyped /\ GwListOK /\ HeardIsListed /\ Announced /\ Settled /\ Fitting
  BY DEF GwInv
<1>1. /\ UNCHANGED <<gwMode, gwClass, gwOwn, gwAnnounced, gwStore, gwUp>>
      /\ UNCHANGED <<gwList, gwTq, gwCurr, gwView, gwHeard>>
      /\ gwUp /\ gwWork.at = "elect"
      /\ gwRaced' = (gwRaced \/ gwStore # NotStoring)
      /\ gwFinal' = (gwFinal \/ Listed \subseteq gwHeard)
  BY DEF ElectionBegins, SameSettings
<1>2. GwListOK' /\ HeardIsListed' /\ Announced' /\ Listed' = Listed
  BY <1>0, <1>1 DEF GwListOK, HeardIsListed, Announced, Listed
<1>3. NoGateway \in GwRefSet /\ gwCurr \in GwRefSet
  BY <1>0 DEF GwTyped, GwRefSet
<1>4. CASE gwMode = "client" /\ (gwReselect = 1 \/ gwCurr = NoGateway)
  <2>1. gwWork' = [at |-> "best", curr |-> gwCurr, next |-> NoGateway] /\ gwReselect' = 0
    BY <1>4 DEF ElectionBegins, GwIdle
  <2>2. gwWork'.at = "best" /\ gwWork'.curr = gwCurr
    BY <2>1
  <2>3. GwTyped'
    <3>1. /\ gwWork' \in [at : {"idle", "elect", "best", "select"}, curr : GwRefSet, next : GwRefSet]
          /\ gwWork'.next \in GwRefSet
      BY <1>3, <2>1
    <3>2. gwRaced' \in BOOLEAN /\ gwFinal' \in BOOLEAN
      BY <1>0, <1>1 DEF GwTyped
    <3> QED BY <1>0, <1>1, <1>3, <2>1, <2>2, <3>1, <3>2 DEF GwTyped
  <2>4. Settled'
    <3>1. Electing' /\ ~Electing
      BY <1>1, <2>2 DEF Electing
    <3> QED BY <1>0, <1>1, <1>4, <2>2, <3>1 DEF Settled
  <2>5. Fitting'
    BY <1>1, <2>2 DEF Fitting
  <2> QED BY <1>2, <2>3, <2>4, <2>5 DEF GwInv
<1>5. CASE ~(gwMode = "client" /\ (gwReselect = 1 \/ gwCurr = NoGateway))
  <2>1. /\ gwWork' = [at |-> "idle", curr |-> NoGateway, next |-> NoGateway]
        /\ gwReselect' = IF gwMode = "client" THEN 0 ELSE gwReselect
    BY <1>5 DEF ElectionBegins, GwIdle
  <2>2. gwWork'.at = "idle"
    BY <2>1
  <2>3. GwTyped'
    <3>1. /\ gwWork' \in [at : {"idle", "elect", "best", "select"}, curr : GwRefSet, next : GwRefSet]
          /\ gwWork'.next \in GwRefSet /\ gwWork'.curr \in GwRefSet
      BY <1>3, <2>1
    <3>2. gwRaced' \in BOOLEAN /\ gwFinal' \in BOOLEAN /\ gwReselect' \in {0, 1}
      BY <1>0, <1>1, <2>1 DEF GwTyped
    <3> QED BY <1>0, <1>1, <1>3, <2>2, <3>1, <3>2 DEF GwTyped
  <2>4. gwMode = "client" => gwReselect = 0 /\ gwCurr # NoGateway
    BY <1>0, <1>5 DEF GwTyped
  <2>5. Settled'
    <3> SUFFICES ASSUME ~gwRaced' PROVE Settled'
      BY DEF Settled
    <3>1. ~Electing' /\ ~Electing /\ ~gwRaced /\ gwStore = NotStoring
      BY <1>1, <2>2 DEF Electing
    <3>2. gwWork.at # "select" /\ gwWork'.at # "select" /\ gwWork'.at # "best"
      BY <1>1, <2>2
    <3>3. gwView = gwCurr.orig \/ gwStore.event
      BY <1>0, <3>1, <3>2 DEF Settled
    <3>4. gwMode # "client" => gwCurr = NoGateway
      BY <1>0, <3>1 DEF Settled
    <3>5. gwMode = "client" => gwCurr.listed
      BY <1>0, <2>4, <3>1 DEF Settled
    <3> QED BY <1>1, <3>1, <3>2, <3>3, <3>4, <3>5 DEF Settled
  <2>6. Fitting'
    <3> SUFFICES ASSUME ~gwRaced', gwUp', gwClass' > 2, gwMode' = "client", NEW g \in Listed',
                        gwFinal' \/ g \in gwHeard'
                 PROVE  WithinOf(g)'
      BY <1>1, <2>2 DEF Fitting
    <3>1. WithinOf(g)' = WithinOf(g)
      BY <1>1 DEF WithinOf
    <3>2. gwFinal \/ (g \in gwHeard /\ gwReselect = 0)
      BY <1>1, <1>2, <2>4
    <3> QED BY <1>0, <1>1, <1>2, <3>1, <3>2 DEF Fitting
  <2> QED BY <1>2, <2>3, <2>5, <2>6 DEF GwInv
<1> QED BY <1>4, <1>5

\* With the choice for curr_gw, no gateway is better by what the class asks for.
LEMMA BehindIsWithin ==
  ASSUME GwTyped, gwClass > 2, NEW g \in Gateways, NEW next \in GwRefSet,
         gwTq[g] > 0 => next # NoGateway /\ gwTq[g] <= gwTq[next.orig]
  PROVE  gwTq[g] > 0 =>
           next # NoGateway /\ gwTq[g] - gwTq[next.orig] < (IF gwClass > 3 THEN gwClass ELSE 1)
<1> SUFFICES ASSUME gwTq[g] > 0
             PROVE  next # NoGateway
                    /\ gwTq[g] - gwTq[next.orig] < (IF gwClass > 3 THEN gwClass ELSE 1)
  OBVIOUS
<1>1. next.orig \in Gateways
  BY RefIs
<1> DEFINE t == gwTq[g]
           c == gwTq[next.orig]
<1>2. t \in Int /\ c \in Int /\ t <= c
  BY <1>1, TqIs
<1>3. gwClass \in 1..255
  BY DEF GwTyped
<1> HIDE DEF t, c
<1>4. t - c < (IF gwClass > 3 THEN gwClass ELSE 1)
  BY <1>2, <1>3
<1> QED BY <1>4 DEF t, c

LEMMA ElectionChoosesKeeps ==
  ASSUME GwInv, ElectionChooses
  PROVE  GwInv'
<1> DEFINE next == gw_get_best_gw_node
<1>0. GwTyped /\ GwListOK /\ HeardIsListed /\ Announced /\ Settled /\ Fitting
  BY DEF GwInv
<1>1. /\ UNCHANGED <<gwMode, gwClass, gwOwn, gwAnnounced, gwStore, gwUp>>
      /\ UNCHANGED <<gwReselect, gwList, gwTq, gwCurr, gwHeard, gwFinal>>
      /\ gwUp /\ gwWork.at = "best"
      /\ gwRaced' = (gwRaced \/ gwStore # NotStoring)
      /\ IF gwWork.curr = next
         THEN gwWork' = GwIdle /\ gwView' = gwView
         ELSE /\ gwWork' = [gwWork EXCEPT !.at = "select", !.next = next]
              /\ gwView' = next.orig
  BY DEF ElectionChooses, SameSettings
<1>2. GwListOK' /\ HeardIsListed' /\ Announced' /\ Listed' = Listed
  BY <1>0, <1>1 DEF GwListOK, HeardIsListed, Announced, Listed
<1>3. /\ next \in GwRefSet /\ (next = NoGateway \/ next.listed)
      /\ gwClass # 1 =>
           \A g \in Listed : gwTq[g] > 0 => next # NoGateway /\ gwTq[g] <= gwTq[next.orig]
  BY <1>0, BestIsBest
<1> HIDE DEF next
<1>4. NoGateway \in GwRefSet /\ gwWork.curr \in GwRefSet /\ gwWork.next \in GwRefSet
  BY <1>0 DEF GwTyped, GwRefSet
<1>5. gwRaced' \in BOOLEAN
  BY <1>0, <1>1 DEF GwTyped
<1>6. Electing
  BY <1>1 DEF Electing
<1>7. CASE gwWork.curr = next
  <2>1. gwWork' = [at |-> "idle", curr |-> NoGateway, next |-> NoGateway] /\ gwView' = gwView
    BY <1>1, <1>7 DEF GwIdle
  <2>2. gwWork'.at = "idle"
    BY <2>1
  <2>3. GwTyped'
    <3>1. /\ gwWork' \in [at : {"idle", "elect", "best", "select"}, curr : GwRefSet, next : GwRefSet]
          /\ gwWork'.next \in GwRefSet /\ gwWork'.curr \in GwRefSet
      BY <1>4, <2>1
    <3> QED BY <1>0, <1>1, <1>5, <2>1, <2>2, <3>1 DEF GwTyped
  <2>4. ~gwRaced => gwCurr = next
    BY <1>0, <1>1, <1>7 DEF Settled
  <2>5. Settled'
    <3>1. ~Electing'
      BY <2>2 DEF Electing
    <3> QED BY <1>0, <1>1, <1>3, <1>6, <2>1, <2>2, <2>4, <3>1 DEF Settled
  <2>6. Fitting'
    <3> SUFFICES ASSUME ~gwRaced', gwUp', gwClass' > 2
                 PROVE  Fitting'
      BY DEF Fitting
    <3>1. gwStore = NotStoring /\ ~gwRaced /\ gwCurr = next /\ gwClass > 2 /\ gwClass # 1
      <4>1. gwStore = NotStoring /\ ~gwRaced /\ gwCurr = next /\ gwClass > 2
        BY <1>1, <2>4
      <4>2. gwClass \in 1..255
        BY <1>0 DEF GwTyped
      <4>3. gwClass # 1
        BY <4>1, <4>2
      <4> QED BY <4>1, <4>3
    <3>2. ASSUME NEW g \in Listed PROVE WithinOf(g)'
      <4>1. gwTq[g] > 0 => next # NoGateway /\ gwTq[g] <= gwTq[next.orig]
        BY <1>3, <3>1
      <4>2. g \in Gateways
        BY <1>0, ListIs DEF Listed
      <4>3. gwTq[g] > 0 =>
              next # NoGateway /\ gwTq[g] - gwTq[next.orig] < (IF gwClass > 3 THEN gwClass ELSE 1)
        BY <1>0, <1>3, <3>1, <4>1, <4>2, BehindIsWithin
      <4> QED BY <1>1, <3>1, <4>3 DEF WithinOf
    <3> QED BY <1>1, <1>2, <2>2, <3>1, <3>2 DEF Fitting
  <2> QED BY <1>2, <2>3, <2>5, <2>6 DEF GwInv
<1>8. CASE gwWork.curr # next
  <2>1. gwWork' = [at |-> "select", curr |-> gwWork.curr, next |-> next] /\ gwView' = next.orig
    <3>1. gwWork' = [gwWork EXCEPT !.at = "select", !.next = next] /\ gwView' = next.orig
      BY <1>1, <1>8
    <3>2. gwWork \in [at : {"idle", "elect", "best", "select"}, curr : GwRefSet, next : GwRefSet]
      BY <1>0 DEF GwTyped
    <3> QED BY <3>1, <3>2
  <2>2. gwWork'.at = "select" /\ gwWork'.next = next /\ gwWork'.curr = gwWork.curr
    BY <2>1
  <2>3. GwTyped'
    <3>1. gwWork' \in [at : {"idle", "elect", "best", "select"}, curr : GwRefSet, next : GwRefSet]
      BY <1>3, <1>4, <2>1
    <3>2. gwView' \in Gateways \cup {GwNone}
      BY <1>3, <2>1, RefIs
    <3> QED BY <1>0, <1>1, <1>3, <1>4, <1>5, <2>2, <3>1, <3>2 DEF GwTyped
  <2>4. Settled'
    <3>1. Electing'
      BY <2>2 DEF Electing
    <3> QED BY <1>0, <1>1, <1>3, <1>6, <2>1, <2>2, <3>1 DEF Settled
  <2>5. Fitting'
    <3> SUFFICES ASSUME ~gwRaced', gwUp', gwClass' > 2
                 PROVE  Fitting'
      BY DEF Fitting
    <3>1. gwStore = NotStoring /\ ~gwRaced /\ gwClass # 1
      <4>1. gwClass \in 1..255 /\ gwClass > 2
        BY <1>0, <1>1 DEF GwTyped
      <4>2. gwClass # 1
        BY <4>1
      <4> QED BY <1>1, <4>2
    <3>2. ASSUME NEW g \in Listed PROVE BehindNext(g)'
      BY <1>1, <1>3, <2>2, <3>1 DEF BehindNext
    <3> QED BY <1>1, <1>2, <2>2, <3>1, <3>2 DEF Fitting
  <2> QED BY <1>2, <2>3, <2>4, <2>5 DEF GwInv
<1> QED BY <1>7, <1>8

LEMMA ElectionLosesRouteKeeps ==
  ASSUME GwInv, ElectionLosesRoute
  PROVE  GwInv'
<1> DEFINE next == gw_get_best_gw_node
<1>0. GwTyped /\ GwListOK /\ HeardIsListed /\ Announced /\ Settled /\ Fitting
  BY DEF GwInv
<1>1. /\ UNCHANGED <<gwMode, gwClass, gwOwn, gwAnnounced, gwStore, gwUp>>
      /\ UNCHANGED <<gwList, gwCurr, gwView>>
      /\ gwWork.at = "best" /\ next # NoGateway
      /\ gwTq' = [gwTq EXCEPT ![next.orig] = NoRouter] /\ gwReselect' = 1
      /\ gwWork' = GwIdle /\ gwRaced' = (gwRaced \/ gwStore # NotStoring)
      /\ gwHeard' = {} /\ gwFinal' = FALSE
  BY DEF ElectionLosesRoute, SameSettings, Changed
<1>2. GwListOK' /\ HeardIsListed' /\ Announced'
  BY <1>0, <1>1 DEF GwListOK, HeardIsListed, Announced
<1> HIDE DEF next
<1>3. gwTq' \in [Gateways -> GwTqs \cup {NoRouter}]
  BY <1>0, <1>1 DEF GwTyped
<1>4. gwWork' = [at |-> "idle", curr |-> NoGateway, next |-> NoGateway]
  BY <1>1 DEF GwIdle
<1>5. gwWork'.at = "idle"
  BY <1>4
<1>6. GwTyped'
  <2>1. NoGateway \in GwRefSet
    BY DEF GwRefSet
  <2>2. /\ gwWork' \in [at : {"idle", "elect", "best", "select"}, curr : GwRefSet, next : GwRefSet]
        /\ gwWork'.next \in GwRefSet /\ gwWork'.curr \in GwRefSet
    BY <1>4, <2>1
  <2>3. gwRaced' \in BOOLEAN
    BY <1>0, <1>1 DEF GwTyped
  <2> QED BY <1>0, <1>1, <1>3, <1>5, <2>2, <2>3 DEF GwTyped
<1>7. Electing /\ ~Electing'
  BY <1>1, <1>5 DEF Electing
<1>8. Settled'
  BY <1>0, <1>1, <1>5, <1>7 DEF Settled
<1>9. Fitting'
  BY <1>0, <1>1, <1>5, <1>7 DEF Fitting, Settled
<1> QED BY <1>2, <1>6, <1>8, <1>9 DEF GwInv

LEMMA SelectKeeps ==
  ASSUME GwInv, gw_select
  PROVE  GwInv'
<1>0. GwTyped /\ GwListOK /\ HeardIsListed /\ Announced /\ Settled /\ Fitting
  BY DEF GwInv
<1>1. /\ UNCHANGED <<gwMode, gwClass, gwOwn, gwAnnounced, gwStore, gwUp>>
      /\ UNCHANGED <<gwReselect, gwList, gwTq, gwView, gwHeard, gwFinal>>
      /\ gwUp /\ gwWork.at = "select" /\ gwCurr' = gwWork.next /\ gwWork' = GwIdle
      /\ gwRaced' = (gwRaced \/ gwStore # NotStoring)
  BY DEF gw_select, SameSettings
<1>2. GwListOK' /\ HeardIsListed' /\ Announced' /\ Listed' = Listed
  BY <1>0, <1>1 DEF GwListOK, HeardIsListed, Announced, Listed
<1>3. gwWork' = [at |-> "idle", curr |-> NoGateway, next |-> NoGateway]
  BY <1>1 DEF GwIdle
<1>4. gwWork'.at = "idle"
  BY <1>3
<1>5. NoGateway \in GwRefSet /\ gwWork.next \in GwRefSet
  BY <1>0 DEF GwTyped, GwRefSet
<1>6. GwTyped'
  <2>1. /\ gwWork' \in [at : {"idle", "elect", "best", "select"}, curr : GwRefSet, next : GwRefSet]
        /\ gwWork'.next \in GwRefSet /\ gwWork'.curr \in GwRefSet
    BY <1>3, <1>5
  <2>2. gwRaced' \in BOOLEAN
    BY <1>0, <1>1 DEF GwTyped
  <2> QED BY <1>0, <1>1, <1>4, <1>5, <2>1, <2>2 DEF GwTyped
<1>7. Electing /\ ~Electing'
  BY <1>1, <1>4 DEF Electing
<1>8. Settled'
  BY <1>0, <1>1, <1>4, <1>7 DEF Settled
<1>9. Fitting'
  <2> SUFFICES ASSUME ~gwRaced', gwUp', gwClass' > 2
               PROVE  Fitting'
    BY DEF Fitting
  <2>1. gwStore = NotStoring /\ ~gwRaced /\ gwClass > 2
    BY <1>1
  <2>2. ASSUME gwMode = "client", NEW g \in Listed, gwFinal \/ g \in gwHeard
        PROVE  WithinOf(g)'
    <3>1. BehindNext(g)
      BY <1>0, <1>1, <2>1, <2>2 DEF Fitting
    <3>2. g \in Gateways
      BY <1>0, ListIs DEF Listed
    <3>3. gwTq[g] > 0 => gwWork.next # NoGateway /\ gwTq[g] <= gwTq[gwWork.next.orig]
      BY <3>1 DEF BehindNext
    <3>4. gwTq[g] > 0 => gwWork.next # NoGateway
            /\ gwTq[g] - gwTq[gwWork.next.orig] < (IF gwClass > 3 THEN gwClass ELSE 1)
      BY <1>0, <1>5, <2>1, <3>2, <3>3, BehindIsWithin
    <3> QED BY <1>1, <3>4 DEF WithinOf
  <2> QED BY <1>1, <1>2, <1>4, <2>1, <2>2 DEF Fitting
<1> QED BY <1>2, <1>6, <1>8, <1>9 DEF GwInv

LEMMA StoreModeKeeps ==
  ASSUME GwInv, NEW mode \in GwModes, store_gw_mode(mode)
  PROVE  GwInv'
<1>0. GwTyped /\ GwListOK /\ HeardIsListed /\ Announced /\ Settled /\ Fitting
  BY DEF GwInv
<1>1. /\ UNCHANGED <<gwMode, gwClass, gwOwn, gwAnnounced, gwList, gwTq, gwWork, gwView, gwUp>>
      /\ gwUp /\ gwStore = NotStoring /\ gwReselect' = 1
      /\ gwCurr' = IF gw_client_stops(mode) THEN NoGateway ELSE gwCurr
      /\ gwStore' = [to |-> mode, event |-> gw_client_stops(mode)]
      /\ gwRaced' = (gwRaced \/ Electing)
      /\ gwHeard' = {} /\ gwFinal' = FALSE
  BY DEF store_gw_mode, Changed
<1>2. gwStore'.to = mode /\ gwStore'.event = gw_client_stops(mode) /\ gwStore' # NotStoring
      /\ gwStore' \in [to : GwModes, event : BOOLEAN]
  <2>1. mode # "none" /\ gw_client_stops(mode) \in BOOLEAN
    BY DEF GwModes, gw_client_stops
  <2>2. gwStore'.to = mode /\ NotStoring.to = "none"
    BY <1>1 DEF NotStoring
  <2>3. gwStore' # NotStoring
    BY <2>1, <2>2
  <2> QED BY <1>1, <2>1, <2>3
<1>3. gwCurr' \in GwRefSet
  BY <1>0, <1>1 DEF GwTyped, GwRefSet
<1>4. gwRaced' \in BOOLEAN
  BY <1>0, <1>1 DEF GwTyped
<1>5. GwTyped'
  <2>1. gwStore'.to # gwMode'
    BY <1>1, <1>2 DEF store_gw_mode
  <2> QED BY <1>0, <1>1, <1>2, <1>3, <1>4, <2>1 DEF GwTyped
<1>6. GwListOK' /\ HeardIsListed' /\ Announced'
  BY <1>0, <1>1, <1>2 DEF GwListOK, HeardIsListed, Announced
<1>7. Settled'
  <2> SUFFICES ASSUME ~gwRaced' PROVE Settled'
    BY DEF Settled
  <2>1. ~gwRaced /\ ~Electing /\ ~Electing'
    BY <1>1 DEF Electing
  <2>2. gwCurr' = NoGateway
    BY <1>0, <1>1, <2>1 DEF Settled, gw_client_stops
  <2>3. gwWork'.at # "select" /\ gwWork'.at # "best" /\ gwWork.at # "select"
    BY <1>1, <2>1 DEF Electing
  <2>4. gwView = gwCurr.orig
    BY <1>0, <1>1, <2>1, <2>3 DEF Settled, NotStoring
  <2>5. gwView' = gwCurr'.orig \/ gwStore'.event
    <3>1. CASE gw_client_stops(mode)
      BY <1>2, <3>1
    <3>2. CASE ~gw_client_stops(mode)
      BY <1>1, <2>4, <3>2
    <3> QED BY <3>1, <3>2
  <2> QED BY <2>1, <2>2, <2>3, <2>5 DEF Settled
<1>8. Fitting'
  BY <1>1, <1>2 DEF Fitting
<1> QED BY <1>5, <1>6, <1>7, <1>8 DEF GwInv

LEMMA StoreModeEndsKeeps ==
  ASSUME GwInv, store_gw_mode_ends
  PROVE  GwInv'
<1>0. GwTyped /\ GwListOK /\ HeardIsListed /\ Announced /\ Settled /\ Fitting
  BY DEF GwInv
<1>1. /\ UNCHANGED <<gwClass, gwReselect, gwOwn, gwList, gwTq, gwCurr, gwWork, gwUp,
                     gwHeard, gwFinal>>
      /\ gwUp /\ gwStore # NotStoring
      /\ gwMode' = gwStore.to /\ gwView' = IF gwStore.event THEN GwNone ELSE gwView
      /\ gwAnnounced' = gw_tvlv_container(gwStore.to, gwOwn)
      /\ gwStore' = NotStoring /\ gwRaced' = (gwRaced \/ Electing)
  BY DEF store_gw_mode_ends
<1>2. gwStore.to \in GwModes /\ gwStore.event \in BOOLEAN
  BY <1>0, <1>1 DEF GwTyped
<1>3. GwTyped'
  <2>1. gwMode' # "none"
    BY <1>1, <1>2 DEF GwModes
  <2> QED BY <1>0, <1>1, <1>2, <2>1 DEF GwTyped, NotStoring
<1>4. GwListOK' /\ HeardIsListed' /\ Announced'
  BY <1>0, <1>1 DEF GwListOK, HeardIsListed, Listed, Announced, gw_tvlv_container
<1>5. Settled'
  <2> SUFFICES ASSUME ~gwRaced' PROVE Settled'
    BY DEF Settled
  <2>1. ~gwRaced /\ ~Electing /\ ~Electing' /\ gwWork'.at = gwWork.at
    BY <1>1 DEF Electing
  <2>2. gwCurr = NoGateway /\ gwCurr' = NoGateway
    BY <1>0, <1>1, <2>1 DEF Settled
  <2>3. gwWork.at # "select" /\ gwWork.at # "best"
    BY <2>1 DEF Electing
  <2>4. gwView' = gwCurr'.orig
    BY <1>0, <1>1, <2>1, <2>2, <2>3 DEF Settled, NoGateway
  <2> QED BY <1>1, <2>1, <2>2, <2>3, <2>4 DEF Settled
<1>6. Fitting'
  <2> SUFFICES ASSUME ~gwRaced', gwUp', gwClass' > 2, gwMode' = "client"
               PROVE  Fitting'
    BY <1>1 DEF Fitting
  <2>1. ~gwRaced /\ gwUp /\ gwClass > 2 /\ ~Electing /\ gwWork'.at # "select"
    BY <1>1 DEF Electing
  <2>2. ~gwFinal /\ (gwMode # "client" => gwReselect = 1)
    BY <1>0, <1>1, <2>1 DEF Fitting
  <2>3. gwReselect = 1
    BY <1>0, <1>1, <2>2 DEF GwTyped
  <2> QED BY <1>1, <2>1, <2>2, <2>3 DEF Fitting
<1> QED BY <1>3, <1>4, <1>5, <1>6 DEF GwInv

LEMMA SelClassKeeps ==
  ASSUME GwInv, NEW class \in GwClasses, store_gw_sel_class(class)
  PROVE  GwInv'
<1>0. GwTyped /\ GwListOK /\ HeardIsListed /\ Announced /\ Settled /\ Fitting
  BY DEF GwInv
<1>1. /\ UNCHANGED <<gwMode, gwOwn, gwAnnounced, gwList, gwTq, gwCurr, gwWork,
                     gwStore, gwView, gwUp, gwRaced>>
      /\ gwClass' = class /\ gwReselect' = 1 /\ gwHeard' = {} /\ gwFinal' = FALSE
  BY DEF store_gw_sel_class, Changed
<1>2. GwTyped'
  BY <1>0, <1>1, GwAssumption DEF GwTyped
<1>3. GwListOK' /\ HeardIsListed' /\ Announced'
  BY <1>0, <1>1 DEF GwListOK, HeardIsListed, Announced
<1>4. Settled'
  BY <1>0, <1>1 DEF Settled, Electing
<1>5. Fitting'
  BY <1>1 DEF Fitting
<1> QED BY <1>2, <1>3, <1>4, <1>5 DEF GwInv

\* A bandwidth that was read fits, and the smallest one is not rounded to nothing.
LEMMA BandwidthKeeps ==
  ASSUME GwInv, NEW down \in GwSpeeds, NEW ups \in SUBSET GwSpeeds, gw_bandwidth_set(down, ups)
  PROVE  GwInv'
<1>0. GwTyped /\ GwListOK /\ HeardIsListed /\ Announced /\ Settled /\ Fitting
  BY DEF GwInv
<1>1. ASSUME NEW speed \in GwSpeeds
      PROVE  parse_throughput(speed) \subseteq Nat
  <2> DEFINE v == speed[1]
             units == IF speed[2] = "mbit" THEN v * 10 ELSE v \div 100
  <2>1. v \in Nat
    BY GwAssumption
  <2> HIDE DEF v
  <2>2. units \in Nat
    BY <2>1
  <2>3. parse_throughput(speed) \subseteq {units}
    BY DEF parse_throughput, v
  <2> HIDE DEF units
  <2> QED BY <2>2, <2>3
<1> DEFINE Downs == parse_throughput(down)
           Ups == IF ups = {} THEN {0} ELSE UNION {parse_throughput(s) : s \in ups}
<1>2. PICK d \in Downs, u \in Ups :
        LET new == [down |-> IF d = 0 THEN 1 ELSE d,
                    up   |-> IF u = 0 THEN default_up(IF d = 0 THEN 1 ELSE d) ELSE u]
        IN  /\ gwUp /\ gwOwn' = new /\ gwReselect' = 1
            /\ gwAnnounced' = gw_tvlv_container(gwMode, new)
            /\ UNCHANGED <<gwMode, gwClass, gwList, gwTq, gwCurr, gwWork, gwStore, gwView,
                           gwUp, gwRaced, gwHeard, gwFinal>>
  BY DEF gw_bandwidth_set
<1>3. d \in Nat /\ u \in Nat
  <2>1. Downs \subseteq Nat
    BY <1>1
  <2>2. Ups \subseteq Nat
    BY <1>1
  <2> QED BY <2>1, <2>2
<1> DEFINE nd == IF d = 0 THEN 1 ELSE d
           nu == IF u = 0 THEN default_up(nd) ELSE u
<1>4. nd \in Nat \ {0} /\ nu \in Nat \ {0}
  <2>1. nd \in Nat \ {0}
    BY <1>3
  <2> HIDE DEF nd
  <2>2. default_up(nd) \in Nat \ {0}
    BY <2>1 DEF default_up
  <2> QED BY <1>3, <2>1, <2>2
<1>5. /\ gwOwn' = [down |-> nd, up |-> nu] /\ gwReselect' = 1
      /\ gwAnnounced' = gw_tvlv_container(gwMode, gwOwn')
      /\ UNCHANGED <<gwMode, gwClass, gwList, gwTq, gwCurr, gwWork, gwStore, gwView,
                     gwUp, gwRaced, gwHeard, gwFinal>>
  BY <1>2
<1> HIDE DEF nd, nu
<1>6. gwOwn' \in GwSpeedSet
  BY <1>4, <1>5 DEF GwSpeedSet
<1>7. GwTyped'
  BY <1>0, <1>5, <1>6 DEF GwTyped
<1>8. GwListOK' /\ HeardIsListed' /\ Announced'
  BY <1>0, <1>5 DEF GwListOK, HeardIsListed, Announced, Listed, gw_tvlv_container
<1>9. Settled'
  BY <1>0, <1>5 DEF Settled, Electing
<1>10. Fitting'
  <2> SUFFICES ASSUME ~gwRaced', gwUp', gwClass' > 2 PROVE Fitting'
    BY DEF Fitting
  <2>1. ~gwRaced /\ gwUp /\ gwClass > 2 /\ gwReselect' = 1
    BY <1>5
  <2>2. \A f : WithinOf(f)' = WithinOf(f) /\ BehindNext(f)' = BehindNext(f)
    BY <1>5 DEF WithinOf, BehindNext
  <2>3. Listed' = Listed
    BY <1>5 DEF Listed
  <2> QED BY <1>0, <1>5, <2>1, <2>2, <2>3 DEF Fitting
<1> QED BY <1>7, <1>8, <1>9, <1>10 DEF GwInv

LEMMA LastInterfaceKeeps ==
  ASSUME GwInv, NEW free \in BOOLEAN, LastInterface(free)
  PROVE  GwInv'
<1>0. GwTyped /\ GwListOK /\ HeardIsListed /\ Announced /\ Settled /\ Fitting
  BY DEF GwInv
<1>1. /\ UNCHANGED <<gwMode, gwClass, gwReselect, gwOwn, gwTq, gwWork, gwStore>>
      /\ gwUp /\ gwStore = NotStoring
      /\ gwCurr' = IF gw_client_stops("off") THEN NoGateway ELSE gwCurr
      /\ gwView' = IF gw_client_stops("off") THEN GwNone ELSE gwView
      /\ gwList' = IF free THEN <<>> ELSE gwList
      /\ gwUp' = ~free
      /\ gwAnnounced' = IF free THEN {} ELSE gwAnnounced
      /\ gwRaced' = (gwRaced \/ Electing) /\ gwHeard' = {} /\ gwFinal' = FALSE
  BY DEF LastInterface, Changed
<1>2. gwCurr' \in GwRefSet /\ gwRaced' \in BOOLEAN /\ gwUp' \in BOOLEAN
  BY <1>0, <1>1 DEF GwTyped, GwRefSet
<1>3. GwTyped'
  BY <1>0, <1>1, <1>2 DEF GwTyped
<1>4. GwListOK'
  <2>1. CASE free
    <3>1. gwList' = <<>> /\ <<>> \in Seq(GwEntries) /\ DOMAIN <<>> = {}
      BY <1>1, <2>1
    <3> QED BY <3>1 DEF GwListOK
  <2>2. CASE ~free
    BY <1>0, <1>1, <2>2 DEF GwListOK
  <2> QED BY <2>1, <2>2
<1>5. HeardIsListed' /\ Announced'
  BY <1>0, <1>1 DEF HeardIsListed, Announced
<1>6. Settled'
  <2> SUFFICES ASSUME ~gwRaced' PROVE Settled'
    BY DEF Settled
  <2>1. ~gwRaced /\ ~Electing /\ ~Electing' /\ gwWork' = gwWork
    BY <1>1 DEF Electing
  <2>2. gwWork.at # "select" /\ gwWork.at # "best"
    BY <2>1 DEF Electing
  <2>3. /\ gwView = gwCurr.orig
        /\ gwMode # "client" => gwCurr = NoGateway
        /\ gwMode = "client" /\ gwCurr # NoGateway => gwCurr.listed \/ gwReselect = 1
    BY <1>0, <1>1, <2>1, <2>2 DEF Settled, NotStoring
  <2>4. gwCurr' = NoGateway
    BY <1>1, <2>3 DEF gw_client_stops
  <2>5. gwView' = gwCurr'.orig
    BY <1>1, <2>3, <2>4 DEF NoGateway
  <2> QED BY <1>1, <2>1, <2>2, <2>4, <2>5 DEF Settled
<1>7. Fitting'
  BY <1>1 DEF Fitting
<1> QED BY <1>3, <1>4, <1>5, <1>6, <1>7 DEF GwInv

LEMMA GwStays ==
  ASSUME GwInv, UNCHANGED gwVars
  PROVE  GwInv'
BY DEF gwVars, GwInv, GwTyped, GwListOK, HeardIsListed, Listed, Announced, Settled, Electing,
       Fitting, WithinOf, BehindNext

-----------------------------------------------------------------------------
\* The selection and the announcement of a node in every state of the specification.
THEOREM GwInvHolds == GwSpec => []GwInv
<1>1. GwInit => GwInv
  BY GwInitHolds
<1>2. GwInv /\ [GwNext]_gwVars => GwInv'
  <2> SUFFICES ASSUME GwInv, [GwNext]_gwVars PROVE GwInv'
    OBVIOUS
  <2>1. CASE \E g \in Gateways, o \in GwOffers : Ogm(g, o)
    BY <2>1, GwOgmKeeps
  <2>2. CASE \E g \in Gateways, t \in GwTqs \cup {NoRouter} : Route(g, t)
    BY <2>2, RouteKeeps
  <2>3. CASE \E gone \in SUBSET Gateways : Purge(gone)
    BY <2>3, GwPurgeKeeps
  <2>4. CASE ElectionBegins
    BY <2>4, ElectionBeginsKeeps
  <2>5. CASE ElectionChooses
    BY <2>5, ElectionChoosesKeeps
  <2>6. CASE gw_select
    BY <2>6, SelectKeeps
  <2>7. CASE \E m \in GwModes : store_gw_mode(m)
    BY <2>7, StoreModeKeeps
  <2>8. CASE store_gw_mode_ends
    BY <2>8, StoreModeEndsKeeps
  <2>9. CASE \E c \in GwClasses : store_gw_sel_class(c)
    BY <2>9, SelClassKeeps
  <2>10. CASE \E d \in GwSpeeds :
                gw_bandwidth_set(d, {}) \/ \E u \in GwSpeeds : gw_bandwidth_set(d, {u})
    <3>1. PICK d \in GwSpeeds, ups \in SUBSET GwSpeeds : gw_bandwidth_set(d, ups)
      BY <2>10
    <3> QED BY <3>1, BandwidthKeeps
  <2>11. CASE \E free \in BOOLEAN : LastInterface(free)
    BY <2>11, LastInterfaceKeeps
  <2>12. CASE ElectionLosesRoute
    BY <2>12, ElectionLosesRouteKeeps
  <2>13. CASE UNCHANGED gwVars
    BY <2>13, GwStays
  <2> QED BY <2>1, <2>2, <2>3, <2>4, <2>5, <2>6, <2>7, <2>8, <2>9, <2>10, <2>11, <2>12, <2>13
          DEF GwNext
<1> QED BY <1>1, <1>2, PTL DEF GwSpec

\* For any gateways, offers, classes and bandwidths: the gateway a client has selected is
\* still offered or about to be replaced, user space was told of it, and a server, and
\* only one, announces its bandwidth, neither half of it zero.
THEOREM GwIsConsistent == GwSpec => []GwConsistent
<1>1. GwInv => GwConsistent
  <2> SUFFICES ASSUME GwInv PROVE GwConsistent
    OBVIOUS
  <2>0. GwTyped /\ GwListOK /\ Announced /\ Settled
    BY DEF GwInv
  <2>1. GwTypeOK
    <3>1. \A gw \in GwRefSet : gw \in GwRefs
      <4>1. NoGateway \in GwRefs
        BY DEF GwRefs, NoGateway
      <4>2. [orig : Gateways, listed : BOOLEAN] \subseteq GwRefs
        BY DEF GwRefs
      <4> QED BY <4>1, <4>2 DEF GwRefSet
    <3>2. gwOwn.down \in Nat /\ gwOwn.up \in Nat
      BY <2>0 DEF GwTyped, GwSpeedSet
    <3> QED BY <2>0, <3>1, <3>2 DEF GwTypeOK, GwTyped, GwListOK
  <2>2. GwSelectedIsOffered
    BY <2>0 DEF GwSelectedIsOffered, GwQuiet, Settled, Electing
  <2>3. GwViewIsSelection
    BY <2>0 DEF GwViewIsSelection, GwQuiet, Settled, NotStoring
  <2>4. GwServerIsAnnounced
    <3>1. gwOwn.down > 0 /\ gwOwn.up > 0
      <4> DEFINE d == gwOwn.down
                 u == gwOwn.up
      <4>1. d \in Nat \ {0} /\ u \in Nat \ {0}
        BY <2>0 DEF GwTyped, GwSpeedSet
      <4> HIDE DEF d, u
      <4>2. d > 0 /\ u > 0
        BY <4>1
      <4> QED BY <4>2 DEF d, u
    <3> QED BY <2>0, <3>1 DEF GwServerIsAnnounced, Announced, gw_tvlv_container
  <2> QED BY <2>1, <2>2, <2>3, <2>4 DEF GwConsistent
<1> QED BY <1>1, GwInvHolds, PTL

\* For any gateways, qualities and classes above 2: once every listed gateway was heard
\* and an election held since the last change, none is better than the selected one by
\* the points the class asks for.
THEOREM GwIsWithinClass == GwSpec => []GwWithinClass
<1>1. GwInv => GwWithinClass
  BY DEF GwInv, GwWithinClass, GwQuiet, Fitting, WithinOf
<1> QED BY <1>1, GwInvHolds, PTL

-----------------------------------------------------------------------------
(***************************************************************************)
(* Bridge loop avoidance                                                   *)
(***************************************************************************)
\* struct batadv_priv_bla of a gateway, and the attribute
BlaNodes ==
  [on : BOOLEAN, group : Nat, num_requests : Nat, claim : [Clients -> Claim],
   backbone : [Gws -> BackboneGw]]

\* Its tables fit each other: checksums are of the clients that are owned,
\* what is waited for is counted, and who is not listed is asked nothing.
BlaFits(cl, b, k) ==
  /\ cl \in [Clients -> Claim] /\ b \in [Gws -> BackboneGw]
  /\ k = Cardinality({h \in Gws : b[h].request_sent})
  /\ \A h \in Gws : /\ b[h].crc = {c \in Clients : cl[c].owner = h}
                    /\ b[h].known \/ b[h] = NoBackbone

BlaRight(n) == n \in BlaNodes /\ BlaFits(n.claim, n.backbone, n.num_requests)

BlaFrames ==
       [type : {"CLAIM", "UNCLAIM"}, group : Nat, data : Clients]
  \cup [type : {"ANNOUNCE"}, group : Nat, data : SUBSET Clients]
  \cup [type : {"REQUEST"}, group : Nat, data : Gws]

\* What a handler works on
BlaAt(n, out) == [n |-> n, out |-> out]
BlaGood(s) == s = BlaAt(s.n, s.out) /\ BlaRight(s.n) /\ s.out \in Seq(BlaFrames)

\* n with other tables
BlaWith(n, cl, b, k) ==
  [on |-> n.on, group |-> n.group, num_requests |-> k, claim |-> cl, backbone |-> b]

-----------------------------------------------------------------------------
(* States *)

LEMMA BlaNodeIs ==
  ASSUME NEW n \in BlaNodes
  PROVE  /\ n = BlaWith(n, n.claim, n.backbone, n.num_requests)
         /\ n.on \in BOOLEAN /\ n.group \in Nat /\ n.num_requests \in Nat
         /\ n.claim \in [Clients -> Claim] /\ n.backbone \in [Gws -> BackboneGw]
BY DEF BlaNodes, BlaWith

LEMMA BlaWaitedFinite ==
  ASSUME NEW b
  PROVE  LET W == {h \in Gws : b[h].request_sent} IN IsFiniteSet(W) /\ Cardinality(W) \in Nat
<1> DEFINE W == {h \in Gws : b[h].request_sent}
<1>1. W \in SUBSET Gws /\ IsFiniteSet(Gws)
  BY BlaAssumption
<1> HIDE DEF W
<1>2. IsFiniteSet(W)
  BY <1>1, FS_Subset
<1>3. Cardinality(W) \in Nat
  BY <1>2, FS_CardinalityType
<1> QED BY <1>2, <1>3 DEF W

LEMMA BlaWithIsRight ==
  ASSUME NEW n \in BlaNodes, NEW cl, NEW b, NEW k, BlaFits(cl, b, k)
  PROVE  BlaRight(BlaWith(n, cl, b, k))
<1>1. k \in Nat
  BY BlaWaitedFinite DEF BlaFits
<1>2. n.on \in BOOLEAN /\ n.group \in Nat
  BY BlaNodeIs
<1>3. BlaWith(n, cl, b, k) \in BlaNodes
  BY <1>1, <1>2 DEF BlaWith, BlaNodes, BlaFits
<1>4. LET m == BlaWith(n, cl, b, k) IN m.claim = cl /\ m.backbone = b /\ m.num_requests = k
  BY DEF BlaWith
<1> QED BY <1>3, <1>4 DEF BlaRight

\* Another entry for a gateway of which nothing but its times changes
LEMMA BlaEntryKept ==
  ASSUME NEW n, BlaRight(n), NEW h \in Gws, NEW e \in BackboneGw, e.known,
         e.crc = n.backbone[h].crc, e.request_sent = n.backbone[h].request_sent
  PROVE  BlaRight(BlaWith(n, n.claim, [n.backbone EXCEPT ![h] = e], n.num_requests))
<1> DEFINE b == [n.backbone EXCEPT ![h] = e]
<1>1. n \in BlaNodes /\ BlaFits(n.claim, n.backbone, n.num_requests)
  BY DEF BlaRight
<1>2. n.backbone \in [Gws -> BackboneGw] /\ n = BlaWith(n, n.claim, n.backbone, n.num_requests)
  BY <1>1, BlaNodeIs
<1>3. b \in [Gws -> BackboneGw] /\ b[h] = e /\ \A g \in Gws : g # h => b[g] = n.backbone[g]
  BY <1>2
<1> HIDE DEF b
<1>4. {g \in Gws : b[g].request_sent} = {g \in Gws : n.backbone[g].request_sent}
  BY <1>3
<1>5. BlaFits(n.claim, b, n.num_requests)
  BY <1>1, <1>3, <1>4 DEF BlaFits
<1>6. BlaRight(BlaWith(n, n.claim, b, n.num_requests))
  BY <1>1, <1>5, BlaWithIsRight
<1> QED BY <1>6 DEF b

\* A request is opened.
LEMMA BlaEntryAsked ==
  ASSUME NEW n, BlaRight(n), NEW h \in Gws, NEW e \in BackboneGw, e.known,
         e.crc = n.backbone[h].crc, e.request_sent, ~n.backbone[h].request_sent
  PROVE  BlaRight(BlaWith(n, n.claim, [n.backbone EXCEPT ![h] = e], n.num_requests + 1))
<1> DEFINE b == [n.backbone EXCEPT ![h] = e]
           W == {g \in Gws : n.backbone[g].request_sent}
           V == {g \in Gws : b[g].request_sent}
           k == n.num_requests + 1
<1>1. n \in BlaNodes /\ BlaFits(n.claim, n.backbone, n.num_requests)
  BY DEF BlaRight
<1>2. n.backbone \in [Gws -> BackboneGw] /\ n = BlaWith(n, n.claim, n.backbone, n.num_requests)
  BY <1>1, BlaNodeIs
<1>3. b \in [Gws -> BackboneGw] /\ b[h] = e /\ \A g \in Gws : g # h => b[g] = n.backbone[g]
  BY <1>2
<1> HIDE DEF b
<1>4. V = W \cup {h} /\ h \notin W
  BY <1>3
<1>5. IsFiniteSet(W) /\ Cardinality(W) \in Nat
  BY BlaWaitedFinite
<1>6. n.num_requests = Cardinality(W)
  BY <1>1 DEF BlaFits
<1> HIDE DEF V, W
<1>7. Cardinality(V) = Cardinality(W) + 1
  BY <1>4, <1>5, FS_AddElement
<1>8. k = Cardinality(V)
  BY <1>6, <1>7
<1>9. BlaFits(n.claim, b, k)
  BY <1>1, <1>3, <1>8 DEF BlaFits, V
<1>10. BlaRight(BlaWith(n, n.claim, b, k))
  BY <1>1, <1>9, BlaWithIsRight
<1> QED BY <1>10 DEF b

\* A request is closed.
LEMMA BlaEntryAnswered ==
  ASSUME NEW n, BlaRight(n), NEW h \in Gws, NEW e \in BackboneGw, e.known,
         e.crc = n.backbone[h].crc, ~e.request_sent, n.backbone[h].request_sent
  PROVE  BlaRight(BlaWith(n, n.claim, [n.backbone EXCEPT ![h] = e], n.num_requests - 1))
<1> DEFINE b == [n.backbone EXCEPT ![h] = e]
           W == {g \in Gws : n.backbone[g].request_sent}
           V == {g \in Gws : b[g].request_sent}
           k == n.num_requests - 1
<1>1. n \in BlaNodes /\ BlaFits(n.claim, n.backbone, n.num_requests)
  BY DEF BlaRight
<1>2. n.backbone \in [Gws -> BackboneGw] /\ n = BlaWith(n, n.claim, n.backbone, n.num_requests)
  BY <1>1, BlaNodeIs
<1>3. b \in [Gws -> BackboneGw] /\ b[h] = e /\ \A g \in Gws : g # h => b[g] = n.backbone[g]
  BY <1>2
<1> HIDE DEF b
<1>4. V = W \ {h} /\ h \in W
  BY <1>3
<1>5. IsFiniteSet(W) /\ Cardinality(W) \in Nat
  BY BlaWaitedFinite
<1>6. n.num_requests = Cardinality(W)
  BY <1>1 DEF BlaFits
<1> HIDE DEF V, W
<1>7. Cardinality(V) = Cardinality(W) - 1
  BY <1>4, <1>5, FS_RemoveElement
<1>8. k = Cardinality(V)
  BY <1>6, <1>7
<1>9. BlaFits(n.claim, b, k)
  BY <1>1, <1>3, <1>8 DEF BlaFits, V
<1>10. BlaRight(BlaWith(n, n.claim, b, k))
  BY <1>1, <1>9, BlaWithIsRight
<1> QED BY <1>10 DEF b

\* Other claims, and checksums that go with them
LEMMA BlaTablesRight ==
  ASSUME NEW n, BlaRight(n), NEW cl \in [Clients -> Claim], NEW b \in [Gws -> BackboneGw],
         \A h \in Gws : /\ b[h].crc = {c \in Clients : cl[c].owner = h}
                        /\ b[h].known \/ b[h] = NoBackbone
                        /\ b[h].request_sent = n.backbone[h].request_sent
  PROVE  BlaRight(BlaWith(n, cl, b, n.num_requests))
<1>1. n \in BlaNodes /\ BlaFits(n.claim, n.backbone, n.num_requests)
  BY DEF BlaRight
<1>2. {g \in Gws : b[g].request_sent} = {g \in Gws : n.backbone[g].request_sent}
  OBVIOUS
<1>3. BlaFits(n.claim, n.backbone, n.num_requests) => BlaFits(cl, b, n.num_requests)
  BY <1>2 DEF BlaFits
<1> QED BY <1>1, <1>3, BlaWithIsRight

\* What BlaRight says of one entry
LEMMA BlaEntryIs ==
  ASSUME NEW n, BlaRight(n), NEW h \in Gws
  PROVE  /\ n \in BlaNodes /\ n.backbone \in [Gws -> BackboneGw] /\ n.backbone[h] \in BackboneGw
         /\ n.claim \in [Clients -> Claim]
         /\ n = BlaWith(n, n.claim, n.backbone, n.num_requests)
         /\ n.backbone[h].crc = Owned(n, h)
         /\ n.backbone[h].known \/ n.backbone[h] = NoBackbone
<1>1. n \in BlaNodes
  BY DEF BlaRight
<1>2. n.backbone \in [Gws -> BackboneGw] /\ n = BlaWith(n, n.claim, n.backbone, n.num_requests)
      /\ n.claim \in [Clients -> Claim]
  BY <1>1, BlaNodeIs
<1> QED BY <1>1, <1>2 DEF BlaRight, BlaFits, Owned

LEMMA BlaNone == NoBackbone \in BackboneGw /\ NoBackbone.crc = {} /\ ~NoBackbone.request_sent
<1>1. BackboneTimeout \in Nat /\ WaitPeriods \in Nat
  BY BlaAssumption
<1> QED BY <1>1 DEF NoBackbone, BackboneGw

-----------------------------------------------------------------------------
(* Frames *)

LEMMA BlaGoodIs ==
  ASSUME NEW n, BlaRight(n), NEW out \in Seq(BlaFrames)
  PROVE  BlaGood(BlaAt(n, out)) /\ BlaAt(n, out).n = n /\ BlaAt(n, out).out = out
BY DEF BlaGood, BlaAt

\* batadv_bla_send_claim
LEMMA BlaSendsClaim ==
  ASSUME NEW s, BlaGood(s), NEW type, NEW data, ClaimFrame(s.n, type, data) \in BlaFrames
  PROVE  /\ BlaGood(bla_send_claim(s, type, data))
         /\ bla_send_claim(s, type, data).n = s.n
<1> DEFINE f == ClaimFrame(s.n, type, data)
           out == Append(s.out, f)
<1>1. s = BlaAt(s.n, s.out) /\ BlaRight(s.n) /\ s.out \in Seq(BlaFrames)
  BY DEF BlaGood
<1> HIDE DEF f
<1>2. out \in Seq(BlaFrames)
  BY <1>1 DEF f
<1>3. bla_send_claim(s, type, data) = [s EXCEPT !.out = out]
  BY DEF bla_send_claim, f
<1> HIDE DEF out
<1>4. [s EXCEPT !.out = out] = BlaAt(s.n, out)
  BY <1>1 DEF BlaAt
<1> QED BY <1>1, <1>2, <1>3, <1>4, BlaGoodIs

LEMMA BlaFrameIs ==
  ASSUME NEW n, BlaRight(n)
  PROVE  /\ \A c \in Clients : /\ ClaimFrame(n, "CLAIM", c) \in BlaFrames
                               /\ ClaimFrame(n, "UNCLAIM", c) \in BlaFrames
         /\ \A S \in SUBSET Clients : ClaimFrame(n, "ANNOUNCE", S) \in BlaFrames
         /\ \A h \in Gws : ClaimFrame(n, "REQUEST", h) \in BlaFrames
<1>1. n.group \in Nat
  BY DEF BlaRight, BlaNodes
<1> QED BY <1>1 DEF ClaimFrame, BlaFrames

\* batadv_bla_send_announce
LEMMA BlaAnnounces ==
  ASSUME NEW s, BlaGood(s), NEW g \in Gws
  PROVE  /\ BlaGood(bla_send_announce(s, g)) /\ bla_send_announce(s, g).n = s.n
<1>1. BlaRight(s.n)
  BY DEF BlaGood
<1>2. s.n.backbone[g].crc \in SUBSET Clients
  BY <1>1, BlaEntryIs DEF Owned
<1>3. ClaimFrame(s.n, "ANNOUNCE", s.n.backbone[g].crc) \in BlaFrames
  BY <1>1, <1>2, BlaFrameIs
<1> QED BY <1>3, BlaSendsClaim DEF bla_send_announce

\* A frame for each of some clients
LEMMA BlaSendsForEach ==
  ASSUME NEW s, BlaGood(s), NEW type \in {"CLAIM", "UNCLAIM"}, NEW cs \in SUBSET Clients
  PROVE  BlaGood(SendForEach(s, type, cs)) /\ SendForEach(s, type, cs).n = s.n
<1> DEFINE order == SeqsExt!SetToSeq(cs)
           fs == [i \in DOMAIN order |-> ClaimFrame(s.n, type, order[i])]
           out == s.out \o fs
<1>1. s = BlaAt(s.n, s.out) /\ BlaRight(s.n) /\ s.out \in Seq(BlaFrames)
  BY DEF BlaGood
<1>2. IsFiniteSet(cs)
  BY BlaAssumption, FS_Subset
<1> DEFINE k == Cardinality(cs)
<1>3. k \in Nat /\ ExistsBijection(1..k, cs)
  BY <1>2, FS_CardinalityType
<1>4. order \in [1..k -> cs]
  <2>1. PICK b \in [1..k -> cs] : \A i, j \in 1..k : b[i] = b[j] => i = j
    BY <1>3 DEF ExistsBijection, Bijection, Injection, IsInjective
  <2>2. SeqsExt!IsInjective(b)
    BY <2>1 DEF SeqsExt!IsInjective
  <2>3. order = CHOOSE f \in [1..k -> cs] : SeqsExt!IsInjective(f)
    BY DEF SeqsExt!SetToSeq, SeqsExt!Cardinality, Cardinality
  <2> QED BY <2>1, <2>2, <2>3
<1> HIDE DEF k, order
<1>5. DOMAIN order = 1..k /\ \A i \in 1..k : order[i] \in Clients
  BY <1>4
<1>6. \A c \in Clients : ClaimFrame(s.n, type, c) \in BlaFrames
  BY <1>1, BlaFrameIs
<1>7. fs \in [1..k -> BlaFrames]
  BY <1>5, <1>6
<1>8. SendForEach(s, type, cs) = [s EXCEPT !.out = out]
  BY DEF SendForEach, order
<1> HIDE DEF fs
<1>9. fs \in Seq(BlaFrames)
  BY <1>3, <1>7
<1>10. out \in Seq(BlaFrames)
  BY <1>1, <1>9
<1> HIDE DEF out
<1>11. [s EXCEPT !.out = out] = BlaAt(s.n, out)
  BY <1>1 DEF BlaAt
<1> QED BY <1>1, <1>8, <1>10, <1>11, BlaGoodIs

-----------------------------------------------------------------------------
(* The handlers *)

\* A gateway with another entry for h, or another count
LEMMA BlaEntryAt ==
  ASSUME NEW s, s = BlaAt(s.n, s.out), s.n \in BlaNodes, NEW h \in Gws, NEW e
  PROVE  [s EXCEPT !.n.backbone[h] = e]
           = BlaAt(BlaWith(s.n, s.n.claim, [s.n.backbone EXCEPT ![h] = e], s.n.num_requests),
                   s.out)
<1> DEFINE b == [s.n.backbone EXCEPT ![h] = e]
           m == [s.n EXCEPT !.backbone = b]
<1>1. s.n = BlaWith(s.n, s.n.claim, s.n.backbone, s.n.num_requests)
  BY BlaNodeIs
<1>2. [s EXCEPT !.n.backbone[h] = e] = [s EXCEPT !.n = m]
  OBVIOUS
<1> HIDE DEF b
<1>3. m = BlaWith(s.n, s.n.claim, b, s.n.num_requests)
  BY <1>1 DEF BlaWith
<1> HIDE DEF m
<1>4. [s EXCEPT !.n = m] = BlaAt(m, s.out)
  BY DEF BlaAt
<1> QED BY <1>2, <1>3, <1>4 DEF b

LEMMA BlaCountAt ==
  ASSUME NEW n, NEW cl, NEW b, NEW k, NEW j, NEW out
  PROVE  [BlaAt(BlaWith(n, cl, b, k), out) EXCEPT !.n.num_requests = j]
           = BlaAt(BlaWith(n, cl, b, j), out)
BY DEF BlaAt, BlaWith

\* An entry of which nothing but its times changes, or that is listed now
LEMMA BlaEntrySet ==
  ASSUME NEW s, BlaGood(s), NEW h \in Gws, NEW e \in BackboneGw, e.known,
         e.crc = s.n.backbone[h].crc, e.request_sent = s.n.backbone[h].request_sent
  PROVE  LET r == [s EXCEPT !.n.backbone[h] = e] IN
         BlaGood(r) /\ r.n.backbone[h] = e /\ r.out = s.out
<1> DEFINE r == [s EXCEPT !.n.backbone[h] = e]
           b == [s.n.backbone EXCEPT ![h] = e]
           m == BlaWith(s.n, s.n.claim, b, s.n.num_requests)
<1>1. s = BlaAt(s.n, s.out) /\ BlaRight(s.n) /\ s.out \in Seq(BlaFrames) /\ s.n \in BlaNodes
  BY DEF BlaGood, BlaRight
<1>2. BlaRight(m)
  BY <1>1, BlaEntryKept
<1>3. r = BlaAt(m, s.out)
  BY <1>1, BlaEntryAt
<1>4. m.backbone[h] = e
  BY <1>1, BlaEntryIs DEF BlaWith
<1> HIDE DEF m, r
<1>5. BlaGood(r) /\ r.n = m /\ r.out = s.out
  BY <1>1, <1>2, <1>3, BlaGoodIs
<1>6. BlaGood(r) /\ r.n.backbone[h] = e /\ r.out = s.out
  BY <1>4, <1>5
<1> QED BY <1>6 DEF r

LEMMA BlaOpens ==
  ASSUME NEW s, BlaGood(s), NEW h \in Gws, s.n.backbone[h].known,
         ~s.n.backbone[h].request_sent
  PROVE  BlaGood(OpenRequest(s, h)) /\ OpenRequest(s, h).n.backbone[h].known
<1> DEFINE e == [s.n.backbone[h] EXCEPT !.request_sent = TRUE]
           c == [s.n.backbone EXCEPT ![h] = e]
           k == s.n.num_requests
           w == BlaWith(s.n, s.n.claim, c, k + 1)
           half == [s EXCEPT !.n.backbone[h] = e]
<1>1. s = BlaAt(s.n, s.out) /\ BlaRight(s.n) /\ s.out \in Seq(BlaFrames) /\ s.n \in BlaNodes
  BY DEF BlaGood, BlaRight
<1>2. s.n.backbone[h] \in BackboneGw /\ s.n.backbone \in [Gws -> BackboneGw]
  BY <1>1, BlaEntryIs
<1>3. e \in BackboneGw /\ e.known /\ e.crc = s.n.backbone[h].crc /\ e.request_sent
  BY <1>2 DEF BackboneGw
<1>4. OpenRequest(s, h) = [half EXCEPT !.n.num_requests = k + 1]
  BY DEF OpenRequest
<1> HIDE DEF e
<1>5. half = BlaAt(BlaWith(s.n, s.n.claim, c, k), s.out)
  BY <1>1, BlaEntryAt
<1> HIDE DEF half
<1>6. OpenRequest(s, h) = BlaAt(w, s.out)
  BY <1>4, <1>5, BlaCountAt
<1>7. BlaRight(w)
  BY <1>1, <1>3, BlaEntryAsked
<1>8. w.backbone[h] = e
  BY <1>2 DEF BlaWith
<1> HIDE DEF w
<1> QED BY <1>1, <1>3, <1>6, <1>7, <1>8, BlaGoodIs

LEMMA BlaCloses ==
  ASSUME NEW s, BlaGood(s), NEW h \in Gws, s.n.backbone[h].known,
         s.n.backbone[h].request_sent
  PROVE  BlaGood(CloseRequest(s, h))
<1> DEFINE e == [s.n.backbone[h] EXCEPT !.request_sent = FALSE]
           c == [s.n.backbone EXCEPT ![h] = e]
           k == s.n.num_requests
           w == BlaWith(s.n, s.n.claim, c, k - 1)
           half == [s EXCEPT !.n.backbone[h] = e]
<1>1. s = BlaAt(s.n, s.out) /\ BlaRight(s.n) /\ s.out \in Seq(BlaFrames) /\ s.n \in BlaNodes
  BY DEF BlaGood, BlaRight
<1>2. s.n.backbone[h] \in BackboneGw /\ s.n.backbone \in [Gws -> BackboneGw]
  BY <1>1, BlaEntryIs
<1>3. e \in BackboneGw /\ e.known /\ e.crc = s.n.backbone[h].crc /\ ~e.request_sent
  BY <1>2 DEF BackboneGw
<1>4. CloseRequest(s, h) = [half EXCEPT !.n.num_requests = k - 1]
  BY DEF CloseRequest
<1> HIDE DEF e
<1>5. half = BlaAt(BlaWith(s.n, s.n.claim, c, k), s.out)
  BY <1>1, BlaEntryAt
<1> HIDE DEF half
<1>6. CloseRequest(s, h) = BlaAt(w, s.out)
  BY <1>4, <1>5, BlaCountAt
<1>7. BlaRight(w)
  BY <1>1, <1>3, BlaEntryAnswered
<1> HIDE DEF w
<1> QED BY <1>1, <1>6, <1>7, BlaGoodIs

\* batadv_bla_get_backbone_gw
LEMMA BlaGetsBackbone ==
  ASSUME NEW s, BlaGood(s), NEW h \in Gws, NEW own \in BOOLEAN
  PROVE  LET r == bla_get_backbone_gw(s, h, own) IN BlaGood(r) /\ r.n.backbone[h].known
<1> DEFINE r == bla_get_backbone_gw(s, h, own)
           e == [NoBackbone EXCEPT !.known = TRUE]
           added == [s EXCEPT !.n.backbone[h] = e]
           told == bla_send_announce(added, h)
           new == [told.n.backbone[h] EXCEPT !.wait_periods = WaitPeriods]
           timed == [told EXCEPT !.n.backbone[h] = new]
<1>1. r = IF s.n.backbone[h].known THEN s ELSE IF ~own THEN added ELSE OpenRequest(timed, h)
  BY DEF bla_get_backbone_gw
<1>2. CASE s.n.backbone[h].known
  BY <1>1, <1>2
<1>3. CASE ~s.n.backbone[h].known
  <2>1. BlaRight(s.n) /\ s.n.backbone[h] = NoBackbone
    BY <1>3, BlaEntryIs DEF BlaGood
  <2>2. /\ e \in BackboneGw /\ e.known /\ e.crc = NoBackbone.crc /\ ~e.request_sent
        /\ e.request_sent = NoBackbone.request_sent
    BY BlaNone DEF NoBackbone, BackboneGw
  <2> HIDE DEF e
  <2>3. BlaGood(added) /\ added.n.backbone[h] = e
    BY <2>1, <2>2, BlaEntrySet
  <2> HIDE DEF added
  <2>4. BlaGood(told) /\ told.n.backbone[h] = e
    BY <2>3, BlaAnnounces
  <2>5. new \in BackboneGw /\ new.known /\ new.crc = e.crc /\ new.request_sent = e.request_sent
    <3>1. WaitPeriods \in 0..WaitPeriods
      BY BlaAssumption
    <3> QED BY <2>2, <2>4, <3>1 DEF BackboneGw
  <2> HIDE DEF told, new
  <2>6. BlaGood(timed) /\ timed.n.backbone[h] = new
    BY <2>4, <2>5, BlaEntrySet
  <2> HIDE DEF timed
  <2>7. BlaGood(OpenRequest(timed, h)) /\ OpenRequest(timed, h).n.backbone[h].known
    BY <2>2, <2>5, <2>6, BlaOpens
  <2> HIDE DEF r
  <2>8. BlaGood(r) /\ r.n.backbone[h].known
    BY <1>1, <1>3, <2>2, <2>3, <2>7
  <2> QED BY <2>8 DEF r
<1> QED BY <1>2, <1>3

\* The time of an entry starts again.
LEMMA BlaYoung ==
  ASSUME NEW s, BlaGood(s), NEW h \in Gws, s.n.backbone[h].known
  PROVE  LET r == [s EXCEPT !.n.backbone[h].age = 0] IN
         /\ BlaGood(r) /\ r.n.backbone[h].known
         /\ r.n.backbone[h].crc = s.n.backbone[h].crc
         /\ r.n.backbone[h].request_sent = s.n.backbone[h].request_sent
<1> DEFINE e == [s.n.backbone[h] EXCEPT !.age = 0]
           r == [s EXCEPT !.n.backbone[h] = e]
<1>1. s.n.backbone[h] \in BackboneGw
  BY BlaEntryIs DEF BlaGood
<1>2. /\ e \in BackboneGw /\ e.known /\ e.crc = s.n.backbone[h].crc
      /\ e.request_sent = s.n.backbone[h].request_sent
  BY <1>1, BlaAssumption DEF BackboneGw
<1>3. [s EXCEPT !.n.backbone[h].age = 0] = r
  OBVIOUS
<1> HIDE DEF e
<1>4. BlaGood(r) /\ r.n.backbone[h] = e
  BY <1>2, BlaEntrySet
<1> QED BY <1>2, <1>3, <1>4

\* batadv_bla_update_own_backbone_gw
LEMMA BlaUpdatesOwn ==
  ASSUME NEW s, BlaGood(s), NEW g \in Gws
  PROVE  BlaGood(bla_update_own_backbone_gw(s, g))
<1>1. BlaGood(bla_get_backbone_gw(s, g, TRUE)) /\ bla_get_backbone_gw(s, g, TRUE).n.backbone[g].known
  BY BlaGetsBackbone
<1> QED BY <1>1, BlaYoung DEF bla_update_own_backbone_gw

\* Other tables in a gateway
LEMMA BlaClaimsAt ==
  ASSUME NEW n \in BlaNodes, NEW cl
  PROVE  [n EXCEPT !.claim = cl] = BlaWith(n, cl, n.backbone, n.num_requests)
<1>1. n = BlaWith(n, n.claim, n.backbone, n.num_requests)
  BY BlaNodeIs
<1> QED BY <1>1 DEF BlaWith

LEMMA BlaBackboneAt ==
  ASSUME NEW n, NEW cl, NEW b, NEW k, NEW c
  PROVE  [BlaWith(n, cl, b, k) EXCEPT !.backbone = c] = BlaWith(n, cl, c, k)
BY DEF BlaWith

LEMMA BlaOwners ==
  ASSUME NEW n, BlaRight(n), NEW c \in Clients
  PROVE  /\ n.claim[c] \in Claim /\ n.claim[c].owner \in Gws \cup {NoGw}
         /\ \A h \in Gws : c \in n.backbone[h].crc <=> n.claim[c].owner = h
<1>1. n.claim \in [Clients -> Claim]
  BY BlaNodeIs DEF BlaRight
<1>2. \A h \in Gws : n.backbone[h].crc = {d \in Clients : n.claim[d].owner = h}
  BY DEF BlaRight, BlaFits
<1> QED BY <1>1, <1>2 DEF Claim

\* batadv_bla_del_backbone_claims
LEMMA BlaDropsClaims ==
  ASSUME NEW n, BlaRight(n), NEW h \in Gws
  PROVE  LET r == bla_del_backbone_claims(n, h) IN
         /\ BlaRight(r) /\ r.group = n.group
         /\ r.backbone[h].known = n.backbone[h].known
         /\ r.backbone[h].request_sent = n.backbone[h].request_sent
<1> DEFINE r == bla_del_backbone_claims(n, h)
           cl == [c \in Clients |-> IF c \in Owned(n, h) THEN NoClaim ELSE n.claim[c]]
           e == [n.backbone[h] EXCEPT !.crc = {}]
           b == [n.backbone EXCEPT ![h] = e]
           half == [n EXCEPT !.claim = cl]
           m == BlaWith(n, cl, b, n.num_requests)
<1>1. /\ n \in BlaNodes /\ n.backbone \in [Gws -> BackboneGw] /\ n.backbone[h] \in BackboneGw
      /\ n.claim \in [Clients -> Claim]
      /\ \A g \in Gws : n.backbone[g].known \/ n.backbone[g] = NoBackbone
      /\ n.backbone[h].crc = Owned(n, h)
  BY BlaEntryIs
<1>2. \A c \in Clients : /\ n.claim[c] \in Claim /\ n.claim[c].owner \in Gws \cup {NoGw}
                         /\ \A g \in Gws : c \in n.backbone[g].crc <=> n.claim[c].owner = g
  BY BlaOwners
<1>3. NoClaim \in Claim /\ NoClaim.owner \notin Gws
  BY BlaAssumption DEF NoClaim, Claim
<1>4. cl \in [Clients -> Claim]
  BY <1>2, <1>3
<1>5. /\ e \in BackboneGw /\ e.crc = {} /\ e.known = n.backbone[h].known
      /\ e.request_sent = n.backbone[h].request_sent
      /\ n.backbone[h] = NoBackbone => e = NoBackbone
  <2>1. [NoBackbone EXCEPT !.crc = {}] = NoBackbone
    BY DEF NoBackbone
  <2>2. n.backbone[h] = NoBackbone => e = NoBackbone
    BY <2>1
  <2>3. e \in BackboneGw /\ e.crc = {} /\ e.known = n.backbone[h].known
        /\ e.request_sent = n.backbone[h].request_sent
    BY <1>1 DEF BackboneGw
  <2> QED BY <2>2, <2>3
<1>6. \A c \in Clients : cl[c] = IF n.claim[c].owner = h THEN NoClaim ELSE n.claim[c]
  BY DEF Owned
<1>7. r = [half EXCEPT !.backbone = b]
  BY DEF bla_del_backbone_claims
<1> HIDE DEF e, cl, r
<1>8. half = BlaWith(n, cl, n.backbone, n.num_requests)
  BY <1>1, BlaClaimsAt
<1> HIDE DEF half
<1>9. b \in [Gws -> BackboneGw] /\ b[h] = e /\ \A g \in Gws : g # h => b[g] = n.backbone[g]
  BY <1>1, <1>5
<1> HIDE DEF b
<1>10. r = m
  BY <1>7, <1>8, BlaBackboneAt
<1>11. ASSUME NEW g \in Gws
       PROVE  /\ b[g].crc = {c \in Clients : cl[c].owner = g}
              /\ b[g].known \/ b[g] = NoBackbone
              /\ b[g].request_sent = n.backbone[g].request_sent
  <2>1. CASE g = h
    <3>1. {c \in Clients : cl[c].owner = h} = {}
      BY <1>3, <1>6
    <3> QED BY <1>1, <1>5, <1>9, <2>1, <3>1
  <2>2. CASE g # h
    <3>1. \A c \in Clients : cl[c].owner = g <=> n.claim[c].owner = g
      BY <1>3, <1>6, <2>2
    <3>2. n.backbone[g].crc \subseteq Clients
      BY <1>1 DEF BackboneGw
    <3>3. n.backbone[g].crc = {c \in Clients : cl[c].owner = g}
      BY <1>2, <3>1, <3>2
    <3> QED BY <1>1, <1>9, <2>2, <3>3
  <2> QED BY <2>1, <2>2
<1>12. BlaRight(m)
  BY <1>4, <1>9, <1>11, BlaTablesRight
<1>13. m.backbone = b /\ m.group = n.group
  BY DEF BlaWith
<1> HIDE DEF m
<1>14. /\ BlaRight(r) /\ r.group = n.group /\ r.backbone[h].known = n.backbone[h].known
       /\ r.backbone[h].request_sent = n.backbone[h].request_sent
  BY <1>5, <1>9, <1>10, <1>12, <1>13
<1> QED BY <1>14 DEF r

\* batadv_bla_send_request
LEMMA BlaRequests ==
  ASSUME NEW s, BlaGood(s), NEW h \in Gws, s.n.backbone[h].known
  PROVE  BlaGood(bla_send_request(s, h))
<1> DEFINE n == bla_del_backbone_claims(s.n, h)
           t == [s EXCEPT !.n = n]
           asked == bla_send_claim(t, "REQUEST", h)
<1>1. s = BlaAt(s.n, s.out) /\ BlaRight(s.n) /\ s.out \in Seq(BlaFrames)
  BY DEF BlaGood
<1>2. /\ BlaRight(n) /\ n.backbone[h].known
      /\ n.backbone[h].request_sent = s.n.backbone[h].request_sent
  BY <1>1, BlaDropsClaims
<1> HIDE DEF n
<1>3. t = BlaAt(n, s.out)
  BY <1>1 DEF BlaAt
<1>4. BlaGood(t) /\ t.n = n
  BY <1>1, <1>2, <1>3, BlaGoodIs
<1> HIDE DEF t
<1>5. ClaimFrame(t.n, "REQUEST", h) \in BlaFrames
  BY <1>2, <1>4, BlaFrameIs
<1>6. BlaGood(asked) /\ asked.n = n
  BY <1>4, <1>5, BlaSendsClaim
<1>7. bla_send_request(s, h) = IF n.backbone[h].request_sent THEN asked ELSE OpenRequest(asked, h)
  BY DEF bla_send_request, n, t
<1> HIDE DEF asked
<1>8. ~n.backbone[h].request_sent => BlaGood(OpenRequest(asked, h))
  BY <1>2, <1>6, BlaOpens
<1> QED BY <1>6, <1>7, <1>8

-----------------------------------------------------------------------------
(* Claims *)

\* A client in or out of a checksum
LEMMA BlaXor ==
  ASSUME NEW S, NEW c
  PROVE  \A x : x \in Xor(S, {c}) <=> IF x = c THEN c \notin S ELSE x \in S
BY DEF Xor

LEMMA BlaXorIn ==
  ASSUME NEW S \in SUBSET Clients, NEW c \in Clients
  PROVE  Xor(S, {c}) \in SUBSET Clients
BY DEF Xor

\* batadv_bla_add_claim
LEMMA BlaAddsClaim ==
  ASSUME NEW n, BlaRight(n), NEW c \in Clients, NEW h \in Gws, n.backbone[h].known
  PROVE  BlaRight(bla_add_claim(n, c, h))
<1> DEFINE old == n.claim[c].owner
           k == n.num_requests
           r == bla_add_claim(n, c, h)
<1>1. /\ n \in BlaNodes /\ n.backbone \in [Gws -> BackboneGw] /\ n.claim \in [Clients -> Claim]
      /\ n = BlaWith(n, n.claim, n.backbone, k)
      /\ \A g \in Gws : n.backbone[g].known \/ n.backbone[g] = NoBackbone
  BY BlaEntryIs, BlaNodeIs DEF BlaRight
<1>2. \A d \in Clients : /\ n.claim[d] \in Claim /\ n.claim[d].owner \in Gws \cup {NoGw}
                         /\ \A g \in Gws : d \in n.backbone[g].crc <=> n.claim[d].owner = g
  BY BlaOwners
<1>3. \A g \in Gws : n.backbone[g] \in BackboneGw /\ n.backbone[g].crc \in SUBSET Clients
  BY <1>1 DEF BackboneGw
<1>4. ClaimTimeout \in Nat /\ BackboneTimeout \in Nat /\ NoGw \notin Gws
  BY BlaAssumption
<1>5. CASE old = h
  <2> DEFINE a == [n.claim[c] EXCEPT !.age = 0]
             cl == [n.claim EXCEPT ![c] = a]
  <2>1. a \in Claim /\ a.owner = n.claim[c].owner
    BY <1>2, <1>4 DEF Claim
  <2>2. r = [n EXCEPT !.claim = cl]
    BY <1>5 DEF bla_add_claim
  <2> HIDE DEF a, r
  <2>3. cl \in [Clients -> Claim] /\ \A d \in Clients : cl[d].owner = n.claim[d].owner
    BY <1>1, <2>1
  <2> HIDE DEF cl
  <2>4. r = BlaWith(n, cl, n.backbone, k)
    BY <1>1, <2>2, BlaClaimsAt
  <2>5. \A g \in Gws : n.backbone[g].crc = {d \in Clients : cl[d].owner = g}
    BY <1>2, <1>3, <2>3
  <2>6. BlaRight(BlaWith(n, cl, n.backbone, k))
    BY <1>1, <2>3, <2>5, BlaTablesRight
  <2> QED BY <2>4, <2>6 DEF r
<1>6. CASE old # h
  <2> DEFINE o == [n.backbone[old] EXCEPT !.crc = Xor(@, {c})]
             b1 == IF old = NoGw THEN n.backbone ELSE [n.backbone EXCEPT ![old] = o]
             gone == IF old = NoGw THEN n ELSE [n EXCEPT !.backbone = [n.backbone EXCEPT ![old] = o]]
             e == [b1[h] EXCEPT !.crc = Xor(@, {c}), !.age = 0]
             b == [b1 EXCEPT ![h] = e]
             cl == [n.claim EXCEPT ![c] = [owner |-> h, age |-> 0]]
             m == BlaWith(n, cl, b, k)
  <2>1. gone = BlaWith(n, n.claim, b1, k)
    <3> HIDE DEF o
    <3>1. CASE old = NoGw
      BY <1>1, <3>1
    <3>2. CASE old # NoGw
      <4> DEFINE bb == [n.backbone EXCEPT ![old] = o]
      <4> HIDE DEF bb
      <4>1. [n EXCEPT !.backbone = bb] = BlaWith(n, n.claim, bb, k)
        BY <1>1, BlaBackboneAt
      <4> QED BY <3>2, <4>1 DEF bb
    <3> QED BY <3>1, <3>2
  <2>2. gone.claim = n.claim /\ gone.backbone = b1 /\ gone.num_requests = k
    <3> HIDE DEF b1, gone
    <3> QED BY <2>1 DEF BlaWith
  <2>3. r = [[gone EXCEPT !.claim = cl] EXCEPT !.backbone = b]
    <3>1. r = [gone EXCEPT !.claim[c] = [owner |-> h, age |-> 0],
                           !.backbone[h] = [gone.backbone[h] EXCEPT !.crc = Xor(@, {c}), !.age = 0]]
      BY <1>6 DEF bla_add_claim
    <3> HIDE DEF gone, r
    <3>3. r = [[gone EXCEPT !.claim = [gone.claim EXCEPT ![c] = [owner |-> h, age |-> 0]]]
                 EXCEPT !.backbone = [gone.backbone EXCEPT
                    ![h] = [gone.backbone[h] EXCEPT !.crc = Xor(@, {c}), !.age = 0]]]
      BY <3>1
    <3> QED BY <2>2, <3>3
  <2>4. b1 \in [Gws -> BackboneGw]
        /\ \A g \in Gws : /\ b1[g].known = n.backbone[g].known
                          /\ b1[g].request_sent = n.backbone[g].request_sent
                          /\ g # old => b1[g] = n.backbone[g]
                          /\ g = old => b1[g].crc = Xor(n.backbone[g].crc, {c})
    <3>1. CASE old = NoGw
      BY <1>1, <1>4, <3>1
    <3>2. CASE old # NoGw
      <4>1. old \in Gws
        BY <1>2, <3>2
      <4>2. Xor(n.backbone[old].crc, {c}) \in SUBSET Clients
        BY <1>3, <4>1, BlaXorIn
      <4>3. /\ o \in BackboneGw /\ o.known = n.backbone[old].known
            /\ o.request_sent = n.backbone[old].request_sent
            /\ o.crc = Xor(n.backbone[old].crc, {c})
        BY <1>3, <4>1, <4>2 DEF BackboneGw
      <4> HIDE DEF o
      <4> QED BY <1>1, <3>2, <4>1, <4>3
    <3> QED BY <3>1, <3>2
  <2> HIDE DEF b1, gone, o
  <2>5. /\ e \in BackboneGw /\ e.known = b1[h].known /\ e.request_sent = b1[h].request_sent
        /\ e.crc = Xor(b1[h].crc, {c})
    <3>1. b1[h] \in BackboneGw
      BY <2>4
    <3> DEFINE x == Xor(b1[h].crc, {c})
    <3>2. x \in SUBSET Clients
      BY <3>1, BlaXorIn DEF BackboneGw
    <3> HIDE DEF x
    <3>3. e = [b1[h] EXCEPT !.crc = x, !.age = 0]
      BY DEF x
    <3> DEFINE y == b1[h]
    <3> HIDE DEF y
    <3>4. /\ [y EXCEPT !.crc = x, !.age = 0] \in BackboneGw
          /\ [y EXCEPT !.crc = x, !.age = 0].known = y.known
          /\ [y EXCEPT !.crc = x, !.age = 0].request_sent = y.request_sent
          /\ [y EXCEPT !.crc = x, !.age = 0].crc = x
      <4>1. y \in BackboneGw /\ 0 \in 0..BackboneTimeout
        BY <1>4, <3>1 DEF y
      <4> QED BY <3>2, <4>1 DEF BackboneGw
    <3> HIDE DEF e
    <3> QED BY <3>3, <3>4 DEF x, y
  <2>6. [owner |-> h, age |-> 0] \in Claim
    BY <1>4 DEF Claim
  <2> HIDE DEF e
  <2>7. b \in [Gws -> BackboneGw] /\ b[h] = e /\ \A g \in Gws : g # h => b[g] = b1[g]
    BY <2>4, <2>5
  <2>8. cl \in [Clients -> Claim] /\ cl[c].owner = h
        /\ \A d \in Clients : d # c => cl[d] = n.claim[d]
    BY <1>1, <2>6
  <2> HIDE DEF b, cl, r
  <2>9. r = m
    <3> DEFINE gc == [gone EXCEPT !.claim = cl]
    <3>1. gc = BlaWith(n, cl, b1, k)
      BY <2>1 DEF BlaWith
    <3> HIDE DEF gc
    <3>2. [gc EXCEPT !.backbone = b] = m
      BY <3>1, BlaBackboneAt
    <3> QED BY <2>3, <3>2 DEF gc
  <2>10. ASSUME NEW g \in Gws
         PROVE  /\ b[g].crc = {d \in Clients : cl[d].owner = g}
                /\ b[g].known \/ b[g] = NoBackbone
                /\ b[g].request_sent = n.backbone[g].request_sent
    <3>1. b[g].crc \subseteq Clients
      BY <2>7 DEF BackboneGw
    <3>2. ASSUME NEW d \in Clients
          PROVE  d \in b[g].crc <=> cl[d].owner = g
      <4>1. CASE g = h
        BY <1>2, <1>6, <2>4, <2>5, <2>7, <2>8, <4>1, BlaXor
      <4>2. CASE g = old
        BY <1>2, <1>6, <2>4, <2>7, <2>8, <4>2, BlaXor
      <4>3. CASE g # h /\ g # old
        BY <1>2, <2>4, <2>7, <2>8, <4>3
      <4> QED BY <4>1, <4>2, <4>3
    <3>3. b[g].crc = {d \in Clients : cl[d].owner = g}
      BY <3>1, <3>2
    <3>4. b[g].request_sent = n.backbone[g].request_sent
      BY <2>4, <2>5, <2>7
    <3>5. b[g].known \/ b[g] = NoBackbone
      <4>1. CASE g = h
        BY <2>4, <2>5, <2>7, <4>1
      <4>2. CASE g # h /\ g = old
        <5>1. c \in n.backbone[g].crc
          BY <1>2, <4>2
        <5>2. n.backbone[g] # NoBackbone
          BY <5>1, BlaNone
        <5> QED BY <1>1, <2>4, <2>7, <4>2, <5>2
      <4>3. CASE g # h /\ g # old
        BY <1>1, <2>4, <2>7, <4>3
      <4> QED BY <4>1, <4>2, <4>3
    <3> QED BY <3>3, <3>4, <3>5
  <2>11. BlaRight(m)
    BY <2>7, <2>8, <2>10, BlaTablesRight
  <2> QED BY <2>9, <2>11 DEF r
<1> QED BY <1>5, <1>6

\* Clients that g owns are nobody's any more.
LEMMA BlaReleases ==
  ASSUME NEW n, BlaRight(n), NEW g \in Gws, n.backbone[g].known,
         NEW S \in SUBSET Owned(n, g)
  PROVE  LET cl == [c \in Clients |-> IF c \in S THEN NoClaim ELSE n.claim[c]]
             b == [n.backbone EXCEPT ![g].crc = Xor(@, S)]
         IN  BlaRight(BlaWith(n, cl, b, n.num_requests))
<1> DEFINE cl == [c \in Clients |-> IF c \in S THEN NoClaim ELSE n.claim[c]]
           old == n.backbone[g]
           x == Xor(old.crc, S)
           e == [old EXCEPT !.crc = x]
           b == [n.backbone EXCEPT ![g] = e]
<1>1. /\ n.backbone \in [Gws -> BackboneGw] /\ n.claim \in [Clients -> Claim]
      /\ \A h \in Gws : /\ n.backbone[h] \in BackboneGw
                        /\ n.backbone[h].known \/ n.backbone[h] = NoBackbone
  BY BlaEntryIs
<1>2. \A c \in Clients : /\ n.claim[c] \in Claim
                         /\ \A h \in Gws : c \in n.backbone[h].crc <=> n.claim[c].owner = h
  BY BlaOwners
<1>3. NoClaim \in Claim /\ NoClaim.owner \notin Gws
  BY BlaAssumption DEF NoClaim, Claim
<1>4. old \in BackboneGw /\ old.known /\ old.crc \subseteq Clients
  BY <1>1 DEF BackboneGw
<1>5. S \subseteq Clients /\ \A c \in S : n.claim[c].owner = g
  BY DEF Owned
<1>6. x \in SUBSET Clients /\ \A c \in Clients : c \in x <=> (n.claim[c].owner = g /\ c \notin S)
  BY <1>2, <1>4, <1>5 DEF Xor
<1>7. [n.backbone EXCEPT ![g].crc = Xor(@, S)] = b
  OBVIOUS
<1> HIDE DEF x
<1> HIDE DEF old
<1>8. e \in BackboneGw /\ e.known /\ e.crc = x /\ e.request_sent = old.request_sent
  BY <1>4, <1>6 DEF BackboneGw
<1> HIDE DEF e
<1>9. b \in [Gws -> BackboneGw] /\ b[g] = e /\ \A h \in Gws : h # g => b[h] = n.backbone[h]
  BY <1>1, <1>8
<1>10. cl \in [Clients -> Claim] /\ \A c \in Clients : cl[c] = IF c \in S THEN NoClaim ELSE n.claim[c]
  BY <1>1, <1>3
<1> HIDE DEF b, cl
<1>11. ASSUME NEW h \in Gws
       PROVE  /\ b[h].crc = {c \in Clients : cl[c].owner = h}
              /\ b[h].known \/ b[h] = NoBackbone
              /\ b[h].request_sent = n.backbone[h].request_sent
  <2>1. b[h].crc \subseteq Clients
    BY <1>9 DEF BackboneGw
  <2>2. ASSUME NEW c \in Clients
        PROVE  c \in b[h].crc <=> cl[c].owner = h
    <3>1. CASE h = g
      BY <1>3, <1>6, <1>8, <1>9, <1>10, <3>1
    <3>2. CASE h # g
      BY <1>2, <1>3, <1>5, <1>9, <1>10, <3>2
    <3> QED BY <3>1, <3>2
  <2>3. b[h].crc = {c \in Clients : cl[c].owner = h}
    BY <2>1, <2>2
  <2>4. (b[h].known \/ b[h] = NoBackbone) /\ b[h].request_sent = n.backbone[h].request_sent
    BY <1>1, <1>8, <1>9 DEF old
  <2> QED BY <2>3, <2>4
<1>12. BlaRight(BlaWith(n, cl, b, n.num_requests))
  BY <1>9, <1>10, <1>11, BlaTablesRight
<1> QED BY <1>7, <1>12 DEF cl

\* batadv_bla_del_claim
LEMMA BlaDelsClaim ==
  ASSUME NEW n, BlaRight(n), NEW c \in Clients
  PROVE  BlaRight(bla_del_claim(n, c))
<1> DEFINE g == n.claim[c].owner
           cl == [d \in Clients |-> IF d \in {c} THEN NoClaim ELSE n.claim[d]]
           b == [n.backbone EXCEPT ![g].crc = Xor(@, {c})]
           half == [n EXCEPT !.claim = cl]
           r == bla_del_claim(n, c)
<1>1. /\ n \in BlaNodes /\ n.claim \in [Clients -> Claim]
      /\ \A h \in Gws : n.backbone[h].known \/ n.backbone[h] = NoBackbone
  BY BlaEntryIs, BlaNodeIs DEF BlaRight
<1>2. g \in Gws \cup {NoGw} /\ \A h \in Gws : c \in n.backbone[h].crc <=> g = h
  BY BlaOwners
<1>3. CASE g = NoGw
  BY <1>3 DEF bla_del_claim
<1>4. CASE g # NoGw
  <2>1. g \in Gws /\ c \in n.backbone[g].crc /\ {c} \in SUBSET Owned(n, g)
    BY <1>2, <1>4 DEF Owned
  <2>2. n.backbone[g].known
    BY <1>1, <2>1, BlaNone
  <2>3. [n.claim EXCEPT ![c] = NoClaim] = cl
    BY <1>1
  <2>4. r = [[n EXCEPT !.claim = [n.claim EXCEPT ![c] = NoClaim]] EXCEPT !.backbone = b]
    BY <1>4 DEF bla_del_claim
  <2>5. BlaRight(BlaWith(n, cl, b, n.num_requests))
    BY <2>1, <2>2, BlaReleases
  <2> HIDE DEF cl, b, r, g
  <2>6. half = BlaWith(n, cl, n.backbone, n.num_requests)
    BY <1>1, BlaClaimsAt
  <2>7. r = [half EXCEPT !.backbone = b]
    BY <2>3, <2>4
  <2> HIDE DEF half
  <2>8. r = BlaWith(n, cl, b, n.num_requests)
    BY <2>6, <2>7, BlaBackboneAt
  <2> QED BY <2>5, <2>8 DEF r
<1> QED BY <1>3, <1>4

-----------------------------------------------------------------------------
(* Claim frames from others *)

\* A gateway in another state has sent what it had.
LEMMA BlaNodeSet ==
  ASSUME NEW s, BlaGood(s), NEW m, BlaRight(m)
  PROVE  BlaGood([s EXCEPT !.n = m]) /\ [s EXCEPT !.n = m].n = m
<1>1. s = BlaAt(s.n, s.out) /\ s.out \in Seq(BlaFrames)
  BY DEF BlaGood
<1>2. [s EXCEPT !.n = m] = BlaAt(m, s.out)
  BY <1>1 DEF BlaAt
<1> QED BY <1>1, <1>2, BlaGoodIs

\* batadv_handle_claim
LEMMA BlaHandlesClaim ==
  ASSUME NEW s, BlaGood(s), NEW g \in Gws, NEW h \in Gws, NEW c \in Clients
  PROVE  BlaGood(handle_claim(s, g, h, c))
<1> DEFINE t == bla_get_backbone_gw(s, h, FALSE)
           m == bla_add_claim(t.n, c, h)
           u == [t EXCEPT !.n = m]
<1>1. BlaGood(t) /\ t.n.backbone[h].known
  BY BlaGetsBackbone
<1>2. BlaRight(m)
  BY <1>1, BlaAddsClaim DEF BlaGood
<1>3. BlaGood(u)
  BY <1>1, <1>2, BlaNodeSet
<1>4. handle_claim(s, g, h, c) = IF h = g THEN bla_send_claim(u, "CLAIM", c) ELSE u
  BY DEF handle_claim
<1> HIDE DEF u
<1>5. ClaimFrame(u.n, "CLAIM", c) \in BlaFrames
  BY <1>3, BlaFrameIs DEF BlaGood
<1>6. BlaGood(bla_send_claim(u, "CLAIM", c))
  BY <1>3, <1>5, BlaSendsClaim
<1> QED BY <1>3, <1>4, <1>6

\* batadv_handle_unclaim
LEMMA BlaHandlesUnclaim ==
  ASSUME NEW s, BlaGood(s), NEW g \in Gws, NEW h \in Gws, NEW c \in Clients
  PROVE  BlaGood(handle_unclaim(s, g, h, c))
<1> DEFINE t == IF h = g THEN bla_send_claim(s, "UNCLAIM", c) ELSE s
           m == bla_del_claim(t.n, c)
<1>1. BlaGood(bla_send_claim(s, "UNCLAIM", c))
  BY BlaFrameIs, BlaSendsClaim DEF BlaGood
<1>2. BlaGood(t)
  BY <1>1
<1>3. handle_unclaim(s, g, h, c) = IF ~t.n.backbone[h].known THEN t ELSE [t EXCEPT !.n = m]
  BY DEF handle_unclaim
<1> HIDE DEF t
<1>4. BlaRight(m)
  BY <1>2, BlaDelsClaim DEF BlaGood
<1>5. BlaGood([t EXCEPT !.n = m])
  BY <1>2, <1>4, BlaNodeSet
<1> QED BY <1>2, <1>3, <1>5

\* batadv_handle_announce
LEMMA BlaHandlesAnnounce ==
  ASSUME NEW s, BlaGood(s), NEW h \in Gws, NEW crc
  PROVE  BlaGood(handle_announce(s, h, crc))
<1> DEFINE u == bla_get_backbone_gw(s, h, FALSE)
           t == [u EXCEPT !.n.backbone[h].age = 0]
<1>1. BlaGood(u) /\ u.n.backbone[h].known
  BY BlaGetsBackbone
<1>2. handle_announce(s, h, crc)
        = IF t.n.backbone[h].crc # crc THEN bla_send_request(t, h)
          ELSE IF t.n.backbone[h].request_sent THEN CloseRequest(t, h) ELSE t
  BY DEF handle_announce
<1> HIDE DEF u
<1>3. BlaGood(t) /\ t.n.backbone[h].known
  BY <1>1, BlaYoung
<1> HIDE DEF t
<1>4. BlaGood(bla_send_request(t, h))
  BY <1>3, BlaRequests
<1>5. t.n.backbone[h].request_sent => BlaGood(CloseRequest(t, h))
  BY <1>3, BlaCloses
<1> QED BY <1>2, <1>3, <1>4, <1>5

\* batadv_bla_answer_request
LEMMA BlaAnswers ==
  ASSUME NEW s, BlaGood(s), NEW g \in Gws
  PROVE  BlaGood(bla_answer_request(s, g))
<1> DEFINE t == SendForEach(s, "CLAIM", Owned(s.n, g))
<1>1. Owned(s.n, g) \in SUBSET Clients
  BY DEF Owned
<1>2. BlaGood(t)
  BY <1>1, BlaSendsForEach
<1>3. BlaGood(bla_send_announce(t, g))
  BY <1>2, BlaAnnounces
<1> QED BY <1>3 DEF bla_answer_request

\* batadv_check_claim_group
LEMMA BlaChecksGroup ==
  ASSUME NEW n, BlaRight(n), NEW g, NEW h, NEW f, f.group \in Nat
  PROVE  BlaRight(check_claim_group(n, g, h, f))
<1> DEFINE k == IF f.group > n.group THEN f.group ELSE n.group
           m == [n EXCEPT !.group = k]
<1>1. n \in BlaNodes /\ BlaFits(n.claim, n.backbone, n.num_requests)
  BY DEF BlaRight
<1>2. k \in Nat
  BY <1>1 DEF BlaNodes
<1>3. check_claim_group(n, g, h, f) = IF f.group = n.group THEN n ELSE m
  BY DEF check_claim_group
<1> HIDE DEF k
<1>4. m \in BlaNodes /\ m.claim = n.claim /\ m.backbone = n.backbone
      /\ m.num_requests = n.num_requests
  BY <1>1, <1>2 DEF BlaNodes
<1> HIDE DEF m
<1>5. BlaRight(m)
  BY <1>1, <1>4 DEF BlaRight
<1> QED BY <1>3, <1>5

\* batadv_bla_process_claim
LEMMA BlaProcesses ==
  ASSUME NEW s, BlaGood(s), NEW g \in Gws, NEW h \in Gws, NEW f \in BlaFrames
  PROVE  BlaGood(bla_process_claim(s, g, h, f))
<1> DEFINE m == check_claim_group(s.n, g, h, f)
           u == [s EXCEPT !.n = m]
           t == bla_update_own_backbone_gw(u, g)
           r == bla_process_claim(s, g, h, f)
<1>1. f.group \in Nat
  BY DEF BlaFrames
<1>2. BlaRight(m)
  BY <1>1, BlaChecksGroup DEF BlaGood
<1>3. BlaGood(u)
  BY <1>2, BlaNodeSet
<1>4. BlaGood(t)
  BY <1>3, BlaUpdatesOwn
<1>5. r = IF f.group # s.n.group /\ <<g, h>> \notin Mates THEN s
          ELSE CASE f.type = "CLAIM" -> handle_claim(t, g, h, f.data)
                 [] f.type = "UNCLAIM" -> handle_unclaim(t, g, h, f.data)
                 [] f.type = "ANNOUNCE" -> handle_announce(t, h, f.data)
                 [] f.type = "REQUEST" -> handle_request(t, g, f.data)
  BY DEF bla_process_claim
<1> SUFFICES BlaGood(r)
  OBVIOUS
<1> HIDE DEF t, r
<1>6. CASE f.group # s.n.group /\ <<g, h>> \notin Mates
  BY <1>5, <1>6
<1>7. CASE ~(f.group # s.n.group /\ <<g, h>> \notin Mates)
  <2>1. CASE f.type = "CLAIM"
    <3>1. f.data \in Clients
      BY <2>1 DEF BlaFrames
    <3>2. BlaGood(handle_claim(t, g, h, f.data))
      BY <1>4, <3>1, BlaHandlesClaim
    <3> QED BY <1>5, <1>7, <2>1, <3>2
  <2>2. CASE f.type = "UNCLAIM"
    <3>1. f.data \in Clients
      BY <2>2 DEF BlaFrames
    <3>2. BlaGood(handle_unclaim(t, g, h, f.data))
      BY <1>4, <3>1, BlaHandlesUnclaim
    <3> QED BY <1>5, <1>7, <2>2, <3>2
  <2>3. CASE f.type = "ANNOUNCE"
    <3>1. BlaGood(handle_announce(t, h, f.data))
      BY <1>4, BlaHandlesAnnounce
    <3> QED BY <1>5, <1>7, <2>3, <3>1
  <2>4. CASE f.type = "REQUEST"
    <3>1. BlaGood(bla_answer_request(t, g))
      BY <1>4, BlaAnswers
    <3>2. BlaGood(handle_request(t, g, f.data))
      BY <1>4, <3>1 DEF handle_request
    <3> QED BY <1>5, <1>7, <2>4, <3>2
  <2>5. f.type \in {"CLAIM", "UNCLAIM", "ANNOUNCE", "REQUEST"}
    BY DEF BlaFrames
  <2> QED BY <2>1, <2>2, <2>3, <2>4, <2>5
<1> QED BY <1>6, <1>7

-----------------------------------------------------------------------------
(* The worker *)

\* batadv_bla_purge_claims
LEMMA BlaPurgesClaims ==
  ASSUME NEW s, BlaGood(s), NEW g \in Gws
  PROVE  BlaGood(bla_purge_claims(s, g))
<1> DEFINE silent == {c \in Owned(s.n, g) : s.n.claim[c].age = ClaimTimeout}
           told == SendForEach(s, "UNCLAIM", silent)
           n == told.n
           cl == [c \in Clients |-> IF c \in silent THEN NoClaim ELSE n.claim[c]]
           b == [n.backbone EXCEPT ![g].crc = Xor(@, silent)]
           half == [n EXCEPT !.claim = cl]
           m == [half EXCEPT !.backbone = b]
           r == bla_purge_claims(s, g)
<1>1. silent \in SUBSET Owned(s.n, g) /\ Owned(s.n, g) \subseteq Clients
  BY DEF Owned
<1>2. r = IF ~s.n.backbone[g].known THEN told ELSE [told EXCEPT !.n = m]
  BY DEF bla_purge_claims
<1> HIDE DEF silent, r
<1>3. BlaGood(told) /\ n = s.n
  BY <1>1, BlaSendsForEach
<1> HIDE DEF told
<1>4. BlaRight(n) /\ n \in BlaNodes
  BY <1>3 DEF BlaGood, BlaRight
<1>5. CASE ~s.n.backbone[g].known
  BY <1>2, <1>3, <1>5 DEF r
<1>6. CASE s.n.backbone[g].known
  <2>1. BlaRight(BlaWith(n, cl, b, n.num_requests))
    BY <1>1, <1>3, <1>4, <1>6, BlaReleases
  <2> HIDE DEF cl, b, n
  <2>2. half = BlaWith(n, cl, n.backbone, n.num_requests)
    BY <1>4, BlaClaimsAt
  <2> HIDE DEF half
  <2>3. m = BlaWith(n, cl, b, n.num_requests)
    BY <2>2, BlaBackboneAt
  <2> HIDE DEF m
  <2>4. BlaGood([told EXCEPT !.n = m])
    BY <1>3, <2>1, <2>3, BlaNodeSet
  <2> QED BY <1>2, <1>6, <2>4 DEF r
<1> QED BY <1>5, <1>6

\* batadv_bla_purge_backbone_gw: what gateways that are gone owned, and the
\* requests they have not answered, go with them.
LEMMA BlaPurges ==
  ASSUME NEW n, BlaRight(n), NEW gone \in SUBSET Gws
  PROVE  BlaRight(purge_gw(n, gone))
<1> DEFINE W == {h \in Gws : n.backbone[h].request_sent}
           V == {h \in gone : n.backbone[h].request_sent}
           cl == [c \in Clients |-> IF n.claim[c].owner \in gone THEN NoClaim ELSE n.claim[c]]
           b == [h \in Gws |-> IF h \in gone THEN NoBackbone ELSE n.backbone[h]]
           k == n.num_requests - Cardinality(V)
           m == BlaWith(n, cl, b, k)
<1>1. /\ n \in BlaNodes /\ n = BlaWith(n, n.claim, n.backbone, n.num_requests)
      /\ BlaFits(n.claim, n.backbone, n.num_requests)
  BY BlaNodeIs DEF BlaRight
<1>2. \A c \in Clients : /\ n.claim[c] \in Claim
                         /\ \A h \in Gws : c \in n.backbone[h].crc <=> n.claim[c].owner = h
  BY BlaOwners
<1>3. \A h \in Gws : /\ n.backbone[h] \in BackboneGw
                     /\ n.backbone[h].known \/ n.backbone[h] = NoBackbone
  BY BlaEntryIs
<1>4. NoClaim \in Claim /\ NoClaim.owner \notin Gws
  BY BlaAssumption DEF NoClaim, Claim
<1>5. NoBackbone \in BackboneGw /\ NoBackbone.crc = {} /\ ~NoBackbone.request_sent
  BY BlaNone
<1>6. IsFiniteSet(W) /\ n.num_requests = Cardinality(W)
  BY <1>1, BlaWaitedFinite DEF BlaFits
<1>7. V = W \cap gone
  OBVIOUS
<1>8. purge_gw(n, gone) = m
  <2>1. purge_gw(n, gone) = [n EXCEPT !.claim = cl, !.backbone = b, !.num_requests = k]
    BY DEF purge_gw
  <2> HIDE DEF cl, b, k
  <2> DEFINE half == [n EXCEPT !.claim = cl]
             most == [half EXCEPT !.backbone = b]
  <2>2. [n EXCEPT !.claim = cl, !.backbone = b, !.num_requests = k]
          = [most EXCEPT !.num_requests = k]
    OBVIOUS
  <2>3. half = BlaWith(n, cl, n.backbone, n.num_requests)
    BY <1>1, BlaClaimsAt
  <2> HIDE DEF half
  <2>4. most = BlaWith(n, cl, b, n.num_requests)
    BY <2>3, BlaBackboneAt
  <2> HIDE DEF most
  <2>5. [most EXCEPT !.num_requests = k] = m
    BY <2>4 DEF BlaWith
  <2> QED BY <2>1, <2>2, <2>5
<1>9. cl \in [Clients -> Claim]
      /\ \A c \in Clients : cl[c] = IF n.claim[c].owner \in gone THEN NoClaim ELSE n.claim[c]
  BY <1>2, <1>4
<1>10. b \in [Gws -> BackboneGw]
       /\ \A h \in Gws : b[h] = IF h \in gone THEN NoBackbone ELSE n.backbone[h]
  BY <1>3, <1>5
<1> HIDE DEF cl, b
<1>11. k = Cardinality({h \in Gws : b[h].request_sent})
  <2>1. {h \in Gws : b[h].request_sent} = W \ gone
    BY <1>5, <1>10
  <2> HIDE DEF W, V
  <2>2. Cardinality(W \ gone) = Cardinality(W) - Cardinality(W \cap gone)
    BY <1>6, FS_Difference
  <2> QED BY <1>6, <1>7, <2>1, <2>2
<1> HIDE DEF k, m
<1>12. ASSUME NEW h \in Gws
       PROVE  /\ b[h].crc = {c \in Clients : cl[c].owner = h}
              /\ b[h].known \/ b[h] = NoBackbone
  <2>1. b[h].crc \subseteq Clients
    BY <1>10 DEF BackboneGw
  <2>2. ASSUME NEW c \in Clients
        PROVE  c \in b[h].crc <=> cl[c].owner = h
    BY <1>2, <1>4, <1>5, <1>9, <1>10
  <2>3. b[h].crc = {c \in Clients : cl[c].owner = h}
    BY <2>1, <2>2
  <2> QED BY <1>3, <1>10, <2>3
<1>13. BlaFits(cl, b, k)
  BY <1>9, <1>10, <1>11, <1>12 DEF BlaFits
<1>14. BlaRight(m)
  BY <1>1, <1>13, BlaWithIsRight DEF m
<1> QED BY <1>8, <1>14

LEMMA BlaPurgesBackbone ==
  ASSUME NEW n, BlaRight(n), NEW now
  PROVE  BlaRight(bla_purge_backbone_gw(n, now))
BY BlaPurges DEF bla_purge_backbone_gw

\* batadv_bla_periodic_work, the part for the own gateway
LEMMA BlaAnnouncesOwn ==
  ASSUME NEW s, BlaGood(s), NEW g \in Gws, s.n.backbone[g].known
  PROVE  BlaGood(announce_own(s, g))
<1> DEFINE young == [s EXCEPT !.n.backbone[g].age = 0]
           t == bla_send_announce(young, g)
           e == t.n.backbone[g]
           f == [e EXCEPT !.wait_periods = @ - 1]
           z == [e EXCEPT !.wait_periods = 0]
           waits == [t EXCEPT !.n.backbone[g] = f]
           over == [t EXCEPT !.n.backbone[g] = z]
           r == announce_own(s, g)
<1>1. r = IF ~e.request_sent THEN t
          ELSE IF e.wait_periods > 1 THEN waits ELSE CloseRequest(over, g)
  BY DEF announce_own
<1> SUFFICES BlaGood(r)
  OBVIOUS
<1> HIDE DEF r
<1>2. BlaGood(young) /\ young.n.backbone[g].known
  BY BlaYoung
<1> HIDE DEF young
<1>3. BlaGood(t) /\ e.known
  BY <1>2, BlaAnnounces
<1> HIDE DEF t
<1>4. e \in BackboneGw
  BY <1>3, BlaEntryIs DEF BlaGood
<1>5. CASE ~e.request_sent
  BY <1>1, <1>3, <1>5
<1>6. CASE e.request_sent /\ e.wait_periods > 1
  <2> DEFINE old == e
  <2>1. old \in BackboneGw /\ old.wait_periods > 1
    BY <1>4, <1>6
  <2> HIDE DEF old
  <2>2. old.wait_periods - 1 \in 0..WaitPeriods
    BY <2>1, BlaAssumption DEF BackboneGw
  <2>3. LET new == [old EXCEPT !.wait_periods = old.wait_periods - 1] IN
        /\ new \in BackboneGw /\ new.known = old.known /\ new.crc = old.crc
        /\ new.request_sent = old.request_sent
    BY <2>1, <2>2 DEF BackboneGw
  <2>4. f \in BackboneGw /\ f.known /\ f.crc = e.crc /\ f.request_sent = e.request_sent
    BY <1>3, <2>3 DEF old
  <2> HIDE DEF f
  <2>5. BlaGood(waits)
    BY <1>3, <2>4, BlaEntrySet
  <2> QED BY <1>1, <1>6, <2>5
<1>7. CASE e.request_sent /\ ~(e.wait_periods > 1)
  <2> DEFINE old == e
  <2> HIDE DEF old
  <2>1. old \in BackboneGw /\ 0 \in 0..WaitPeriods
    BY <1>4, BlaAssumption DEF old
  <2>2. LET new == [old EXCEPT !.wait_periods = 0] IN
        /\ new \in BackboneGw /\ new.known = old.known /\ new.crc = old.crc
        /\ new.request_sent = old.request_sent
    BY <2>1 DEF BackboneGw
  <2>3. z \in BackboneGw /\ z.known /\ z.crc = e.crc /\ z.request_sent
    BY <1>3, <1>7, <2>2 DEF old
  <2> HIDE DEF z
  <2>4. BlaGood(over) /\ over.n.backbone[g] = z
    BY <1>3, <1>7, <2>3, BlaEntrySet
  <2> HIDE DEF over
  <2>5. BlaGood(CloseRequest(over, g))
    BY <2>3, <2>4, BlaCloses
  <2> QED BY <1>1, <1>7, <2>5
<1> QED BY <1>5, <1>6, <1>7

LEMMA BlaGrown ==
  ASSUME NEW limit \in Nat, NEW age \in 0..limit
  PROVE  Grown(age, limit) \in 0..limit
BY DEF Grown

\* A period has passed.
LEMMA BlaOlder ==
  ASSUME NEW n, BlaRight(n)
  PROVE  BlaRight(Older(n))
<1> DEFINE cl == [c \in Clients |-> IF n.claim[c].owner = NoGw THEN NoClaim
                    ELSE [n.claim[c] EXCEPT !.age = Grown(@, ClaimTimeout)]]
           b == [h \in Gws |-> IF ~n.backbone[h].known THEN NoBackbone
                   ELSE [n.backbone[h] EXCEPT !.age = Grown(@, BackboneTimeout)]]
           half == [n EXCEPT !.claim = cl]
           m == BlaWith(n, cl, b, n.num_requests)
<1>1. n \in BlaNodes
  BY DEF BlaRight
<1>2. \A c \in Clients : /\ n.claim[c] \in Claim
                         /\ \A h \in Gws : c \in n.backbone[h].crc <=> n.claim[c].owner = h
  BY BlaOwners
<1>3. \A h \in Gws : /\ n.backbone[h] \in BackboneGw
                     /\ n.backbone[h].known \/ n.backbone[h] = NoBackbone
  BY BlaEntryIs
<1>4. NoClaim \in Claim /\ NoClaim.owner = NoGw
  BY BlaAssumption DEF NoClaim, Claim
<1>5. Older(n) = [half EXCEPT !.backbone = b]
  BY DEF Older
<1>6. ASSUME NEW c \in Clients
      PROVE  cl[c] \in Claim /\ cl[c].owner = n.claim[c].owner
  <2> DEFINE old == n.claim[c]
             a == Grown(old.age, ClaimTimeout)
             e == [old EXCEPT !.age = a]
  <2>1. old \in Claim /\ ClaimTimeout \in Nat
    BY <1>2, BlaAssumption
  <2>2. cl[c] = IF old.owner = NoGw THEN NoClaim ELSE e
    OBVIOUS
  <2> HIDE DEF old, cl
  <2>3. a \in 0..ClaimTimeout
    BY <2>1, BlaGrown DEF Claim
  <2> HIDE DEF a
  <2>4. e \in Claim /\ e.owner = old.owner
    BY <2>1, <2>3 DEF Claim
  <2> HIDE DEF e
  <2>5. cl[c] \in Claim /\ cl[c].owner = old.owner
    BY <1>4, <2>2, <2>4
  <2> QED BY <2>5 DEF old
<1>7. ASSUME NEW h \in Gws
      PROVE  /\ b[h] \in BackboneGw /\ b[h].crc = n.backbone[h].crc
             /\ b[h].request_sent = n.backbone[h].request_sent
             /\ b[h].known \/ b[h] = NoBackbone
  <2> DEFINE old == n.backbone[h]
             a == Grown(old.age, BackboneTimeout)
             e == [old EXCEPT !.age = a]
  <2>1. old \in BackboneGw /\ BackboneTimeout \in Nat /\ (old.known \/ old = NoBackbone)
    BY <1>3, BlaAssumption
  <2>2. b[h] = IF ~old.known THEN NoBackbone ELSE e
    OBVIOUS
  <2> HIDE DEF old, b
  <2>3. a \in 0..BackboneTimeout
    BY <2>1, BlaGrown DEF BackboneGw
  <2> HIDE DEF a
  <2>4. /\ e \in BackboneGw /\ e.crc = old.crc /\ e.request_sent = old.request_sent
        /\ e.known = old.known
    BY <2>1, <2>3 DEF BackboneGw
  <2> HIDE DEF e
  <2>5. /\ b[h] \in BackboneGw /\ b[h].crc = old.crc /\ b[h].request_sent = old.request_sent
        /\ b[h].known \/ b[h] = NoBackbone
    BY <2>1, <2>2, <2>4
  <2> QED BY <2>5 DEF old
<1>8. cl \in [Clients -> Claim] /\ b \in [Gws -> BackboneGw]
  BY <1>6, <1>7
<1> HIDE DEF cl, b
<1>9. half = BlaWith(n, cl, n.backbone, n.num_requests)
  BY <1>1, BlaClaimsAt
<1> HIDE DEF half
<1>10. Older(n) = m
  BY <1>5, <1>9, BlaBackboneAt
<1>11. ASSUME NEW h \in Gws
       PROVE  b[h].crc = {c \in Clients : cl[c].owner = h}
  <2>1. b[h].crc \subseteq Clients
    BY <1>8 DEF BackboneGw
  <2>2. \A c \in Clients : c \in b[h].crc <=> cl[c].owner = h
    BY <1>2, <1>6, <1>7
  <2> QED BY <2>1, <2>2
<1>12. BlaRight(m)
  BY <1>7, <1>8, <1>11, BlaTablesRight
<1> QED BY <1>10, <1>12

-----------------------------------------------------------------------------
(* Steps *)

BlaTables ==
  /\ bla \in [Gws -> BlaNodes] /\ \A g \in Gws : BlaRight(bla[g])
  /\ lan \in [Gws \X Gws -> Seq(BlaFrames)]

BlaInv == BlaTables /\ blaRan \subseteq Gws

LEMMA BlaQuietGood ==
  ASSUME NEW n, BlaRight(n)
  PROVE  BlaGood([n |-> n, out |-> <<>>])
<1>1. <<>> \in Seq(BlaFrames)
  OBVIOUS
<1>2. [n |-> n, out |-> <<>>] = BlaAt(n, <<>>)
  BY DEF BlaAt
<1> QED BY <1>1, <1>2, BlaGoodIs

LEMMA BlaSent ==
  ASSUME BlaTables, NEW g \in Gws, NEW s, BlaGood(s),
         NEW queue \in [Gws \X Gws -> Seq(BlaFrames)], Sent(g, s, queue)
  PROVE  BlaTables'
<1> DEFINE m == s.n
           o == s.out
<1>1. m \in BlaNodes /\ BlaRight(m) /\ o \in Seq(BlaFrames)
  BY DEF BlaGood, BlaRight
<1>2. bla' = [bla EXCEPT ![g] = m]
      /\ lan' = [p \in Gws \X Gws |->
                   IF p[1] # g \/ p[2] = g THEN queue[p] ELSE queue[p] \o o]
  BY DEF Sent
<1> HIDE DEF m, o
<1>3. bla' \in [Gws -> BlaNodes] /\ bla'[g] = m /\ \A h \in Gws : h # g => bla'[h] = bla[h]
  BY <1>1, <1>2 DEF BlaTables
<1>4. \A h \in Gws : BlaRight(bla'[h])
  BY <1>1, <1>3 DEF BlaTables
<1>5. \A p \in Gws \X Gws : queue[p] \in Seq(BlaFrames) /\ queue[p] \o o \in Seq(BlaFrames)
  BY <1>1
<1>6. lan' \in [Gws \X Gws -> Seq(BlaFrames)]
  BY <1>2, <1>5
<1> QED BY <1>3, <1>4, <1>6 DEF BlaTables

\* batadv_bla_periodic_work
LEMMA BlaWorks ==
  ASSUME BlaTables, NEW g \in Gws, bla_periodic_work(g)
  PROVE  BlaTables'
<1> DEFINE a == [n |-> Older(bla[g]), out |-> <<>>]
           s == bla_purge_claims(a, g)
           m == bla_purge_backbone_gw(s.n, FALSE)
           t == [s EXCEPT !.n = m]
           r == IF t.n.on /\ t.n.backbone[g].known THEN announce_own(t, g) ELSE t
<1>1. Sent(g, r, lan)
  BY DEF bla_periodic_work
<1>2. BlaRight(bla[g]) /\ lan \in [Gws \X Gws -> Seq(BlaFrames)]
  BY DEF BlaTables
<1>3. BlaGood(a)
  BY <1>2, BlaOlder, BlaQuietGood
<1> HIDE DEF a
<1>4. BlaGood(s)
  BY <1>3, BlaPurgesClaims
<1> HIDE DEF s
<1>5. BlaRight(m)
  BY <1>4, BlaPurgesBackbone DEF BlaGood
<1> HIDE DEF m
<1>6. BlaGood(t)
  BY <1>4, <1>5, BlaNodeSet
<1> HIDE DEF t
<1>7. t.n.backbone[g].known => BlaGood(announce_own(t, g))
  BY <1>6, BlaAnnouncesOwn
<1>8. BlaGood(r)
  BY <1>6, <1>7
<1> HIDE DEF r
<1> QED BY <1>1, <1>2, <1>8, BlaSent

\* batadv_bla_tx with a claim frame
LEMMA BlaReceives ==
  ASSUME BlaTables, NEW g \in Gws, NEW h \in Gws, Receive(g, h)
  PROVE  BlaTables'
<1> DEFINE q == lan[<<h, g>>]
           f == Head(q)
           rest == [lan EXCEPT ![<<h, g>>] = Tail(q)]
           s == IF bla[g].on THEN bla_process_claim(Quiet(g), g, h, f)
                ELSE bla_update_own_backbone_gw(Quiet(g), g)
<1>1. Sent(g, s, rest) /\ q # <<>>
  BY DEF Receive
<1>2. BlaRight(bla[g]) /\ lan \in [Gws \X Gws -> Seq(BlaFrames)] /\ q \in Seq(BlaFrames)
  BY DEF BlaTables
<1>3. BlaGood(Quiet(g))
  BY <1>2, BlaQuietGood DEF Quiet
<1> HIDE DEF q
<1>4. f \in BlaFrames /\ Tail(q) \in Seq(BlaFrames)
  BY <1>1, <1>2
<1>5. rest \in [Gws \X Gws -> Seq(BlaFrames)]
  BY <1>2, <1>4
<1> HIDE DEF f, rest
<1>6. BlaGood(s)
  BY <1>3, <1>4, BlaProcesses, BlaUpdatesOwn
<1> HIDE DEF s
<1> QED BY <1>1, <1>5, <1>6, BlaSent

LEMMA BlaLoses ==
  ASSUME BlaTables, NEW g \in Gws, NEW h \in Gws, Lose(g, h)
  PROVE  BlaTables'
<1> DEFINE q == lan[<<h, g>>]
<1>1. q \in Seq(BlaFrames) /\ q # <<>> /\ lan \in [Gws \X Gws -> Seq(BlaFrames)]
  BY DEF BlaTables, Lose
<1>2. bla' = bla /\ lan' = [lan EXCEPT ![<<h, g>>] = Tail(q)]
  BY DEF Lose
<1> HIDE DEF q
<1>3. Tail(q) \in Seq(BlaFrames)
  BY <1>1
<1>4. lan' \in [Gws \X Gws -> Seq(BlaFrames)]
  BY <1>1, <1>2, <1>3
<1> QED BY <1>2, <1>4 DEF BlaTables

\* batadv_bla_rx
LEMMA BlaForwards ==
  ASSUME BlaTables, NEW g \in Gws, NEW c \in Clients, NEW bcast, bla_rx(g, c, bcast)
  PROVE  BlaTables'
<1> DEFINE q == Quiet(g)
           cl == [q.n.claim EXCEPT ![c].age = 0]
           m == [q.n EXCEPT !.claim = cl]
           heard == [q EXCEPT !.n = m]
           claimed == IF ~bla[g].on THEN q
                      ELSE IF bla[g].claim[c].owner = g THEN heard
                      ELSE handle_claim(q, g, g, c)
<1>1. Sent(g, bla_update_own_backbone_gw(claimed, g), lan)
  BY DEF bla_rx
<1>2. BlaRight(bla[g]) /\ lan \in [Gws \X Gws -> Seq(BlaFrames)]
  BY DEF BlaTables
<1>3. BlaGood(q) /\ q.n = bla[g]
  BY <1>2, BlaQuietGood DEF Quiet
<1> HIDE DEF q
<1>4. BlaGood(handle_claim(q, g, g, c))
  BY <1>3, BlaHandlesClaim
<1>5. BlaRight(m)
  <2> DEFINE n == q.n
             old == n.claim[c]
             a == [old EXCEPT !.age = 0]
             tab == [n.claim EXCEPT ![c] = a]
  <2>1. BlaRight(n) /\ n \in BlaNodes
    BY <1>3 DEF BlaGood, BlaRight
  <2>2. /\ n.claim \in [Clients -> Claim]
        /\ \A d \in Clients : /\ n.claim[d] \in Claim
                              /\ \A h \in Gws : d \in n.backbone[h].crc <=> n.claim[d].owner = h
        /\ n.backbone \in [Gws -> BackboneGw]
        /\ \A h \in Gws : n.backbone[h].known \/ n.backbone[h] = NoBackbone
    BY <2>1, BlaOwners, BlaEntryIs, BlaNodeIs
  <2>3. cl = tab
    OBVIOUS
  <2>4. old \in Claim /\ 0 \in 0..ClaimTimeout
    BY <2>2, BlaAssumption
  <2> HIDE DEF old, n, cl
  <2>5. a \in Claim /\ a.owner = old.owner
    BY <2>4 DEF Claim
  <2> HIDE DEF a
  <2>6. tab \in [Clients -> Claim] /\ \A d \in Clients : tab[d].owner = n.claim[d].owner
    BY <2>2, <2>5 DEF old
  <2> HIDE DEF tab
  <2>7. ASSUME NEW h \in Gws
        PROVE  n.backbone[h].crc = {d \in Clients : tab[d].owner = h}
    <3>1. n.backbone[h].crc \subseteq Clients
      BY <2>2 DEF BackboneGw
    <3> QED BY <2>2, <2>6, <3>1
  <2>8. BlaRight(BlaWith(n, tab, n.backbone, n.num_requests))
    BY <2>1, <2>2, <2>6, <2>7, BlaTablesRight
  <2>9. m = [n EXCEPT !.claim = tab]
    BY <2>3 DEF n
  <2>10. [n EXCEPT !.claim = tab] = BlaWith(n, tab, n.backbone, n.num_requests)
    BY <2>1, BlaClaimsAt
  <2> QED BY <2>8, <2>9, <2>10
<1> HIDE DEF m
<1>6. BlaGood(heard)
  BY <1>3, <1>5, BlaNodeSet
<1>7. BlaGood(claimed)
  BY <1>3, <1>4, <1>6
<1> HIDE DEF claimed
<1>8. BlaGood(bla_update_own_backbone_gw(claimed, g))
  BY <1>7, BlaUpdatesOwn
<1> QED BY <1>1, <1>2, <1>8, BlaSent

\* batadv_bla_tx with the frame of a client
LEMMA BlaTakesFrame ==
  ASSUME BlaTables, NEW g \in Gws, NEW c \in Clients, NEW bcast, bla_tx(g, c, bcast)
  PROVE  BlaTables'
<1> DEFINE freed == IF bla[g].on /\ bla[g].claim[c].owner = g
                    THEN handle_unclaim(Quiet(g), g, g, c) ELSE Quiet(g)
<1>1. Sent(g, bla_update_own_backbone_gw(freed, g), lan)
  BY DEF bla_tx
<1>2. BlaRight(bla[g]) /\ lan \in [Gws \X Gws -> Seq(BlaFrames)]
  BY DEF BlaTables
<1>3. BlaGood(Quiet(g))
  BY <1>2, BlaQuietGood DEF Quiet
<1>4. BlaGood(freed)
  BY <1>3, BlaHandlesUnclaim
<1> HIDE DEF freed
<1>5. BlaGood(bla_update_own_backbone_gw(freed, g))
  BY <1>4, BlaUpdatesOwn
<1> QED BY <1>1, <1>2, <1>5, BlaSent

\* batadv_bla_status_update with the feature switched off: all claims go, and
\* so do the gateways.
LEMMA BlaEmpties ==
  ASSUME NEW n, BlaRight(n)
  PROVE  LET empty == [n EXCEPT !.claim = [c \in Clients |-> NoClaim]] IN
         BlaRight([empty EXCEPT !.backbone = [h \in Gws |-> [@[h] EXCEPT !.crc = {}]]])
<1> DEFINE cl == [c \in Clients |-> NoClaim]
           empty == [n EXCEPT !.claim = cl]
           b == [h \in Gws |-> [n.backbone[h] EXCEPT !.crc = {}]]
<1>1. n \in BlaNodes
  BY DEF BlaRight
<1>2. NoClaim \in Claim /\ NoClaim.owner \notin Gws
  BY BlaAssumption DEF NoClaim, Claim
<1>3. cl \in [Clients -> Claim] /\ \A c \in Clients : cl[c].owner \notin Gws
  BY <1>2
<1>4. ASSUME NEW h \in Gws
      PROVE  /\ b[h] \in BackboneGw /\ b[h].crc = {}
             /\ b[h].request_sent = n.backbone[h].request_sent
             /\ b[h].known \/ b[h] = NoBackbone
  <2> DEFINE old == n.backbone[h]
             e == [old EXCEPT !.crc = {}]
  <2>1. old \in BackboneGw /\ (old.known \/ old = NoBackbone)
    BY BlaEntryIs
  <2>2. b[h] = e
    OBVIOUS
  <2> HIDE DEF old
  <2>3. e \in BackboneGw /\ e.crc = {} /\ e.request_sent = old.request_sent /\ e.known = old.known
    BY <2>1 DEF BackboneGw
  <2>4. [NoBackbone EXCEPT !.crc = {}] = NoBackbone
    BY DEF NoBackbone
  <2>5. old = NoBackbone => e = NoBackbone
    BY <2>4
  <2> HIDE DEF e, b
  <2>6. /\ b[h] \in BackboneGw /\ b[h].crc = {} /\ b[h].request_sent = old.request_sent
        /\ b[h].known \/ b[h] = NoBackbone
    BY <2>1, <2>2, <2>3, <2>5
  <2> QED BY <2>6 DEF old
<1>5. b \in [Gws -> BackboneGw]
  BY <1>4
<1>6. empty = BlaWith(n, cl, n.backbone, n.num_requests)
  BY <1>1, BlaClaimsAt
<1>7. [empty EXCEPT !.backbone = [h \in Gws |-> [@[h] EXCEPT !.crc = {}]]]
        = [empty EXCEPT !.backbone = b]
  OBVIOUS
<1> SUFFICES BlaRight([empty EXCEPT !.backbone = b])
  BY <1>7
<1> HIDE DEF b, cl, empty
<1>8. [empty EXCEPT !.backbone = b] = BlaWith(n, cl, b, n.num_requests)
  BY <1>6, BlaBackboneAt
<1>9. ASSUME NEW h \in Gws
      PROVE  b[h].crc = {c \in Clients : cl[c].owner = h}
  BY <1>3, <1>4
<1>10. BlaRight(BlaWith(n, cl, b, n.num_requests))
  BY <1>3, <1>4, <1>5, <1>9, BlaTablesRight
<1> QED BY <1>8, <1>10

\* batadv_bla_status_update
LEMMA BlaToggles ==
  ASSUME BlaTables, NEW g \in Gws, bla_status_update(g)
  PROVE  BlaTables'
<1> DEFINE old == bla[g]
           x == ~old.on
           k == GroupOf[g]
           n == [old EXCEPT !.on = x, !.group = k]
           empty == [n EXCEPT !.claim = [c \in Clients |-> NoClaim]]
           m == [empty EXCEPT !.backbone = [h \in Gws |-> [@[h] EXCEPT !.crc = {}]]]
           off == [n |-> bla_purge_backbone_gw(m, TRUE), out |-> <<>>]
           plain == [n |-> n, out |-> <<>>]
           s == IF ~n.on THEN off
                ELSE IF n.backbone[g].known THEN bla_send_announce(plain, g) ELSE plain
<1>1. Sent(g, s, lan)
  BY DEF bla_status_update
<1>2. BlaRight(old) /\ lan \in [Gws \X Gws -> Seq(BlaFrames)]
  BY DEF BlaTables
<1>3. x \in BOOLEAN /\ k \in Nat
  BY BlaAssumption
<1> HIDE DEF old, x, k
<1>4. BlaRight(n)
  <2>1. old \in BlaNodes /\ BlaFits(old.claim, old.backbone, old.num_requests)
    BY <1>2 DEF BlaRight
  <2>2. n \in BlaNodes /\ n.claim = old.claim /\ n.backbone = old.backbone
        /\ n.num_requests = old.num_requests
    BY <1>3, <2>1 DEF BlaNodes
  <2> HIDE DEF n
  <2> QED BY <2>1, <2>2 DEF BlaRight
<1> HIDE DEF n
<1>5. BlaRight(m)
  BY <1>4, BlaEmpties
<1> HIDE DEF m
<1>6. BlaGood(off)
  BY <1>5, BlaPurgesBackbone, BlaQuietGood
<1>7. BlaGood(plain)
  BY <1>4, BlaQuietGood
<1> HIDE DEF off, plain
<1>8. BlaGood(s)
  BY <1>6, <1>7, BlaAnnounces
<1> HIDE DEF s
<1> QED BY <1>1, <1>2, <1>8, BlaSent

LEMMA BlaInitRight == BlaInit => BlaInv
<1> SUFFICES ASSUME BlaInit PROVE BlaInv
  OBVIOUS
<1>1. NoClaim \in Claim /\ NoClaim.owner \notin Gws
  BY BlaAssumption DEF NoClaim, Claim
<1>2. NoBackbone \in BackboneGw /\ NoBackbone.crc = {} /\ ~NoBackbone.request_sent
  BY BlaNone
<1>3. ASSUME NEW g \in Gws
      PROVE  bla_init(g) \in BlaNodes /\ BlaRight(bla_init(g))
  <2> DEFINE cl == [c \in Clients |-> NoClaim]
             b == [h \in Gws |-> NoBackbone]
             k == GroupOf[g]
             n == [on |-> TRUE, group |-> k, num_requests |-> 0, claim |-> cl, backbone |-> b]
  <2>1. n = bla_init(g)
    BY DEF bla_init
  <2>2. k \in Nat
    BY BlaAssumption
  <2>3. cl \in [Clients -> Claim] /\ b \in [Gws -> BackboneGw]
    BY <1>1, <1>2
  <2>4. \A h \in Gws : b[h].crc = {c \in Clients : cl[c].owner = h} /\ b[h] = NoBackbone
    BY <1>1, <1>2
  <2>5. {h \in Gws : b[h].request_sent} = {}
    BY <1>2
  <2>6. Cardinality({h \in Gws : b[h].request_sent}) = 0
    BY <2>5, FS_EmptySet
  <2> HIDE DEF cl, b, k
  <2>7. BlaFits(cl, b, 0)
    BY <2>3, <2>4, <2>6 DEF BlaFits
  <2>8. n \in BlaNodes /\ n.claim = cl /\ n.backbone = b /\ n.num_requests = 0
    BY <2>2, <2>3 DEF BlaNodes
  <2> HIDE DEF n
  <2>9. BlaRight(n)
    BY <2>7, <2>8 DEF BlaRight
  <2> QED BY <2>1, <2>8, <2>9
<1>4. bla \in [Gws -> BlaNodes] /\ \A g \in Gws : BlaRight(bla[g])
  BY <1>3 DEF BlaInit
<1>5. lan \in [Gws \X Gws -> Seq(BlaFrames)]
  <2>1. <<>> \in Seq(BlaFrames)
    OBVIOUS
  <2> QED BY <2>1 DEF BlaInit
<1>6. blaRan \subseteq Gws
  BY DEF BlaInit
<1> QED BY <1>4, <1>5, <1>6 DEF BlaInv, BlaTables

LEMMA BlaStep == BlaInv /\ [BlaNext]_blaVars => BlaInv'
<1> SUFFICES ASSUME BlaInv, [BlaNext]_blaVars PROVE BlaInv'
  OBVIOUS
<1>1. BlaTables /\ blaRan \subseteq Gws
  BY DEF BlaInv
<1>2. CASE UNCHANGED blaVars
  BY <1>2 DEF BlaInv, BlaTables, blaVars
<1>3. ASSUME NEW g \in Gws, bla_periodic_work(g)
      PROVE  BlaInv'
  <2>1. BlaTables'
    BY <1>1, <1>3, BlaWorks
  <2>2. blaRan' \subseteq Gws
    BY <1>1, <1>3 DEF bla_periodic_work
  <2> QED BY <2>1, <2>2 DEF BlaInv
<1>4. ASSUME NEW g \in Gws, NEW h \in Gws, Receive(g, h)
      PROVE  BlaInv'
  <2>1. BlaTables' /\ blaRan' = blaRan
    BY <1>1, <1>4, BlaReceives DEF Receive
  <2> QED BY <1>1, <2>1 DEF BlaInv
<1>5. ASSUME NEW g \in Gws, NEW h \in Gws, Lose(g, h)
      PROVE  BlaInv'
  <2>1. BlaTables' /\ blaRan' = blaRan
    BY <1>1, <1>5, BlaLoses DEF Lose
  <2> QED BY <1>1, <2>1 DEF BlaInv
<1>6. ASSUME NEW g \in Gws, NEW c \in Clients, NEW bcast \in BOOLEAN, bla_rx(g, c, bcast)
      PROVE  BlaInv'
  <2>1. BlaTables' /\ blaRan' = blaRan
    BY <1>1, <1>6, BlaForwards DEF bla_rx, ClientFrame
  <2> QED BY <1>1, <2>1 DEF BlaInv
<1>7. ASSUME NEW g \in Gws, NEW c \in Clients, NEW bcast \in BOOLEAN, bla_tx(g, c, bcast)
      PROVE  BlaInv'
  <2>1. BlaTables' /\ blaRan' = blaRan
    BY <1>1, <1>7, BlaTakesFrame DEF bla_tx, ClientFrame
  <2> QED BY <1>1, <2>1 DEF BlaInv
<1>8. ASSUME NEW g \in Gws, bla_status_update(g)
      PROVE  BlaInv'
  <2>1. BlaTables' /\ blaRan' = blaRan
    BY <1>1, <1>8, BlaToggles DEF bla_status_update
  <2> QED BY <1>1, <2>1 DEF BlaInv
<1> QED BY <1>2, <1>3, <1>4, <1>5, <1>6, <1>7, <1>8 DEF BlaNext

LEMMA BlaInvImplies == BlaInv => BlaConsistent
<1> SUFFICES ASSUME BlaInv PROVE BlaConsistent
  OBVIOUS
<1>1. \A g \in Gws : BlaRight(bla[g])
  BY DEF BlaInv, BlaTables
<1>2. \A g \in Gws : /\ bla[g].on \in BOOLEAN /\ bla[g].group \in Nat
                     /\ bla[g].num_requests \in Nat /\ bla[g].claim \in [Clients -> Claim]
                     /\ bla[g].backbone \in [Gws -> BackboneGw]
  BY <1>1, BlaNodeIs DEF BlaRight
<1>3. BlaTypeOK
  BY <1>2 DEF BlaTypeOK, BlaInv
<1>4. BlaChecksumIsTable
  BY <1>1, BlaEntryIs DEF BlaChecksumIsTable
<1>5. BlaRequestsCounted
  BY <1>1 DEF BlaRequestsCounted, BlaRight, BlaFits
<1> QED BY <1>3, <1>4, <1>5 DEF BlaConsistent

\* Bridge loop avoidance keeps, for any number of gateways and clients and
\* whatever claim frames are lost, a checksum of each gateway that is the one of
\* the clients it owns by the table, and as many requests counted, which block
\* all broadcasts, as are open.
THEOREM BlaIsConsistent == BlaSpec => []BlaConsistent
<1>1. BlaSpec => []BlaInv
  BY BlaInitRight, BlaStep, PTL DEF BlaSpec
<1> QED BY <1>1, BlaInvImplies, PTL

-----------------------------------------------------------------------------
(***************************************************************************)
(* The choice of candidates (DatRing)                                      *)
(***************************************************************************)
\* What a chooser is: the local variables of batadv_dat_select_candidates.
RingSides ==
  [who : {1, 2}, knows : SUBSET RingNodes, walk : RingWalks,
   cands : Seq(RingNodes \cup {NoOrig}), last_max : 0..AddrMax]

\* The candidates found so far; a round that finds none leaves NoOrig.
RingChosen(s) == Fcn!Range(s.cands) \ {NoOrig}

\* A walk visits every node once.
LEMMA RingWalkIs ==
  ASSUME NEW w \in RingWalks
  PROVE  /\ w \in Seq(RingNodes) /\ Len(w) \in Nat /\ DOMAIN w = 1..Len(w)
         /\ \A k \in 1..Len(w) : w[k] \in RingNodes
         /\ \A j, k \in 1..Len(w) : w[j] = w[k] => j = k
         /\ \A o \in RingNodes : \E k \in 1..Len(w) : w[k] = o
<1>1. w \in Seq(RingNodes) /\ Fcn!IsInjective(w) /\ Fcn!Range(w) = RingNodes
  BY RingAssumption
<1>2. Len(w) \in Nat /\ DOMAIN w = 1..Len(w) /\ \A k \in 1..Len(w) : w[k] \in RingNodes
  BY <1>1
<1>3. \A j, k \in DOMAIN w : w[j] = w[k] => j = k
  BY <1>1 DEF Fcn!IsInjective
<1>4. \A o \in RingNodes : \E k \in DOMAIN w : w[k] = o
  BY <1>1 DEF Fcn!Range
<1> QED BY <1>1, <1>2, <1>3, <1>4

\* There are finitely many nodes.
LEMMA RingFinite ==
  ASSUME RingWalks # {}
  PROVE  IsFiniteSet(RingNodes) /\ Cardinality(RingNodes) \in Nat
<1>1. PICK w \in RingWalks : TRUE
  OBVIOUS
<1>2. /\ Len(w) \in Nat /\ DOMAIN w = 1..Len(w) /\ w \in Seq(RingNodes)
      /\ \A o \in RingNodes : \E k \in 1..Len(w) : w[k] = o
  BY RingWalkIs
<1>3. w \in Surjection(1..Len(w), RingNodes)
  BY <1>2 DEF Surjection
<1>4. IsFiniteSet(1..Len(w))
  BY <1>2, FS_Interval
<1> QED BY <1>3, <1>4, FS_Surjection, FS_CardinalityType

\* A place is a number of the ring.
LEMMA RingPlaceIs ==
  ASSUME ringAddr \in [RingNodes -> 0..AddrMax - 1], ringKey \in 0..AddrMax - 1,
         NEW o \in RingNodes
  PROVE  RingPlace(o) \in 0..AddrMax
<1> DEFINE x == AddrMax - ringAddr[o] + ringKey
<1>1. RingSize \in Nat /\ RingSize > 0 /\ AddrMax = RingSize - 1
  BY RingAssumption DEF AddrMax
<1>2. ringAddr[o] \in 0..AddrMax - 1
  OBVIOUS
<1>3. x \in Nat
  BY <1>1, <1>2
<1> HIDE DEF x
<1>4. x % RingSize \in 0..(RingSize - 1)
  BY <1>1, <1>3
<1> QED BY <1>1, <1>4 DEF RingPlace, x

-----------------------------------------------------------------------------
(* One round over the hash table *)
\* One originator of the walk
RingVisit(s, best, o) ==
  IF o \in s.knows /\ is_orig_node_eligible(s, best, o)
  THEN [max |-> RingPlace(o), max_orig_node |-> o] ELSE best

\* What the round has after k originators, from what it had before
RingAfter(s, after, k) ==
  IF k = 0 THEN [max |-> 0, max_orig_node |-> NoOrig] ELSE RingVisit(s, after[k - 1], s.walk[k])

\* One candidate more
RingWith(s, x, y) == [s EXCEPT !.cands = Append(@, x), !.last_max = y]

\* A round adds what it has after the whole walk.
LEMMA RingChoiceIs ==
  ASSUME NEW i \in {1, 2}, choose_next_candidate(i), Len(ringSel[i].walk) \in Nat
  PROVE  \E after :
           /\ \A k \in 0..Len(ringSel[i].walk) : after[k] = RingAfter(ringSel[i], after, k)
           /\ Len(ringSel[i].cands) < CandidatesNum
           /\ ringSel' = [ringSel EXCEPT ![i] =
                RingWith(ringSel[i], after[Len(ringSel[i].walk)].max_orig_node,
                         after[Len(ringSel[i].walk)].max)]
           /\ UNCHANGED <<ringAddr, ringKey>>
<1> DEFINE s == ringSel[i]
           n == Len(s.walk)
           Step(G, k) == RingAfter(s, G, k)
           Made(m) == \E G : G = [k \in 0..m |-> Step(G, k)]
           S == {m \in 0..n : Made(m)}
<1>0. ASSUME NEW G, NEW H, NEW k, k = 0 \/ G[k - 1] = H[k - 1]
      PROVE  Step(G, k) = Step(H, k)
  BY <1>0 DEF RingAfter
<1>1. 0 \in S
  <2> DEFINE H == [k \in 0..0 |-> [max |-> 0, max_orig_node |-> NoOrig]]
  <2>1. H = [k \in 0..0 |-> Step(H, k)]
    BY DEF RingAfter
  <2> HIDE DEF H, Step
  <2> QED BY <2>1
<1> HIDE DEF Step
<1>2. ASSUME NEW m \in 0..(n - 1), m \in S
      PROVE  m + 1 \in S
  <2>1. PICK G : G = [k \in 0..m |-> Step(G, k)]
    BY <1>2
  <2> DEFINE H == [k \in 0..(m + 1) |-> IF k <= m THEN G[k] ELSE Step(G, k)]
  <2>2. ASSUME NEW k \in 0..(m + 1)
        PROVE  Step(G, k) = Step(H, k)
    <3>1. k = 0 \/ (k - 1 \in 0..(m + 1) /\ k - 1 <= m)
      OBVIOUS
    <3>2. k = 0 \/ H[k - 1] = G[k - 1]
      BY <3>1
    <3> HIDE DEF H
    <3> QED BY <1>0, <3>2
  <2>3. ASSUME NEW k \in 0..(m + 1)
        PROVE  H[k] = Step(H, k)
    <3>1. H[k] = Step(G, k)
      <4>1. CASE k <= m
        <5>1. k \in 0..m
          BY <4>1
        <5> HIDE DEF n
        <5>2. G[k] = Step(G, k)
          BY <2>1, <5>1
        <5> QED BY <4>1, <5>2
      <4>2. CASE ~(k <= m)
        BY <4>2
      <4> QED BY <4>1, <4>2
    <3> HIDE DEF H
    <3> QED BY <2>2, <3>1
  <2>4. H = [k \in 0..(m + 1) |-> H[k]]
    OBVIOUS
  <2>5. H = [k \in 0..(m + 1) |-> Step(H, k)]
    <3> HIDE DEF H
    <3> QED BY <2>3, <2>4
  <2>6. m + 1 \in 0..n
    OBVIOUS
  <2> QED BY <2>5, <2>6
<1>3. n \in S
  <2> HIDE DEF S
  <2>1. 0..n \subseteq S
    BY <1>1, <1>2, NumbersUpTo
  <2> QED BY <2>1
<1>4. PICK G : G = [k \in 0..n |-> Step(G, k)]
  BY <1>3
<1> DEFINE A == CHOOSE F : F = [k \in 0..n |-> Step(F, k)]
<1>5. A = [k \in 0..n |-> Step(A, k)]
  BY <1>4
<1>6. /\ Len(s.cands) < CandidatesNum
      /\ ringSel' = [ringSel EXCEPT ![i] = RingWith(s, A[n].max_orig_node, A[n].max)]
      /\ UNCHANGED <<ringAddr, ringKey>>
  BY DEF choose_next_candidate, RingWith, RingAfter, RingVisit, Step
<1> HIDE DEF A
<1>7. \A k \in 0..n : A[k] = Step(A, k)
  BY <1>5
<1> QED BY <1>6, <1>7, Zenon DEF Step

\* Addresses and the key are hashes modulo BATADV_DAT_ADDR_MAX.
RingTyped == ringAddr \in [RingNodes -> 0..AddrMax - 1] /\ ringKey \in 0..AddrMax - 1

\* What the next round may choose
RingOpen(s, o) ==
  o \in s.knows /\ o \notin Fcn!Range(s.cands) /\ RingPlace(o) <= s.last_max

\* Of the nodes at j and k of a walk, the one at k is taken first.
RingBehind(w, j, k) ==
  RingPlace(w[j]) < RingPlace(w[k]) \/ (RingPlace(w[j]) = RingPlace(w[k]) /\ j < k)

\* After m nodes, the best of those that are open is at hand.
RingBestOf(s, b, m) ==
  \/ b.max = 0 /\ b.max_orig_node = NoOrig /\ \A j \in 1..m : ~RingOpen(s, s.walk[j])
  \/ \E k \in 1..m :
       /\ RingOpen(s, s.walk[k]) /\ b.max_orig_node = s.walk[k] /\ b.max = RingPlace(s.walk[k])
       /\ \A j \in (1..m) \ {k} : RingOpen(s, s.walk[j]) => RingBehind(s.walk, j, k)

\* Looking at one originator more keeps the best of those seen, for the last
\* of several in one place stays.
LEMMA RingVisits ==
  ASSUME RingTyped, NEW s \in RingSides, NEW m \in 0..(Len(s.walk) - 1), NEW b,
         RingBestOf(s, b, m)
  PROVE  RingBestOf(s, RingVisit(s, b, s.walk[m + 1]), m + 1)
<1> DEFINE w == s.walk
           o == w[m + 1]
           P(j) == RingPlace(w[j])
<1>1. /\ Len(w) \in Nat /\ \A k \in 1..Len(w) : w[k] \in RingNodes
      /\ \A j, k \in 1..Len(w) : w[j] = w[k] => j = k
  BY RingWalkIs DEF RingSides
<1>2. m \in Nat /\ m + 1 \in 1..Len(w) /\ 1..m \subseteq 1..Len(w) /\ m + 1 \notin 1..m
      /\ 1..(m + 1) = (1..m) \cup {m + 1}
  BY <1>1
<1>3. \A j \in 1..Len(w) : P(j) \in Nat
  <2>1. \A q \in RingNodes : RingPlace(q) \in 0..AddrMax
    BY RingPlaceIs DEF RingTyped
  <2>2. \A q \in RingNodes : RingPlace(q) \in Nat
    BY <2>1
  <2> QED BY <1>1, <2>2
<1>4. o # NoOrig
  BY <1>1, <1>2, RingAssumption DEF NoOrig
<1>5. is_orig_node_eligible(s, b, o) <=>
        /\ o \notin Fcn!Range(s.cands) /\ P(m + 1) <= s.last_max /\ P(m + 1) >= b.max
        /\ ~(P(m + 1) = b.max /\ b.max_orig_node = o)
  BY DEF is_orig_node_eligible
<1> HIDE DEF w
<1>6. CASE o \in s.knows /\ is_orig_node_eligible(s, b, o)
  <2> DEFINE new == RingVisit(s, b, o)
  <2>1. new = [max |-> RingPlace(o), max_orig_node |-> o]
    BY <1>6 DEF RingVisit
  <2>2. new.max = P(m + 1) /\ new.max_orig_node = o
    BY <2>1
  <2>3. RingOpen(s, o) /\ P(m + 1) >= b.max
    BY <1>5, <1>6 DEF RingOpen
  <2>4. ASSUME NEW j \in 1..m, RingOpen(s, w[j])
        PROVE  RingBehind(w, j, m + 1)
    <3>1. PICK k \in 1..m : /\ b.max = P(k)
                            /\ \A i \in (1..m) \ {k} : RingOpen(s, w[i]) => RingBehind(w, i, k)
      BY <2>4 DEF RingBestOf, w
    <3>2. P(j) <= P(k)
      BY <1>2, <1>3, <2>4, <3>1 DEF RingBehind
    <3>3. j < m + 1 /\ P(j) \in Nat /\ P(k) \in Nat /\ P(m + 1) \in Nat
      BY <1>2, <1>3, <3>1
    <3> QED BY <2>3, <3>1, <3>2, <3>3 DEF RingBehind
  <2>5. \A j \in (1..(m + 1)) \ {m + 1} : RingOpen(s, w[j]) => RingBehind(w, j, m + 1)
    BY <1>2, <2>4
  <2> HIDE DEF new
  <2>6. m + 1 \in 1..(m + 1)
    BY <1>2
  <2> QED BY <2>2, <2>3, <2>5, <2>6 DEF RingBestOf, w, new
<1>7. CASE ~(o \in s.knows /\ is_orig_node_eligible(s, b, o))
  <2>1. RingVisit(s, b, o) = b
    BY <1>7 DEF RingVisit
  <2>2. RingOpen(s, o) => P(m + 1) < b.max \/ ~(P(m + 1) >= b.max)
                          \/ (P(m + 1) = b.max /\ b.max_orig_node = o)
    BY <1>5, <1>7 DEF RingOpen
  <2>3. CASE b.max = 0 /\ b.max_orig_node = NoOrig /\ \A j \in 1..m : ~RingOpen(s, w[j])
    <3>1. ~RingOpen(s, o)
      BY <1>2, <1>3, <1>4, <2>2, <2>3
    <3> QED BY <1>2, <2>1, <2>3, <3>1 DEF RingBestOf, w
  <2>4. CASE \E k \in 1..m :
               /\ RingOpen(s, w[k]) /\ b.max_orig_node = w[k] /\ b.max = P(k)
               /\ \A j \in (1..m) \ {k} : RingOpen(s, w[j]) => RingBehind(w, j, k)
    <3>1. PICK k \in 1..m :
               /\ RingOpen(s, w[k]) /\ b.max_orig_node = w[k] /\ b.max = P(k)
               /\ \A j \in (1..m) \ {k} : RingOpen(s, w[j]) => RingBehind(w, j, k)
      BY <2>4
    <3>2. w[k] # o /\ P(k) \in Nat /\ P(m + 1) \in Nat
      BY <1>1, <1>2, <1>3
    <3>3. RingOpen(s, o) => P(m + 1) < P(k)
      BY <2>2, <3>1, <3>2
    <3>4. RingOpen(s, o) => RingBehind(w, m + 1, k)
      BY <3>3 DEF RingBehind
    <3>5. k \in 1..(m + 1)
      BY <1>2
    <3>6. \A j \in (1..(m + 1)) \ {k} : RingOpen(s, w[j]) => RingBehind(w, j, k)
      BY <1>2, <3>1, <3>4
    <3> QED BY <2>1, <3>1, <3>5, <3>6 DEF RingBestOf, w
  <2> QED BY <2>3, <2>4 DEF RingBestOf, w
<1> QED BY <1>6, <1>7 DEF w

\* So a round ends with the best of all that are open.
LEMMA RingFinds ==
  ASSUME RingTyped, NEW s \in RingSides, NEW after,
         \A k \in 0..Len(s.walk) : after[k] = RingAfter(s, after, k)
  PROVE  RingBestOf(s, after[Len(s.walk)], Len(s.walk))
<1> DEFINE n == Len(s.walk)
           S == {m \in 0..n : RingBestOf(s, after[m], m)}
<1>1. n \in Nat
  BY RingWalkIs DEF RingSides
<1>2. 0 \in S
  <2>1. after[0] = [max |-> 0, max_orig_node |-> NoOrig]
    BY <1>1 DEF RingAfter
  <2>2. after[0].max = 0 /\ after[0].max_orig_node = NoOrig
    BY <2>1
  <2> QED BY <1>1, <2>2 DEF RingBestOf
<1>3. ASSUME NEW m \in 0..(n - 1), m \in S PROVE m + 1 \in S
  <2>1. m + 1 \in 0..n /\ m + 1 # 0 /\ (m + 1) - 1 = m
    BY <1>1
  <2>2. after[m + 1] = RingVisit(s, after[m], s.walk[m + 1])
    BY <2>1 DEF RingAfter
  <2>3. RingBestOf(s, after[m], m)
    BY <1>3
  <2>4. RingBestOf(s, after[m + 1], m + 1)
    BY <2>2, <2>3, RingVisits
  <2> QED BY <2>1, <2>4
<1> HIDE DEF S
<1>4. 0..n \subseteq S
  BY <1>1, <1>2, <1>3, NumbersUpTo
<1>5. n \in S
  BY <1>1, <1>4
<1> QED BY <1>5 DEF S

-----------------------------------------------------------------------------
(* What a chooser has after some rounds *)
\* c comes before o in the walk of s by places, and by the walk in one place.
RingFirst(s, c, o) ==
  \E j, k \in 1..Len(s.walk) : s.walk[k] = c /\ s.walk[j] = o /\ RingBehind(s.walk, j, k)

\* The chosen are the first ones of those that are known, and the others are
\* open in the next round.
RingSide(s) ==
  /\ s \in RingSides /\ Len(s.cands) <= CandidatesNum /\ RingChosen(s) \subseteq s.knows
  /\ \A o \in s.knows \ RingChosen(s) :
       RingPlace(o) <= s.last_max /\ \A c \in RingChosen(s) : RingFirst(s, c, o)
  /\ Cardinality(RingChosen(s)) <= Len(s.cands)
  /\ RingChosen(s) # s.knows => Cardinality(RingChosen(s)) = Len(s.cands)

\* One candidate more, or none
LEMMA RingAppended ==
  ASSUME NEW s \in RingSides, NEW x \in RingNodes \cup {NoOrig}, NEW y \in 0..AddrMax,
         NEW t, t = RingWith(s, x, y)
  PROVE  /\ t \in RingSides /\ t.who = s.who /\ t.knows = s.knows /\ t.walk = s.walk
         /\ t.last_max = y /\ Len(t.cands) = Len(s.cands) + 1 /\ Len(s.cands) \in Nat
         /\ RingChosen(t) = IF x = NoOrig THEN RingChosen(s) ELSE RingChosen(s) \cup {x}
<1> DEFINE c == s.cands
           d == Append(c, x)
<1>1. c \in Seq(RingNodes \cup {NoOrig})
  BY DEF RingSides
<1>2. /\ d \in Seq(RingNodes \cup {NoOrig}) /\ Len(d) = Len(c) + 1 /\ Len(c) \in Nat
      /\ DOMAIN c = 1..Len(c) /\ DOMAIN d = 1..(Len(c) + 1)
      /\ \A i \in 1..Len(c) : d[i] = c[i]
      /\ d[Len(c) + 1] = x
  BY <1>1
<1> HIDE DEF c, d
<1>3. t = [s EXCEPT !.cands = d, !.last_max = y]
  BY DEF d, c, RingWith
<1>4. /\ t \in RingSides /\ t.who = s.who /\ t.knows = s.knows /\ t.walk = s.walk
      /\ t.last_max = y /\ t.cands = d
  BY <1>2, <1>3 DEF RingSides
<1>5. \A z : z \in Fcn!Range(d) <=> z \in Fcn!Range(c) \/ z = x
  <2> TAKE z
  <2>1. z \in Fcn!Range(d) <=> \E i \in 1..(Len(c) + 1) : z = d[i]
    BY <1>2 DEF Fcn!Range
  <2>2. z \in Fcn!Range(c) <=> \E i \in 1..Len(c) : z = c[i]
    BY <1>2 DEF Fcn!Range
  <2>3. \A i : i \in 1..(Len(c) + 1) <=> i \in 1..Len(c) \/ i = Len(c) + 1
    BY <1>2
  <2> QED BY <1>2, <2>1, <2>2, <2>3
<1>6. RingChosen(t) = Fcn!Range(d) \ {NoOrig} /\ RingChosen(s) = Fcn!Range(c) \ {NoOrig}
  BY <1>4 DEF RingChosen, c
<1>7. RingChosen(t) = IF x = NoOrig THEN RingChosen(s) ELSE RingChosen(s) \cup {x}
  BY <1>5, <1>6
<1> QED BY <1>2, <1>4, <1>7 DEF c

\* A round keeps the chosen ones the first ones: last_max cuts off nobody who
\* is still open, also when several are in its place.
LEMMA RingRound ==
  ASSUME RingTyped, NEW s, RingSide(s), Len(s.cands) < CandidatesNum, NEW b,
         RingBestOf(s, b, Len(s.walk)),
         NEW t, t = RingWith(s, b.max_orig_node, b.max)
  PROVE  RingSide(t) /\ t.who = s.who /\ t.knows = s.knows
<1> DEFINE w == s.walk
           n == Len(w)
           C == RingChosen(s)
<1>1. /\ n \in Nat /\ \A k \in 1..n : w[k] \in RingNodes
      /\ \A o \in RingNodes : \E k \in 1..n : w[k] = o
  BY RingWalkIs DEF RingSides, RingSide
<1>2. /\ \A o \in RingNodes : RingPlace(o) \in 0..AddrMax
      /\ AddrMax \in Nat
  BY RingPlaceIs, RingAssumption DEF RingTyped, AddrMax
<1>3. /\ s \in RingSides /\ s.knows \subseteq RingNodes /\ C \subseteq s.knows
      /\ NoOrig \notin RingNodes /\ CandidatesNum \in Nat
  BY RingAssumption DEF RingSide, RingSides, NoOrig
<1>4. \A o : RingOpen(s, o) <=> o \in s.knows \ C
  <2>1. \A o \in s.knows : o \in Fcn!Range(s.cands) <=> o \in C
    BY <1>3 DEF RingChosen
  <2> QED BY <1>3, <2>1 DEF RingOpen, RingSide
<1>5. IsFiniteSet(RingNodes) /\ IsFiniteSet(C) /\ Cardinality(C) \in Nat
  <2>1. RingWalks # {}
    BY <1>3 DEF RingSides
  <2>2. IsFiniteSet(RingNodes) /\ C \in SUBSET RingNodes
    BY <1>3, <2>1, RingFinite
  <2> QED BY <2>2, FS_Subset, FS_CardinalityType
<1>6. b.max_orig_node \in RingNodes \cup {NoOrig} /\ b.max \in 0..AddrMax
  BY <1>1, <1>2 DEF RingBestOf
<1>7. /\ t \in RingSides /\ t.who = s.who /\ t.knows = s.knows /\ t.walk = w
      /\ t.last_max = b.max /\ Len(t.cands) = Len(s.cands) + 1 /\ Len(s.cands) \in Nat
      /\ RingChosen(t) = IF b.max_orig_node = NoOrig THEN C ELSE C \cup {b.max_orig_node}
  <2> DEFINE x == b.max_orig_node
             y == b.max
  <2>1. t = RingWith(s, x, y)
    OBVIOUS
  <2>2. x \in RingNodes \cup {NoOrig} /\ y \in 0..AddrMax
    BY <1>6
  <2> HIDE DEF x, y
  <2>3. /\ t \in RingSides /\ t.who = s.who /\ t.knows = s.knows /\ t.walk = s.walk
        /\ t.last_max = y /\ Len(t.cands) = Len(s.cands) + 1 /\ Len(s.cands) \in Nat
        /\ RingChosen(t) = IF x = NoOrig THEN RingChosen(s) ELSE RingChosen(s) \cup {x}
    BY <1>3, <2>1, <2>2, RingAppended
  <2> QED BY <2>3 DEF x, y
<1> HIDE DEF w, n
<1>8. CASE b.max_orig_node = NoOrig /\ \A j \in 1..n : ~RingOpen(s, w[j])
  <2>1. \A o \in s.knows : o \in C
    BY <1>1, <1>3, <1>4, <1>8
  <2>2. C = s.knows /\ RingChosen(t) = C
    BY <1>3, <1>7, <1>8, <2>1
  <2>3. Cardinality(C) <= Len(s.cands)
    BY DEF RingSide
  <2>4. Cardinality(C) <= Len(t.cands) /\ Len(t.cands) <= CandidatesNum
    BY <1>3, <1>5, <1>7, <2>3
  <2> HIDE DEF C
  <2> QED BY <1>7, <2>2, <2>4 DEF RingSide
<1>9. ASSUME NEW k \in 1..n, RingOpen(s, w[k]), b.max_orig_node = w[k],
             b.max = RingPlace(w[k]),
             \A j \in (1..n) \ {k} : RingOpen(s, w[j]) => RingBehind(w, j, k)
      PROVE  RingSide(t)
  <2> DEFINE x == w[k]
             D == RingChosen(t)
  <2>1. x \in s.knows /\ x \notin C /\ x \in RingNodes /\ x # NoOrig
    BY <1>1, <1>3, <1>4, <1>9
  <2>2. D = C \cup {x} /\ D \subseteq t.knows
    BY <1>3, <1>7, <1>9, <2>1
  <2>3. Cardinality(D) = Cardinality(C) + 1
    BY <1>5, <2>1, <2>2, FS_AddElement
  <2>4. Cardinality(C) = Len(s.cands)
    BY <1>3, <2>1 DEF RingSide
  <2>5. Cardinality(D) = Len(t.cands) /\ Len(t.cands) <= CandidatesNum /\ Len(t.cands) \in Nat
    BY <1>3, <1>7, <2>3, <2>4
  <2>6. ASSUME NEW o \in t.knows \ D
        PROVE  RingPlace(o) <= t.last_max /\ \A c \in D : RingFirst(t, c, o)
    <3>1. o \in s.knows \ C /\ o # x /\ o \in RingNodes
      BY <1>3, <1>7, <2>2, <2>6
    <3>2. PICK j \in 1..n : w[j] = o
      BY <1>1, <3>1
    <3>3. j # k /\ RingBehind(w, j, k)
      BY <1>4, <1>9, <3>1, <3>2
    <3>4. RingPlace(o) \in Nat /\ RingPlace(x) \in Nat
      BY <1>2, <2>1, <3>1
    <3>5. RingPlace(o) <= b.max
      BY <1>9, <3>2, <3>3, <3>4 DEF RingBehind
    <3>6. RingFirst(t, x, o)
      BY <1>7, <1>9, <3>2, <3>3 DEF RingFirst, n
    <3>7. \A c \in C : RingFirst(s, c, o)
      BY <3>1 DEF RingSide
    <3>8. \A c \in C : RingFirst(t, c, o)
      BY <1>7, <3>7 DEF RingFirst, w
    <3> QED BY <1>7, <2>2, <3>5, <3>6, <3>8
  <2>7. Cardinality(D) <= Len(t.cands)
    BY <2>5
  <2> QED BY <1>7, <2>2, <2>5, <2>6, <2>7 DEF RingSide
<1> QED BY <1>7, <1>8, <1>9 DEF RingBestOf, w, n

-----------------------------------------------------------------------------
(* Both choosers *)
\* Who it is and whom it knows of
RingKnows(i) ==
  /\ ringSel[i].who = i /\ ringSel[i].knows \subseteq RingNodes \ {i}
  /\ Cardinality(ringSel[i].knows) >= Cardinality(RingNodes) - 1 - RingMissing

\* The invariant of the two choosers
RingInv ==
  /\ RingTyped /\ ringSel \in [1..2 -> RingSides]
  /\ \A i \in {1, 2} : RingKnows(i) /\ RingSide(ringSel[i])

\* Before the first round
LEMMA RingFirstSide ==
  ASSUME RingTyped, NEW i \in {1, 2}, NEW V \in SUBSET (RingNodes \ {i}), NEW w \in RingWalks
  PROVE  /\ dat_select_candidates(i, V, w) \in RingSides
         /\ RingSide(dat_select_candidates(i, V, w))
<1> DEFINE s == dat_select_candidates(i, V, w)
           c == <<>>
<1>1. /\ RingSize \in Nat \ {0} /\ AddrMax = RingSize - 1 /\ CandidatesNum \in Nat
  BY RingAssumption DEF AddrMax
<1>2. AddrMax \in 0..AddrMax
  BY <1>1
<1>3. c \in Seq(RingNodes \cup {NoOrig}) /\ Len(c) = 0 /\ Fcn!Range(c) = {}
  BY DEF Fcn!Range
<1> HIDE DEF c
<1>4. s = [who |-> i, knows |-> V, walk |-> w, cands |-> c, last_max |-> AddrMax]
  BY DEF dat_select_candidates, c
<1>5. s \in RingSides /\ s.knows = V /\ s.cands = c /\ s.last_max = AddrMax
  BY <1>2, <1>3, <1>4 DEF RingSides
<1>6. RingChosen(s) = {}
  BY <1>3, <1>5 DEF RingChosen
<1>7. \A o \in RingNodes : RingPlace(o) <= AddrMax
  <2>1. \A o \in RingNodes : RingPlace(o) \in 0..AddrMax
    BY RingPlaceIs DEF RingTyped
  <2> QED BY <1>1, <2>1
<1>8. Cardinality({}) = 0
  BY FS_EmptySet
<1> HIDE DEF s
<1>9. Len(s.cands) = 0
  BY <1>3, <1>5
<1>10. Len(s.cands) <= CandidatesNum
  BY <1>1, <1>9
<1>11. Cardinality(RingChosen(s)) = 0
  BY <1>6, <1>8
<1>12. \A o \in s.knows \ RingChosen(s) :
         RingPlace(o) <= s.last_max /\ \A d \in RingChosen(s) : RingFirst(s, d, o)
  BY <1>5, <1>6, <1>7
<1>13. RingSide(s)
  BY <1>5, <1>6, <1>9, <1>10, <1>11, <1>12 DEF RingSide
<1> QED BY <1>5, <1>13 DEF s

\* Both start so.
LEMMA RingInvInit == RingInit => RingInv
<1> SUFFICES ASSUME RingInit PROVE RingInv
  OBVIOUS
<1>1. RingTyped
  BY DEF RingInit, RingTyped
<1>2. PICK V \in SUBSET (RingNodes \ {1}), W \in SUBSET (RingNodes \ {2}),
           v \in RingWalks, w \in RingWalks :
       /\ Cardinality(V) >= Cardinality(RingNodes) - 1 - RingMissing
       /\ Cardinality(W) >= Cardinality(RingNodes) - 1 - RingMissing
       /\ ringSel = <<dat_select_candidates(1, V, v), dat_select_candidates(2, W, w)>>
  BY DEF RingInit
<1> DEFINE s == dat_select_candidates(1, V, v)
           t == dat_select_candidates(2, W, w)
<1>3. s \in RingSides /\ RingSide(s) /\ t \in RingSides /\ RingSide(t)
  BY <1>1, RingFirstSide
<1>4. s.who = 1 /\ s.knows = V /\ t.who = 2 /\ t.knows = W
  BY DEF dat_select_candidates
<1> HIDE DEF s, t
<1>5. ringSel \in [1..2 -> RingSides] /\ ringSel[1] = s /\ ringSel[2] = t
  BY <1>2, <1>3 DEF s, t
<1>6. RingKnows(1) /\ RingKnows(2)
  BY <1>2, <1>4, <1>5 DEF RingKnows
<1> QED BY <1>1, <1>3, <1>5, <1>6 DEF RingInv

\* With the addresses and the key as they were, places and orders stay.
LEMMA RingSideStays ==
  ASSUME UNCHANGED <<ringAddr, ringKey>>, NEW s, RingSide(s), NEW t, t = s
  PROVE  RingSide(t)'
<1>1. \A o : RingPlace(o)' = RingPlace(o)
  BY DEF RingPlace
<1>2. \A c, o : RingFirst(s, c, o)' <=> RingFirst(s, c, o)
  BY <1>1 DEF RingFirst, RingBehind
<1> QED BY <1>1, <1>2 DEF RingSide, RingChosen, RingSides

\* A round of one leaves the other.
LEMMA RingInvNext == RingInv /\ [RingNext]_ringVars => RingInv'
<1> SUFFICES ASSUME RingInv, [RingNext]_ringVars PROVE RingInv'
  OBVIOUS
<1>1. CASE UNCHANGED ringVars
  <2>1. UNCHANGED <<ringAddr, ringKey>> /\ ringSel' = ringSel
    BY <1>1 DEF ringVars
  <2>2. \A i \in {1, 2} : RingSide(ringSel[i])'
    <3> TAKE i \in {1, 2}
    <3>1. PICK s : s = ringSel[i]
      OBVIOUS
    <3>2. RingSide(s)
      BY <3>1 DEF RingInv
    <3>3. RingSide(s)'
      BY <2>1, <3>2, RingSideStays
    <3>4. s = ringSel'[i]
      BY <2>1, <3>1
    <3> QED BY <3>3, <3>4 DEF RingSide, RingFirst
  <2> QED BY <2>1, <2>2 DEF RingInv, RingTyped, RingKnows
<1>2. ASSUME NEW i \in {1, 2}, choose_next_candidate(i)
      PROVE  RingInv'
  <2>1. PICK s : s = ringSel[i]
    OBVIOUS
  <2>2. s \in RingSides /\ RingSide(s) /\ RingTyped /\ s.who = i
    BY <2>1 DEF RingInv, RingKnows
  <2>3. s.walk \in RingWalks /\ Len(s.walk) \in Nat
    BY <2>2, RingWalkIs DEF RingSides
  <2>4. PICK after :
          /\ \A k \in 0..Len(s.walk) : after[k] = RingAfter(s, after, k)
          /\ Len(s.cands) < CandidatesNum
          /\ ringSel' = [ringSel EXCEPT ![i] =
               RingWith(s, after[Len(s.walk)].max_orig_node, after[Len(s.walk)].max)]
          /\ UNCHANGED <<ringAddr, ringKey>>
    BY <1>2, <2>1, <2>3, RingChoiceIs
  <2>5. PICK b : b = after[Len(s.walk)]
    OBVIOUS
  <2>6. RingBestOf(s, b, Len(s.walk))
    BY <2>2, <2>4, <2>5, RingFinds
  <2>7. PICK t : t = RingWith(s, b.max_orig_node, b.max)
    OBVIOUS
  <2>8. RingSide(t) /\ t.who = s.who /\ t.knows = s.knows
    BY <2>2, <2>4, <2>6, <2>7, RingRound
  <2>9. ringSel' = [ringSel EXCEPT ![i] = t]
    BY <2>4, <2>5, <2>7
  <2>10. t \in RingSides /\ ringSel \in [1..2 -> RingSides] /\ i \in 1..2
    BY <2>8 DEF RingSide, RingInv
  <2>11. /\ ringSel' \in [1..2 -> RingSides] /\ ringSel'[i] = t
         /\ \A j \in {1, 2} \ {i} : ringSel'[j] = ringSel[j]
    BY <2>9, <2>10
  <2>12. ASSUME NEW j \in {1, 2}
         PROVE  RingKnows(j)' /\ RingSide(ringSel[j])'
    <3>1. PICK r : r = ringSel'[j]
      OBVIOUS
    <3>2. RingSide(r) /\ r.who = ringSel[j].who /\ r.knows = ringSel[j].knows
      BY <2>1, <2>8, <2>11, <3>1 DEF RingInv
    <3>3. RingSide(r)'
      BY <2>4, <3>2, RingSideStays
    <3>4. RingSide(ringSel[j])'
      BY <3>1, <3>3 DEF RingSide, RingFirst
    <3>5. RingKnows(j)
      BY DEF RingInv
    <3>6. RingKnows(j)'
      BY <3>1, <3>2, <3>5 DEF RingKnows
    <3> QED BY <3>4, <3>6
  <2> QED BY <2>2, <2>4, <2>11, <2>12 DEF RingInv, RingTyped
<1> QED BY <1>1, <1>2 DEF RingNext

\* Whatever the addresses, the orders of the hash tables and the originators that
\* are known: what batadv_choose_next_candidate has chosen after any number of
\* rounds are the first ones on the ring from the hash of the IP address.
THEOREM RingInvHolds == RingSpec => []RingInv
<1> QED BY RingInvInit, RingInvNext, PTL DEF RingSpec

-----------------------------------------------------------------------------
(* What they have found *)

\* Nodes share no place of the ring.
RingApart == \A o, q \in RingNodes : RingPlace(o) = RingPlace(q) => o = q

\* Every chooser has the originators in the same order.
RingOneOrder == \A v, w \in RingWalks : v = w

\* More candidates than originators a node may miss, and it knows of most.
RingEnough == RingMissing < CandidatesNum /\ 2 * RingMissing < Cardinality(RingNodes)

\* A chooser that is done, in numbers
LEMMA RingSizes ==
  ASSUME RingInv, NEW i \in {1, 2}, RingDone(i)
  PROVE  /\ IsFiniteSet(RingNodes) /\ Cardinality(RingNodes) \in Nat /\ CandidatesNum \in Nat
         /\ RingSide(ringSel[i]) /\ RingKnows(i) /\ i \in RingNodes
         /\ Chosen(i) = RingChosen(ringSel[i])
         /\ Chosen(i) \subseteq ringSel[i].knows /\ ringSel[i].knows \subseteq RingNodes \ {i}
         /\ IsFiniteSet(ringSel[i].knows) /\ Cardinality(ringSel[i].knows) \in Nat
         /\ Cardinality(Chosen(i)) \in Nat /\ Cardinality(Chosen(i)) <= CandidatesNum
         /\ Cardinality(Chosen(i)) <= Cardinality(ringSel[i].knows)
         /\ Chosen(i) # ringSel[i].knows => Cardinality(Chosen(i)) = CandidatesNum
<1>1. RingSide(ringSel[i]) /\ RingKnows(i) /\ i \in RingNodes /\ CandidatesNum \in Nat
  BY RingAssumption DEF RingInv
<1>2. RingWalks # {}
  BY <1>1 DEF RingSide, RingSides
<1>3. IsFiniteSet(RingNodes) /\ Cardinality(RingNodes) \in Nat
  BY <1>2, RingFinite
<1>4. Chosen(i) = RingChosen(ringSel[i])
  BY DEF Chosen, RingChosen
<1>5. Chosen(i) \subseteq ringSel[i].knows /\ ringSel[i].knows \subseteq RingNodes \ {i}
  BY <1>1, <1>4 DEF RingSide, RingKnows
<1>6. ringSel[i].knows \subseteq RingNodes
  BY <1>5
<1>7. IsFiniteSet(ringSel[i].knows) /\ Cardinality(ringSel[i].knows) \in Nat
  BY <1>3, <1>6, FS_Subset, FS_CardinalityType
<1>8. /\ IsFiniteSet(Chosen(i)) /\ Cardinality(Chosen(i)) \in Nat
      /\ Cardinality(Chosen(i)) <= Cardinality(ringSel[i].knows)
  BY <1>5, <1>7, FS_Subset, FS_CardinalityType
<1>9. /\ Cardinality(Chosen(i)) <= CandidatesNum
      /\ Chosen(i) # ringSel[i].knows => Cardinality(Chosen(i)) = CandidatesNum
  BY <1>1, <1>4 DEF RingDone, RingSide
<1> QED BY <1>1, <1>3, <1>4, <1>5, <1>7, <1>8, <1>9

\* As many as there can be: the first of the two conjuncts of RingWorks.
LEMMA RingAllFound == RingInv => RingFindsAll
<1> SUFFICES ASSUME RingInv, NEW i \in {1, 2}, RingDone(i)
             PROVE  Cardinality(Chosen(i)) =
                      IF Cardinality(ringSel[i].knows) < CandidatesNum
                      THEN Cardinality(ringSel[i].knows) ELSE CandidatesNum
  BY DEF RingFindsAll
<1> DEFINE a == Cardinality(Chosen(i))
           k == Cardinality(ringSel[i].knows)
<1>1. /\ a \in Nat /\ k \in Nat /\ CandidatesNum \in Nat /\ a <= CandidatesNum /\ a <= k
      /\ Chosen(i) # ringSel[i].knows => a = CandidatesNum
  BY RingSizes
<1>2. Chosen(i) = ringSel[i].knows => a = k
  OBVIOUS
<1> HIDE DEF a, k
<1>3. a = k \/ a = CandidatesNum
  BY <1>1, <1>2
<1>4. a = IF k < CandidatesNum THEN k ELSE CandidatesNum
  BY <1>1, <1>3
<1> QED BY <1>4 DEF a, k

-----------------------------------------------------------------------------
\* A chooser and its choice, together
RingParty(i) == Chosen(i) \cup {i}

\* The parties are in the network, and most of it is known.
LEMMA RingParties ==
  ASSUME RingInv, NEW i \in {1, 2}, RingDone(i)
  PROVE  /\ RingParty(i) \subseteq RingNodes /\ Cardinality(RingParty(i)) \in Nat
         /\ Cardinality(RingParty(i)) = Cardinality(Chosen(i)) + 1
         /\ ringSel[i].knows \cup {i} \subseteq RingNodes
         /\ Cardinality(ringSel[i].knows \cup {i}) \in Nat
         /\ Cardinality(ringSel[i].knows \cup {i}) >= Cardinality(RingNodes) - RingMissing
<1> DEFINE V == ringSel[i].knows
           C == Chosen(i)
<1>1. /\ C \subseteq V /\ V \subseteq RingNodes \ {i} /\ i \in RingNodes
      /\ IsFiniteSet(V) /\ Cardinality(V) \in Nat /\ Cardinality(C) \in Nat
      /\ Cardinality(RingNodes) \in Nat
      /\ Cardinality(V) >= Cardinality(RingNodes) - 1 - RingMissing
  BY RingSizes DEF RingKnows
<1>2. RingMissing \in Nat
  BY RingAssumption
<1> HIDE DEF V, C
<1>3. IsFiniteSet(C) /\ i \notin C /\ i \notin V
  BY <1>1, FS_Subset
<1>4. Cardinality(C \cup {i}) = Cardinality(C) + 1
  BY <1>3, FS_AddElement
<1>5. Cardinality(V \cup {i}) = Cardinality(V) + 1
  BY <1>1, <1>3, FS_AddElement
<1>6. C \cup {i} \subseteq RingNodes /\ V \cup {i} \subseteq RingNodes
  BY <1>1
<1>7. /\ Cardinality(C \cup {i}) \in Nat /\ Cardinality(V \cup {i}) \in Nat
      /\ Cardinality(V \cup {i}) >= Cardinality(RingNodes) - RingMissing
  BY <1>1, <1>2, <1>4, <1>5
<1> QED BY <1>4, <1>6, <1>7 DEF RingParty, V, C

\* One who has not chosen all it knows of has chosen enough to come upon
\* somebody the other knows of.
LEMMA RingKnownToOther ==
  ASSUME RingInv, RingEnough, NEW i \in {1, 2}, NEW j \in {1, 2} \ {i},
         RingDone(i), RingDone(j), Chosen(i) # ringSel[i].knows,
         RingParty(i) \cap RingParty(j) = {}
  PROVE  /\ Chosen(j) # ringSel[j].knows
         /\ \E x \in Chosen(i) : x \in ringSel[j].knows \ Chosen(j)
<1> DEFINE n == Cardinality(RingNodes)
           W == ringSel[j].knows
           c == Cardinality(Chosen(i))
<1>1. n \in Nat /\ IsFiniteSet(RingNodes) /\ Chosen(i) \subseteq RingNodes
      /\ c = CandidatesNum /\ CandidatesNum \in Nat
  BY RingSizes
<1>2. W \cup {j} \subseteq RingNodes /\ Cardinality(W \cup {j}) \in Nat
      /\ Cardinality(W \cup {j}) >= n - RingMissing
  BY RingParties
<1>3. RingMissing \in Nat /\ RingMissing < CandidatesNum
  BY RingAssumption DEF RingEnough
<1> HIDE DEF n, W, c
<1>4. c + Cardinality(W \cup {j}) > n
  BY <1>1, <1>2, <1>3
<1>5. Chosen(i) \cap (W \cup {j}) # {}
  <2>1. Cardinality(Chosen(i)) + Cardinality(W \cup {j}) > Cardinality(RingNodes)
    BY <1>4 DEF n, c
  <2> QED BY <1>1, <1>2, <2>1, FS_MajoritiesIntersect
<1>6. PICK x \in Chosen(i) : x \in W \cup {j}
  BY <1>5
<1>7. x # j /\ x \notin Chosen(j)
  BY <1>6 DEF RingParty
<1> QED BY <1>6, <1>7 DEF W

\* If the parties had nobody in common, either there would be too few nodes for
\* both, or each would have chosen somebody the other knows of and passed over:
\* two nodes, each before the other.
LEMMA RingTheyMeet ==
  ASSUME RingInv, RingEnough, RingApart \/ RingOneOrder
  PROVE  RingMeet
<1> SUFFICES ASSUME RingDone(1), RingDone(2), RingParty(1) \cap RingParty(2) = {}
             PROVE  FALSE
  <2>1. ringSel[1].who = 1 /\ ringSel[2].who = 2
    BY DEF RingInv, RingKnows
  <2> QED BY <2>1 DEF RingMeet, RingParty
<1>1. CASE Chosen(1) = ringSel[1].knows /\ Chosen(2) = ringSel[2].knows
  <2> DEFINE n == Cardinality(RingNodes)
             a == Cardinality(RingParty(1))
             b == Cardinality(RingParty(2))
  <2>1. /\ RingParty(1) \subseteq RingNodes /\ RingParty(2) \subseteq RingNodes
        /\ a \in Nat /\ b \in Nat /\ a >= n - RingMissing /\ b >= n - RingMissing
    BY <1>1, RingParties DEF RingParty
  <2>2. IsFiniteSet(RingNodes) /\ n \in Nat /\ RingMissing \in Nat /\ 2 * RingMissing < n
    BY RingSizes, RingAssumption DEF RingEnough
  <2>3. a + b > n
    <3> HIDE DEF a, b, n
    <3> QED BY <2>1, <2>2
  <2> QED BY <2>1, <2>2, <2>3, FS_MajoritiesIntersect
<1>2. CASE Chosen(1) # ringSel[1].knows \/ Chosen(2) # ringSel[2].knows
  <2>1. PICK x \in Chosen(1), y \in Chosen(2) :
          x \in ringSel[2].knows \ Chosen(2) /\ y \in ringSel[1].knows \ Chosen(1)
    <3>1. RingParty(2) \cap RingParty(1) = {}
      OBVIOUS
    <3>2. Chosen(1) # ringSel[1].knows =>
            /\ Chosen(2) # ringSel[2].knows
            /\ \E x \in Chosen(1) : x \in ringSel[2].knows \ Chosen(2)
      BY RingKnownToOther
    <3>3. Chosen(2) # ringSel[2].knows =>
            /\ Chosen(1) # ringSel[1].knows
            /\ \E y \in Chosen(2) : y \in ringSel[1].knows \ Chosen(1)
      BY <3>1, RingKnownToOther
    <3> QED BY <1>2, <3>2, <3>3
  <2> DEFINE v == ringSel[1].walk
             w == ringSel[2].walk
  <2>2. RingFirst(ringSel[1], x, y) /\ RingFirst(ringSel[2], y, x)
    <3>1. RingSide(ringSel[1]) /\ RingSide(ringSel[2])
      BY DEF RingInv
    <3>2. Chosen(1) = RingChosen(ringSel[1]) /\ Chosen(2) = RingChosen(ringSel[2])
      BY DEF Chosen, RingChosen
    <3> QED BY <2>1, <3>1, <3>2 DEF RingSide
  <2>3. v \in RingWalks /\ w \in RingWalks
    BY DEF RingInv, RingSides
  <2>4. x \in RingNodes /\ y \in RingNodes /\ x # y
    BY <2>1, RingSizes
  <2>5. RingPlace(x) \in Nat /\ RingPlace(y) \in Nat
    <3>1. \A o \in RingNodes : RingPlace(o) \in 0..AddrMax
      BY RingPlaceIs DEF RingInv, RingTyped
    <3> QED BY <2>4, <3>1
  <2>6. PICK j \in 1..Len(v), k \in 1..Len(v) : v[k] = x /\ v[j] = y /\ RingBehind(v, j, k)
    BY <2>2 DEF RingFirst
  <2>7. PICK i \in 1..Len(w), l \in 1..Len(w) : w[l] = y /\ w[i] = x /\ RingBehind(w, i, l)
    BY <2>2 DEF RingFirst
  <2> HIDE DEF v, w
  <2>8. RingPlace(x) = RingPlace(y) /\ j < k /\ i < l
    BY <2>5, <2>6, <2>7 DEF RingBehind
  <2>9. CASE RingApart
    BY <2>4, <2>8, <2>9 DEF RingApart
  <2>10. CASE RingOneOrder
    <3>1. v = w /\ Len(v) \in Nat /\ \A p, q \in 1..Len(v) : v[p] = v[q] => p = q
      BY <2>3, <2>10, RingWalkIs DEF RingOneOrder
    <3>2. k = i /\ j = l
      BY <2>6, <2>7, <3>1
    <3> QED BY <2>6, <2>7, <2>8, <3>1, <3>2
  <2> QED BY <2>9, <2>10
<1> QED BY <1>1, <1>2

\* batadv_dat_select_candidates, for any ring, addresses, number of candidates
\* and originators: when the hash tables are in one order, a node finds as many
\* candidates as there can be, and one that asks comes upon one that was told,
\* provided there are more candidates than originators one may not have heard
\* of, and it has heard of most.
THEOREM RingWorksHolds == RingOneOrder /\ RingEnough => (RingSpec => []RingWorks)
<1> SUFFICES ASSUME RingOneOrder, RingEnough PROVE RingSpec => []RingWorks
  OBVIOUS
<1>1. RingInv => RingWorks
  BY RingAllFound, RingTheyMeet DEF RingWorks
<1> QED BY <1>1, RingInvHolds, PTL

\* What RingMeet promises where no two nodes are in one place.
RingMeetApart == RingApart => RingMeet
\* The same whatever the orders of the hash tables, while no two nodes share a
\* place: the order is needed only where batadv_is_orig_node_eligible has no rule
\* for a tie.
THEOREM RingMeetsApart == RingEnough => (RingSpec => [](RingFindsAll /\ RingMeetApart))
<1> SUFFICES ASSUME RingEnough PROVE RingSpec => [](RingFindsAll /\ RingMeetApart)
  OBVIOUS
<1>1. RingInv => RingFindsAll /\ RingMeetApart
  BY RingAllFound, RingTheyMeet DEF RingMeetApart
<1> QED BY <1>1, RingInvHolds, PTL

===============================================================================

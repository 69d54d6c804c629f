---------------------------- MODULE ForwQueueProofs ----------------------------
(***************************************************************************)
(* Slots, packets and their timers stay accounted for wherever the worker, *)
(* a purge and the queueing of new packets meet, for any number of         *)
(* interfaces, packets and slots.                                          *)
(***************************************************************************)
EXTENDS ForwQueue, FiniteSetTheorems, TLAPS

\* The packet whose work runs is held, off its timer, and where the work of its
\* kind can be; the original of an own OGM is the one that asks for the next.
WorkerInv ==
  worker # None =>
    LET p == worker.p IN
    /\ pkt[p] # None /\ ~pkt[p].armed
    /\ worker.at \in {"next", "free"} => pkt[p].kind = "ogm"
    /\ worker.at = "next" => pkt[p].own /\ pkt[p].in = pkt[p].out

\* What a purge has still to visit belongs to its interface, which is out of
\* use until the purge ends; a purge of everything comes after mesh_free.
PurgerInv ==
  /\ ~active => \A i \in Ifaces : status[i] = "off"
  /\ purger # None =>
       IF purger.iface = None THEN ~active
       ELSE /\ status[purger.iface] = "leaving"
            /\ \A p \in purger.todo : purger.iface \in {pkt[p].in, pkt[p].out}

ForwInv == TypeOK /\ WorkerInv /\ PurgerInv

\* The packets that hold a slot of the OGM queue.
SlotHolders == {p \in Of("ogm") : ~pkt[p].own}

-----------------------------------------------------------------------------
(* What batadv_iv_ogm_schedule adds                                        *)

\* Objects that were in use are as they were; an object that was free stays
\* free or holds an own OGM of the interface for one of outs.
LEMMA ScheduledAdds ==
  ASSUME NEW before \in [Pkts -> Packet \cup {None}], NEW i \in Ifaces,
         NEW outs \in SUBSET Ifaces, NEW after \in Scheduled(before, i, outs)
  PROVE  /\ after \in [Pkts -> Packet \cup {None}]
         /\ \A p \in Pkts : before[p] # None => after[p] = before[p]
         /\ \A p \in Pkts : before[p] = None /\ after[p] # None =>
              \E o \in outs : after[p] = NewPacket("ogm", TRUE, i, o)
<1>0. PICK got \in SUBSET outs : \E new \in Placements(before, got) :
               after = WithCopies(before, i, new)
  BY DEF Scheduled
<1>1. PICK new \in Placements(before, got) : after = WithCopies(before, i, new)
  BY <1>0
<1>a. new \in [got -> Fresh(before)]
  BY DEF Placements, Injection
<1>2. ASSUME NEW p \in Pkts, NEW o \in got, new[o] = p
      PROVE  /\ before[p] = None
             /\ \E x \in outs : after[p] = NewPacket("ogm", TRUE, i, x)
  BY <1>1, <1>a, <1>2 DEF Fresh, WithCopies
<1>3. ASSUME NEW p \in Pkts, \A o \in got : new[o] # p
      PROVE  after[p] = before[p]
  BY <1>1, <1>a, <1>3 DEF WithCopies
<1>4. \A o \in Ifaces : NewPacket("ogm", TRUE, i, o) \in Packet
  BY DEF NewPacket, Packet, Kinds
<1>5. after \in [Pkts -> Packet \cup {None}]
  <2>1. ASSUME NEW p \in Pkts
        PROVE  after[p] \in Packet \cup {None}
    <3>1. CASE \E o \in got : new[o] = p
      BY <3>1, <1>2, <1>4
    <3>2. CASE \A o \in got : new[o] # p
      BY <3>2, <1>3
    <3> QED BY <3>1, <3>2
  <2> QED BY <2>1, <1>1 DEF WithCopies
<1> QED BY <1>2, <1>3, <1>5

\* Without failing allocations each of outs gets its copy.
LEMMA ScheduledServes ==
  ASSUME NEW before \in [Pkts -> Packet \cup {None}], NEW i \in Ifaces,
         NEW outs \in SUBSET Ifaces, NEW after \in Scheduled(before, i, outs),
         NEW o \in outs, ~AllocFails
  PROVE  \E p \in Pkts : before[p] = None /\ after[p] = NewPacket("ogm", TRUE, i, o)
<1>1. PICK new \in Placements(before, outs) : after = WithCopies(before, i, new)
  BY DEF Scheduled
<1>2. new \in [outs -> Fresh(before)] /\ \A x \in outs : new[x] = new[o] => x = o
  BY DEF Placements, Injection, IsInjective
<1>3. new[o] \in Pkts /\ before[new[o]] = None
  BY <1>2 DEF Fresh
<1>4. (CHOOSE x \in outs : new[x] = new[o]) = o
  BY <1>2
<1>5. after[new[o]] = NewPacket("ogm", TRUE, i, o)
  BY <1>1, <1>2, <1>3, <1>4 DEF WithCopies
<1> QED BY <1>3, <1>5

-----------------------------------------------------------------------------
(* The invariant                                                           *)

\* A packet that is held is a packet, and no record of the worker or of a purge
\* is None.
LEMMA HeldIsPacket ==
  ASSUME TypeOK, NEW p \in Used
  PROVE  p \in Pkts /\ pkt[p] \in Packet
BY DEF TypeOK, Used

LEMMA InitInv == Init => ForwInv
<1> SUFFICES ASSUME Init PROVE ForwInv
  OBVIOUS
<1>1. TypeOK
  BY ForwAssumption DEF Init, TypeOK, Kinds
<1> QED BY <1>1 DEF Init, ForwInv, WorkerInv, PurgerInv

\* Packets are added, nothing else changes for those that are held.
LEMMA AddingKeeps ==
  ASSUME ForwInv, pkt' \in [Pkts -> Packet \cup {None}],
         \A p \in Used : /\ pkt'[p] # None
                         /\ pkt'[p].kind = pkt[p].kind /\ pkt'[p].own = pkt[p].own
                         /\ pkt'[p].in = pkt[p].in /\ pkt'[p].out = pkt[p].out
                         /\ pkt'[p].armed = pkt[p].armed,
         UNCHANGED <<worker, purger>>
  PROVE  /\ Used \subseteq Used'
         /\ WorkerInv'
         /\ purger' # None => purger' \in PurgerStates /\ purger'.todo \subseteq Used'
         /\ worker' # None => worker' \in WorkerStates /\ worker'.p \in Used'
         /\ status' = status /\ active' = active => PurgerInv'
<1>1. Used \subseteq Used'
  BY DEF Used
<1>2. worker # None => worker \in WorkerStates /\ worker.p \in Used
  BY DEF ForwInv, TypeOK
<1>3. purger # None => purger \in PurgerStates /\ purger.todo \subseteq Used
  BY DEF ForwInv, TypeOK
<1>4. WorkerInv'
  BY <1>2 DEF ForwInv, WorkerInv
<1>5. status' = status /\ active' = active => PurgerInv'
  BY <1>3 DEF ForwInv, PurgerInv
<1> QED BY <1>1, <1>2, <1>3, <1>4, <1>5

\* Queueing of broadcasts and of OGMs of neighbours.
LEMMA QueueKeeps ==
  ASSUME ForwInv,
         \/ \E p \in Pkts : AddBcast(p)
         \/ \E i, o \in Ifaces : ForwardOgm(i, o)
  PROVE  ForwInv'
<1>1. TypeOK
  BY DEF ForwInv
<1>2. \A k \in Kinds, w \in BOOLEAN, i \in Ifaces, o \in Ifaces \cup {None} :
        NewPacket(k, w, i, o) \in Packet
  BY DEF NewPacket, Packet
<1>3. ASSUME NEW p \in Pkts, AddBcast(p)
      PROVE  ForwInv'
  <2>1. pkt[p] = None /\ primary \in Ifaces
    BY <1>1, <1>3 DEF AddBcast, Alloc, Fresh, TypeOK
  <2>2. PICK own \in BOOLEAN : pkt' = [pkt EXCEPT ![p] = NewPacket("bcast", own, primary, None)]
    BY <1>3 DEF AddBcast
  <2>3. pkt' \in [Pkts -> Packet \cup {None}]
    BY <1>1, <1>2, <2>1, <2>2 DEF TypeOK, Kinds
  <2>4. \A q \in Used : pkt'[q] = pkt[q]
    BY <1>1, <2>1, <2>2 DEF Used, TypeOK
  <2>5. left' \in [Kinds -> Nat]
    BY <1>1, <1>3 DEF AddBcast, TypeOK, Kinds
  <2>6. UNCHANGED <<status, primary, active, worker, purger, enables>>
    BY <1>3 DEF AddBcast
  <2> QED BY <1>1, <2>3, <2>4, <2>5, <2>6, AddingKeeps DEF ForwInv, TypeOK, Used
<1>4. ASSUME NEW i \in Ifaces, NEW o \in Ifaces, ForwardOgm(i, o)
      PROVE  ForwInv'
  <2>1. UNCHANGED <<status, primary, active, worker, purger, enables>>
    BY <1>4 DEF ForwardOgm
  <2>2. CASE \E p \in Used : /\ CanAggregate(p, i, o)
                            /\ pkt' = [pkt EXCEPT ![p].num = @ + 1]
                            /\ UNCHANGED left
    <3>1. PICK p \in Used : pkt' = [pkt EXCEPT ![p].num = @ + 1] /\ UNCHANGED left
      BY <2>2
    <3>2. p \in Pkts /\ pkt[p] \in Packet /\ pkt[p].num \in Nat
      BY <1>1, <3>1, HeldIsPacket DEF Packet
    <3>3. pkt' = [pkt EXCEPT ![p] = [pkt[p] EXCEPT !.num = pkt[p].num + 1]]
      BY <3>1
    <3>4. [pkt[p] EXCEPT !.num = pkt[p].num + 1] \in Packet
      BY <3>2 DEF Packet
    <3>5. pkt' \in [Pkts -> Packet \cup {None}]
      BY <1>1, <3>2, <3>3, <3>4 DEF TypeOK
    <3>6. \A q \in Used : /\ pkt'[q] # None
                          /\ pkt'[q].kind = pkt[q].kind /\ pkt'[q].own = pkt[q].own
                          /\ pkt'[q].in = pkt[q].in /\ pkt'[q].out = pkt[q].out
                          /\ pkt'[q].armed = pkt[q].armed
      <4>1. pkt'[p] # None
        BY <1>1, <3>2, <3>3, <3>4, NoneAssumption DEF TypeOK
      <4>2. ASSUME NEW q \in Used, q # p
            PROVE  pkt'[q] = pkt[q]
        BY <1>1, <3>3, <4>2 DEF TypeOK, Used
      <4>3. /\ pkt'[p].kind = pkt[p].kind /\ pkt'[p].own = pkt[p].own
            /\ pkt'[p].in = pkt[p].in /\ pkt'[p].out = pkt[p].out
            /\ pkt'[p].armed = pkt[p].armed
        BY <1>1, <3>2, <3>3 DEF TypeOK, Packet
      <4> QED BY <4>1, <4>2, <4>3 DEF Used
    <3> QED BY <1>1, <2>1, <3>1, <3>5, <3>6, AddingKeeps DEF ForwInv, TypeOK
  <2>3. CASE /\ left["ogm"] > 0
             /\ \E p \in Alloc :
                  pkt' = [pkt EXCEPT ![p] = NewPacket("ogm", FALSE, i, o)]
             /\ left' = [left EXCEPT !["ogm"] = @ - 1]
    <3>1. PICK p \in Alloc : pkt' = [pkt EXCEPT ![p] = NewPacket("ogm", FALSE, i, o)]
      BY <2>3
    <3>2. p \in Pkts /\ pkt[p] = None
      BY <3>1 DEF Alloc, Fresh
    <3>3. pkt' \in [Pkts -> Packet \cup {None}]
      BY <1>1, <1>2, <3>1, <3>2 DEF TypeOK, Kinds
    <3>4. \A q \in Used : pkt'[q] = pkt[q]
      BY <1>1, <3>1, <3>2 DEF Used, TypeOK
    <3>5. left' \in [Kinds -> Nat]
      BY <1>1, <2>3 DEF TypeOK, Kinds
    <3> QED BY <1>1, <2>1, <3>3, <3>4, <3>5, AddingKeeps DEF ForwInv, TypeOK, Used
  <2> QED BY <1>4, <2>2, <2>3 DEF ForwardOgm
<1> QED BY <1>3, <1>4

\* A packet is freed: it leaves what the purge has still to visit.
LEMMA FreeingKeeps ==
  ASSUME ForwInv, NEW p \in Used, pkt' = [pkt EXCEPT ![p] = None],
         purger' = Forgotten(p), UNCHANGED <<status, active>>
  PROVE  /\ pkt' \in [Pkts -> Packet \cup {None}]
         /\ Used' = Used \ {p}
         /\ \A q \in Used' : pkt'[q] = pkt[q]
         /\ purger' # None => purger' \in PurgerStates /\ purger'.todo \subseteq Used'
         /\ PurgerInv'
<1>1. TypeOK /\ PurgerInv
  BY DEF ForwInv
<1>2. pkt' \in [Pkts -> Packet \cup {None}]
  BY <1>1 DEF TypeOK
<1>3. Used' = Used \ {p} /\ \A q \in Used' : pkt'[q] = pkt[q]
  BY <1>1 DEF TypeOK, Used
<1>4. CASE purger = None
  BY <1>1, <1>2, <1>3, <1>4 DEF Forgotten, PurgerInv
<1>5. CASE purger # None
  <2>1. purger \in PurgerStates /\ purger.todo \subseteq Used
    BY <1>1, <1>5 DEF TypeOK
  <2>2. purger' = [purger EXCEPT !.todo = purger.todo \ {p}]
    BY <1>5 DEF Forgotten
  <2>3. /\ purger' \in PurgerStates /\ purger'.todo = purger.todo \ {p}
        /\ purger'.iface = purger.iface
    BY <2>1, <2>2 DEF PurgerStates
  <2>4. purger'.todo \subseteq Used'
    BY <2>1, <2>3, <1>3
  <2>5. \A q \in purger'.todo : pkt'[q] = pkt[q]
    BY <2>4, <1>3
  <2>6. PurgerInv'
    BY <1>1, <1>5, <2>3, <2>5 DEF PurgerInv
  <2> QED BY <1>2, <1>3, <2>3, <2>4, <2>6
<1> QED BY <1>4, <1>5

\* The worker.
LEMMA WorkKeeps ==
  ASSUME ForwInv, Work
  PROVE  ForwInv'
<1>1. TypeOK /\ WorkerInv /\ PurgerInv
  BY DEF ForwInv
<1>2. worker # None => /\ worker \in WorkerStates /\ worker.p \in Used
                       /\ worker.p \in Pkts /\ pkt[worker.p] \in Packet
  BY <1>1, HeldIsPacket DEF TypeOK
<1>3. ASSUME NEW p \in Pkts, Fire(p)
      PROVE  ForwInv'
  <2>1. p \in Used /\ pkt[p] \in Packet /\ worker = None /\ pkt[p] # None
    BY <1>1, <1>3, HeldIsPacket DEF Fire, Used
  <2>2. pkt' = [pkt EXCEPT ![p] = [pkt[p] EXCEPT !.armed = FALSE]]
    BY <1>3 DEF Fire
  <2>3. [pkt[p] EXCEPT !.armed = FALSE] \in Packet
    BY <2>1 DEF Packet
  <2>4. pkt'[p] = [pkt[p] EXCEPT !.armed = FALSE] /\ pkt' \in [Pkts -> Packet \cup {None}]
    BY <1>1, <2>2, <2>3 DEF TypeOK
  <2>5. Used' = Used /\ pkt'[p].in = pkt[p].in /\ pkt'[p].out = pkt[p].out /\ ~pkt'[p].armed
    <3>1. pkt'[p] # None
      BY <2>3, <2>4, NoneAssumption
    <3>2. Used' = Used
      BY <1>1, <2>1, <2>2, <3>1 DEF TypeOK, Used
    <3> QED BY <3>2, <2>1, <2>4 DEF Packet
  <2>6. worker' = [p |-> p, at |-> "start"] /\ UNCHANGED <<left, status, primary, active, purger, enables>>
    BY <1>3 DEF Fire
  <2>7. worker' \in WorkerStates /\ worker'.p = p /\ worker'.at = "start"
    BY <2>6 DEF WorkerStates
  <2>8. TypeOK'
    BY <1>1, <2>1, <2>4, <2>5, <2>6, <2>7 DEF TypeOK
  <2>9. WorkerInv'
    BY <2>5, <2>7, <2>1 DEF WorkerInv, Used
  <2>10. \A q \in Used : pkt'[q].in = pkt[q].in /\ pkt'[q].out = pkt[q].out
    BY <1>1, <2>2, <2>5 DEF TypeOK, Used
  <2>11. PurgerInv'
    BY <1>1, <2>6, <2>10 DEF PurgerInv, TypeOK
  <2> QED BY <2>8, <2>9, <2>11 DEF ForwInv
<1>4. ASSUME Unlink
      PROVE  ForwInv'
  <2> DEFINE p == worker.p
  <2>1. p \in Used /\ p \in Pkts /\ pkt[p] \in Packet /\ worker # None /\ worker \in WorkerStates
    BY <1>2, <1>4 DEF Unlink
  <2>2. pkt' = [pkt EXCEPT ![p] = [pkt[p] EXCEPT !.listed = FALSE]]
    BY <1>4 DEF Unlink
  <2>3. [pkt[p] EXCEPT !.listed = FALSE] \in Packet
    BY <2>1 DEF Packet
  <2>4. pkt'[p] = [pkt[p] EXCEPT !.listed = FALSE] /\ pkt' \in [Pkts -> Packet \cup {None}]
    BY <1>1, <2>1, <2>2, <2>3 DEF TypeOK
  <2>5. /\ Used' = Used /\ pkt'[p].in = pkt[p].in /\ pkt'[p].out = pkt[p].out
        /\ pkt'[p].armed = pkt[p].armed /\ pkt'[p] # None
    <3>1. pkt'[p] # None
      BY <2>3, <2>4, NoneAssumption
    <3>2. Used' = Used
      BY <1>1, <2>1, <2>2, <3>1 DEF TypeOK, Used
    <3> QED BY <3>1, <3>2, <2>1, <2>4 DEF Packet
  <2>6. /\ worker' = [worker EXCEPT !.at = "send"]
        /\ UNCHANGED <<left, status, primary, active, purger, enables>>
    BY <1>4 DEF Unlink
  <2>7. worker' \in WorkerStates /\ worker'.p = p /\ worker'.at = "send"
    BY <2>1, <2>6 DEF WorkerStates
  <2>8. TypeOK'
    BY <1>1, <2>1, <2>4, <2>5, <2>6, <2>7 DEF TypeOK
  <2>9. WorkerInv'
    BY <1>1, <2>1, <2>5, <2>7 DEF WorkerInv
  <2>10. \A q \in Used : pkt'[q].in = pkt[q].in /\ pkt'[q].out = pkt[q].out
    BY <1>1, <2>1, <2>2, <2>5 DEF TypeOK, Used
  <2>11. PurgerInv'
    BY <1>1, <2>6, <2>10 DEF PurgerInv, TypeOK
  <2> QED BY <2>8, <2>9, <2>11 DEF ForwInv
<1>5. ASSUME SendBcast
      PROVE  ForwInv'
  <2> DEFINE p == worker.p
  <2>1. p \in Used /\ p \in Pkts /\ pkt[p] \in Packet /\ worker # None
    BY <1>2, <1>5 DEF SendBcast
  <2>2. worker' = None /\ UNCHANGED <<status, primary, active, enables>>
    BY <1>5 DEF SendBcast
  <2>3. CASE /\ pkt' = [pkt EXCEPT ![p] = None]
             /\ left' = [left EXCEPT !["bcast"] = @ + 1]
             /\ purger' = Forgotten(p)
    <3>1. left' \in [Kinds -> Nat]
      BY <1>1, <2>3 DEF TypeOK, Kinds
    <3>2. /\ pkt' \in [Pkts -> Packet \cup {None}]
          /\ purger' # None => purger' \in PurgerStates /\ purger'.todo \subseteq Used'
          /\ PurgerInv'
      BY <2>1, <2>2, <2>3, FreeingKeeps
    <3> QED BY <1>1, <2>2, <3>1, <3>2 DEF ForwInv, TypeOK, WorkerInv
  <2>4. CASE /\ pkt' = [pkt EXCEPT ![p].num = @ + 1, ![p].listed = TRUE,
                                   ![p].armed = ~Canceling(p)]
             /\ UNCHANGED <<left, purger>>
    <3>1. pkt' = [pkt EXCEPT ![p] = [pkt[p] EXCEPT !.num = pkt[p].num + 1, !.listed = TRUE,
                                                   !.armed = ~Canceling(p)]]
      BY <1>1, <2>1, <2>4 DEF TypeOK
    <3>2. [pkt[p] EXCEPT !.num = pkt[p].num + 1, !.listed = TRUE, !.armed = ~Canceling(p)] \in Packet
      <4>1. (~Canceling(p)) \in BOOLEAN
        OBVIOUS
      <4>2. [pkt[p] EXCEPT !.num = pkt[p].num + 1] \in Packet
        BY <2>1 DEF Packet
      <4>3. \A r \in Packet, l, b \in BOOLEAN : [r EXCEPT !.listed = l, !.armed = b] \in Packet
        BY DEF Packet
      <4> QED BY <4>1, <4>2, <4>3
    <3>3. /\ pkt' \in [Pkts -> Packet \cup {None}] /\ pkt'[p] # None
          /\ pkt'[p].in = pkt[p].in /\ pkt'[p].out = pkt[p].out
      BY <1>1, <2>1, <3>1, <3>2, NoneAssumption DEF TypeOK, Packet
    <3>4. Used' = Used
      BY <1>1, <2>1, <3>1, <3>3 DEF TypeOK, Used
    <3>5. \A q \in Used : pkt'[q].in = pkt[q].in /\ pkt'[q].out = pkt[q].out
      BY <1>1, <2>1, <3>1, <3>3 DEF TypeOK, Used
    <3>6. TypeOK'
      BY <1>1, <2>2, <2>4, <3>3, <3>4 DEF TypeOK
    <3>7. PurgerInv'
      BY <1>1, <2>2, <2>4, <3>5 DEF PurgerInv, TypeOK
    <3> QED BY <2>2, <3>6, <3>7 DEF ForwInv, WorkerInv
  <2> QED BY <1>5, <2>3, <2>4 DEF SendBcast
<1>6. ASSUME SendOgm
      PROVE  ForwInv'
  <2>1. worker # None /\ worker \in WorkerStates /\ worker.p \in Used /\ pkt[worker.p].kind = "ogm"
    BY <1>2, <1>6 DEF SendOgm
  <2>2. /\ worker' = [worker EXCEPT !.at = IF Reschedules(worker.p) THEN "next" ELSE "free"]
        /\ UNCHANGED <<pkt, left, status, primary, active, purger, enables>>
    BY <1>6 DEF SendOgm
  <2>3. /\ worker' \in WorkerStates /\ worker'.p = worker.p
        /\ worker'.at = "next" => Reschedules(worker.p)
    BY <2>1, <2>2 DEF WorkerStates
  <2>4. TypeOK'
    BY <1>1, <2>1, <2>2, <2>3 DEF TypeOK, Used
  <2>5. WorkerInv'
    BY <1>1, <2>1, <2>2, <2>3 DEF WorkerInv, Reschedules
  <2>6. PurgerInv'
    BY <1>1, <2>2 DEF PurgerInv
  <2> QED BY <2>4, <2>5, <2>6 DEF ForwInv
<1>7. ASSUME QueueNext
      PROVE  ForwInv'
  <2> DEFINE i == pkt[worker.p].in
             outs == OwnOuts(i, primary, {j \in Ifaces : status[j] # "off"})
  <2>1. worker # None /\ worker \in WorkerStates /\ worker.p \in Used /\ i \in Ifaces /\ outs \in SUBSET Ifaces
    BY <1>2, <1>7 DEF QueueNext, Packet, OwnOuts
  <2>2. /\ pkt' \in Scheduled(pkt, i, outs)
        /\ worker' = [worker EXCEPT !.at = "free"]
        /\ UNCHANGED <<left, status, primary, active, purger, enables>>
    BY <1>7 DEF QueueNext
  <2>3. /\ pkt' \in [Pkts -> Packet \cup {None}]
        /\ \A p \in Used : pkt'[p] = pkt[p]
    <3>1. pkt \in [Pkts -> Packet \cup {None}]
      BY <1>1 DEF TypeOK
    <3> HIDE DEF i, outs
    <3>2. /\ pkt' \in [Pkts -> Packet \cup {None}]
          /\ \A p \in Pkts : pkt[p] # None => pkt'[p] = pkt[p]
      BY <2>1, <2>2, <3>1, ScheduledAdds
    <3> QED BY <3>2 DEF Used
  <2>4. Used \subseteq Used'
    BY <2>3 DEF Used
  <2>5. worker' \in WorkerStates /\ worker'.p = worker.p /\ worker'.at = "free"
    BY <2>1, <2>2 DEF WorkerStates
  <2>6. TypeOK'
    BY <1>1, <2>1, <2>2, <2>3, <2>4, <2>5 DEF TypeOK
  <2>7. WorkerInv'
    BY <1>1, <1>7, <2>1, <2>3, <2>5 DEF WorkerInv, QueueNext
  <2>8. PurgerInv'
    BY <1>1, <2>2, <2>3 DEF PurgerInv, TypeOK
  <2> QED BY <2>6, <2>7, <2>8 DEF ForwInv
<1>8. ASSUME FreeOgm
      PROVE  ForwInv'
  <2>1. worker # None /\ worker.p \in Used /\ worker.p \in Pkts /\ pkt[worker.p] \in Packet
    BY <1>2, <1>8 DEF FreeOgm
  <2>2. /\ left' = Returned(worker.p) /\ pkt' = [pkt EXCEPT ![worker.p] = None]
        /\ purger' = Forgotten(worker.p) /\ worker' = None
        /\ UNCHANGED <<status, primary, active, enables>>
    BY <1>8 DEF FreeOgm
  <2>3. left' \in [Kinds -> Nat]
    BY <1>1, <2>1, <2>2 DEF TypeOK, Returned, Packet
  <2>4. /\ pkt' \in [Pkts -> Packet \cup {None}]
        /\ purger' # None => purger' \in PurgerStates /\ purger'.todo \subseteq Used'
        /\ PurgerInv'
    BY <2>1, <2>2, FreeingKeeps
  <2> QED BY <1>1, <2>2, <2>3, <2>4 DEF ForwInv, TypeOK, WorkerInv
<1> QED BY <1>3, <1>4, <1>5, <1>6, <1>7, <1>8 DEF Work

\* What a new purge is to visit is held, and refers to its interface.
LEMMA VisitsHeld ==
  ASSUME NEW iface, NEW kind
  PROVE  /\ Visits(iface, kind) \in SUBSET Used /\ Visits(iface, kind) \in SUBSET Pkts
         /\ iface # None => \A p \in Visits(iface, kind) : iface \in {pkt[p].in, pkt[p].out}
BY DEF Visits, Of, Used

\* Interfaces are enabled and disabled, and the mesh is freed.
LEMMA InterfaceKeeps ==
  ASSUME ForwInv,
         \/ \E i \in Ifaces : Enable(i) \/ Disable(i)
         \/ MeshFree
  PROVE  ForwInv'
<1>1. TypeOK /\ WorkerInv /\ PurgerInv
  BY DEF ForwInv
<1>2. ASSUME NEW i \in Ifaces, Enable(i)
      PROVE  ForwInv'
  <2> DEFINE outs == OwnOuts(i, primary', {j \in Ifaces : status'[j] # "off"})
  <2>1. /\ active /\ purger = None /\ UNCHANGED <<left, active, worker, purger>>
        /\ pkt' \in Scheduled(pkt, i, outs)
        /\ enables < MaxEnables /\ enables' = enables + 1
        /\ status' = [status EXCEPT ![i] = "on"]
        /\ primary' = IF primary = None THEN i ELSE primary
    BY <1>2 DEF Enable
  <2>2. pkt \in [Pkts -> Packet \cup {None}] /\ outs \in SUBSET Ifaces
    BY <1>1 DEF TypeOK, OwnOuts
  <2>3. /\ pkt' \in [Pkts -> Packet \cup {None}]
        /\ \A p \in Pkts : pkt[p] # None => pkt'[p] = pkt[p]
    <3> HIDE DEF outs
    <3> QED BY <2>1, <2>2, ScheduledAdds
  <2>4. \A p \in Used : pkt'[p] # None /\ pkt'[p] = pkt[p]
    BY <2>3 DEF Used
  <2>5. enables' \in 0..MaxEnables
    BY <1>1, <2>1, ForwAssumption DEF TypeOK
  <2>6. status' \in [Ifaces -> {"off", "on", "leaving"}] /\ primary' \in Ifaces \cup {None}
    BY <1>1, <2>1 DEF TypeOK
  <2>7. WorkerInv' /\ (worker' # None => worker' \in WorkerStates /\ worker'.p \in Used')
    BY <2>1, <2>3, <2>4, AddingKeeps
  <2>8. TypeOK'
    BY <1>1, <2>1, <2>3, <2>5, <2>6, <2>7 DEF TypeOK
  <2>9. PurgerInv'
    BY <2>1 DEF PurgerInv
  <2> QED BY <2>7, <2>8, <2>9 DEF ForwInv
<1>3. ASSUME NEW iface \in Ifaces \cup {None}, NEW kind \in Kinds, NEW at \in {None},
             purger' = [iface |-> iface, list |-> kind, todo |-> Visits(iface, kind),
                        at |-> at],
             UNCHANGED pkt
      PROVE  purger' \in PurgerStates /\ purger'.todo \subseteq Used'
  BY <1>3, VisitsHeld DEF PurgerStates, Used
<1>4. ASSUME NEW i \in Ifaces, Disable(i)
      PROVE  ForwInv'
  <2>1. /\ purger' = [iface |-> i, list |-> "bcast", todo |-> Visits(i, "bcast"), at |-> None]
        /\ status[i] = "on" /\ status' = [status EXCEPT ![i] = "leaving"]
        /\ UNCHANGED <<pkt, left, active, worker, enables>>
    BY <1>4 DEF Disable, StartPurge
  <2>2. primary' \in Ifaces \cup {None}
    BY <1>1, <1>4 DEF Disable, TypeOK
  <2>3. purger' \in PurgerStates /\ purger'.todo \subseteq Used'
    BY <1>3, <2>1 DEF Kinds
  <2>4. TypeOK'
    BY <1>1, <2>1, <2>2, <2>3 DEF TypeOK, Used
  <2>5. PurgerInv'
    <3>1. active' /\ i # None /\ status'[i] = "leaving"
      BY <1>1, <2>1, ForwAssumption DEF PurgerInv, TypeOK
    <3>2. \A p \in Visits(i, "bcast") : i \in {pkt[p].in, pkt[p].out}
      BY <3>1, VisitsHeld
    <3> QED BY <2>1, <3>1, <3>2 DEF PurgerInv
  <2>6. WorkerInv'
    BY <1>1, <2>1 DEF WorkerInv
  <2> QED BY <2>4, <2>5, <2>6 DEF ForwInv
<1>5. ASSUME MeshFree
      PROVE  ForwInv'
  <2>1. /\ purger' = [iface |-> None, list |-> "bcast", todo |-> Visits(None, "bcast"), at |-> None]
        /\ \A i \in Ifaces : status[i] = "off"
        /\ active' = FALSE /\ UNCHANGED <<pkt, left, status, primary, worker, enables>>
    BY <1>5 DEF MeshFree, StartPurge
  <2>2. purger' \in PurgerStates /\ purger'.todo \subseteq Used'
    BY <1>3, <2>1 DEF Kinds
  <2>3. TypeOK'
    BY <1>1, <2>1, <2>2 DEF TypeOK, Used
  <2>4. PurgerInv'
    BY <2>1 DEF PurgerInv
  <2>5. WorkerInv'
    BY <1>1, <2>1 DEF WorkerInv
  <2> QED BY <2>3, <2>4, <2>5 DEF ForwInv
<1> QED BY <1>2, <1>4, <1>5

\* A purge.
LEMMA PurgeKeeps ==
  ASSUME ForwInv, Purge
  PROVE  ForwInv'
<1>1. TypeOK /\ WorkerInv /\ PurgerInv
  BY DEF ForwInv
<1>2. /\ purger # None /\ purger \in PurgerStates
      /\ purger.todo \subseteq Used
  BY <1>1 DEF Purge, PurgePending, PurgeWait, PurgeMiss, PurgeWaited, PurgeNextList, PurgeEnd, TypeOK
\* The purge goes on with other packets to visit, and nothing else happens.
<1>3. ASSUME NEW todo \in SUBSET purger.todo, NEW at \in Pkts \cup {None},
             purger' = [purger EXCEPT !.todo = todo, !.at = at],
             UNCHANGED <<pkt, left, status, primary, active, worker, enables>>
      PROVE  ForwInv'
  <2>1. todo \in SUBSET Pkts
    BY <1>2 DEF Used
  <2>2. /\ purger' \in PurgerStates /\ purger'.todo = todo
        /\ purger'.iface = purger.iface
    BY <1>2, <1>3, <2>1 DEF PurgerStates
  <2>3. TypeOK'
    BY <1>1, <1>2, <1>3, <2>2 DEF TypeOK, Used
  <2>4. PurgerInv'
    BY <1>1, <1>2, <1>3, <2>2 DEF PurgerInv
  <2>5. WorkerInv'
    BY <1>1, <1>3 DEF WorkerInv
  <2> QED BY <2>3, <2>4, <2>5 DEF ForwInv
<1>4. ASSUME NEW p \in Pkts, PurgePending(p)
      PROVE  ForwInv'
  <2>1. p \in Used /\ pkt[p] \in Packet /\ pkt[p].armed
    BY <1>1, <1>2, <1>4, HeldIsPacket DEF PurgePending
  <2>2. /\ left' = Returned(p) /\ pkt' = [pkt EXCEPT ![p] = None] /\ purger' = Forgotten(p)
        /\ UNCHANGED <<status, primary, active, worker, enables>>
    BY <1>4 DEF PurgePending
  <2>3. left' \in [Kinds -> Nat]
    BY <1>1, <2>1, <2>2 DEF TypeOK, Returned, Packet
  <2>4. /\ pkt' \in [Pkts -> Packet \cup {None}]
        /\ purger' # None => purger' \in PurgerStates /\ purger'.todo \subseteq Used'
        /\ PurgerInv' /\ Used' = Used \ {p} /\ \A q \in Used' : pkt'[q] = pkt[q]
    BY <2>1, <2>2, FreeingKeeps
  <2>5. worker # None => worker.p # p /\ worker \in WorkerStates /\ worker.p \in Used
    BY <1>1, <2>1 DEF WorkerInv, TypeOK
  <2>6. TypeOK'
    BY <1>1, <2>2, <2>3, <2>4, <2>5 DEF TypeOK
  <2>7. WorkerInv'
    BY <1>1, <2>2, <2>4, <2>5 DEF WorkerInv
  <2> QED BY <2>4, <2>6, <2>7 DEF ForwInv
<1>5. ASSUME NEW p \in Pkts, PurgeWait(p)
      PROVE  ForwInv'
  <2>1. purger' = [purger EXCEPT !.todo = purger.todo, !.at = p]
    BY <1>2, <1>5 DEF PurgeWait, PurgerStates
  <2> QED BY <1>3, <1>5, <2>1 DEF PurgeWait
<1>6. ASSUME NEW p \in Pkts, PurgeMiss(p)
      PROVE  ForwInv'
  <2>1. purger' = [purger EXCEPT !.todo = purger.todo \ {p}, !.at = None]
    BY <1>2, <1>6 DEF PurgeMiss, Forgotten, PurgerStates
  <2> QED BY <1>3, <1>6, <2>1 DEF PurgeMiss
<1>7. ASSUME PurgeWaited
      PROVE  ForwInv'
  <2>1. purger' = [purger EXCEPT !.todo = purger.todo \ {purger.at}, !.at = None]
    BY <1>2, <1>7 DEF PurgeWaited, Forgotten, PurgerStates
  <2> QED BY <1>3, <1>7, <2>1 DEF PurgeWaited
<1>8. ASSUME PurgeNextList
      PROVE  ForwInv'
  <2> DEFINE todo == Visits(purger.iface, "ogm")
  <2>1. /\ purger' = [purger EXCEPT !.list = "ogm", !.todo = todo]
        /\ UNCHANGED <<pkt, left, status, primary, active, worker, enables>>
    BY <1>8 DEF PurgeNextList
  <2>2. todo \in SUBSET Used /\ todo \in SUBSET Pkts
    BY VisitsHeld
  <2>3. purger.iface # None => \A p \in todo : purger.iface \in {pkt[p].in, pkt[p].out}
    BY VisitsHeld
  <2> HIDE DEF todo
  <2>4. purger' \in PurgerStates /\ purger'.todo = todo /\ purger'.iface = purger.iface
    BY <1>2, <2>1, <2>2 DEF PurgerStates, Kinds
  <2>5. TypeOK'
    BY <1>1, <2>1, <2>2, <2>4 DEF TypeOK, Used
  <2>6. PurgerInv'
    BY <1>1, <1>2, <2>1, <2>3, <2>4 DEF PurgerInv
  <2>7. WorkerInv'
    BY <1>1, <2>1 DEF WorkerInv
  <2> QED BY <2>5, <2>6, <2>7 DEF ForwInv
<1>9. ASSUME PurgeEnd
      PROVE  ForwInv'
  <2>1. /\ status' = [i \in Ifaces |-> IF i = purger.iface THEN "off" ELSE status[i]]
        /\ purger' = None /\ UNCHANGED <<pkt, left, primary, active, worker, enables>>
    BY <1>9 DEF PurgeEnd
  <2>2. status' \in [Ifaces -> {"off", "on", "leaving"}]
    BY <1>1, <2>1 DEF TypeOK
  <2>3. TypeOK'
    BY <1>1, <2>1, <2>2 DEF TypeOK, Used
  <2>4. PurgerInv'
    BY <1>1, <2>1 DEF PurgerInv
  <2>5. WorkerInv'
    BY <1>1, <2>1 DEF WorkerInv
  <2> QED BY <2>3, <2>4, <2>5 DEF ForwInv
<1> QED BY <1>4, <1>5, <1>6, <1>7, <1>8, <1>9 DEF Purge

\* A step that changes nothing.
LEMMA StutterKeeps == ForwInv /\ UNCHANGED vars => ForwInv'
BY DEF ForwInv, TypeOK, WorkerInv, PurgerInv, vars, Used

\* Every variable keeps its type, the worker is in the middle of a packet that
\* is held, and a purge visits packets of an interface that is out of use.
THEOREM ForwInvHolds == Spec => []ForwInv
<1>1. ForwInv /\ [Next]_vars => ForwInv'
  BY QueueKeeps, WorkKeeps, InterfaceKeeps, PurgeKeeps, StutterKeeps DEF Next
<1> QED BY InitInv, <1>1, PTL DEF Spec

\* pkt and its neighbours in the state keep their types (TypeOK, for every value
\* of the constants).
THEOREM TypeCorrect == Spec => []TypeOK
<1>1. ForwInv => TypeOK
  BY DEF ForwInv
<1> QED BY <1>1, ForwInvHolds, PTL

-----------------------------------------------------------------------------
(* No OGM is forgotten                                                     *)

LEMMA ForgottenStep ==
  ASSUME ForwInv, NoOgmForgotten, Next
  PROVE  NoOgmForgotten'
<1>1. TypeOK /\ WorkerInv
  BY DEF ForwInv
<1>2. worker # None => worker.p \in Used /\ worker.p \in Pkts /\ pkt[worker.p] \in Packet /\ worker \in WorkerStates
  BY <1>1, HeldIsPacket DEF TypeOK
\* New packets have their timer running.
<1>3. ASSUME \A q \in Used' : \/ q \in Used /\ pkt'[q].kind = pkt[q].kind /\ pkt'[q].armed = pkt[q].armed
                              \/ pkt'[q].armed \/ pkt'[q].kind # "ogm",
             \A q \in Of("ogm") : Running(q) => q \notin Of("ogm")' \/ Running(q)'
      PROVE  NoOgmForgotten'
  BY <1>3 DEF NoOgmForgotten, Of
<1>4. ASSUME NEW p \in Pkts, AddBcast(p)
      PROVE  NoOgmForgotten'
  <2>1. PICK own \in BOOLEAN : pkt' = [pkt EXCEPT ![p] = NewPacket("bcast", own, primary, None)]
    BY <1>4 DEF AddBcast
  <2>2. pkt'[p].kind # "ogm" /\ \A q \in Pkts \ {p} : pkt'[q] = pkt[q]
    BY <1>1, <2>1 DEF TypeOK, NewPacket
  <2>3. worker' = worker
    BY <1>4 DEF AddBcast
  <2> QED BY <1>3, <2>2, <2>3 DEF Used, Running
<1>5. ASSUME NEW i \in Ifaces, NEW o \in Ifaces, ForwardOgm(i, o)
      PROVE  NoOgmForgotten'
  <2>1. worker' = worker
    BY <1>5 DEF ForwardOgm
  <2>2. CASE \E p \in Used : pkt' = [pkt EXCEPT ![p].num = @ + 1]
    <3>1. PICK p \in Used : pkt' = [pkt EXCEPT ![p].num = @ + 1]
      BY <2>2
    <3>2. p \in Pkts /\ pkt[p] \in Packet
      BY <1>1, HeldIsPacket
    <3>3. pkt'[p].kind = pkt[p].kind /\ pkt'[p].armed = pkt[p].armed
      BY <1>1, <3>1, <3>2 DEF TypeOK, Packet
    <3>4. \A q \in Pkts \ {p} : pkt'[q] = pkt[q]
      BY <1>1, <3>1, <3>2 DEF TypeOK
    <3> QED BY <1>3, <2>1, <3>3, <3>4 DEF Used, Running
  <2>3. CASE \E p \in Alloc : pkt' = [pkt EXCEPT ![p] = NewPacket("ogm", FALSE, i, o)]
    <3>1. PICK p \in Alloc : pkt' = [pkt EXCEPT ![p] = NewPacket("ogm", FALSE, i, o)]
      BY <2>3
    <3>2. p \in Pkts /\ pkt'[p].armed /\ \A q \in Pkts \ {p} : pkt'[q] = pkt[q]
      BY <1>1, <3>1 DEF TypeOK, NewPacket, Alloc, Fresh
    <3> QED BY <1>3, <2>1, <3>2 DEF Used, Running
  <2> QED BY <1>5, <2>2, <2>3 DEF ForwardOgm
<1>6. ASSUME NEW i \in Ifaces, NEW outs \in SUBSET Ifaces, pkt' \in Scheduled(pkt, i, outs),
             worker' = worker \/ (worker # None /\ worker' = [worker EXCEPT !.at = "free"])
      PROVE  NoOgmForgotten'
  <2>1. /\ \A p \in Pkts : pkt[p] # None => pkt'[p] = pkt[p]
        /\ \A p \in Pkts : pkt[p] = None /\ pkt'[p] # None =>
             \E o \in outs : pkt'[p] = NewPacket("ogm", TRUE, i, o)
    <3>1. pkt \in [Pkts -> Packet \cup {None}] /\ pkt' \in Scheduled(pkt, i, outs)
      BY <1>1, <1>6 DEF TypeOK
    <3> QED BY <3>1, ScheduledAdds
  <2>2. \A p \in Pkts : pkt[p] = None /\ pkt'[p] # None => pkt'[p].armed
    <3>1. \A o : NewPacket("ogm", TRUE, i, o).armed
      BY DEF NewPacket
    <3> QED BY <2>1, <3>1
  <2>3. worker # None => worker' # None /\ worker'.p = worker.p
    BY <1>2, <1>6, NoneAssumption DEF WorkerStates
  <2> QED BY <1>3, <2>1, <2>2, <2>3 DEF Used, Running
<1>7. ASSUME NEW i \in Ifaces, Enable(i)
      PROVE  NoOgmForgotten'
  <2> DEFINE outs == OwnOuts(i, primary', {j \in Ifaces : status'[j] # "off"})
  <2>1. outs \in SUBSET Ifaces
    BY DEF OwnOuts
  <2>2. pkt' \in Scheduled(pkt, i, outs) /\ worker' = worker
    BY <1>7 DEF Enable
  <2> QED BY <1>6, <2>1, <2>2
<1>8. ASSUME UNCHANGED <<pkt, worker>>
      PROVE  NoOgmForgotten'
  BY <1>8 DEF NoOgmForgotten, Of, Used, Running
\* A packet is freed, by the worker or by a purge.
<1>9. ASSUME NEW p \in Pkts, pkt' = [pkt EXCEPT ![p] = None],
             worker' = worker \/ (worker # None /\ worker.p = p)
      PROVE  NoOgmForgotten'
  <2>1. pkt'[p] = None /\ \A q \in Pkts \ {p} : pkt'[q] = pkt[q]
    BY <1>1, <1>9 DEF TypeOK
  <2> QED BY <1>3, <1>9, <2>1 DEF Used, Of, Running
<1>10. CASE Purge
  <2>1. ASSUME NEW p \in Pkts, PurgePending(p)
        PROVE  NoOgmForgotten'
    <3>1. pkt' = [pkt EXCEPT ![p] = None] /\ worker' = worker
      BY <2>1 DEF PurgePending
    <3> QED BY <1>9, <3>1
  <2> QED BY <1>8, <1>10, <2>1 DEF Purge, PurgeWait, PurgeMiss, PurgeWaited, PurgeNextList, PurgeEnd
<1>11. CASE Work
  <2>1. ASSUME NEW p \in Pkts, Fire(p)
        PROVE  NoOgmForgotten'
    <3>1. worker = None /\ worker' = [p |-> p, at |-> "start"]
          /\ pkt' = [pkt EXCEPT ![p].armed = FALSE] /\ p \in Used /\ pkt[p] \in Packet
      BY <1>1, <2>1, HeldIsPacket DEF Fire
    <3>2. \A q \in Pkts \ {p} : pkt'[q] = pkt[q]
      BY <1>1, <3>1 DEF TypeOK
    <3>3. worker' # None /\ worker'.p = p
      <4>1. worker' \in WorkerStates
        BY <3>1 DEF WorkerStates
      <4> QED BY <3>1, <4>1, NoneAssumption
    <3> QED BY <3>1, <3>2, <3>3 DEF NoOgmForgotten, Of, Used, Running
  <2>2. ASSUME Unlink
        PROVE  NoOgmForgotten'
    <3> DEFINE p == worker.p
    <3>1. /\ p \in Pkts /\ pkt[p] \in Packet /\ worker # None /\ worker \in WorkerStates
          /\ pkt' = [pkt EXCEPT ![p].listed = FALSE] /\ worker' = [worker EXCEPT !.at = "send"]
      BY <1>2, <2>2 DEF Unlink
    <3>2. worker' # None /\ worker'.p = p
      BY <3>1, NoneAssumption DEF WorkerStates
    <3>3. \A q \in Pkts \ {p} : pkt'[q] = pkt[q]
      BY <1>1, <3>1 DEF TypeOK
    <3> QED BY <3>1, <3>2, <3>3 DEF NoOgmForgotten, Of, Used, Running
  <2>3. ASSUME SendBcast
        PROVE  NoOgmForgotten'
    <3> DEFINE p == worker.p
    <3>1. p \in Pkts /\ pkt[p] \in Packet /\ worker # None /\ pkt[p].kind = "bcast"
      BY <1>2, <2>3 DEF SendBcast
    <3>2. CASE pkt' = [pkt EXCEPT ![p] = None]
      BY <1>9, <3>1, <3>2
    <3>3. CASE pkt' = [pkt EXCEPT ![p].num = @ + 1, ![p].listed = TRUE, ![p].armed = ~Canceling(p)]
      <4>1. \A q \in Pkts \ {p} : pkt'[q] = pkt[q]
        BY <1>1, <3>3 DEF TypeOK
      <4>2. pkt'[p].kind # "ogm"
        BY <1>1, <3>1, <3>3 DEF TypeOK, Packet
      <4> QED BY <1>3, <3>1, <4>1, <4>2 DEF Used, Of, Running
    <3> QED BY <2>3, <3>2, <3>3 DEF SendBcast
  <2>4. ASSUME SendOgm
        PROVE  NoOgmForgotten'
    <3>1. /\ worker # None /\ worker \in WorkerStates /\ pkt' = pkt
          /\ worker' = [worker EXCEPT !.at = IF Reschedules(worker.p) THEN "next" ELSE "free"]
      BY <1>2, <2>4 DEF SendOgm
    <3>2. worker' # None /\ worker'.p = worker.p
      BY <3>1, NoneAssumption DEF WorkerStates
    <3> QED BY <3>1, <3>2 DEF NoOgmForgotten, Of, Used, Running
  <2>5. ASSUME QueueNext
        PROVE  NoOgmForgotten'
    <3> DEFINE outs == OwnOuts(pkt[worker.p].in, primary, {j \in Ifaces : status[j] # "off"})
    <3>1. worker # None /\ pkt[worker.p].in \in Ifaces /\ outs \in SUBSET Ifaces
      BY <1>2, <2>5 DEF QueueNext, Packet, OwnOuts
    <3>2. pkt' \in Scheduled(pkt, pkt[worker.p].in, outs) /\ worker' = [worker EXCEPT !.at = "free"]
      BY <2>5 DEF QueueNext
    <3> QED BY <1>6, <3>1, <3>2
  <2>6. ASSUME FreeOgm
        PROVE  NoOgmForgotten'
    BY <1>2, <1>9, <2>6 DEF FreeOgm
  <2> QED BY <1>11, <2>1, <2>2, <2>3, <2>4, <2>5, <2>6 DEF Work
<1>12. CASE MeshFree \/ \E i \in Ifaces : Disable(i)
  BY <1>8, <1>12 DEF MeshFree, Disable
<1> QED BY <1>4, <1>5, <1>7, <1>10, <1>11, <1>12 DEF Next

\* Every OGM packet that is held has its timer running or is in the worker's
\* hands, for any interleaving of worker and purge (NoOgmForgotten).
THEOREM NoOgmIsForgotten == Spec => []NoOgmForgotten
<1>1. Init => NoOgmForgotten
  BY DEF Init, NoOgmForgotten, Of, Used
<1>2. ForwInv /\ NoOgmForgotten /\ [Next]_vars => NoOgmForgotten'
  <2>1. NoOgmForgotten /\ UNCHANGED vars => NoOgmForgotten'
    BY DEF NoOgmForgotten, Of, Used, Running, vars
  <2> QED BY <2>1, ForgottenStep
<1> QED BY <1>1, <1>2, ForwInvHolds, PTL DEF Spec

-----------------------------------------------------------------------------
(* The slots of the OGM queue                                              *)

LEMMA HoldersFinite == IsFiniteSet(SlotHolders)
<1>1. IsFiniteSet(Pkts)
  BY FS_Interval, ForwAssumption DEF Pkts
<1>2. SlotHolders \subseteq Pkts
  BY DEF SlotHolders, Of, Used
<1> QED BY <1>1, <1>2, FS_Subset

LEMMA Accounts == OgmSlotsAccounted <=> left["ogm"] + Cardinality(SlotHolders) = OgmSlots
BY DEF OgmSlotsAccounted, SlotHolders

LEMMA AccountsNext ==
  OgmSlotsAccounted' <=> left'["ogm"] + Cardinality(SlotHolders') = OgmSlots
BY DEF OgmSlotsAccounted, SlotHolders

\* Nothing that holds a slot comes or goes, and no slot is taken or given back.
LEMMA SameSlots ==
  ASSUME OgmSlotsAccounted, left'["ogm"] = left["ogm"],
         \A p \in Pkts : p \in SlotHolders' <=> p \in SlotHolders
  PROVE  OgmSlotsAccounted'
<1>1. SlotHolders' = SlotHolders
  BY DEF SlotHolders, Of, Used
<1> QED BY <1>1 DEF OgmSlotsAccounted, SlotHolders

\* A packet is freed, and its slot given back.
LEMMA FreeingReturns ==
  ASSUME ForwInv, OgmSlotsAccounted, NEW p \in Used, pkt' = [pkt EXCEPT ![p] = None],
         left' = Returned(p) \/ (pkt[p].kind = "bcast" /\ left' = [left EXCEPT !["bcast"] = @ + 1])
  PROVE  OgmSlotsAccounted'
<1>1. TypeOK /\ p \in Pkts /\ pkt[p] \in Packet
  BY HeldIsPacket DEF ForwInv
<1>2. pkt'[p] = None /\ \A q \in Pkts \ {p} : pkt'[q] = pkt[q]
  BY <1>1 DEF TypeOK
<1>3. SlotHolders' = SlotHolders \ {p}
  BY <1>2 DEF SlotHolders, Of, Used
<1>4. left \in [Kinds -> Nat] /\ "ogm" \in Kinds /\ "bcast" \in Kinds /\ left["ogm"] \in Nat
  BY <1>1 DEF TypeOK, Kinds
<1>5. CASE p \in SlotHolders
  <2>1. ~pkt[p].own /\ pkt[p].kind = "ogm"
    BY <1>5 DEF SlotHolders, Of
  <2>2. left'["ogm"] = left["ogm"] + 1
    BY <1>4, <2>1 DEF Returned
  <2>3. /\ Cardinality(SlotHolders \ {p}) = Cardinality(SlotHolders) - 1
        /\ Cardinality(SlotHolders) \in Nat
    BY <1>5, HoldersFinite, FS_RemoveElement, FS_CardinalityType
  <2> QED BY <1>3, <1>4, <2>2, <2>3, Accounts, AccountsNext, ForwAssumption
<1>6. CASE p \notin SlotHolders
  <2>1. pkt[p].own \/ pkt[p].kind = "bcast"
    BY <1>1, <1>6 DEF SlotHolders, Of, Packet, Kinds
  <2>2. left'["ogm"] = left["ogm"]
    BY <1>4, <2>1 DEF Returned
  <2> QED BY <1>3, <1>6, <2>2, SameSlots
<1> QED BY <1>5, <1>6

LEMMA SlotsStep ==
  ASSUME ForwInv, OgmSlotsAccounted, Next
  PROVE  OgmSlotsAccounted'
<1>1. TypeOK /\ WorkerInv
  BY DEF ForwInv
<1>2. worker # None => worker.p \in Used /\ worker.p \in Pkts /\ pkt[worker.p] \in Packet
  BY <1>1, HeldIsPacket DEF TypeOK
<1>3. left \in [Kinds -> Nat] /\ "ogm" \in Kinds /\ "bcast" \in Kinds /\ left["ogm"] \in Nat
  BY <1>1 DEF TypeOK, Kinds
\* A packet that is held stays what it is, for the slots.
<1>4. ASSUME NEW p \in Pkts, pkt[p] # None, pkt'[p] # None,
             pkt'[p].kind = pkt[p].kind, pkt'[p].own = pkt[p].own,
             \A q \in Pkts \ {p} : pkt'[q] = pkt[q],
             left' = left
      PROVE  OgmSlotsAccounted'
  BY <1>4, SameSlots DEF SlotHolders, Of, Used
<1>5. ASSUME NEW p \in Pkts, AddBcast(p)
      PROVE  OgmSlotsAccounted'
  <2>1. PICK own \in BOOLEAN : pkt' = [pkt EXCEPT ![p] = NewPacket("bcast", own, primary, None)]
    BY <1>5 DEF AddBcast
  <2>2. pkt'[p].kind # "ogm" /\ \A q \in Pkts \ {p} : pkt'[q] = pkt[q]
    BY <1>1, <2>1 DEF TypeOK, NewPacket
  <2>3. left'["ogm"] = left["ogm"] /\ pkt[p] = None
    BY <1>3, <1>5 DEF AddBcast, Alloc, Fresh
  <2> QED BY <2>2, <2>3, SameSlots DEF SlotHolders, Of, Used
<1>6. ASSUME NEW i \in Ifaces, NEW o \in Ifaces, ForwardOgm(i, o)
      PROVE  OgmSlotsAccounted'
  <2>1. CASE \E p \in Used : pkt' = [pkt EXCEPT ![p].num = @ + 1] /\ UNCHANGED left
    <3>1. PICK p \in Used : pkt' = [pkt EXCEPT ![p].num = @ + 1] /\ UNCHANGED left
      BY <2>1
    <3>2. p \in Pkts /\ pkt[p] \in Packet /\ pkt[p] # None
      BY <1>1, HeldIsPacket DEF Used
    <3>3. pkt'[p].kind = pkt[p].kind /\ pkt'[p].own = pkt[p].own
      BY <1>1, <3>1, <3>2 DEF TypeOK, Packet
    <3>4. \A q \in Pkts \ {p} : pkt'[q] = pkt[q]
      BY <1>1, <3>1, <3>2 DEF TypeOK
    <3>5. pkt'[p] # None
      <4>1. [pkt[p] EXCEPT !.num = pkt[p].num + 1] \in Packet
        BY <3>2 DEF Packet
      <4>2. pkt'[p] = [pkt[p] EXCEPT !.num = pkt[p].num + 1]
        BY <1>1, <3>1, <3>2 DEF TypeOK
      <4> QED BY <4>1, <4>2, NoneAssumption
    <3> QED BY <1>4, <3>1, <3>2, <3>3, <3>4, <3>5
  <2>2. CASE /\ left["ogm"] > 0
             /\ \E p \in Alloc : pkt' = [pkt EXCEPT ![p] = NewPacket("ogm", FALSE, i, o)]
             /\ left' = [left EXCEPT !["ogm"] = @ - 1]
    <3>1. PICK p \in Alloc : pkt' = [pkt EXCEPT ![p] = NewPacket("ogm", FALSE, i, o)]
      BY <2>2
    <3>2. p \in Pkts /\ pkt[p] = None
      BY <3>1 DEF Alloc, Fresh
    <3>3. NewPacket("ogm", FALSE, i, o) \in Packet
      BY DEF NewPacket, Packet, Kinds
    <3>4. pkt'[p] # None /\ pkt'[p].kind = "ogm" /\ ~pkt'[p].own /\ \A q \in Pkts \ {p} : pkt'[q] = pkt[q]
      BY <1>1, <3>1, <3>2, <3>3, NoneAssumption DEF TypeOK, NewPacket
    <3>5. SlotHolders' = SlotHolders \cup {p} /\ p \notin SlotHolders
      BY <3>2, <3>4 DEF SlotHolders, Of, Used
    <3>6. left'["ogm"] = left["ogm"] - 1
      BY <1>3, <2>2
    <3>7. /\ Cardinality(SlotHolders \cup {p}) = Cardinality(SlotHolders) + 1
          /\ Cardinality(SlotHolders) \in Nat
      BY <3>5, HoldersFinite, FS_AddElement, FS_CardinalityType
    <3> QED BY <1>3, <3>5, <3>6, <3>7, Accounts, AccountsNext, ForwAssumption
  <2> QED BY <1>6, <2>1, <2>2 DEF ForwardOgm
\* Own packets take no slot.
<1>7. ASSUME NEW i \in Ifaces, NEW outs \in SUBSET Ifaces, pkt' \in Scheduled(pkt, i, outs),
             left' = left
      PROVE  OgmSlotsAccounted'
  <2>1. pkt \in [Pkts -> Packet \cup {None}]
    BY <1>1 DEF TypeOK
  <2>2. /\ \A p \in Pkts : pkt[p] # None => pkt'[p] = pkt[p]
        /\ \A p \in Pkts : pkt[p] = None /\ pkt'[p] # None =>
             \E o \in outs : pkt'[p] = NewPacket("ogm", TRUE, i, o)
    BY <1>7, <2>1, ScheduledAdds
  <2>3. \A p \in Pkts : pkt[p] = None /\ pkt'[p] # None => pkt'[p].own
    <3>1. \A o : NewPacket("ogm", TRUE, i, o).own
      BY DEF NewPacket
    <3> QED BY <2>2, <3>1
  <2> QED BY <1>7, <2>2, <2>3, SameSlots DEF SlotHolders, Of, Used
<1>8. ASSUME NEW i \in Ifaces, Enable(i)
      PROVE  OgmSlotsAccounted'
  <2> DEFINE outs == OwnOuts(i, primary', {j \in Ifaces : status'[j] # "off"})
  <2>1. outs \in SUBSET Ifaces
    BY DEF OwnOuts
  <2>2. pkt' \in Scheduled(pkt, i, outs) /\ left' = left
    BY <1>8 DEF Enable
  <2> QED BY <1>7, <2>1, <2>2
<1>9. ASSUME UNCHANGED <<pkt, left>>
      PROVE  OgmSlotsAccounted'
  BY <1>9 DEF OgmSlotsAccounted, Of, Used
<1>10. CASE Purge
  <2>1. ASSUME NEW p \in Pkts, PurgePending(p)
        PROVE  OgmSlotsAccounted'
    <3>1. /\ p \in Used /\ pkt' = [pkt EXCEPT ![p] = None] /\ left' = Returned(p)
      BY <1>1, <2>1 DEF PurgePending, TypeOK
    <3> QED BY <3>1, FreeingReturns
  <2> QED BY <1>9, <1>10, <2>1 DEF Purge, PurgeWait, PurgeMiss, PurgeWaited, PurgeNextList, PurgeEnd
<1>11. CASE Work
  <2>1. ASSUME NEW p \in Pkts, NEW r, pkt[p] \in Packet, pkt[p] # None, r \in Packet,
               r.kind = pkt[p].kind, r.own = pkt[p].own,
               pkt' = [pkt EXCEPT ![p] = r], left' = left
        PROVE  OgmSlotsAccounted'
    <3>1. pkt'[p] = r /\ \A q \in Pkts \ {p} : pkt'[q] = pkt[q]
      BY <1>1, <2>1 DEF TypeOK
    <3> QED BY <1>4, <2>1, <3>1, NoneAssumption
  <2>2. ASSUME NEW p \in Pkts, Fire(p)
        PROVE  OgmSlotsAccounted'
    <3> DEFINE r == [pkt[p] EXCEPT !.armed = FALSE]
    <3>1. pkt[p] # None /\ pkt[p] \in Packet
      BY <1>1, <2>2, HeldIsPacket DEF Fire, Used
    <3>2. r \in Packet /\ r.kind = pkt[p].kind /\ r.own = pkt[p].own
      BY <3>1 DEF Packet
    <3>3. pkt' = [pkt EXCEPT ![p] = r] /\ left' = left
      BY <2>2 DEF Fire
    <3> HIDE DEF r
    <3> QED BY <2>1, <3>1, <3>2, <3>3
  <2>3. ASSUME Unlink
        PROVE  OgmSlotsAccounted'
    <3> DEFINE p == worker.p
               r == [pkt[p] EXCEPT !.listed = FALSE]
    <3>1. p \in Pkts /\ pkt[p] # None /\ pkt[p] \in Packet
      BY <1>2, <2>3 DEF Unlink, Used
    <3>2. r \in Packet /\ r.kind = pkt[p].kind /\ r.own = pkt[p].own
      BY <3>1 DEF Packet
    <3>3. pkt' = [pkt EXCEPT ![p] = r] /\ left' = left
      BY <2>3 DEF Unlink
    <3> HIDE DEF r, p
    <3> QED BY <2>1, <3>1, <3>2, <3>3
  <2>4. ASSUME SendBcast
        PROVE  OgmSlotsAccounted'
    <3> DEFINE p == worker.p
    <3>1. p \in Used /\ p \in Pkts /\ pkt[p] # None /\ pkt[p] \in Packet /\ pkt[p].kind = "bcast"
      BY <1>2, <2>4 DEF SendBcast, Used
    <3>2. CASE pkt' = [pkt EXCEPT ![p] = None] /\ left' = [left EXCEPT !["bcast"] = @ + 1]
      BY <3>1, <3>2, FreeingReturns
    <3>3. CASE /\ pkt' = [pkt EXCEPT ![p].num = @ + 1, ![p].listed = TRUE, ![p].armed = ~Canceling(p)]
               /\ left' = left
      <4>1. \A q \in Pkts \ {p} : pkt'[q] = pkt[q]
        BY <1>1, <3>3 DEF TypeOK
      <4>2. pkt'[p].kind = "bcast"
        BY <1>1, <3>1, <3>3 DEF TypeOK, Packet
      <4> QED BY <3>1, <3>3, <4>1, <4>2, SameSlots DEF SlotHolders, Of, Used
    <3> QED BY <2>4, <3>2, <3>3 DEF SendBcast
  <2>5. ASSUME QueueNext
        PROVE  OgmSlotsAccounted'
    <3> DEFINE outs == OwnOuts(pkt[worker.p].in, primary, {j \in Ifaces : status[j] # "off"})
    <3>1. pkt[worker.p].in \in Ifaces /\ outs \in SUBSET Ifaces
      BY <1>2, <2>5 DEF QueueNext, Packet, OwnOuts
    <3>2. pkt' \in Scheduled(pkt, pkt[worker.p].in, outs) /\ left' = left
      BY <2>5 DEF QueueNext
    <3> QED BY <1>7, <3>1, <3>2
  <2>6. ASSUME FreeOgm
        PROVE  OgmSlotsAccounted'
    <3>1. /\ worker.p \in Used /\ left' = Returned(worker.p)
          /\ pkt' = [pkt EXCEPT ![worker.p] = None]
      BY <1>2, <2>6 DEF FreeOgm
    <3> QED BY <3>1, FreeingReturns
  <2> QED BY <1>9, <1>11, <2>2, <2>3, <2>4, <2>5, <2>6 DEF Work, SendOgm
<1>12. CASE MeshFree \/ \E i \in Ifaces : Disable(i)
  BY <1>9, <1>12 DEF MeshFree, Disable
<1> QED BY <1>5, <1>6, <1>8, <1>10, <1>11, <1>12 DEF Next

\* The slots that are left and the OGMs of neighbours that are held add up to
\* the length of the queue (batman_queue_left), also when memory runs short.
THEOREM SlotsAccounted == Spec => []OgmSlotsAccounted
<1>1. Init => OgmSlotsAccounted
  <2> SUFFICES ASSUME Init PROVE OgmSlotsAccounted
    OBVIOUS
  <2>1. Of("ogm") = {} /\ left["ogm"] = OgmSlots
    BY DEF Init, Of, Used, Kinds
  <2>2. {p \in Of("ogm") : ~pkt[p].own} = {}
    BY <2>1
  <2> QED BY <2>1, <2>2, FS_EmptySet, ForwAssumption DEF OgmSlotsAccounted
<1>2. ForwInv /\ OgmSlotsAccounted /\ [Next]_vars => OgmSlotsAccounted'
  <2>1. OgmSlotsAccounted /\ UNCHANGED vars => OgmSlotsAccounted'
    BY DEF OgmSlotsAccounted, Of, Used, vars
  <2> QED BY <2>1, SlotsStep
<1> QED BY <1>1, <1>2, ForwInvHolds, PTL DEF Spec

-----------------------------------------------------------------------------
(* The own OGM of every interface                                          *)

\* Packet p is the original of the own OGM of interface i, and not yet done.
KeepsOgm(p, i) ==
  /\ p \in Of("ogm") /\ pkt[p].own /\ pkt[p].in = i /\ pkt[p].out = i
  /\ pkt[p].armed \/ (Running(p) /\ worker.at # "free")

LEMMA OwnOgmKeepers ==
  OwnOgmKept <=> \A i \in Ifaces : status[i] = "on" => \E p \in Pkts : KeepsOgm(p, i)
BY DEF OwnOgmKept, KeepsOgm, Of, Used

LEMMA OwnOgmStep ==
  ASSUME ForwInv, OwnOgmKept, Next, ~AllocFails
  PROVE  OwnOgmKept'
<1> SUFFICES ASSUME NEW i \in Ifaces, status'[i] = "on"
             PROVE  \E p \in Pkts : KeepsOgm(p, i)'
  BY DEF OwnOgmKept, KeepsOgm, Of, Used
<1>1. TypeOK /\ WorkerInv /\ PurgerInv
  BY DEF ForwInv
<1>2. worker # None => worker.p \in Used /\ worker.p \in Pkts /\ pkt[worker.p] \in Packet /\ worker \in WorkerStates
  BY <1>1, HeldIsPacket DEF TypeOK
<1>3. status[i] = "on" => \E p \in Pkts : KeepsOgm(p, i)
  BY OwnOgmKeepers
\* The packet that keeps the OGM is not touched.
<1>4. ASSUME NEW p \in Pkts, KeepsOgm(p, i), pkt'[p] # None, pkt'[p].kind = pkt[p].kind,
             pkt'[p].own = pkt[p].own, pkt'[p].in = pkt[p].in, pkt'[p].out = pkt[p].out,
             \/ pkt'[p].armed
             \/ /\ pkt'[p].armed = pkt[p].armed
                /\ Running(p) /\ worker.at # "free" => Running(p)' /\ worker'.at # "free"
      PROVE  KeepsOgm(p, i)'
  BY <1>4 DEF KeepsOgm, Of, Used
<1>5. ASSUME NEW p \in Pkts, KeepsOgm(p, i), pkt'[p] = pkt[p], worker' = worker
      PROVE  KeepsOgm(p, i)'
  BY <1>5 DEF KeepsOgm, Of, Used, Running
\* The packet that keeps the OGM is held, and an OGM.
<1>6. ASSUME NEW p \in Pkts, KeepsOgm(p, i)
      PROVE  p \in Used /\ pkt[p] # None /\ pkt[p] \in Packet /\ pkt[p].kind = "ogm"
  BY <1>1, <1>6, HeldIsPacket DEF KeepsOgm, Of, Used
<1>7. ASSUME NEW p \in Pkts, AddBcast(p)
      PROVE  \E q \in Pkts : KeepsOgm(q, i)'
  <2>1. status' = status /\ worker' = worker /\ pkt[p] = None
    BY <1>7 DEF AddBcast, Alloc, Fresh
  <2>2. PICK own \in BOOLEAN : pkt' = [pkt EXCEPT ![p] = NewPacket("bcast", own, primary, None)]
    BY <1>7 DEF AddBcast
  <2>3. \A q \in Pkts \ {p} : pkt'[q] = pkt[q]
    BY <1>1, <2>2 DEF TypeOK
  <2> QED BY <1>3, <1>5, <1>6, <2>1, <2>3
<1>8. ASSUME NEW j \in Ifaces, NEW o \in Ifaces, ForwardOgm(j, o)
      PROVE  \E q \in Pkts : KeepsOgm(q, i)'
  <2>1. status' = status /\ worker' = worker
    BY <1>8 DEF ForwardOgm
  <2>2. PICK q \in Pkts : KeepsOgm(q, i)
    BY <1>3, <2>1
  <2>3. CASE \E p \in Used : pkt' = [pkt EXCEPT ![p].num = @ + 1]
    <3>1. PICK p \in Used : pkt' = [pkt EXCEPT ![p].num = @ + 1]
      BY <2>3
    <3>2. p \in Pkts /\ pkt[p] \in Packet
      BY <1>1, HeldIsPacket
    <3>3. CASE q # p
      BY <1>1, <1>5, <2>1, <2>2, <3>1, <3>3 DEF TypeOK
    <3>4. CASE q = p
      <4>1. [pkt[p] EXCEPT !.num = pkt[p].num + 1] \in Packet
        BY <3>2 DEF Packet
      <4>2. pkt'[p] = [pkt[p] EXCEPT !.num = pkt[p].num + 1]
        BY <1>1, <3>1, <3>2 DEF TypeOK
      <4>3. /\ pkt'[p] # None /\ pkt'[p].kind = pkt[p].kind /\ pkt'[p].own = pkt[p].own
            /\ pkt'[p].in = pkt[p].in /\ pkt'[p].out = pkt[p].out /\ pkt'[p].armed = pkt[p].armed
        BY <3>2, <4>1, <4>2, NoneAssumption DEF Packet
      <4>4. Running(p)' <=> Running(p)
        BY <2>1 DEF Running
      <4> QED BY <1>4, <2>1, <2>2, <3>4, <4>3, <4>4
    <3> QED BY <3>3, <3>4
  <2>4. CASE \E p \in Alloc : pkt' = [pkt EXCEPT ![p] = NewPacket("ogm", FALSE, j, o)]
    <3>1. PICK p \in Alloc : pkt' = [pkt EXCEPT ![p] = NewPacket("ogm", FALSE, j, o)]
      BY <2>4
    <3>2. p \in Pkts /\ pkt[p] = None /\ \A r \in Pkts \ {p} : pkt'[r] = pkt[r]
      BY <1>1, <3>1 DEF Alloc, Fresh, TypeOK
    <3> QED BY <1>5, <1>6, <2>1, <2>2, <3>2
  <2> QED BY <1>8, <2>3, <2>4 DEF ForwardOgm
\* The new own OGMs: those of i itself, or of another interface.
<1>9. ASSUME NEW j \in Ifaces, NEW outs \in SUBSET Ifaces, pkt' \in Scheduled(pkt, j, outs)
      PROVE  /\ \A q \in Used : pkt'[q] = pkt[q]
             /\ j = i /\ i \in outs => \E q \in Pkts : KeepsOgm(q, i)'
  <2>1. pkt \in [Pkts -> Packet \cup {None}] /\ pkt' \in Scheduled(pkt, j, outs)
    BY <1>1, <1>9 DEF TypeOK
  <2>2. \A q \in Used : pkt'[q] = pkt[q]
    <3>1. \A q \in Pkts : pkt[q] # None => pkt'[q] = pkt[q]
      BY <2>1, ScheduledAdds
    <3> QED BY <3>1 DEF Used
  <2>3. ASSUME j = i, i \in outs
        PROVE  \E q \in Pkts : KeepsOgm(q, i)'
    <3>1. PICK q \in Pkts : pkt'[q] = NewPacket("ogm", TRUE, j, i)
      BY <2>1, <2>3, ScheduledServes
    <3>2. NewPacket("ogm", TRUE, i, i) \in Packet
      BY DEF NewPacket, Packet, Kinds
    <3>3. /\ NewPacket("ogm", TRUE, i, i).kind = "ogm" /\ NewPacket("ogm", TRUE, i, i).own
          /\ NewPacket("ogm", TRUE, i, i).in = i /\ NewPacket("ogm", TRUE, i, i).out = i
          /\ NewPacket("ogm", TRUE, i, i).armed
      BY DEF NewPacket
    <3> QED BY <2>3, <3>1, <3>2, <3>3, NoneAssumption DEF KeepsOgm, Of, Used
  <2> QED BY <2>2, <2>3
<1>10. ASSUME NEW j \in Ifaces, Enable(j)
       PROVE  \E q \in Pkts : KeepsOgm(q, i)'
  <2> DEFINE outs == OwnOuts(j, primary', {x \in Ifaces : status'[x] # "off"})
  <2>1. outs \in SUBSET Ifaces
    BY DEF OwnOuts
  <2>2. pkt' \in Scheduled(pkt, j, outs) /\ worker' = worker /\ status' = [status EXCEPT ![j] = "on"]
    BY <1>10 DEF Enable
  <2>3. CASE i = j
    <3>1. i \in outs
      BY <2>3 DEF OwnOuts
    <3> QED BY <1>9, <2>1, <2>2, <2>3, <3>1
  <2>4. CASE i # j
    <3>1. status[i] = "on"
      BY <1>1, <2>2, <2>4 DEF TypeOK
    <3>2. PICK q \in Pkts : KeepsOgm(q, i)
      BY <1>3, <3>1
    <3>3. pkt'[q] = pkt[q]
      BY <1>6, <1>9, <2>1, <2>2, <3>2
    <3> QED BY <1>5, <2>2, <3>2, <3>3
  <2> QED BY <2>3, <2>4
<1>11. ASSUME UNCHANGED <<pkt, worker>>, status[i] = "on"
       PROVE  \E q \in Pkts : KeepsOgm(q, i)'
  BY <1>3, <1>5, <1>11
\* A packet is freed that is not the one that keeps the OGM.
<1>12. ASSUME NEW p \in Pkts, pkt' = [pkt EXCEPT ![p] = None], status[i] = "on",
              ~KeepsOgm(p, i),
              \A q \in Pkts \ {p} : Running(q) => worker' = worker
       PROVE  \E q \in Pkts : KeepsOgm(q, i)'
  <2>1. PICK q \in Pkts : KeepsOgm(q, i)
    BY <1>3, <1>12
  <2>2. q # p /\ pkt'[q] = pkt[q] /\ pkt[q] # None
    BY <1>1, <1>6, <1>12, <2>1 DEF TypeOK
  <2>3. CASE Running(q)
    BY <1>5, <1>12, <2>1, <2>2, <2>3
  <2>4. CASE ~Running(q)
    BY <1>4, <2>1, <2>2, <2>4 DEF KeepsOgm
  <2> QED BY <2>3, <2>4
<1>13. CASE Purge
  <2>1. ASSUME NEW p \in Pkts, PurgePending(p)
        PROVE  \E q \in Pkts : KeepsOgm(q, i)'
    <3>1. /\ purger # None /\ p \in purger.todo
          /\ pkt' = [pkt EXCEPT ![p] = None] /\ status' = status /\ worker' = worker
      BY <2>1 DEF PurgePending
    <3>2. ~KeepsOgm(p, i)
      <4>1. active
        BY <1>1, <3>1 DEF PurgerInv
      <4>2. status[purger.iface] = "leaving" /\ purger.iface \in {pkt[p].in, pkt[p].out}
        BY <1>1, <3>1, <4>1 DEF PurgerInv
      <4> QED BY <3>1, <4>2 DEF KeepsOgm
    <3> QED BY <1>12, <3>1, <3>2
  <2>2. ASSUME PurgeEnd
        PROVE  \E q \in Pkts : KeepsOgm(q, i)'
    <3>1. status[i] = "on" /\ UNCHANGED <<pkt, worker>>
      BY <2>2 DEF PurgeEnd
    <3> QED BY <1>11, <3>1
  <2> QED BY <1>11, <1>13, <2>1, <2>2 DEF Purge, PurgeWait, PurgeMiss, PurgeWaited, PurgeNextList
<1>14. CASE Work
  <2>1. status' = status /\ active' = active
    BY <1>14 DEF Work, Fire, Unlink, SendBcast, SendOgm, QueueNext, FreeOgm
  <2>2. PICK q \in Pkts : KeepsOgm(q, i)
    BY <1>3, <2>1
  <2>3. ASSUME NEW p \in Pkts, Fire(p)
        PROVE  \E r \in Pkts : KeepsOgm(r, i)'
    <3>1. /\ worker = None /\ worker' = [p |-> p, at |-> "start"] /\ p \in Used /\ pkt[p] \in Packet
          /\ pkt' = [pkt EXCEPT ![p].armed = FALSE]
      BY <1>1, <2>3, HeldIsPacket DEF Fire
    <3>2. CASE q # p
      <4>1. pkt'[q] = pkt[q] /\ ~Running(q)
        BY <1>1, <3>1, <3>2 DEF TypeOK, Running
      <4> QED BY <1>4, <1>6, <2>2, <4>1 DEF KeepsOgm
    <3>3. CASE q = p
      <4>1. worker' # None
        <5>1. worker' \in WorkerStates
          BY <3>1 DEF WorkerStates
        <5> QED BY <5>1, NoneAssumption
      <4>2. Running(p)' /\ worker'.at # "free"
        BY <3>1, <4>1 DEF Running
      <4>3. [pkt[p] EXCEPT !.armed = FALSE] \in Packet
        BY <3>1 DEF Packet
      <4>4. pkt'[p] = [pkt[p] EXCEPT !.armed = FALSE]
        BY <1>1, <3>1 DEF TypeOK
      <4>5. /\ pkt'[p] # None /\ pkt'[p].kind = pkt[p].kind /\ pkt'[p].own = pkt[p].own
            /\ pkt'[p].in = pkt[p].in /\ pkt'[p].out = pkt[p].out
        <5> DEFINE now == [pkt[p] EXCEPT !.armed = FALSE]
        <5>1. /\ now # None /\ now.kind = pkt[p].kind /\ now.own = pkt[p].own
              /\ now.in = pkt[p].in /\ now.out = pkt[p].out
          BY <3>1, <4>3, NoneAssumption DEF Packet
        <5> HIDE DEF now
        <5>2. pkt'[p] = now
          BY <4>4 DEF now
        <5> QED BY <5>1, <5>2
      <4> QED BY <2>2, <3>3, <4>2, <4>5 DEF KeepsOgm, Of, Used
    <3> QED BY <3>2, <3>3
  <2>4. ASSUME Unlink
        PROVE  \E r \in Pkts : KeepsOgm(r, i)'
    <3> DEFINE p == worker.p
    <3>1. /\ worker # None /\ worker \in WorkerStates /\ worker.at = "start" /\ p \in Pkts
          /\ pkt[p] \in Packet /\ pkt' = [pkt EXCEPT ![p].listed = FALSE]
          /\ worker' = [worker EXCEPT !.at = "send"]
      BY <1>2, <2>4 DEF Unlink
    <3>2. worker' # None /\ worker'.p = worker.p /\ worker'.at = "send"
      BY <3>1, NoneAssumption DEF WorkerStates
    <3>3. Running(q) => Running(q)' /\ worker'.at # "free"
      BY <3>2 DEF Running
    <3>4. CASE q # p
      <4>1. pkt'[q] = pkt[q]
        BY <1>1, <3>1, <3>4 DEF TypeOK
      <4> QED BY <1>4, <1>6, <2>2, <3>3, <4>1
    <3>5. CASE q = p
      <4>1. [pkt[p] EXCEPT !.listed = FALSE] \in Packet
        BY <3>1 DEF Packet
      <4>2. pkt'[p] = [pkt[p] EXCEPT !.listed = FALSE]
        BY <1>1, <3>1 DEF TypeOK
      <4>3. /\ pkt'[p] # None /\ pkt'[p].kind = pkt[p].kind /\ pkt'[p].own = pkt[p].own
            /\ pkt'[p].in = pkt[p].in /\ pkt'[p].out = pkt[p].out /\ pkt'[p].armed = pkt[p].armed
        <5> DEFINE now == [pkt[p] EXCEPT !.listed = FALSE]
        <5>1. /\ now # None /\ now.kind = pkt[p].kind /\ now.own = pkt[p].own
              /\ now.in = pkt[p].in /\ now.out = pkt[p].out /\ now.armed = pkt[p].armed
          BY <3>1, <4>1, NoneAssumption DEF Packet
        <5> HIDE DEF now
        <5>2. pkt'[p] = now
          BY <4>2 DEF now
        <5> QED BY <5>1, <5>2
      <4> QED BY <1>4, <2>2, <3>3, <3>5, <4>3
    <3> QED BY <3>4, <3>5
  <2>5. ASSUME SendBcast
        PROVE  \E r \in Pkts : KeepsOgm(r, i)'
    <3>1. /\ worker # None /\ worker.p \in Pkts /\ pkt[worker.p].kind = "bcast"
          /\ \A x \in Pkts \ {worker.p} : pkt'[x] = pkt[x]
      BY <1>1, <1>2, <2>5 DEF SendBcast, TypeOK
    <3>2. q # worker.p
      BY <1>6, <2>2, <3>1
    <3>3. pkt'[q] = pkt[q] /\ ~Running(q)
      BY <3>1, <3>2 DEF Running
    <3> QED BY <1>4, <1>6, <2>2, <3>3 DEF KeepsOgm
  <2>6. ASSUME SendOgm
        PROVE  \E r \in Pkts : KeepsOgm(r, i)'
    <3>1. /\ worker # None /\ worker \in WorkerStates /\ pkt' = pkt
          /\ worker' = [worker EXCEPT !.at = IF Reschedules(worker.p) THEN "next" ELSE "free"]
      BY <1>2, <2>6 DEF SendOgm
    <3>2. /\ worker' # None /\ worker'.p = worker.p
          /\ Reschedules(worker.p) => worker'.at = "next"
      BY <3>1, NoneAssumption DEF WorkerStates
    <3>3. active
      BY <1>1, <2>1 DEF PurgerInv
    <3>4. Running(q) => Reschedules(worker.p)
      BY <2>1, <2>2, <3>3 DEF KeepsOgm, Running, Reschedules
    <3>5. Running(q) => Running(q)' /\ worker'.at # "free"
      BY <3>2, <3>4 DEF Running
    <3> QED BY <1>4, <1>6, <2>2, <3>1, <3>5
  <2>7. ASSUME QueueNext
        PROVE  \E r \in Pkts : KeepsOgm(r, i)'
    <3> DEFINE j == pkt[worker.p].in
               outs == OwnOuts(j, primary, {x \in Ifaces : status[x] # "off"})
    <3>1. worker # None /\ j \in Ifaces /\ outs \in SUBSET Ifaces
      BY <1>2, <2>7 DEF QueueNext, Packet, OwnOuts
    <3>2. pkt' \in Scheduled(pkt, j, outs)
      BY <2>7 DEF QueueNext
    <3>3. CASE Running(q)
      <4>1. j = i
        BY <2>2, <3>3 DEF KeepsOgm, Running
      <4>2. i \in outs
        BY <2>1, <4>1 DEF OwnOuts
      <4> HIDE DEF j, outs
      <4> QED BY <1>9, <3>1, <3>2, <4>1, <4>2
    <3>4. CASE ~Running(q)
      <4>1. pkt'[q] = pkt[q]
        <5> HIDE DEF j, outs
        <5> QED BY <1>6, <1>9, <2>2, <3>1, <3>2
      <4> QED BY <1>4, <1>6, <2>2, <3>4, <4>1
    <3> QED BY <3>3, <3>4
  <2>8. ASSUME FreeOgm
        PROVE  \E r \in Pkts : KeepsOgm(r, i)'
    <3>1. /\ worker # None /\ worker.p \in Pkts /\ worker.at = "free"
          /\ pkt' = [pkt EXCEPT ![worker.p] = None]
      BY <1>2, <2>8 DEF FreeOgm
    <3>2. ~KeepsOgm(worker.p, i)
      BY <1>1, <3>1 DEF KeepsOgm, WorkerInv
    <3>3. \A x \in Pkts \ {worker.p} : ~Running(x)
      BY DEF Running
    <3> QED BY <1>12, <2>1, <3>1, <3>2, <3>3
  <2> QED BY <1>14, <2>3, <2>4, <2>5, <2>6, <2>7, <2>8 DEF Work
<1>15. CASE MeshFree \/ \E j \in Ifaces : Disable(j)
  <2>1. UNCHANGED <<pkt, worker>> /\ status[i] = "on"
    BY <1>1, <1>15 DEF MeshFree, Disable, TypeOK
  <2> QED BY <1>11, <2>1
<1> QED BY <1>7, <1>8, <1>10, <1>13, <1>14, <1>15 DEF Next

\* While memory for own OGMs is found, every interface in use has the original
\* of its own OGM queued or in the worker's hands: it is heard of again
\* (OwnOgmKept), and types and slots are kept (ForwConsistent).
THEOREM ForwIsConsistent ==
  ASSUME ~AllocFails
  PROVE  Spec => []ForwConsistent
<1>1. Init => OwnOgmKept
  BY DEF Init, OwnOgmKept
<1>2. ForwInv /\ OwnOgmKept /\ [Next]_vars => OwnOgmKept'
  <2>1. OwnOgmKept /\ UNCHANGED vars => OwnOgmKept'
    BY DEF OwnOgmKept, Of, Used, Running, vars
  <2> QED BY <2>1, OwnOgmStep
<1>3. Spec => []OwnOgmKept
  BY <1>1, <1>2, ForwInvHolds, PTL DEF Spec
<1>4. TypeOK /\ OgmSlotsAccounted /\ OwnOgmKept => ForwConsistent
  BY DEF ForwConsistent
<1> QED BY <1>3, <1>4, TypeCorrect, SlotsAccounted, PTL
================================================================================

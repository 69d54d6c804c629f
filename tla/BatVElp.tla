-------------------------------- MODULE BatVElp --------------------------------
(***************************************************************************)
(* ELP, the neighbour discovery of B.A.T.M.A.N. V (bat_v_elp.c), on one    *)
(* interface.  A delayed work sends an ELP packet and queues, for every    *)
(* neighbour, a work that measures the link; both run on the single thread *)
(* of bat_events.  Measuring an Ethernet link takes the rtnl lock, which   *)
(* user space holds while it adds or removes the interface.                *)
(***************************************************************************)
EXTENDS Integers, Sequences, FiniteSets

ElpSeqs == INSTANCE SequencesExt

CONSTANTS
  ElpNeighbours,
  ElpKinds,       \* what measuring can meet: subset of ElpAllKinds
  ElpSeqMod,      \* wrap of sequence numbers
  ElpMaxAge,      \* BATADV_ELP_MAX_AGE
  ElpTimeout      \* BATADV_PURGE_TIMEOUT, in packets missed

ElpAllKinds == {"override", "station", "ethtool", "no_ethtool", "no_wifi"}

ASSUME ElpAssumption ==
  /\ IsFiniteSet(ElpNeighbours) /\ {"none", "periodic"} \cap ElpNeighbours = {}
  /\ ElpKinds \subseteq ElpAllKinds
  /\ {ElpSeqMod, ElpMaxAge, ElpTimeout} \subseteq Nat
  /\ 2 * (ElpTimeout + 2) <= ElpSeqMod

VARIABLES
  elpUsed,     \* the interface is in use: if_status, soft_iface
  elpSkb,      \* elp_skb is allocated
  elpTimer,    \* the timer of elp_wq runs
  elpQueue,    \* bat_events: "periodic" and neighbours to be measured
  elpRun,      \* the thread: [work, at]
  elpRtnl,     \* holder of the rtnl lock
  elpUser,     \* where the removal of the interface is
  elpNeigh,    \* neighbour -> hardif_neigh [here (a neigh_node has it), latest, refs, missed]
  elpWarned,   \* BATADV_WARNING_DEFAULT
  elpSent,     \* neighbour -> sequence number it sends next
  elpDeaf,     \* history: packets of a neighbour ignored in a row
  elpBadUse    \* history: soft_iface used after it was taken away

elpVars == <<elpUsed, elpSkb, elpTimer, elpQueue, elpRun, elpRtnl, elpUser, elpNeigh,
             elpWarned, elpSent, elpDeaf, elpBadUse>>

ElpIdle == [work |-> "none", at |-> "none"]
NoNeigh == [here |-> FALSE, latest |-> 0, refs |-> 0, missed |-> 0]

\* One reference less; the hardif_neigh goes with the last one.
neigh_put(neigh, here) ==
  IF neigh.refs = 1 THEN NoNeigh ELSE [neigh EXCEPT !.refs = @ - 1, !.here = here]

ElpInit ==
  /\ elpUsed = FALSE /\ elpSkb = FALSE /\ elpTimer = FALSE
  /\ elpQueue = <<>> /\ elpRun = ElpIdle
  /\ elpRtnl = "none" /\ elpUser = "none"
  /\ elpNeigh = [n \in ElpNeighbours |-> NoNeigh]
  /\ elpWarned = FALSE
  /\ elpSent = [n \in ElpNeighbours |-> 1]
  /\ elpDeaf = [n \in ElpNeighbours |-> 0]
  /\ elpBadUse = FALSE

ElpSeqDiff(a, b) == ((a - b + ElpSeqMod \div 2) % ElpSeqMod) - ElpSeqMod \div 2
Queued(work) == \E i \in DOMAIN elpQueue : elpQueue[i] = work

-----------------------------------------------------------------------------
(* The thread of bat_events *)

TimerFires ==
  /\ elpTimer
  /\ elpTimer' = FALSE
  /\ elpQueue' = Append(elpQueue, "periodic")
  /\ UNCHANGED <<elpUsed, elpSkb, elpRun, elpRtnl, elpUser, elpNeigh, elpWarned, elpSent,
                 elpDeaf, elpBadUse>>

ThreadTakes ==
  /\ elpRun = ElpIdle /\ elpQueue # <<>>
  /\ elpRun' = [work |-> Head(elpQueue), at |-> "begin"]
  /\ elpQueue' = Tail(elpQueue)
  /\ UNCHANGED <<elpUsed, elpSkb, elpTimer, elpRtnl, elpUser, elpNeigh, elpWarned, elpSent,
                 elpDeaf, elpBadUse>>

\* Mutant: the timer is started first, and the next run may overtake the works.
periodic_restarts_early(at) == at = "begin"

\* v_elp_start_timer is the last thing the periodic work does.
periodic_restarts(at) == at = "send"

\* The timer is not started again while the work is being cancelled.
StartTimer(at) == IF periodic_restarts(at) /\ elpUser # "cancel" THEN TRUE ELSE elpTimer

periodic_begins ==
  /\ elpRun = [work |-> "periodic", at |-> "begin"]
  /\ elpRun' = IF elpUsed THEN [elpRun EXCEPT !.at = "send"] ELSE ElpIdle
  /\ elpTimer' = IF elpUsed THEN StartTimer("begin") ELSE elpTimer
  /\ UNCHANGED <<elpUsed, elpSkb, elpQueue, elpRtnl, elpUser, elpNeigh, elpWarned, elpSent,
                 elpDeaf, elpBadUse>>

\* The interface is not active yet, or the packet cannot be copied: the timer is
\* started and nothing sent.
periodic_skips ==
  /\ elpRun = [work |-> "periodic", at |-> "begin"] /\ elpUsed
  /\ elpTimer' = (elpTimer \/ elpUser # "cancel")
  /\ elpRun' = ElpIdle
  /\ UNCHANGED <<elpUsed, elpSkb, elpQueue, elpRtnl, elpUser, elpNeigh, elpWarned, elpSent,
                 elpDeaf, elpBadUse>>

\* A reference is taken for every work; queue_work queues it unless it is queued.
\* The neighbours that come after a failed probe are left out.
periodic_sends(probed) ==
  LET here == {n \in probed : elpNeigh[n].refs > 0}
  IN
  /\ elpRun = [work |-> "periodic", at |-> "send"]
  /\ \E order \in ElpSeqs!SetToSeqs({n \in here : ~Queued(n)}) : elpQueue' = elpQueue \o order
  /\ elpNeigh' = [n \in ElpNeighbours |->
       IF n \in here THEN [elpNeigh[n] EXCEPT !.refs = @ + 1] ELSE elpNeigh[n]]
  /\ elpTimer' = StartTimer("send")
  /\ elpRun' = ElpIdle
  /\ UNCHANGED <<elpUsed, elpSkb, elpRtnl, elpUser, elpWarned, elpSent, elpDeaf, elpBadUse>>

\* v_elp_get_throughput: only ethtool needs the rtnl lock.
metric_begins(n, kind) ==
  LET locks == kind \in {"ethtool", "no_ethtool"}
  IN
  /\ elpRun = [work |-> n, at |-> "begin"]
  /\ locks => elpRtnl = "none"
  /\ elpRun' = [elpRun EXCEPT !.at = kind]
  /\ elpRtnl' = IF locks THEN "work" ELSE elpRtnl
  /\ UNCHANGED <<elpUsed, elpSkb, elpTimer, elpQueue, elpUser, elpNeigh, elpWarned, elpSent,
                 elpDeaf, elpBadUse>>

\* The default throughput is warned about once, with a message of soft_iface;
\* the work gives its reference back.  The last one frees the neighbour.
metric_ends(n, kind) ==
  LET defaults == kind \in {"no_ethtool", "no_wifi"}
  IN
  /\ elpRun = [work |-> n, at |-> kind]
  /\ elpRun' = ElpIdle
  /\ elpRtnl' = IF elpRtnl = "work" THEN "none" ELSE elpRtnl
  /\ elpWarned' = (elpWarned \/ defaults)
  /\ elpBadUse' = (elpBadUse \/ (defaults /\ ~elpWarned /\ ~elpUsed))
  /\ elpNeigh' = [elpNeigh EXCEPT ![n] = neigh_put(@, @.here)]
  /\ UNCHANGED <<elpUsed, elpSkb, elpTimer, elpQueue, elpUser, elpSent, elpDeaf>>

-----------------------------------------------------------------------------
(* User space *)

\* v_iface_enable: a new packet, the timer and the flags; allocation may fail.
v_iface_enable ==
  /\ elpRtnl = "none" /\ ~elpUsed /\ elpUser = "none"
  /\ elpUsed' = TRUE /\ elpSkb' = TRUE /\ elpTimer' = TRUE /\ elpWarned' = FALSE
  /\ UNCHANGED <<elpQueue, elpRun, elpRtnl, elpUser, elpNeigh, elpSent, elpDeaf, elpBadUse>>

\* hardif_disable_interface takes the lock; cancel_delayed_work_sync stops the
\* timer and takes the work from the queue.
v_iface_disable ==
  /\ elpRtnl = "none" /\ elpUsed
  /\ elpRtnl' = "user" /\ elpUser' = "cancel"
  /\ elpTimer' = FALSE
  /\ IF Queued("periodic")
     THEN \E i \in DOMAIN elpQueue :
            elpQueue[i] = "periodic" /\ elpQueue' = ElpSeqs!RemoveAt(elpQueue, i)
     ELSE UNCHANGED elpQueue
  /\ UNCHANGED <<elpUsed, elpSkb, elpRun, elpNeigh, elpWarned, elpSent, elpDeaf, elpBadUse>>

\* Mutant: cancel_delayed_work without _sync.
cancel_done_at_once == TRUE

cancel_done == elpRun.work # "periodic"

\* It waits for a run of the work to end; then elp_skb is freed, the
\* interface out of use and its neighbours purged.
v_iface_disabled ==
  /\ elpUser = "cancel" /\ cancel_done
  /\ elpUser' = "none" /\ elpRtnl' = "none"
  /\ elpUsed' = FALSE /\ elpSkb' = FALSE
  /\ elpNeigh' = [n \in ElpNeighbours |->
       IF elpNeigh[n].here THEN neigh_put(elpNeigh[n], FALSE) ELSE elpNeigh[n]]
  /\ elpDeaf' = [n \in ElpNeighbours |-> 0]
  /\ UNCHANGED <<elpTimer, elpQueue, elpRun, elpWarned, elpSent, elpBadUse>>

-----------------------------------------------------------------------------
(* Packets *)

\* Mutant: any sequence number that is not newer is old.
elp_is_old_ever(diff) == diff < 1

elp_is_old(diff) == diff < 1 /\ diff > -ElpMaxAge

\* v_elp_neigh_update: a neighbour that is not there is created, with number 0.
elp_packet_recv(n) ==
  LET old == elp_is_old(ElpSeqDiff(elpSent[n], elpNeigh[n].latest))
  IN
  /\ elpUsed
  /\ elpNeigh' = [elpNeigh EXCEPT ![n] =
       [here |-> TRUE, refs |-> IF @.here THEN @.refs ELSE @.refs + 1,
        latest |-> IF old THEN @.latest ELSE elpSent[n],
        missed |-> IF old THEN @.missed ELSE 0]]
  /\ elpDeaf' = [elpDeaf EXCEPT ![n] = IF old THEN @ + 1 ELSE 0]
  /\ elpSent' = [elpSent EXCEPT ![n] = (@ + 1) % ElpSeqMod]
  /\ UNCHANGED <<elpUsed, elpSkb, elpTimer, elpQueue, elpRun, elpRtnl, elpUser, elpWarned,
                 elpBadUse>>

\* A packet of n is lost, for the ElpTimeout-th time in a row: n is purged
\* (by orig_work, on the same thread).
ElpLost(n) ==
  LET neigh == elpNeigh[n]
      gone == neigh.missed >= ElpTimeout
  IN
  /\ elpNeigh[n].here
  /\ gone => elpRun = ElpIdle
  /\ elpNeigh' = [elpNeigh EXCEPT ![n] =
       IF gone THEN neigh_put([neigh EXCEPT !.missed = 0], FALSE)
       ELSE [neigh EXCEPT !.missed = neigh.missed + 1]]
  /\ elpDeaf' = IF gone THEN [elpDeaf EXCEPT ![n] = 0] ELSE elpDeaf
  /\ elpSent' = [elpSent EXCEPT ![n] = (@ + 1) % ElpSeqMod]
  /\ UNCHANGED <<elpUsed, elpSkb, elpTimer, elpQueue, elpRun, elpRtnl, elpUser, elpWarned,
                 elpBadUse>>

\* A neighbour restarts with a random sequence number.
ElpRestarts(n, seq) ==
  /\ elpSent[n] # seq /\ elpDeaf[n] = 0
  /\ elpSent' = [elpSent EXCEPT ![n] = seq]
  /\ UNCHANGED <<elpUsed, elpSkb, elpTimer, elpQueue, elpRun, elpRtnl, elpUser, elpNeigh,
                 elpWarned, elpDeaf, elpBadUse>>

ElpNext ==
  \/ TimerFires
  \/ ThreadTakes
  \/ periodic_begins
  \/ periodic_skips
  \/ \E probed \in SUBSET ElpNeighbours : periodic_sends(probed)
  \/ \E n \in ElpNeighbours, k \in ElpKinds : metric_begins(n, k) \/ metric_ends(n, k)
  \/ v_iface_enable
  \/ v_iface_disable
  \/ v_iface_disabled
  \/ \E n \in ElpNeighbours : elp_packet_recv(n) \/ ElpLost(n)
  \/ \E n \in ElpNeighbours, s \in 0..(ElpSeqMod - 1) : ElpRestarts(n, s)

ElpSpec == ElpInit /\ [][ElpNext]_elpVars

-----------------------------------------------------------------------------
(* Properties *)

\* A reference of a neighbour is held by the table, by a work that is queued and
\* by the work that runs, and by nobody else: none is lost when the periodic work
\* comes again before the measurement was made.
ElpRefsBalanced ==
  \A n \in ElpNeighbours :
    elpNeigh[n].refs =
      Cardinality({i \in DOMAIN elpQueue : elpQueue[i] = n})
        + (IF elpRun.work = n THEN 1 ELSE 0) + (IF elpNeigh[n].here THEN 1 ELSE 0)

\* The periodic work finds its packet, whenever the interface is removed.
ElpPacketThere == elpRun = [work |-> "periodic", at |-> "send"] => elpSkb

\* As long as the interface is in use and nobody removes it, exactly one of
\* timer, queue and thread has the periodic work: it neither dies nor doubles.
ElpKeepsGoing ==
  elpUser = "none" =>
    (IF elpTimer THEN 1 ELSE 0) + Cardinality({i \in DOMAIN elpQueue : elpQueue[i] = "periodic"})
      + (IF elpRun.work = "periodic" THEN 1 ELSE 0) = (IF elpUsed THEN 1 ELSE 0)

\* A neighbour that restarts is heard again before BATADV_ELP_MAX_AGE packets.
ElpHeardAgain == \A n \in ElpNeighbours : elpDeaf[n] <= ElpMaxAge

\* The interface still belongs to the mesh when its measurement is reported.
ElpSoftIfaceThere == ~elpBadUse

\* The probing of an interface: references, the packet and the periodic work are
\* right at every step of enabling, removing and measuring, and a neighbour that
\* restarts is heard again.
ElpWorks == ElpRefsBalanced /\ ElpPacketThere /\ ElpKeepsGoing /\ ElpHeardAgain
=============================================================================

------------------------------- MODULE Gateways -------------------------------
(***************************************************************************)
(* The gateway client and server of one node (gateway_client.c,            *)
(* gateway_common.c, the gateway files of sysfs.c).  Gateways announce     *)
(* their bandwidth in their OGMs; a node in client mode selects one and    *)
(* tells user space about it with uevents.                                 *)
(*                                                                         *)
(* Three actors interleave: the packets (Ogm, Route), the worker that      *)
(* purges originators and then holds an election, in four steps, and user  *)
(* space writing the sysfs files, a change of mode in two steps.  The      *)
(* election works on pointers it read before, so a gateway is an object    *)
(* that can be unlinked while it is still pointed at.                      *)
(***************************************************************************)
EXTENDS Integers, Sequences

CONSTANTS
  Gateways, GwNone,
  GwTqs,         \* link qualities a route may have
  GwOffers,      \* [down, up] an OGM may announce
  GwClasses,     \* values user space writes to gw_sel_class
  GwSpeeds,      \* <<value, unit>> user space writes to gw_bandwidth
  GwMaxSpeed,    \* U32_MAX
  GwFirstClass   \* gw_sel_class of a new interface

ASSUME GwAssumption ==
  /\ GwNone \notin Gateways
  /\ GwTqs \subseteq 0..255
  /\ GwOffers \subseteq [down : Nat, up : Nat]
  /\ GwClasses \cup {GwFirstClass} \subseteq 1..255
  /\ GwSpeeds \subseteq Nat \X {"kbit", "mbit"}
  /\ GwMaxSpeed \in Nat

VARIABLES
  gwMode, gwClass, gwReselect,
  gwOwn,        \* bandwidth of this node when it is a gateway
  gwAnnounced,  \* container in the own OGM, {} or one offer
  gwList,       \* gw.list: [orig, down, up], newest first
  gwTq,         \* gateway -> quality of its route, NoRouter
  gwCurr,       \* gw.curr_gw
  gwWork,       \* worker: [at, curr, next]
  gwStore,      \* change of mode under way: [to, event]
  gwView,       \* gateway user space knows of from the events
  gwUp,         \* the mesh interface exists
  gwRaced,      \* history: a removal or a change of mode overlapped an election
  gwHeard,      \* history: gateways heard, with no election going on, since a change
  gwFinal       \* history: an election began after that

gwVars == <<gwMode, gwClass, gwReselect, gwOwn, gwAnnounced, gwList, gwTq,
            gwCurr, gwWork, gwStore, gwView, gwUp, gwRaced, gwHeard, gwFinal>>

GwModes == {"off", "client", "server"}
NoRouter == -1
NoGateway == [orig |-> GwNone, listed |-> FALSE]
GwIdle == [at |-> "idle", curr |-> NoGateway, next |-> NoGateway]
NotStoring == [to |-> "none", event |-> FALSE]
GwDefault == [down |-> 100, up |-> 20]

GwInit ==
  /\ gwMode = "off" /\ gwClass = GwFirstClass /\ gwReselect = 0
  /\ gwOwn = GwDefault /\ gwAnnounced = {}
  /\ gwList = <<>> /\ gwTq = [g \in Gateways |-> NoRouter]
  /\ gwCurr = NoGateway /\ gwWork = GwIdle /\ gwStore = NotStoring
  /\ gwView = GwNone /\ gwUp = TRUE
  /\ gwRaced = FALSE /\ gwHeard = {} /\ gwFinal = FALSE

Electing == gwWork.at \in {"best", "select"}
Listed == {gwList[i].orig : i \in DOMAIN gwList}

\* Something the choice depends on changed.
Changed == gwHeard' = {} /\ gwFinal' = FALSE
SameSettings == UNCHANGED <<gwMode, gwClass, gwOwn, gwAnnounced, gwStore, gwUp>>

-----------------------------------------------------------------------------
(* The list of gateways *)

\* Mutant: the removal of the selected gateway asks for no election.
gw_reselect_if_current_never(removed) == gwReselect

gw_reselect_if_current(removed) ==
  IF gwCurr.listed /\ gwCurr.orig \in removed THEN 1 ELSE gwReselect

\* The object of a removed gateway stays where it is pointed at.
Unlink(gw, removed) ==
  IF gw.orig \in removed THEN [gw EXCEPT !.listed = FALSE] ELSE gw

\* The first i gateways of the list but the removed ones
Left(removed) ==
  LET left[i \in 0..Len(gwList)] ==
        IF i = 0 THEN <<>>
        ELSE IF gwList[i].orig \in removed THEN left[i - 1]
        ELSE Append(left[i - 1], gwList[i])
  IN  left

gw_node_delete(removed) ==
  /\ gwList' = Left(removed)[Len(gwList)]
  /\ gwReselect' = gw_reselect_if_current(removed)
  /\ gwCurr' = Unlink(gwCurr, removed)

gw_node_add(g, offer) ==
  <<[orig |-> g, down |-> offer.down, up |-> offer.up]>> \o gwList

gw_node_set(g, offer) ==
  [i \in DOMAIN gwList |->
    IF gwList[i].orig = g
    THEN [orig |-> g, down |-> offer.down, up |-> offer.up] ELSE gwList[i]]

\* Mutant: only a better gateway than the class asks for, by one too many.
better_by_class_strict(g, curr) ==
  /\ gwTq[g] > gwTq[curr]
  /\ gwClass > 3 => gwTq[g] - gwTq[curr] > gwClass

better_by_class(g, curr) ==
  /\ gwTq[g] >= gwTq[curr]
  /\ gwClass > 3 => gwTq[g] - gwTq[curr] >= gwClass

\* Is an election called for, after an OGM of g?
gw_check_election(g) ==
  \/ gwCurr = NoGateway
  \/ gwTq[gwCurr.orig] = NoRouter
  \/ /\ gwCurr.orig # g
     /\ gwTq[g] # NoRouter
     /\ better_by_class(g, gwCurr.orig)

\* gw_tvlv_ogm_handler_v1: an offer with a zero, or no container, is none.
Ogm(g, o) ==
  LET none == o.down = 0 \/ o.up = 0
  IN
  /\ gwUp
  /\ IF none
     THEN /\ gw_node_delete({g})
          /\ gwWork' = [gwWork EXCEPT !.curr = Unlink(@, {g}), !.next = Unlink(@, {g})]
          /\ gwRaced' = (gwRaced \/ (gwWork.at = "select" /\ gwWork.next.orig = g))
          /\ IF g \in Listed THEN Changed ELSE UNCHANGED <<gwHeard, gwFinal>>
     ELSE /\ gwList' = IF g \in Listed THEN gw_node_set(g, o) ELSE gw_node_add(g, o)
          /\ gwReselect' = IF gwMode = "client" /\ gwClass > 2 /\ gw_check_election(g)
                           THEN 1 ELSE gwReselect
          /\ gwHeard' = IF Electing THEN gwHeard ELSE gwHeard \cup {g}
          /\ gwFinal' = (gwFinal /\ g \in Listed)
          /\ UNCHANGED <<gwCurr, gwWork, gwRaced>>
  /\ SameSettings /\ UNCHANGED <<gwTq, gwView>>

\* The routing protocol finds, loses or measures a route to g.
Route(g, t) ==
  /\ gwUp /\ gwTq[g] # t
  /\ gwTq' = [gwTq EXCEPT ![g] = t]
  /\ Changed
  /\ SameSettings
  /\ UNCHANGED <<gwReselect, gwList, gwCurr, gwWork, gwView, gwRaced>>

-----------------------------------------------------------------------------
(* The worker: purge, then an election *)

\* _batadv_purge_orig: the originators that timed out are no gateways any more.
Purge(gone) ==
  /\ gwUp /\ gwWork.at = "idle"
  /\ gw_node_delete(gone)
  /\ gwTq' = [g \in Gateways |-> IF g \in gone THEN NoRouter ELSE gwTq[g]]
  /\ gwWork' = [GwIdle EXCEPT !.at = "elect"]
  /\ IF gone # {} THEN Changed ELSE UNCHANGED <<gwHeard, gwFinal>>
  /\ SameSettings /\ UNCHANGED <<gwView, gwRaced>>

\* Is there an election?  Reads gw_mode and curr_gw and takes the request.
ElectionBegins ==
  /\ gwUp /\ gwWork.at = "elect"
  /\ IF gwMode = "client" /\ (gwReselect = 1 \/ gwCurr = NoGateway)
     THEN /\ gwWork' = [GwIdle EXCEPT !.at = "best", !.curr = gwCurr]
          /\ gwReselect' = 0
     ELSE /\ gwWork' = GwIdle
          /\ gwReselect' = IF gwMode = "client" THEN 0 ELSE gwReselect
  /\ gwRaced' = (gwRaced \/ gwStore # NotStoring)
  /\ gwFinal' = (gwFinal \/ Listed \subseteq gwHeard)
  /\ SameSettings
  /\ UNCHANGED <<gwList, gwTq, gwCurr, gwView, gwHeard>>

\* (tq * tq * down * 100 * 100) >> 18
gw_factor(gw) == (gwTq[gw.orig] * gwTq[gw.orig] * gw.down * 625) \div (2 ^ 14)

\* One gateway of the list against the best so far.
gw_better(gw, best) ==
  LET tq == gwTq[gw.orig]
      factor == IF gwClass = 1 THEN gw_factor(gw) ELSE 0
      wins == IF gwClass = 1
              THEN \/ factor > best.factor
                   \/ factor = best.factor /\ tq > best.tq
              ELSE tq > best.tq
  IN
  IF tq = NoRouter THEN best
  ELSE [gw |-> IF wins THEN [orig |-> gw.orig, listed |-> TRUE] ELSE best.gw,
        tq |-> IF tq > best.tq THEN tq ELSE best.tq,
        factor |-> IF factor > best.factor THEN factor ELSE best.factor]

\* The best of the first i gateways of the list
BestOf ==
  LET best[i \in 0..Len(gwList)] ==
        IF i = 0 THEN [gw |-> NoGateway, tq |-> 0, factor |-> 0]
        ELSE gw_better(gwList[i], best[i - 1])
  IN  best

gw_get_best_gw_node == BestOf[Len(gwList)].gw

\* The choice and its event, GW_ADD, GW_CHANGE or GW_DEL.
ElectionChooses ==
  LET next == gw_get_best_gw_node
  IN
  /\ gwUp /\ gwWork.at = "best"
  /\ IF gwWork.curr = next
     THEN gwWork' = GwIdle /\ gwView' = gwView
     ELSE /\ gwWork' = [gwWork EXCEPT !.at = "select", !.next = next]
          /\ gwView' = next.orig
  /\ gwRaced' = (gwRaced \/ gwStore # NotStoring)
  /\ SameSettings
  /\ UNCHANGED <<gwReselect, gwList, gwTq, gwCurr, gwHeard, gwFinal>>

\* The route to the chosen gateway is lost before batadv_orig_router_get: the
\* election is put off.
ElectionLosesRoute ==
  LET next == gw_get_best_gw_node
  IN
  /\ gwUp /\ gwWork.at = "best"
  /\ next \notin {gwWork.curr, NoGateway}
  /\ gwTq' = [gwTq EXCEPT ![next.orig] = NoRouter]
  /\ gwReselect' = 1
  /\ gwWork' = GwIdle
  /\ gwRaced' = (gwRaced \/ gwStore # NotStoring)
  /\ Changed
  /\ SameSettings
  /\ UNCHANGED <<gwList, gwCurr, gwView>>

gw_select ==
  /\ gwUp /\ gwWork.at = "select"
  /\ gwCurr' = gwWork.next
  /\ gwWork' = GwIdle
  /\ gwRaced' = (gwRaced \/ gwStore # NotStoring)
  /\ SameSettings
  /\ UNCHANGED <<gwReselect, gwList, gwTq, gwView, gwHeard, gwFinal>>

-----------------------------------------------------------------------------
(* User space *)

\* Mutant: the old mode is tested after it was replaced.
gw_client_stops_late(mode) == mode = "client" /\ gwMode # "client" /\ gwCurr # NoGateway

\* gw_check_client_stop: is there a selected gateway to drop?
gw_client_stops(mode) == gwMode = "client" /\ gwCurr # NoGateway

\* store_gw_mode, as far as the gateway is dropped.
store_gw_mode(mode) ==
  /\ gwUp /\ gwStore = NotStoring /\ gwMode # mode
  /\ gwReselect' = 1
  /\ gwCurr' = IF gw_client_stops(mode) THEN NoGateway ELSE gwCurr
  /\ gwStore' = [to |-> mode, event |-> gw_client_stops(mode)]
  /\ gwRaced' = (gwRaced \/ Electing)
  /\ Changed
  /\ UNCHANGED <<gwMode, gwClass, gwOwn, gwAnnounced, gwList, gwTq, gwWork, gwView, gwUp>>

gw_tvlv_container(mode, own) == IF mode = "server" THEN {own} ELSE {}

\* store_gw_mode from the event on.
store_gw_mode_ends ==
  /\ gwUp /\ gwStore # NotStoring
  /\ gwMode' = gwStore.to
  /\ gwView' = IF gwStore.event THEN GwNone ELSE gwView
  /\ gwAnnounced' = gw_tvlv_container(gwStore.to, gwOwn)
  /\ gwStore' = NotStoring
  /\ gwRaced' = (gwRaced \/ Electing)
  /\ UNCHANGED <<gwClass, gwReselect, gwOwn, gwList, gwTq, gwCurr, gwWork, gwUp,
                 gwHeard, gwFinal>>

store_gw_sel_class(class) ==
  /\ gwUp /\ gwClass # class
  /\ gwClass' = class
  /\ gwReselect' = 1
  /\ Changed
  /\ UNCHANGED <<gwMode, gwOwn, gwAnnounced, gwList, gwTq, gwCurr, gwWork,
                 gwStore, gwView, gwUp, gwRaced>>

\* In units of 100 kbit/s; {} when it does not fit.
parse_throughput(speed) ==
  LET units == IF speed[2] = "mbit" THEN speed[1] * 10 ELSE speed[1] \div 100
  IN  IF units > GwMaxSpeed THEN {} ELSE {units}

\* Mutant: a fifth of a small bandwidth is announced as it is.
default_up_zero(down) == down \div 5

default_up(down) == IF down \div 5 = 0 THEN 1 ELSE down \div 5

\* gw_bandwidth_set with "down" or "down/up" (ups holds at most one speed).
gw_bandwidth_set(down, ups) ==
  \E d \in parse_throughput(down) :
  \E u \in IF ups = {} THEN {0} ELSE UNION {parse_throughput(s) : s \in ups} :
    LET new == [down |-> IF d = 0 THEN 1 ELSE d,
                up   |-> IF u = 0 THEN default_up(IF d = 0 THEN 1 ELSE d) ELSE u]
    IN
    /\ gwUp /\ gwOwn # new
    /\ gwOwn' = new
    /\ gwReselect' = 1
    /\ gwAnnounced' = gw_tvlv_container(gwMode, new)
    /\ UNCHANGED <<gwMode, gwClass, gwList, gwTq, gwCurr, gwWork, gwStore, gwView,
                   gwUp, gwRaced, gwHeard, gwFinal>>

\* hardif_disable_interface of the last interface, and, when the mesh interface
\* goes with it, mesh_free with gw_node_free.
LastInterface(free) ==
  /\ gwUp /\ gwStore = NotStoring
  /\ free => gwWork = GwIdle
  /\ gwCurr' = IF gw_client_stops("off") THEN NoGateway ELSE gwCurr
  /\ gwView' = IF gw_client_stops("off") THEN GwNone ELSE gwView
  /\ gwList' = IF free THEN <<>> ELSE gwList
  /\ gwUp' = ~free
  /\ gwAnnounced' = IF free THEN {} ELSE gwAnnounced
  /\ gwRaced' = (gwRaced \/ Electing)
  /\ Changed
  /\ UNCHANGED <<gwMode, gwClass, gwReselect, gwOwn, gwTq, gwWork, gwStore>>

GwNext ==
  \/ \E g \in Gateways, o \in GwOffers : Ogm(g, o)
  \/ \E g \in Gateways, t \in GwTqs \cup {NoRouter} : Route(g, t)
  \/ \E gone \in SUBSET Gateways : Purge(gone)
  \/ ElectionBegins
  \/ ElectionChooses
  \/ ElectionLosesRoute
  \/ gw_select
  \/ \E m \in GwModes : store_gw_mode(m)
  \/ store_gw_mode_ends
  \/ \E c \in GwClasses : store_gw_sel_class(c)
  \/ \E d \in GwSpeeds : gw_bandwidth_set(d, {}) \/ \E u \in GwSpeeds : gw_bandwidth_set(d, {u})
  \/ \E free \in BOOLEAN : LastInterface(free)

GwSpec == GwInit /\ [][GwNext]_gwVars

-----------------------------------------------------------------------------
(* Properties *)

GwRefs == [orig : Gateways \cup {GwNone}, listed : BOOLEAN]

\* Every variable keeps its type, and a gateway is in the list once.
GwTypeOK ==
  /\ gwMode \in GwModes /\ gwClass \in 1..255 /\ gwReselect \in {0, 1}
  /\ gwOwn.down \in Nat /\ gwOwn.up \in Nat
  /\ gwTq \in [Gateways -> GwTqs \cup {NoRouter}]
  /\ gwCurr \in GwRefs /\ gwWork.curr \in GwRefs /\ gwWork.next \in GwRefs
  /\ gwWork.at \in {"idle", "elect", "best", "select"}
  /\ gwView \in Gateways \cup {GwNone}
  /\ \A i, j \in DOMAIN gwList : gwList[i].orig = gwList[j].orig => i = j
  /\ \A i \in DOMAIN gwList : gwList[i].down # 0

GwQuiet == ~gwRaced /\ gwStore = NotStoring

\* The gateway a client has selected is one that is still announced, or the next
\* election will replace it, unless it was removed between the choice and
\* gw_select of an election, or the mode was changed in there.
GwSelectedIsOffered ==
  GwQuiet /\ gwMode = "client" /\ gwCurr # NoGateway /\ gwWork.at # "select"
    => gwCurr.listed \/ gwReselect = 1 \/ gwWork.at = "best"

\* The events told user space which gateway is selected, and that none is when
\* the client mode is left or the interface removed; same exception.
GwViewIsSelection ==
  /\ GwQuiet /\ gwWork.at # "select" => gwView = gwCurr.orig
  /\ GwQuiet /\ gwMode # "client" => gwCurr = NoGateway

\* Once every gateway was heard and an election held since the last change, a
\* client of class 3 or more has a gateway none of the others is better than by
\* the points the class asks for.
GwWithinClass ==
  /\ GwQuiet /\ gwFinal /\ gwWork.at \in {"idle", "elect"} /\ gwUp
  /\ gwMode = "client" /\ gwClass > 2
  => \A g \in Listed :
       gwTq[g] > 0 =>
         /\ gwCurr # NoGateway
         /\ gwTq[g] - gwTq[gwCurr.orig] < (IF gwClass > 3 THEN gwClass ELSE 1)

\* A server announces itself with a bandwidth a client does not take for a
\* withdrawal, and nobody else announces one.
GwServerIsAnnounced ==
  gwStore = NotStoring /\ gwUp =>
    /\ gwMode = "server" <=> gwAnnounced # {}
    /\ \A o \in gwAnnounced : o = gwOwn /\ o.down > 0 /\ o.up > 0

\* The selection and the announcement of a node: typed, a selected gateway is
\* offered, user space was told of it, and a server is announced.
GwConsistent == GwTypeOK /\ GwSelectedIsOffered /\ GwViewIsSelection /\ GwServerIsAnnounced
=============================================================================

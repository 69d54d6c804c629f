------------------------------ MODULE BisectDb ------------------------------
(***************************************************************************)
(* batctl bisect_iv: the database built from the B.A.T.M.A.N. IV logs of   *)
(* several nodes, and the trace of an OGM (batctl bisect_iv.c).            *)
(*                                                                         *)
(* The nodes write their logs (one line per OGM received and per change of *)
(* a route, as batman-adv does), and the tool reads them into its database *)
(* while they grow: for every node and originator the list of sequence     *)
(* number events and the history of the route, and for every node its last *)
(* routing table.  trace_seqnos builds the tree along which one OGM was    *)
(* flooded; loop_detection is in BisectIv.                                 *)
(*                                                                         *)
(* A node has one interface here: the tool knows a node only by the        *)
(* address of the interface an OGM came in on.  The printed text, options, *)
(* bat-hosts names and failed allocations are left out.                    *)
(***************************************************************************)
EXTENDS Integers, Sequences, FiniteSets

CONSTANTS
  BsNodes,      \* the nodes, which are the originators too
  BsOrigs,      \* the originators whose OGMs are received
  BsSeqs,       \* the sequence numbers of OGMs
  BsMaxLines,   \* bound: lines in all the logs together
  BsMaxHeard    \* bound: receptions of the OGM that is traced

NoHop == "no next hop"
NoHist == 0
Timeout == -1          \* the sequence number of a deletion

ASSUME BsAssumption ==
  /\ NoHop \notin BsNodes /\ BsOrigs \subseteq BsNodes /\ BsOrigs # {}
  /\ BsSeqs \subseteq Nat

VARIABLES
  bsEvents,   \* bsEvents[n][o]: event_list, sequence of [neigh, seqno, hist]
  bsHist,     \* bsHist[n][o]: rt_hist_list, sequence of [next, seqno, flag]
  bsTable,    \* bsTable[n]: entries of the newest rt_table of n
  bsRoute,    \* what the log is about: the next hop of n towards o
  bsLines,    \* lines logged so far
  bsPhase,    \* "log", "flood", "trace" or "done"
  bsFwd,      \* the copies of the traced OGM that n passed on
  bsHeard,    \* the receptions of the traced OGM in the logs
  bsTree      \* the tree: reception -> its parent, for those added

bsLogVars == <<bsEvents, bsHist, bsTable, bsRoute, bsLines>>
bsTraceVars == <<bsFwd, bsHeard, bsTree>>
bsDbVars == <<bsLogVars, bsPhase, bsTraceVars>>

----------------------------------------------------------------------------
(***************************************************************************)
(* The database.                                                           *)
(***************************************************************************)
\* seqno_event_new: the event goes to the end of the list of its originator.
seqno_event_new(n, o, neigh, s) ==
  bsEvents' = [bsEvents EXCEPT ![n][o] = Append(@, [neigh |-> neigh, seqno |-> s, hist |-> NoHist])]

HasEntry(t, o) == \E i \in DOMAIN t : t[i].orig = o

\* The number of entries the new table is given room for (the switch of
\* routing_table_new); an entry deleted by the previous change still counts.
num_entries(t, o, flag) ==
  IF t = <<>> THEN 1
  ELSE IF flag # "add" /\ HasEntry(t, o) THEN Len(t) ELSE Len(t) + 1

Deleted(e) == e.flag = "delete"

\* The entry of o is changed; a deletion leaves its next hop.
changed_entry(e, o, next, flag) ==
  IF e.orig # o THEN [e EXCEPT !.flag = "none"]
  ELSE IF flag = "delete" THEN [e EXCEPT !.flag = flag]
  ELSE [e EXCEPT !.flag = flag, !.next = next]

\* The previous table without what was deleted in it
carried_over(t, o, next, flag) ==
  LET kept[k \in 0 .. Len(t)] ==
        IF k = 0 THEN <<>>
        ELSE IF Deleted(t[k]) THEN kept[k - 1]
        ELSE Append(kept[k - 1], changed_entry(t[k], o, next, flag))
  IN  kept[Len(t)]

\* A plausible slip: the deleted entry is copied like the others.
new_entries_keeps(t, o, next, flag) ==
  LET entry == [orig |-> o, next |-> next, flag |-> flag]
      copied == [i \in DOMAIN t |-> IF t[i].orig = o THEN entry ELSE [t[i] EXCEPT !.flag = "none"]]
  IN  IF HasEntry(t, o) THEN copied ELSE Append(copied, entry)

\* The entries of the new table: when the counts disagree, or there is only
\* one entry, the last one is written for o.
new_entries(t, o, next, flag) ==
  LET copied == carried_over(t, o, next, flag)
      num    == num_entries(t, o, flag) - Cardinality({i \in DOMAIN t : Deleted(t[i])})
      entry  == [orig |-> o, next |-> next, flag |-> flag]
  IN  IF num = 1 \/ num # Len(copied)
      THEN [i \in 1 .. num |-> IF i = num THEN entry ELSE copied[i]]
      ELSE copied

\* routing_table_new: a change of the route of n to o.  A deletion gets an
\* event of its own, without a sequence number; any other change belongs to
\* the last event of that originator.
routing_table_new(n, o, next, flag) ==
  LET timeout == flag = "delete" /\ bsTable[n] # <<>>
      events  == IF timeout
                 THEN Append(bsEvents[n][o], [neigh |-> NoHop, seqno |-> Timeout, hist |-> NoHist])
                 ELSE bsEvents[n][o]
      hist    == Append(bsHist[n][o], [next |-> next, seqno |-> events[Len(events)].seqno, flag |-> flag])
  IN  IF bsEvents[n][o] = <<>> \/ (timeout /\ ~HasEntry(bsTable[n], o))
      THEN UNCHANGED <<bsEvents, bsHist, bsTable>>
      ELSE /\ bsTable' = [bsTable EXCEPT ![n] = new_entries(@, o, next, flag)]
           /\ bsHist' = [bsHist EXCEPT ![n][o] = hist]
           /\ bsEvents' = [bsEvents EXCEPT ![n][o] = [events EXCEPT ![Len(events)].hist = Len(hist)]]

----------------------------------------------------------------------------
(***************************************************************************)
(* The lines of the logs, as batman-adv writes them.                       *)
(***************************************************************************)
\* "Received BATMAN packet via NB": every copy of an OGM of o is logged before
\* anything about it is checked, its number too.
LogReceived(n, o, neigh, s) ==
  /\ bsPhase = "log" /\ bsLines < BsMaxLines
  /\ neigh # n /\ o # n
  /\ seqno_event_new(n, o, neigh, s)
  /\ bsLines' = bsLines + 1
  /\ UNCHANGED <<bsHist, bsTable, bsRoute, bsPhase, bsTraceVars>>

\* "Adding route towards" and "Changing route towards": an OGM makes the
\* neighbour it came from the router, or a purge takes another neighbour that
\* was heard, without an OGM.
LogRoute(n, o, neigh) ==
  LET events == bsEvents[n][o]
  IN  /\ bsPhase = "log" /\ bsLines < BsMaxLines
      /\ \E i \in DOMAIN events : events[i].neigh = neigh
      /\ neigh # NoHop /\ neigh # bsRoute[n][o]
      /\ bsRoute[n][o] = NoHop => neigh = events[Len(events)].neigh
      /\ routing_table_new(n, o, neigh, IF bsRoute[n][o] = NoHop THEN "add" ELSE "update")
      /\ bsRoute' = [bsRoute EXCEPT ![n][o] = neigh]
      /\ bsLines' = bsLines + 1
      /\ UNCHANGED <<bsPhase, bsTraceVars>>

\* "Deleting route towards": the originator timed out.
LogDelete(n, o) ==
  /\ bsPhase = "log" /\ bsLines < BsMaxLines
  /\ bsRoute[n][o] # NoHop
  /\ routing_table_new(n, o, NoHop, "delete")
  /\ bsRoute' = [bsRoute EXCEPT ![n][o] = NoHop]
  /\ bsLines' = bsLines + 1
  /\ UNCHANGED <<bsPhase, bsTraceVars>>

\* The logs were read, and one of the analyses of BisectIv runs.
EndLog ==
  /\ bsPhase = "log" /\ bsPhase' = "done"
  /\ UNCHANGED <<bsLogVars, bsTraceVars>>

----------------------------------------------------------------------------
(***************************************************************************)
(* trace_seqnos, for one sequence number of the originator o.              *)
(***************************************************************************)
Flooded == CHOOSE o \in BsOrigs : TRUE
Root == <<>>

\* A copy from its best next hop is passed on
\* (passed = {TRUE}); of the originator itself it is passed on, with a mark,
\* also when the best next hop is another (passed = {FALSE}).
batadv_iv_ogm_forward(m, n, passed) ==
  /\ FALSE \in passed => n = Flooded
  /\ bsFwd' = [bsFwd EXCEPT ![m] = @ \cup [prev : {n}, best : passed]]

\* A node receives the copy c of a neighbour and logs where that one had it
\* from.  It may pass the copy on: its own OGM, an echo and a marked copy are
\* dropped, and others for reasons that are not modelled here.
HearOgm(m, n, c, passed) ==
  LET e == [node |-> m, neigh |-> n, prev |-> c.prev]
  IN  /\ bsPhase = "flood" /\ m # n
      /\ e \notin bsHeard /\ Cardinality(bsHeard) < BsMaxHeard
      /\ bsHeard' = bsHeard \cup {e}
      /\ passed # {} => m # Flooded /\ m # c.prev /\ c.best
      /\ batadv_iv_ogm_forward(m, n, passed)
      /\ UNCHANGED <<bsLogVars, bsPhase, bsTree>>

StartTrace ==
  /\ bsPhase = "flood" /\ bsPhase' = "trace"
  /\ UNCHANGED <<bsLogVars, bsFwd, bsHeard, bsTree>>

IsChild(e, f) == e.neigh = f.node /\ e.prev = f.neigh

\* The receptions one comes to from the root.
Reached(tree) ==
  {f \in DOMAIN tree : \A S \in SUBSET DOMAIN tree : f \in S => \E g \in S : tree[g] \notin S}

\* seqno_trace_find_neigh: a reception in the tree that e can be a child of.
seqno_trace_find_neigh(tree, e) ==
  LET found == {f \in Reached(tree) : IsChild(e, f)}
  IN  IF found = {} THEN Root ELSE CHOOSE f \in found : TRUE

\* seqno_trace_check_leaves: the roots that are children of e move under it.
seqno_trace_check_leaves(tree, e) ==
  [f \in DOMAIN tree |-> IF tree[f] = Root /\ IsChild(f, e) THEN e ELSE tree[f]]

\* seqno_trace_add, for the receptions in any order: the logs of the nodes
\* are met in the order of the hash table.
seqno_trace_add(e) ==
  /\ bsPhase = "trace" /\ e \in bsHeard \ DOMAIN bsTree
  /\ bsTree' = seqno_trace_check_leaves(
                 [f \in DOMAIN bsTree \cup {e} |->
                    IF f = e THEN seqno_trace_find_neigh(bsTree, e) ELSE bsTree[f]], e)
  /\ UNCHANGED <<bsLogVars, bsPhase, bsFwd, bsHeard>>

----------------------------------------------------------------------------
BisectDbInit ==
  /\ bsEvents = [n \in BsNodes |-> [o \in BsOrigs |-> <<>>]]
  /\ bsHist = [n \in BsNodes |-> [o \in BsOrigs |-> <<>>]]
  /\ bsTable = [n \in BsNodes |-> <<>>]
  /\ bsRoute = [n \in BsNodes |-> [o \in BsOrigs |-> NoHop]]
  /\ bsLines = 0
  /\ bsPhase \in {"log", "flood"}
  /\ bsFwd = [n \in BsNodes |-> IF n = Flooded THEN {[prev |-> n, best |-> TRUE]} ELSE {}]
  /\ bsHeard = {} /\ bsTree = <<>>

ReadLogs ==
  \/ \E n, m \in BsNodes, o \in BsOrigs, s \in BsSeqs : LogReceived(n, o, m, s)
  \/ \E n, m \in BsNodes, o \in BsOrigs : LogRoute(n, o, m)
  \/ \E n \in BsNodes, o \in BsOrigs : LogDelete(n, o)

Trace ==
  \/ \E m, n \in BsNodes : \E c \in bsFwd[n], passed \in {{}, {TRUE}, {FALSE}} :
        HearOgm(m, n, c, passed)
  \/ StartTrace
  \/ \E e \in bsHeard : seqno_trace_add(e)

BisectDbNext == ReadLogs \/ EndLog \/ Trace
BisectDbSpec == BisectDbInit /\ [][BisectDbNext]_bsDbVars

----------------------------------------------------------------------------
(***************************************************************************)
(* Properties.                                                             *)
(***************************************************************************)
\* The table the tool shows of a node (routing_table_new, bisect_iv.c:192) is
\* the routing table the node had: after every line of its log the entries
\* that are not marked as deleted are exactly its routes, each once, whatever
\* was added, changed and deleted in between.
BisectTableIsRoutes ==
  \A n \in BsNodes :
    LET t    == bsTable[n]
        live == {i \in DOMAIN t : ~Deleted(t[i])}
    IN  /\ {<<t[i].orig, t[i].next>> : i \in live}
             = {<<o, bsRoute[n][o]>> : o \in {p \in BsOrigs : bsRoute[n][p] # NoHop}}
        /\ \A i, j \in live : t[i].orig = t[j].orig => i = j

\* No node changed its route to the originator between two copies of the OGM.
RoutesSteady ==
  \A n \in BsNodes : \A c, d \in bsFwd[n] : c.best /\ d.best => c = d

\* Whatever the order in which the receptions of an OGM are met
\* (seqno_trace_add, bisect_iv.c:1214), a reception hangs only under one that
\* the neighbour can have passed on.  If no route to the originator changed
\* meanwhile, it hangs as soon as such a one is known, and from every reception
\* one comes up to a root: receptions that hang on each other in a circle would
\* be neither printed nor freed (seqno_trace_neigh_free).  Which of two copies
\* that a node had of one neighbour it passed on, the logs do not say.
BisectTraceIsFlood ==
  /\ \A e \in DOMAIN bsTree :
       bsTree[e] # Root => bsTree[e] \in DOMAIN bsTree /\ IsChild(e, bsTree[e])
  /\ RoutesSteady =>
       /\ Reached(bsTree) = DOMAIN bsTree
       /\ \A e, f \in DOMAIN bsTree : IsChild(e, f) => bsTree[e] # Root

\* What the tool shows of the logs, before any analysis: routing tables and the
\* flow of an OGM.
BisectDatabase == BisectTableIsRoutes /\ BisectTraceIsFlood
=============================================================================

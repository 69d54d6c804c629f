------------------------------- MODULE MCTools -------------------------------
(* Programs around the kernel module, for TLC.  They share nothing; a         *)
(* behaviour belongs to one part:                                             *)
(*   store   the file database of the web-admin, POSTs one at a time;         *)
(*   edit    the wireless dialog of the topology page;                        *)
(*   tables  batctl bisect_iv reads the log of a node about two originators;  *)
(*   loops   it looks for loops in logs of four nodes about one originator,   *)
(*           in which every OGM changes the route;                            *)
(*   flood   it draws the flow of an OGM through four nodes.                  *)
EXTENDS GobDB, WirelessEdit, BisectIv, TLC

CONSTANTS a, b, c, d
CONSTANT MaxTableLines   \* bound: lines in the logs of "tables"
VARIABLE part

\* The values are only compared for equality; dialogs and database share them.
Symmetry == Permutations(Values)

\* The hash table of the nodes is walked in this order.
NodeOrder == <<a, b, c, d>>

\* Logs for "tables": the log of b about the originators it hears through two
\* neighbours.
OneLog ==
  /\ bsLines < MaxTableLines
  /\ \E o \in BsOrigs : \/ \E m \in BsOrigs : LogRoute(b, o, m) \/ \E s \in BsSeqs : LogReceived(b, o, m, s)
                        \/ LogDelete(b, o)

\* Logs for "loops".  A line of one node changes nothing of the others, so the
\* logs are read one after the other.
Pending(n) == bsEvents[n][d] # <<>> /\ bsEvents[n][d][Len(bsEvents[n][d])].hist = NoHist
EveryOgmARoute ==
  \E i \in DOMAIN NodeOrder :
    LET n == NodeOrder[i]
    IN  /\ \A j \in i + 1 .. Len(NodeOrder) : bsEvents[NodeOrder[j]][d] = <<>>
        /\ \A m \in BsNodes \ {n} : ~Pending(m)
        /\ \/ \E m \in BsNodes, s \in BsSeqs :
                ~Pending(n) /\ m # bsRoute[n][d] /\ LogReceived(n, d, m, s)
           \/ \E m \in BsNodes :
                Pending(n) /\ m = bsEvents[n][d][Len(bsEvents[n][d])].neigh /\ LogRoute(n, d, m)

ToolsInit ==
  /\ part \in {"store", "edit", "tables", "loops", "flood"}
  /\ Init /\ WirelessInit /\ BisectInit
  /\ part # "store" =>
       located /\ entry = None /\ \A r \in Requests : req[r] = [method |-> "GET", body |-> Zero]
  /\ bsPhase = "flood" <=> part = "flood"

ToolsNext ==
  \/ part = "store" /\ SerialNext /\ UNCHANGED <<wirelessVars, bsVars, part>>
  \/ part = "edit" /\ WirelessNext /\ UNCHANGED <<vars, bsVars, part>>
  \/ part = "tables" /\ OneLog /\ UNCHANGED <<vars, wirelessVars, bsOut, part>>
  \/ part = "loops" /\ EveryOgmARoute /\ UNCHANGED <<vars, wirelessVars, bsOut, part>>
  \/ /\ part = "loops" /\ \A n \in BsNodes : ~Pending(n)
     /\ Detect /\ UNCHANGED <<vars, wirelessVars, part>>
  \/ part = "flood" /\ Trace /\ UNCHANGED <<vars, wirelessVars, bsOut, part>>

ToolsSpec == ToolsInit /\ [][ToolsNext]_<<vars, wirelessVars, bsVars, part>>
==============================================================================

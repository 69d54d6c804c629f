------------------------------- MODULE MCRoutes -------------------------------
(* The routes towards an originator and the packets that try them out, for    *)
(* TLC.  They share no state here; a behaviour belongs to one part:           *)
(*   ogm     reception of OGMs of B.A.T.M.A.N. IV, with restarts, and no OGM  *)
(*           in hand while neighbours are purged;                             *)
(*   race    OGMs handled while neighbours are purged, in any interleaving;   *)
(*           the originator does not restart, and all OGMs have the long ttl; *)
(*   icmp    batctl ping and traceroute, and the kernel's side of them.       *)
EXTENDS BatIvOgm, MeshIcmp

CONSTANTS p1, p2, ShortTtl
VARIABLE part

\* A traceroute and a ping that records the route.
ToolKind == [c \in IcClients |-> IF c = p1 THEN "traceroute" ELSE "ping_rr"]

RoutesInit ==
  /\ part \in {"ogm", "race", "icmp"}
  /\ OgmInit /\ IcmpInit

\* The bounds of the two parts.
OneByOne ==
  \/ hand.step = "idle" /\ hand'.step = "idle"
  \/ purge = "idle" /\ purge' = "idle"
NoRestart == ~guarded' /\ hand'.ttl # ShortTtl

RoutesNext ==
  \/ part = "ogm" /\ OgmNext /\ OneByOne /\ UNCHANGED <<icVars, part>>
  \/ part = "race" /\ OgmNext /\ NoRestart /\ UNCHANGED <<icVars, part>>
  \/ part = "icmp" /\ IcmpNext /\ UNCHANGED <<ogmVars, part>>

RoutesSpec == RoutesInit /\ [][RoutesNext]_<<ogmVars, icVars, part>>
===============================================================================

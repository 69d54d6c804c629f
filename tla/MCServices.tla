----------------------------- MODULE MCServices -----------------------------
(* Services of a mesh node for the frames of its clients, for TLC.  They     *)
(* share no state here; a behaviour belongs to one part:                     *)
(*   bla    bridge loop avoidance;                                           *)
(*   gw     gateways;                                                        *)
(*   dat    the distributed ARP table;                                       *)
(*   ring   the choice of the nodes that store an address;                   *)
(*   mcast  multicast.                                                       *)
EXTENDS BridgeLoopAvoidance, Gateways, DistributedArp, DatRing, Multicast, TLC

CONSTANTS g1, n1, n2, n3, d1, d2, d3, ipA, ipB
VARIABLE part

\* Two backbone gateways that start in different groups and may merge.
TwoGroups == [g \in Gws |-> IF g = g1 THEN 1 ELSE 2]
AllMates == Gws \X Gws

\* What a gateway may announce, and what an administrator may write.
SomeOffers == {[down |-> 0, up |-> 0], [down |-> 40, up |-> 2]}
SomeSpeeds == {<<1, "kbit">>, <<99, "mbit">>}

\* One client on each node; the third node, which stores both addresses, is
\* between the others.
DatLine == (n1 :> {n3}) @@ (n2 :> {n3}) @@ (n3 :> {n1, n2})
ClientAt == (d1 :> n1) @@ (d2 :> n2) @@ (d3 :> n3)
StoredAt == [k \in DatNodes \X DatIps |-> {n3} \ {k[1]}]
FirstOwner == (ipA :> d1) @@ (ipB :> d2)

\* The order in which the hash table of originators is walked.
OneWalk == {<<3, 1, 5, 2, 6, 4>>}

ServicesInit ==
  /\ part \in {"bla", "gw", "dat", "ring", "mcast"}
  /\ BlaInit /\ GwInit /\ DatInit /\ RingInit /\ McInit
  /\ part # "ring" =>
       /\ \A o \in RingNodes : ringAddr[o] = 0
       /\ ringKey = 0
       /\ \A i \in {1, 2} : Cardinality(ringSel[i].knows) = Cardinality(RingNodes) - 1

ServicesNext ==
  \/ part = "bla" /\ BlaNext /\ UNCHANGED <<gwVars, datVars, ringVars, mcVars, part>>
  \/ part = "gw" /\ GwNext /\ UNCHANGED <<blaVars, datVars, ringVars, mcVars, part>>
  \/ part = "dat" /\ DatNext /\ UNCHANGED <<blaVars, gwVars, ringVars, mcVars, part>>
  \/ part = "ring" /\ RingNext /\ UNCHANGED <<blaVars, gwVars, datVars, mcVars, part>>
  \/ part = "mcast" /\ McNext /\ UNCHANGED <<blaVars, gwVars, datVars, ringVars, part>>

ServicesSpec ==
  ServicesInit /\ [][ServicesNext]_<<blaVars, gwVars, datVars, ringVars, mcVars, part>>
=============================================================================

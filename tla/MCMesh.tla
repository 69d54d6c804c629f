-------------------------------- MODULE MCMesh --------------------------------
(* Parts of batman-adv that carry and rate frames between nodes, for TLC.     *)
(* They share no state here; a behaviour belongs to one part:                 *)
(*   tq      the metric of B.A.T.M.A.N. IV;                                   *)
(*   v_ogm   OGMs of B.A.T.M.A.N. V;                                          *)
(*   v_elp   probes of B.A.T.M.A.N. V;                                        *)
(*   frag    fragmentation;                                                   *)
(*   nc      network coding.                                                  *)
EXTENDS TqMetric, BatVOgm, BatVElp, Fragmentation, NetworkCoding, TLC

CONSTANTS alice, bob, carol, relay, pkt1, pkt2
VARIABLE part

SomeCounts == {0, 1, 2, 32, 33, 63, 64}

\* The originator and two nodes that hear it and each other.
Triangle == {{alice, bob}, {alice, carol}, {bob, carol}}

\* Alice and Bob, who only hear relay, send each other one packet.
Relay == (alice :> {relay}) @@ (relay :> {alice, bob}) @@ (bob :> {relay})
ViaRelay == [k \in NcNodes \X NcNodes |-> IF k[1] = relay THEN k[2] ELSE relay]
PacketSrc == (pkt1 :> alice) @@ (pkt2 :> bob)
PacketDst == (pkt1 :> bob) @@ (pkt2 :> alice)
PacketBlocks == (pkt1 :> 1) @@ (pkt2 :> 2)
EqualTq == [n \in NcNodes |-> 200]
RelayOgms == {<<relay, alice, alice>>, <<relay, bob, bob>>}

MeshInit ==
  /\ part \in {"tq", "v_ogm", "v_elp", "frag", "nc"}
  /\ Init /\ VInit /\ ElpInit /\ FragInit /\ NcInit

MeshNext ==
  \/ part = "tq" /\ Next /\ UNCHANGED <<vVars, elpVars, fragVars, ncVars, part>>
  \/ part = "v_ogm" /\ VNext /\ UNCHANGED <<vars, elpVars, fragVars, ncVars, part>>
  \/ part = "v_elp" /\ ElpNext /\ UNCHANGED <<vars, vVars, fragVars, ncVars, part>>
  \/ part = "frag" /\ FragNext /\ UNCHANGED <<vars, vVars, elpVars, ncVars, part>>
  \/ part = "nc" /\ NcNext /\ UNCHANGED <<vars, vVars, elpVars, fragVars, part>>

MeshSpec == MeshInit /\ [][MeshNext]_<<vars, vVars, elpVars, fragVars, ncVars, part>>
===============================================================================

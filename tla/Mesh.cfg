\* IV metric: packet counts at the edges.  V: a triangle, one interface.  Fragments: two or three per
\* packet, two buckets, numbers that wrap.  Coding: two packets cross at a relay, one fault.
SPECIFICATION MeshSpec
CONSTANTS
  alice = alice
  bob = bob
  carol = carol
  relay = relay
  pkt1 = pkt1
  pkt2 = pkt2
  Counts <- SomeCounts
  HopPenalties = {1, 30}
  VNodes = {alice, bob, carol}
  VOrig = alice
  VNone = none
  VLinks <- Triangle
  VTps = {8, 40}
  VHalfDuplex = {carol}
  VHopPenalty = 30
  VMaxTp = 100
  VTtl = 3
  VSeqMod = 16
  VSeqs = {12}
  VFirst = 1
  VOrigDiff = 2
  VMaxAge = 5
  VSeqRange = 6
  VMaxOgms = 3
  VMaxChanges = 1
  ElpNeighbours = {carol}
  ElpKinds = {"override", "ethtool", "no_ethtool"}
  ElpSeqMod = 16
  ElpMaxAge = 4
  ElpTimeout = 1
  FragSize = 2
  MaxFragments = 4
  Buckets = 2
  SeqMod = 4
  StartSeq = 1
  Lens = {3, 5}
  FragWindow = 1
  MaxPkts = 5
  AllocFails = FALSE
  NcNodes = {alice, relay, bob}
  NcNeighbours <- Relay
  NcNextHop <- ViaRelay
  NcPackets = {pkt1, pkt2}
  NcSrc <- PacketSrc
  NcDst <- PacketDst
  NcBlocks <- PacketBlocks
  NcTq <- EqualTq
  NcOgms <- RelayOgms
  NcTicking = {relay}
  FwdDelay = 1
  BufferTime = 2
  Late = 5
  PathFactor = 2
  NcMaxFaults = 1
INVARIANTS
  StrictlyWorse
  MoreEchoesNeverWorse
  VRoutesSound
  ElpWorks
  FragDeliversAsSent
  CompleteIsDelivered
  NcDeliveredIsSent
  NcForwardsAll
CHECK_DEADLOCK FALSE

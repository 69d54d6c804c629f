\* Two backbone gateways and a client, one frame lost; two gateways on offer; three nodes with a
\* client each and two addresses, one fault; six nodes on the hash ring; two other originators.
SPECIFICATION ServicesSpec
CONSTANTS
  g1 = g1
  n1 = n1
  n2 = n2
  n3 = n3
  d1 = d1
  d2 = d2
  d3 = d3
  ipA = ipA
  ipB = ipB
  Gws = {g1, g2}
  Clients = {c1}
  NoGw = NoGw
  GroupOf <- TwoGroups
  Mates <- AllMates
  BackboneTimeout = 3
  ClaimTimeout = 8
  WaitPeriods = 2
  MaxFrames = 2
  MaxLost = 1
  MaxToggles = 1
  SettlePeriods = 7
  Gateways = {h1, h2}
  GwNone = none
  GwTqs = {100, 120}
  GwOffers <- SomeOffers
  GwClasses = {1, 20}
  GwSpeeds <- SomeSpeeds
  GwMaxSpeed = 900
  GwFirstClass = 20
  DatNodes = {n1, n2, n3}
  DatClients = {d1, d2, d3}
  DatIps = {ipA, ipB}
  DatNoMac = DatNoMac
  DatAt <- ClientAt
  DatHears <- DatLine
  DatCandidates <- StoredAt
  DatFirst <- FirstOwner
  DatTimeout = 1
  DatRequests = {1, 2}
  DatMaxFaults = 1
  RingNodes = {1, 2, 3, 4, 5, 6}
  RingSize = 4
  RingWalks <- OneWalk
  CandidatesNum = 2
  RingMissing = 1
  McOrigs = {h1, h2}
  McGroups = {grp}
INVARIANTS
  BlaConsistent
  BlaSettles
  GwConsistent
  GwWithinClass
  DatAnswers
  RingWorks
  McReachesListeners
CHECK_DEADLOCK FALSE

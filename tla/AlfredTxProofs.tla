---------------------------- MODULE AlfredTxProofs ----------------------------
(***************************************************************************)
(* Theorems about AlfredTx, for any number of clients, of unasked           *)
(* transactions, of versions and of packets in a version.                   *)
(***************************************************************************)
EXTENDS AlfredTx, FiniteSetTheorems, TLAPS

-----------------------------------------------------------------------------
(* Operators *)

Part == [seqno : Slots, ver : Versions]

LEMMA TxNumbers ==
  /\ MaxVersion \in Nat /\ 1 \in Versions
  /\ \A v \in Versions : v \in 1..MaxVersion /\ Count[v] \in Nat
  /\ \A v \in Versions : 0..(Count[v] - 1) \subseteq Slots
<1>1. \A v \in Versions : 0..(Count[v] - 1) \subseteq Slots
  BY DEF Slots
<1> QED BY <1>1, TxAssumption, SMT

LEMMA IdKinds ==
  /\ Clients \subseteq Ids /\ Pushes \subseteq Ids
  /\ \A id \in Ids : id \in Clients \/ id \in Pushes
  /\ \A c \in Clients : c \notin Pushes
BY TxAssumption DEF Ids

\* As many different numbers as there are is all of them.
LEMMA AllNumbersThere ==
  ASSUME NEW n \in Nat, NEW had,
         \A q \in had : q.seqno \in 0..(n - 1),
         \A q, r \in had : q.seqno = r.seqno => q = r,
         Cardinality(had) = n
  PROVE  \A i \in 0..(n - 1) : \E q \in had : q.seqno = i
<1> DEFINE T == 0..(n - 1)
           f == [q \in had |-> q.seqno]
<1>1. IsFiniteSet(T) /\ Cardinality(T) = n
  <2>1. 0 \in Int /\ n - 1 \in Int
    OBVIOUS
  <2>2. IsFiniteSet(T) /\ Cardinality(T) = IF 0 > n - 1 THEN 0 ELSE (n - 1) - 0 + 1
    BY <2>1, FS_Interval
  <2> QED BY <2>2
<1>2. f \in Injection(had, T)
  BY DEF Injection, IsInjective
<1> HIDE DEF f, T
<1>3. f \in Surjection(had, T)
  BY <1>1, <1>2, FS_Injection
<1>4. \A i \in T : \E q \in had : f[q] = i
  BY <1>3 DEF Surjection
<1> QED BY <1>4 DEF f, T

\* Packet p belongs to a transaction that carries version v.
Carries(p, v) ==
  IF p.kind = "data" THEN p.ver = v /\ p.seqno \in 0..(Count[v] - 1)
  ELSE p.seqno = Count[v]

LEMMA PacketType ==
  \A p \in Packet :
    /\ p.id \in Ids
    /\ p.kind = "data" => p.seqno \in Slots /\ p.ver \in Versions
                          /\ [seqno |-> p.seqno, ver |-> p.ver] \in Part
BY DEF Packet, Part

LEMMA PushType ==
  ASSUME version \in Versions, NEW id \in Ids
  PROVE  /\ PushPackets(id) \subseteq Packet
         /\ \A p \in PushPackets(id) : p.id = id /\ Carries(p, version)
<1>1. \A i \in 0..(Count[version] - 1) : i \in Slots
  BY TxNumbers
<1>2. Count[version] \in {Count[v] : v \in Versions}
  OBVIOUS
<1> QED BY <1>1, <1>2 DEF PushPackets, Packet, Carries

\* A complete transaction of version v leaves all of v.
LEMMA AppliedIsWhole ==
  ASSUME NEW had, NEW v \in Versions,
         \A q \in had : q \in Part /\ q.ver = v /\ q.seqno \in 0..(Count[v] - 1),
         Cardinality(had) = Count[v]
  PROVE  Whole(v, TxApplied(had))
<1>1. \A q, r \in had : q.seqno = r.seqno => q = r
  BY DEF Part
<1>2. \A i \in 0..(Count[v] - 1) : \E q \in had : q.seqno = i
  BY <1>1, TxNumbers, AllNumbersThere
<1>3. ASSUME NEW i \in 0..(Count[v] - 1)
      PROVE  TxApplied(had)[i] = v
  <2> DEFINE q == CHOOSE q \in had : q.seqno = i
  <2>1. q \in had /\ q.seqno = i
    BY <1>2
  <2>2. TxApplied(had)[i] = q.ver
    BY <1>2, TxNumbers DEF TxApplied
  <2> QED BY <2>1, <2>2
<1> QED BY <1>3 DEF Whole

-----------------------------------------------------------------------------
(* Types, and a transaction for every client that waits *)

ClientState ==
  [state : {"new", "waiting", "data", "error"}, asked : 0..MaxVersion,
   got : [Slots -> 0..MaxVersion] \cup {NoTx}]

TxTyped == TxTypeOK /\ client \in [Clients -> ClientState] /\ WaitingIsTracked

LEMMA ClientTyped ==
  ASSUME client \in [Clients -> ClientState]
  PROVE  \A c \in Clients :
           /\ client[c].state \in {"new", "waiting", "data", "error"}
           /\ client[c].asked \in 0..MaxVersion
           /\ client[c].got \in [Slots -> 0..MaxVersion] \cup {NoTx}
BY DEF ClientState

LEMMA HeadType ==
  ASSUME TxTypeOK
  PROVE  /\ heads \in [Ids -> (SUBSET Part) \cup {NoTx}]
         /\ \A h \in SUBSET Part : h # NoTx
BY TxAssumption DEF TxTypeOK, Part

LEMMA InitTyped == TxInit => TxTyped
<1> SUFFICES ASSUME TxInit PROVE TxTyped
  OBVIOUS
<1>1. client \in [Clients -> ClientState]
  BY TxNumbers DEF TxInit, ClientState
<1>2. 0 \in 0..MaxVersion /\ 0 \in 0..MaxRequests /\ 0 \in 0..TxMaxSwitches
  BY TxNumbers, TxAssumption
<1>3. TxTypeOK
  <2>1. /\ version \in Versions /\ used \subseteq Pushes /\ txNet \subseteq Packet
        /\ requests \in [Clients -> 0..MaxRequests]
        /\ txMaster \in BOOLEAN /\ txSwitches \in 0..TxMaxSwitches
    BY <1>2, TxNumbers DEF TxInit
  <2>2. heads \in [Ids -> (SUBSET [seqno : Slots, ver : Versions]) \cup {NoTx}]
    BY DEF TxInit
  <2>3. stored \in [Slots -> 0..MaxVersion]
    BY <1>2 DEF TxInit
  <2> QED BY <1>1, <2>1, <2>2, <2>3, ClientTyped DEF TxTypeOK
<1>4. WaitingIsTracked
  BY DEF TxInit, WaitingIsTracked
<1> QED BY <1>1, <1>3, <1>4 DEF TxTyped

\* unix_sock_req_data_finish at most ends the waiting of its client.
LEMMA FinishType ==
  ASSUME TxTyped, NEW id \in Ids, NEW finished \in BOOLEAN,
         stored' \in [Slots -> 0..MaxVersion], client' = ReqDataFinish(id, finished)
  PROVE  /\ client' \in [Clients -> ClientState]
         /\ \A c \in Clients :
              \/ client'[c] = client[c] /\ (c = id => client[c].state # "waiting")
              \/ /\ c = id /\ client[c].state = "waiting"
                 /\ client'[c].asked = client[c].asked
                 /\ IF finished THEN /\ client'[c].state = "data"
                                     /\ client'[c].got = stored'
                    ELSE client'[c].state = "error"
<1>1. client \in [Clients -> ClientState]
  BY DEF TxTyped
<1>2. CASE ~Waits(id)
  BY <1>1, <1>2 DEF ReqDataFinish, Waits
<1>3. CASE Waits(id) /\ finished
  <2>1. id \in Clients /\ client[id].state = "waiting"
    BY <1>3 DEF Waits
  <2>2. client' = [client EXCEPT ![id].state = "data", ![id].got = stored']
    BY <1>3 DEF ReqDataFinish
  <2>3. client[id] \in ClientState
    BY <1>1, <2>1
  <2>4. [client[id] EXCEPT !.state = "data", !.got = stored'] \in ClientState
    BY <2>3 DEF ClientState
  <2>5. client' = [client EXCEPT ![id] = [client[id] EXCEPT !.state = "data",
                                                            !.got = stored']]
    BY <1>1, <2>1, <2>2
  <2>6. /\ client'[id].state = "data" /\ client'[id].got = stored'
        /\ client'[id].asked = client[id].asked
    BY <1>1, <2>1, <2>3, <2>5 DEF ClientState
  <2> QED BY <1>1, <1>3, <2>1, <2>4, <2>5, <2>6
<1>4. CASE Waits(id) /\ ~finished
  <2>1. id \in Clients /\ client[id].state = "waiting"
    BY <1>4 DEF Waits
  <2>2. client' = [client EXCEPT ![id].state = "error"]
    BY <1>4 DEF ReqDataFinish
  <2>3. client[id] \in ClientState
    BY <1>1, <2>1
  <2>4. [client[id] EXCEPT !.state = "error"] \in ClientState
    BY <2>3 DEF ClientState
  <2>5. client' = [client EXCEPT ![id] = [client[id] EXCEPT !.state = "error"]]
    BY <1>1, <2>1, <2>2
  <2>6. client'[id].state = "error" /\ client'[id].asked = client[id].asked
    BY <1>1, <2>1, <2>3, <2>5 DEF ClientState
  <2> QED BY <1>1, <1>4, <2>1, <2>4, <2>5, <2>6
<1> QED BY <1>2, <1>3, <1>4

\* What a new client asks: answered at once, or its transaction opens.
LEMMA AskType ==
  ASSUME TxTyped, NEW c \in Clients, ClientAsks(c)
  PROVE  /\ UNCHANGED <<version, used, txNet, stored, txMaster, txSwitches>>
         /\ client[c].state = "new"
         /\ client' \in [Clients -> ClientState]
         /\ \A o \in Clients : o # c => client'[o] = client[o]
         /\ \/ /\ client'[c].state = "data" /\ client'[c].asked = 0
               /\ UNCHANGED <<heads, requests>>
            \/ /\ client'[c].state = "waiting" /\ client'[c].asked = version
               /\ heads' = [heads EXCEPT ![c] = {}]
               /\ requests' = [requests EXCEPT ![c] = MaxRequests]
<1>1. client \in [Clients -> ClientState] /\ client[c] \in ClientState
  BY DEF TxTyped
<1>2. /\ UNCHANGED <<version, used, txNet, stored, txMaster, txSwitches>>
      /\ client[c].state = "new"
  BY DEF ClientAsks
<1>3. CASE /\ client' = [client EXCEPT ![c] =
                           [state |-> "data", asked |-> 0, got |-> stored]]
           /\ UNCHANGED <<heads, requests>>
  <2>1. [state |-> "data", asked |-> 0, got |-> stored] \in ClientState
    BY TxNumbers DEF ClientState, TxTyped, TxTypeOK
  <2> QED BY <1>1, <1>2, <1>3, <2>1
<1>4. CASE /\ client' = [client EXCEPT ![c].state = "waiting", ![c].asked = version]
           /\ heads' = [heads EXCEPT ![c] = {}]
           /\ requests' = [requests EXCEPT ![c] = MaxRequests]
  <2> DEFINE new == [client[c] EXCEPT !.state = "waiting", !.asked = version]
  <2>1. version \in 0..MaxVersion
    BY TxNumbers DEF TxTyped, TxTypeOK
  <2>2. new \in ClientState /\ new.state = "waiting" /\ new.asked = version
    BY <1>1, <2>1 DEF ClientState
  <2>3. client' = [client EXCEPT ![c] = new]
    BY <1>1, <1>4
  <2> HIDE DEF new
  <2> QED BY <1>1, <1>2, <1>4, <2>2, <2>3
<1> QED BY <1>3, <1>4 DEF ClientAsks


\* A packet received for the first time joins those of its transaction.
LEMMA RecvDataType ==
  ASSUME TxTyped, NEW p \in txNet, RecvData(p)
  PROVE  /\ p \in Packet /\ p.kind = "data"
         /\ heads' \in [Ids -> (SUBSET Part) \cup {NoTx}]
         /\ \A id \in Ids : id # p.id => heads'[id] = heads[id]
         /\ heads'[p.id] # NoTx
         /\ \A q \in heads'[p.id] :
              \/ heads[p.id] # NoTx /\ q \in heads[p.id]
              \/ q = [seqno |-> p.seqno, ver |-> p.ver]
<1>1. p \in Packet /\ p.kind = "data" /\ p.id \in Ids
  BY PacketType DEF TxTyped, TxTypeOK, RecvData
<1>2. [seqno |-> p.seqno, ver |-> p.ver] \in Part
  BY <1>1, PacketType
<1> DEFINE had == IF heads[p.id] = NoTx THEN {} ELSE heads[p.id]
           now == IF \E q \in had : q.seqno = p.seqno THEN had
                  ELSE had \cup {[seqno |-> p.seqno, ver |-> p.ver]}
<1>3. heads' = [heads EXCEPT ![p.id] = now]
  BY DEF RecvData
<1>4. heads \in [Ids -> (SUBSET Part) \cup {NoTx}] /\ \A h \in SUBSET Part : h # NoTx
  BY HeadType DEF TxTyped
<1>5. had \in SUBSET Part /\ now \in SUBSET Part
  BY <1>1, <1>2, <1>4
<1>6. \A q \in now : \/ heads[p.id] # NoTx /\ q \in heads[p.id]
                     \/ q = [seqno |-> p.seqno, ver |-> p.ver]
  OBVIOUS
<1> HIDE DEF now
<1> QED BY <1>1, <1>3, <1>4, <1>5, <1>6

\* The end of a transaction: all of its packets are applied or none.
LEMMA RecvTxendType ==
  ASSUME TxTyped, NEW p \in txNet, RecvTxend(p)
  PROVE  /\ p \in Packet /\ p.kind = "txend" /\ p.id \in Ids
         /\ heads[p.id] \in SUBSET Part
         /\ heads' = [heads EXCEPT ![p.id] = NoTx]
         /\ stored' \in [Slots -> 0..MaxVersion]
<1>1. p \in Packet /\ p.kind = "txend" /\ p.id \in Ids
  BY PacketType DEF TxTyped, TxTypeOK, RecvTxend
<1>2. heads[p.id] \in SUBSET Part /\ heads' = [heads EXCEPT ![p.id] = NoTx]
  BY <1>1, HeadType DEF TxTyped, RecvTxend
<1>3. TxApplied(heads[p.id]) \in [Slots -> 0..MaxVersion]
  <2> SUFFICES ASSUME NEW i \in Slots
      PROVE  TxApplied(heads[p.id])[i] \in 0..MaxVersion
    BY DEF TxApplied
  <2>1. CASE \E q \in heads[p.id] : q.seqno = i
    <3> DEFINE q == CHOOSE q \in heads[p.id] : q.seqno = i
    <3>1. q \in heads[p.id]
      BY <2>1
    <3>2. q.ver \in Versions
      BY <1>2, <3>1 DEF Part
    <3>3. TxApplied(heads[p.id])[i] = q.ver
      BY <2>1 DEF TxApplied
    <3> QED BY <3>2, <3>3, TxNumbers
  <2>2. CASE ~(\E q \in heads[p.id] : q.seqno = i)
    BY <2>2 DEF TxApplied, TxTyped, TxTypeOK
  <2> QED BY <2>1, <2>2
<1>4. stored' \in [Slots -> 0..MaxVersion]
  BY <1>3 DEF RecvTxend, TxTyped, TxTypeOK
<1> QED BY <1>1, <1>2, <1>4

LEMMA TypedKept == TxTyped /\ [TxNext]_txVars => TxTyped'
<1> SUFFICES ASSUME TxTyped, [TxNext]_txVars PROVE TxTyped'
  OBVIOUS
<1>0. /\ heads \in [Ids -> (SUBSET Part) \cup {NoTx}]
      /\ client \in [Clients -> ClientState]
      /\ {} \in SUBSET Part /\ {} # NoTx
  BY HeadType DEF TxTyped
<1>1. ASSUME UNCHANGED <<heads, stored, client>>, version' \in Versions,
             used' \subseteq Pushes, txNet' \subseteq Packet,
             requests' \in [Clients -> 0..MaxRequests],
             txMaster' \in BOOLEAN, txSwitches' \in 0..TxMaxSwitches
      PROVE  TxTyped'
  <2>1. client' \in [Clients -> ClientState] /\ WaitingIsTracked'
    BY <1>0, <1>1 DEF TxTyped, WaitingIsTracked
  <2>2. heads' \in [Ids -> (SUBSET [seqno : Slots, ver : Versions]) \cup {NoTx}]
        /\ stored' \in [Slots -> 0..MaxVersion]
    BY <1>1 DEF TxTyped, TxTypeOK
  <2> QED BY <1>1, <2>1, <2>2, ClientTyped DEF TxTyped, TxTypeOK
<1>2. ASSUME UNCHANGED <<version, used, txNet, txMaster, txSwitches>>,
             requests' \in [Clients -> 0..MaxRequests],
             heads' \in [Ids -> (SUBSET Part) \cup {NoTx}],
             stored' \in [Slots -> 0..MaxVersion],
             client' \in [Clients -> ClientState], WaitingIsTracked'
      PROVE  TxTyped'
  <2>1. \A c \in Clients :
           /\ client'[c].state \in {"new", "waiting", "data", "error"}
           /\ client'[c].asked \in 0..MaxVersion
           /\ client'[c].got \in [Slots -> 0..MaxVersion] \cup {NoTx}
    BY <1>2 DEF ClientState
  <2> QED BY <1>2, <2>1 DEF TxTyped, TxTypeOK, Part
<1>3. CASE Change
  <2>1. version' \in Versions
    BY <1>3, TxAssumption, SMT DEF Change, TxTyped, TxTypeOK
  <2> QED BY <1>1, <1>3, <2>1 DEF Change, TxTyped, TxTypeOK
<1>4. CASE TxSwitchMode
  <2>1. txSwitches' \in 0..TxMaxSwitches /\ txMaster' \in BOOLEAN
    BY <1>4, TxAssumption, SMT DEF TxSwitchMode, TxTyped, TxTypeOK
  <2> QED BY <1>1, <1>4, <2>1 DEF TxSwitchMode, TxTyped, TxTypeOK
<1>5. ASSUME NEW id \in Pushes, SyncData(id) PROVE TxTyped'
  <2>1. txNet' \subseteq Packet /\ used' \subseteq Pushes
    BY <1>5, PushType, IdKinds DEF SyncData, TxTyped, TxTypeOK
  <2> QED BY <1>1, <1>5, <2>1 DEF SyncData, TxTyped, TxTypeOK
<1>6. ASSUME NEW c \in Clients, TxRecvRequest(c) PROVE TxTyped'
  <2>1. txNet' \subseteq Packet
    BY <1>6, PushType, IdKinds DEF TxRecvRequest, TxTyped, TxTypeOK
  <2>2. requests' \in [Clients -> 0..MaxRequests]
    <3>1. requests[c] - 1 \in 0..MaxRequests
      BY <1>6, TxAssumption, SMT DEF TxRecvRequest, TxTyped, TxTypeOK
    <3> QED BY <1>6, <3>1 DEF TxRecvRequest, TxTyped, TxTypeOK
  <2> QED BY <1>1, <1>6, <2>1, <2>2 DEF TxRecvRequest, TxTyped, TxTypeOK
<1>7. ASSUME NEW c \in Clients, ClientAsks(c) PROVE TxTyped'
  <2>1. c \in Ids
    BY IdKinds
  <2>2. heads' \in [Ids -> (SUBSET Part) \cup {NoTx}]
    BY <1>0, <1>7, <2>1, AskType
  <2>3. requests' \in [Clients -> 0..MaxRequests]
    <3>1. MaxRequests \in 0..MaxRequests
      BY TxAssumption
    <3>2. \/ requests' = requests \/ requests' = [requests EXCEPT ![c] = MaxRequests]
      BY <1>7, AskType
    <3> QED BY <3>1, <3>2 DEF TxTyped, TxTypeOK
  <2>4. WaitingIsTracked'
    BY <1>0, <1>7, <2>1, AskType, IdKinds DEF WaitingIsTracked, TxTyped
  <2> QED BY <1>2, <1>7, <2>2, <2>3, <2>4, AskType DEF TxTyped, TxTypeOK
<1>8. ASSUME NEW p \in txNet, RecvData(p) PROVE TxTyped'
  <2>1. WaitingIsTracked'
    <3> SUFFICES ASSUME NEW c \in Clients, client'[c].state = "waiting"
        PROVE  heads'[c] # NoTx
      BY DEF WaitingIsTracked
    <3> QED BY <1>8, RecvDataType, IdKinds DEF RecvData, TxTyped, WaitingIsTracked
  <2>2. /\ UNCHANGED <<version, used, txNet, requests, stored, client, txMaster,
                       txSwitches>>
        /\ heads' \in [Ids -> (SUBSET Part) \cup {NoTx}]
    BY <1>8, RecvDataType DEF RecvData
  <2> QED BY <1>2, <2>1, <2>2 DEF TxTyped, TxTypeOK
<1>9. ASSUME NEW id \in Ids, NEW finished \in BOOLEAN,
             UNCHANGED <<version, used, txNet, requests, txMaster, txSwitches>>,
             heads' = [heads EXCEPT ![id] = NoTx],
             stored' \in [Slots -> 0..MaxVersion],
             client' = ReqDataFinish(id, finished)
      PROVE  TxTyped'
  <2>1. heads' \in [Ids -> (SUBSET Part) \cup {NoTx}]
    BY <1>0, <1>9
  <2>2. WaitingIsTracked'
    <3> SUFFICES ASSUME NEW c \in Clients, client'[c].state = "waiting"
        PROVE  heads'[c] # NoTx
      BY DEF WaitingIsTracked
    <3>1. client[c].state = "waiting" /\ c # id
      BY <1>9, FinishType
    <3> QED BY <1>0, <1>9, <3>1, IdKinds DEF TxTyped, WaitingIsTracked
  <2>3. client' \in [Clients -> ClientState]
    BY <1>9, FinishType
  <2>4. requests' \in [Clients -> 0..MaxRequests]
    BY <1>9 DEF TxTyped, TxTypeOK
  <2> QED BY <1>2, <1>9, <2>1, <2>2, <2>3, <2>4
<1>10. ASSUME NEW p \in txNet, RecvTxend(p) PROVE TxTyped'
  <2>1. Complete(p) \in BOOLEAN
    BY DEF Complete
  <2> QED BY <1>9, <1>10, <2>1, RecvTxendType DEF RecvTxend
<1>11. ASSUME NEW p \in txNet, Lose(p) PROVE TxTyped'
  BY <1>1, <1>11 DEF Lose, TxTyped, TxTypeOK
<1>12. ASSUME NEW id \in Ids, Purge(id) PROVE TxTyped'
  <2>1. stored' \in [Slots -> 0..MaxVersion]
    BY <1>12 DEF Purge, TxTyped, TxTypeOK
  <2> QED BY <1>9, <1>12, <2>1 DEF Purge
<1>13. CASE UNCHANGED txVars
  BY <1>1, <1>13 DEF txVars, TxTyped, TxTypeOK
<1> QED BY <1>3, <1>4, <1>5, <1>6, <1>7, <1>8, <1>10, <1>11, <1>12, <1>13 DEF TxNext

\* Types, and an open transaction for every client that waits, whatever the
\* network does and whenever the receiver changes its mode (TxConsistent).
THEOREM TxIsConsistent == TxSpec => []TxConsistent
<1>1. TxTyped => TxConsistent
  BY DEF TxTyped, TxConsistent
<1> QED BY <1>1, InitTyped, TypedKept, PTL DEF TxSpec


-----------------------------------------------------------------------------
(* A transaction carries one version, if its request arrives once at most *)

OfVersion(id, v) ==
  /\ \A p \in txNet : p.id = id => Carries(p, v)
  /\ heads[id] # NoTx =>
       \A q \in heads[id] : q.ver = v /\ q.seqno \in 0..(Count[v] - 1)
  /\ id \in Clients => client[id].asked <= v

\* Nothing has been sent under this id.
Untouched(id) ==
  /\ \A p \in txNet : p.id # id
  /\ heads[id] # NoTx => heads[id] = {}

WholeInv ==
  /\ TxTyped
  /\ \A id \in Ids : \E v \in Versions : OfVersion(id, v)
  /\ \A id \in Pushes \ used : Untouched(id)
  /\ \A c \in Clients :
       /\ requests[c] > 0 => Untouched(c)
       /\ client[c].state = "new" => requests[c] = 0 /\ Untouched(c)
       /\ client[c].asked <= version
  /\ AnswerIsFresh

LEMMA InitWhole == TxInit => WholeInv
<1> SUFFICES ASSUME TxInit PROVE WholeInv
  OBVIOUS
<1>1. \A id \in Ids : OfVersion(id, 1) /\ Untouched(id)
  BY IdKinds, SMT DEF TxInit, OfVersion, Untouched
<1>2. AnswerIsFresh
  BY DEF TxInit, AnswerIsFresh
<1>3. \A c \in Clients : requests[c] = 0 /\ client[c].asked = 0 /\ version = 1
  BY DEF TxInit
<1> QED BY <1>1, <1>2, <1>3, InitTyped, IdKinds, TxNumbers DEF WholeInv

\* What an action that sends and answers nothing has to keep.
LEMMA WholeFrame ==
  ASSUME WholeInv, TxTyped', UNCHANGED <<requests, client>>,
         txNet' \subseteq txNet, version' >= version, used \subseteq used',
         \A id \in Ids : heads'[id] # NoTx =>
           \A q \in heads'[id] :
             \/ heads[id] # NoTx /\ q \in heads[id]
             \/ \E p \in txNet : /\ p.id = id /\ p.kind = "data"
                                 /\ q = [seqno |-> p.seqno, ver |-> p.ver]
  PROVE  WholeInv'
<1>1. ASSUME NEW id \in Ids, NEW v \in Versions, OfVersion(id, v)
      PROVE  OfVersion(id, v)'
  <2>1. heads'[id] # NoTx =>
          \A q \in heads'[id] : q.ver = v /\ q.seqno \in 0..(Count[v] - 1)
    BY <1>1 DEF OfVersion, Carries
  <2> QED BY <1>1, <2>1 DEF OfVersion, Carries
<1>2. ASSUME NEW id \in Ids, Untouched(id)
      PROVE  Untouched(id)'
  BY <1>2 DEF Untouched
<1>3. \A id \in Ids : \E v \in Versions : OfVersion(id, v)'
  BY <1>1 DEF WholeInv
<1>4. \A id \in Pushes \ used' : Untouched(id)'
  BY <1>2, IdKinds DEF WholeInv
<1>5. \A c \in Clients :
        /\ requests'[c] > 0 => Untouched(c)'
        /\ client'[c].state = "new" => requests'[c] = 0 /\ Untouched(c)'
  BY <1>2, IdKinds DEF WholeInv
<1>6. \A c \in Clients : client'[c].asked <= version'
  <2>1. version \in Nat /\ version' \in Nat
    BY TxNumbers, SMT DEF WholeInv, TxTyped, TxTypeOK
  <2>2. \A c \in Clients : client[c].asked \in Nat /\ client[c].asked <= version
    BY DEF WholeInv, TxTyped, TxTypeOK
  <2> QED BY <2>1, <2>2, SMT
<1>7. AnswerIsFresh'
  BY DEF WholeInv, AnswerIsFresh
<1> QED BY <1>3, <1>4, <1>5, <1>6, <1>7 DEF WholeInv

\* Packets sent under an untouched id are all of the present version.
LEMMA SendWhole ==
  ASSUME WholeInv, TxTyped', NEW id \in Ids, Untouched(id),
         UNCHANGED <<version, heads, stored, client>>,
         txNet' = txNet \/ txNet' = txNet \cup PushPackets(id),
         id \in Pushes => used' = used \cup {id} /\ requests' = requests,
         id \in Clients => /\ used' = used /\ client[id].state # "new"
                           /\ \A c \in Clients :
                                requests'[c] = IF c = id THEN 0 ELSE requests[c]
  PROVE  WholeInv'
<1>1. PICK now \in Versions : now = version
  BY DEF WholeInv, TxTyped, TxTypeOK
<1>2. \A p \in PushPackets(id) : p.id = id /\ Carries(p, now)
  BY <1>1, PushType
<1>3. ASSUME NEW o \in Ids, NEW v \in Versions, o # id, OfVersion(o, v)
      PROVE  OfVersion(o, v)'
  BY <1>2, <1>3 DEF OfVersion, Carries
<1>4. ASSUME NEW o \in Ids, o # id, Untouched(o)
      PROVE  Untouched(o)'
  BY <1>2, <1>4 DEF Untouched
<1>5. OfVersion(id, now)'
  BY <1>1, <1>2 DEF WholeInv, Untouched, OfVersion, Carries
<1>6. \A o \in Ids : \E v \in Versions : OfVersion(o, v)'
  BY <1>3, <1>5 DEF WholeInv
<1>7. \A o \in Pushes \ used' : Untouched(o)'
  BY <1>4, IdKinds DEF WholeInv
<1>8. ASSUME NEW c \in Clients
      PROVE  /\ requests'[c] > 0 => Untouched(c)'
             /\ client'[c].state = "new" => requests'[c] = 0 /\ Untouched(c)'
             /\ client'[c].asked <= version'
  <2>1. CASE c # id
    BY <1>4, <2>1, IdKinds DEF WholeInv
  <2>2. CASE c = id
    BY <2>2, IdKinds DEF WholeInv
  <2> QED BY <2>1, <2>2
<1>9. AnswerIsFresh'
  BY DEF WholeInv, AnswerIsFresh
<1> QED BY <1>6, <1>7, <1>8, <1>9 DEF WholeInv


\* A transaction that ends leaves its packets' version or nothing new.
LEMMA EndWhole ==
  ASSUME WholeInv, TxTyped', NEW id \in Ids, NEW finished \in BOOLEAN,
         UNCHANGED <<version, used, txNet, requests>>,
         heads' = [heads EXCEPT ![id] = NoTx],
         stored' \in [Slots -> 0..MaxVersion],
         client' = ReqDataFinish(id, finished),
         finished => \A v \in Versions : OfVersion(id, v) => Whole(v, stored')
  PROVE  WholeInv'
<1>0. TxTyped
  BY DEF WholeInv
<1>1. \A c \in Clients :
        \/ client'[c] = client[c]
        \/ /\ c = id /\ client'[c].state # "new"
           /\ client'[c].asked = client[c].asked
           /\ client'[c].state = "data" => finished /\ client'[c].got = stored'
  BY <1>0, FinishType
<1>2. \A o \in Ids : heads'[o] # NoTx => heads'[o] = heads[o]
  BY <1>0, HeadType DEF TxTyped
<1>3. ASSUME NEW o \in Ids, NEW v \in Versions, OfVersion(o, v)
      PROVE  OfVersion(o, v)'
  BY <1>1, <1>2, <1>3 DEF OfVersion, Carries
<1>4. ASSUME NEW o \in Ids, Untouched(o)
      PROVE  Untouched(o)'
  BY <1>2, <1>4 DEF Untouched
<1>5. \A o \in Ids : \E v \in Versions : OfVersion(o, v)'
  BY <1>3 DEF WholeInv
<1>6. \A o \in Pushes \ used' : Untouched(o)'
  BY <1>4, IdKinds DEF WholeInv
<1>7. \A c \in Clients :
        /\ requests'[c] > 0 => Untouched(c)'
        /\ client'[c].state = "new" => requests'[c] = 0 /\ Untouched(c)'
        /\ client'[c].asked <= version'
  BY <1>1, <1>4, IdKinds DEF WholeInv
<1>8. AnswerIsFresh'
  <2> SUFFICES ASSUME NEW c \in Clients, client'[c].state = "data", client'[c].asked # 0
      PROVE  \E v \in Versions : v >= client'[c].asked /\ Whole(v, client'[c].got)
    BY DEF AnswerIsFresh
  <2>1. CASE client'[c] = client[c]
    BY <2>1 DEF WholeInv, AnswerIsFresh
  <2>2. CASE c = id /\ finished /\ client'[c].got = stored'
             /\ client'[c].asked = client[c].asked
    <3>1. PICK v \in Versions : OfVersion(id, v)
      BY DEF WholeInv
    <3>2. Whole(v, client'[c].got) /\ client[c].asked <= v
      BY <2>2, <3>1 DEF OfVersion
    <3>3. v \in Nat /\ client[c].asked \in Nat
      BY TxNumbers, <1>0 DEF TxTyped, TxTypeOK
    <3>4. v >= client'[c].asked
      BY <2>2, <3>2, <3>3
    <3> QED BY <3>2, <3>4
  <2> QED BY <1>1, <2>1, <2>2
<1> QED BY <1>5, <1>6, <1>7, <1>8 DEF WholeInv

\* process_alfred_status_txend: the number of packets decides.
LEMMA CompleteIsWhole ==
  ASSUME WholeInv, NEW p \in txNet, RecvTxend(p), Complete(p), NEW v \in Versions,
         OfVersion(p.id, v)
  PROVE  Whole(v, stored')
<1>1. /\ heads[p.id] \in SUBSET Part /\ heads[p.id] # NoTx
      /\ p.kind = "txend"
  BY RecvTxendType DEF WholeInv, RecvTxend
<1>2. p.seqno = Count[v]
  BY <1>1 DEF OfVersion, Carries
<1>3. Cardinality(heads[p.id]) = Count[v]
  BY <1>2 DEF Complete
<1>4. \A q \in heads[p.id] : q \in Part /\ q.ver = v /\ q.seqno \in 0..(Count[v] - 1)
  BY <1>1 DEF OfVersion
<1>5. stored' = TxApplied(heads[p.id])
  BY DEF RecvTxend
<1> QED BY <1>3, <1>4, <1>5, AppliedIsWhole

LEMMA WholeKept ==
  ASSUME MaxRequests <= 1
  PROVE  WholeInv /\ [TxNext]_txVars => WholeInv'
<1> SUFFICES ASSUME WholeInv, [TxNext]_txVars PROVE WholeInv'
  OBVIOUS
<1>0. TxTyped /\ TxTyped'
  BY TypedKept DEF WholeInv
<1>1. CASE Change \/ TxSwitchMode \/ UNCHANGED txVars
  <2>1. /\ UNCHANGED <<requests, client, txNet, used, heads>>
        /\ version' = version \/ version' = version + 1
    BY <1>1 DEF Change, TxSwitchMode, txVars
  <2>2. version' >= version
    BY <1>0, <2>1, TxNumbers, SMT DEF TxTyped, TxTypeOK
  <2> QED BY <1>0, <2>1, <2>2, WholeFrame
<1>2. ASSUME NEW p \in txNet, Lose(p) PROVE WholeInv'
  <2>1. version' >= version
    BY <1>0, <1>2, TxNumbers, SMT DEF TxTyped, TxTypeOK, Lose
  <2>2. UNCHANGED <<requests, client, used, heads>> /\ txNet' \subseteq txNet
    BY <1>2 DEF Lose
  <2> QED BY <1>0, <2>1, <2>2, WholeFrame
<1>3. ASSUME NEW p \in txNet, RecvData(p) PROVE WholeInv'
  <2>1. version' >= version
    BY <1>0, <1>3, TxNumbers, SMT DEF TxTyped, TxTypeOK, RecvData
  <2>2. UNCHANGED <<requests, client, used, txNet>>
    BY <1>3 DEF RecvData
  <2>3. \A id \in Ids : heads'[id] # NoTx =>
          \A q \in heads'[id] :
            \/ heads[id] # NoTx /\ q \in heads[id]
            \/ \E r \in txNet : /\ r.id = id /\ r.kind = "data"
                                /\ q = [seqno |-> r.seqno, ver |-> r.ver]
    <3> SUFFICES ASSUME NEW id \in Ids, heads'[id] # NoTx, NEW q \in heads'[id],
                        ~(heads[id] # NoTx /\ q \in heads[id])
        PROVE  \E r \in txNet : /\ r.id = id /\ r.kind = "data"
                                /\ q = [seqno |-> r.seqno, ver |-> r.ver]
      OBVIOUS
    <3>1. /\ \A o \in Ids : o # p.id => heads'[o] = heads[o]
          /\ p.kind = "data"
          /\ \A r \in heads'[p.id] : \/ heads[p.id] # NoTx /\ r \in heads[p.id]
                                     \/ r = [seqno |-> p.seqno, ver |-> p.ver]
      BY <1>0, <1>3, RecvDataType
    <3>2. id = p.id
      BY <3>1
    <3> QED BY <3>1, <3>2
  <2> QED BY <1>0, <2>1, <2>2, <2>3, WholeFrame
<1>4. ASSUME NEW id \in Pushes, SyncData(id) PROVE WholeInv'
  <2>1. Untouched(id) /\ id \in Ids /\ id \notin Clients
    BY <1>4, IdKinds DEF WholeInv, SyncData
  <2>2. /\ UNCHANGED <<version, requests, heads, stored, client>>
        /\ used' = used \cup {id}
        /\ txNet' = txNet \/ txNet' = txNet \cup PushPackets(id)
    BY <1>4 DEF SyncData
  <2> QED BY <1>0, <2>1, <2>2, SendWhole
<1>5. ASSUME NEW c \in Clients, TxRecvRequest(c) PROVE WholeInv'
  <2>1. requests[c] \in Nat /\ requests[c] <= MaxRequests /\ requests[c] > 0
    BY <1>0, <1>5, TxAssumption, SMT DEF TxRecvRequest, TxTyped, TxTypeOK
  <2>2. requests[c] = 1
    BY <2>1, TxAssumption, SMT
  <2>3. Untouched(c) /\ c \in Ids /\ c \notin Pushes /\ client[c].state # "new"
    BY <2>1, <2>2, IdKinds DEF WholeInv
  <2>4. \A o \in Clients : requests'[o] = IF o = c THEN 0 ELSE requests[o]
    BY <1>0, <1>5, <2>2 DEF TxRecvRequest, TxTyped, TxTypeOK
  <2>5. /\ UNCHANGED <<version, used, heads, stored, client>>
        /\ txNet' = txNet \cup PushPackets(c)
    BY <1>5 DEF TxRecvRequest
  <2> QED BY <1>0, <2>3, <2>4, <2>5, SendWhole
<1>6. ASSUME NEW c \in Clients, ClientAsks(c) PROVE WholeInv'
  <2>1. /\ UNCHANGED <<version, used, txNet, stored>> /\ client[c].state = "new"
        /\ \A o \in Clients : o # c => client'[o] = client[o]
        /\ c \in Ids /\ Untouched(c) /\ version \in Versions /\ 0 <= version
    BY <1>0, <1>6, AskType, IdKinds, TxNumbers DEF WholeInv, TxTyped, TxTypeOK
  <2>2. /\ client'[c].state # "new" /\ client'[c].asked \in {0, version}
        /\ client'[c].state = "data" => client'[c].asked = 0
        /\ \A id \in Ids : heads'[id] = heads[id] \/ (id = c /\ heads'[id] = {})
        /\ \A o \in Clients : o # c => requests'[o] = requests[o]
    BY <1>0, <1>6, AskType DEF TxTyped, TxTypeOK
  <2>3. ASSUME NEW id \in Ids, Untouched(id)
        PROVE  Untouched(id)'
    BY <2>1, <2>2, <2>3 DEF Untouched
  <2>4. PICK now \in Versions : now = version
    BY <2>1
  <2>5. now >= 0
    BY TxNumbers
  <2>6. OfVersion(c, now)'
    BY <2>1, <2>2, <2>4, <2>5, TxNumbers DEF Untouched, OfVersion
  <2>7. ASSUME NEW id \in Ids, NEW v \in Versions, id # c, OfVersion(id, v)
        PROVE  OfVersion(id, v)'
    BY <2>1, <2>2, <2>7 DEF OfVersion, Carries
  <2>8. \A id \in Ids : \E v \in Versions : OfVersion(id, v)'
    BY <2>6, <2>7 DEF WholeInv
  <2>9. \A id \in Pushes \ used' : Untouched(id)'
    BY <2>1, <2>3, IdKinds DEF WholeInv
  <2>10. \A o \in Clients :
           /\ requests'[o] > 0 => Untouched(o)'
           /\ client'[o].state = "new" => requests'[o] = 0 /\ Untouched(o)'
           /\ client'[o].asked <= version'
    <3> SUFFICES ASSUME NEW o \in Clients
        PROVE  /\ requests'[o] > 0 => Untouched(o)'
               /\ client'[o].state = "new" => requests'[o] = 0 /\ Untouched(o)'
               /\ client'[o].asked <= version'
      OBVIOUS
    <3>1. CASE o = c
      BY <2>1, <2>2, <2>3, <2>4, <2>5, <3>1, TxNumbers
    <3>2. CASE o # c
      BY <2>1, <2>2, <2>3, <3>2, IdKinds DEF WholeInv
    <3> QED BY <3>1, <3>2
  <2>11. AnswerIsFresh'
    BY <2>1, <2>2 DEF WholeInv, AnswerIsFresh
  <2> QED BY <1>0, <2>8, <2>9, <2>10, <2>11 DEF WholeInv
<1>7. ASSUME NEW p \in txNet, RecvTxend(p) PROVE WholeInv'
  <2>1. /\ p.id \in Ids /\ heads' = [heads EXCEPT ![p.id] = NoTx]
        /\ stored' \in [Slots -> 0..MaxVersion]
    BY <1>0, <1>7, RecvTxendType
  <2>2. Complete(p) => \A v \in Versions : OfVersion(p.id, v) => Whole(v, stored')
    BY <1>7, CompleteIsWhole
  <2>3. /\ UNCHANGED <<version, used, txNet, requests>>
        /\ client' = ReqDataFinish(p.id, Complete(p)) /\ Complete(p) \in BOOLEAN
    BY <1>7 DEF RecvTxend, Complete
  <2> QED BY <1>0, <2>1, <2>2, <2>3, EndWhole
<1>8. ASSUME NEW id \in Ids, Purge(id) PROVE WholeInv'
  <2>1. stored' \in [Slots -> 0..MaxVersion]
    BY <1>0, <1>8 DEF Purge, TxTyped, TxTypeOK
  <2> QED BY <1>0, <1>8, <2>1, EndWhole DEF Purge
<1> QED BY <1>1, <1>2, <1>3, <1>4, <1>5, <1>6, <1>7, <1>8 DEF TxNext

\* If the network delivers a request once at most, a client of a slave that gets
\* an answer gets the whole of one version, no older than its question, however
\* packets are lost, repeated and reordered (AnswerIsFresh).
THEOREM AnswersAreFresh ==
  ASSUME MaxRequests <= 1
  PROVE  TxSpec => []AnswerIsFresh
<1>1. WholeInv => AnswerIsFresh
  BY DEF WholeInv
<1> QED BY <1>1, InitWhole, WholeKept, PTL DEF TxSpec

\* Under the same condition what a transaction changes is replaced as a whole
\* (AppliedWhole).
THEOREM TransactionsAreWhole ==
  ASSUME MaxRequests <= 1
  PROVE  TxSpec => AppliedWhole
<1>1. ASSUME WholeInv, TxNext, stored' # stored
      PROVE  \E v \in Versions : Whole(v, stored')
  <2>1. PICK p \in txNet : RecvTxend(p)
    BY <1>1 DEF TxNext, Change, TxSwitchMode, SyncData, ClientAsks, TxRecvRequest,
                RecvData, Lose, Purge
  <2>2. Complete(p)
    BY <1>1, <2>1 DEF RecvTxend
  <2>3. PICK v \in Versions : OfVersion(p.id, v)
    BY <1>1, <2>1, RecvTxendType DEF WholeInv
  <2> QED BY <1>1, <2>1, <2>2, <2>3, CompleteIsWhole
<1>2. WholeInv /\ [TxNext]_txVars
        => [stored' # stored => \E v \in Versions : Whole(v, stored')]_txVars
  BY <1>1
<1> QED BY <1>2, InitWhole, WholeKept, PTL DEF TxSpec, AppliedWhole
================================================================================

------------------------------- MODULE AlfredTx -------------------------------
(***************************************************************************)
(* One alfred transaction packet by packet: a master (the sender) pushes     *)
(* its data to another daemon (the receiver), unasked (sync_data) or as    *)
(* the answer to a request made for a client of the receiver.  Sources:    *)
(* push_data of send.c, process_alfred_push_data, process_alfred_request,  *)
(* process_alfred_status_txend and transaction_* of recv.c, the request    *)
(* half of unix_sock.c, purge_data of server.c.                            *)
(*                                                                         *)
(* UDP loses, repeats and reorders packets.  The sender's data is a        *)
(* version number: version v needs Count[v] packets, and packet i carries  *)
(* the part (slot) i of the data.                                          *)
(***************************************************************************)
EXTENDS Naturals, FiniteSets

CONSTANTS
  Clients,       \* clients of the receiver; each picks its own random id
  Pushes,        \* random ids of the transactions that nobody asked for
  Count,         \* version -> number of packets it takes
  NoTx,
  MaxRequests,   \* bound: how often one request packet is delivered
  TxMaxSwitches    \* bound: changes of the receiver's mode

Versions == DOMAIN Count
MaxVersion == CHOOSE v \in Versions : \A w \in Versions : w <= v
Slots == UNION {0..(Count[v] - 1) : v \in Versions}
Ids == Clients \cup Pushes

ASSUME TxAssumption ==
  /\ MaxVersion \in Nat \ {0} /\ Versions = 1..MaxVersion
  /\ \A v \in Versions : Count[v] \in Nat
  /\ Clients \cap Pushes = {} /\ NoTx \notin Ids
  /\ \A had \in SUBSET [seqno : Slots, ver : Versions] : had # NoTx
  /\ MaxRequests \in Nat /\ TxMaxSwitches \in Nat

VARIABLES
  version,    \* version of the sender's data
  used,       \* ids in Pushes that the sender has used
  txNet,        \* push and txend packets in flight
  requests,   \* id -> how often its request packet can still be delivered
  heads,      \* receiver's transaction_hash: id -> packets by seqno, or NoTx
  stored,     \* receiver's data_hash: slot -> version it holds, 0 for none
  client,     \* client -> state, version when it asked, what it was sent
  txMaster,     \* opmode of the receiver is OPMODE_MASTER
  txSwitches

txVars == <<version, used, txNet, requests, heads, stored, client, txMaster, txSwitches>>

Packet == [kind : {"data"}, id : Ids, seqno : Slots, ver : Versions]
     \cup [kind : {"txend"}, id : Ids, seqno : {Count[v] : v \in Versions}]

TxInit ==
  /\ version = 1
  /\ used = {}
  /\ txNet = {}
  /\ requests = [c \in Clients |-> 0]
  /\ heads = [id \in Ids |-> NoTx]
  /\ stored = [i \in Slots |-> 0]
  /\ client = [c \in Clients |-> [state |-> "new", asked |-> 0, got |-> NoTx]]
  /\ txMaster \in BOOLEAN /\ txSwitches = 0

-----------------------------------------------------------------------------
(* The sender *)

\* The data of the sender changes between transactions.
Change ==
  /\ version < MaxVersion
  /\ version' = version + 1
  /\ UNCHANGED <<used, txNet, requests, heads, stored, client, txMaster, txSwitches>>

\* Mutant of PushPackets: the sequence number is incremented first.
PushPacketsFromOne(id) ==
  {[kind |-> "data", id |-> id, seqno |-> i, ver |-> version] :
     i \in 1..Count[version]}
  \cup {[kind |-> "txend", id |-> id, seqno |-> Count[version]]}

\* push_data: packets 0 .. n-1 and the end mark with their number.
PushPackets(id) ==
  {[kind |-> "data", id |-> id, seqno |-> i, ver |-> version] :
     i \in 0..(Count[version] - 1)}
  \cup {[kind |-> "txend", id |-> id, seqno |-> Count[version]]}

\* sync_data: NO_FILTER, so with nothing to send there is no end mark.
SyncData(id) ==
  /\ id \in Pushes \ used
  /\ used' = used \cup {id}
  /\ txNet' = IF Count[version] = 0 THEN txNet ELSE txNet \cup PushPackets(id)
  /\ UNCHANGED <<version, requests, heads, stored, client, txMaster, txSwitches>>

\* process_alfred_request at the sender: an answer always has an end mark.
TxRecvRequest(c) ==
  /\ requests[c] > 0
  /\ requests' = [requests EXCEPT ![c] = @ - 1]
  /\ txNet' = txNet \cup PushPackets(c)
  /\ UNCHANGED <<version, used, heads, stored, client, txMaster, txSwitches>>

-----------------------------------------------------------------------------
(* The receiver *)

\* unix_sock_req_data: a master, and a slave that knows no server at this
\* time, answers at once; another slave opens a transaction and asks its
\* server.  AlfredNet models which servers are known.
ClientAsks(c) ==
  /\ client[c].state = "new"
  /\ \E known \in BOOLEAN : IF txMaster \/ ~known
     THEN /\ client' = [client EXCEPT ![c] =
               [state |-> "data", asked |-> 0, got |-> stored]]
          /\ UNCHANGED <<heads, requests>>
     ELSE /\ client' = [client EXCEPT ![c].state = "waiting",
                                      ![c].asked = version]
          /\ heads' = [heads EXCEPT ![c] = {}]
          /\ requests' = [requests EXCEPT ![c] = MaxRequests]
  /\ UNCHANGED <<version, used, txNet, stored, txMaster, txSwitches>>

\* process_alfred_push_data: only a master opens a transaction for packets
\* nobody asked for; a packet with a known seqno is a duplicate.
RecvData(p) ==
  /\ p.kind = "data"
  /\ heads[p.id] # NoTx \/ txMaster
  /\ heads' = [heads EXCEPT ![p.id] =
       LET had == IF @ = NoTx THEN {} ELSE @ IN
       IF \E q \in had : q.seqno = p.seqno THEN had
       ELSE had \cup {[seqno |-> p.seqno, ver |-> p.ver]}]
  /\ UNCHANGED <<version, used, txNet, requests, stored, client, txMaster, txSwitches>>

\* A transaction that was opened for a client holds its socket; one that late
\* packets open again holds none.
Waits(id) == id \in Clients /\ client[id].state = "waiting"

\* finish_alfred_push_data for every packet of the transaction.
TxApplied(had) ==
  [i \in Slots |-> IF \E q \in had : q.seqno = i
                   THEN (CHOOSE q \in had : q.seqno = i).ver ELSE stored[i]]

\* Mutant of Complete: the end mark alone decides.
CompleteAnyway(p) == TRUE

\* process_alfred_status_txend compares the number of packets it has with
\* the number sent.
Complete(p) == Cardinality(heads[p.id]) = p.seqno

\* Mutant of ReqDataFinish: finished is not looked at.
ReqDataFinishAlways(id, finished) ==
  IF Waits(id) THEN [client EXCEPT ![id].state = "data", ![id].got = stored']
  ELSE client

\* unix_sock_req_data_finish: a waiting client gets what is stored by now, or
\* an error.
ReqDataFinish(id, finished) ==
  CASE ~Waits(id) -> client
    [] Waits(id) /\ finished ->
         [client EXCEPT ![id].state = "data", ![id].got = stored']
    [] OTHER -> [client EXCEPT ![id].state = "error"]

\* The transaction is applied or dropped, and in both cases gone.
RecvTxend(p) ==
  /\ p.kind = "txend"
  /\ heads[p.id] # NoTx
  /\ heads' = [heads EXCEPT ![p.id] = NoTx]
  /\ stored' = IF Complete(p) THEN TxApplied(heads[p.id]) ELSE stored
  /\ client' = ReqDataFinish(p.id, Complete(p))
  /\ UNCHANGED <<version, used, txNet, requests, txMaster, txSwitches>>

\* Mutant of Purge: a transaction that times out is freed, its client is not
\* told.
PurgeSilently(id) ==
  /\ heads[id] # NoTx
  /\ heads' = [heads EXCEPT ![id] = NoTx]
  /\ UNCHANGED <<version, used, txNet, requests, stored, client, txMaster, txSwitches>>

\* purge_data: no packet for ALFRED_REQUEST_TIMEOUT.  How long packets take
\* is open, so it can happen at any time.
Purge(id) ==
  /\ heads[id] # NoTx
  /\ heads' = [heads EXCEPT ![id] = NoTx]
  /\ UNCHANGED <<version, used, txNet, requests, stored, txMaster, txSwitches>>
  /\ client' = ReqDataFinish(id, FALSE)

\* A packet that is never delivered again.  (Delivery itself leaves it in
\* txNet: the network may repeat it.)
Lose(p) ==
  /\ txNet' = txNet \ {p}
  /\ UNCHANGED <<version, used, requests, heads, stored, client, txMaster, txSwitches>>

\* unix_sock_modesw, open transactions or not.
TxSwitchMode ==
  /\ txSwitches < TxMaxSwitches
  /\ txSwitches' = txSwitches + 1 /\ txMaster' = ~txMaster
  /\ UNCHANGED <<version, used, txNet, requests, heads, stored, client>>

TxNext ==
  \/ Change \/ TxSwitchMode
  \/ \E id \in Pushes : SyncData(id)
  \/ \E c \in Clients : ClientAsks(c) \/ TxRecvRequest(c)
  \/ \E p \in txNet : RecvData(p) \/ RecvTxend(p) \/ Lose(p)
  \/ \E id \in Ids : Purge(id)

TxSpec == TxInit /\ [][TxNext]_txVars

-----------------------------------------------------------------------------
(***************************************************************************)
(* Properties                                                              *)
(***************************************************************************)
TxTypeOK ==
  /\ version \in Versions
  /\ used \subseteq Pushes
  /\ txNet \subseteq Packet
  /\ requests \in [Clients -> 0..MaxRequests]
  /\ txMaster \in BOOLEAN /\ txSwitches \in 0..TxMaxSwitches
  /\ heads \in [Ids -> (SUBSET [seqno : Slots, ver : Versions]) \cup {NoTx}]
  /\ stored \in [Slots -> 0..MaxVersion]
  /\ \A c \in Clients :
       /\ client[c].state \in {"new", "waiting", "data", "error"}
       /\ client[c].asked \in 0..MaxVersion
       /\ client[c].got \in [Slots -> 0..MaxVersion] \cup {NoTx}

\* Whole(v, s): the parts in s are all there is of version v.
Whole(v, s) == \A i \in 0..(Count[v] - 1) : s[i] = v

\* "missing packets -> cleanup everything" (recv.c:355): a transaction is
\* applied as a whole, so after every change of the data there is a version
\* of which the receiver has every part, whatever was lost, repeated or
\* reordered.
AppliedWhole ==
  [][stored' # stored => \E v \in Versions : Whole(v, stored')]_txVars

\* A client of a slave that is sent data gets every part of one version of
\* the server's data, and none older than when it asked.
AnswerIsFresh ==
  \A c \in Clients :
    (client[c].state = "data" /\ client[c].asked # 0) =>
      \E v \in Versions : v >= client[c].asked /\ Whole(v, client[c].got)

\* The socket of a waiting client is never forgotten: there is a transaction
\* that holds it, and txend or purge_data will close it.
WaitingIsTracked ==
  \A c \in Clients : client[c].state = "waiting" => heads[c] # NoTx

\* Every variable keeps its type, and each client that waits (unix_sock_req_data)
\* has a transaction whose end or purge will answer it.
TxConsistent == TxTypeOK /\ WaitingIsTracked
===============================================================================

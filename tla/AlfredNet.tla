------------------------------ MODULE AlfredNet ------------------------------
(***************************************************************************)
(* How a data set travels between alfred daemons and how it is forgotten:  *)
(* server.c (the main loop, purge_data, set_best_server), send.c           *)
(* (announce_master, sync_data, push_local_data, push_data), recv.c        *)
(* (finish_alfred_push_data, the announce and request handlers) and the    *)
(* unix-socket requests of unix_sock.c.                                    *)
(*                                                                         *)
(* A push transaction is one message here: it arrives whole or not at all  *)
(* (AlfredTx models the packets behind it).  All data has one type, so a   *)
(* key is its source.  Times are ages, in units of ALFRED_INTERVAL: a      *)
(* record carries its age since last_seen and, as history, `stale', the    *)
(* time since a client last wrote it at its origin.                        *)
(***************************************************************************)
EXTENDS Integers, FiniteSets

CONSTANTS
  Nodes,          \* daemons, named by their hardware address
  Masters,        \* the ones started with -m
  Sources,        \* source addresses that data is published under
  None,
  DataTimeout,    \* ALFRED_DATA_TIMEOUT in intervals
  ServerTimeout,  \* ALFRED_SERVER_TIMEOUT in intervals
  RequestTimeout, \* ALFRED_REQUEST_TIMEOUT in intervals
  MaxDelay,       \* bound: intervals a packet spends in the network
  MaxNet,         \* bound: messages in flight
  Switchers,      \* bound: daemons whose clients ask for another mode or
                  \* another interface ...
  MaxSwitches     \* ... and how often they change the mode

ASSUME AlfredAssumption ==
  /\ Masters \subseteq Nodes /\ Sources \subseteq Nodes /\ Switchers \subseteq Nodes
  /\ None \notin Nodes
  /\ DataTimeout \in Nat \ {0} /\ ServerTimeout \in Nat \ {0}
  /\ RequestTimeout \in Nat \ {0}
  /\ MaxDelay \in Nat /\ MaxNet \in Nat /\ MaxSwitches \in Nat

VARIABLES
  master,    \* node -> opmode = OPMODE_MASTER
  data,      \* node -> source -> dataset, or None
  servers,   \* node -> known master -> age of its last announcement, or None
  best,      \* node -> globals->best_server, or None
  waiting,   \* node -> master asked and age of the transaction, or None
  net,       \* messages in flight
  due,       \* nodes whose main loop has not come round in this interval
  switches

vars == <<master, data, servers, best, waiting, net, due, switches>>

\* enum data_source, in the order that push_data compares
LOCAL_ == 0
FIRST_HAND == 1
SYNCED == 2

Dataset == [level : {LOCAL_, FIRST_HAND, SYNCED}, age : Nat, stale : Nat]
Fresh == [level |-> LOCAL_, age |-> 0, stale |-> 0]
Transaction == [server : Nodes, age : Nat]

ASSUME NoneAssumption == None \notin Nat \cup Dataset \cup Transaction

\* A push carries stale times; `reply' tells the answer to a request, whose
\* transaction id the requester knows, from an unasked push.
Messages ==
       [kind : {"announce", "request"}, from : Nodes, to : Nodes, age : Nat]
  \cup [kind : {"push"}, from : Nodes, to : Nodes, age : Nat,
        reply : BOOLEAN, items : [Sources -> Nat \cup {None}]]

Init ==
  /\ master = [n \in Nodes |-> n \in Masters]
  /\ data = [n \in Nodes |-> [s \in Sources |-> None]]
  /\ servers = [n \in Nodes |-> [m \in Nodes |-> None]]
  /\ best = [n \in Nodes |-> None]
  /\ waiting = [n \in Nodes |-> None]
  /\ net = {}
  /\ due = Nodes
  /\ switches = 0

-----------------------------------------------------------------------------
Known(n) == {m \in Nodes : servers[n][m] # None}

\* set_best_server takes the known server with the largest TQ; TQ comes from
\* batman-adv, so which one that is is left open.
BestOf(known) == IF known = {} THEN {None} ELSE known

\* push_data: what is sent of the data of node n up to a source level.
Selected(n, maxLevel) ==
  [s \in Sources |-> IF data[n][s] # None /\ data[n][s].level <= maxLevel
                     THEN data[n][s].stale ELSE None]
Nothing == [s \in Sources |-> None]

Push(n, m, maxLevel, isReply) ==
  [kind |-> "push", from |-> n, to |-> m, age |-> 0, reply |-> isReply,
   items |-> Selected(n, maxLevel)]
Announce(n, m) == [kind |-> "announce", from |-> n, to |-> m, age |-> 0]
Request(n, m) == [kind |-> "request", from |-> n, to |-> m, age |-> 0]

\* Any part of what is sent is lost; what is not fits the bound on net.
Send(msgs, rest) ==
  \E kept \in SUBSET msgs :
    /\ Cardinality(rest \cup kept) <= MaxNet
    /\ net' = rest \cup kept

\* announce_master goes to everybody, sync_data to every known server; with
\* nothing to send push_data sends nothing, not even the end mark.
MasterSends(n) ==
       {Announce(n, m) : m \in Nodes \ {n}}
  \cup IF Selected(n, FIRST_HAND) = Nothing THEN {}
       ELSE {Push(n, m, FIRST_HAND, FALSE) : m \in Known(n)}

\* push_local_data
SlaveSends(n) ==
  IF best[n] = None \/ Selected(n, LOCAL_) = Nothing THEN {}
  ELSE {Push(n, best[n], LOCAL_, FALSE)}

\* Mutant of PurgedData: local data, which its clients refresh, is kept.
KeptLocalData(n) ==
  [s \in Sources |->
     IF data[n][s] # None /\ data[n][s].level # LOCAL_
        /\ data[n][s].age >= DataTimeout
     THEN None ELSE data[n][s]]

\* purge_data, the three hashes in turn.
PurgedData(n) ==
  [s \in Sources |->
     IF data[n][s] # None /\ data[n][s].age >= DataTimeout
     THEN None ELSE data[n][s]]
PurgedServers(n) ==
  [m \in Nodes |->
     IF servers[n][m] # None /\ servers[n][m] >= ServerTimeout
     THEN None ELSE servers[n][m]]
KnownAfterPurge(n) == {m \in Nodes : PurgedServers(n)[m] # None}

\* Mutant of PurgedBest: best_server is not looked at when a server goes.
KeptBest(n) == {best[n]}

\* best_server is cleared with its server, and chosen again when there is
\* none: purge_data does so whatever the mode.
PurgedBest(n) ==
  IF best[n] \in KnownAfterPurge(n) THEN {best[n]}
  ELSE BestOf(KnownAfterPurge(n))

\* The end of a round of the main loop: send first, purge afterwards.
Housekeep(n) ==
  /\ n \in due
  /\ Send(IF master[n] THEN MasterSends(n) ELSE SlaveSends(n), net)
  /\ data' = [data EXCEPT ![n] = PurgedData(n)]
  /\ servers' = [servers EXCEPT ![n] = PurgedServers(n)]
  /\ \E b \in PurgedBest(n) : best' = [best EXCEPT ![n] = b]
  /\ waiting' = [waiting EXCEPT ![n] =
       IF @ # None /\ @.age >= RequestTimeout THEN None ELSE @]
  /\ due' = due \ {n}
  /\ UNCHANGED <<master, switches>>

\* unix_sock_add_data: a client publishes; only a master takes a foreign
\* source address.
AddData(n, s) ==
  /\ s = n \/ master[n]
  /\ data' = [data EXCEPT ![n][s] = Fresh]
  /\ UNCHANGED <<master, servers, best, waiting, net, due, switches>>

\* Mutant of RequestData: the check of best_server is missing.
RequestDataUnchecked(n) ==
  /\ ~master[n] /\ waiting[n] = None
  /\ waiting' = [waiting EXCEPT ![n] = [server |-> best[n], age |-> 0]]
  /\ Send({Request(n, best[n])}, net)
  /\ UNCHANGED <<master, data, servers, best, due, switches>>

\* unix_sock_req_data of a slave that knows a server.  (A master, or a
\* slave without a server, answers from what it has: nothing changes.)
RequestData(n) ==
  /\ ~master[n] /\ best[n] # None /\ waiting[n] = None
  /\ waiting' = [waiting EXCEPT ![n] = [server |-> best[n], age |-> 0]]
  /\ Send({Request(n, best[n])}, net)
  /\ UNCHANGED <<master, data, servers, best, due, switches>>

\* unix_sock_modesw changes the mode and nothing else.
SwitchMode(n) ==
  /\ n \in Switchers /\ switches < MaxSwitches
  /\ switches' = switches + 1
  /\ master' = [master EXCEPT ![n] = ~@]
  /\ UNCHANGED <<data, servers, best, waiting, net, due>>

\* Mutant of ChangeInterface: the hashes of the servers are freed and
\* best_server still points into one.
ChangeInterfaceKeepsBest(n) ==
  /\ n \in Switchers
  /\ servers' = [servers EXCEPT ![n] = [m \in Nodes |-> None]]
  /\ UNCHANGED <<master, data, best, waiting, net, due, switches>>

\* unix_sock_change_iface: netsock_close_all frees the servers of every
\* interface; the sockets of the new ones are opened by the main loop, and
\* what comes before is lost.
ChangeInterface(n) ==
  /\ n \in Switchers
  /\ servers' = [servers EXCEPT ![n] = [m \in Nodes |-> None]]
  /\ best' = [best EXCEPT ![n] = None]
  /\ UNCHANGED <<master, data, waiting, net, due, switches>>

-----------------------------------------------------------------------------
\* A message taken from the network may come once more.
Taken(msg) == {net, net \ {msg}}

\* process_alfred_announce_master
RecvAnnounce(msg) ==
  LET n == msg.to IN
  /\ msg.kind = "announce"
  /\ servers' = [servers EXCEPT ![n][msg.from] = 0]
  /\ IF master[n] THEN UNCHANGED best
     ELSE \E b \in Known(n) \cup {msg.from} : best' = [best EXCEPT ![n] = b]
  /\ net' \in Taken(msg)
  /\ UNCHANGED <<master, data, waiting, due, switches>>

\* process_alfred_request: everything of the type, SYNCED data included.
RecvRequest(msg) ==
  /\ msg.kind = "request"
  /\ \E rest \in Taken(msg) : Send({Push(msg.to, msg.from, SYNCED, TRUE)}, rest)
  /\ UNCHANGED <<master, data, servers, best, waiting, due, switches>>

\* Mutant of Applied: data is passed on as if it came from its source.
AppliedAsFirstHand(msg, s) ==
  LET old == data[msg.to][s] IN
  IF msg.items[s] = None \/ (old # None /\ old.level = LOCAL_) THEN old
  ELSE [level |-> FIRST_HAND, age |-> 0, stale |-> msg.items[s]]

\* finish_alfred_push_data for one source: own data is never overwritten;
\* data is first hand when its source sent it.
Applied(msg, s) ==
  LET old == data[msg.to][s] IN
  IF msg.items[s] = None \/ (old # None /\ old.level = LOCAL_) THEN old
  ELSE [level |-> IF msg.from = s THEN FIRST_HAND ELSE SYNCED,
        age |-> 0, stale |-> msg.items[s]]

\* The answer to the request that is open: the transaction is found by its
\* server and its id.  (Ids are random, so an id may come again.)
Answers(msg) ==
  /\ msg.reply
  /\ waiting[msg.to] # None
  /\ waiting[msg.to].server = msg.from

\* A slave drops a transaction that it did not ask for.
RecvPush(msg) ==
  LET n == msg.to IN
  /\ msg.kind = "push"
  /\ data' = IF master[n] \/ Answers(msg)
             THEN [data EXCEPT ![n] = [s \in Sources |-> Applied(msg, s)]]
             ELSE data
  /\ waiting' = [waiting EXCEPT ![n] = IF Answers(msg) THEN None ELSE @]
  /\ net' \in Taken(msg)
  /\ UNCHANGED <<master, servers, best, due, switches>>

\* The history `stale' is kept only while the modes are fixed: after a change
\* data may circulate for ever.
Older(stale) == IF switches = 0 THEN stale + 1 ELSE 0

\* One interval passes.  Every main loop has come round in it (the daemons
\* are not starved by traffic) and no packet is older than MaxDelay.
OlderItems(items) ==
  [s \in Sources |-> IF items[s] = None THEN None ELSE Older(items[s])]

Tick ==
  /\ due = {}
  /\ due' = Nodes
  /\ data' = [n \in Nodes |-> [s \in Sources |->
       IF data[n][s] = None THEN None
       ELSE [data[n][s] EXCEPT !.age = @ + 1, !.stale = Older(@)]]]
  /\ servers' = [n \in Nodes |-> [m \in Nodes |->
       IF servers[n][m] = None THEN None ELSE servers[n][m] + 1]]
  /\ waiting' = [n \in Nodes |->
       IF waiting[n] = None THEN None ELSE [waiting[n] EXCEPT !.age = @ + 1]]
  /\ net' = {IF msg.kind = "push"
             THEN [msg EXCEPT !.age = @ + 1, !.items = OlderItems(@)]
             ELSE [msg EXCEPT !.age = @ + 1] :
               msg \in {x \in net : x.age < MaxDelay}}
  /\ UNCHANGED <<master, best, switches>>

Next ==
  \/ \E n \in Nodes :
       Housekeep(n) \/ RequestData(n) \/ SwitchMode(n) \/ ChangeInterface(n)
  \/ \E n \in Nodes, s \in Sources : AddData(n, s)
  \/ \E msg \in net : RecvAnnounce(msg) \/ RecvRequest(msg) \/ RecvPush(msg)
  \/ Tick

Spec == Init /\ [][Next]_vars

-----------------------------------------------------------------------------
(***************************************************************************)
(* Properties                                                              *)
(***************************************************************************)
TypeOK ==
  /\ master \in [Nodes -> BOOLEAN]
  /\ data \in [Nodes -> [Sources -> Dataset \cup {None}]]
  /\ servers \in [Nodes -> [Nodes -> Nat \cup {None}]]
  /\ best \in [Nodes -> Nodes \cup {None}]
  /\ waiting \in [Nodes -> Transaction \cup {None}]
  /\ net \subseteq Messages
  /\ due \subseteq Nodes
  /\ switches \in Nat

\* best_server points into a server_hash: it never outlives the entry that
\* purge_data or a change of the interface frees, in either mode and across
\* mode switches.
BestServerIsKnown == \A n \in Nodes : best[n] # None => best[n] \in Known(n)

\* How long data may be around, and still look alive, after its client last
\* wrote it: every level of passing it on adds a timeout and a delay.
MaxStale(n) ==
  IF master[n] THEN 3 * DataTimeout + 2 * MaxDelay
  ELSE 4 * DataTimeout + 3 * MaxDelay

\* Data that no client writes any more disappears everywhere: there is no
\* circle of daemons that keep each other's copies alive.  (push_data sends
\* SYNCED data only to answer a request, and a slave never passes it on.)
\* Modes are fixed here.
ForgottenEverywhere ==
  \A n \in Nodes, s \in Sources :
    switches = 0 /\ data[n][s] # None => data[n][s].stale <= MaxStale(n)

\* README:120 says that data which is not written again is forgotten after
\* the timeout; a packet in flight is allowed for.
ForgottenAfterTimeout ==
  \A n \in Nodes, s \in Sources :
    data[n][s] # None => data[n][s].stale <= DataTimeout + MaxDelay

\* alfred.h:118 says that best_server is NULL on a master.
MasterHasNoBestServer == \A n \in Nodes : master[n] => best[n] = None

\* Every variable keeps its type, and best_server of a slave, which is used
\* without a lookup, is a server that has not been freed.
AlfredConsistent == TypeOK /\ BestServerIsKnown
==============================================================================

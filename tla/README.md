# A TLA+ model of NexFi

NexFi is the software of a mesh router: the batman-adv kernel module, which
routes frames between mesh nodes; the alfred daemon, which spreads small data
sets over the mesh; batctl and batadv-vis, which show the state of both; and a
web-admin server (`src/src/main.go`) with a page (`src/template/js/routing.js`)
that draws the mesh and configures its nodes. This directory models the parts
of it that carry state and run concurrently, checks them with TLC and proves
some of the results with TLAPS.

* `PROJECT.json` lists components, runs, mutants, findings, hazards, theorems,
  and for each definition the source lines it models.
* A component `C` is specified in `C.tla`. `MCC.tla` extends it with values for
  TLC (symmetry sets, tuples), and `C.cfg` and each `C_x.cfg` is one run of `MCC`. Four MC modules put several
  components side by side: `MCTools`, `MCRoutes`, `MCMesh` and `MCServices` (section 3).
* Theorems and their proofs are in modules of their own, `XProofs.tla`, some of which
  speak of several components (section 5).
* Operators whose names extend a mapped definition (`PurgePendingKept`,
  `CrcIgnored`, ...) are its mutants: the same step with a plausible mistake
  in it. They are in no next-state relation.

Line numbers below are in the file named last. `O`, `S`, `T`, `F` stand for
`bat_iv_ogm.c`, `send.c`, `translation-table.c` and `fragmentation.c`, other
names without a path for files,
under `src/tools/batman-adv-2016.1/net/batman-adv/`.

## 1. Inventory

### Web-admin server (`src/src/main.go`)

| Part | State | Operations | What is hard |
|---|---|---|---|
| File database (`DB`, 500-675) | a directory with one gob file per key; a snapshot `ObjectsMap` in each request's own `DB` object | `Init`, `readFile`, `Update` = `Delete` + `Put`, `Get`, `Has` | net/http serves each request in a goroutine, there is no lock, and an update removes the old file before it writes the new one in place |
| `configHandler`, `topoPositionHandler` | none | GET, POST | the error of `Update` is dropped |
| `BasicAuth`, `proxyHandler`, `PostByProxy` | none | relay one RPC to a node | a failed call panics, is recovered and becomes an empty answer 200 |
| `topoVisHandler`, `nodeDetailHandler` | none | run a command, return its output | no time limit |
| start-up and signals | configuration read once | | a signal ends the process at any point |

Correct means: what a client was told is stored is stored; an update is seen
whole or not at all; racing updates leave one of them.

### The page (`src/template/js/routing.js`)

The wireless dialog (503-661) changes up to three fields of a node's radio with one synchronous RPC each
(set, set, set, commit or revert) against a staging area that belongs to the
node and not to the browser. The drawing half (4-236) keeps
the nodes on screen and their saved positions. Correct means: "saved"
means saved, and a failure leaves the configuration alone.

### alfred (`src/tools/alfred-2016.1`)

| Part | State | Operations | What is hard |
|---|---|---|---|
| data synchronisation (`server.c`, `send.c`, `recv.c`) | data sets by source and type, known servers, `best_server`, mode | announce, push, synchronise, request, purge, change of mode | UDP frames are lost, doubled and late; ages restart at each hop; a pointer to an entry of a table that is purged |
| transactions (`recv.c`, `unix_sock.c`) | packets per sender and id, the client that waits | data packet, end mark, request, timeout | packets of one transaction reordered or repeated, an answer after the timeout |
| hash, sockets, client, gpsd, vis | tables and descriptors | | an iterator that survives a removal; descriptors that are not closed |

Correct means: data is applied whole; it is forgotten within a bound once its
writer stops; a client is answered with what was there when it asked.

### batman-adv (`.../net/batman-adv`)

| Part | State | Operations | What is hard |
|---|---|---|---|
| OGM reception (`bat_iv_ogm.c`, `bitarray.c`, `routing.c`, `originator.c`) | per originator: last sequence number, windows per neighbour, TQ ring buffers, router | receive, forward, purge | wrapping numbers, restarts, duplicates, reordering, purge against reception |
| TQ metric (`bat_iv_ogm.c`) | a number in the packet | `calc_tq`, hop penalty | integer widths and rounding |
| forwarding queues (`send.c`, `bat_iv_ogm.c`, `hard-interface.c`) | two lists with delayed work, two counters of free slots | queue, aggregate, send, reschedule, purge | three parties and a lock that the purge drops half way |
| fragmentation (`fragmentation.c`) | chains of fragments per originator | split, buffer, merge, expire | loss, duplication, reordering, numbers that wrap, full packets |
| translation table (`translation-table.c`) | local clients, list of changes, version, checksum; per originator a copy | client events, commit, OGM, request, response | a distributed cache kept in step by versions and checksums; events on another CPU during a commit |
| bridge loop avoidance (`bridge_loop_avoidance.c`) | claims with their owner, backbone gateways with a checksum and an open request, a count of requests | claim, unclaim, announce, request, periodic work, frames from both sides | two gateways claim one client; frames are lost; broadcasts are blocked until a request is answered |
| gateways (`gateway_client.c`, `gateway_common.c`, `sysfs.c`) | the list, the selected one, a flag that asks for an election | OGM, purge, election, files of user space | pointers read before and used after other steps, events to user space |
| distributed ARP table (`distributed-arp-table.c`) | a cache with ages; addresses on a ring | snoop requests and replies, store, ask, drop the broadcast | answers race with a delayed broadcast; nodes choose candidates apart |
| network coding (`network-coding.c`) | coding and decoding paths with packets, who hears whom | code, forward, overhear, decode, worker | packets wait for partners and time out; lengths differ |
| B.A.T.M.A.N. V (`bat_v_ogm.c`, `bat_v_elp.c`) | per originator and interface: throughput and number per neighbour, router; per interface a probing work | OGM2, ELP packet, measuring, enable, disable | a distance vector with lost and late OGMs; work items against removal under a lock |
| multicast (`multicast.c`) | flags per originator, counters and lists, own groups | OGM, release, decision, own listeners | memory is released later than the table entry |
| icmp socket (`icmp_socket.c`, `routing.c`) | slots, queues | open, write, read, release, answers | an answer finds its reader by a slot number |
| debugfs, sysfs, hash | output and parameters | | |

Correct means: routes do not loop and follow what is heard; every packet queued
is sent or purged and its slot comes back; packets are merged from their own
fragments and once; nodes come to agree on which clients a node serves and who
forwards them; a packet coded with another comes out as it was; a client gets
the answer or the gateway that the mesh has to offer.

### batctl (`src/tools/batctl-2016.1`)

`ping` and `traceroute` write requests to the icmp socket and wait with a time
limit. `bisect_iv` reads the logs of several nodes into a database and looks
for routing loops, or follows one OGM through the mesh. The other commands
print what they read. Correct means: an answer is taken for the request it
belongs to; what the tool shows is what the nodes did.

### How the parts interact

The page talks to `main.go`, and through its proxy to the LuCI service of other
nodes. `main.go` runs batadv-vis, which asks the local alfred over its unix
socket; alfred asks batman-adv for the TQ of a server through debugfs. Inside
batman-adv the worker of the forwarding queue sends an OGM and thereby commits
the translation table; the reception of an OGM updates routes, queues its copy
and hands its TVLV containers to the translation table; the purge of an
originator discards its table and its fragments.

`PROJECT.json` lists the hazards, each at its line.

## 2. Modules

### GobDB, AtomicStore: the file database

State: the directory entry of one key, inodes with the two parts that gob
writes, and for each request its place, snapshot, open file and answer. Each
system call is a step, each may fail (`MaxFaults`), and `Crash` kills the
server between any two (`MaxCrashes`). Inodes matter: `os.Remove` takes a file
out of the directory while another goroutine goes on writing to it.

`AtomicStore` is the promise: a register that a POST changes at one instant and
a GET reads at one instant. `SerialSpec`, in which a POST runs alone and GETs overlap only each other,
implements it (`ImplementsAtomicStore`, with `storeBar` the value "in the air"
during an update). With requests that race it does not hold: a GET that lists the
directory between the Remove and the Create of an update answers that nothing
is stored. What remains is that data is not lost altogether (`NoTotalLoss`),
that a torn file has a writer (`TornOnlyWhileWriting`) and that an answered
POST wins (`SomeUpdateWins`).

### WirelessEdit: the wireless dialog

State: the node's configuration and staging area, and per browser the dialog
with its flag and alert. Each RPC ends in one of five outcomes, taken from
`PostByProxy` and the callbacks of jQuery; `faults` counts the failures by kind,
because what can be promised depends on which calls failed. LuCI's service is external and
modelled from the calls made.

### AlfredNet: data between alfred daemons

State: mode, data sets with age, known servers, best server, pending request
and the frames in flight. `Housekeep` is one pass of the main loop after its
interval; `Tick` lets an interval pass; frames stay in flight up to `MaxDelay`
intervals and may be received any number of times or never. `stale` is a
history variable: the time since a client last wrote the data.
`ForgottenEverywhere` bounds it for each kind of copy; the bound is reached.
The daemons in `Switchers` may change between master and slave; data copied in
the old mode keeps its kind, so a switch starts the history again.

### AlfredTx: a transaction packet by packet

State: the version of the sender's data, packets in flight, the receiver's
mode, transaction heads and store, and its clients. The receiver may change
its mode in the middle of a transaction. The data is a version number
whose parts are the packets, so that a mixture of versions is visible.

### BatIvOgm: reception of OGMs

One node's knowledge of one originator for one outgoing interface. Any
neighbour delivers any sequence number at any time. `heard` and `sent` are
history variables that say, for the OGMs still inside the window, which were
heard from whom and which were passed on; `WindowIsHistory` compares the
bitmaps with them. The TQ of a link is an input.

### TqMetric: the arithmetic of the metric

The TQ of an OGM from hop to hop with the constants and integer widths of the
code. Nothing is scaled down here but the set of packet counts that TLC tries.

### ForwQueue: queues of packets to send

State: packets with the state of their delayed work, free slots, interface
status, and the place of the worker and of the purge. The purge takes the list
lock, picks a packet, drops the lock to wait for the packet's work, and takes
the lock again; the worker may be anywhere in the same packet. `own` of a
broadcast packet is never written by the code and takes any value.

### Fragmentation: splitting and merging

A sender, a mesh that loses, repeats and reorders, and a receiver's chains. A
fragment carries the number of the packet it was cut from as history.

### TransTable: the translation table

One originator with its local table, list of changes and commit in the steps
that its locks make of it; receivers with their copies, requests and
responses; OGMs and messages in flight. The checksum is the table it is
computed from, so collisions are left out. `SMP` says whether client events may
come between the steps of a commit: on one CPU the lock that disables bottom
halves excludes them. `Synced` is the promise: when clients stop moving, all
receivers end up with the originator's table.

### BridgeLoopAvoidance

Backbone gateways on one LAN; a handler is an operator from the gateway's state
to its state and the claim frames it sends, as the functions of the source
call each other. The LAN floods every frame to all gateways; it keeps the order between two
of them and may lose frames, and only the gateway that is asked answers a request (`bridge_loop_avoidance.c:808`). The
checksum is the set of clients that went into it an odd number of times: it is
kept up one client at a time in the code, and `BlaConsistent` compares it with
the table. `blaQuiet` counts the periods since the last client frame, loss or
write to the attribute; `BlaSettles` is the promise that a bounded number of
them is enough for one view.

### Gateways

One node. The worker's election is four steps (purge, decision to hold one,
choice with its uevent, selection), and a write to `gw_mode` two, with OGMs in
between. A gateway is an object with a flag that says whether it is still in the
list, since the election keeps pointers. `gwView` is what user space knows from the
events. `gwRaced` marks a removal or a change of mode inside an election, for
which the code promises nothing (section 4); `gwHeard` and `gwFinal` say
when the choice ought to be up to date.

### DistributedArp, DatRing

`DistributedArp` has several nodes with one client each, caches, the messages
of the table and the delayed broadcast. Who stores an address is a constant
there; `DatRing` models that choice, the walk over the originators once per
candidate with the integers of the code on a small ring, for two nodes that know
different sets of originators.

### Multicast

One node's view of others. An originator is an `orig_node`: when its timeout
takes it out of the table the counters still have it, until the RCU callback.

### BatVOgm, BatVElp

`BatVOgm` is a mesh of nodes that all keep a route towards one originator, with
two tables per node as for one interface; the averages of the links change.
`vPassed` counts how often a node passed each OGM on. `BatVElp` is one
interface: the single thread of `bat_events` with its queue, the rtnl lock, the
removal in two steps, and the references of neighbours.

### NetworkCoding

Nodes with coding and decoding paths, a relay that sets two packets against
each other. A payload is a sequence of blocks and a block the set of packets
that went into it an odd number of times, so that an exclusive or
over the wrong length is visible. Time passes at the nodes in `NcTicking`.
A flush takes the paths in any order and each path oldest first (`FlushOrders`).

### MeshIcmp

Sessions of ping and traceroute, the slots and queues of the socket, and a line
of nodes that forward, answer and count down. Looking for a slot and taking it are two
steps, as are finding the reader of an answer and queueing for it.

### BisectDb, BisectIv

The logs are written one line at a time by nodes whose routes are state of the
model, so that what the tool rebuilds (BisectDb) can be compared with what was.
BisectDb also has the trace of one OGM: its flood first, then the receptions in
any order. The default analysis (BisectIv) is one step over the database:
recursive operators that follow the functions of the source
(`find_rt_table_change` and its helpers), which is why the theorem is about
BisectDb alone. The reference is `Circles`, the nodes a packet meets by the
routes themselves.

TransTable takes the OGM of BatIvOgm and ForwQueue as given: an OGM carries the
container that is registered when it is sent. AlfredNet takes the transaction of
AlfredTx as one message.

## 3. Runs

Passing runs, with what they show:

| Run | Properties | Shows |
|---|---|---|
| gobdb | TornOnlyWhileWriting, NoTotalLoss, SomeUpdateWins, WedgeIsForever | Three requests of either kind race through every system call of the file database, one of which may fail, and the server may be killed once: without failures data is never lost altogether, a torn file is being written and an answered POST wins; with them, a torn file that nobody holds is never replaced. |
| tools | ImplementsAtomicStore, WirelessConsistent, EverySaveLands, SuccessMeansLastSaved, BisectDatabase, BisectCircleIsFound | The programs around the kernel module: with POSTs that run alone the file database is an atomic register; what a success and a failure of the wireless dialog guarantee with two browsers and any two calls failing; bisect_iv rebuilds the routing tables and the flood from the logs and finds every routing circle in them. |
| alfrednet | AlfredConsistent, ForgottenEverywhere | Two masters and a slave, a client that stops writing, requests, loss, duplicates, delay and a change of mode: every copy disappears within a bound, and best_server never outlives the entry that purge_data frees. |
| alfredtx | TxConsistent, AnswerIsFresh, AppliedWhole | Two clients and an unasked transaction at a receiver that changes its mode in the middle, packets lost, repeated and reordered: transactions are applied as a whole, answers are whole and not older than the question, and every waiting client has a transaction that will answer it. |
| routes | OgmConsistent, PassedOnOnce, IcHopsAreNodes, SilentRouterReplaced | An originator that is a neighbour and another neighbour that passes its OGMs on, OGMs in any order and number across the wrap of the sequence numbers, restarts, protection and purging: windows are what was heard, the flood ends, and a silent router is replaced; traceroute names the right hops although answers come late. |
| forw | ForwConsistent, NoOgmForgotten, PurgeEnds | An interface enabled and disabled twice while OGMs are forwarded, aggregated and sent, and broadcasts with them: no slot is lost and no packet left without a timer wherever the worker is when a purge meets it, the interface's own OGM stays scheduled, and the purge ends. |
| mesh | StrictlyWorse, MoreEchoesNeverWorse, VRoutesSound, ElpWorks, FragDeliversAsSent, CompleteIsDelivered, NcDeliveredIsSent, NcForwardsAll | Parts of batman-adv that rate links and carry frames: the TQ gets worse at every hop; routes of B.A.T.M.A.N. V are free of loops and fresh under loss and changes; the probing work survives removals of its interface; fragments are merged into the packets sent; packets coded with each other at a relay come out as they were sent. |
| tt | FullIsCommitted | Client events on one CPU while another commits, allocations that fail and updates that stop half way, two receivers of which each may answer for the other: a full table is never a mixture of two versions. |
| tt_live | Synced, TTConsistent | Lost OGMs, requests and responses, a lost route or a purged originator, and a version number that wraps: no change is cancelled without being announced, and receivers end up in sync once clients stop moving. |
| services | BlaConsistent, BlaSettles, GwConsistent, GwWithinClass, DatAnswers, RingWorks, McReachesListeners | Services for the frames of clients: backbone gateways agree who forwards a client although claim frames cross and are lost; a client node has a gateway that is offered and good enough; ARP answers are true and come; asker and storer meet on the hash ring; multicast reaches whoever wants it. |

`tools`, `routes`, `mesh` and `services` check components that share no state in one state
space: a variable `part`, chosen in the initial state, says which of them runs,
and the others keep their first state. So nothing is
multiplied, and a property of one component is checked over all its behaviours. A name such as
`ForwConsistent` stands for a conjunction of named parts, among them
the type invariant; the parts are commented where they are defined.

Two runs find a violation: the code contradicts what its message or its comment
says (`findings` in `PROJECT.json` quotes both). Section 4 lists the other
formulas of the modules that do not hold.

| Run | Property | Shows |
|---|---|---|
| gobdb_fault | OkMeansStored | A single POST whose mkdir, remove, create or write fails is answered ok although nothing is stored. |
| bisect_loop | BisectLoopIsReal | bisect_iv reports a loop for routes that lead straight to the destination: with sequence numbers of eight digits two walks get the same loop magic. |

### Bounds

* GobDB: three requests are two that race and one that reads or overtakes
  both; every property speaks of at most two requests and the file between
  them. A second value tells whose update won.
* WirelessEdit: two dialogs in all, by one browser or by two, so that a field
  staged in the first can be committed by the second; any two calls fail in any way.
  The properties say for which failures they hold.
* AlfredNet: two masters and a slave are the longest way data can take (slave,
  master, master, asking slave). Timeouts are one interval, so the bound
  counts hops; `MaxNet` limits how many different frames are in flight, not how often
  they are received. The slave may become a master.
* AlfredTx: two versions of different length, so that the count at the end of a
  transaction tells something; an unasked transaction, clients that
  ask, one change of mode. Push packets are lost, repeated and reordered, a request packet is
  delivered at most once (section 4 says why).
* BatIvOgm: numbers modulo 8, a window and a ring buffer of 2, three OGMs that
  cross the wrap and lie next to each other, two apart, which is a jump past the window, and
  three apart, which is a restart; the assumption `2 * a < M` keeps the signed difference
  meaningful, as 2^32 does in the code.
* TqMetric: the constants of the code; TLC tries a few packet counts and
  penalties, with their extremes.
* ForwQueue: one interface enabled twice, so that a packet of its first use
  meets the second. `NPkts` exceeds what the slots can fill.
* Fragmentation: five packets through two buckets and four numbers: each bucket
  and each number is used twice. `FragWindow = 1` lets the fragments of a packet arrive, also
  twice, until the next one is sent. Fragments of a packet and of the next are kept in
  different buckets, so longer delays matter only when they last until the bucket is used again, eight
  packets later in the code: then a packet of which every fragment is repeated
  that late is delivered twice.
* TransTable: a version number that wraps;
  `MaxEvents + 1 < VnMod` keeps a version from coming round while a message
  with it is in flight. `tt` lets client events come between the steps of a commit and
  lets allocations fail, `tt_live` is the liveness run without either.

* BridgeLoopAvoidance: two gateways in different groups, one client, two frames
  of it, one loss, one write to the attribute; seven quiet periods are what the longest
  recovery takes (the gateway timeout and the first periods after it). The
  claim timeout is longer than that, so that a claim does not just expire.
* Gateways: two gateways with two qualities, an offer and a
  withdrawal; a class that compares products and one that asks for 20 points.
* DistributedArp: three nodes with a client each, one of them the candidate,
  two requests that overlap, one fault (a loss, a move of an address, an expiry).
  DatRing: six nodes on a ring of four places, so that several share one and
  the ring wraps; each node may miss one originator.
* Multicast: two originators, one group; OGMs without bound.
* BatVOgm: a triangle, three OGMs, and one change of a link, restart or timeout;
  numbers modulo 16 with the windows scaled. BatVElp: one neighbour, interfaces enabled and
  disabled without bound, numbers modulo 16.
* NetworkCoding: two packets of different length that cross at a relay, one
  fault (a loss, a failed allocation, a late worker, a write to the attribute).
* MeshIcmp: a traceroute and a ping that records the route, three nodes, two
  slots, a queue of one packet, so that it overflows.
* BisectDb, BisectIv: logs of five lines by three nodes about two originators; six receptions of a
  traced OGM. Numbers of seven digits fill the magic exactly; `bisect_loop`
  has eight.

Counters that grow without end in the code (`MaxFaults`, `MaxCrashes`,
`MaxEnables`, `MaxEvents`, `MaxLost`, `MaxRounds`, ...) are in the guards.
Deadlock is not checked where all requests, packets or events can be used up and the model
really stops.

### Fairness

* `ForwQueue!FairSpec`: weak fairness of the purge and of the worker's steps.
  Both are kernel threads that the scheduler runs; no fairness is given to
  what starts them.
* `TransTable!FairSpec`: weak fairness of the commit and of timeouts, which
  timers drive. Strong fairness of the reception of the current OGM, of an answer
  and of a response: OGMs are sent each interval and requests repeated,
  and a link that loses all of them is no link.

The other promises that something happens in the end are bounded by periods of a
timer (`BlaSettles`, `NcForwardsAll`, `ElpWorks`, `ForgottenEverywhere`) and need no fairness.

## 4. Formulas that do not hold

The modules also state what comments, documents and messages of the repository
claim and the code does not do. To see a counterexample, put the formula
alone into the `.cfg` named and change the constants as said. What holds
instead is in the passing run of the module.

| Formula | In | Constants | What happens |
|---|---|---|---|
| `OkMeansStored` (GobDB) | `GobDB_fault.cfg` | two requests, `MaxFaults = 0`, `MaxCrashes = 1` | A server killed between the Remove and the end of the Encode leaves no value or a torn file; `Init` skips it after the restart, `Put` refuses to replace it, and a later POST is answered ok and stores nothing. The page says "saved" (`template/js/routing.js:229`). |
| `SuccessMeansSaved` (WirelessEdit) | `Tools.cfg` | none | Each of three set calls overwrites one flag (`routing.js:589, 605, 620`): the first refused, the last accepted, and the page says "saved" (`:637`). |
| `ForgottenAfterTimeout` (AlfredNet) | `AlfredNet.cfg` | none | `last_seen` starts again at each hop (`recv.c:83`), so data outlives what `README:120` says: "it will timeout and alfred will forget about it (after 10 minutes)". |
| `MasterHasNoBestServer` (AlfredNet) | `AlfredNet.cfg` | none | `purge_data` selects a best server in both modes (`server.c:200`); `alfred.h:118` says "NULL if we are a server ourselves". |
| `AppliedWhole` (AlfredTx) | `AlfredTx.cfg` | `MaxRequests = 2` | A request delivered twice is answered twice under one id; when the data changed in between, packets of both answers are counted as one transaction (`recv.c:356`). |
| `BcastSlotsAccounted` (ForwQueue) | `ForwQueue.cfg` | none | The purge gives a slot back if `!own` (S:678), and `own` of a broadcast packet is never set (S:489-543). |
| `PurgedIsGone` (ForwQueue) | `ForwQueue.cfg` | none | `batadv_schedule_bat_ogm` tests `if_status` without a lock (S:434) and queues the next OGM after the purge; `hard-interface.c:604` says "delete all references to this hard_iface". |
| `OwnOgmKept` (ForwQueue) | `ForwQueue.cfg` | `AllocFails = TRUE` | A failed allocation ends the OGMs of the interface (O:660); O:651 says "own packet should always be scheduled". |
| `FitsIsSent` (Fragmentation) | `Mesh.cfg` | `Lens = {7, 8}` | The loop refuses the last fragment number (F:492), F:432 says "create up to 16 fragments". |
| `CompleteIsAlwaysDelivered` (Fragmentation) | `Mesh.cfg` | `StartSeq = 3` | A new chain has number 0, and a packet with that number finds it "not new" (F:118), against F:174 "returns true, if the list is empty at return". |
| `FreedOnce` (Fragmentation) | `Mesh.cfg` | `AllocFails = TRUE` | When the merge fails to expand its buffer, the fragment just received is freed with the chain and again by the caller (F:330), against F:308 "Error: Return false and leave skb as is". |
| `NoChangeForgotten` (TransTable) | `TransTable_live.cfg` | `Wifis = {TRUE, FALSE}`, `MaxEvents = 3` | The ADD of a changed flag and the DEL of the same client cancel (T:457), so an announced client leaves without a commit; T:447 reckons only with clients that are NEW. |
| `NewNotAnnounced` (TransTable) | `TransTable.cfg` | none (`SMP`) | A client added on another CPU between the clearing of the NEW flags and the draining of the list (T:3341) is announced and stays NEW, against `packet.h:138`. |
| `Learnt` (TransTable) | `TransTable_live.cfg` | `Hosts = {c1, c2}`, `MaxDiff = 1`, `MaxEvents = 4`, `MaxLost = 0`, one receiver | Changes too many for one packet stay on the list (T:944), the DELs of the next interval cancel them, and the receivers keep both clients. |
| `OneRequest` (TransTable) | `TransTable.cfg` | `MaxMsgs = 2` | The test at T:2616 removes the mark of a request that was sent and keeps that of one that was not; T:2573 says the opposite. |
| `StoppedNotCommitted` (TransTable) | `TransTable.cfg` | none (`AllocFails`) | Both callers of `_batadv_tt_update_changes` set the version after an early return (T:2954, 2971), against T:2918 "we stop the updating procedure without committing the ttvn change". |
| `RingMeet` (DatRing) | `Services.cfg` | two orders in `OneWalk` | Of two nodes in one place on the ring the one met last in the walk of the hash table is taken (`distributed-arp-table.c:493`, where `batadv_compare_eth` tells only equal from unequal), against `:490` "Choose the one with the lowest address": nodes whose tables are in another order store and ask at different ones. |
| `VReferencesKept` (BatVOgm) | `Mesh.cfg` | none | `batadv_v_ogm_route_update` gives the reference of the router back (`bat_v_ogm.c:533`), and again at `out` when the OGM was forwarded before (`:543`, `:566`). |
| `ElpSoftIfaceThere` (BatVElp) | `Mesh.cfg` | none | The measurement of a neighbour that is queued is not cancelled when the interface is removed; it writes its warning with `soft_iface` (`bat_v_elp.c:131`), which is NULL by then. |
| `IcTransmitted` (MeshIcmp) | `Routes.cfg` | none | ping counts a packet as transmitted each time it waited (`ping.c:227`), also for the second answer to one request, against "packets transmitted" (`ping.c:345`). |
| `GwSelectedIsOffered`, `GwViewIsSelection` (Gateways) without `gwRaced` in `GwQuiet` | `Services.cfg` | none | A gateway removed between the choice and `batadv_gw_select`, or a mode written inside an election (`sysfs.c:495-507`), leaves a selected gateway that is gone, or user space with another one than the kernel. |

Reading the source for the models also showed, without a formula: the check
"OGM via unknown neighbor" (`bat_v_ogm.c:526`) never fires, since `router->orig_node` is
the originator itself; `batadv_nc_random_weight_tq` is cut to a u8
(`network-coding.c:1023`), so a better link can get a lower weight;
`batadv_bla_update_orig_address` renames an own gateway without moving it in the
hash table; the IP cache ignores the VLAN when it looks an address up
(`distributed-arp-table.c:295`); a full route record drops the packet
(`routing.c:379`), where the comment at `:366` says "add record route information if not
full"; a hop that `bisect_iv` knows to be deleted has no name when a path is
printed (`bisect_iv.c:690`).

## 5. Proofs

TLAPS checks the theorems below for every value of the constants that the
named ASSUMEs of the modules and the hypotheses of the theorem allow. TLC
evaluates the ASSUMEs on every run. Where a theorem is about a property of a run, the last column names it.

| Module | About | Rests on the invariant |
|---|---|---|
| ToolsProofs | GobDB, WirelessEdit, BisectDb | UndisturbedInv, SerialInv, WirelessInv, BsDbInv |
| AlfredProofs | AlfredNet | AlfredConsistent, StaleInv |
| AlfredTxProofs | AlfredTx | TxTyped, WholeInv |
| RoutesProofs | BatIvOgm, MeshIcmp, BatVOgm | OgmInv, IcInv, VInv |
| ForwQueueProofs | ForwQueue | ForwInv |
| MeshProofs | TqMetric, Fragmentation, NetworkCoding, BatVElp | Inv, FragInv, NcInv, ElpInv |
| ServicesProofs | Multicast, DistributedArp, DatRing, Gateways, BridgeLoopAvoidance | McInv, DatInv, RingInv, GwInv, BlaInv |
| TransTableProofs | TransTable | TTInv, TypeInv, ListInv |

| Theorem | Says | Property |
|---|---|---|
| ToolsProofs!TypeCorrect | Every request's state stays in its type, for any number of requests, values, faults and crashes. |  |
| ToolsProofs!QuietAlways | As long as the server was neither killed nor refused a system call, UndisturbedInv holds: it says where the value of the key comes from, which goroutine owns a torn file and what each snapshot can hold. The next three theorems rest on it. |  |
| ToolsProofs!TornFilesAreBeingWritten | Without crash or fault, a file that does not decode is being written by a request that has it open. | TornOnlyWhileWriting |
| ToolsProofs!UpdatesNeverVanish | However many requests race, a key once stored is missing only between one request's Remove and some request's Create. | NoTotalLoss |
| ToolsProofs!AnUpdateWins | Once the requests are done and one POST was answered, what is stored decodes and is the struct of a POST that was answered, not the old value and not a mixture. | SomeUpdateWins |
| ToolsProofs!WedgePermanent | A torn file that no request holds open is never repaired: Init skips it, Delete leaves alone what was not loaded, and Put refuses a name that exists, over any number of requests and restarts. | WedgeIsForever |
| ToolsProofs!WirelessIsConsistent | Types, and what "failed" on screen says: the node's configuration is as it was before the save, however the calls of any number of browsers interleave and whichever calls fail. | WirelessConsistent |
| ToolsProofs!SavesLand | Without failing calls the saves of any number of browsers end with the configuration that was set last, and nothing is left staged. | EverySaveLands |
| ToolsProofs!SavedMeansLastSaved | "Saved" is shown only when the last field reached the configuration, whatever the order of the calls. | SuccessMeansLastSaved |
| ToolsProofs!StoreIsAtomic | The refinement, for any number of requests and any structs: with one POST at a time (GETs may overlap), no failing system call and no kill, the chain of system calls behind /config and /topo/position implements AtomicStore; a POST takes effect in the step that removes the old file or finds none. | ImplementsAtomicStore |
| ToolsProofs!BisectShowsTheLogs | For any number of nodes and logs of any length: after every line the table that routing_table_new copies and counts together is the routing table of the node, each route once; and in whatever order seqno_trace_add meets the receptions of an OGM, each hangs under the one it was passed on from, without circles. | BisectDatabase |
| AlfredProofs!AlfredIsConsistent | best_server of every daemon is a server that purge_data has not freed, through loss, duplicates, purges and changes of mode, for any number of daemons. | AlfredConsistent |
| AlfredProofs!DataIsForgotten | Data that no client writes any more disappears from every daemon within a few timeouts, for any number of daemons, timeouts and delays, while modes are fixed: no circle of daemons keeps it alive. | ForgottenEverywhere |
| AlfredTxProofs!TxIsConsistent | Buffers, packets and slots keep their types for any number of slots, versions, losses and repeats. | TxConsistent |
| AlfredTxProofs!AnswersAreFresh | With one request at a time, an answer given to the local client is one complete version, not older than what the server held when the request came. | AnswerIsFresh |
| AlfredTxProofs!TransactionsAreWhole | With one request at a time, what is stored after a push is one version in full, whichever packets are lost, repeated or overtake. | AppliedWhole |
| RoutesProofs!OgmIsConsistent | Types, link windows that say exactly which of the last W sequence numbers a neighbour delivered (across wraps, restarts and protection), a listed router: for every window size, number range, set of neighbours and order of arrival. | OgmConsistent |
| RoutesProofs!OgmPassedOnOnce | A distant originator's OGM is passed on at most once per neighbour, whatever copies arrive and in which order. | PassedOnOnce |
| RoutesProofs!HopsAreNodes | For any number of programs, slots and nodes, and answers that come late, in any order or never: a traceroute that shares its slot with nobody names the right node for every ttl or none, and ends early only because the target answered. | IcHopsAreNodes |
| RoutesProofs!VTypeCorrect | The variables of B.A.T.M.A.N. V routing keep their types and a next hop is always a neighbour of which something is known, across losses, restarts and timeouts. |  |
| RoutesProofs!VRoutesAreSound | For any nodes, links, throughputs and penalties, with OGMs lost or late and links that change, the next hops of B.A.T.M.A.N. V form no loop, no node stays with a neighbour BATADV_OGM_MAX_ORIGDIFF behind another, and an OGM is passed on once, as long as no OGM is BATADV_OGM_MAX_AGE numbers late (VTimely) and less than half the sequence numbers are used up. | VRoutesSound |
| RoutesProofs!VRoutesAreSoundInTime | The same without a hypothesis on behaviours: no more than BATADV_OGM_MAX_AGE OGMs, so none can be too late. | VRoutesSound |
| ForwQueueProofs!ForwInvHolds | The worker's packet is held and off its timer, and a purge visits packets of an interface that is out of use: the strengthening the other results rest on, for any number of interfaces and packets. |  |
| ForwQueueProofs!NoOgmIsForgotten | Every OGM packet that is held has its timer running or is in the worker's hands, for every interleaving of worker, purge and queueing. | NoOgmForgotten |
| ForwQueueProofs!SlotsAccounted | Slots left and OGMs of neighbours held add up to the queue length, wherever worker and purge meet, also when kmalloc fails. |  |
| ForwQueueProofs!ForwIsConsistent | While memory for own OGMs is found, every interface in use keeps its own OGM scheduled, and types and slots are kept. | ForwConsistent |
| MeshProofs!MetricTypeCorrect | The TQ of an OGM stays in a u8 over any path, for all packet counts of a window and all hop penalties. |  |
| MeshProofs!EveryHopCosts | With any hop penalty but 0 every hop strictly lowers a TQ that is not 0, whatever the link: no OGM comes back as good as it was sent. | StrictlyWorse |
| MeshProofs!FragInvHolds | In flight and in the reassembly buffers is nothing but fragments really cut from one packet each, counted right, for late fragments within one round of sequence numbers. |  |
| MeshProofs!FragDelivers | Only packets as they were sent are merged, each at most once, although completeness is judged by the sum of the sizes alone: for all sizes, lengths and orders of arrival, if fragments are late by no more packets than there are buffers. | FragDeliversAsSent |
| MeshProofs!WholeIsDelivered | A packet of which every fragment arrived while its buffer was its own was delivered, if memory can be had. | CompleteIsDelivered |
| MeshProofs!EchoesNeverHurt | For every TQ and all packet counts of a window, one more echo never lowers the TQ calc_tq passes on: the cut to a u8 and the two integer divisions are monotone. | MoreEchoesNeverWorse |
| MeshProofs!NcDelivers | What comes out of coding and decoding is, block for block, a packet that was sent, at the address it was sent to: for any mesh, packets of any lengths, whatever is lost, overheard, purged or coded again at the next hop. | NcDeliveredIsSent |
| MeshProofs!NcForwardsEach | For any mesh whose routes have no loop (NcLoopFree), packets of any lengths and any faults: whether packets meet and are coded, wait and are flushed, time out with their path, are missed or find no memory, a node that took a packet holds it once or sent it once, and holds none longer than two delays while its worker runs on time. | NcForwardsAll |
| MeshProofs!ElpIsSound | For any neighbours and ranges of numbers, however enabling, removing and measuring interleave with packets heard and lost: references are given back exactly once, the periodic work finds its packet and neither dies nor doubles, and a neighbour that restarts is heard within BATADV_ELP_MAX_AGE packets. | ElpWorks |
| ServicesProofs!CountersTrue | For any number of originators and groups, num_disabled and the want_all counters, which the handlers only move by one, are the sizes of what they count, after any sequence of OGMs, timeouts and orig_nodes that are freed late. |  |
| ServicesProofs!ListenersReached | For any number of originators and groups, mcast_forw_mode never keeps a packet from a node that announced the group, a want-all flag or no multicast optimisation, and the counters are 0 again when nobody is left. | McReachesListeners |
| ServicesProofs!MessagesTrue | For any nodes, addresses, candidates and requests, every message on its way is about what its request asks, and true of its sender and, for a reply, of its receiver; a broadcast that waits still has an address to ask from. |  |
| ServicesProofs!AnswersWereTrue | For any nodes, addresses, candidates, requests and faults, no answer and no cache entry of the distributed ARP table names a client that never had the address. |  |
| ServicesProofs!RequestsServed | For any nodes, addresses, candidates and requests: caches and answers are typed and true of some time, and a request that no loss, move or expiry disturbs is answered, or its broadcast was dropped with the answer in the cache of the node of the client that asked. | DatAnswers |
| ServicesProofs!GwIsConsistent | For any gateways, offers, link qualities and settings: the gateway a client has selected is still offered or about to be replaced unless a removal or a change of mode overlapped an election, user space was told of it, and only a server announces a bandwidth, no half of it zero. | GwConsistent |
| ServicesProofs!GwIsWithinClass | For any gateways, link qualities and classes above 2: once every listed gateway was heard and an election held since the last change, none is better than the selected one by the points the class asks for. | GwWithinClass |
| ServicesProofs!BlaIsConsistent | Bridge loop avoidance: for any finite sets of gateways and clients, any group ids, timeouts and lost claim frames, the checksum each gateway keeps of another, moved one client at a time, is the one of the clients its table gives that gateway, and num_requests counts the requests that are open. | BlaConsistent |
| ServicesProofs!RingWorksHolds | The choice of DAT candidates, for any ring, addresses, key, number of candidates and one order of the hash tables: a node finds as many candidates as there can be, and one that asks has a node in common with one that stored, when there are more candidates than originators a node may miss and it knows of most of the network. | RingWorks |
| ServicesProofs!RingMeetsApart | The same for hash tables in any orders, at any time no two nodes share a place on the ring: the order matters only for ties, for which batadv_is_orig_node_eligible has no rule. |  |
| TransTableProofs!TTInvHolds | The invariant of the translation table protocol: what is on its way carries a version number together with the table committed with it, the clients that are not NEW are those of the last version, and no number is used again while it is known; for any clients, receivers, losses and failed allocations. |  |
| TransTableProofs!FullTablesAreCommitted | A full table under way with a version number, sent by the originator or by any relay, is the table committed with that number, whatever client events come between the steps of the commit: for any number of clients and receivers, as long as the changes fit one container and the numbers do not come round. | FullIsCommitted |
| TransTableProofs!TTTypeCorrect | The tables, the list, the version, and what receivers hold and what is under way keep their types, and no more messages are under way than the bound says: on one CPU or several, with or without failed allocations, for any clients and receivers. |  |
| TransTableProofs!TTIsConsistent | No order of arrivals, departures and returns of clients within an interval cancels a change (batadv_tt_local_event) that the other nodes need: while the clients served differ from those of the last commit, another commit is asked for. For any number of clients, on one CPU, as long as allocations succeed, the originator interval is below the time a client is remembered, clients keep their flags and the changes fit one container; without any one of these the code does forget a change. | TTConsistent |

### Hypotheses beyond the ASSUMEs

* `ForwIsConsistent` and `WholeIsDelivered`: no allocation fails (`~AllocFails`). When
  one does, an own OGM is not queued again and a packet that is whole is
  dropped; section 4 has both. What these theorems conjoin beside (types, slots, `FragDeliversAsSent`) is
  proved without it.
* `FragInvHolds`: `FragWindow <= SeqMod`, `FragDelivers`: `FragWindow <= Buckets`.
  A fragment that is later than that meets its bucket in its second use, and a
  packet may be delivered twice (section 3, bounds): the theorem says exactly from where on.
* `AnswersAreFresh`, `TransactionsAreWhole`: a request packet arrives once
  at most; with two, `AppliedWhole` fails (section 4).
* `StoreIsAtomic`: no failing system call and no kill, and POSTs that run alone
  (`SerialSpec`). With races it fails (section 2).
* `TTInvHolds`, `FullTablesAreCommitted`: `2 * MaxEvents + 1 <= MaxDiff`, the
  changes of a run fit one container. Otherwise they stay on the
  list (T:944), every OGM makes a new version without a client event, and in a model with few
  numbers a version comes round while its table is under way. The code has 256
  numbers; the assumption stands for "no number comes round before what carries it is gone". The instance of
  the run `tt` (`MaxEvents = 2`, `MaxDiff = 3`) lies outside it, and the property holds there by TLC.
* `TTIsConsistent`: `Undisturbed`, that is one CPU, allocations that succeed, an originator interval
  below the ten minutes a client is remembered, clients that keep their WIFI flag, and
  `MaxEvents + 1 <= MaxDiff`. None can be left out: TLC finds `NoChangeForgotten` violated when any one of
  them is dropped (two of these traces are in section 4). `TTTypeCorrect` has no hypothesis.
* `DataIsForgotten`: the property speaks of daemons whose modes do not change
  (`switches = 0`); `AlfredIsConsistent` holds with changes.
* `OgmIsConsistent`: the range of restarts and the window fit twice into the numbers
  (`OgmAssumption`), as 65536 and 64 do into 2^32.
* `VRoutesAreSound`: `VFewOgms`, that is `BATADV_OGM_MAX_ORIGDIFF` is at least 1 (the code has 5) and the
  originator sends at most half of the sequence numbers (2^31 of them), so that they compare as they were sent; and
  `[]VTimely`: an OGM reaches a node before the originator has sent `BATADV_OGM_MAX_AGE`
  (64) more, a minute at the default interval. One that is later is taken for an OGM of an originator that
  restarted (`batadv_window_protected`), its number replaces a newer one, and TLC finds a loop (a triangle, `VMaxAge = 2`,
  three OGMs). With `VOrigDiff = 0` it finds one, too. `VRoutesAreSoundInTime` is the case in which
  `VMaxOgms <= VMaxAge` makes lateness impossible; the run `mesh` lies in it. The
  property itself speaks of times without restarts and purged neighbours (`vCalm`). `VTypeCorrect` has no hypothesis.
* `NcForwardsEach`: `NcLoopFree`, that is a number for each node and destination that the next hop
  lowers (its distance, say). On a loop a packet would come back to a node that has sent it, be taken
  again and be sent again, as it is without coding. The routes of the run (`ViaRelay`) have such
  numbers: 2, 1 and 0 hops. That
  routing gives such next hops at any one time is what `VRoutesAreSound` is about; the model of network coding keeps them fixed.
* `RingWorksHolds`: `RingEnough`, that is more candidates (3 in the code) than originators a node may not have
  heard of yet, which are less than half of all; with fewer candidates a node may ask only such as the other one
  does not know. `RingOneOrder`: the hash tables of originators are in one
  order. Without it nodes in one place of the ring are chosen differently (section 4); `RingMeetsApart` needs no
  order, and speaks of the times when no two nodes share a place.
* `ElpIsSound`: a neighbour is purged before half of its numbers have gone round
  (`ElpAssumption`); the code has 2^32 of them and purges after 200 seconds.

### The arguments

*GobDB.* `TornOnlyWhileWriting`, `NoTotalLoss` and `SomeUpdateWins` are not
inductive: they speak of the directory, and what keeps them true is what each
goroutine remembers. `UndisturbedInv` adds, for a server without failures:
the directory exists once a request got past `mkdir` (`LocatedInv`); each part
missing in the file is one that a request which has it open will still write
(`TornInv`); once something was stored or an update got that far, the key is
there or a request is on its way to Create (`PresentInv`); who holds a loaded
struct knows that one was stored (`LoadedInv`); the file of an earlier run is
whole, and gone once an update got past Delete (`OldFileInv`); and a value in
a file of this run is the struct of a POST that is or will be answered ok
(`ProvenanceInv`). The proof
has one step per action and, under it, one per part that the action disturbs.
`WedgePermanent` needs only the type invariant. For the refinement, `SerialInv` says that a POST is
alone (`Turns`) and that what a request saw of the file is still so
(`SeenBy`); then each system call maps to a step of the register or to a stutter.

*WirelessEdit.* The dialog's promises are about the node; `NothingLost` and
`SavesInTurn` say what the staging area owes to which browser at each place of its sequence of calls.

*AlfredNet.* `best_server` points to a known server because every action that
drops a server selects again. For `ForgottenEverywhere` each copy has a budget by
its level (`TakenStale`) and each frame by its kind (`SentStale`); an age and a budget together bound how stale
the data is. What makes the budgets finite is that copies move one way, `LOCAL` to `FIRST_HAND` to
`SYNCED`, which needs `RolesKept` (only masters announce, only slaves ask).

*AlfredTx.* `WholeInv`: under each id there is one version, and all packets on
their way, collected or asked for under that id are of it; an id not used yet is untouched.

*BatIvOgm.* `OgmInv`: the bitmap of a neighbour holds exactly the bits of the OGMs it
delivered, seen from the last number, and what was passed on for a neighbour was delivered by it. The
work is in the arithmetic of signed differences modulo a power of two
and in the shift of a window.

*MeshIcmp.* `IcInv`: a packet carries the slot of a client that has it, and what
a packet of the last request looks like at each place of the line (`OnItsWay`:
`ttl + at` is constant); answers to earlier requests have earlier numbers.

*ForwQueue.* `WorkerInv` says what the worker may assume of its packet, `PurgerInv` what a
purge that lost the lock may assume of those it listed. With them each step moves
`OgmSlotsAccounted` and `NoOgmForgotten` by a case on the packet it touches.

*TqMetric.* The lemmas bound each factor of the product in `calc_tq`, then the quotient; the
hop penalty takes off at least one unless the TQ is 0. `EchoesNeverHurt` is monotonicity of each of the
operations in turn (`DivMonotone`, `TqOwnMonotone`, `CalcTqMonotone`).

*Fragmentation.* Completeness is judged by the sum of sizes, so `ChainSound` says that the sum counts
the units of the packet that are there (`Units`): fragments of a packet never share a unit, and
all units make all fragments. `HandedOver` and `Collected` carry the two properties through the reuse of a bucket.

*NetworkCoding.* `NcCarried`: every entry of a coding or decoding path and every frame is a packet that
was sent, with its address, or two of them set against each other (`NcMixed`). `NcCodes`
and `NcDecodes` are the algebra: the exclusive or over the shorter length does not depend on which packet
is the longer, and with one of the two the other comes out, the tail cut when it is the
shorter. The rest shows that paths keep their entries (`NcAdds`, `NcTakes`, `NcAges`,
`NcPurges`, `NcProcesses`) and that each way a packet leaves a node puts such frames on the air
(`NcForwards`, `NcFlushes`). That checksums name packets is an abstraction of the model: a collision is left out.
For `NcForwardsAll`, `NcPlaces` says where each packet is: not sent yet; on the air towards one node, once; held in one
entry of one path of one node; or at its destination (`NcPlace`). A node has sent the packet once if it took it and holds it no more, and
not at all otherwise. What makes that inductive is the distance: the packet is on its way to, or held by, a node
nearer than all that have sent it (`NcLastToTake`), so nobody takes it twice, and a coded frame, which
both of its receivers and everybody around hear, counts as two packets on the way, one for each. `NcTidied` is what the steps of
one node need: a packet has one entry (`NcOneSpot`), on the path of its own next hop. Every step of a forwarder is then
shown to be fair (`NcFairly`): what it holds and what it sends afterwards is what it held and took before, each once. The flush was the
hard part: it sends in some order what is overdue on all paths (`FlushOrders`), and what is overdue on a path is a prefix, because
that is all the code looks at. `NcWaits` is about time: a path is sorted by age (`NcSorted`), so the prefix that is flushed is
everything that is overdue, and nothing is older than one delay plus the time since the last flush (`NcOnTime`), which is at most another delay.

*BatVOgm.* An invariant of each node would not do, since a loop is a matter of what several of them believe
at different times. `VFlood` ties an entry to what its neighbour did: a neighbour whose number `s` a node
keeps did pass `s` on, and when that is its last one, with at least the throughput kept (`Claim`). It takes a witness `g`,
the throughput and the place in the flood of the last OGM each node passed on, which the code does not
store. `VNotWorse` says that a node whose next hop gave it the OGM it passed on last has not become worse off
since, and if it is just as well off, that its next hop passed that OGM on before it did. Both hold because a router is replaced
for the same number only by one that is strictly better, and a number is passed on only when the OGM
is the router's (`v_ogm_orig_update`, `last_seqno_forwarded`). So each hop leads to a newer number, or the
same with more throughput, or the same of both and an earlier place (`NextIsNearer`), an order that has no loop
(`AllHopsAreNearer`, along the recursion of `Hops`). `VInOrder` is what the carrying of frames has to give: an OGM
is newer than what is known of its sender, and alone on its way.

*BatVElp.* References cannot be counted without knowing that a work is queued once, and that cannot be
known without the order of the queue: `ElpLine` says that the periodic work is behind the
measurements its last run queued, so the queue is empty when it runs again (`ElpOnePeriodic`), and a
reference taken for a work is always one that will be given back (`ElpHeld`). `ElpNear` is the
argument for neighbours that restart: each packet that is ignored brings the number one nearer to the last one
taken, and one that is lost does so too, but then the neighbour is missed.

*Multicast.* `McReachesListeners` speaks of what the sender computes from five
counters; the invariant `McInv` says that they are cardinalities (`McCounts`), which needs
that an originator never heard is in none of them (`McStates`). The lemmas
`OgmKeeps` and `PurgeKeeps` compare each way `disabled_after` can go with an originator
that enters or leaves the set; `NobodyPassedOver` then looks at the sum of three
numbers, one of which counts the node that wants the packet.

*DistributedArp.* `DatAnswerWasTrue` is about caches and answers; what fills them
is on its way, so `DatInv` adds what every message has to be (`TrueMsg`), that
a request keeps its question, and that a client whose broadcast waits keeps the
address it asks from. Nothing is assumed of `DatCandidates`: the theorem holds
wherever copies are stored. That a request is answered (`DatServed`, in `DatAnswers`)
needs to know how: as long as `datFaults` is 0 nobody but the owners is on record
(`TrulyOwned`) and no entry is taken from a cache (`CachesKeep`), so what a cache says of an
address is who has it. `QuietInv` then follows one message per request: the broadcast to the owner's
node, the owner's answer, or that node's answer from its cache (`OnItsWay`); the
stored copies and the questions to candidates can come at any time and are not
needed. The handler that drops an answer about one of the node's own clients
does no harm because client and owner are at different nodes (`Apart`).

*DatRing.* `RingSide`: after any number of rounds the candidates of a node are the first of those it knows, by their
places and, in one place, by the walk (`RingFirst`), and there is one for each round unless it has run out of
nodes. The last part is what `last_max` puts at risk, which cuts off
whoever lies beyond the last choice: nobody who is still open may lie there, also when several share that place.
Within a round, `RingBestOf` says what has been found after some of the walk. That two nodes meet is then
counting: one that has chosen all it knows has most of the network; one that has not has more candidates
than there are nodes the other misses. If they had nobody in common, each would have passed over a node that the
other chose, and of these two each would come before the other.

*Gateways.* `Settled` says, for each of the four steps of an election that nothing
overlapped, what the pointers of the worker are worth; `Fitting` says who of the
listed gateways is within the class at each of them.

*BridgeLoopAvoidance.* The state of one gateway is right (`BlaRight`) if each checksum is the set of clients
its table gives that gateway, requests are counted and a gateway that is not listed has nothing. There is one
lemma per function of the source, `BlaGood` before and after; the places where a client enters one
set and leaves another are `BlaAddsClaim`, `BlaReleases` and `BlaPurges`. No step of another gateway is
needed: frames may be lost, late or about anything of their type. That the gateways agree in the end
(`BlaSettles`) does depend on each other's timers.

*TransTable.* `TTInv`: away from the middle of a commit the clients that are not
NEW are those of the last version (`Agreed`); what carries a version carries its table (`Carried`); each commit used up
an event, so numbers have not come round (`Spent`); and the list is emptied by each commit (`Waiting`).
`ListInv` is about the list alone: between two commits a client that nobody was told of has exactly one ADD on
it, one that was announced has DELs only and one if it is leaving, and one that is not in the table is not on
the list (`Told`). The lemma `QueuedShape` says what the function that cancels opposite changes makes of
a list; `OthersStay` and `OwnChange` draw from it what each client's part becomes.

*BisectDb.* `BsHolds` relates a table and the routes: the entries that are not deleted are the routes, once each.
The new table is made by counting, so the proof counts too: what is carried over has as many entries as the old table
has left (`BsKept`), for a changed route there is room for neither more nor less (`BsChanges`), and for a new route there is
room for one more (`BsAddsRoute`). That a route there has an entry which is not deleted
(`BsHolds`) is what makes the second count right: a deleted one would be counted and not copied. No route is logged
before an OGM of that originator (`BsRoutesInv`), or `routing_table_new` would give up and lose the
change. For the trace, every node passed on one copy and none of them in a circle (`BsFlow`): a set of nodes
that had the OGM only from each other would not have it. So a reception has one parent, and a circle
in the tree would be a circle of nodes (`BsTreeOf`, `BsTraceImplies`).

Where a function of the code walks over a list (`batadv_gw_get_best_gw_node`, `batadv_gw_node_purge`,
`batadv_tt_tvlv_container_update`,
`batadv_nc_process_nc_paths`, `batadv_choose_next_candidate`, `routing_table_new`) the model is a recursive function, and the proofs
reason about it without an induction theorem: a set of positions where a claim fails has a
smallest member (`SmallestNumber`), and the step there contradicts it.

### Left to TLC

* Liveness: `PurgeEnds`, `SilentRouterReplaced`, `Synced`, and the promise bounded by periods `BlaSettles`,
  which holds by the order in which timers and frames meet.
* `BisectCircleIsFound`: `BisectIv` follows functions that call themselves with
  recursive operators, which the provers do not take.

## 6. Not modelled

Listed with reasons in `components`. In the modelled parts these are left out:
the content of data sets and frames, names and formatting; checksum
collisions; several VLANs, multicast, temporary and roaming clients of the translation table;
more than one outgoing interface per originator; memory reuse of list nodes
(the purge's `safe_tmp_node` after it dropped the lock, S:656-686); the statement between
the listing of a packet and the initialisation of its work (O:693-703); the list of
broadcasts that bridge loop avoidance has seen; the DHCP packets the gateway
client looks into; the probing of wireless links by unicast packets.

Hazards that no property covers are in `hazards` with a note. Beside them:
two refreshes of the topology may answer in the other order (`routing.js:197`);
alfred's main loop goes back to `select` after each packet and may starve its
housekeeping (`server.c:398`); a route may change between two fragments
(F:351); `batadv_tt_local_resize_to_mtu` halves a timeout until the table fits (T:3571).

## 7. Plan

Done: GobDB, WirelessEdit, AlfredNet, AlfredTx, BatIvOgm, TqMetric, ForwQueue,
Fragmentation, TransTable, BisectDb, Gateways, DistributedArp, DatRing, Multicast, MeshIcmp, NetworkCoding, BatVElp, BatVOgm and
BridgeLoopAvoidance with proofs of the properties their runs check, but those of section 5, "Left to TLC";
BisectIv with TLC alone.

Next modules: `Roaming` (T:701-730, 1078-1138, 1791-1900, 3081-3240), a client
that moves between two nodes of TransTable; `LinkEcho` (O:863-960, 1619-1701),
own OGMs coming back, joined with BatIvOgm.

----------------------------- MODULE TransTable -----------------------------
(***************************************************************************)
(* The translation table protocol of batman-adv (translation-table.c): how *)
(* the other nodes of the mesh learn which clients an originator serves.   *)
(*                                                                         *)
(* One originator keeps a local table and a list of changes.  Once per     *)
(* originator interval it commits them: the version number (ttvn) grows,   *)
(* and the next OGMs carry the version, a checksum of the table and, for   *)
(* some OGMs, the changes.  Each receiver applies changes when it is one   *)
(* version behind, compares checksums, and asks for the changes or for the *)
(* whole table otherwise.  A request is answered by the originator, or by  *)
(* a receiver on the way that holds the wanted version.                    *)
(*                                                                         *)
(* The checksum is modelled as the table it is computed from: collisions   *)
(* are left out.  All clients are on one VLAN.  Roaming, temporary and     *)
(* multicast clients are not in this module.                               *)
(*                                                                         *)
(* On one CPU a handler runs with bottom halves disabled and is one step.  *)
(* On several (SMP) client events fall between the steps of a commit; a    *)
(* removal that no lock spans, an update that stores its checksum last and *)
(* a relay that checks first and copies later are steps of their own.      *)
(* Client events come one after another, and so do the updates of tables,  *)
(* which commute.                                                          *)
(***************************************************************************)
EXTENDS Integers, Sequences, FiniteSets, SequencesExt, Functions, TLC

CONSTANTS
  Hosts,       \* clients that come and go
  Mac,         \* the address of the mesh interface, never removed (NOPURGE)
  Zero,        \* the all-zero address, which no client has
  Receivers,   \* the other nodes
  None,        \* a null pointer
  VnMod,       \* the ttvn is a u8: 256
  FirstVns,    \* the originator's ttvn when the behaviour starts
  AppendMax,   \* BATADV_TT_OGM_APPEND_MAX
  MaxDiff,     \* changes that fit the MTU of the mesh interface
  Wifis,       \* values the WIFI flag of a client takes
  Junk,        \* what memory that is not initialised may hold, read as changes
  LongInterval,  \* the originator interval exceeds BATADV_TT_LOCAL_TIMEOUT
  SMP,         \* nodes have several CPUs
  AllocFails,  \* kmalloc(GFP_ATOMIC) may fail
  MaxEvents,   \* bound: local events, and containers not allocated
  MaxLost,     \* bound: routes lost and originators forgotten
  MaxMsgs,     \* bound: requests and responses in flight
  MaxOgms      \* bound: different OGMs in flight

ASSUME ConstantsOK ==
  /\ VnMod \in Nat /\ VnMod > 2 /\ FirstVns \subseteq 0..(VnMod - 1)
  /\ {AppendMax, MaxDiff, MaxEvents, MaxLost, MaxMsgs, MaxOgms} \subseteq Nat
  /\ MaxEvents + 1 < VnMod
  /\ Wifis \subseteq BOOLEAN /\ {LongInterval, SMP, AllocFails} \subseteq BOOLEAN
  /\ Mac \notin Hosts /\ Zero \notin Hosts \cup {Mac}

VARIABLES
  local,      \* the local table: client -> its flags
  changes,    \* changes_list
  count,      \* local_changes
  owed,       \* the update of local_changes that follows a list operation
  vn,         \* the ttvn
  crc,        \* the checksum of the last commit
  lastset,    \* last_changeset
  append,     \* ogm_append_cnt
  commit,     \* the next step of a running commit, and the count it has read
  container,  \* the TVLV that OGMs carry
  ogms,       \* OGMs in flight
  msgs,       \* requests and responses in flight
  recv,       \* the receivers' orig_node for the originator
  leave,      \* the removal of a NEW client that is under way
  surplus,    \* num_entries of the VLAN, less the clients that count in it
  relay,      \* the relay that has checked a request and copies its table next
  upd,        \* the update of a receiver whose checksum is still to be stored
  committed,  \* history: the table of each ttvn
  gone,       \* history: clients of a ttvn removed although it announces them
  events, lost

vars == <<local, changes, count, owed, vn, crc, lastset, append, commit,
          container, ogms, msgs, recv, leave, surplus, relay, upd, committed,
          gone, events, lost>>
ownVars == <<local, changes, count, owed, vn, crc, lastset, append, commit,
             container, leave, surplus, committed, gone, events>>
smpVars == <<leave, surplus, relay, upd, gone>>

Addrs == Hosts \cup {Mac, Zero}
Change == [addr : Addrs, del : BOOLEAN, wifi : BOOLEAN]
Table == UNION {[S -> BOOLEAN] : S \in SUBSET Addrs}
NoTable == [a \in {} |-> FALSE]

\* A table is no null pointer, and there are finitely many addresses.
ASSUME TablesOK == None \notin Table /\ IsFiniteSet(Hosts) /\ Junk \subseteq Change
Entry == [new : BOOLEAN, pend : BOOLEAN, wifi : BOOLEAN]
Steps == {"idle", "purge", "crc", "count", "drain"}
Request == [type : {"request"}, node : Receivers, ttvn : 0..(VnMod - 1),
            crc : Table, full : BOOLEAN]
Response == [type : {"response"}, node : Receivers, from : Receivers \cup {Mac},
             ttvn : 0..(VnMod - 1), full : BOOLEAN, torn : BOOLEAN,
            changes : Seq(Change)]

\* What the type invariant says of the receivers, of the container and of the
\* messages; a table and the changes that describe it are the same data.
OrigNode == [known : BOOLEAN, table : Table, has : BOOLEAN, last : 0..(VnMod - 1),
             buff : {None} \cup Seq(Change), waiting : BOOLEAN]
Carrier == [ttvn : 0..(VnMod - 1), crc : Table, diff : Seq(Change)]
Removal == [ch : Change, step : {"event", "hash"}]
Copying == [node : Receivers, msg : Request, whole : BOOLEAN, was : OrigNode,
            crossed : BOOLEAN]
Update == [node : Receivers, crc : Table, ogm : {None} \cup Carrier]

\* The whole table as the entries of a full response.
Entries(t) == SetToSeq({[addr |-> a, del |-> FALSE, wifi |-> t[a]] :
                          a \in DOMAIN t})
-----------------------------------------------------------------------------
(* Local events.                                                           *)

\* batadv_tt_local_event: a change of the opposite kind on the list is
\* removed, and with it the new one; a second ADD updates the flags of the
\* first and is appended all the same.
Queued(list, ch) ==
  LET same == {i \in 1..Len(list) : list[i].addr = ch.addr}
      opposite == {i \in same : list[i].del # ch.del}
      first == CHOOSE i \in opposite : \A j \in opposite : i <= j
      flagged == [i \in 1..Len(list) |->
                    IF /\ i \in same /\ ~ch.del /\ ~list[i].del
                       /\ \A j \in opposite : i < j
                    THEN ch ELSE list[i]]
  IN  IF opposite = {} THEN Append(flagged, ch) ELSE RemoveAt(flagged, first)

ChangeOf(a, del, w) == [addr |-> a, del |-> del, wifi |-> w]

\* An event whose node cannot be allocated is dropped.
Stored(chs) ==
  {chs} \cup (IF AllocFails THEN {SubSeq(chs, i, j) : i \in 1..Len(chs),
                                                       j \in 0..Len(chs)}
                            ELSE {})

\* The list after the events chs: batadv_tt_local_add raises two at most.
AllQueued(list, chs) ==
  LET once == IF chs = << >> THEN list ELSE Queued(list, chs[1])
  IN  IF Len(chs) < 2 THEN once ELSE Queued(once, chs[2])

\* The list operation of the events chs.  local_changes is updated after the
\* lock of the list is released: by one for each change added or removed.
Events(chs) ==
  \E st \in Stored(chs) :
    /\ changes' = AllQueued(changes, st)
    /\ owed' = Len(changes') - Len(changes)

\* The rest of batadv_tt_local_event.
Account ==
  /\ owed # 0 /\ count' = count + owed /\ owed' = 0
  /\ UNCHANGED <<local, changes, vn, crc, lastset, append, commit, container,
                 ogms, msgs, recv, smpVars, committed, events, lost>>

\* A commit holds a spinlock with bottom halves disabled: on one CPU no
\* client event comes in between.
Event ==
  /\ owed = 0 /\ (SMP \/ commit.step = "idle") /\ events < MaxEvents
  /\ events' = events + 1
  /\ UNCHANGED <<count, vn, crc, lastset, append, commit, container, ogms,
                 msgs, recv, surplus, relay, upd, committed, gone, lost>>

\* No client is half removed.
Settled == leave = None /\ UNCHANGED leave

\* batadv_tt_local_add: a frame of client c is seen.
LocalAdd(c, w) ==
  /\ Event /\ Settled
  /\ IF c \notin DOMAIN local
     THEN /\ local' = [d \in {c} \cup DOMAIN local |->
                         IF d = c THEN [new |-> TRUE, pend |-> FALSE, wifi |-> w]
                                  ELSE local[d]]
          /\ Events(<<ChangeOf(c, FALSE, w)>>)
     ELSE LET e == local[c]
              again == IF e.pend THEN <<ChangeOf(c, FALSE, e.wifi)>> ELSE << >>
              flags == IF e.wifi # w THEN <<ChangeOf(c, FALSE, w)>> ELSE << >>
          IN  /\ again \o flags # << >>
              /\ local' = [local EXCEPT ![c].pend = FALSE, ![c].wifi = w]
              /\ Events(again \o flags)

\* batadv_tt_local_purge: c has not been seen for BATADV_TT_LOCAL_TIMEOUT,
\* ten minutes; a NEW client only when commits are that far apart.
LocalPurge(c) ==
  /\ Event /\ Settled /\ c \in DOMAIN local /\ ~local[c].pend
  /\ local[c].new => LongInterval /\ commit.step = "idle"
  /\ local' = [local EXCEPT ![c].pend = TRUE]
  /\ Events(<<ChangeOf(c, TRUE, local[c].wifi)>>)

\* batadv_tt_local_remove: another originator announces c.
LocalRemove(c) ==
  /\ Event /\ Settled /\ c \in DOMAIN local /\ ~(SMP /\ local[c].new)
  /\ local' = IF local[c].new THEN Restrict(local, DOMAIN local \ {c})
                              ELSE [local EXCEPT ![c].pend = TRUE]
  /\ Events(<<ChangeOf(c, TRUE, local[c].wifi)>>)

\* No lock spans the removal of a NEW client: its flag is read,
LeaveBegins(c) ==
  /\ SMP /\ leave = None /\ owed = 0 /\ events < MaxEvents
  /\ c \in DOMAIN local /\ local[c].new
  /\ leave' = [ch |-> ChangeOf(c, TRUE, local[c].wifi), step |-> "event"]
  /\ UNCHANGED <<local, changes, count, owed, vn, crc, lastset, append, commit,
                 container, ogms, msgs, recv, surplus, relay, upd, committed,
                 gone, events, lost>>

\* the change is queued,
LeaveEvent ==
  /\ leave # None /\ leave.step = "event" /\ Event /\ Events(<<leave.ch>>)
  /\ leave' = [leave EXCEPT !.step = "hash"]
  /\ UNCHANGED local

\* and the client is taken out of the hash.  When a commit has come in between,
\* it has counted the client, and nothing takes that back.
LeaveHash ==
  LET c == leave.ch.addr
      announced == c \in DOMAIN local /\ ~local[c].new
  IN  /\ leave # None /\ leave.step = "hash" /\ owed = 0 /\ leave' = None
      /\ local' = Restrict(local, DOMAIN local \ {c})
      /\ surplus' = surplus + (IF announced THEN 1 ELSE 0)
      /\ gone' = [gone EXCEPT ![vn] = @ \cup (IF announced THEN {c} ELSE {})]
      /\ UNCHANGED <<changes, count, owed, vn, crc, lastset, append, commit,
                     container, ogms, msgs, recv, relay, upd, committed, events,
                     lost>>

-----------------------------------------------------------------------------
(* The commit, run by the worker that prepares the next OGM.               *)

Step(s) == commit' = [step |-> s, n |-> 0]
\* The OGM with the container c goes out; older ones are lost when there are
\* too many.
SendOgm(c) ==
  ogms' = IF Cardinality(ogms \cup {c}) <= MaxOgms THEN ogms \cup {c} ELSE {c}
Counted == SMP \/ owed = 0

\* No changes: the container is kept for AppendMax more OGMs, and then
\* updated, which leaves the changes out.
CommitNothing ==
  /\ commit.step = "idle" /\ Counted /\ count < 1
  /\ IF append > 0
     THEN append' = append - 1 /\ SendOgm(container)
          /\ UNCHANGED commit
     ELSE Step("count") /\ UNCHANGED <<append, ogms>>
  /\ UNCHANGED <<local, changes, count, owed, vn, crc, lastset, container,
                 msgs, recv, smpVars, committed, events, lost>>

\* Mutant: clients stay NEW.
CommitFlagsKept ==
  /\ commit.step = "idle" /\ Counted /\ count >= 1
  /\ Step("purge")
  /\ UNCHANGED <<local, changes, count, owed, vn, crc, lastset, append,
                 container, ogms, msgs, recv, smpVars, committed, events, lost>>

\* batadv_tt_local_set_flags: the NEW flags are cleared.
CommitFlags ==
  /\ commit.step = "idle" /\ Counted /\ count >= 1
  /\ local' = [c \in DOMAIN local |-> [local[c] EXCEPT !.new = FALSE]]
  /\ Step("purge")
  /\ UNCHANGED <<changes, count, owed, vn, crc, lastset, append, container,
                 ogms, msgs, recv, smpVars, committed, events, lost>>

\* batadv_tt_local_purge_pending_clients
CommitPurge ==
  /\ commit.step = "purge"
  /\ local' = Restrict(local, {c \in DOMAIN local : ~local[c].pend})
  /\ Step("crc")
  /\ UNCHANGED <<changes, count, owed, vn, crc, lastset, append, container,
                 ogms, msgs, recv, smpVars, committed, events, lost>>

\* batadv_tt_local_valid and batadv_tt_local_crc: clients that are not NEW.
Valid == {c \in DOMAIN local : ~local[c].new}

\* The whole table, for a full response.
LocalTable == [c \in Valid |-> local[c].wifi]

\* batadv_tt_local_update_crc and the new ttvn.
CommitCrc ==
  /\ commit.step = "crc"
  /\ crc' = [c \in Valid |-> local[c].wifi]
  /\ vn' = (vn + 1) % VnMod
  /\ committed' = [committed EXCEPT ![vn'] = crc']
  /\ gone' = [gone EXCEPT ![vn'] = {}]
  /\ append' = AppendMax /\ Step("count")
  /\ UNCHANGED <<local, changes, count, owed, lastset, container, ogms, msgs,
                 recv, leave, surplus, relay, upd, events, lost>>

\* batadv_tt_tvlv_container_update reads local_changes before it takes the
\* lock of the list.
CommitCount ==
  /\ commit.step = "count" /\ Counted
  /\ commit' = [step |-> "drain", n |-> count]
  /\ UNCHANGED <<local, changes, count, owed, vn, crc, lastset, append,
                 container, ogms, msgs, recv, smpVars, committed, events, lost>>

Container(diff) == [ttvn |-> vn, crc |-> crc, diff |-> diff]

\* Too many changes, or none: the container has no changes, and the list is
\* left as it is.
DrainNothing(n) ==
  /\ n < 1 \/ n > MaxDiff
  /\ container' = Container(<< >>)
  /\ UNCHANGED <<changes, count, lastset>>

\* The first n changes are sent and the list is emptied.  When the list is
\* shorter than n, the rest of the buffer holds what was in memory before, and
\* zeros in the copy that is kept for requests.
DrainList(n) ==
  LET taken == SubSeq(changes, 1, IF n < Len(changes) THEN n ELSE Len(changes))
      short == n - Len(taken)
      zeros == [i \in 1..short |-> ChangeOf(Zero, FALSE, FALSE)]
  IN  /\ n >= 1 /\ n <= MaxDiff
      /\ \E junk \in [1..short -> Junk] : container' = Container(taken \o junk)
      /\ changes' = << >> /\ count' = 0
      /\ lastset' \in IF taken = << >> THEN {None}
                      ELSE {taken \o zeros} \cup (IF AllocFails THEN {None} ELSE {})

\* The rest of batadv_tt_tvlv_container_update; the container goes out with the
\* OGM that is prepared next.
CommitDrain ==
  /\ commit.step = "drain"
  /\ \/ (DrainNothing(commit.n) \/ DrainList(commit.n)) /\ UNCHANGED events
     \/ /\ AllocFails /\ events < MaxEvents /\ events' = events + 1
        /\ UNCHANGED <<changes, count, lastset, container>>
  /\ Step("idle")
  /\ SendOgm(container')
  /\ UNCHANGED <<local, owed, vn, crc, append, msgs, recv, smpVars, committed,
                 lost>>

-----------------------------------------------------------------------------
(* The receivers.                                                          *)

\* batadv_orig_node_new
NewNode == [known |-> FALSE, table |-> NoTable, has |-> FALSE, last |-> 0,
            buff |-> None, waiting |-> FALSE]

\* Mutant: checksums are not compared.
CrcIgnored(n, stored, c) == n.table # NoTable

\* batadv_tt_global_crc is only stored for a VLAN with entries.  stored is what
\* n has stored.
CrcMatches(n, stored, c) == n.table # NoTable /\ stored = c

\* batadv_tt_global_add for a client of no other node: flags are added, never
\* taken away.
Added(t, ch) ==
  [a \in DOMAIN t \cup {ch.addr} |->
     IF a = ch.addr THEN ch.wifi \/ (a \in DOMAIN t /\ t[a]) ELSE t[a]]

\* What may come of one change.  For a new client the allocation of the entry
\* may fail, which ends the update, or that of its list of originators, which
\* is not noticed.
Applied(u, ch) ==
  IF ~u.done THEN {u}
  ELSE IF ch.del
  THEN {[u EXCEPT !.table = Restrict(@, DOMAIN @ \ {ch.addr})]}
  ELSE {[u EXCEPT !.table = Added(@, ch)]} \cup
       (IF AllocFails /\ ch.addr \notin DOMAIN u.table
        THEN {u, [u EXCEPT !.done = FALSE]} ELSE {})

\* _batadv_tt_update_changes
Updates(t, chs) ==
  LET after[i \in 0..Len(chs)] ==
        IF i = 0 THEN {[table |-> t, done |-> TRUE]}
        ELSE UNION {Applied(u, chs[i]) : u \in after[i - 1]}
  IN  after[Len(chs)]

\* batadv_tt_save_orig_buffer
Buffers(n, chs) ==
  IF chs = << >> THEN {n.buff}
  ELSE {chs} \cup (IF AllocFails THEN {None} ELSE {})

\* batadv_tt_update_changes
Changed(n, chs, ttvn) ==
  UNION {{[n EXCEPT !.table = u.table, !.has = n.has \/ u.done, !.buff = b, !.last = ttvn] :
            b \in Buffers(n, chs)} : u \in Updates(n.table, chs)}

\* batadv_tt_fill_gtable
Filled(n, chs, ttvn) ==
  {[n EXCEPT !.table = u.table, !.has = u.done, !.buff = None, !.last = ttvn] :
     u \in Updates(NoTable, chs)}

\* A request in the hands of a relay is still in flight.
InFlight == Cardinality(msgs) + (IF relay = None THEN 0 ELSE 1)

\* batadv_send_tt_request: the node that marks a request as unanswered is
\* removed when the request has been sent, and kept when it has not.
Ask(r, n, o, full) ==
  LET m == [type |-> "request", node |-> r, ttvn |-> o.ttvn, crc |-> o.crc,
            full |-> full]
  IN  \/ /\ n.waiting \/ InFlight >= MaxMsgs
         /\ recv' = [recv EXCEPT ![r] = n] /\ UNCHANGED msgs
      \/ /\ ~n.waiting /\ InFlight < MaxMsgs
         /\ recv' = [recv EXCEPT ![r] = n] /\ msgs' = msgs \cup {m}
      \/ /\ ~n.waiting /\ AllocFails
         /\ recv' = [recv EXCEPT ![r] = [n EXCEPT !.waiting = TRUE]]
         /\ UNCHANGED msgs

\* batadv_tt_update_orig: the OGM carries the next version.  The comparison is
\* one of ints, so 0 does not follow 255.
IsNext(n, o) == (~n.has /\ o.ttvn = 1) \/ o.ttvn - n.last = 1
Heard(r) == [recv[r] EXCEPT !.known = TRUE]
OgmUnchanged == UNCHANGED <<ownVars, ogms, lost>>

\* A relay that is copying the table of r copies some of the new one.
Cross(r) == relay' = IF relay # None /\ relay.node = r
                     THEN [relay EXCEPT !.crossed = TRUE] ELSE relay

\* The table, the buffer and the version are written, the checksum is not: until
\* then the one of the table old is stored, and tt_lock is held.
Begin(r, n, old, o) ==
  /\ recv' = [recv EXCEPT ![r] = n]
  /\ upd' = [node |-> r, crc |-> old, ogm |-> o]

\* After an update that an OGM asked for, its checksum is compared.
Judge(r, n, o) ==
  IF CrcMatches(n, n.table, o.crc)
  THEN recv' = [recv EXCEPT ![r] = n] /\ UNCHANGED msgs
  ELSE Ask(r, n, o, TRUE)

ApplyDiff(r, o) ==
  /\ IsNext(Heard(r), o) /\ o.diff # << >>
  /\ \E n \in Changed(Heard(r), o.diff, o.ttvn) :
       IF SMP THEN Begin(r, n, recv[r].table, o) /\ UNCHANGED msgs
              ELSE Judge(r, n, o) /\ UNCHANGED upd
  /\ Cross(r) /\ OgmUnchanged

Updating(r) == upd # None /\ upd.node = r

\* batadv_tt_global_update_crc, and what follows it
Finish ==
  LET r == upd.node
  IN  /\ upd # None /\ upd' = None
      /\ IF upd.ogm # None THEN Judge(r, recv[r], upd.ogm)
         ELSE recv' = [recv EXCEPT ![r].waiting = FALSE] /\ UNCHANGED msgs
      /\ UNCHANGED <<ownVars, ogms, relay, lost>>

AskDiff(r, o) ==
  /\ IsNext(Heard(r), o) /\ o.diff = << >>
  /\ Ask(r, Heard(r), o, FALSE)
  /\ OgmUnchanged /\ UNCHANGED <<relay, upd>>

\* Mutant: equal version numbers are taken for equal tables.
CompareVersions(r, o) ==
  LET n == Heard(r)
  IN  /\ ~IsNext(n, o)
      /\ IF ~n.has \/ o.ttvn # n.last THEN Ask(r, n, o, TRUE)
         ELSE recv' = [recv EXCEPT ![r] = n] /\ UNCHANGED msgs
      /\ OgmUnchanged /\ UNCHANGED <<relay, upd>>

Compare(r, o) ==
  LET n == Heard(r)
  IN  /\ ~IsNext(n, o)
      /\ IF ~n.has \/ o.ttvn # n.last \/ ~CrcMatches(n, n.table, o.crc)
         THEN Ask(r, n, o, TRUE)
         ELSE recv' = [recv EXCEPT ![r] = n] /\ UNCHANGED msgs
      /\ OgmUnchanged /\ UNCHANGED <<relay, upd>>

\* batadv_tt_tvlv_ogm_handler_v1: also run for repeated and for late OGMs.
HandleOgm(r, o) ==
  upd = None /\ (ApplyDiff(r, o) \/ AskDiff(r, o) \/ Compare(r, o))

\* History: a response is torn when its relay was crossed.
Reply(m, from, ttvn, full, torn, chs) ==
  [type |-> "response", node |-> m.node, from |-> from, ttvn |-> ttvn,
   full |-> full, torn |-> torn, changes |-> chs]
Answer(m, from, ttvn, full, chs) ==
  msgs' = (msgs \ {m}) \cup {Reply(m, from, ttvn, full, FALSE, chs)}

\* batadv_send_my_tt_response takes the lock of the commit.  The room for the
\* table is what num_entries says; what stays of it is not initialised.  An empty
\* table is not sent.
OwnAnswer(m) ==
  /\ m.type = "request" /\ commit.step = "idle"
  /\ IF m.full \/ vn # m.ttvn \/ lastset = None
     THEN IF Valid = {} /\ surplus = 0 THEN msgs' = msgs \ {m}
          ELSE \E junk \in [1..surplus -> Junk] :
                 Answer(m, Mac, vn, TRUE, Entries(LocalTable) \o junk)
     ELSE Answer(m, Mac, m.ttvn, FALSE, lastset)
  /\ UNCHANGED <<ownVars, ogms, recv, relay, upd, lost>>

\* batadv_send_other_tt_response: a receiver on the way has the version that is
\* asked for, as its version and its stored checksum say.
RelayHas(r, m) ==
  LET n == recv[r]
      stored == IF Updating(r) THEN upd.crc ELSE n.table
  IN  /\ m.type = "request" /\ m.node # r
      /\ n.known /\ n.last = m.ttvn /\ CrcMatches(n, stored, m.crc)

\* It answers then, and forwards the request otherwise.
RelayAnswer(r, m) ==
  LET n == recv[r]
  IN  /\ ~SMP /\ RelayHas(r, m)
      /\ IF m.full \/ n.buff = None
         THEN Answer(m, r, m.ttvn, TRUE, Entries(n.table))
         ELSE Answer(m, r, m.ttvn, FALSE, n.buff)
      /\ UNCHANGED <<ownVars, ogms, recv, relay, upd, lost>>

\* Neither tt_lock nor any other lock spans the check
RelayCheck(r, m) ==
  /\ SMP /\ relay = None /\ RelayHas(r, m) /\ msgs' = msgs \ {m}
  /\ relay' = [node |-> r, msg |-> m, whole |-> m.full \/ recv[r].buff = None,
               was |-> recv[r], crossed |-> Updating(r)]
  /\ UNCHANGED <<ownVars, ogms, recv, upd, lost>>

\* and the copy.  The copy of a table that an update is changing may have entries
\* of both tables, be cut short, or end in what was in memory before.  The buffer
\* has a lock; one that was freed in between has no changes, and the request
\* goes on.
RelayCopy ==
  LET m == relay.msg
      n == recv[relay.node]
      either == UNION {Range(Entries(t)) : t \in {relay.was.table, n.table}}
      tables == IF ~relay.crossed THEN {Entries(n.table)}
                ELSE UNION {[1..k -> either \cup Junk] : k \in 1..Cardinality(either)}
      buffers == (IF relay.crossed THEN {relay.was.buff, n.buff} ELSE {n.buff})
                   \ {None}
      Sent(full, chs) == msgs' = msgs \cup
                           {Reply(m, relay.node, m.ttvn, full, relay.crossed, chs)}
  IN  /\ relay # None /\ relay' = None /\ Cardinality(msgs) < MaxMsgs
      /\ \/ relay.whole /\ \E chs \in tables : Sent(TRUE, chs)
         \/ ~relay.whole /\ \E chs \in buffers : Sent(FALSE, chs)
         \/ relay.crossed /\ msgs' = msgs \cup {m}
      /\ UNCHANGED <<ownVars, ogms, recv, upd, lost>>

\* batadv_handle_tt_response.  A full table is filled into a VLAN that is new
\* and has the checksum of no client.
HandleResponse(m) ==
  LET r == m.node
      n == recv[r]
  IN  /\ m.type = "response" /\ upd = None /\ msgs' = msgs \ {m}
      /\ IF ~n.known THEN UNCHANGED <<recv, upd, relay>>
         ELSE /\ Cross(r)
              /\ \E x \in IF m.full THEN Filled(n, m.changes, m.ttvn)
                                    ELSE Changed(n, m.changes, m.ttvn) :
                   IF SMP
                   THEN Begin(r, x, IF m.full THEN NoTable ELSE n.table, None)
                   ELSE /\ recv' = [recv EXCEPT ![r] = [x EXCEPT !.waiting = FALSE]]
                        /\ UNCHANGED upd
      /\ UNCHANGED <<ownVars, ogms, lost>>

\* batadv_tt_req_purge, and the same test in batadv_tt_req_node_new.
RequestTimeout(r) ==
  /\ recv[r].waiting /\ recv' = [recv EXCEPT ![r].waiting = FALSE]
  /\ UNCHANGED <<ownVars, ogms, msgs, relay, upd, lost>>

\* _batadv_update_route: the route to the originator is lost, and its entries
\* are deleted (batadv_tt_global_del_orig); the version is kept.
RouteLost(r) ==
  /\ recv[r].known /\ lost < MaxLost /\ lost' = lost + 1
  /\ recv' = [recv EXCEPT ![r].table = NoTable, ![r].has = FALSE]
  /\ Cross(r) /\ UNCHANGED <<ownVars, ogms, msgs, upd>>

\* batadv_purge_orig_ref: the originator has timed out.
OrigPurged(r) ==
  /\ recv[r].known /\ lost < MaxLost /\ lost' = lost + 1
  /\ recv' = [recv EXCEPT ![r] = [NewNode EXCEPT !.waiting = recv[r].waiting]]
  /\ Cross(r) /\ UNCHANGED <<ownVars, ogms, msgs, upd>>

\* The mesh loses packets.  Losing one commutes with the steps of a commit, so
\* it waits for their end: then a request is not lost while the answer waits
\* for the lock of the commit.
Lose ==
  /\ commit.step = "idle"
  /\ \/ \E o \in ogms : ogms' = ogms \ {o} /\ UNCHANGED msgs
     \/ \E m \in msgs : msgs' = msgs \ {m} /\ UNCHANGED ogms
  /\ UNCHANGED <<ownVars, recv, relay, upd, lost>>

-----------------------------------------------------------------------------
\* An originator that has announced its own address only: with version 0 when
\* the mesh interface has just been set up and the address is still to be
\* announced.
Init ==
  LET own == ChangeOf(Mac, FALSE, FALSE)
      alone == [c \in {Mac} |-> FALSE]
  IN  /\ vn \in FirstVns
      /\ local = [c \in {Mac} |-> [new |-> vn = 0, pend |-> FALSE, wifi |-> FALSE]]
      /\ changes = (IF vn = 0 THEN <<own>> ELSE << >>) /\ count = Len(changes)
      /\ owed = 0 /\ append = 0 /\ commit = [step |-> "idle", n |-> 0]
      /\ crc = (IF vn = 0 THEN NoTable ELSE alone)
      /\ lastset = (IF vn = 0 THEN None ELSE <<own>>)
      /\ container = Container(<< >>)
      /\ committed = [v \in 0..(VnMod - 1) |-> IF v = vn THEN crc ELSE None]
      /\ ogms = {} /\ msgs = {} /\ recv = [r \in Receivers |-> NewNode]
      /\ leave = None /\ surplus = 0 /\ relay = None /\ upd = None
      /\ gone = [v \in 0..(VnMod - 1) |-> {}] /\ events = 0 /\ lost = 0

ClientEvent == \E c \in Hosts :
                 LocalPurge(c) \/ LocalRemove(c) \/ \E w \in Wifis : LocalAdd(c, w)
Leave == (\E c \in Hosts : LeaveBegins(c)) \/ LeaveEvent \/ LeaveHash
Commit == \/ CommitNothing \/ CommitFlags \/ CommitPurge \/ CommitCrc
          \/ CommitCount \/ CommitDrain
Answers == \/ RelayCopy
           \/ \E m \in msgs : \/ OwnAnswer(m)
                             \/ \E r \in Receivers : RelayAnswer(r, m) \/ RelayCheck(r, m)

Next ==
  \/ ClientEvent \/ Leave \/ Account \/ Commit \/ Answers \/ Finish \/ Lose
  \/ \E m \in msgs : HandleResponse(m)
  \/ \E r \in Receivers : \/ RequestTimeout(r) \/ RouteLost(r) \/ OrigPurged(r)
                          \/ \E o \in ogms : HandleOgm(r, o)

Spec == Init /\ [][Next]_vars

\* Workers and timers run; an OGM, a request and a response that are sent again
\* and again get through now and then.  (For nodes with one CPU.)
FairSpec ==
  /\ Spec /\ WF_vars(Account) /\ WF_vars(Commit)
  /\ \A r \in Receivers :
       /\ WF_vars(RequestTimeout(r))
       /\ SF_vars(container \in ogms /\ HandleOgm(r, container))
       /\ SF_vars(\E m \in msgs : m.node = r /\ OwnAnswer(m))
       /\ SF_vars(\E m \in msgs : m.node = r /\ HandleResponse(m))

-----------------------------------------------------------------------------
\* Types.  local_changes may become negative when two CPUs are at work.
TypeOK ==
  /\ local \in UNION {[S -> Entry] : S \in SUBSET (Hosts \cup {Mac})}
  /\ changes \in Seq(Change) /\ lastset \in {None} \cup Seq(Change)
  /\ owed \in -2..2 /\ count \in Int /\ vn \in 0..(VnMod - 1)
  /\ crc \in Table /\ append \in 0..AppendMax /\ commit \in [step : Steps, n : Int]
  /\ container \in Carrier /\ ogms \subseteq Carrier
  /\ \A m \in msgs : IF m.type = "request" THEN m \in Request ELSE m \in Response
  /\ Cardinality(msgs) <= MaxMsgs
  /\ recv \in [Receivers -> OrigNode] /\ upd \in {None} \cup Update
  /\ leave \in {None} \cup Removal /\ relay \in {None} \cup Copying
  /\ surplus \in Nat /\ gone \in [0..(VnMod - 1) -> SUBSET Addrs]

\* batadv_send_my_tt_response, batadv_send_other_tt_response: a full table that
\* is under way with a version number is the table the originator committed
\* with that number, whatever was added, marked or removed since, and whatever
\* the relay's own table went through before.  On several CPUs there are three
\* exceptions, and no other.  A client is missing when batadv_tt_local_remove
\* took it out after a commit had announced it (gone); once that has happened,
\* an originator's table ends in entries that are nobody's (surplus); and a relay
\* whose table an update changed between its check and its copy sends what it
\* finds (torn).  A relay's table agrees in the flags as well.
FullIsCommitted ==
  \A m \in msgs : m.type = "response" /\ m.full /\ ~m.torn =>
    LET t == committed[m.ttvn]
        sent == {m.changes[i].addr : i \in 1..Len(m.changes)}
    IN  /\ t # None
        /\ DOMAIN t \ gone[m.ttvn] \subseteq sent
        /\ surplus = 0 => sent \subseteq DOMAIN t
        /\ m.from # Mac => /\ sent = DOMAIN t
                           /\ \A i \in 1..Len(m.changes) :
                                m.changes[i].wifi = t[m.changes[i].addr]

\* Clients the originator serves.
Served == {c \in DOMAIN local : ~local[c].pend}

\* batadv_tt_local_event: as long as the clients the originator serves are not
\* those of the last commit, local_changes asks for another commit.  So no
\* order of arrivals and departures within an interval cancels too much.
NoChangeForgotten ==
  commit.step = "idle" /\ owed = 0 /\ Served # DOMAIN crc => count > 0

\* batadv_tt_update_orig: once clients stop coming and going, every receiver
\* ends up with exactly the clients the originator serves, whatever was lost or
\* came late: through version numbers that wrap, requests answered by others,
\* lost routes and forgotten originators.
Synced ==
  <>[](\A r \in Receivers : /\ recv[r].has /\ recv[r].last = vn
                            /\ DOMAIN recv[r].table = Served)

-----------------------------------------------------------------------------
(* What comments of the code say, and the code does not do.                *)

\* The receivers get to know the clients for good, whatever version they hold.
\* batadv_tt_tvlv_container_update: when there are too many changes for an OGM
\* they wait for a request of the table.
Learnt == <>[](\A r \in Receivers : DOMAIN recv[r].table = Served)

\* packet.h, BATADV_TT_CLIENT_NEW: a NEW client has not been announced yet.
NewNotAnnounced ==
  commit.step = "idle" =>
    \A i \in 1..Len(container.diff) :
      ~container.diff[i].del /\ container.diff[i].addr \in DOMAIN local
        => ~local[container.diff[i].addr].new

\* batadv_send_tt_request: no request is issued while another of the same node
\* is waiting for its reply.
OneRequest ==
  \A r \in Receivers :
    Cardinality({m \in msgs : m.type = "request" /\ m.node = r}) <= 1

\* _batadv_tt_update_changes: an update that is stopped does not commit the
\* version.  With no route lost, only a stopped update leaves HAS_TT clear.
StoppedNotCommitted ==
  \A r \in Receivers : recv[r].known /\ ~recv[r].has => recv[r].last = 0

\* Every variable keeps its type, and no change of the local table is cancelled
\* (tt_local_event) without the others learning of it.
TTConsistent == TypeOK /\ NoChangeForgotten
=============================================================================

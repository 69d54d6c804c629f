------------------------------ MODULE AlfredProofs ------------------------------
(***************************************************************************)
(* Between any number of alfred daemons, with messages that are lost,      *)
(* delayed and duplicated: a daemon's best server is one that it knows,    *)
(* and data that no client writes any more disappears everywhere.          *)
(***************************************************************************)
EXTENDS AlfredNet, TLAPS

-----------------------------------------------------------------------------
(* Messages                                                                *)

Pushes == [kind : {"push"}, from : Nodes, to : Nodes, age : Nat,
           reply : BOOLEAN, items : [Sources -> Nat \cup {None}]]

LEMMA MessageFields ==
  ASSUME NEW msg \in Messages
  PROVE  /\ msg.kind \in {"announce", "request", "push"}
         /\ msg.from \in Nodes /\ msg.to \in Nodes /\ msg.age \in Nat
         /\ msg.kind = "push" => msg \in Pushes
BY DEF Messages, Pushes

LEMMA PushFields ==
  ASSUME NEW msg \in Pushes
  PROVE  msg.reply \in BOOLEAN /\ msg.items \in [Sources -> Nat \cup {None}]
BY DEF Pushes

\* What is sent of a data set is its stale times.
LEMMA SelectedType ==
  ASSUME TypeOK, NEW n \in Nodes, NEW maxLevel
  PROVE  Selected(n, maxLevel) \in [Sources -> Nat \cup {None}]
<1>1. ASSUME NEW s \in Sources, data[n][s] # None
      PROVE  data[n][s].stale \in Nat
  BY <1>1 DEF TypeOK, Dataset
<1> QED BY <1>1 DEF Selected

LEMMA SentAreMessages ==
  ASSUME TypeOK, NEW n \in Nodes, NEW m \in Nodes, NEW maxLevel, NEW r \in BOOLEAN
  PROVE  /\ Push(n, m, maxLevel, r) \in Pushes /\ Push(n, m, maxLevel, r) \in Messages
         /\ Announce(n, m) \in Messages /\ Request(n, m) \in Messages
<1>1. Push(n, m, maxLevel, r) \in Pushes
  BY SelectedType DEF Push, Pushes
<1>2. Pushes \subseteq Messages
  BY DEF Pushes, Messages
<1>3. Announce(n, m) \in Messages /\ Request(n, m) \in Messages
  BY DEF Announce, Request, Messages
<1> QED BY <1>1, <1>2, <1>3

\* A message one interval later.
Aged(msg) ==
  IF msg.kind = "push" THEN [msg EXCEPT !.age = @ + 1, !.items = OlderItems(@)]
  ELSE [msg EXCEPT !.age = @ + 1]

LEMMA OlderType ==
  ASSUME TypeOK, NEW items \in [Sources -> Nat \cup {None}]
  PROVE  OlderItems(items) \in [Sources -> Nat \cup {None}]
<1>1. \A x \in Nat : Older(x) \in Nat
  BY DEF Older
<1> QED BY <1>1 DEF OlderItems

LEMMA AgedFields ==
  ASSUME TypeOK, NEW msg \in Messages
  PROVE  /\ Aged(msg) \in Messages
         /\ Aged(msg).kind = msg.kind /\ Aged(msg).from = msg.from /\ Aged(msg).to = msg.to
         /\ Aged(msg).age = msg.age + 1
         /\ msg.kind = "push" => Aged(msg).reply = msg.reply
                                 /\ Aged(msg).items = OlderItems(msg.items)
<1>1. CASE msg.kind = "push"
  <2>1. msg \in Pushes /\ OlderItems(msg.items) \in [Sources -> Nat \cup {None}]
    BY <1>1, MessageFields, PushFields, OlderType
  <2>2. Aged(msg) = [[msg EXCEPT !.age = msg.age + 1] EXCEPT !.items = OlderItems(msg.items)]
    BY <1>1, <2>1 DEF Aged, Pushes
  <2>3. [msg EXCEPT !.age = msg.age + 1] \in Pushes
    BY <2>1 DEF Pushes
  <2>4. Aged(msg) \in Pushes
    BY <2>1, <2>2, <2>3 DEF Pushes
  <2>5. Pushes \subseteq Messages
    BY DEF Pushes, Messages
  <2>6. /\ Aged(msg).kind = msg.kind /\ Aged(msg).from = msg.from /\ Aged(msg).to = msg.to
        /\ Aged(msg).age = msg.age + 1 /\ Aged(msg).reply = msg.reply
        /\ Aged(msg).items = OlderItems(msg.items)
    BY <1>1, <2>1 DEF Aged, Pushes
  <2> QED BY <2>4, <2>5, <2>6
<1>2. CASE msg.kind # "push"
  <2>1. msg \in [kind : {"announce", "request"}, from : Nodes, to : Nodes, age : Nat]
    BY <1>2 DEF Messages
  <2>2. Aged(msg) = [msg EXCEPT !.age = msg.age + 1]
    BY <1>2 DEF Aged
  <2> QED BY <1>2, <2>1, <2>2 DEF Messages
<1> QED BY <1>1, <1>2

-----------------------------------------------------------------------------
(* Types, and the best server                                              *)

\* A data set one interval later.
Later(r) == [r EXCEPT !.age = @ + 1, !.stale = Older(@)]

LEMMA LaterFields ==
  ASSUME TypeOK, NEW r \in Dataset
  PROVE  /\ Later(r) \in Dataset
         /\ Later(r).level = r.level /\ Later(r).age = r.age + 1
         /\ Later(r).stale = Older(r.stale)
<1>1. r.age + 1 \in Nat /\ Older(r.stale) \in Nat
  BY DEF Older, Dataset
<1>2. Later(r) = [[r EXCEPT !.age = r.age + 1] EXCEPT !.stale = Older(r.stale)]
  BY DEF Later, Dataset
<1>3. [r EXCEPT !.age = r.age + 1] \in Dataset
  BY <1>1 DEF Dataset
<1> QED BY <1>1, <1>2, <1>3 DEF Dataset

LEMMA InitConsistent == Init => AlfredConsistent
<1> SUFFICES ASSUME Init PROVE AlfredConsistent
  OBVIOUS
<1>1. TypeOK
  BY AlfredAssumption DEF Init, TypeOK
<1> QED BY <1>1 DEF Init, AlfredConsistent, BestServerIsKnown

\* What is left in the network, and what is sent, are messages.
LEMMA SendType ==
  ASSUME TypeOK, NEW rest \in SUBSET net, NEW msgs \in SUBSET Messages, Send(msgs, rest)
  PROVE  net' \subseteq Messages /\ net' \subseteq rest \cup msgs
BY DEF Send, TypeOK

LEMMA MasterSendsType ==
  ASSUME TypeOK, NEW n \in Nodes
  PROVE  MasterSends(n) \in SUBSET Messages
BY SentAreMessages DEF MasterSends, Known

LEMMA SlaveSendsType ==
  ASSUME TypeOK, NEW n \in Nodes
  PROVE  SlaveSends(n) \in SUBSET Messages
<1>1. best[n] # None => best[n] \in Nodes
  BY DEF TypeOK
<1> QED BY <1>1, SentAreMessages DEF SlaveSends

\* A received data set is first hand or synced, and new.
LEMMA AppliedType ==
  ASSUME TypeOK, NEW msg \in Pushes, NEW s \in Sources
  PROVE  Applied(msg, s) \in Dataset \cup {None}
<1>1. data[msg.to][s] \in Dataset \cup {None} /\ msg.items[s] \in Nat \cup {None}
  BY PushFields DEF TypeOK, Pushes
<1> QED BY <1>1 DEF Applied, Dataset

LEMMA ConsistentStep == AlfredConsistent /\ [Next]_vars => AlfredConsistent'
<1> SUFFICES ASSUME AlfredConsistent, [Next]_vars PROVE AlfredConsistent'
  OBVIOUS
<1>1. TypeOK /\ BestServerIsKnown
  BY DEF AlfredConsistent
<1>2. ASSUME NEW n \in Nodes, Housekeep(n)
      PROVE  AlfredConsistent'
  <2>1. PICK b \in PurgedBest(n) : best' = [best EXCEPT ![n] = b]
    BY <1>2 DEF Housekeep
  <2>2. net' \subseteq Messages
    <3> DEFINE msgs == IF master[n] THEN MasterSends(n) ELSE SlaveSends(n)
    <3>1. Send(msgs, net)
      BY <1>2 DEF Housekeep
    <3>2. msgs \in SUBSET Messages
      BY <1>1, MasterSendsType, SlaveSendsType
    <3> HIDE DEF msgs
    <3> QED BY <1>1, <3>1, <3>2, SendType
  <2>3. /\ data' = [data EXCEPT ![n] = PurgedData(n)]
        /\ servers' = [servers EXCEPT ![n] = PurgedServers(n)]
        /\ waiting' = [waiting EXCEPT ![n] =
             IF waiting[n] # None /\ waiting[n].age >= RequestTimeout THEN None ELSE waiting[n]]
        /\ due' = due \ {n} /\ UNCHANGED <<master, switches>>
    BY <1>2 DEF Housekeep
  <2>4. PurgedData(n) \in [Sources -> Dataset \cup {None}]
    BY <1>1 DEF PurgedData, TypeOK
  <2>5. PurgedServers(n) \in [Nodes -> Nat \cup {None}]
    BY <1>1 DEF PurgedServers, TypeOK
  <2>6. KnownAfterPurge(n) = Known(n)' /\ \A m \in Nodes \ {n} : Known(m)' = Known(m)
    BY <1>1, <2>3, <2>5 DEF KnownAfterPurge, Known, TypeOK
  <2>7. b = None \/ b \in KnownAfterPurge(n)
    BY <2>1 DEF PurgedBest, BestOf
  <2>8. b \in Nodes \cup {None}
    BY <2>7 DEF KnownAfterPurge
  <2>9. TypeOK'
    <3>1. waiting' \in [Nodes -> Transaction \cup {None}]
      BY <1>1, <2>3 DEF TypeOK
    <3> QED BY <1>1, <2>1, <2>2, <2>3, <2>4, <2>5, <2>8, <3>1 DEF TypeOK
  <2>10. BestServerIsKnown'
    BY <1>1, <2>1, <2>6, <2>7 DEF BestServerIsKnown, TypeOK
  <2> QED BY <2>9, <2>10 DEF AlfredConsistent
<1>3. ASSUME NEW n \in Nodes, RequestData(n)
      PROVE  AlfredConsistent'
  <2>1. /\ best[n] \in Nodes /\ waiting' = [waiting EXCEPT ![n] = [server |-> best[n], age |-> 0]]
        /\ Send({Request(n, best[n])}, net)
        /\ UNCHANGED <<master, data, servers, best, due, switches>>
    BY <1>1, <1>3 DEF RequestData, TypeOK
  <2>2. {Request(n, best[n])} \in SUBSET Messages
    BY <1>1, <2>1, SentAreMessages
  <2>3. net' \subseteq Messages
    BY <1>1, <2>1, <2>2, SendType
  <2>4. waiting' \in [Nodes -> Transaction \cup {None}]
    BY <1>1, <2>1 DEF TypeOK, Transaction
  <2> QED BY <1>1, <2>1, <2>3, <2>4 DEF AlfredConsistent, TypeOK, BestServerIsKnown, Known
<1>4. ASSUME NEW n \in Nodes, SwitchMode(n)
      PROVE  AlfredConsistent'
  BY <1>1, <1>4 DEF SwitchMode, AlfredConsistent, TypeOK, BestServerIsKnown, Known
<1>11. ASSUME NEW n \in Nodes, ChangeInterface(n)
       PROVE  AlfredConsistent'
  <2>1. /\ servers' = [servers EXCEPT ![n] = [m \in Nodes |-> None]]
        /\ best' = [best EXCEPT ![n] = None]
        /\ UNCHANGED <<master, data, waiting, net, due, switches>>
    BY <1>11 DEF ChangeInterface
  <2>2. /\ servers' \in [Nodes -> [Nodes -> Nat \cup {None}]]
        /\ best' \in [Nodes -> Nodes \cup {None}]
    BY <1>1, <2>1 DEF TypeOK
  <2>3. \A m \in Nodes : best'[m] # None => m # n /\ best[m] # None
    BY <1>1, <2>1 DEF TypeOK
  <2>4. \A m \in Nodes \ {n} : servers'[m] = servers[m] /\ best'[m] = best[m]
    BY <1>1, <2>1 DEF TypeOK
  <2> QED BY <1>1, <2>1, <2>2, <2>3, <2>4
          DEF AlfredConsistent, TypeOK, BestServerIsKnown, Known
<1>5. ASSUME NEW n \in Nodes, NEW s \in Sources, AddData(n, s)
      PROVE  AlfredConsistent'
  <2>1. Fresh \in Dataset
    BY DEF Fresh, Dataset
  <2>2. data' \in [Nodes -> [Sources -> Dataset \cup {None}]]
    BY <1>1, <1>5, <2>1 DEF AddData, TypeOK
  <2> QED BY <1>1, <1>5, <2>2 DEF AddData, AlfredConsistent, TypeOK, BestServerIsKnown, Known
<1>6. ASSUME NEW msg \in net, RecvAnnounce(msg)
      PROVE  AlfredConsistent'
  <2> DEFINE n == msg.to
  <2>1. n \in Nodes /\ msg.from \in Nodes
    BY <1>1, <1>6, MessageFields DEF TypeOK
  <2>2. /\ servers' = [servers EXCEPT ![n][msg.from] = 0] /\ net' \in Taken(msg)
        /\ UNCHANGED <<master, data, waiting, due, switches>>
    BY <1>6 DEF RecvAnnounce
  <2>3. \A m \in Nodes : Known(m) \subseteq Known(m)'
    BY <1>1, <2>1, <2>2, NoneAssumption DEF Known, TypeOK
  <2>4. msg.from \in Known(n)'
    BY <1>1, <2>1, <2>2, NoneAssumption DEF Known, TypeOK
  <2>5. servers' \in [Nodes -> [Nodes -> Nat \cup {None}]]
    BY <1>1, <2>1, <2>2 DEF TypeOK
  <2>6. best' = best \/ \E b \in Known(n) \cup {msg.from} : best' = [best EXCEPT ![n] = b]
    BY <1>6 DEF RecvAnnounce
  <2>7. best' \in [Nodes -> Nodes \cup {None}]
    BY <1>1, <2>1, <2>6 DEF TypeOK, Known
  <2>8. net' \subseteq Messages
    BY <1>1, <2>2 DEF TypeOK, Taken
  <2>9. \A m \in Nodes : best'[m] # None => best'[m] \in Known(m)'
    BY <1>1, <2>1, <2>3, <2>4, <2>6 DEF TypeOK, BestServerIsKnown
  <2> QED BY <1>1, <2>2, <2>5, <2>7, <2>8, <2>9 DEF AlfredConsistent, TypeOK, BestServerIsKnown
<1>7. ASSUME NEW msg \in net, RecvRequest(msg)
      PROVE  AlfredConsistent'
  <2> DEFINE p == Push(msg.to, msg.from, SYNCED, TRUE)
  <2>1. p \in Messages
    BY <1>1, <1>7, MessageFields, SentAreMessages DEF TypeOK
  <2>2. PICK rest \in Taken(msg) : Send({p}, rest)
    BY <1>7 DEF RecvRequest
  <2>3. rest \in SUBSET net /\ {p} \in SUBSET Messages
    BY <2>1, <2>2 DEF Taken
  <2> HIDE DEF p
  <2>4. net' \subseteq Messages
    BY <1>1, <2>2, <2>3, SendType
  <2> QED BY <1>1, <1>7, <2>4 DEF RecvRequest, AlfredConsistent, TypeOK, BestServerIsKnown, Known
<1>8. ASSUME NEW msg \in net, RecvPush(msg)
      PROVE  AlfredConsistent'
  <2> DEFINE n == msg.to
  <2>1. msg \in Pushes /\ n \in Nodes
    BY <1>1, <1>8, MessageFields DEF RecvPush, TypeOK
  <2>2. /\ data' = data \/ data' = [data EXCEPT ![n] = [s \in Sources |-> Applied(msg, s)]]
        /\ waiting' = [waiting EXCEPT ![n] = IF Answers(msg) THEN None ELSE waiting[n]]
        /\ net' \in Taken(msg) /\ UNCHANGED <<master, servers, best, due, switches>>
    BY <1>8 DEF RecvPush
  <2>3. [s \in Sources |-> Applied(msg, s)] \in [Sources -> Dataset \cup {None}]
    BY <1>1, <2>1, AppliedType
  <2>4. data' \in [Nodes -> [Sources -> Dataset \cup {None}]]
    <3> HIDE DEF n
    <3> QED BY <1>1, <2>1, <2>2, <2>3 DEF TypeOK
  <2>5. waiting' \in [Nodes -> Transaction \cup {None}]
    BY <1>1, <2>2 DEF TypeOK
  <2>6. net' \subseteq Messages
    BY <1>1, <2>2 DEF TypeOK, Taken
  <2> QED BY <1>1, <2>2, <2>4, <2>5, <2>6 DEF AlfredConsistent, TypeOK, BestServerIsKnown, Known
<1>9. ASSUME Tick
      PROVE  AlfredConsistent'
  <2>1. data' \in [Nodes -> [Sources -> Dataset \cup {None}]]
    <3>1. \A r \in Dataset : Later(r) \in Dataset
      BY <1>1, LaterFields
    <3>2. data' = [n \in Nodes |-> [s \in Sources |->
                     IF data[n][s] = None THEN None ELSE Later(data[n][s])]]
      BY <1>9 DEF Tick, Later
    <3> QED BY <1>1, <3>1, <3>2 DEF TypeOK
  <2>2. servers' = [n \in Nodes |-> [m \in Nodes |->
                      IF servers[n][m] = None THEN None ELSE servers[n][m] + 1]]
    BY <1>9 DEF Tick
  <2>3. servers' \in [Nodes -> [Nodes -> Nat \cup {None}]]
    BY <1>1, <2>2 DEF TypeOK
  <2>4. \A n \in Nodes : Known(n)' = Known(n)
    <3>1. \A n, m \in Nodes : servers[n][m] # None => servers[n][m] + 1 # None
      BY <1>1, NoneAssumption DEF TypeOK
    <3> QED BY <2>2, <3>1 DEF Known
  <2>5. waiting' \in [Nodes -> Transaction \cup {None}]
    <3>1. \A r \in Transaction : [r EXCEPT !.age = r.age + 1] \in Transaction
      BY DEF Transaction
    <3>2. waiting' = [n \in Nodes |-> IF waiting[n] = None THEN None
                                      ELSE [waiting[n] EXCEPT !.age = waiting[n].age + 1]]
      BY <1>9 DEF Tick
    <3> QED BY <1>1, <3>1, <3>2 DEF TypeOK
  <2>6. net' \subseteq Messages
    <3>1. net' = {Aged(msg) : msg \in {x \in net : x.age < MaxDelay}}
      BY <1>9 DEF Tick, Aged
    <3> QED BY <1>1, <3>1, AgedFields DEF TypeOK
  <2>7. due' = Nodes /\ UNCHANGED <<master, best, switches>>
    BY <1>9 DEF Tick
  <2> QED BY <1>1, <2>1, <2>3, <2>4, <2>5, <2>6, <2>7 DEF AlfredConsistent, TypeOK, BestServerIsKnown
<1>10. CASE UNCHANGED vars
  BY <1>1, <1>10 DEF vars, AlfredConsistent, TypeOK, BestServerIsKnown, Known
<1> QED BY <1>2, <1>3, <1>4, <1>5, <1>6, <1>7, <1>8, <1>9, <1>10, <1>11 DEF Next

\* Every variable keeps its type, and best_server points into server_hash in
\* both modes, through purges, announcements, changes of mode and of interface
\* (AlfredConsistent).
THEOREM AlfredIsConsistent == Spec => []AlfredConsistent
BY InitConsistent, ConsistentStep, PTL DEF Spec

-----------------------------------------------------------------------------
(* Data that no client writes is forgotten                                 *)

\* How stale data can be when a daemon takes it, by its level, and when it is
\* sent on.
TakenStale(n, level) ==
  IF level = LOCAL_ THEN 0
  ELSE IF n \notin Masters THEN 3 * DataTimeout + 3 * MaxDelay
  ELSE IF level = FIRST_HAND THEN DataTimeout + MaxDelay
  ELSE 2 * DataTimeout + 2 * MaxDelay
SentStale(msg, s) ==
  IF msg.reply THEN 3 * DataTimeout + 2 * MaxDelay
  ELSE IF msg.from = s THEN DataTimeout ELSE 2 * DataTimeout + MaxDelay

\* Only masters announce themselves; so it is masters that are known, asked and
\* answer, and slaves that ask.  Nobody sends to itself.
RolesKept ==
  /\ master = [n \in Nodes |-> n \in Masters]
  /\ \A n \in Nodes : Known(n) \subseteq Masters \ {n}
  /\ \A n \in Nodes : waiting[n] # None => n \notin Masters

MessageSound(msg) ==
  /\ msg.from # msg.to /\ msg.age <= MaxDelay
  /\ msg.kind = "announce" => msg.from \in Masters
  /\ msg.kind = "request" => msg.from \notin Masters /\ msg.to \in Masters
  /\ msg.kind = "push" =>
       /\ msg.reply => msg.from \in Masters /\ msg.to \notin Masters
       /\ \A s \in Sources :
            msg.items[s] # None => msg.items[s] <= msg.age + SentStale(msg, s)

\* A daemon that has purged in this interval holds nothing that timed out; only
\* masters take local data for others, and first hand is what another daemon
\* says of itself.
HeldSound(n, s, r, isDue) ==
  r # None =>
    /\ r.age <= (IF isDue THEN DataTimeout ELSE DataTimeout - 1)
    /\ r.stale <= r.age + TakenStale(n, r.level)
    /\ r.level = LOCAL_ => n \in Masters \/ s = n
    /\ r.level = FIRST_HAND => s # n

StaleInv ==
  switches = 0 =>
    /\ RolesKept
    /\ \A msg \in net : MessageSound(msg)
    /\ \A n \in Nodes, s \in Sources : HeldSound(n, s, data[n][s], n \in due)

LEMMA LevelOrder == LOCAL_ = 0 /\ FIRST_HAND = 1 /\ SYNCED = 2
BY DEF LOCAL_, FIRST_HAND, SYNCED

LEMMA TimesAreNat == DataTimeout \in Nat /\ DataTimeout >= 1 /\ MaxDelay \in Nat
BY AlfredAssumption

\* What a daemon sends is as old as what it holds.
LEMMA SelectedBounded ==
  ASSUME TypeOK, NEW n \in Nodes, NEW maxLevel \in {LOCAL_, FIRST_HAND, SYNCED},
         \A s \in Sources : HeldSound(n, s, data[n][s], n \in due),
         NEW s \in Sources, Selected(n, maxLevel)[s] # None
  PROVE  /\ maxLevel = LOCAL_ => /\ Selected(n, maxLevel)[s] <= DataTimeout
                                 /\ n \in Masters \/ s = n
         /\ maxLevel = FIRST_HAND /\ n \in Masters =>
              Selected(n, maxLevel)[s] <= IF s = n THEN DataTimeout ELSE 2 * DataTimeout + MaxDelay
         /\ n \in Masters => Selected(n, maxLevel)[s] <= 3 * DataTimeout + 2 * MaxDelay
<1> DEFINE r == data[n][s]
<1>1. r # None /\ r.level <= maxLevel /\ Selected(n, maxLevel)[s] = r.stale
  BY DEF Selected
<1>2. r \in Dataset
  BY <1>1 DEF TypeOK
<1>3. r.level \in {LOCAL_, FIRST_HAND, SYNCED} /\ r.age \in Nat /\ r.stale \in Nat
  BY <1>2 DEF Dataset
<1>4. /\ r.age <= DataTimeout
      /\ r.stale <= r.age + TakenStale(n, r.level)
      /\ r.level = LOCAL_ => n \in Masters \/ s = n
      /\ r.level = FIRST_HAND => s # n
  BY <1>1, <1>3, TimesAreNat DEF HeldSound
<1> HIDE DEF r
<1>5. CASE r.level = LOCAL_
  BY <1>1, <1>3, <1>4, <1>5, LevelOrder, TimesAreNat DEF TakenStale
<1>6. CASE r.level = FIRST_HAND
  BY <1>1, <1>3, <1>4, <1>6, LevelOrder, TimesAreNat DEF TakenStale
<1>7. CASE r.level = SYNCED
  BY <1>1, <1>3, <1>4, <1>7, LevelOrder, TimesAreNat DEF TakenStale
<1> QED BY <1>3, <1>5, <1>6, <1>7

\* The messages of a round of the main loop.
LEMMA PushSound ==
  ASSUME TypeOK, NEW n \in Nodes, NEW m \in Nodes, n # m,
         NEW maxLevel \in {LOCAL_, FIRST_HAND, SYNCED}, NEW isReply \in BOOLEAN,
         \A s \in Sources : HeldSound(n, s, data[n][s], n \in due),
         IF isReply THEN n \in Masters /\ m \notin Masters
         ELSE maxLevel = LOCAL_ \/ (maxLevel = FIRST_HAND /\ n \in Masters)
  PROVE  MessageSound(Push(n, m, maxLevel, isReply))
<1> DEFINE p == Push(n, m, maxLevel, isReply)
<1>1. /\ p.kind = "push" /\ p.from = n /\ p.to = m /\ p.age = 0 /\ p.reply = isReply
      /\ p.items = Selected(n, maxLevel)
  BY DEF Push
<1>2. ASSUME NEW s \in Sources, p.items[s] # None
      PROVE  p.items[s] <= p.age + SentStale(p, s)
  <2>1. Selected(n, maxLevel)[s] \in Nat
    BY <1>1, <1>2, SelectedType
  <2>2. /\ maxLevel = LOCAL_ => /\ Selected(n, maxLevel)[s] <= DataTimeout
                                /\ n \in Masters \/ s = n
        /\ maxLevel = FIRST_HAND /\ n \in Masters =>
             Selected(n, maxLevel)[s] <= IF s = n THEN DataTimeout ELSE 2 * DataTimeout + MaxDelay
        /\ n \in Masters => Selected(n, maxLevel)[s] <= 3 * DataTimeout + 2 * MaxDelay
    BY <1>1, <1>2, SelectedBounded
  <2> HIDE DEF p
  <2> QED BY <1>1, <2>1, <2>2, LevelOrder, TimesAreNat DEF SentStale
<1> HIDE DEF p
<1>3. MessageSound(p)
  BY <1>1, <1>2, TimesAreNat DEF MessageSound
<1> QED BY <1>3 DEF p

LEMMA InitStale == Init => StaleInv
<1> SUFFICES ASSUME Init PROVE StaleInv
  OBVIOUS
<1>1. RolesKept
  BY DEF Init, RolesKept, Known
<1>2. \A n \in Nodes, s \in Sources : data[n][s] = None
  BY DEF Init
<1> QED BY <1>1, <1>2 DEF Init, StaleInv, HeldSound

\* An item and its message grow old together.
LEMMA AgedSound ==
  ASSUME TypeOK, switches = 0, NEW msg \in Messages, MessageSound(msg), msg.age < MaxDelay
  PROVE  MessageSound(Aged(msg))
<1> DEFINE m == Aged(msg)
<1>1. /\ m.kind = msg.kind /\ m.from = msg.from /\ m.to = msg.to /\ m.age = msg.age + 1
      /\ msg.kind = "push" => m.reply = msg.reply /\ m.items = OlderItems(msg.items)
      /\ msg.age \in Nat
  BY AgedFields, MessageFields
<1> HIDE DEF m
<1>2. ASSUME msg.kind = "push", NEW s \in Sources, m.items[s] # None
      PROVE  m.items[s] <= m.age + SentStale(m, s)
  <2>1. msg.items[s] # None /\ m.items[s] = Older(msg.items[s])
    BY <1>1, <1>2 DEF OlderItems
  <2>2. msg.items[s] \in Nat
    BY <1>2, <2>1, MessageFields, PushFields
  <2>3. m.items[s] = msg.items[s] + 1
    BY <2>1 DEF Older
  <2>4. SentStale(m, s) = SentStale(msg, s) /\ SentStale(msg, s) \in Nat
    BY <1>1, <1>2, TimesAreNat DEF SentStale
  <2>5. msg.items[s] <= msg.age + SentStale(msg, s)
    BY <1>2, <2>1 DEF MessageSound
  <2> QED BY <1>1, <2>2, <2>3, <2>4, <2>5
<1>3. m.age <= MaxDelay
  BY <1>1, TimesAreNat
<1>4. MessageSound(m)
  BY <1>1, <1>2, <1>3 DEF MessageSound
<1> QED BY <1>4 DEF m

\* A daemon may purge before the interval ends, and may not hold what is older.
LEMMA HeldLess ==
  ASSUME NEW n \in Nodes, NEW s \in Sources, NEW r \in Dataset \cup {None},
         NEW isDue, HeldSound(n, s, r, isDue), r # None => r.age < DataTimeout
  PROVE  HeldSound(n, s, r, FALSE)
<1>1. r # None => r.age \in Nat
  BY DEF Dataset
<1> QED BY <1>1, TimesAreNat DEF HeldSound

LEMMA AppliedSound ==
  ASSUME TypeOK, RolesKept, NEW msg \in Pushes, MessageSound(msg), NEW s \in Sources,
         NEW isDue, HeldSound(msg.to, s, data[msg.to][s], isDue),
         msg.to \in Masters \/ msg.reply
  PROVE  HeldSound(msg.to, s, Applied(msg, s), isDue)
<1> DEFINE old == data[msg.to][s]
<1>1. CASE msg.items[s] = None \/ (old # None /\ old.level = LOCAL_)
  BY <1>1 DEF Applied
<1>2. CASE ~(msg.items[s] = None \/ (old # None /\ old.level = LOCAL_))
  <2> DEFINE r == Applied(msg, s)
  <2>1. /\ r.level = (IF msg.from = s THEN FIRST_HAND ELSE SYNCED)
        /\ r.age = 0 /\ r.stale = msg.items[s]
    BY <1>2 DEF Applied
  <2>2. msg.items[s] \in Nat /\ msg.age \in Nat /\ msg.reply \in BOOLEAN /\ msg.kind = "push"
    BY <1>2, PushFields DEF Pushes
  <2>3. /\ msg.items[s] <= msg.age + SentStale(msg, s) /\ msg.age <= MaxDelay
        /\ msg.from # msg.to
        /\ msg.reply => msg.from \in Masters /\ msg.to \notin Masters
    BY <1>2, <2>2 DEF MessageSound
  <2> HIDE DEF r
  <2>4. HeldSound(msg.to, s, r, isDue)
    BY <2>1, <2>2, <2>3, LevelOrder, TimesAreNat DEF HeldSound, TakenStale, SentStale
  <2> QED BY <2>4 DEF r
<1> QED BY <1>1, <1>2

LEMMA StaleStep == AlfredConsistent /\ StaleInv /\ [Next]_vars => StaleInv'
<1> SUFFICES ASSUME AlfredConsistent, StaleInv, [Next]_vars, switches' = 0
             PROVE  /\ RolesKept'
                    /\ \A msg \in net' : MessageSound(msg)
                    /\ \A n \in Nodes, s \in Sources :
                         HeldSound(n, s, data'[n][s], n \in due')
  BY DEF StaleInv, MessageSound, HeldSound, SentStale, TakenStale
<1>1. TypeOK /\ BestServerIsKnown /\ TypeOK'
  BY ConsistentStep DEF AlfredConsistent
<1>2. switches = 0 /\ switches' = switches
  <2>1. switches \in Nat
    BY <1>1 DEF TypeOK
  <2>2. switches' = switches \/ switches' = switches + 1
    BY DEF Next, Housekeep, RequestData, SwitchMode, ChangeInterface, AddData, RecvAnnounce, RecvRequest,
           RecvPush, Tick, vars
  <2> QED BY <2>1, <2>2
<1>3. /\ RolesKept /\ \A msg \in net : MessageSound(msg)
      /\ \A n \in Nodes, s \in Sources : HeldSound(n, s, data[n][s], n \in due)
  BY <1>2 DEF StaleInv
<1>4. \A n \in Nodes : master[n] <=> n \in Masters
  BY <1>3 DEF RolesKept
<1>5. \A n \in Nodes : best[n] # None => best[n] \in Masters /\ best[n] \in Nodes /\ best[n] # n
  BY <1>1, <1>3 DEF RolesKept, BestServerIsKnown, Known
<1>6. \A n \in Nodes, m \in Nodes : Announce(n, m).kind = "announce" /\ Request(n, m).kind = "request"
  BY DEF Announce, Request
<1>7. ASSUME NEW n \in Nodes, Housekeep(n)
      PROVE  /\ RolesKept' /\ \A msg \in net' : MessageSound(msg)
             /\ \A m \in Nodes, s \in Sources : HeldSound(m, s, data'[m][s], m \in due')
  <2>1. /\ data' = [data EXCEPT ![n] = PurgedData(n)]
        /\ servers' = [servers EXCEPT ![n] = PurgedServers(n)]
        /\ waiting' = [waiting EXCEPT ![n] =
             IF waiting[n] # None /\ waiting[n].age >= RequestTimeout THEN None ELSE waiting[n]]
        /\ due' = due \ {n} /\ UNCHANGED <<master, switches>>
        /\ Send(IF master[n] THEN MasterSends(n) ELSE SlaveSends(n), net)
    BY <1>7 DEF Housekeep
  <2>2. RolesKept'
    <3>1. \A m \in Nodes : Known(m)' \subseteq Known(m)
      BY <1>1, <2>1 DEF Known, PurgedServers, TypeOK
    <3>2. \A m \in Nodes : waiting'[m] # None => waiting[m] # None
      BY <1>1, <2>1 DEF TypeOK
    <3> QED BY <1>3, <2>1, <3>1, <3>2 DEF RolesKept
  <2>3. \A msg \in MasterSends(n) : master[n] => MessageSound(msg)
    <3>1. ASSUME NEW m \in Nodes \ {n}, master[n]
          PROVE  MessageSound(Announce(n, m))
      <4>1. /\ Announce(n, m).kind = "announce" /\ Announce(n, m).from = n
            /\ Announce(n, m).to = m /\ Announce(n, m).age = 0
        BY DEF Announce
      <4> QED BY <1>4, <3>1, <4>1, TimesAreNat DEF MessageSound
    <3>2. ASSUME NEW m \in Known(n), master[n]
          PROVE  MessageSound(Push(n, m, FIRST_HAND, FALSE))
      <4>1. m \in Nodes /\ m # n
        BY <1>3, <3>2 DEF RolesKept, Known
      <4> QED BY <1>1, <1>3, <1>4, <3>2, <4>1, PushSound
    <3> QED BY <3>1, <3>2 DEF MasterSends
  <2>4. \A msg \in SlaveSends(n) : MessageSound(msg)
    <3>1. ASSUME best[n] # None
          PROVE  MessageSound(Push(n, best[n], LOCAL_, FALSE))
      BY <1>1, <1>3, <1>5, <3>1, PushSound
    <3> QED BY <3>1 DEF SlaveSends
  <2>5. \A msg \in net' : MessageSound(msg)
    <3> DEFINE msgs == IF master[n] THEN MasterSends(n) ELSE SlaveSends(n)
    <3>1. \A msg \in msgs : MessageSound(msg)
      BY <1>1, <2>3, <2>4 DEF TypeOK
    <3>2. net' \subseteq net \cup msgs
      BY <2>1 DEF Send
    <3> HIDE DEF msgs
    <3> QED BY <1>3, <3>1, <3>2
  <2>6. ASSUME NEW m \in Nodes, NEW s \in Sources
        PROVE  HeldSound(m, s, data'[m][s], m \in due')
    <3>1. CASE m = n
      <4>1. data'[n][s] = PurgedData(n)[s]
        BY <1>1, <2>1 DEF TypeOK
      <4>2. n \notin due'
        BY <2>1
      <4>3. CASE data[n][s] # None /\ data[n][s].age >= DataTimeout
        BY <3>1, <4>1, <4>3 DEF PurgedData, HeldSound
      <4>4. CASE ~(data[n][s] # None /\ data[n][s].age >= DataTimeout)
        <5>1. data'[n][s] = data[n][s] /\ data[n][s] \in Dataset \cup {None}
          BY <1>1, <4>1, <4>4 DEF PurgedData, TypeOK
        <5>2. data[n][s] # None => data[n][s].age < DataTimeout
          BY <4>4, <5>1, TimesAreNat DEF Dataset
        <5>3. HeldSound(n, s, data[n][s], FALSE)
          BY <1>3, <5>1, <5>2, HeldLess
        <5> QED BY <3>1, <4>2, <5>1, <5>3 DEF HeldSound
      <4> QED BY <4>3, <4>4
    <3>2. CASE m # n
      BY <1>1, <1>3, <2>1, <3>2 DEF TypeOK, HeldSound
    <3> QED BY <3>1, <3>2
  <2> QED BY <2>2, <2>5, <2>6
<1>8. ASSUME NEW n \in Nodes, RequestData(n)
      PROVE  /\ RolesKept' /\ \A msg \in net' : MessageSound(msg)
             /\ \A m \in Nodes, s \in Sources : HeldSound(m, s, data'[m][s], m \in due')
  <2>1. /\ ~master[n] /\ best[n] # None /\ Send({Request(n, best[n])}, net)
        /\ waiting' = [waiting EXCEPT ![n] = [server |-> best[n], age |-> 0]]
        /\ UNCHANGED <<master, data, servers, best, due, switches>>
    BY <1>8 DEF RequestData
  <2>2. MessageSound(Request(n, best[n]))
    <3>1. /\ Request(n, best[n]).kind = "request" /\ Request(n, best[n]).from = n
          /\ Request(n, best[n]).to = best[n] /\ Request(n, best[n]).age = 0
      BY DEF Request
    <3> QED BY <1>4, <1>5, <2>1, <3>1, TimesAreNat DEF MessageSound
  <2>3. \A msg \in net' : MessageSound(msg)
    BY <1>3, <2>1, <2>2 DEF Send
  <2>4. RolesKept'
    <3>1. \A m \in Nodes : waiting'[m] # None => waiting[m] # None \/ m = n
      BY <1>1, <2>1 DEF TypeOK
    <3>2. \A m \in Nodes : Known(m)' = Known(m)
      BY <2>1 DEF Known
    <3> QED BY <1>3, <1>4, <2>1, <3>1, <3>2 DEF RolesKept
  <2> QED BY <1>3, <2>1, <2>3, <2>4
<1>9. ASSUME NEW n \in Nodes, NEW x \in Sources, AddData(n, x)
      PROVE  /\ RolesKept' /\ \A msg \in net' : MessageSound(msg)
             /\ \A m \in Nodes, s \in Sources : HeldSound(m, s, data'[m][s], m \in due')
  <2>1. /\ x = n \/ n \in Masters
        /\ data' = [data EXCEPT ![n][x] = Fresh]
        /\ UNCHANGED <<master, servers, best, waiting, net, due, switches>>
    BY <1>4, <1>9 DEF AddData
  <2>2. RolesKept'
    BY <1>3, <2>1 DEF RolesKept, Known
  <2>3. ASSUME NEW m \in Nodes, NEW s \in Sources
        PROVE  HeldSound(m, s, data'[m][s], m \in due')
    <3>1. CASE m = n /\ s = x
      <4>1. data'[m][s] = Fresh
        BY <1>1, <2>1, <3>1 DEF TypeOK
      <4>2. Fresh.age = 0 /\ Fresh.stale = 0 /\ Fresh.level = LOCAL_
        BY DEF Fresh
      <4> QED BY <2>1, <3>1, <4>1, <4>2, TimesAreNat, LevelOrder DEF HeldSound, TakenStale
    <3>2. CASE ~(m = n /\ s = x)
      BY <1>1, <1>3, <2>1, <3>2 DEF TypeOK
    <3> QED BY <3>1, <3>2
  <2> QED BY <1>3, <2>1, <2>2, <2>3
<1>10. ASSUME NEW msg \in net, RecvAnnounce(msg)
       PROVE  /\ RolesKept' /\ \A m \in net' : MessageSound(m)
              /\ \A m \in Nodes, s \in Sources : HeldSound(m, s, data'[m][s], m \in due')
  <2>1. /\ servers' = [servers EXCEPT ![msg.to][msg.from] = 0] /\ net' \in Taken(msg)
        /\ msg.kind = "announce" /\ UNCHANGED <<master, data, waiting, due, switches>>
    BY <1>10 DEF RecvAnnounce
  <2>2. msg.from \in Masters /\ msg.from # msg.to /\ msg.from \in Nodes /\ msg.to \in Nodes
    BY <1>1, <1>3, <2>1, MessageFields DEF MessageSound, TypeOK
  <2>3. RolesKept'
    <3>1. \A m \in Nodes : Known(m)' \subseteq Known(m) \cup (IF m = msg.to THEN {msg.from} ELSE {})
      BY <1>1, <2>1, <2>2 DEF Known, TypeOK
    <3> QED BY <1>3, <2>1, <2>2, <3>1 DEF RolesKept
  <2> QED BY <1>3, <2>1, <2>3 DEF Taken
<1>11. ASSUME NEW msg \in net, RecvRequest(msg)
       PROVE  /\ RolesKept' /\ \A m \in net' : MessageSound(m)
              /\ \A m \in Nodes, s \in Sources : HeldSound(m, s, data'[m][s], m \in due')
  <2> DEFINE p == Push(msg.to, msg.from, SYNCED, TRUE)
  <2>1. msg.kind = "request" /\ UNCHANGED <<master, data, servers, best, waiting, due, switches>>
    BY <1>11 DEF RecvRequest
  <2>2. /\ msg.from \notin Masters /\ msg.to \in Masters /\ msg.from # msg.to
        /\ msg.from \in Nodes /\ msg.to \in Nodes
    BY <1>1, <1>3, <2>1, MessageFields DEF MessageSound, TypeOK
  <2>3. MessageSound(p)
    BY <1>1, <1>3, <2>2, PushSound
  <2>4. PICK rest \in Taken(msg) : Send({p}, rest)
    BY <1>11 DEF RecvRequest
  <2>5. net' \subseteq net \cup {p}
    BY <2>4 DEF Send, Taken
  <2> HIDE DEF p
  <2>6. \A m \in net' : MessageSound(m)
    BY <1>3, <2>3, <2>5
  <2>7. RolesKept'
    BY <1>3, <2>1 DEF RolesKept, Known
  <2> QED BY <1>3, <2>1, <2>6, <2>7
<1>12. ASSUME NEW msg \in net, RecvPush(msg)
       PROVE  /\ RolesKept' /\ \A m \in net' : MessageSound(m)
              /\ \A m \in Nodes, s \in Sources : HeldSound(m, s, data'[m][s], m \in due')
  <2> DEFINE row == [s \in Sources |-> Applied(msg, s)]
  <2>1. /\ msg.kind = "push" /\ net' \in Taken(msg) /\ UNCHANGED <<master, servers, best, due, switches>>
        /\ waiting' = [waiting EXCEPT ![msg.to] = IF Answers(msg) THEN None ELSE waiting[msg.to]]
        /\ data' = IF master[msg.to] \/ Answers(msg) THEN [data EXCEPT ![msg.to] = row] ELSE data
    BY <1>12 DEF RecvPush
  <2>2. msg \in Pushes /\ msg.to \in Nodes
    BY <1>1, <2>1, MessageFields DEF TypeOK
  <2>3. RolesKept'
    <3>1. \A m \in Nodes : waiting'[m] # None => waiting[m] # None
      BY <1>1, <2>1 DEF TypeOK
    <3> QED BY <1>3, <2>1, <3>1 DEF RolesKept, Known
  <2>4. ASSUME NEW m \in Nodes, NEW s \in Sources
        PROVE  HeldSound(m, s, data'[m][s], m \in due')
    <3>1. CASE m = msg.to /\ (master[msg.to] \/ Answers(msg))
      <4>1. data'[m][s] = Applied(msg, s)
        BY <1>1, <2>1, <2>2, <3>1 DEF TypeOK
      <4>2. HeldSound(msg.to, s, Applied(msg, s), msg.to \in due)
        BY <1>1, <1>3, <1>4, <2>2, <3>1, AppliedSound DEF Answers
      <4> QED BY <2>1, <3>1, <4>1, <4>2
    <3>2. CASE ~(m = msg.to /\ (master[msg.to] \/ Answers(msg)))
      <4>1. data'[m][s] = data[m][s]
        BY <1>1, <2>1, <3>2 DEF TypeOK
      <4> QED BY <1>3, <2>1, <4>1
    <3> QED BY <3>1, <3>2
  <2> QED BY <1>3, <2>1, <2>3, <2>4 DEF Taken
<1>13. ASSUME Tick
       PROVE  /\ RolesKept' /\ \A m \in net' : MessageSound(m)
              /\ \A m \in Nodes, s \in Sources : HeldSound(m, s, data'[m][s], m \in due')
  <2>1. /\ due = {} /\ due' = Nodes /\ UNCHANGED <<master, best, switches>>
        /\ servers' = [n \in Nodes |-> [m \in Nodes |->
                         IF servers[n][m] = None THEN None ELSE servers[n][m] + 1]]
    BY <1>13 DEF Tick
  <2>2. RolesKept'
    <3>1. \A m \in Nodes : waiting'[m] # None => waiting[m] # None
      BY <1>13 DEF Tick
    <3>2. \A m \in Nodes : Known(m)' \subseteq Known(m)
      BY <2>1 DEF Known
    <3> QED BY <1>3, <2>1, <3>1, <3>2 DEF RolesKept
  <2>3. \A m \in net' : MessageSound(m)
    <3>1. net' = {Aged(msg) : msg \in {x \in net : x.age < MaxDelay}}
      BY <1>13 DEF Tick, Aged
    <3>2. net \subseteq Messages
      BY <1>1 DEF TypeOK
    <3> QED BY <1>1, <1>2, <1>3, <3>1, <3>2, AgedSound
  <2>4. ASSUME NEW m \in Nodes, NEW s \in Sources
        PROVE  HeldSound(m, s, data'[m][s], m \in due')
    <3> DEFINE r == data[m][s]
    <3>1. data'[m][s] = IF r = None THEN None ELSE Later(r)
      BY <1>13 DEF Tick, Later
    <3>2. CASE r = None
      BY <3>1, <3>2 DEF HeldSound
    <3>3. CASE r # None
      <4>1. r \in Dataset
        BY <1>1, <3>3 DEF TypeOK
      <4>2. /\ r.age \in Nat /\ r.stale \in Nat /\ r.level \in {LOCAL_, FIRST_HAND, SYNCED}
            /\ Later(r).level = r.level /\ Later(r).age = r.age + 1
            /\ Later(r).stale = r.stale + 1
        BY <1>1, <1>2, <4>1, LaterFields DEF Dataset, Older
      <4>3. /\ r.age <= DataTimeout - 1 /\ r.stale <= r.age + TakenStale(m, r.level)
            /\ r.level = LOCAL_ => m \in Masters \/ s = m
            /\ r.level = FIRST_HAND => s # m
        BY <1>3, <2>1, <3>3 DEF HeldSound
      <4>4. TakenStale(m, r.level) \in Nat
        BY TimesAreNat DEF TakenStale
      <4> HIDE DEF r
      <4>5. HeldSound(m, s, Later(r), TRUE)
        BY <4>2, <4>3, <4>4, TimesAreNat DEF HeldSound
      <4> QED BY <2>1, <3>1, <3>3, <4>5
    <3> QED BY <3>2, <3>3
  <2> QED BY <2>2, <2>3, <2>4
<1>14. CASE UNCHANGED vars
  BY <1>3, <1>14 DEF vars, RolesKept, Known
<1>15. ASSUME NEW n \in Nodes, SwitchMode(n)
       PROVE  FALSE
  BY <1>2, <1>15 DEF SwitchMode
<1>16. ASSUME NEW n \in Nodes, ChangeInterface(n)
       PROVE  /\ RolesKept' /\ \A msg \in net' : MessageSound(msg)
              /\ \A m \in Nodes, s \in Sources : HeldSound(m, s, data'[m][s], m \in due')
  <2>1. /\ servers' = [servers EXCEPT ![n] = [m \in Nodes |-> None]]
        /\ UNCHANGED <<master, data, waiting, net, due, switches>>
    BY <1>16 DEF ChangeInterface
  <2>2. \A m \in Nodes : Known(m)' \subseteq Known(m)
    BY <1>1, <2>1 DEF Known, TypeOK
  <2>3. RolesKept'
    BY <1>3, <2>1, <2>2 DEF RolesKept
  <2> QED BY <1>3, <2>1, <2>3
<1> QED BY <1>7, <1>8, <1>9, <1>10, <1>11, <1>12, <1>13, <1>14, <1>15, <1>16 DEF Next

\* Data that no client writes any more is gone from every daemon after a few
\* timeouts, however many daemons pass it on, while the modes are fixed
\* (ForgottenEverywhere): a master's copy is at most a copy of a copy.
THEOREM DataIsForgotten == Spec => []ForgottenEverywhere
<1>1. AlfredConsistent /\ StaleInv => ForgottenEverywhere
  <2> SUFFICES ASSUME AlfredConsistent, StaleInv, NEW n \in Nodes, NEW s \in Sources,
                      switches = 0, data[n][s] # None
               PROVE  data[n][s].stale <= MaxStale(n)
    BY DEF ForgottenEverywhere
  <2> DEFINE r == data[n][s]
  <2>1. r \in Dataset
    BY DEF AlfredConsistent, TypeOK
  <2>2. r.age \in Nat /\ r.stale \in Nat /\ r.level \in {LOCAL_, FIRST_HAND, SYNCED}
    BY <2>1 DEF Dataset
  <2>3. r.age <= DataTimeout /\ r.stale <= r.age + TakenStale(n, r.level)
    BY <2>2, TimesAreNat DEF StaleInv, HeldSound
  <2>4. master[n] <=> n \in Masters
    BY DEF StaleInv, RolesKept
  <2> HIDE DEF r
  <2>5. r.stale <= MaxStale(n)
    BY <2>2, <2>3, <2>4, LevelOrder, TimesAreNat DEF MaxStale, TakenStale
  <2> QED BY <2>5 DEF r
<1>2. Spec => []StaleInv
  BY InitStale, StaleStep, AlfredIsConsistent, PTL DEF Spec
<1> QED BY <1>1, <1>2, AlfredIsConsistent, PTL
=================================================================================

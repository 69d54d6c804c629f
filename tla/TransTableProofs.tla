--------------------------- MODULE TransTableProofs ---------------------------
(***************************************************************************)
(* A full table that is under way with a version number is the table the   *)
(* originator committed with that number, but for the races of several     *)
(* CPUs; every variable keeps its type; and no change of the local table   *)
(* is forgotten.                                                           *)
(*                                                                         *)
(* The answers rest on five facts: away from the middle of a commit the    *)
(* clients that are not NEW are those of the last version, but for those a *)
(* removal took out (Agreed); what carries a version and a checksum has    *)
(* those of a commit (Carried), in the hands of a relay and of an update   *)
(* as well (Underway); a commit takes a client event, so that the numbers  *)
(* have not come round (Spent); and the list is emptied by each commit,    *)
(* since it fits one container (Waiting).  That nothing is forgotten rests *)
(* on what the list says of each client between two commits (Told).        *)
(***************************************************************************)
EXTENDS TransTable, SequenceTheorems, FiniteSetTheorems, WellFoundedInduction, TLAPS

-----------------------------------------------------------------------------
(* Sequences of changes                                                    *)

\* A set of numbers that is not empty has a smallest one.
LEMMA SmallestNumber ==
  ASSUME NEW T \in SUBSET Nat, T # {}
  PROVE  \E x \in T : \A y \in T : x <= y
<1> DEFINE R == {ss \in Nat \X Nat : ss[1] < ss[2]}
<1>1. IsWellFoundedOn(R, Nat)
  BY NatLessThanWellFounded DEF OpToRel
<1> HIDE DEF R
<1>2. PICK x \in T : \A y \in T : ~(<<y, x>> \in R)
  BY <1>1, WFMin
<1>3. \A y \in T : ~(y < x)
  BY <1>2 DEF R
<1> QED BY <1>3

\* A list of changes with one change more, or with one less
LEMMA QueuedIs ==
  ASSUME NEW list \in Seq(Change), NEW ch \in Change
  PROVE  /\ Queued(list, ch) \in Seq(Change)
         /\ Len(Queued(list, ch)) <= Len(list) + 1 /\ Len(Queued(list, ch)) >= Len(list) - 1
<1> DEFINE same == {i \in 1..Len(list) : list[i].addr = ch.addr}
           opposite == {i \in same : list[i].del # ch.del}
           first == CHOOSE i \in opposite : \A j \in opposite : i <= j
           flagged == [i \in 1..Len(list) |->
                         IF /\ i \in same /\ ~ch.del /\ ~list[i].del
                            /\ \A j \in opposite : i < j
                         THEN ch ELSE list[i]]
<1>1. Queued(list, ch) = IF opposite = {} THEN Append(flagged, ch) ELSE RemoveAt(flagged, first)
  BY DEF Queued
<1>2. flagged \in Seq(Change) /\ Len(flagged) = Len(list) /\ Len(list) \in Nat
  <2>1. Len(list) \in Nat /\ \A i \in 1..Len(list) : list[i] \in Change
    OBVIOUS
  <2>2. flagged \in [1..Len(list) -> Change]
    BY <2>1
  <2> QED BY <2>1, <2>2
<1>3. opposite # {} => first \in 1..Len(list)
  <2>1. opposite \in SUBSET Nat /\ opposite \subseteq 1..Len(list)
    OBVIOUS
  <2>2. opposite # {} => \E i \in opposite : \A j \in opposite : i <= j
    BY <2>1, SmallestNumber
  <2> QED BY <2>1, <2>2
<1> HIDE DEF same, opposite, first, flagged
<1>4. CASE opposite = {}
  BY <1>1, <1>2, <1>4
<1>5. CASE opposite # {}
  <2> DEFINE a == SubSeq(flagged, 1, first - 1)
             b == SubSeq(flagged, first + 1, Len(flagged))
  <2>1. first \in Nat /\ first >= 1 /\ first <= Len(flagged)
    BY <1>2, <1>3, <1>5
  <2>2. a \in Seq(Change) /\ Len(a) = first - 1
    BY <1>2, <2>1, SubSeqProperties
  <2>3. b \in Seq(Change) /\ Len(b) = Len(flagged) - first
    BY <1>2, <2>1, SubSeqProperties
  <2>4. Queued(list, ch) = a \o b
    BY <1>1, <1>5 DEF RemoveAt
  <2> HIDE DEF a, b
  <2>5. a \o b \in Seq(Change) /\ Len(a \o b) = Len(a) + Len(b)
    BY <2>2, <2>3
  <2> QED BY <1>2, <2>1, <2>2, <2>3, <2>4, <2>5
<1> QED BY <1>4, <1>5

\* The events of one step change the list by at most two.
LEMMA AllQueuedIs ==
  ASSUME NEW list \in Seq(Change), NEW chs \in Seq(Change), Len(chs) <= 2
  PROVE  /\ AllQueued(list, chs) \in Seq(Change)
         /\ Len(AllQueued(list, chs)) <= Len(list) + 2 /\ Len(AllQueued(list, chs)) >= Len(list) - 2
<1> DEFINE once == IF chs = << >> THEN list ELSE Queued(list, chs[1])
<1>1. once \in Seq(Change) /\ Len(once) <= Len(list) + 1 /\ Len(once) >= Len(list) - 1
  <2>1. CASE chs = << >>
    BY <2>1
  <2>2. CASE chs # << >>
    <3>1. chs[1] \in Change
      BY <2>2
    <3> QED BY <2>2, <3>1, QueuedIs
  <2> QED BY <2>1, <2>2
<1>2. AllQueued(list, chs) = IF Len(chs) < 2 THEN once ELSE Queued(once, chs[2])
  BY DEF AllQueued
<1> HIDE DEF once
<1>3. CASE Len(chs) < 2
  BY <1>1, <1>2, <1>3
<1>4. CASE ~(Len(chs) < 2)
  <2>1. chs[2] \in Change
    <3> DEFINE l == Len(chs)
    <3>1. l \in Nat /\ l <= 2 /\ ~(l < 2)
      BY <1>4
    <3> HIDE DEF l
    <3>2. l = 2
      BY <3>1
    <3>3. 2 \in 1..Len(chs)
      BY <3>2 DEF l
    <3> QED BY <3>3
  <2>2. /\ Queued(once, chs[2]) \in Seq(Change)
        /\ Len(Queued(once, chs[2])) <= Len(once) + 1 /\ Len(Queued(once, chs[2])) >= Len(once) - 1
    BY <1>1, <2>1, QueuedIs
  <2>3. Len(once) \in Nat /\ Len(list) \in Nat /\ Len(Queued(once, chs[2])) \in Nat
    BY <1>1, <2>2
  <2> QED BY <1>1, <1>2, <1>4, <2>2, <2>3
<1> QED BY <1>3, <1>4

LEMMA StoredIs ==
  ASSUME NEW chs \in Seq(Change), Len(chs) <= 2, NEW st \in Stored(chs)
  PROVE  st \in Seq(Change) /\ Len(st) <= 2
<1>1. CASE st = chs
  BY <1>1
<1>2. CASE st # chs
  <2>1. PICK i \in 1..Len(chs), j \in 0..Len(chs) : st = SubSeq(chs, i, j)
    BY <1>2 DEF Stored
  <2>2. Len(chs) \in Nat /\ \A k \in i..j : chs[k] \in Change
    BY <2>1
  <2>3. st \in Seq(Change) /\ Len(st) = IF i <= j THEN j - i + 1 ELSE 0
    BY <2>1, <2>2, SubSeqProperties
  <2> QED BY <2>2, <2>3
<1> QED BY <1>1, <1>2

\* What a local event leaves of the counters
LEMMA EventsIs ==
  ASSUME changes \in Seq(Change), NEW chs \in Seq(Change), Len(chs) <= 2,
         \E st \in Stored(chs) : changes' = AllQueued(changes, st) /\ owed' = Len(changes') - Len(changes)
  PROVE  changes' \in Seq(Change) /\ owed' \in -2..2
<1>1. PICK st \in Stored(chs) : changes' = AllQueued(changes, st) /\ owed' = Len(changes') - Len(changes)
  OBVIOUS
<1>2. st \in Seq(Change) /\ Len(st) <= 2
  BY StoredIs
<1>3. /\ changes' \in Seq(Change)
      /\ Len(changes') <= Len(changes) + 2 /\ Len(changes') >= Len(changes) - 2
  BY <1>1, <1>2, AllQueuedIs
<1>4. Len(changes) \in Nat /\ Len(changes') \in Nat
  BY <1>3
<1> QED BY <1>1, <1>3, <1>4

-----------------------------------------------------------------------------
(* The whole table as a list                                               *)

\* A set as a sequence: every element, each once
LEMMA SetToSeqIs ==
  ASSUME NEW S, IsFiniteSet(S)
  PROVE  LET s == SetToSeq(S)
         IN  /\ s \in Seq(S) /\ Len(s) = Cardinality(S)
             /\ {s[i] : i \in 1..Len(s)} = S
<1> DEFINE n == Cardinality(S)
           s == SetToSeq(S)
<1>1. n \in Nat /\ ExistsBijection(1..n, S)
  BY FS_CardinalityType
<1>2. \E f \in [1..n -> S] : IsInjective(f)
  BY <1>1 DEF ExistsBijection, Bijection, Injection, IsInjective
<1>3. s \in [1..n -> S] /\ IsInjective(s)
  BY <1>2 DEF SetToSeq
<1>4. IsFiniteSet(1..n) /\ Cardinality(1..n) = n
  BY <1>1, FS_Interval
<1>5. s \in Surjection(1..n, S)
  <2>1. s \in Injection(1..n, S)
    BY <1>3 DEF Injection, IsInjective
  <2> QED BY <1>4, <2>1, FS_Injection
<1> HIDE DEF n, s
<1>6. s \in Seq(S) /\ Len(s) = n
  BY <1>1, <1>3
<1>7. {s[i] : i \in 1..n} = S
  BY <1>5 DEF Surjection
<1> QED BY <1>6, <1>7 DEF n, s

LEMMA AddrsFinite == IsFiniteSet(Addrs)
<1>1. IsFiniteSet(Hosts) /\ IsFiniteSet({Mac, Zero})
  <2>1. IsFiniteSet({Mac}) /\ {Mac} \cup {Zero} = {Mac, Zero}
    BY FS_Singleton
  <2> QED BY <2>1, TablesOK, FS_AddElement
<1> QED BY <1>1, FS_Union DEF Addrs

\* The entries of a full response are those of the table.
LEMMA EntriesAre ==
  ASSUME NEW t \in Table
  PROVE  LET e == Entries(t)
         IN  /\ \A i \in 1..Len(e) : e[i].addr \in DOMAIN t /\ e[i].wifi = t[e[i].addr]
             /\ {e[i].addr : i \in 1..Len(e)} = DOMAIN t
<1> DEFINE S == {[addr |-> a, del |-> FALSE, wifi |-> t[a]] : a \in DOMAIN t}
           f == [a \in DOMAIN t |-> [addr |-> a, del |-> FALSE, wifi |-> t[a]]]
           e == Entries(t)
<1>1. DOMAIN t \subseteq Addrs
  BY DEF Table
<1>2. IsFiniteSet(DOMAIN t)
  BY <1>1, AddrsFinite, FS_Subset
<1>3. f \in Surjection(DOMAIN t, S)
  BY DEF Surjection
<1>4. IsFiniteSet(S)
  BY <1>2, <1>3, FS_Surjection
<1>5. e = SetToSeq(S)
  BY DEF Entries
<1> HIDE DEF S, e, f
<1>6. {e[i] : i \in 1..Len(e)} = S
  <2>1. {SetToSeq(S)[i] : i \in 1..Len(SetToSeq(S))} = S
    BY <1>4, SetToSeqIs
  <2> QED BY <1>5, <2>1
<1>7. \A x \in S : x.addr \in DOMAIN t /\ x.wifi = t[x.addr]
  BY DEF S
<1>8. \A a \in DOMAIN t : \E x \in S : x.addr = a
  <2> TAKE a \in DOMAIN t
  <2> DEFINE x == [addr |-> a, del |-> FALSE, wifi |-> t[a]]
  <2>1. x \in S /\ x.addr = a
    BY DEF S
  <2> QED BY <2>1
<1>9. \A i \in 1..Len(e) : e[i] \in S
  BY <1>6
<1>10. \A x \in S : \E i \in 1..Len(e) : x = e[i]
  BY <1>6
<1>11. {e[i].addr : i \in 1..Len(e)} = DOMAIN t
  <2>1. \A i \in 1..Len(e) : e[i].addr \in DOMAIN t
    BY <1>7, <1>9
  <2>2. \A a \in DOMAIN t : \E i \in 1..Len(e) : e[i].addr = a
    BY <1>8, <1>10
  <2> QED BY <2>1, <2>2
<1> QED BY <1>7, <1>9, <1>11 DEF e

-----------------------------------------------------------------------------
(***************************************************************************)
(* The types, whatever CPUs and allocations do (TTTypeCorrect)             *)
(***************************************************************************)
Vns == 0..(VnMod - 1)

Owned == Hosts \cup {Mac}

OwnTyped ==
  /\ local \in UNION {[S -> Entry] : S \in SUBSET Owned}
  /\ changes \in Seq(Change) /\ lastset \in {None} \cup Seq(Change)
  /\ owed \in -2..2 /\ count \in Int /\ vn \in Vns
  /\ crc \in Table /\ append \in 0..AppendMax /\ commit \in [step : Steps, n : Int]
  /\ container \in Carrier

MsgTyped(m) == IF m.type = "request" THEN m \in Request
               ELSE m \in Response /\ (~SMP => ~m.torn)

NetTyped ==
  /\ ogms \subseteq Carrier /\ IsFiniteSet(msgs) /\ Cardinality(msgs) <= MaxMsgs
  /\ \A m \in msgs : MsgTyped(m)

\* On one CPU nothing is half done, and no client is gone that is announced.
SmpTyped ==
  /\ leave \in {None} \cup Removal /\ relay \in {None} \cup Copying
  /\ upd \in {None} \cup Update
  /\ surplus \in Nat /\ gone \in [Vns -> SUBSET Addrs]
  /\ ~SMP => /\ leave = None /\ relay = None /\ upd = None /\ surplus = 0
              /\ \A v \in Vns : gone[v] = {}

TypeInv == OwnTyped /\ NetTyped /\ recv \in [Receivers -> OrigNode] /\ SmpTyped

LEMMA TTNumbers ==
  /\ VnMod \in Nat /\ VnMod > 2 /\ FirstVns \subseteq Vns
  /\ MaxEvents \in Nat /\ MaxEvents + 1 < VnMod /\ MaxDiff \in Nat /\ AppendMax \in Nat
  /\ Wifis \subseteq BOOLEAN
BY ConstantsOK DEF Vns

\* The next version number
LEMMA NextVn ==
  ASSUME NEW v \in Vns
  PROVE  (v + 1) % VnMod = (IF v + 1 = VnMod THEN 0 ELSE v + 1) /\ (v + 1) % VnMod \in Vns
<1> DEFINE m == VnMod
<1>1. m \in Nat /\ m > 2 /\ v \in 0..(m - 1)
  BY TTNumbers DEF Vns
<1> HIDE DEF m
<1>2. \A a \in 0..(m - 1) : a % m = a
  BY <1>1
<1>3. m % m = 0
  BY <1>1
<1>4. v + 1 = m \/ v + 1 \in 0..(m - 1)
  BY <1>1
<1> QED BY <1>1, <1>2, <1>3, <1>4 DEF m, Vns

\* What the local table is, and the table of its clients that are not NEW
LEMMA TableTyped ==
  ASSUME local \in UNION {[S -> Entry] : S \in SUBSET Addrs}
  PROVE  /\ local = [c \in DOMAIN local |-> local[c]] /\ DOMAIN local \subseteq Addrs
         /\ \A c \in DOMAIN local : local[c] \in Entry
         /\ Valid \subseteq DOMAIN local
         /\ [c \in Valid |-> local[c].wifi] \in Table
<1>1. PICK S \in SUBSET Addrs : local \in [S -> Entry]
  OBVIOUS
<1>2. DOMAIN local = S /\ \A c \in DOMAIN local : local[c] \in Entry /\ local[c].wifi \in BOOLEAN
  BY <1>1 DEF Entry
<1>3. Valid \in SUBSET Addrs /\ Valid \subseteq DOMAIN local
  BY <1>2 DEF Valid
<1>4. [c \in Valid |-> local[c].wifi] \in [Valid -> BOOLEAN]
  BY <1>2, <1>3
<1> QED BY <1>1, <1>2, <1>3, <1>4 DEF Table

\* What a local event does: the clients that are not NEW stay.
LEMMA EventIs ==
  ASSUME local \in UNION {[S -> Entry] : S \in SUBSET Addrs}, changes \in Seq(Change),
         NEW c \in Hosts,
         LocalPurge(c) \/ LocalRemove(c) \/ \E w \in Wifis : LocalAdd(c, w)
  PROVE  /\ Event /\ local' \in UNION {[S -> Entry] : S \in SUBSET Addrs} /\ Valid' = Valid
         /\ changes' \in Seq(Change) /\ owed' \in -2..2
         /\ DOMAIN local' \subseteq DOMAIN local \cup {c}
<1>0. /\ local = [d \in DOMAIN local |-> local[d]] /\ DOMAIN local \subseteq Addrs
      /\ \A d \in DOMAIN local : local[d] \in Entry
      /\ c \in Addrs /\ changes \in Seq(Change)
  BY TableTyped DEF Addrs
<1>1. \A del, w \in BOOLEAN : ChangeOf(c, del, w) \in Change
  BY <1>0 DEF ChangeOf, Change
<1>2. \A del, w \in BOOLEAN :
        <<ChangeOf(c, del, w)>> \in Seq(Change) /\ Len(<<ChangeOf(c, del, w)>>) = 1
  <2> TAKE del, w \in BOOLEAN
  <2> DEFINE ch == ChangeOf(c, del, w)
  <2>1. ch \in Change
    BY <1>1
  <2> HIDE DEF ch
  <2>2. <<ch>> \in Seq(Change) /\ Len(<<ch>>) = 1
    BY <2>1
  <2> QED BY <2>2 DEF ch
\* A step that gives c the entry e, or takes its entry away
<1>3. ASSUME NEW S \in SUBSET Addrs, \A d \in S : local'[d] \in Entry, DOMAIN local' = S,
             local' = [d \in S |-> local'[d]]
      PROVE  local' \in UNION {[T -> Entry] : T \in SUBSET Addrs}
  BY <1>3
<1>4. CASE LocalPurge(c)
  <2>1. /\ Event /\ c \in DOMAIN local /\ local' = [local EXCEPT ![c].pend = TRUE]
        /\ Events(<<ChangeOf(c, TRUE, local[c].wifi)>>)
    BY <1>4 DEF LocalPurge
  <2>2. local[c] \in Entry /\ local[c].wifi \in BOOLEAN /\ [local[c] EXCEPT !.pend = TRUE] \in Entry
        /\ [local[c] EXCEPT !.pend = TRUE].new = local[c].new
    BY <1>0, <2>1 DEF Entry
  <2>3. changes' \in Seq(Change) /\ owed' \in -2..2
    <3> DEFINE chs == <<ChangeOf(c, TRUE, local[c].wifi)>>
    <3>1. chs \in Seq(Change) /\ Len(chs) = 1
      BY <1>2, <2>2
    <3>2. \E st \in Stored(chs) : changes' = AllQueued(changes, st) /\ owed' = Len(changes') - Len(changes)
      BY <2>1 DEF Events
    <3>3. Len(chs) <= 2
      BY <3>1
    <3> HIDE DEF chs
    <3> QED BY <1>0, <3>1, <3>2, <3>3, EventsIs
  <2>4. /\ DOMAIN local' = DOMAIN local /\ local'[c] = [local[c] EXCEPT !.pend = TRUE]
        /\ \A d \in DOMAIN local \ {c} : local'[d] = local[d]
        /\ local' = [d \in DOMAIN local |-> local'[d]]
    BY <1>0, <2>1
  <2>5. Valid' = Valid
    BY <2>2, <2>4 DEF Valid
  <2> QED BY <1>0, <1>3, <2>1, <2>2, <2>3, <2>4, <2>5
<1>5. CASE LocalRemove(c)
  <2>1. /\ Event /\ c \in DOMAIN local
        /\ local' = IF local[c].new THEN Restrict(local, DOMAIN local \ {c})
                                    ELSE [local EXCEPT ![c].pend = TRUE]
        /\ Events(<<ChangeOf(c, TRUE, local[c].wifi)>>)
    BY <1>5 DEF LocalRemove
  <2>2. local[c] \in Entry /\ local[c].wifi \in BOOLEAN /\ [local[c] EXCEPT !.pend = TRUE] \in Entry
        /\ [local[c] EXCEPT !.pend = TRUE].new = local[c].new
    BY <1>0, <2>1 DEF Entry
  <2>3. changes' \in Seq(Change) /\ owed' \in -2..2
    <3> DEFINE chs == <<ChangeOf(c, TRUE, local[c].wifi)>>
    <3>1. chs \in Seq(Change) /\ Len(chs) = 1
      BY <1>2, <2>2
    <3>2. \E st \in Stored(chs) : changes' = AllQueued(changes, st) /\ owed' = Len(changes') - Len(changes)
      BY <2>1 DEF Events
    <3>3. Len(chs) <= 2
      BY <3>1
    <3> HIDE DEF chs
    <3> QED BY <1>0, <3>1, <3>2, <3>3, EventsIs
  <2>4. CASE local[c].new
    <3>1. local' = [d \in DOMAIN local \ {c} |-> local[d]]
      BY <2>1, <2>4 DEF Restrict
    <3>2. Valid' = Valid
      BY <2>4, <3>1 DEF Valid
    <3>3. DOMAIN local \ {c} \in SUBSET Addrs /\ \A d \in DOMAIN local \ {c} : local'[d] \in Entry
      BY <1>0, <3>1
    <3>4. /\ DOMAIN local' = DOMAIN local \ {c}
          /\ local' = [d \in DOMAIN local \ {c} |-> local'[d]]
      BY <3>1
    <3>5. local' \in UNION {[S -> Entry] : S \in SUBSET Addrs}
      BY <1>3, <3>3, <3>4
    <3>6. Event
      BY <2>1
    <3>7. DOMAIN local' \subseteq DOMAIN local \cup {c}
      BY <3>4
    <3> QED BY <2>3, <3>2, <3>5, <3>6, <3>7, Zenon
  <2>5. CASE ~local[c].new
    <3>1. /\ DOMAIN local' = DOMAIN local /\ local'[c] = [local[c] EXCEPT !.pend = TRUE]
          /\ \A d \in DOMAIN local \ {c} : local'[d] = local[d]
          /\ local' = [d \in DOMAIN local |-> local'[d]]
      BY <1>0, <2>1, <2>5
    <3>2. Valid' = Valid
      BY <2>2, <3>1 DEF Valid
    <3>3. \A d \in DOMAIN local : local'[d] \in Entry
      BY <1>0, <2>2, <3>1
    <3>4. local' \in UNION {[S -> Entry] : S \in SUBSET Addrs}
      BY <1>0, <1>3, <3>1, <3>3
    <3>5. Event
      BY <2>1
    <3>6. DOMAIN local' \subseteq DOMAIN local \cup {c}
      BY <3>1
    <3> QED BY <2>3, <3>2, <3>4, <3>5, <3>6, Zenon
  <2> QED BY <2>4, <2>5
<1>6. ASSUME NEW w \in Wifis, LocalAdd(c, w), c \notin DOMAIN local
      PROVE  /\ Event /\ local' \in UNION {[S -> Entry] : S \in SUBSET Addrs} /\ Valid' = Valid
             /\ changes' \in Seq(Change) /\ owed' \in -2..2
             /\ DOMAIN local' \subseteq DOMAIN local \cup {c}
  <2> DEFINE e == [new |-> TRUE, pend |-> FALSE, wifi |-> w]
  <2>1. /\ Event /\ local' = [d \in {c} \cup DOMAIN local |-> IF d = c THEN e ELSE local[d]]
        /\ Events(<<ChangeOf(c, FALSE, w)>>)
    BY <1>6 DEF LocalAdd
  <2>2. w \in BOOLEAN /\ e \in Entry /\ e.new = TRUE
    BY TTNumbers DEF Entry
  <2> HIDE DEF e
  <2>3. local' = [d \in {c} \cup DOMAIN local |-> IF d = c THEN e ELSE local[d]]
    BY <2>1
  <2>4. Valid' = Valid
    BY <1>6, <2>2, <2>3 DEF Valid
  <2>6. {c} \cup DOMAIN local \in SUBSET Addrs /\ \A d \in {c} \cup DOMAIN local : local'[d] \in Entry
    BY <1>0, <2>2, <2>3
  <2>7. changes' \in Seq(Change) /\ owed' \in -2..2
    <3> DEFINE chs == <<ChangeOf(c, FALSE, w)>>
    <3>1. chs \in Seq(Change) /\ Len(chs) = 1
      BY <1>2, <2>2
    <3>2. \E st \in Stored(chs) : changes' = AllQueued(changes, st) /\ owed' = Len(changes') - Len(changes)
      BY <2>1 DEF Events
    <3>3. Len(chs) <= 2
      BY <3>1
    <3> HIDE DEF chs
    <3> QED BY <1>0, <3>1, <3>2, <3>3, EventsIs
  <2> QED BY <1>3, <2>1, <2>3, <2>4, <2>6, <2>7
<1>7. ASSUME NEW w \in Wifis, LocalAdd(c, w), c \in DOMAIN local
      PROVE  /\ Event /\ local' \in UNION {[S -> Entry] : S \in SUBSET Addrs} /\ Valid' = Valid
             /\ changes' \in Seq(Change) /\ owed' \in -2..2
             /\ DOMAIN local' \subseteq DOMAIN local \cup {c}
  <2> DEFINE e == local[c]
             again == IF e.pend THEN <<ChangeOf(c, FALSE, e.wifi)>> ELSE << >>
             flags == IF e.wifi # w THEN <<ChangeOf(c, FALSE, w)>> ELSE << >>
             f == [e EXCEPT !.pend = FALSE, !.wifi = w]
  <2>1. /\ Event /\ local' = [local EXCEPT ![c] = f] /\ Events(again \o flags)
    BY <1>7 DEF LocalAdd
  <2>2. w \in BOOLEAN /\ e \in Entry /\ e.wifi \in BOOLEAN /\ f \in Entry /\ f.new = e.new
    BY <1>0, <1>7, TTNumbers DEF Entry
  <2>3. again \in Seq(Change) /\ flags \in Seq(Change) /\ Len(again) <= 1 /\ Len(flags) <= 1
    <3>1. << >> \in Seq(Change) /\ Len(<< >>) = 0
      OBVIOUS
    <3>2. again = << >> \/ again = <<ChangeOf(c, FALSE, e.wifi)>>
      OBVIOUS
    <3>3. flags = << >> \/ flags = <<ChangeOf(c, FALSE, w)>>
      OBVIOUS
    <3> HIDE DEF again, flags, e
    <3>6. /\ <<ChangeOf(c, FALSE, e.wifi)>> \in Seq(Change) /\ Len(<<ChangeOf(c, FALSE, e.wifi)>>) = 1
          /\ <<ChangeOf(c, FALSE, w)>> \in Seq(Change) /\ Len(<<ChangeOf(c, FALSE, w)>>) = 1
      BY <1>2, <2>2, Zenon
    <3>4. again \in Seq(Change) /\ Len(again) <= 1
      <4>1. CASE again = << >>
        BY <3>1, <4>1
      <4>2. CASE again = <<ChangeOf(c, FALSE, e.wifi)>>
        <5>1. again \in Seq(Change) /\ Len(again) = 1
          BY <3>6, <4>2, Zenon
        <5> QED BY <5>1
      <4> QED BY <3>2, <4>1, <4>2
    <3>5. flags \in Seq(Change) /\ Len(flags) <= 1
      <4>1. CASE flags = << >>
        BY <3>1, <4>1
      <4>2. CASE flags = <<ChangeOf(c, FALSE, w)>>
        <5>1. flags \in Seq(Change) /\ Len(flags) = 1
          BY <3>6, <4>2, Zenon
        <5> QED BY <5>1
      <4> QED BY <3>3, <4>1, <4>2
    <3> QED BY <3>4, <3>5
  <2> HIDE DEF again, flags, f
  <2>4. again \o flags \in Seq(Change) /\ Len(again \o flags) <= 2
    BY <2>3
  <2>5. /\ DOMAIN local' = DOMAIN local /\ local'[c] = f
        /\ \A d \in DOMAIN local \ {c} : local'[d] = local[d]
        /\ local' = [d \in DOMAIN local |-> local'[d]]
    BY <1>0, <1>7, <2>1
  <2>6. Valid' = Valid
    BY <2>2, <2>5 DEF Valid
  <2>7. changes' \in Seq(Change) /\ owed' \in -2..2
    <3> DEFINE chs == again \o flags
    <3>1. \E st \in Stored(chs) : changes' = AllQueued(changes, st) /\ owed' = Len(changes') - Len(changes)
      BY <2>1 DEF Events
    <3> HIDE DEF chs
    <3> QED BY <1>0, <2>4, <3>1, EventsIs DEF chs
  <2> QED BY <1>0, <1>3, <2>1, <2>2, <2>5, <2>6, <2>7
<1> QED BY <1>4, <1>5, <1>6, <1>7

-----------------------------------------------------------------------------
(* Messages *)

LEMMA TTBounds == MaxMsgs \in Nat /\ AppendMax \in Nat /\ MaxDiff \in Nat
BY ConstantsOK

\* One message more, while there is room
LEMMA OneMore ==
  ASSUME NetTyped, ogms' \subseteq Carrier, NEW x, MsgTyped(x), Cardinality(msgs) < MaxMsgs,
         msgs' = msgs \cup {x}
  PROVE  NetTyped'
<1>1. IsFiniteSet(msgs) /\ Cardinality(msgs) \in Nat
  BY FS_CardinalityType DEF NetTyped
<1>2. /\ IsFiniteSet(msgs \cup {x})
      /\ Cardinality(msgs \cup {x}) = IF x \in msgs THEN Cardinality(msgs) ELSE Cardinality(msgs) + 1
  BY <1>1, FS_AddElement
<1>3. Cardinality(msgs') <= MaxMsgs
  BY <1>1, <1>2, TTBounds
<1> QED BY <1>2, <1>3 DEF NetTyped

\* A message gone, and perhaps another in its place
LEMMA OneLess ==
  ASSUME NetTyped, ogms' \subseteq Carrier, NEW m \in msgs, msgs' = msgs \ {m}
  PROVE  NetTyped'
<1>1. IsFiniteSet(msgs) /\ Cardinality(msgs) \in Nat
  BY FS_CardinalityType DEF NetTyped
<1>2. /\ IsFiniteSet(msgs \ {m})
      /\ Cardinality(msgs \ {m}) = IF m \in msgs THEN Cardinality(msgs) - 1 ELSE Cardinality(msgs)
  BY <1>1, FS_RemoveElement
<1>3. Cardinality(msgs') <= MaxMsgs
  BY <1>1, <1>2, TTBounds DEF NetTyped
<1> QED BY <1>2, <1>3 DEF NetTyped

LEMMA OneForOther ==
  ASSUME NetTyped, ogms' \subseteq Carrier, NEW m \in msgs, NEW x, MsgTyped(x),
         msgs' = (msgs \ {m}) \cup {x}
  PROVE  NetTyped'
<1>1. IsFiniteSet(msgs) /\ Cardinality(msgs) \in Nat
  BY FS_CardinalityType DEF NetTyped
<1> DEFINE rest == msgs \ {m}
<1>2. IsFiniteSet(rest) /\ Cardinality(rest) = Cardinality(msgs) - 1
  BY <1>1, FS_RemoveElement
<1>3. /\ IsFiniteSet(rest \cup {x})
      /\ Cardinality(rest \cup {x}) = IF x \in rest THEN Cardinality(rest) ELSE Cardinality(rest) + 1
  BY <1>2, FS_AddElement
<1>4. Cardinality(msgs') <= MaxMsgs
  BY <1>1, <1>2, <1>3, TTBounds DEF NetTyped
<1> QED BY <1>3, <1>4 DEF NetTyped

LEMMA EntriesTyped ==
  ASSUME NEW t \in Table
  PROVE  Entries(t) \in Seq(Change)
<1> DEFINE S == {[addr |-> a, del |-> FALSE, wifi |-> t[a]] : a \in DOMAIN t}
           f == [a \in DOMAIN t |-> [addr |-> a, del |-> FALSE, wifi |-> t[a]]]
<1>1. DOMAIN t \subseteq Addrs /\ \A a \in DOMAIN t : t[a] \in BOOLEAN
  BY DEF Table
<1>2. IsFiniteSet(DOMAIN t)
  BY <1>1, AddrsFinite, FS_Subset
<1>3. f \in Surjection(DOMAIN t, S)
  BY DEF Surjection
<1>4. IsFiniteSet(S)
  BY <1>2, <1>3, FS_Surjection
<1>5. S \subseteq Change
  <2> SUFFICES ASSUME NEW a \in DOMAIN t
               PROVE  [addr |-> a, del |-> FALSE, wifi |-> t[a]] \in Change
    OBVIOUS
  <2>1. a \in Addrs /\ t[a] \in BOOLEAN
    BY <1>1
  <2> QED BY <2>1 DEF Change
<1>6. Entries(t) = SetToSeq(S)
  BY DEF Entries
<1> HIDE DEF S
<1>7. SetToSeq(S) \in Seq(S)
  BY <1>4, SetToSeqIs
<1> QED BY <1>5, <1>6, <1>7

-----------------------------------------------------------------------------
(* Receivers *)

Updated == [table : Table, done : BOOLEAN]

LEMMA TableLess ==
  ASSUME NEW t \in Table, NEW S
  PROVE  Restrict(t, DOMAIN t \ S) \in Table
<1>1. PICK D \in SUBSET Addrs : t \in [D -> BOOLEAN]
  BY DEF Table
<1>2. Restrict(t, DOMAIN t \ S) \in [D \ S -> BOOLEAN]
  BY <1>1 DEF Restrict
<1>3. D \ S \in SUBSET Addrs
  OBVIOUS
<1> QED BY <1>2, <1>3 DEF Table

LEMMA TableMore ==
  ASSUME NEW t \in Table, NEW ch \in Change
  PROVE  Added(t, ch) \in Table
<1>1. PICK D \in SUBSET Addrs : t \in [D -> BOOLEAN]
  BY DEF Table
<1>2. ch.addr \in Addrs /\ ch.wifi \in BOOLEAN
  BY DEF Change
<1>3. Added(t, ch) \in [D \cup {ch.addr} -> BOOLEAN]
  <2>1. \A a \in D : t[a] \in BOOLEAN
    BY <1>1
  <2>2. DOMAIN t = D
    BY <1>1
  <2> QED BY <1>2, <2>1, <2>2 DEF Added
<1>4. D \cup {ch.addr} \in SUBSET Addrs
  BY <1>2
<1> QED BY <1>3, <1>4 DEF Table

LEMMA AppliedTyped ==
  ASSUME NEW u \in Updated, NEW ch \in Change
  PROVE  Applied(u, ch) \subseteq Updated
<1> DEFINE more == Added(u.table, ch)
           less == Restrict(u.table, DOMAIN u.table \ {ch.addr})
<1>1. u.table \in Table
  BY DEF Updated
<1>2. more \in Table /\ less \in Table
  BY <1>1, TableLess, TableMore
<1>3. Applied(u, ch) \subseteq {u, [u EXCEPT !.table = less], [u EXCEPT !.table = more],
                                [u EXCEPT !.done = FALSE]}
  BY DEF Applied
<1> HIDE DEF more, less
<1>4. /\ [u EXCEPT !.table = less] \in Updated /\ [u EXCEPT !.table = more] \in Updated
      /\ [u EXCEPT !.done = FALSE] \in Updated
  BY <1>2 DEF Updated
<1> QED BY <1>3, <1>4

\* A set of numbers with 0 and with each number's next has them all.
LEMMA NumbersUpTo ==
  ASSUME NEW n \in Nat, NEW S, 0 \in S, \A i \in 0..(n - 1) : i \in S => i + 1 \in S
  PROVE  0..n \subseteq S
<1> SUFFICES ASSUME NEW m \in 0..n, m \notin S PROVE FALSE
  OBVIOUS
<1> DEFINE T == {i \in Nat : i <= n /\ i \notin S}
<1>1. m \in T /\ T \in SUBSET Nat
  OBVIOUS
<1>2. PICK x \in T : \A y \in T : x <= y
  BY <1>1, SmallestNumber
<1>3. x # 0 /\ x - 1 \in 0..(n - 1)
  OBVIOUS
<1>4. x - 1 \in S
  BY <1>2, <1>3
<1>5. (x - 1) + 1 \in S
  BY <1>3, <1>4
<1> QED BY <1>5

\* What one change more makes of an update
AfterStep(t, chs, after, i) ==
  IF i = 0 THEN {[table |-> t, done |-> TRUE]}
  ELSE UNION {Applied(u, chs[i]) : u \in after[i - 1]}

LEMMA UpdatesAre ==
  ASSUME NEW t, NEW chs, Len(chs) \in Nat
  PROVE  \E L : /\ L = [i \in 0..Len(chs) |-> AfterStep(t, chs, L, i)]
                /\ Updates(t, chs) = L[Len(chs)]
<1> DEFINE n == Len(chs)
           Made(m) == \E G : G = [i \in 0..m |-> AfterStep(t, chs, G, i)]
           S == {m \in 0..n : Made(m)}
           first == {[table |-> t, done |-> TRUE]}
<1>1. 0 \in S
  <2>1. [i \in 0..0 |-> first] = [i \in 0..0 |-> AfterStep(t, chs, [j \in 0..0 |-> first], i)]
    BY DEF AfterStep
  <2> QED BY <2>1
<1>2. ASSUME NEW m \in 0..(n - 1), m \in S
      PROVE  m + 1 \in S
  <2>1. PICK G : G = [i \in 0..m |-> AfterStep(t, chs, G, i)]
    BY <1>2
  <2> DEFINE H == [i \in 0..(m + 1) |-> IF i <= m THEN G[i] ELSE AfterStep(t, chs, G, i)]
  <2>2. ASSUME NEW i \in 0..(m + 1)
        PROVE  AfterStep(t, chs, G, i) = AfterStep(t, chs, H, i)
    <3>1. i = 0 \/ (i - 1 \in 0..(m + 1) /\ i - 1 <= m)
      OBVIOUS
    <3>2. i = 0 \/ H[i - 1] = G[i - 1]
      BY <3>1
    <3> HIDE DEF H
    <3> QED BY <3>2 DEF AfterStep
  <2>3. ASSUME NEW i \in 0..(m + 1)
        PROVE  H[i] = AfterStep(t, chs, H, i)
    <3>1. H[i] = AfterStep(t, chs, G, i)
      <4>1. CASE i <= m
        <5>1. i \in 0..m
          BY <4>1
        <5> HIDE DEF n
        <5>2. G[i] = AfterStep(t, chs, G, i)
          BY <2>1, <5>1
        <5> QED BY <4>1, <5>2
      <4>2. CASE ~(i <= m)
        BY <4>2
      <4> QED BY <4>1, <4>2
    <3> HIDE DEF H
    <3> QED BY <2>2, <3>1
  <2>4. H = [i \in 0..(m + 1) |-> H[i]]
    OBVIOUS
  <2>5. H = [i \in 0..(m + 1) |-> AfterStep(t, chs, H, i)]
    <3> HIDE DEF H
    <3> QED BY <2>3, <2>4
  <2>6. m + 1 \in 0..n
    OBVIOUS
  <2> QED BY <2>5, <2>6
<1>3. n \in S
  <2> HIDE DEF S
  <2>1. 0..n \subseteq S
    BY <1>1, <1>2, NumbersUpTo
  <2> QED BY <2>1
<1>4. PICK G : G = [i \in 0..n |-> AfterStep(t, chs, G, i)]
  BY <1>3
<1> DEFINE L == CHOOSE F : F = [i \in 0..n |-> AfterStep(t, chs, F, i)]
<1>5. L = [i \in 0..n |-> AfterStep(t, chs, L, i)]
  BY <1>4
<1>6. Updates(t, chs) = L[n]
  BY DEF Updates, AfterStep
<1> HIDE DEF L
<1> QED BY <1>5, <1>6

LEMMA UpdatesTyped ==
  ASSUME NEW t \in Table, NEW chs \in Seq(Change)
  PROVE  Updates(t, chs) \subseteq Updated
<1> DEFINE n == Len(chs)
<1>1. n \in Nat /\ \A i \in 1..n : chs[i] \in Change
  OBVIOUS
<1>2. PICK L : L = [i \in 0..n |-> AfterStep(t, chs, L, i)] /\ Updates(t, chs) = L[n]
  BY <1>1, UpdatesAre
<1> HIDE DEF n
<1> DEFINE S == {i \in 0..n : L[i] \subseteq Updated}
<1>3. \A i \in 0..n : L[i] = AfterStep(t, chs, L, i)
  BY <1>2
<1>4. 0 \in S
  <2>1. 0 \in 0..n
    BY <1>1
  <2>2. L[0] = AfterStep(t, chs, L, 0)
    BY <1>3, <2>1
  <2>3. L[0] = {[table |-> t, done |-> TRUE]}
    BY <2>2 DEF AfterStep
  <2>4. [table |-> t, done |-> TRUE] \in Updated
    BY DEF Updated
  <2>5. L[0] \subseteq Updated
    BY <2>3, <2>4
  <2> QED BY <2>1, <2>5
<1>5. ASSUME NEW i \in 0..(n - 1), i \in S
      PROVE  i + 1 \in S
  <2>1. i + 1 \in 0..n /\ i + 1 # 0 /\ (i + 1) - 1 = i /\ i + 1 \in 1..n
    BY <1>1
  <2>2. L[i + 1] = UNION {Applied(u, chs[i + 1]) : u \in L[i]}
    BY <1>3, <2>1 DEF AfterStep
  <2>3. \A u \in L[i] : Applied(u, chs[i + 1]) \subseteq Updated
    BY <1>1, <1>5, <2>1, AppliedTyped
  <2> QED BY <2>1, <2>2, <2>3
<1>6. n \in S
  <2> HIDE DEF S
  <2>1. 0..n \subseteq S
    BY <1>1, <1>4, <1>5, NumbersUpTo
  <2> QED BY <1>1, <2>1
<1> QED BY <1>2, <1>6

LEMMA NodeIs ==
  ASSUME NEW n \in OrigNode
  PROVE  /\ n.known \in BOOLEAN /\ n.table \in Table /\ n.has \in BOOLEAN /\ n.last \in Vns
         /\ n.buff \in {None} \cup Seq(Change) /\ n.waiting \in BOOLEAN
         /\ n = [known |-> n.known, table |-> n.table, has |-> n.has, last |-> n.last,
                 buff |-> n.buff, waiting |-> n.waiting]
BY DEF OrigNode, Vns

LEMMA ChangedTyped ==
  ASSUME NEW n \in OrigNode, NEW chs \in Seq(Change), NEW v \in Vns
  PROVE  Changed(n, chs, v) \subseteq OrigNode
<1> SUFFICES ASSUME NEW x \in Changed(n, chs, v) PROVE x \in OrigNode
  OBVIOUS
<1>0. PICK u \in Updates(n.table, chs), b \in Buffers(n, chs) :
        x = [n EXCEPT !.table = u.table, !.has = n.has \/ u.done, !.buff = b, !.last = v]
  BY DEF Changed
<1>1. u \in Updated
  BY NodeIs, UpdatesTyped
<1>2. u.table \in Table /\ (n.has \/ u.done) \in BOOLEAN
  BY <1>1 DEF Updated
<1>3. b \in {None} \cup Seq(Change)
  BY NodeIs DEF Buffers
<1> DEFINE t == u.table
           h == n.has \/ u.done
<1>4. t \in Table /\ h \in BOOLEAN
  BY <1>2
<1> HIDE DEF t, h
<1>5. [n EXCEPT !.table = t, !.has = h, !.buff = b, !.last = v] \in OrigNode
  BY <1>3, <1>4 DEF OrigNode, Vns
<1> QED BY <1>0, <1>5 DEF t, h

LEMMA FilledTyped ==
  ASSUME NEW n \in OrigNode, NEW chs \in Seq(Change), NEW v \in Vns
  PROVE  Filled(n, chs, v) \subseteq OrigNode
<1> SUFFICES ASSUME NEW u \in Updates(NoTable, chs)
             PROVE  [n EXCEPT !.table = u.table, !.has = u.done, !.buff = None, !.last = v]
                      \in OrigNode
  BY DEF Filled
<1>1. NoTable \in Table
  <2>1. {} \in SUBSET Addrs /\ NoTable \in [{} -> BOOLEAN]
    BY DEF NoTable
  <2> QED BY <2>1 DEF Table
<1>2. u \in Updated
  BY <1>1, UpdatesTyped
<1>3. u.table \in Table /\ u.done \in BOOLEAN
  BY <1>2 DEF Updated
<1> DEFINE t == u.table
           h == u.done
<1>4. t \in Table /\ h \in BOOLEAN
  BY <1>3
<1> HIDE DEF t, h
<1>5. [n EXCEPT !.table = t, !.has = h, !.buff = None, !.last = v] \in OrigNode
  BY <1>4 DEF OrigNode, Vns
<1> QED BY <1>5 DEF t, h

LEMMA EmptyTable == NoTable \in Table
<1>1. {} \in SUBSET Addrs /\ NoTable \in [{} -> BOOLEAN]
  BY DEF NoTable
<1> QED BY <1>1 DEF Table

LEMMA NewNodeTyped ==
  ASSUME NEW w \in BOOLEAN
  PROVE  [NewNode EXCEPT !.waiting = w] \in OrigNode /\ NewNode \in OrigNode
<1>1. NoTable \in Table
  <2>1. {} \in SUBSET Addrs /\ NoTable \in [{} -> BOOLEAN]
    BY DEF NoTable
  <2> QED BY <2>1 DEF Table
<1>2. 0 \in Vns
  BY TTNumbers DEF Vns
<1> QED BY <1>1, <1>2 DEF NewNode, OrigNode, Vns

\* Steps that leave the originator alone
LEMMA OwnTypedStays ==
  ASSUME OwnTyped, UNCHANGED ownVars
  PROVE  OwnTyped'
<1>1. UNCHANGED <<local, changes, count, owed, vn, crc, lastset, append, commit, container>>
  BY DEF ownVars
<1> QED BY <1>1 DEF OwnTyped

LEMMA SmpStays ==
  ASSUME SmpTyped, UNCHANGED smpVars
  PROVE  SmpTyped'
<1>1. UNCHANGED <<leave, surplus, relay, upd, gone>>
  BY DEF smpVars
<1> QED BY <1>1 DEF SmpTyped

LEMMA NodeSet ==
  ASSUME recv \in [Receivers -> OrigNode], NEW r \in Receivers, NEW n \in OrigNode,
         recv' = [recv EXCEPT ![r] = n]
  PROVE  recv' \in [Receivers -> OrigNode]
OBVIOUS

LEMMA AskTyped ==
  ASSUME NetTyped, ogms' = ogms, recv \in [Receivers -> OrigNode], NEW r \in Receivers,
         NEW n \in OrigNode, NEW o \in Carrier, NEW full \in BOOLEAN, Ask(r, n, o, full)
  PROVE  NetTyped' /\ recv' \in [Receivers -> OrigNode]
<1> DEFINE m == [type |-> "request", node |-> r, ttvn |-> o.ttvn, crc |-> o.crc, full |-> full]
<1>1. o.ttvn \in Vns /\ o.crc \in Table
  BY DEF Carrier, Vns
<1>2. m.type = "request" /\ m \in Request
  BY <1>1 DEF Request, Vns
<1>3. ogms' \subseteq Carrier
  BY DEF NetTyped
<1>4. CASE recv' = [recv EXCEPT ![r] = n] /\ UNCHANGED msgs
  BY <1>4, NodeSet DEF NetTyped
<1>5. CASE /\ Cardinality(msgs) < MaxMsgs
           /\ recv' = [recv EXCEPT ![r] = n] /\ msgs' = msgs \cup {m}
  <2>1. MsgTyped(m)
    BY <1>2 DEF MsgTyped
  <2> HIDE DEF m
  <2> QED BY <1>3, <1>5, <2>1, NodeSet, OneMore
<1>6. CASE recv' = [recv EXCEPT ![r] = [n EXCEPT !.waiting = TRUE]] /\ UNCHANGED msgs
  <2>1. [n EXCEPT !.waiting = TRUE] \in OrigNode
    BY DEF OrigNode
  <2> QED BY <1>6, <2>1, NodeSet DEF NetTyped
<1>7. InFlight < MaxMsgs => Cardinality(msgs) < MaxMsgs
  <2>1. Cardinality(msgs) \in Nat
    BY FS_CardinalityType DEF NetTyped
  <2> QED BY <2>1, TTBounds DEF InFlight
<1> QED BY <1>4, <1>5, <1>6, <1>7 DEF Ask

\* What a relay copies while the table changes is marked.
LEMMA CrossTyped ==
  ASSUME SmpTyped, NEW r \in Receivers, Cross(r)
  PROVE  relay' \in {None} \cup Copying /\ (relay = None => relay' = None)
<1>1. CASE relay = None
  BY <1>1 DEF Cross
<1>2. CASE relay # None
  <2>1. relay \in Copying
    BY <1>2 DEF SmpTyped
  <2>2. [relay EXCEPT !.crossed = TRUE] \in Copying
    BY <2>1 DEF Copying
  <2> QED BY <1>2, <2>1, <2>2 DEF Cross
<1> QED BY <1>1, <1>2

\* Only the relay and the updates of a step of a receiver
LEMMA ReceiverTyped ==
  ASSUME SmpTyped, UNCHANGED ownVars,
         relay' \in {None} \cup Copying, relay = None => relay' = None,
         upd' \in {None} \cup Update, ~SMP => upd' = None
  PROVE  SmpTyped'
<1>1. UNCHANGED <<leave, surplus, gone>>
  BY DEF ownVars
<1> QED BY <1>1 DEF SmpTyped

LEMMA JudgeTyped ==
  ASSUME NetTyped, ogms' = ogms, recv \in [Receivers -> OrigNode], NEW r \in Receivers,
         NEW n \in OrigNode, NEW o \in Carrier, Judge(r, n, o)
  PROVE  NetTyped' /\ recv' \in [Receivers -> OrigNode]
<1>1. CASE recv' = [recv EXCEPT ![r] = n] /\ UNCHANGED msgs
  BY <1>1, NodeSet DEF NetTyped
<1>2. CASE Ask(r, n, o, TRUE)
  BY <1>2, AskTyped
<1> QED BY <1>1, <1>2 DEF Judge

LEMMA BeginTyped ==
  ASSUME recv \in [Receivers -> OrigNode], NEW r \in Receivers, NEW n \in OrigNode,
         NEW old \in Table, NEW o \in {None} \cup Carrier, Begin(r, n, old, o)
  PROVE  recv' \in [Receivers -> OrigNode] /\ upd' \in Update
<1>1. recv' = [recv EXCEPT ![r] = n] /\ upd' = [node |-> r, crc |-> old, ogm |-> o]
  BY DEF Begin
<1>2. upd' \in Update
  BY <1>1 DEF Update
<1> QED BY <1>1, <1>2, NodeSet

LEMMA HandleOgmTyped ==
  ASSUME TypeInv, NEW r \in Receivers, NEW o \in ogms, HandleOgm(r, o)
  PROVE  TypeInv'
<1>1. /\ OwnTyped /\ NetTyped /\ recv \in [Receivers -> OrigNode] /\ SmpTyped /\ o \in Carrier
      /\ o.ttvn \in Vns /\ o.diff \in Seq(Change)
  BY DEF TypeInv, NetTyped, Carrier, Vns
<1>2. UNCHANGED ownVars /\ ogms' = ogms /\ upd = None
  BY DEF HandleOgm, ApplyDiff, AskDiff, Compare, OgmUnchanged
<1> DEFINE h == Heard(r)
<1>3. h \in OrigNode /\ recv[r].table \in Table
  BY <1>1, NodeIs DEF Heard, OrigNode
<1>4. CASE ApplyDiff(r, o)
  <2>1. PICK n \in Changed(h, o.diff, o.ttvn) :
          IF SMP THEN Begin(r, n, recv[r].table, o) /\ UNCHANGED msgs
                 ELSE Judge(r, n, o) /\ UNCHANGED upd
    BY <1>4 DEF ApplyDiff
  <2> HIDE DEF h
  <2>2. n \in OrigNode
    BY <1>1, <1>3, ChangedTyped
  <2>3. relay' \in {None} \cup Copying /\ (relay = None => relay' = None)
    BY <1>1, <1>4, CrossTyped DEF ApplyDiff
  <2>4. CASE SMP
    <3>1. recv' \in [Receivers -> OrigNode] /\ upd' \in Update
      BY <1>1, <1>3, <2>1, <2>2, <2>4, BeginTyped
    <3>2. NetTyped'
      BY <1>1, <1>2, <2>1, <2>4 DEF NetTyped
    <3>3. SmpTyped'
      BY <1>1, <1>2, <2>3, <2>4, <3>1, ReceiverTyped
    <3> QED BY <1>1, <1>2, <3>1, <3>2, <3>3, OwnTypedStays DEF TypeInv
  <2>5. CASE ~SMP
    <3>1. NetTyped' /\ recv' \in [Receivers -> OrigNode]
      BY <1>1, <1>2, <2>1, <2>2, <2>5, JudgeTyped
    <3>2. upd' = None
      BY <1>2, <2>1, <2>5
    <3>3. SmpTyped'
      BY <1>1, <1>2, <2>3, <3>2, ReceiverTyped
    <3> QED BY <1>1, <1>2, <3>1, <3>3, OwnTypedStays DEF TypeInv
  <2> QED BY <2>4, <2>5
<1>5. CASE AskDiff(r, o) \/ Compare(r, o)
  <2>1. UNCHANGED <<relay, upd>>
    BY <1>5 DEF AskDiff, Compare
  <2>2. \E full \in BOOLEAN : Ask(r, h, o, full) \/ (recv' = [recv EXCEPT ![r] = h] /\ UNCHANGED msgs)
    <3>1. CASE AskDiff(r, o)
      BY <3>1 DEF AskDiff
    <3>2. CASE Compare(r, o)
      BY <3>2 DEF Compare
    <3> QED BY <1>5, <3>1, <3>2
  <2> HIDE DEF h
  <2>3. PICK full \in BOOLEAN : Ask(r, h, o, full) \/ (recv' = [recv EXCEPT ![r] = h] /\ UNCHANGED msgs)
    BY <2>2
  <2>4. NetTyped' /\ recv' \in [Receivers -> OrigNode]
    <3>1. CASE Ask(r, h, o, full)
      BY <1>1, <1>2, <1>3, <3>1, AskTyped
    <3>2. CASE recv' = [recv EXCEPT ![r] = h] /\ UNCHANGED msgs
      BY <1>1, <1>2, <1>3, <3>2, NodeSet DEF NetTyped
    <3> QED BY <2>3, <3>1, <3>2
  <2>5. SmpTyped'
    BY <1>1, <1>2, <2>1, ReceiverTyped DEF SmpTyped
  <2> QED BY <1>1, <1>2, <2>4, <2>5, OwnTypedStays DEF TypeInv
<1> QED BY <1>4, <1>5 DEF HandleOgm

\* A response of one who has the version
LEMMA ReplyTyped ==
  ASSUME NEW m \in Request, NEW from \in Receivers \cup {Mac}, NEW v \in Vns,
         NEW full \in BOOLEAN, NEW torn \in BOOLEAN, NEW chs \in Seq(Change), torn => SMP
  PROVE  MsgTyped(Reply(m, from, v, full, torn, chs))
<1> DEFINE x == Reply(m, from, v, full, torn, chs)
<1>1. m.node \in Receivers
  BY DEF Request
<1>2. x \in Response /\ x.type = "response" /\ x.torn = torn
  BY <1>1 DEF Response, Vns, Reply
<1> HIDE DEF x
<1>3. MsgTyped(x)
  BY <1>2 DEF MsgTyped
<1> QED BY <1>3 DEF x

LEMMA AnswerTyped ==
  ASSUME NetTyped, ogms' = ogms, NEW m \in msgs, m.type = "request",
         NEW from \in Receivers \cup {Mac}, NEW v \in Vns, NEW full \in BOOLEAN,
         NEW chs \in Seq(Change), Answer(m, from, v, full, chs)
  PROVE  NetTyped'
<1> DEFINE x == Reply(m, from, v, full, FALSE, chs)
<1>1. m \in Request /\ ogms' \subseteq Carrier
  BY DEF NetTyped, MsgTyped
<1>2. MsgTyped(x)
  BY <1>1, ReplyTyped
<1>3. msgs' = (msgs \ {m}) \cup {x}
  BY DEF Answer
<1> HIDE DEF x
<1> QED BY <1>1, <1>2, <1>3, OneForOther

\* A list of changes with others after it
LEMMA WithJunk ==
  ASSUME NEW list \in Seq(Change), NEW n \in Nat, NEW junk \in [1..n -> Junk]
  PROVE  list \o junk \in Seq(Change)
<1>1. junk \in Seq(Change)
  BY TablesOK
<1> QED BY <1>1

LEMMA OwnAnswerTyped ==
  ASSUME TypeInv, NEW m \in msgs, OwnAnswer(m)
  PROVE  TypeInv'
<1>1. /\ OwnTyped /\ NetTyped /\ recv \in [Receivers -> OrigNode] /\ SmpTyped
      /\ vn \in Vns /\ lastset \in {None} \cup Seq(Change) /\ surplus \in Nat
  BY DEF TypeInv, OwnTyped, SmpTyped
<1>2. m.type = "request" /\ UNCHANGED ownVars /\ ogms' = ogms /\ recv' = recv /\ UNCHANGED <<relay, upd>>
  BY DEF OwnAnswer
<1>3. m \in Request /\ m.ttvn \in Vns
  BY <1>1, <1>2 DEF NetTyped, MsgTyped, Request, Vns
<1>4. LocalTable \in Table
  <2>1. local \in UNION {[S -> Entry] : S \in SUBSET Addrs}
    BY <1>1 DEF OwnTyped, Owned, Addrs
  <2> QED BY <2>1, TableTyped DEF LocalTable
<1> DEFINE e == Entries(LocalTable)
<1>5. e \in Seq(Change)
  BY <1>4, EntriesTyped
<1>6. \/ msgs' = msgs \ {m}
      \/ \E junk \in [1..surplus -> Junk] : Answer(m, Mac, vn, TRUE, e \o junk)
      \/ lastset # None /\ Answer(m, Mac, m.ttvn, FALSE, lastset)
  BY DEF OwnAnswer
<1> HIDE DEF e
<1>7. NetTyped'
  <2>1. ogms' \subseteq Carrier
    BY <1>1, <1>2 DEF NetTyped
  <2>2. CASE msgs' = msgs \ {m}
    BY <1>1, <2>1, <2>2, OneLess
  <2>3. CASE \E junk \in [1..surplus -> Junk] : Answer(m, Mac, vn, TRUE, e \o junk)
    <3>1. PICK junk \in [1..surplus -> Junk] : Answer(m, Mac, vn, TRUE, e \o junk)
      BY <2>3
    <3>2. e \o junk \in Seq(Change)
      BY <1>1, <1>5, WithJunk
    <3> QED BY <1>1, <1>2, <3>1, <3>2, AnswerTyped
  <2>4. CASE lastset # None /\ Answer(m, Mac, m.ttvn, FALSE, lastset)
    <3>1. lastset \in Seq(Change)
      BY <1>1, <2>4
    <3> QED BY <1>1, <1>2, <1>3, <2>4, <3>1, AnswerTyped
  <2> QED BY <1>6, <2>2, <2>3, <2>4
<1>8. SmpTyped'
  BY <1>1, <1>2, ReceiverTyped DEF SmpTyped
<1> QED BY <1>1, <1>2, <1>7, <1>8, OwnTypedStays DEF TypeInv

LEMMA RelayAnswerTyped ==
  ASSUME TypeInv, NEW m \in msgs, NEW r \in Receivers, RelayAnswer(r, m)
  PROVE  TypeInv'
<1> DEFINE n == recv[r]
<1>1. OwnTyped /\ NetTyped /\ recv \in [Receivers -> OrigNode] /\ n \in OrigNode /\ SmpTyped
  BY DEF TypeInv
<1>2. m.type = "request" /\ UNCHANGED ownVars /\ ogms' = ogms /\ recv' = recv /\ UNCHANGED <<relay, upd>>
  BY DEF RelayAnswer, RelayHas
<1>3. m \in Request /\ m.ttvn \in Vns
  BY <1>1, <1>2 DEF NetTyped, MsgTyped, Request, Vns
<1>4. \/ Answer(m, r, m.ttvn, TRUE, Entries(n.table))
      \/ n.buff # None /\ Answer(m, r, m.ttvn, FALSE, n.buff)
  BY DEF RelayAnswer
<1> HIDE DEF n
<1>5. Entries(n.table) \in Seq(Change) /\ n.buff \in {None} \cup Seq(Change)
  BY <1>1, NodeIs, EntriesTyped
<1>6. NetTyped'
  <2>1. CASE Answer(m, r, m.ttvn, TRUE, Entries(n.table))
    BY <1>1, <1>2, <1>3, <1>5, <2>1, AnswerTyped
  <2>2. CASE n.buff # None /\ Answer(m, r, m.ttvn, FALSE, n.buff)
    <3>1. n.buff \in Seq(Change)
      BY <1>5, <2>2
    <3> QED BY <1>1, <1>2, <1>3, <2>2, <3>1, AnswerTyped
  <2> QED BY <1>4, <2>1, <2>2
<1>7. SmpTyped'
  BY <1>1, <1>2, ReceiverTyped DEF SmpTyped
<1> QED BY <1>1, <1>2, <1>6, <1>7, OwnTypedStays DEF TypeInv

LEMMA RelayCheckTyped ==
  ASSUME TypeInv, NEW m \in msgs, NEW r \in Receivers, RelayCheck(r, m)
  PROVE  TypeInv'
<1> DEFINE n == recv[r]
           w == m.full \/ n.buff = None
           u == Updating(r)
<1>1. OwnTyped /\ NetTyped /\ recv \in [Receivers -> OrigNode] /\ n \in OrigNode /\ SmpTyped
  BY DEF TypeInv
<1>2. /\ SMP /\ m.type = "request" /\ UNCHANGED ownVars /\ ogms' = ogms /\ recv' = recv
      /\ UNCHANGED upd /\ msgs' = msgs \ {m}
      /\ relay' = [node |-> r, msg |-> m, whole |-> w, was |-> n, crossed |-> u]
  BY DEF RelayCheck, RelayHas
<1>3. m \in Request
  BY <1>1, <1>2 DEF NetTyped, MsgTyped
<1>4. w \in BOOLEAN /\ u \in BOOLEAN
  BY <1>3 DEF Updating, Request
<1> HIDE DEF n, w, u
<1>5. relay' \in Copying
  BY <1>1, <1>2, <1>3, <1>4 DEF Copying
<1>6. SmpTyped'
  <2>1. UNCHANGED <<leave, surplus, gone>>
    BY <1>2 DEF ownVars
  <2> QED BY <1>1, <1>2, <1>5, <2>1 DEF SmpTyped
<1>7. NetTyped'
  <2>1. ogms' \subseteq Carrier
    BY <1>1, <1>2 DEF NetTyped
  <2> QED BY <1>1, <1>2, <2>1, OneLess
<1> QED BY <1>1, <1>2, <1>6, <1>7, OwnTypedStays DEF TypeInv

\* A copy of a table, as it was, as it is, or of both
LEMMA CopiesTyped ==
  ASSUME NEW old \in Table, NEW new \in Table, NEW k,
         NEW chs \in [1..k -> (UNION {Range(Entries(t)) : t \in {old, new}}) \cup Junk],
         k \in Nat
  PROVE  chs \in Seq(Change)
<1>1. \A t \in {old, new} : Range(Entries(t)) \subseteq Change
  <2> TAKE t \in {old, new}
  <2> DEFINE e == Entries(t)
  <2>1. e \in Seq(Change)
    BY EntriesTyped
  <2> HIDE DEF e
  <2>2. Range(e) \subseteq Change
    BY <2>1 DEF Range
  <2> QED BY <2>2 DEF e
<1> DEFINE S == (UNION {Range(Entries(t)) : t \in {old, new}}) \cup Junk
<1>2. S \subseteq Change
  BY <1>1, TablesOK
<1> HIDE DEF S
<1>3. chs \in [1..k -> S]
  BY DEF S
<1> QED BY <1>2, <1>3

LEMMA RelayCopyTyped ==
  ASSUME TypeInv, RelayCopy
  PROVE  TypeInv'
<1> DEFINE m == relay.msg
           r == relay.node
           n == recv[r]
           old == relay.was
           c == relay.crossed
           x(full, chs) == Reply(m, r, m.ttvn, full, c, chs)
<1>1. OwnTyped /\ NetTyped /\ recv \in [Receivers -> OrigNode] /\ SmpTyped
  BY DEF TypeInv
<1>2. /\ relay # None /\ relay' = None /\ Cardinality(msgs) < MaxMsgs
      /\ UNCHANGED ownVars /\ ogms' = ogms /\ recv' = recv /\ UNCHANGED upd
  BY DEF RelayCopy
<1>3. SMP /\ relay \in Copying
  BY <1>1, <1>2 DEF SmpTyped
<1>4. m \in Request /\ r \in Receivers /\ old \in OrigNode /\ c \in BOOLEAN
  BY <1>3 DEF Copying
<1>5. /\ n \in OrigNode /\ n.table \in Table /\ old.table \in Table /\ m.ttvn \in Vns
      /\ {old.buff, n.buff} \subseteq {None} \cup Seq(Change) /\ m.type = "request"
  BY <1>1, <1>4, NodeIs DEF Request, Vns
<1>6. \/ \E chs \in Seq(Change), full \in BOOLEAN : msgs' = msgs \cup {x(full, chs)}
      \/ msgs' = msgs \cup {m}
  <2> DEFINE either == UNION {Range(Entries(t)) : t \in {old.table, n.table}}
             tables == IF ~c THEN {Entries(n.table)}
                       ELSE UNION {[1..k -> either \cup Junk] : k \in 1..Cardinality(either)}
             buffers == (IF c THEN {old.buff, n.buff} ELSE {n.buff}) \ {None}
  <2>1. \/ \E chs \in tables : msgs' = msgs \cup {x(TRUE, chs)}
        \/ \E chs \in buffers : msgs' = msgs \cup {x(FALSE, chs)}
        \/ msgs' = msgs \cup {m}
    BY DEF RelayCopy
  <2>2. buffers \subseteq Seq(Change)
    BY <1>5
  <2>3. tables \subseteq Seq(Change)
    <3> SUFFICES ASSUME NEW chs \in tables PROVE chs \in Seq(Change)
      OBVIOUS
    <3>1. CASE ~c
      BY <1>5, <3>1, EntriesTyped
    <3>2. CASE c
      <4>1. PICK k \in 1..Cardinality(either) : chs \in [1..k -> either \cup Junk]
        BY <3>2
      <4>2. k \in Nat
        BY <4>1
      <4> QED BY <1>5, <4>1, <4>2, CopiesTyped
    <3> QED BY <3>1, <3>2
  <2> HIDE DEF tables, buffers, x, m
  <2> QED BY <2>1, <2>2, <2>3
<1>7. MsgTyped(m) /\ \A chs \in Seq(Change), full \in BOOLEAN : MsgTyped(x(full, chs))
  <2>1. MsgTyped(m)
    BY <1>4, <1>5 DEF MsgTyped
  <2>2. ASSUME NEW chs \in Seq(Change), NEW full \in BOOLEAN PROVE MsgTyped(x(full, chs))
    <3> HIDE DEF m, r, c
    <3> QED BY <1>3, <1>4, <1>5, ReplyTyped
  <2> HIDE DEF x, m
  <2> QED BY <2>1, <2>2
<1>8. NetTyped'
  <2>1. ogms' \subseteq Carrier
    BY <1>1, <1>2 DEF NetTyped
  <2> HIDE DEF x, m
  <2>2. CASE \E chs \in Seq(Change), full \in BOOLEAN : msgs' = msgs \cup {x(full, chs)}
    <3>1. PICK chs \in Seq(Change), full \in BOOLEAN : msgs' = msgs \cup {x(full, chs)}
      BY <2>2
    <3>2. MsgTyped(x(full, chs))
      BY <1>7
    <3> QED BY <1>1, <1>2, <2>1, <3>1, <3>2, OneMore
  <2>3. CASE msgs' = msgs \cup {m}
    BY <1>1, <1>2, <1>7, <2>1, <2>3, OneMore
  <2> QED BY <1>6, <2>2, <2>3
<1>9. SmpTyped'
  <2>1. UNCHANGED <<leave, surplus, gone>>
    BY <1>2 DEF ownVars
  <2> QED BY <1>1, <1>2, <2>1 DEF SmpTyped
<1> QED BY <1>1, <1>2, <1>8, <1>9, OwnTypedStays DEF TypeInv

LEMMA FinishTyped ==
  ASSUME TypeInv, Finish
  PROVE  TypeInv'
<1> DEFINE r == upd.node
           n == recv[r]
<1>1. OwnTyped /\ NetTyped /\ recv \in [Receivers -> OrigNode] /\ SmpTyped
  BY DEF TypeInv
<1>2. /\ upd # None /\ upd' = None /\ UNCHANGED ownVars /\ ogms' = ogms /\ UNCHANGED relay
      /\ IF upd.ogm # None THEN Judge(r, n, upd.ogm)
         ELSE recv' = [recv EXCEPT ![r].waiting = FALSE] /\ UNCHANGED msgs
  BY DEF Finish
<1>3. r \in Receivers /\ upd.ogm \in {None} \cup Carrier
  BY <1>1, <1>2 DEF SmpTyped, Update
<1>4. n \in OrigNode
  BY <1>1, <1>3
<1>5. NetTyped' /\ recv' \in [Receivers -> OrigNode]
  <2>1. CASE upd.ogm # None
    <3>1. Judge(r, n, upd.ogm) /\ upd.ogm \in Carrier
      BY <1>2, <1>3, <2>1
    <3> HIDE DEF r, n
    <3> QED BY <1>1, <1>2, <1>3, <1>4, <3>1, JudgeTyped
  <2>2. CASE upd.ogm = None
    <3>1. [n EXCEPT !.waiting = FALSE] \in OrigNode
      BY <1>4 DEF OrigNode
    <3>2. recv' = [recv EXCEPT ![r] = [n EXCEPT !.waiting = FALSE]] /\ UNCHANGED msgs
      BY <1>2, <2>2
    <3> HIDE DEF r, n
    <3> QED BY <1>1, <1>2, <1>3, <3>1, <3>2, NodeSet DEF NetTyped
  <2> QED BY <2>1, <2>2
<1>6. SmpTyped'
  BY <1>1, <1>2, ReceiverTyped DEF SmpTyped
<1> QED BY <1>1, <1>2, <1>5, <1>6, OwnTypedStays DEF TypeInv

LEMMA HandleResponseTyped ==
  ASSUME TypeInv, NEW m \in msgs, HandleResponse(m)
  PROVE  TypeInv'
<1> DEFINE r == m.node
           n == recv[r]
           old == IF m.full THEN NoTable ELSE n.table
           new == IF m.full THEN Filled(n, m.changes, m.ttvn) ELSE Changed(n, m.changes, m.ttvn)
<1>1. OwnTyped /\ NetTyped /\ recv \in [Receivers -> OrigNode] /\ SmpTyped
  BY DEF TypeInv
<1>2. /\ m.type = "response" /\ msgs' = msgs \ {m} /\ UNCHANGED ownVars /\ ogms' = ogms /\ upd = None
  BY DEF HandleResponse
<1>3. m \in Response
  BY <1>1, <1>2 DEF NetTyped, MsgTyped
<1>4. r \in Receivers /\ m.ttvn \in Vns /\ m.changes \in Seq(Change)
  BY <1>3 DEF Response, Vns
<1>5. n \in OrigNode
  BY <1>1, <1>4
<1>6. NetTyped'
  <2>1. ogms' \subseteq Carrier
    BY <1>1, <1>2 DEF NetTyped
  <2> QED BY <1>1, <1>2, <2>1, OneLess
<1>7. CASE ~n.known
  <2>1. UNCHANGED <<recv, upd, relay>>
    BY <1>7 DEF HandleResponse
  <2>2. SmpTyped'
    BY <1>1, <1>2, <2>1, ReceiverTyped DEF SmpTyped
  <2> QED BY <1>1, <1>2, <1>6, <2>1, <2>2, OwnTypedStays DEF TypeInv
<1>8. CASE n.known
  <2>1. /\ Cross(r)
        /\ \E x \in new :
             IF SMP THEN Begin(r, x, old, None)
                    ELSE recv' = [recv EXCEPT ![r] = [x EXCEPT !.waiting = FALSE]] /\ UNCHANGED upd
    BY <1>8 DEF HandleResponse
  <2>2. new \subseteq OrigNode /\ old \in Table
    <3>1. NoTable \in Table /\ n.table \in Table
      BY <1>5, NodeIs, EmptyTable
    <3> HIDE DEF r, n
    <3> QED BY <1>4, <1>5, <3>1, FilledTyped, ChangedTyped
  <2> HIDE DEF r, new, old
  <2>3. relay' \in {None} \cup Copying /\ (relay = None => relay' = None)
    BY <1>1, <1>4, <2>1, CrossTyped
  <2>4. PICK x \in new :
             IF SMP THEN Begin(r, x, old, None)
                    ELSE recv' = [recv EXCEPT ![r] = [x EXCEPT !.waiting = FALSE]] /\ UNCHANGED upd
    BY <2>1
  <2>5. x \in OrigNode
    BY <2>2
  <2>6. CASE SMP
    <3>1. recv' \in [Receivers -> OrigNode] /\ upd' \in Update
      BY <1>1, <1>4, <2>2, <2>4, <2>5, <2>6, BeginTyped
    <3>2. SmpTyped'
      BY <1>1, <1>2, <2>3, <2>6, <3>1, ReceiverTyped
    <3> QED BY <1>1, <1>2, <1>6, <3>1, <3>2, OwnTypedStays DEF TypeInv
  <2>7. CASE ~SMP
    <3>1. [x EXCEPT !.waiting = FALSE] \in OrigNode
      BY <2>5 DEF OrigNode
    <3>2. recv' \in [Receivers -> OrigNode]
      BY <1>1, <1>4, <2>4, <2>7, <3>1, NodeSet
    <3>3. SmpTyped'
      BY <1>1, <1>2, <2>3, <2>4, <2>7, ReceiverTyped
    <3> QED BY <1>1, <1>2, <1>6, <3>2, <3>3, OwnTypedStays DEF TypeInv
  <2> QED BY <2>6, <2>7
<1> QED BY <1>7, <1>8

LEMMA NodeLossTyped ==
  ASSUME TypeInv, NEW r \in Receivers, RequestTimeout(r) \/ RouteLost(r) \/ OrigPurged(r)
  PROVE  TypeInv'
<1>1. /\ OwnTyped /\ NetTyped /\ recv \in [Receivers -> OrigNode] /\ recv[r] \in OrigNode
      /\ recv[r].waiting \in BOOLEAN /\ SmpTyped
  BY NodeIs DEF TypeInv
<1>2. UNCHANGED ownVars /\ ogms' = ogms /\ msgs' = msgs /\ upd' = upd /\ (Cross(r) \/ relay' = relay)
  BY DEF RequestTimeout, RouteLost, OrigPurged
<1>3. \E n \in OrigNode : recv' = [recv EXCEPT ![r] = n]
  <2>1. NoTable \in Table
    BY EmptyTable
  <2>2. CASE RequestTimeout(r)
    <3>1. [recv[r] EXCEPT !.waiting = FALSE] \in OrigNode
      BY <1>1 DEF OrigNode
    <3> QED BY <2>2, <3>1 DEF RequestTimeout
  <2>3. CASE RouteLost(r)
    <3> DEFINE n == recv[r]
    <3>1. recv' = [recv EXCEPT ![r] = [n EXCEPT !.table = NoTable, !.has = FALSE]]
      BY <1>1, <2>3 DEF RouteLost
    <3>2. [n EXCEPT !.table = NoTable, !.has = FALSE] \in OrigNode
      BY <1>1, <2>1 DEF OrigNode
    <3> QED BY <3>1, <3>2
  <2>4. CASE OrigPurged(r)
    BY <1>1, <2>4, NewNodeTyped DEF OrigPurged
  <2> QED BY <2>2, <2>3, <2>4
<1>4. recv' \in [Receivers -> OrigNode]
  BY <1>1, <1>3
<1>5. NetTyped'
  BY <1>1, <1>2 DEF NetTyped
<1>6. SmpTyped'
  <2>1. relay' \in {None} \cup Copying /\ (relay = None => relay' = None)
    BY <1>1, <1>2, CrossTyped DEF SmpTyped
  <2> QED BY <1>1, <1>2, <2>1, ReceiverTyped DEF SmpTyped
<1> QED BY <1>1, <1>2, <1>4, <1>5, <1>6, OwnTypedStays DEF TypeInv

LEMMA LoseTyped ==
  ASSUME TypeInv, Lose
  PROVE  TypeInv'
<1>1. OwnTyped /\ NetTyped /\ recv \in [Receivers -> OrigNode] /\ SmpTyped
  BY DEF TypeInv
<1>2. UNCHANGED ownVars /\ recv' = recv /\ UNCHANGED <<relay, upd>> /\ ogms' \subseteq ogms
      /\ (msgs' = msgs \/ \E m \in msgs : msgs' = msgs \ {m})
  BY DEF Lose
<1>3. NetTyped'
  <2>1. ogms' \subseteq Carrier
    BY <1>1, <1>2 DEF NetTyped
  <2>2. CASE msgs' = msgs
    BY <1>1, <2>1, <2>2 DEF NetTyped
  <2>3. CASE \E m \in msgs : msgs' = msgs \ {m}
    BY <1>1, <2>1, <2>3, OneLess
  <2> QED BY <1>2, <2>2, <2>3
<1>4. SmpTyped'
  BY <1>1, <1>2, ReceiverTyped DEF SmpTyped
<1> QED BY <1>1, <1>2, <1>3, <1>4, OwnTypedStays DEF TypeInv

-----------------------------------------------------------------------------
(* The originator *)

LEMMA OwnedAddrs ==
  ASSUME NEW t \in UNION {[S -> Entry] : S \in SUBSET Owned}
  PROVE  t \in UNION {[S -> Entry] : S \in SUBSET Addrs} /\ DOMAIN t \subseteq Owned
<1>1. PICK S \in SUBSET Owned : t \in [S -> Entry]
  OBVIOUS
<1>2. S \in SUBSET Addrs
  BY DEF Owned, Addrs
<1> QED BY <1>1, <1>2

LEMMA AddrsOwned ==
  ASSUME NEW t \in UNION {[S -> Entry] : S \in SUBSET Addrs}, DOMAIN t \subseteq Owned
  PROVE  t \in UNION {[S -> Entry] : S \in SUBSET Owned}
<1>1. PICK S \in SUBSET Addrs : t \in [S -> Entry]
  OBVIOUS
<1>2. S \in SUBSET Owned
  BY <1>1
<1> QED BY <1>1, <1>2

LEMMA ClientEventTyped ==
  ASSUME TypeInv, NEW c \in Hosts,
         LocalPurge(c) \/ LocalRemove(c) \/ \E w \in Wifis : LocalAdd(c, w)
  PROVE  TypeInv'
<1>1. /\ OwnTyped /\ NetTyped /\ recv \in [Receivers -> OrigNode]
      /\ local \in UNION {[S -> Entry] : S \in SUBSET Owned} /\ changes \in Seq(Change) /\ SmpTyped
  BY DEF TypeInv, OwnTyped
<1>2. /\ Event /\ local' \in UNION {[S -> Entry] : S \in SUBSET Addrs}
      /\ changes' \in Seq(Change) /\ owed' \in -2..2 /\ DOMAIN local' \subseteq DOMAIN local \cup {c}
  BY <1>1, OwnedAddrs, EventIs
<1>3. DOMAIN local' \subseteq Owned
  BY <1>1, <1>2, OwnedAddrs DEF Owned
<1>4. local' \in UNION {[S -> Entry] : S \in SUBSET Owned}
  BY <1>2, <1>3, AddrsOwned
<1>5. UNCHANGED <<count, vn, crc, lastset, append, commit, container, ogms, msgs, recv>>
  BY <1>2 DEF Event
<1>6. OwnTyped'
  BY <1>1, <1>2, <1>4, <1>5 DEF OwnTyped
<1>7. NetTyped'
  BY <1>1, <1>5 DEF NetTyped
<1>8. SmpTyped'
  <2>1. UNCHANGED smpVars
    BY DEF LocalPurge, LocalRemove, LocalAdd, Event, Settled, smpVars
  <2> QED BY <1>1, <2>1, SmpStays
<1> QED BY <1>1, <1>5, <1>6, <1>7, <1>8 DEF TypeInv

\* The removal of a NEW client, step by step
LEMMA LeaveBeginsTyped ==
  ASSUME TypeInv, NEW c \in Hosts, LeaveBegins(c)
  PROVE  TypeInv'
<1>1. /\ OwnTyped /\ NetTyped /\ recv \in [Receivers -> OrigNode] /\ SmpTyped
      /\ local \in UNION {[S -> Entry] : S \in SUBSET Owned}
  BY DEF TypeInv, OwnTyped
<1>2. /\ SMP /\ c \in DOMAIN local
      /\ leave' = [ch |-> ChangeOf(c, TRUE, local[c].wifi), step |-> "event"]
      /\ UNCHANGED <<local, changes, count, owed, vn, crc, lastset, append, commit, container, ogms,
                     msgs, recv>> /\ UNCHANGED <<surplus, relay, upd, gone>>
  BY DEF LeaveBegins
<1>3. local[c].wifi \in BOOLEAN /\ c \in Addrs
  BY <1>1, <1>2, OwnedAddrs, TableTyped DEF Entry, Addrs
<1>4. leave' \in Removal
  BY <1>2, <1>3 DEF Removal, Change, ChangeOf
<1>5. SmpTyped'
  BY <1>1, <1>2, <1>4 DEF SmpTyped
<1> QED BY <1>1, <1>2, <1>5 DEF TypeInv, OwnTyped, NetTyped

LEMMA LeaveEventTyped ==
  ASSUME TypeInv, LeaveEvent
  PROVE  TypeInv'
<1> DEFINE ch == leave.ch
           chs == <<ch>>
<1>1. /\ OwnTyped /\ NetTyped /\ recv \in [Receivers -> OrigNode] /\ SmpTyped /\ changes \in Seq(Change)
  BY DEF TypeInv, OwnTyped
<1>2. /\ leave # None /\ leave' = [leave EXCEPT !.step = "hash"] /\ Events(chs)
      /\ UNCHANGED <<local, count, vn, crc, lastset, append, commit, container, ogms, msgs, recv>>
      /\ UNCHANGED <<surplus, relay, upd, gone>>
  BY DEF LeaveEvent, Event
<1>3. leave \in Removal /\ SMP
  BY <1>1, <1>2 DEF SmpTyped
<1>4. ch \in Change /\ leave' \in Removal
  BY <1>2, <1>3 DEF Removal
<1>5. changes' \in Seq(Change) /\ owed' \in -2..2
  <2> HIDE DEF ch
  <2>1. chs \in Seq(Change) /\ Len(chs) <= 2
    BY <1>4
  <2>2. \E st \in Stored(chs) : changes' = AllQueued(changes, st) /\ owed' = Len(changes') - Len(changes)
    BY <1>2 DEF Events
  <2> HIDE DEF chs
  <2> QED BY <1>1, <2>1, <2>2, EventsIs
<1>6. OwnTyped'
  BY <1>1, <1>2, <1>5 DEF OwnTyped
<1>7. SmpTyped'
  BY <1>1, <1>2, <1>3, <1>4 DEF SmpTyped
<1> QED BY <1>1, <1>2, <1>6, <1>7 DEF TypeInv, NetTyped

LEMMA LeaveHashTyped ==
  ASSUME TypeInv, LeaveHash
  PROVE  TypeInv'
<1> DEFINE c == leave.ch.addr
           announced == c \in DOMAIN local /\ ~local[c].new
           more == IF announced THEN {c} ELSE {}
<1>1. /\ OwnTyped /\ NetTyped /\ recv \in [Receivers -> OrigNode] /\ SmpTyped /\ vn \in Vns
      /\ local \in UNION {[S -> Entry] : S \in SUBSET Owned}
  BY DEF TypeInv, OwnTyped
<1>2. /\ leave # None /\ leave' = None
      /\ local' = [d \in DOMAIN local \ {c} |-> local[d]]
      /\ surplus' = surplus + (IF announced THEN 1 ELSE 0)
      /\ gone' = [gone EXCEPT ![vn] = gone[vn] \cup more]
      /\ UNCHANGED <<changes, count, owed, vn, crc, lastset, append, commit, container, ogms, msgs,
                     recv>> /\ UNCHANGED <<relay, upd>>
  BY DEF LeaveHash, Restrict
<1>3. SMP /\ more \subseteq Addrs
  <2>1. leave \in Removal /\ SMP
    BY <1>1, <1>2 DEF SmpTyped
  <2> QED BY <2>1 DEF Removal, Change
<1> HIDE DEF c, more
<1>4. local' \in UNION {[S -> Entry] : S \in SUBSET Owned}
  <2>1. PICK S \in SUBSET Owned : local \in [S -> Entry]
    BY <1>1
  <2>2. local' \in [S \ {c} -> Entry] /\ S \ {c} \in SUBSET Owned
    BY <1>2, <2>1
  <2> QED BY <2>2
<1>5. surplus' \in Nat /\ gone' \in [Vns -> SUBSET Addrs]
  <2>1. surplus \in Nat /\ gone \in [Vns -> SUBSET Addrs]
    BY <1>1 DEF SmpTyped
  <2>2. gone[vn] \cup more \in SUBSET Addrs
    BY <1>1, <1>3, <2>1
  <2>3. surplus' \in Nat
    BY <1>2, <2>1
  <2> DEFINE g == gone[vn] \cup more
  <2> HIDE DEF g
  <2>4. gone' = [gone EXCEPT ![vn] = g] /\ g \in SUBSET Addrs
    BY <1>2, <2>2 DEF g
  <2>5. gone' \in [Vns -> SUBSET Addrs]
    BY <2>1, <2>4
  <2> QED BY <2>3, <2>5
<1>6. SmpTyped'
  BY <1>1, <1>2, <1>3, <1>5 DEF SmpTyped
<1>7. OwnTyped'
  BY <1>1, <1>2, <1>4 DEF OwnTyped
<1> QED BY <1>1, <1>2, <1>6, <1>7 DEF TypeInv, NetTyped

LEMMA SendTyped ==
  ASSUME NetTyped, msgs' = msgs, NEW c \in Carrier, SendOgm(c)
  PROVE  NetTyped'
BY DEF NetTyped, SendOgm

LEMMA AccountTyped ==
  ASSUME TypeInv, Account
  PROVE  TypeInv'
<1>1. OwnTyped /\ NetTyped /\ recv \in [Receivers -> OrigNode] /\ count \in Int /\ owed \in -2..2
  BY DEF TypeInv, OwnTyped
<1>2. /\ count' = count + owed /\ owed' = 0
      /\ UNCHANGED <<local, changes, vn, crc, lastset, append, commit, container, ogms, msgs, recv>>
  BY DEF Account
<1>3. count' \in Int /\ owed' \in -2..2
  BY <1>1, <1>2
<1>4. OwnTyped'
  BY <1>1, <1>2, <1>3 DEF OwnTyped
<1>5. NetTyped'
  BY <1>1, <1>2 DEF NetTyped
<1>6. SmpTyped'
  BY SmpStays DEF TypeInv, Account
<1> QED BY <1>1, <1>2, <1>4, <1>5, <1>6 DEF TypeInv

LEMMA StepTyped ==
  \A s \in Steps, n \in Int : [step |-> s, n |-> n] \in [step : Steps, n : Int]
OBVIOUS

LEMMA CommitNothingTyped ==
  ASSUME TypeInv, CommitNothing
  PROVE  TypeInv'
<1>1. OwnTyped /\ NetTyped /\ recv \in [Receivers -> OrigNode] /\ append \in 0..AppendMax
      /\ container \in Carrier
  BY DEF TypeInv, OwnTyped
<1>2. UNCHANGED <<local, changes, count, owed, vn, crc, lastset, container, msgs, recv>>
  BY DEF CommitNothing
<1>0. SmpTyped'
  BY SmpStays DEF TypeInv, CommitNothing
<1>3. CASE append > 0 /\ append' = append - 1 /\ SendOgm(container) /\ UNCHANGED commit
  <2>1. append' \in 0..AppendMax
    BY <1>1, <1>3, TTBounds
  <2>2. OwnTyped'
    BY <1>1, <1>2, <1>3, <2>1 DEF OwnTyped
  <2>3. NetTyped'
    BY <1>1, <1>2, <1>3, SendTyped
  <2> QED BY <1>0, <1>1, <1>2, <2>2, <2>3 DEF TypeInv
<1>4. CASE Step("count") /\ UNCHANGED <<append, ogms>>
  <2>1. commit' \in [step : Steps, n : Int]
    BY <1>4 DEF Step, Steps
  <2>2. OwnTyped'
    BY <1>1, <1>2, <1>4, <2>1 DEF OwnTyped
  <2>3. NetTyped'
    BY <1>1, <1>2, <1>4 DEF NetTyped
  <2> QED BY <1>0, <1>1, <1>2, <2>2, <2>3 DEF TypeInv
<1> QED BY <1>3, <1>4 DEF CommitNothing

\* The three steps that change the local table or read it
LEMMA CommitTableTyped ==
  ASSUME TypeInv, CommitFlags \/ CommitPurge \/ CommitCrc
  PROVE  TypeInv'
<1>1. /\ OwnTyped /\ NetTyped /\ recv \in [Receivers -> OrigNode] /\ vn \in Vns
      /\ local \in UNION {[S -> Entry] : S \in SUBSET Owned}
  BY DEF TypeInv, OwnTyped
<1>2. UNCHANGED <<changes, count, owed, lastset, container, ogms, msgs, recv>>
  BY DEF CommitFlags, CommitPurge, CommitCrc
<1>3. commit' \in [step : Steps, n : Int]
  BY DEF CommitFlags, CommitPurge, CommitCrc, Step, Steps
<1>4. PICK S \in SUBSET Owned : local \in [S -> Entry]
  BY <1>1
<1>0. CommitFlags \/ CommitPurge => SmpTyped'
  BY SmpStays DEF TypeInv, CommitFlags, CommitPurge
<1>5. CASE CommitFlags
  <2>1. local' = [c \in S |-> [local[c] EXCEPT !.new = FALSE]]
    BY <1>4, <1>5 DEF CommitFlags
  <2>2. \A c \in S : [local[c] EXCEPT !.new = FALSE] \in Entry
    BY <1>4 DEF Entry
  <2>3. local' \in [S -> Entry]
    BY <2>1, <2>2
  <2>4. local' \in UNION {[T -> Entry] : T \in SUBSET Owned} /\ UNCHANGED <<vn, crc, append>>
    BY <1>5, <2>3 DEF CommitFlags
  <2> QED BY <1>0, <1>1, <1>2, <1>3, <1>5, <2>4 DEF TypeInv, OwnTyped, NetTyped
<1>6. CASE CommitPurge
  <2> DEFINE T == {c \in DOMAIN local : ~local[c].pend}
  <2>1. local' = [c \in T |-> local[c]]
    BY <1>6 DEF CommitPurge, Restrict
  <2>2. T \in SUBSET Owned /\ local' \in [T -> Entry]
    BY <1>4, <2>1
  <2> HIDE DEF T
  <2>3. local' \in UNION {[U -> Entry] : U \in SUBSET Owned} /\ UNCHANGED <<vn, crc, append>>
    BY <1>6, <2>2 DEF CommitPurge
  <2> QED BY <1>0, <1>1, <1>2, <1>3, <1>6, <2>3 DEF TypeInv, OwnTyped, NetTyped
<1>7. CASE CommitCrc
  <2>1. /\ crc' = [c \in Valid |-> local[c].wifi] /\ vn' = (vn + 1) % VnMod
        /\ append' = AppendMax /\ local' = local
    BY <1>7 DEF CommitCrc
  <2>2. crc' \in Table
    BY <1>1, <2>1, OwnedAddrs, TableTyped
  <2>3. vn' \in Vns /\ append' \in 0..AppendMax
    BY <1>1, <2>1, NextVn, TTBounds
  <2>4. SmpTyped'
    <3>1. UNCHANGED <<leave, surplus, relay, upd>> /\ gone' = [gone EXCEPT ![vn'] = {}] /\ SmpTyped
      BY <1>7 DEF CommitCrc, TypeInv
    <3>2. gone \in [Vns -> SUBSET Addrs]
      BY <3>1 DEF SmpTyped
    <3>3. gone' \in [Vns -> SUBSET Addrs] /\ \A v \in Vns : gone'[v] \subseteq gone[v]
      BY <2>3, <3>1, <3>2
    <3> QED BY <3>1, <3>3 DEF SmpTyped
  <2> QED BY <1>1, <1>2, <1>3, <2>1, <2>2, <2>3, <2>4 DEF TypeInv, OwnTyped, NetTyped
<1> QED BY <1>5, <1>6, <1>7

LEMMA CommitCountTyped ==
  ASSUME TypeInv, CommitCount
  PROVE  TypeInv'
<1>1. OwnTyped /\ NetTyped /\ recv \in [Receivers -> OrigNode] /\ count \in Int
  BY DEF TypeInv, OwnTyped
<1>2. /\ commit' = [step |-> "drain", n |-> count]
      /\ UNCHANGED <<local, changes, count, owed, vn, crc, lastset, append, container, ogms, msgs,
                     recv>>
  BY DEF CommitCount
<1>3. commit' \in [step : Steps, n : Int]
  BY <1>1, <1>2 DEF Steps
<1>4. SmpTyped'
  BY SmpStays DEF TypeInv, CommitCount
<1> QED BY <1>1, <1>2, <1>3, <1>4 DEF TypeInv, OwnTyped, NetTyped

LEMMA ContainerTyped ==
  ASSUME OwnTyped, NEW diff \in Seq(Change)
  PROVE  Container(diff) \in Carrier
BY DEF OwnTyped, Container, Carrier, Vns

LEMMA CommitDrainTyped ==
  ASSUME TypeInv, CommitDrain
  PROVE  TypeInv'
<1>1. /\ OwnTyped /\ NetTyped /\ recv \in [Receivers -> OrigNode]
      /\ changes \in Seq(Change) /\ lastset \in {None} \cup Seq(Change) /\ count \in Int
      /\ container \in Carrier /\ commit \in [step : Steps, n : Int]
  BY DEF TypeInv, OwnTyped
<1>2. /\ UNCHANGED <<local, owed, vn, crc, append, msgs, recv>>
      /\ commit' = [step |-> "idle", n |-> 0] /\ SendOgm(container')
  BY DEF CommitDrain, Step
<1>3. << >> \in Seq(Change)
  OBVIOUS
<1>4. /\ changes' \in Seq(Change) /\ lastset' \in {None} \cup Seq(Change) /\ count' \in Int
      /\ container' \in Carrier
  <2> DEFINE n == commit.n
  <2>0. n \in Int
    BY <1>1
  <2>1. CASE DrainNothing(n)
    <3>1. container' = Container(<< >>) /\ UNCHANGED <<changes, count, lastset>>
      BY <2>1 DEF DrainNothing
    <3> QED BY <1>1, <1>3, <3>1, ContainerTyped
  <2>2. CASE DrainList(n)
    <3> DEFINE k == IF n < Len(changes) THEN n ELSE Len(changes)
               taken == SubSeq(changes, 1, k)
               short == n - Len(taken)
               zeros == [i \in 1..short |-> ChangeOf(Zero, FALSE, FALSE)]
    <3>1. n >= 1 /\ n <= MaxDiff /\ changes' = << >> /\ count' = 0
      BY <2>2 DEF DrainList
    <3>2. /\ \E junk \in [1..short -> Junk] : container' = Container(taken \o junk)
          /\ lastset' \in {None, taken \o zeros}
      BY <2>2 DEF DrainList
    <3>3. Len(changes) \in Nat /\ \A i \in 1..Len(changes) : changes[i] \in Change
      BY <1>1
    <3> HIDE DEF n
    <3>4. k \in Nat /\ k <= n /\ k <= Len(changes)
      BY <2>0, <3>1, <3>3
    <3> HIDE DEF k
    <3>5. taken \in Seq(Change) /\ Len(taken) = k
      <4>1. \A i \in 1..k : changes[i] \in Change
        BY <3>3, <3>4
      <4> QED BY <1>1, <3>4, <4>1, SubSeqProperties
    <3> HIDE DEF taken
    <3>6. short \in Nat
      BY <2>0, <3>4, <3>5
    <3> HIDE DEF short
    <3>7. ChangeOf(Zero, FALSE, FALSE) \in Change
      BY DEF ChangeOf, Change, Addrs
    <3>8. zeros \in [1..short -> Change]
      BY <3>7
    <3> HIDE DEF zeros
    <3>9. zeros \in Seq(Change)
      BY <3>6, <3>8
    <3>10. taken \o zeros \in Seq(Change) /\ \A junk \in [1..short -> Junk] : taken \o junk \in Seq(Change)
      BY <3>5, <3>6, <3>9, WithJunk
    <3>11. lastset' \in {None} \cup Seq(Change)
      BY <3>2, <3>10
    <3>12. container' \in Carrier
      BY <1>1, <3>2, <3>10, ContainerTyped
    <3> QED BY <1>3, <3>1, <3>11, <3>12
  <2>3. CASE UNCHANGED <<changes, count, lastset, container>>
    BY <1>1, <2>3
  <2> QED BY <2>1, <2>2, <2>3 DEF CommitDrain
<1>5. commit' \in [step : Steps, n : Int]
  BY <1>2 DEF Steps
<1>6. OwnTyped'
  BY <1>1, <1>2, <1>4, <1>5 DEF OwnTyped
<1>7. NetTyped'
  BY <1>1, <1>2, <1>4, SendTyped
<1>8. SmpTyped'
  BY SmpStays DEF TypeInv, CommitDrain
<1> QED BY <1>1, <1>2, <1>6, <1>7, <1>8 DEF TypeInv

LEMMA InitTyped == Init => TypeInv
<1> SUFFICES ASSUME Init PROVE TypeInv
  OBVIOUS
<1> DEFINE alone == [c \in {Mac} |-> FALSE]
           own == ChangeOf(Mac, FALSE, FALSE)
<1>1. /\ vn \in FirstVns
      /\ local = [c \in {Mac} |-> [new |-> vn = 0, pend |-> FALSE, wifi |-> FALSE]]
      /\ changes = (IF vn = 0 THEN <<own>> ELSE << >>) /\ count = Len(changes)
      /\ owed = 0 /\ append = 0 /\ commit = [step |-> "idle", n |-> 0]
      /\ crc = (IF vn = 0 THEN NoTable ELSE alone)
      /\ lastset = (IF vn = 0 THEN None ELSE <<own>>)
      /\ container = Container(<< >>)
      /\ ogms = {} /\ msgs = {} /\ recv = [r \in Receivers |-> NewNode]
  BY DEF Init
<1>2. vn \in Vns /\ Mac \in Addrs /\ Mac \in Owned
  BY <1>1, TTNumbers DEF Addrs, Owned
<1>3. local \in UNION {[S -> Entry] : S \in SUBSET Owned}
  <2> DEFINE e == [new |-> vn = 0, pend |-> FALSE, wifi |-> FALSE]
  <2>1. e \in Entry
    BY DEF Entry
  <2> HIDE DEF e
  <2>2. local = [c \in {Mac} |-> e]
    BY <1>1 DEF e
  <2>3. {Mac} \in SUBSET Owned /\ local \in [{Mac} -> Entry]
    BY <1>2, <2>1, <2>2
  <2> QED BY <2>3
<1>4. crc \in Table
  <2>1. {} \in SUBSET Addrs /\ NoTable \in [{} -> BOOLEAN]
    BY DEF NoTable
  <2>2. {Mac} \in SUBSET Addrs /\ alone \in [{Mac} -> BOOLEAN]
    BY <1>2
  <2>3. NoTable \in Table /\ alone \in Table
    BY <2>1, <2>2 DEF Table
  <2> QED BY <1>1, <2>3
<1>5. changes \in Seq(Change) /\ count \in Int /\ lastset \in {None} \cup Seq(Change)
  <2>1. own \in Change
    BY <1>2 DEF ChangeOf, Change
  <2> HIDE DEF own
  <2>2. <<own>> \in Seq(Change) /\ Len(<<own>>) = 1 /\ << >> \in Seq(Change) /\ Len(<< >>) = 0
    BY <2>1
  <2> QED BY <1>1, <2>2
<1>6. container \in Carrier
  <2>1. << >> \in Seq(Change)
    OBVIOUS
  <2> QED BY <1>1, <1>2, <1>4, <2>1 DEF Container, Carrier, Vns
<1>7. OwnTyped
  <2>1. commit \in [step : Steps, n : Int] /\ owed \in -2..2 /\ append \in 0..AppendMax
    BY <1>1, TTBounds DEF Steps
  <2> QED BY <1>2, <1>3, <1>4, <1>5, <1>6, <2>1 DEF OwnTyped
<1>8. NetTyped
  <2>1. IsFiniteSet({}) /\ Cardinality({}) = 0
    BY FS_EmptySet
  <2> QED BY <1>1, <2>1, TTBounds DEF NetTyped
<1>9. recv \in [Receivers -> OrigNode]
  BY <1>1, NewNodeTyped
<1>10. SmpTyped
  <2>1. /\ leave = None /\ relay = None /\ upd = None /\ surplus = 0
        /\ gone = [v \in Vns |-> {}]
    BY DEF Init, Vns
  <2> QED BY <2>1 DEF SmpTyped
<1> QED BY <1>7, <1>8, <1>9, <1>10 DEF TypeInv

LEMMA StepKeepsTypes ==
  ASSUME TypeInv, [Next]_vars
  PROVE  TypeInv'
<1>1. CASE ClientEvent
  BY <1>1, ClientEventTyped DEF ClientEvent
<1>2. CASE Account
  BY <1>2, AccountTyped
<1>3. CASE Commit
  BY <1>3, CommitNothingTyped, CommitTableTyped, CommitCountTyped, CommitDrainTyped DEF Commit
<1>4. CASE Answers \/ Finish
  BY <1>4, OwnAnswerTyped, RelayAnswerTyped, RelayCheckTyped, RelayCopyTyped, FinishTyped DEF Answers
<1>5. CASE Lose
  BY <1>5, LoseTyped
<1>6. CASE \E m \in msgs : HandleResponse(m)
  BY <1>6, HandleResponseTyped
<1>7. ASSUME NEW r \in Receivers, RequestTimeout(r) \/ RouteLost(r) \/ OrigPurged(r)
      PROVE  TypeInv'
  BY <1>7, NodeLossTyped
<1>8. ASSUME NEW r \in Receivers, NEW o \in ogms, HandleOgm(r, o) PROVE TypeInv'
  BY <1>8, HandleOgmTyped
<1>9. CASE UNCHANGED vars
  <2>1. UNCHANGED <<ownVars, ogms, msgs, recv, smpVars>>
    BY <1>9 DEF vars, ownVars, smpVars
  <2>2. NetTyped'
    BY <2>1 DEF TypeInv, NetTyped
  <2> QED BY <2>1, <2>2, OwnTypedStays, SmpStays DEF TypeInv
<1>10. CASE Leave
  BY <1>10, LeaveBeginsTyped, LeaveEventTyped, LeaveHashTyped DEF Leave
<1> QED BY <1>1, <1>2, <1>3, <1>4, <1>5, <1>6, <1>7, <1>8, <1>9, <1>10 DEF Next

\* The variables of the originator, of the receivers and of what is under way
\* keep their types, whatever CPUs, allocations, intervals and flags do.
THEOREM TTTypeCorrect == Spec => []TypeOK
<1>1. TypeInv => TypeOK
  BY DEF TypeInv, OwnTyped, NetTyped, SmpTyped, MsgTyped, Owned, Vns, TypeOK
<1>2. Init => TypeInv
  BY InitTyped
<1>3. TypeInv /\ [Next]_vars => TypeInv'
  BY StepKeepsTypes
<1> QED BY <1>1, <1>2, <1>3, PTL DEF Spec

-----------------------------------------------------------------------------
(* The invariant                                                           *)

TTTyped ==
  /\ local \in UNION {[S -> Entry] : S \in SUBSET Addrs}
  /\ changes \in Seq(Change) /\ owed \in Int /\ count \in Int
  /\ vn \in Vns /\ crc \in Table /\ committed \in [Vns -> Table \cup {None}]
  /\ commit \in [step : Steps, n : Int] /\ events \in 0..MaxEvents

\* No more changes wait than events raised, and a list that is drained fits.
Waiting ==
  /\ owed <= 2 * events + 1 /\ count <= 2 * events + 1
  /\ owed >= 0 => count + owed <= 2 * events + 1
  /\ commit.step = "drain" => commit.n <= 2 * events + 1

One(b) == IF b THEN 1 ELSE 0

\* A commit that will empty the list, and one whose version is still to come
Empties == \/ commit.step \in {"purge", "crc", "count"}
           \/ commit.step = "drain" /\ commit.n >= 1
Begun == commit.step \in {"purge", "crc"}

\* How many versions ago v was the version
Ago(v) == IF v <= vn THEN vn - v ELSE vn - v + VnMod

\* Every commit takes an event: K commits have been made, and no more version
\* numbers have a table.
Spent(K) ==
  /\ K + One(Begun) + One(owed > 0) + One(~Empties /\ count > 0) <= events + 1
  /\ \A v \in Vns : Ago(v) > K => committed[v] = None

\* Away from the steps that make a version, the clients that are not NEW are
\* those of the version, but for those removed although it announces them.
Agreed ==
  commit.step \in {"idle", "count", "drain"} => Valid = DOMAIN crc \ gone[vn]

\* The table t was committed with version v.
Known(v, t) == v \in Vns /\ t \in Table /\ committed[v] = t

FullFits(m) ==
  LET t == committed[m.ttvn]
      sent == {m.changes[i].addr : i \in 1..Len(m.changes)}
  IN  /\ m.ttvn \in Vns /\ t # None
      /\ DOMAIN t \ gone[m.ttvn] \subseteq sent
      /\ surplus = 0 => sent \subseteq DOMAIN t
      /\ m.from # Mac => /\ sent = DOMAIN t
                         /\ \A i \in 1..Len(m.changes) :
                              m.changes[i].wifi = t[m.changes[i].addr]

MsgFits(m) ==
  /\ m.type = "request" => Known(m.ttvn, m.crc)
  /\ m.type = "response" /\ m.full /\ ~m.torn => FullFits(m)

\* What is under way carries versions with their tables.
Carried ==
  /\ Known(vn, crc) /\ Known(container.ttvn, container.crc)
  /\ \A o \in ogms : Known(o.ttvn, o.crc)
  /\ \A m \in msgs : MsgFits(m)

\* What a relay has checked and an update is to compare carries versions with
\* their tables; until an update crosses it, the relay's table is the one checked.
Underway ==
  /\ relay # None => /\ Known(relay.msg.ttvn, relay.msg.crc)
                     /\ ~relay.crossed => recv[relay.node].table = relay.msg.crc
  /\ upd # None /\ upd.ogm # None => Known(upd.ogm.ttvn, upd.ogm.crc)

TTInv == TTTyped /\ Waiting /\ (\E K \in Nat : Spent(K)) /\ Agreed /\ Carried /\ Underway

-----------------------------------------------------------------------------
(* The steps of the originator                                             *)

\* A message that fits goes on to fit when no table that is known changes.
LEMMA FitsStill ==
  ASSUME \A v \in Vns : committed[v] # None => committed'[v] = committed[v] /\ gone[v] \subseteq gone'[v],
         surplus' = 0 => surplus = 0
  PROVE  /\ \A v, t : Known(v, t) => Known(v, t)'
         /\ \A m : MsgFits(m) => MsgFits(m)'
<1>1. \A v, t : Known(v, t) => Known(v, t)'
  BY TablesOK DEF Known
<1>2. ASSUME NEW m, FullFits(m) PROVE FullFits(m)'
  <2> DEFINE v == m.ttvn
             t == committed[v]
             sent == {m.changes[i].addr : i \in 1..Len(m.changes)}
  <2>1. /\ v \in Vns /\ t # None /\ DOMAIN t \ gone[v] \subseteq sent
        /\ surplus = 0 => sent \subseteq DOMAIN t
        /\ m.from # Mac => /\ sent = DOMAIN t
                           /\ \A i \in 1..Len(m.changes) : m.changes[i].wifi = t[m.changes[i].addr]
    BY <1>2 DEF FullFits
  <2>2. committed'[v] = t /\ gone[v] \subseteq gone'[v]
    BY <2>1
  <2> QED BY <2>1, <2>2 DEF FullFits
<1> QED BY <1>1, <1>2 DEF MsgFits

\* Messages, OGMs and container that were there stay right.
LEMMA CarriedStays ==
  ASSUME Carried, UNCHANGED <<vn, crc, committed, container, gone, surplus>>,
         \A o \in ogms' : o \in ogms \/ Known(o.ttvn, o.crc),
         \A m \in msgs' : m \in msgs \/ MsgFits(m)
  PROVE  Carried'
<1>1. /\ \A v \in Vns : committed[v] # None => committed'[v] = committed[v] /\ gone[v] \subseteq gone'[v]
      /\ surplus' = 0 => surplus = 0
  OBVIOUS
<1>2. \A v, t : Known(v, t) => Known(v, t)'
  BY <1>1, FitsStill
<1>3. \A m : MsgFits(m) => MsgFits(m)'
  BY <1>1, FitsStill
<1>4. \A o \in ogms' : Known(o.ttvn, o.crc)'
  BY <1>2 DEF Carried
<1>5. \A m \in msgs' : MsgFits(m)'
  BY <1>3 DEF Carried
<1> QED BY <1>2, <1>4, <1>5 DEF Carried

\* The same of a relay and of an update that no step of a receiver touches
LEMMA UnderwayStays ==
  ASSUME Underway, UNCHANGED <<relay, upd, recv>>, \A v, t : Known(v, t) => Known(v, t)'
  PROVE  Underway'
BY DEF Underway

LEMMA StillUnderway ==
  ASSUME Underway, UNCHANGED <<relay, upd, recv, committed>>
  PROVE  Underway'
BY UnderwayStays DEF Known

-----------------------------------------------------------------------------
(* Every step keeps the invariant                                          *)

\* How many commits have been made, and the oldest version with a table, when
\* versions and tables stay.
LEMMA SpentStays ==
  ASSUME NEW K \in Nat, Spent(K), UNCHANGED <<vn, committed>>,
         K + One(Begun)' + One(owed > 0)' + One(~Empties /\ count > 0)' <= events' + 1
  PROVE  Spent(K)'
<1>1. \A v \in Vns : Ago(v)' = Ago(v)
  BY DEF Ago
<1>2. \A v \in Vns : Ago(v)' > K => committed'[v] = None
  BY <1>1 DEF Spent
<1> QED BY <1>2 DEF Spent

\* What an event does that leaves the clients that are not NEW
LEMMA EventRest ==
  ASSUME TTInv, Event, local' \in UNION {[S -> Entry] : S \in SUBSET Addrs}, Valid' = Valid,
         changes' \in Seq(Change), owed' \in -2..2
  PROVE  TTInv'
<1>1. /\ Event /\ local' \in UNION {[S -> Entry] : S \in SUBSET Addrs} /\ Valid' = Valid
      /\ changes' \in Seq(Change) /\ owed' \in Int /\ owed' <= 2
  OBVIOUS
<1>2. /\ owed = 0 /\ events < MaxEvents /\ events' = events + 1
      /\ UNCHANGED <<count, vn, crc, commit, container, ogms, msgs, committed, gone, surplus, relay,
                     upd, recv>>
  BY <1>1 DEF Event
<1>3. TTTyped'
  BY <1>1, <1>2, TTNumbers DEF TTInv, TTTyped
<1>4. Waiting'
  <2>1. count \in Int /\ events \in Nat /\ events' = events + 1 /\ commit.n \in Int
    BY <1>2, TTNumbers DEF TTInv, TTTyped
  <2>2. count <= 2 * events + 1 /\ (commit.step = "drain" => commit.n <= 2 * events + 1)
    BY DEF TTInv, Waiting
  <2>3. count' <= 2 * events' + 1 /\ owed' <= 2 * events' + 1 /\ count' + owed' <= 2 * events' + 1
    <3>1. count' = count /\ owed' \in Int /\ owed' <= 2
      BY <1>1, <1>2
    <3> DEFINE e == events
               f == events'
               x == count
               y == count'
               z == owed'
    <3>2. e \in Nat /\ f = e + 1 /\ x \in Int /\ y = x /\ z \in Int /\ z <= 2 /\ x <= 2 * e + 1
      BY <2>1, <2>2, <3>1
    <3> HIDE DEF e, f, x, y, z
    <3>3. y <= 2 * f + 1 /\ z <= 2 * f + 1 /\ y + z <= 2 * f + 1
      BY <3>2
    <3> QED BY <3>3 DEF e, f, x, y, z
  <2>4. commit'.step = "drain" => commit'.n <= 2 * events' + 1
    BY <1>2, <2>1, <2>2
  <2> QED BY <2>3, <2>4 DEF Waiting
<1>5. \A K \in Nat : Spent(K) => Spent(K)'
  <2> TAKE K \in Nat
  <2> HAVE Spent(K)
  <2>1. K + One(Begun) + One(owed > 0) + One(~Empties /\ count > 0) <= events + 1
    BY DEF Spent
  <2>2. events \in Nat /\ events' = events + 1
    BY <1>2, TTNumbers DEF TTInv, TTTyped
  <2>3. One(Begun)' = One(Begun) /\ One(owed > 0) = 0 /\ One(owed > 0)' \in {0, 1}
        /\ One(~Empties /\ count > 0)' = One(~Empties /\ count > 0)
    BY <1>2 DEF One, Begun, Empties
  <2>4. One(Begun) \in {0, 1} /\ One(~Empties /\ count > 0) \in {0, 1}
    BY DEF One
  <2>5. K + One(Begun)' + One(owed > 0)' + One(~Empties /\ count > 0)' <= events' + 1
    BY <2>1, <2>2, <2>3, <2>4
  <2> QED BY <1>2, <2>5, SpentStays
<1>6. Agreed'
  BY <1>1, <1>2 DEF TTInv, Agreed
<1>7. Carried'
  BY <1>2, CarriedStays DEF TTInv
<1>8. Underway'
  BY <1>2, StillUnderway DEF TTInv
<1> QED BY <1>3, <1>4, <1>5, <1>6, <1>7, <1>8 DEF TTInv

LEMMA EventKeeps ==
  ASSUME TTInv, NEW c \in Hosts,
         LocalPurge(c) \/ LocalRemove(c) \/ \E w \in Wifis : LocalAdd(c, w)
  PROVE  TTInv'
<1>1. /\ Event /\ local' \in UNION {[S -> Entry] : S \in SUBSET Addrs} /\ Valid' = Valid
      /\ changes' \in Seq(Change) /\ owed' \in -2..2
  BY EventIs DEF TTInv, TTTyped
<1> QED BY <1>1, EventRest

LEMMA AccountKeeps ==
  ASSUME TTInv, Account
  PROVE  TTInv'
<1>1. /\ count' = count + owed /\ owed' = 0
      /\ UNCHANGED <<local, changes, vn, crc, commit, container, ogms, msgs, committed, events,
                     gone, surplus, relay, upd, recv>>
  BY DEF Account, smpVars
<1>2. /\ count \in Int /\ owed \in Int /\ events \in Nat /\ commit \in [step : Steps, n : Int]
  BY TTNumbers DEF TTInv, TTTyped
<1>3. TTTyped'
  BY <1>1, <1>2 DEF TTInv, TTTyped
<1>4. Waiting'
  BY <1>1, <1>2 DEF TTInv, Waiting
<1>5. \A K \in Nat : Spent(K) => Spent(K)'
  <2> TAKE K \in Nat
  <2> HAVE Spent(K)
  <2>1. K + One(Begun) + One(owed > 0) + One(~Empties /\ count > 0) <= events + 1
    BY DEF Spent
  <2>2. One(Begun)' = One(Begun) /\ One(Begun) \in {0, 1} /\ One(owed > 0)' = 0
    BY <1>1 DEF One, Begun
  <2>3. One(~Empties /\ count > 0)' <= One(owed > 0) + One(~Empties /\ count > 0)
    BY <1>1, <1>2 DEF One, Empties
  <2>4. One(owed > 0) \in {0, 1} /\ One(~Empties /\ count > 0) \in {0, 1}
        /\ One(~Empties /\ count > 0)' \in {0, 1}
    BY DEF One
  <2>5. K + One(Begun)' + One(owed > 0)' + One(~Empties /\ count > 0)' <= events' + 1
    BY <1>1, <1>2, <2>1, <2>2, <2>3, <2>4
  <2> QED BY <1>1, <2>5, SpentStays
<1>6. Agreed'
  BY <1>1 DEF TTInv, Agreed, Valid
<1>7. Carried'
  BY <1>1, CarriedStays DEF TTInv
<1>8. Underway'
  BY <1>1, StillUnderway DEF TTInv
<1> QED BY <1>3, <1>4, <1>5, <1>6, <1>7, <1>8 DEF TTInv

\* The steps of a commit that leave versions, changes and messages alone, and
\* send no OGM but the container
LEMMA CommitStepKeeps ==
  ASSUME TTInv, NEW s \in Steps, NEW n \in Int, commit' = [step |-> s, n |-> n],
         UNCHANGED <<changes, count, owed, vn, crc, container, msgs, committed, events>>,
         UNCHANGED <<gone, surplus, relay, upd, recv>>,
         \A o \in ogms' : o \in ogms \/ o = container,
         local' \in UNION {[S -> Entry] : S \in SUBSET Addrs},
         s \in {"idle", "count", "drain"} => Valid' = DOMAIN crc \ gone[vn],
         s = "drain" => n <= 2 * events + 1,
         One(Begun)' + One(~Empties /\ count > 0)' <= One(Begun) + One(~Empties /\ count > 0)
  PROVE  TTInv'
<1>1. /\ count \in Int /\ owed \in Int /\ events \in Nat /\ commit' \in [step : Steps, n : Int]
      /\ commit'.step = s /\ commit'.n = n
  BY TTNumbers DEF TTInv, TTTyped
<1>2. TTTyped'
  BY <1>1 DEF TTInv, TTTyped
<1>3. Waiting'
  BY <1>1 DEF TTInv, Waiting
<1>4. \A K \in Nat : Spent(K) => Spent(K)'
  <2> TAKE K \in Nat
  <2> HAVE Spent(K)
  <2>1. K + One(Begun) + One(owed > 0) + One(~Empties /\ count > 0) <= events + 1
    BY DEF Spent
  <2>2. One(owed > 0)' = One(owed > 0)
    BY DEF One
  <2>3. /\ One(Begun) \in {0, 1} /\ One(owed > 0) \in {0, 1} /\ One(~Empties /\ count > 0) \in {0, 1}
        /\ One(Begun)' \in {0, 1} /\ One(~Empties /\ count > 0)' \in {0, 1}
    BY DEF One
  <2>4. K + One(Begun)' + One(owed > 0)' + One(~Empties /\ count > 0)' <= events' + 1
    BY <1>1, <2>1, <2>2, <2>3
  <2> QED BY <2>4, SpentStays
<1>5. Agreed'
  BY <1>1 DEF TTInv, Agreed
<1>6. \A o \in ogms' : o \in ogms \/ Known(o.ttvn, o.crc)
  BY DEF TTInv, Carried
<1>7. Carried'
  BY <1>6, CarriedStays DEF TTInv
<1>8. Underway'
  BY StillUnderway DEF TTInv
<1> QED BY <1>2, <1>3, <1>4, <1>5, <1>7, <1>8 DEF TTInv

LEMMA CommitNothingKeeps ==
  ASSUME TTInv, CommitNothing
  PROVE  TTInv'
<1>1. /\ commit.step = "idle" /\ count < 1
      /\ UNCHANGED <<local, changes, count, owed, vn, crc, container, msgs, committed, events>>
      /\ UNCHANGED <<gone, surplus, relay, upd, recv>>
  BY DEF CommitNothing, smpVars
<1>2. count \in Int /\ Valid' = Valid /\ local' \in UNION {[S -> Entry] : S \in SUBSET Addrs}
  BY <1>1 DEF TTInv, TTTyped, Valid
<1>3. Valid = DOMAIN crc \ gone[vn]
  BY <1>1 DEF TTInv, Agreed
<1>4. One(Begun) = 0 /\ One(~Empties /\ count > 0) = 0 /\ One(~Empties /\ count > 0)' = 0
  BY <1>1, <1>2 DEF One, Begun, Empties
<1>5. CASE append > 0
  <2>1. UNCHANGED commit /\ \A o \in ogms' : o \in ogms \/ o = container
    BY <1>5 DEF CommitNothing, SendOgm
  <2>2. commit \in [step : Steps, n : Int]
    BY DEF TTInv, TTTyped
  <2>3. commit' = [step |-> commit.step, n |-> commit.n] /\ commit.step \in Steps /\ commit.n \in Int
    BY <2>1, <2>2
  <2>4. One(Begun)' = 0
    BY <1>1, <2>1 DEF One, Begun
  <2> QED BY <1>1, <1>2, <1>3, <1>4, <2>1, <2>3, <2>4, CommitStepKeeps
<1>6. CASE ~(append > 0)
  <2>1. commit' = [step |-> "count", n |-> 0] /\ ogms' = ogms
    BY <1>6 DEF CommitNothing, Step
  <2>2. One(Begun)' = 0 /\ "count" \in Steps /\ 0 \in Int
    BY <2>1 DEF One, Begun, Steps
  <2> QED BY <1>1, <1>2, <1>3, <1>4, <2>1, <2>2, CommitStepKeeps
<1> QED BY <1>5, <1>6

LEMMA CommitFlagsKeeps ==
  ASSUME TTInv, CommitFlags
  PROVE  TTInv'
<1>1. /\ commit.step = "idle" /\ count >= 1 /\ commit' = [step |-> "purge", n |-> 0]
      /\ local' = [c \in DOMAIN local |-> [local[c] EXCEPT !.new = FALSE]]
      /\ UNCHANGED <<changes, count, owed, vn, crc, container, ogms, msgs, committed, events>>
      /\ UNCHANGED <<gone, surplus, relay, upd, recv>>
  BY DEF CommitFlags, smpVars, Step
<1>2. DOMAIN local \subseteq Addrs /\ \A c \in DOMAIN local : local[c] \in Entry
  BY TableTyped DEF TTInv, TTTyped
<1>3. local' \in [DOMAIN local -> Entry]
  <2>1. \A c \in DOMAIN local : [local[c] EXCEPT !.new = FALSE] \in Entry
    BY <1>2 DEF Entry
  <2> QED BY <1>1, <2>1
<1>4. local' \in UNION {[S -> Entry] : S \in SUBSET Addrs}
  BY <1>2, <1>3
<1>5. One(Begun) = 0 /\ One(~Empties /\ count > 0) = 1
  <2>1. count \in Int /\ count > 0
    BY <1>1 DEF TTInv, TTTyped
  <2> QED BY <1>1, <2>1 DEF One, Begun, Empties
<1>6. One(Begun)' = 1 /\ One(~Empties /\ count > 0)' = 0 /\ "purge" \in Steps /\ 0 \in Int
  BY <1>1 DEF One, Begun, Empties, Steps
<1> QED BY <1>1, <1>4, <1>5, <1>6, CommitStepKeeps

LEMMA CommitPurgeKeeps ==
  ASSUME TTInv, CommitPurge
  PROVE  TTInv'
<1> DEFINE T == {c \in DOMAIN local : ~local[c].pend}
<1>1. /\ commit.step = "purge" /\ commit' = [step |-> "crc", n |-> 0]
      /\ local' = [c \in T |-> local[c]]
      /\ UNCHANGED <<changes, count, owed, vn, crc, container, ogms, msgs, committed, events>>
      /\ UNCHANGED <<gone, surplus, relay, upd, recv>>
  BY DEF CommitPurge, smpVars, Step, Restrict
<1>2. T \subseteq Addrs /\ \A c \in T : local[c] \in Entry
  BY TableTyped DEF TTInv, TTTyped
<1> HIDE DEF T
<1>3. local' \in [T -> Entry]
  BY <1>1, <1>2
<1>4. local' \in UNION {[S -> Entry] : S \in SUBSET Addrs}
  BY <1>2, <1>3
<1>5. One(Begun) = 1 /\ One(~Empties /\ count > 0) = 0
  BY <1>1 DEF One, Begun, Empties
<1>6. One(Begun)' = 1 /\ One(~Empties /\ count > 0)' = 0 /\ "crc" \in Steps /\ 0 \in Int
  BY <1>1 DEF One, Begun, Empties, Steps
<1> QED BY <1>1, <1>4, <1>5, <1>6, CommitStepKeeps

LEMMA CommitCountKeeps ==
  ASSUME TTInv, CommitCount
  PROVE  TTInv'
<1>1. /\ commit.step = "count" /\ commit' = [step |-> "drain", n |-> count]
      /\ UNCHANGED <<local, changes, count, owed, vn, crc, container, ogms, msgs, committed, events>>
      /\ UNCHANGED <<gone, surplus, relay, upd, recv>>
  BY DEF CommitCount, smpVars
<1>2. count \in Int /\ Valid' = Valid /\ local' \in UNION {[S -> Entry] : S \in SUBSET Addrs}
  BY <1>1 DEF TTInv, TTTyped, Valid
<1>3. Valid = DOMAIN crc \ gone[vn]
  BY <1>1 DEF TTInv, Agreed
<1>4. One(Begun) = 0 /\ One(~Empties /\ count > 0) = 0
  BY <1>1 DEF One, Begun, Empties
<1>5. One(Begun)' = 0 /\ One(~Empties /\ count > 0)' = 0 /\ "drain" \in Steps
  BY <1>1, <1>2 DEF One, Begun, Empties, Steps
<1>6. count <= 2 * events + 1
  BY DEF TTInv, Waiting
<1> QED BY <1>1, <1>2, <1>3, <1>4, <1>5, <1>6, CommitStepKeeps

\* The next version is the oldest of all, and all others get older by one.
LEMMA AgoGrows ==
  ASSUME vn \in Vns, vn' = (vn + 1) % VnMod
  PROVE  /\ Ago(vn') = VnMod - 1
         /\ \A v \in Vns : v # vn' => Ago(v)' = Ago(v) + 1
<1> DEFINE m == VnMod
           a == vn
           b == vn'
<1>1. m \in Nat /\ m > 2 /\ a \in 0..(m - 1) /\ b = (IF a + 1 = m THEN 0 ELSE a + 1)
  BY TTNumbers, NextVn DEF Vns
<1> DEFINE f(v) == IF v <= a THEN a - v ELSE a - v + m
           g(v) == IF v <= b THEN b - v ELSE b - v + m
<1>2. (\A v \in 0..(m - 1) : Ago(v) = f(v) /\ Ago(v)' = g(v)) /\ Ago(vn') = f(b)
  BY DEF Ago
<1>3. f(b) = m - 1 /\ \A v \in 0..(m - 1) : v # b => g(v) = f(v) + 1
  <2> HIDE DEF m, a, b
  <2> QED BY <1>1
<1> QED BY <1>2, <1>3 DEF Vns

LEMMA CommitCrcKeeps ==
  ASSUME TypeInv, TTInv, CommitCrc
  PROVE  TTInv'
<1>1. /\ commit.step = "crc" /\ commit' = [step |-> "count", n |-> 0]
      /\ crc' = [c \in Valid |-> local[c].wifi] /\ vn' = (vn + 1) % VnMod
      /\ committed' = [committed EXCEPT ![vn'] = crc']
      /\ gone' = [gone EXCEPT ![vn'] = {}]
      /\ UNCHANGED <<local, changes, count, owed, container, ogms, msgs, events>>
      /\ UNCHANGED <<surplus, relay, upd, recv>>
  BY DEF CommitCrc, Step
<1>2. /\ local \in UNION {[S -> Entry] : S \in SUBSET Addrs} /\ vn \in Vns /\ events \in Nat
      /\ events <= MaxEvents /\ committed \in [Vns -> Table \cup {None}] /\ count \in Int /\ owed \in Int
  BY TTNumbers DEF TTInv, TTTyped
<1>3. vn' \in Vns /\ crc' \in Table /\ Valid' = Valid
  BY <1>1, <1>2, NextVn, TableTyped DEF Valid
<1>4. /\ committed' \in [Vns -> Table \cup {None}] /\ committed'[vn'] = crc'
      /\ \A v \in Vns \ {vn'} : committed'[v] = committed[v]
  BY <1>1, <1>2, <1>3
<1>0. gone'[vn'] = {} /\ \A v \in Vns \ {vn'} : gone'[v] = gone[v]
  <2>1. gone \in [Vns -> SUBSET Addrs]
    BY DEF TypeInv, SmpTyped
  <2> QED BY <1>1, <1>3, <2>1
<1>5. TTTyped'
  BY <1>1, <1>2, <1>3, <1>4 DEF TTInv, TTTyped, Steps
<1>6. Waiting'
  BY <1>1 DEF TTInv, Waiting
<1>7. \A K \in Nat : Spent(K) => K + 1 < VnMod /\ committed[vn'] = None /\ Spent(K + 1)'
  <2> TAKE K \in Nat
  <2> HAVE Spent(K)
  <2>1. /\ K + One(Begun) + One(owed > 0) + One(~Empties /\ count > 0) <= events + 1
        /\ \A v \in Vns : Ago(v) > K => committed[v] = None
    BY DEF Spent
  <2>2. /\ One(Begun) = 1 /\ One(~Empties /\ count > 0) = 0 /\ One(owed > 0) \in {0, 1}
        /\ One(Begun)' = 0 /\ One(~Empties /\ count > 0)' = 0 /\ One(owed > 0)' = One(owed > 0)
    BY <1>1 DEF One, Begun, Empties
  <2>3. K <= MaxEvents /\ K + 1 < VnMod
    BY <1>2, <2>1, <2>2, TTNumbers
  <2>4. Ago(vn') = VnMod - 1 /\ \A v \in Vns : v # vn' => Ago(v)' = Ago(v) + 1
    BY <1>1, <1>2, AgoGrows
  <2>5. committed[vn'] = None
    BY <1>3, <2>1, <2>3, <2>4, TTNumbers
  <2>6. \A v \in Vns : Ago(v) \in Int
    BY <1>2, TTNumbers DEF Ago, Vns
  <2>7. \A v \in Vns : Ago(v)' > K + 1 => committed'[v] = None
    <3> TAKE v \in Vns
    <3>1. CASE v = vn'
      <4>1. Ago(v)' = 0
        <5>1. Ago(v)' = IF v <= vn' THEN vn' - v ELSE vn' - v + VnMod
          BY DEF Ago
        <5>2. v = vn' /\ v \in Int
          BY <1>3, <3>1, TTNumbers DEF Vns
        <5> DEFINE a == Ago(v)'
                   b == vn'
        <5>3. a = (IF v <= b THEN b - v ELSE b - v + VnMod) /\ v = b /\ v \in Int
          BY <5>1, <5>2
        <5> HIDE DEF a, b
        <5>4. a = 0
          BY <5>3
        <5> QED BY <5>4 DEF a
      <4> QED BY <4>1
    <3>2. CASE v # vn'
      BY <1>4, <2>1, <2>4, <2>6, <3>2
    <3> QED BY <3>1, <3>2
  <2>8. (K + 1) + One(Begun)' + One(owed > 0)' + One(~Empties /\ count > 0)' <= events' + 1
    BY <1>1, <1>2, <2>1, <2>2
  <2>9. Spent(K + 1)'
    BY <2>7, <2>8 DEF Spent
  <2> QED BY <2>3, <2>5, <2>9
<1>8. committed[vn'] = None /\ \E K \in Nat : Spent(K)'
  <2>1. PICK K \in Nat : Spent(K)
    BY DEF TTInv
  <2>2. K + 1 \in Nat /\ committed[vn'] = None /\ Spent(K + 1)'
    BY <1>7, <2>1
  <2> QED BY <2>2
<1>9. Agreed'
  BY <1>0, <1>1, <1>3 DEF Agreed
<1>10. \A v \in Vns : committed[v] # None => committed'[v] = committed[v] /\ gone[v] \subseteq gone'[v]
  BY <1>0, <1>4, <1>8
<1>11. (\A v, t : Known(v, t) => Known(v, t)') /\ (\A m : MsgFits(m) => MsgFits(m)')
  BY <1>1, <1>10, FitsStill
<1>12. Known(vn, crc)'
  BY <1>3, <1>4 DEF Known
<1>13. Carried'
  BY <1>1, <1>11, <1>12 DEF TTInv, Carried
<1>14. Underway'
  BY <1>1, <1>11, UnderwayStays DEF TTInv
<1> QED BY <1>5, <1>6, <1>8, <1>9, <1>13, <1>14 DEF TTInv

LEMMA CommitDrainKeeps ==
  ASSUME TTInv, CommitDrain, 2 * MaxEvents + 1 <= MaxDiff
  PROVE  TTInv'
<1> DEFINE n == commit.n
<1>1. /\ commit.step = "drain" /\ commit' = [step |-> "idle", n |-> 0]
      /\ UNCHANGED <<local, owed, vn, crc, msgs, committed>>
      /\ UNCHANGED <<gone, surplus, relay, upd, recv>>
      /\ \A o \in ogms' : o \in ogms \/ o = container'
  BY DEF CommitDrain, Step, SendOgm, smpVars
<1>2. \/ DrainNothing(n) /\ UNCHANGED events
      \/ DrainList(n) /\ UNCHANGED events
      \/ events < MaxEvents /\ events' = events + 1 /\ UNCHANGED <<changes, count, container>>
  BY DEF CommitDrain
<1>3. n \in Int /\ n <= 2 * events + 1 /\ events \in Nat /\ events <= MaxEvents /\ owed \in Int
      /\ count \in Int /\ changes \in Seq(Change)
  BY <1>1, TTNumbers DEF TTInv, TTTyped, Waiting
<1>4. n <= MaxDiff
  BY <1>3, TTNumbers
\* The list and local_changes stay, and an event may be spent; or both are emptied.
<1>5. \/ n < 1 /\ UNCHANGED <<changes, count, events>>
      \/ n >= 1 /\ changes' = << >> /\ count' = 0 /\ UNCHANGED events
      \/ events < MaxEvents /\ events' = events + 1 /\ UNCHANGED <<changes, count>>
  <2>1. DrainNothing(n) => n < 1 /\ UNCHANGED <<changes, count>>
    BY <1>3, <1>4, TTNumbers DEF DrainNothing
  <2>2. DrainList(n) => n >= 1 /\ changes' = << >> /\ count' = 0
    BY DEF DrainList
  <2> QED BY <1>2, <2>1, <2>2
<1>6. (container'.ttvn = vn /\ container'.crc = crc) \/ UNCHANGED container
  <2>1. DrainNothing(n) => \E d : container' = Container(d)
    BY DEF DrainNothing
  <2>2. DrainList(n) => \E d : container' = Container(d)
    BY DEF DrainList
  <2>3. \A d : Container(d).ttvn = vn /\ Container(d).crc = crc
    BY DEF Container
  <2> QED BY <1>2, <2>1, <2>2, <2>3
<1>7. count' \in {0, count} /\ events' \in {events, events + 1} /\ events' \in 0..MaxEvents
      /\ changes' \in Seq(Change)
  <2>1. << >> \in Seq(Change)
    OBVIOUS
  <2>2. count' \in {0, count} /\ changes' \in Seq(Change)
    BY <1>3, <1>5, <2>1
  <2>3. events' = events \/ (events < MaxEvents /\ events' = events + 1)
    BY <1>5
  <2> QED BY <1>3, <2>2, <2>3, TTNumbers
<1>8. TTTyped'
  BY <1>1, <1>3, <1>7 DEF TTInv, TTTyped, Steps
<1>9. Waiting'
  <2>1. /\ owed <= 2 * events + 1 /\ count <= 2 * events + 1
        /\ owed >= 0 => count + owed <= 2 * events + 1
    BY DEF TTInv, Waiting
  <2>2. /\ owed' <= 2 * events' + 1 /\ count' <= 2 * events' + 1
        /\ owed' >= 0 => count' + owed' <= 2 * events' + 1
    <3> DEFINE e == events
               f == events'
               x == count
               y == count'
               z == owed
    <3>1. /\ e \in Nat /\ f \in {e, e + 1} /\ x \in Int /\ y \in {0, x} /\ z \in Int
          /\ z <= 2 * e + 1 /\ x <= 2 * e + 1 /\ (z >= 0 => x + z <= 2 * e + 1)
      BY <1>3, <1>7, <2>1
    <3> HIDE DEF e, f, x, y, z
    <3>2. z <= 2 * f + 1 /\ y <= 2 * f + 1 /\ (z >= 0 => y + z <= 2 * f + 1)
      BY <3>1
    <3>3. owed' = owed
      BY <1>1
    <3> QED BY <3>2, <3>3 DEF f, y, z
  <2> QED BY <1>1, <2>2 DEF Waiting
<1>10. \A K \in Nat : Spent(K) => Spent(K)'
  <2> TAKE K \in Nat
  <2> HAVE Spent(K)
  <2>1. K + One(Begun) + One(owed > 0) + One(~Empties /\ count > 0) <= events + 1
    BY DEF Spent
  <2>2. /\ One(Begun) = 0 /\ One(owed > 0) \in {0, 1} /\ One(~Empties /\ count > 0) \in {0, 1}
        /\ One(Begun)' = 0 /\ One(owed > 0)' = One(owed > 0)
        /\ One(~Empties /\ count > 0)' \in {0, 1}
    BY <1>1 DEF One, Begun
  <2>3. n < 1 /\ count' = count => One(~Empties /\ count > 0)' <= One(~Empties /\ count > 0)
    BY <1>1, <1>3 DEF One, Empties
  <2>4. count' = 0 => One(~Empties /\ count > 0)' = 0
    BY DEF One
  <2>5. K + One(Begun)' + One(owed > 0)' + One(~Empties /\ count > 0)' <= events' + 1
    BY <1>3, <1>5, <2>1, <2>2, <2>3, <2>4
  <2> QED BY <1>1, <2>5, SpentStays
<1>11. Agreed'
  BY <1>1 DEF TTInv, Agreed, Valid
<1>12. Carried'
  <2>1. (\A v, t : Known(v, t) => Known(v, t)') /\ (\A m : MsgFits(m) => MsgFits(m)')
    BY <1>1, FitsStill
  <2>2. Known(vn, crc)'
    BY <1>1, <2>1 DEF TTInv, Carried
  <2>3. Known(container.ttvn, container.crc)'
    BY <1>1, <1>6, <2>1, <2>2 DEF TTInv, Carried
  <2>4. \A o \in ogms' : Known(o.ttvn, o.crc)'
    BY <1>1, <2>1, <2>3 DEF TTInv, Carried
  <2>5. \A m \in msgs' : MsgFits(m)'
    BY <1>1, <2>1 DEF TTInv, Carried
  <2> QED BY <2>2, <2>3, <2>4, <2>5 DEF Carried
<1>13. Underway'
  BY <1>1, StillUnderway DEF TTInv
<1> QED BY <1>8, <1>9, <1>10, <1>11, <1>12, <1>13 DEF TTInv

\* The steps of the receivers, and losses: only the messages change.
LEMMA OwnStays ==
  ASSUME TTInv, UNCHANGED ownVars,
         \A o \in ogms' : o \in ogms,
         \A m \in msgs' : m \in msgs \/ MsgFits(m),
         Underway'
  PROVE  TTInv'
<1>1. UNCHANGED <<local, changes, count, owed, vn, crc, commit, container, committed, events, gone,
                  surplus>>
  BY DEF ownVars
<1>2. TTTyped'
  BY <1>1 DEF TTInv, TTTyped
<1>3. Waiting'
  BY <1>1 DEF TTInv, Waiting
<1>4. \A K \in Nat : Spent(K)' <=> Spent(K)
  BY <1>1 DEF Spent, Ago, One, Begun, Empties
<1>5. Agreed'
  BY <1>1 DEF TTInv, Agreed, Valid
<1>6. Carried'
  BY <1>1, CarriedStays DEF TTInv
<1> QED BY <1>2, <1>3, <1>4, <1>5, <1>6 DEF TTInv

\* A request carries the version of the OGM that made the receiver ask.
LEMMA AskFits ==
  ASSUME NEW r, NEW n, NEW o, NEW full, Known(o.ttvn, o.crc), Ask(r, n, o, full)
  PROVE  \A m \in msgs' : m \in msgs \/ MsgFits(m)
<1> DEFINE q == [type |-> "request", node |-> r, ttvn |-> o.ttvn, crc |-> o.crc, full |-> full]
<1>1. msgs' = msgs \/ msgs' = msgs \cup {q}
  BY DEF Ask
<1>2. q.type = "request" /\ q.ttvn = o.ttvn /\ q.crc = o.crc
  OBVIOUS
<1> HIDE DEF q
<1>3. MsgFits(q)
  BY <1>2 DEF MsgFits
<1> QED BY <1>1, <1>3

\* What a step of a receiver leaves of the relay and of the update
LEMMA UnderwayAfter ==
  ASSUME TypeInv, Underway, UNCHANGED ownVars, NEW r \in Receivers,
         \A q \in Receivers : q # r => recv'[q] = recv[q],
         relay' = relay \/ Cross(r),
         recv'[r].table = recv[r].table \/ Cross(r),
         upd' = None \/ upd' = upd \/ upd'.ogm = None \/ Known(upd'.ogm.ttvn, upd'.ogm.crc)
  PROVE  Underway'
<1>1. \A v, t : Known(v, t)' <=> Known(v, t)
  BY DEF ownVars, Known
<1>2. relay' # None => /\ relay # None /\ relay \in Copying /\ relay'.msg = relay.msg
                       /\ relay'.node = relay.node /\ relay.node \in Receivers
                       /\ relay'.crossed = relay.crossed \/ relay'.crossed
                       /\ Cross(r) /\ relay.node = r => relay'.crossed
  <2> SUFFICES ASSUME relay' # None
               PROVE  /\ relay # None /\ relay \in Copying /\ relay'.msg = relay.msg
                      /\ relay'.node = relay.node /\ relay.node \in Receivers
                      /\ relay'.crossed = relay.crossed \/ relay'.crossed
                      /\ Cross(r) /\ relay.node = r => relay'.crossed
    OBVIOUS
  <2>1. relay # None
    BY DEF Cross
  <2>2. relay \in Copying /\ relay.node \in Receivers
    BY <2>1 DEF TypeInv, SmpTyped, Copying
  <2> DEFINE c == [relay EXCEPT !.crossed = TRUE]
  <2>3. c.msg = relay.msg /\ c.node = relay.node /\ c.crossed
    BY <2>2 DEF Copying
  <2>4. relay' = relay \/ relay' = c
    BY DEF Cross
  <2>5. Cross(r) /\ relay.node = r => relay' = c
    BY <2>1 DEF Cross
  <2> HIDE DEF c
  <2> QED BY <2>1, <2>2, <2>3, <2>4, <2>5
<1>3. relay' # None => /\ Known(relay.msg.ttvn, relay.msg.crc)
                       /\ ~relay'.crossed => recv'[relay'.node].table = relay.msg.crc
  <2> SUFFICES ASSUME relay' # None
               PROVE  /\ Known(relay.msg.ttvn, relay.msg.crc)
                      /\ ~relay'.crossed => recv'[relay'.node].table = relay.msg.crc
    OBVIOUS
  <2>1. Known(relay.msg.ttvn, relay.msg.crc) /\ (~relay.crossed => recv[relay.node].table = relay.msg.crc)
    BY <1>2 DEF Underway
  <2>2. CASE relay.node = r
    BY <1>2, <2>1, <2>2
  <2>3. CASE relay.node # r
    BY <1>2, <2>1, <2>3
  <2> QED BY <2>1, <2>2, <2>3
<1>4. upd' # None /\ upd'.ogm # None => Known(upd'.ogm.ttvn, upd'.ogm.crc)
  BY DEF Underway
<1> QED BY <1>1, <1>2, <1>3, <1>4 DEF Underway

\* A request does not touch the table.
LEMMA AskSets ==
  ASSUME recv \in [Receivers -> OrigNode], NEW r \in Receivers, NEW n \in OrigNode, NEW o, NEW full,
         Ask(r, n, o, full) \/ recv' = [recv EXCEPT ![r] = n]
  PROVE  recv'[r].table = n.table /\ \A q \in Receivers : q # r => recv'[q] = recv[q]
<1>1. n.table = [n EXCEPT !.waiting = TRUE].table
  BY DEF OrigNode
<1>2. \E k : recv' = [recv EXCEPT ![r] = k] /\ k.table = n.table
  BY <1>1 DEF Ask
<1> QED BY <1>2

LEMMA JudgeFits ==
  ASSUME recv \in [Receivers -> OrigNode], NEW r \in Receivers, NEW n \in OrigNode, NEW o,
         Known(o.ttvn, o.crc), Judge(r, n, o)
  PROVE  /\ \A m \in msgs' : m \in msgs \/ MsgFits(m)
         /\ recv'[r].table = n.table /\ \A q \in Receivers : q # r => recv'[q] = recv[q]
<1>1. CASE Ask(r, n, o, TRUE)
  BY <1>1, AskFits, AskSets
<1>2. CASE recv' = [recv EXCEPT ![r] = n] /\ UNCHANGED msgs
  BY <1>2, AskSets
<1> QED BY <1>1, <1>2 DEF Judge

LEMMA HandleOgmKeeps ==
  ASSUME TypeInv, TTInv, NEW r \in Receivers, NEW o \in ogms, HandleOgm(r, o)
  PROVE  TTInv'
<1>1. Known(o.ttvn, o.crc) /\ Underway
  BY DEF TTInv, Carried
<1>2. UNCHANGED ownVars /\ ogms' = ogms
  BY DEF HandleOgm, ApplyDiff, AskDiff, Compare, OgmUnchanged
<1>3. /\ recv \in [Receivers -> OrigNode] /\ o \in Carrier /\ recv[r] \in OrigNode
      /\ o.ttvn \in Vns /\ o.diff \in Seq(Change)
  BY DEF TypeInv, NetTyped, Carrier, Vns
<1> DEFINE h == Heard(r)
<1>4. h \in OrigNode /\ h.table = recv[r].table
  BY <1>3, NodeIs DEF Heard, OrigNode
<1>5. CASE ApplyDiff(r, o)
  <2>1. PICK n \in Changed(h, o.diff, o.ttvn) :
          IF SMP THEN Begin(r, n, recv[r].table, o) /\ UNCHANGED msgs
                 ELSE Judge(r, n, o) /\ UNCHANGED upd
    BY <1>5 DEF ApplyDiff
  <2> HIDE DEF h
  <2>2. n \in OrigNode /\ Cross(r)
    BY <1>3, <1>4, <1>5, ChangedTyped DEF ApplyDiff
  <2>3. /\ \A m \in msgs' : m \in msgs \/ MsgFits(m)
        /\ \A q \in Receivers : q # r => recv'[q] = recv[q]
        /\ upd' = upd \/ upd'.ogm = o
    <3>1. CASE SMP
      BY <1>3, <2>1, <2>2, <3>1 DEF Begin
    <3>2. CASE ~SMP
      BY <1>1, <1>3, <2>1, <2>2, <3>2, JudgeFits
    <3> QED BY <3>1, <3>2
  <2>4. Underway'
    BY <1>1, <1>2, <2>2, <2>3, UnderwayAfter
  <2> QED BY <1>2, <2>3, <2>4, OwnStays
<1>6. CASE AskDiff(r, o) \/ Compare(r, o)
  <2>1. UNCHANGED <<relay, upd>>
    BY <1>6 DEF AskDiff, Compare
  <2>2. \E full : Ask(r, h, o, full) \/ (recv' = [recv EXCEPT ![r] = h] /\ UNCHANGED msgs)
    <3>1. CASE AskDiff(r, o)
      BY <3>1 DEF AskDiff
    <3>2. CASE Compare(r, o)
      BY <3>2 DEF Compare
    <3> QED BY <1>6, <3>1, <3>2
  <2> HIDE DEF h
  <2>3. PICK full : Ask(r, h, o, full) \/ (recv' = [recv EXCEPT ![r] = h] /\ UNCHANGED msgs)
    BY <2>2
  <2>4. \A m \in msgs' : m \in msgs \/ MsgFits(m)
    BY <1>1, <2>3, AskFits
  <2>5. recv'[r].table = recv[r].table /\ \A q \in Receivers : q # r => recv'[q] = recv[q]
    BY <1>3, <1>4, <2>3, AskSets
  <2>6. Underway'
    BY <1>1, <1>2, <2>1, <2>5, UnderwayAfter
  <2> QED BY <1>2, <2>4, <2>6, OwnStays
<1> QED BY <1>5, <1>6 DEF HandleOgm

\* A full response whose changes are the entries of a committed table
LEMMA FullResponseFits ==
  ASSUME NEW v \in Vns, NEW t \in Table, NEW m, m.type = "response", m.ttvn = v,
         m.changes = Entries(t), committed[v] = t, t # None
  PROVE  MsgFits(m)
<1> DEFINE e == Entries(t)
<1>1. /\ \A i \in 1..Len(e) : e[i].addr \in DOMAIN t /\ e[i].wifi = t[e[i].addr]
      /\ {e[i].addr : i \in 1..Len(e)} = DOMAIN t
  BY EntriesAre
<1> HIDE DEF e
<1>2. m.changes = e
  BY DEF e
<1>3. {m.changes[i].addr : i \in 1..Len(m.changes)} = DOMAIN t
  BY <1>1, <1>2
<1>4. \A i \in 1..Len(m.changes) : m.changes[i].wifi = t[m.changes[i].addr]
  BY <1>1, <1>2
<1> QED BY <1>3, <1>4 DEF MsgFits, FullFits

\* The originator's own table, with what may follow it in memory
LEMMA OwnResponseFits ==
  ASSUME NEW t \in Table, DOMAIN t = DOMAIN crc \ gone[vn], Known(vn, crc), crc # None,
         surplus \in Nat, NEW junk \in [1..surplus -> Junk],
         NEW m, m.type = "response", m.from = Mac, m.ttvn = vn, m.changes = Entries(t) \o junk
  PROVE  MsgFits(m)
<1> DEFINE e == Entries(t)
           q == e \o junk
           sent == {q[i].addr : i \in 1..Len(q)}
<1>1. e \in Seq(Change) /\ {e[i].addr : i \in 1..Len(e)} = DOMAIN t
  BY EntriesAre, EntriesTyped
<1> HIDE DEF e
<1>2. junk \in Seq(Change) /\ Len(junk) = surplus /\ Len(e) \in Nat
  BY <1>1, TablesOK
<1>3. Len(q) = Len(e) + surplus /\ \A i \in 1..Len(e) : q[i] = e[i]
  BY <1>1, <1>2
<1>4. DOMAIN t \subseteq sent
  <2> SUFFICES ASSUME NEW a \in DOMAIN t PROVE a \in sent
    OBVIOUS
  <2>1. PICK i \in 1..Len(e) : a = e[i].addr
    BY <1>1
  <2>2. i \in 1..Len(q) /\ q[i].addr = a
    BY <1>2, <1>3, <2>1
  <2> QED BY <2>2
<1>5. surplus = 0 => sent \subseteq DOMAIN t
  <2> SUFFICES ASSUME surplus = 0, NEW i \in 1..Len(q) PROVE q[i].addr \in DOMAIN t
    OBVIOUS
  <2>1. i \in 1..Len(e) /\ q[i] = e[i]
    BY <1>2, <1>3
  <2> QED BY <1>1, <2>1
<1>6. m.changes = q
  BY DEF e
<1> HIDE DEF q
<1>7. {m.changes[i].addr : i \in 1..Len(m.changes)} = sent
  BY <1>6
<1>8. vn \in Vns /\ committed[vn] = crc
  BY DEF Known
<1> HIDE DEF sent
<1>9. FullFits(m)
  BY <1>4, <1>5, <1>7, <1>8 DEF FullFits
<1> QED BY <1>9 DEF MsgFits

LEMMA OwnAnswerKeeps ==
  ASSUME TypeInv, TTInv, NEW m \in msgs, OwnAnswer(m)
  PROVE  TTInv'
<1> DEFINE e == Entries(LocalTable)
           resp(v, full, chs) == Reply(m, Mac, v, full, FALSE, chs)
<1>1. /\ commit.step = "idle" /\ UNCHANGED ownVars /\ ogms' = ogms /\ UNCHANGED <<relay, upd, recv>>
      /\ \/ msgs' = msgs \ {m}
         \/ \E junk \in [1..surplus -> Junk] : msgs' = (msgs \ {m}) \cup {resp(vn, TRUE, e \o junk)}
         \/ msgs' = (msgs \ {m}) \cup {resp(m.ttvn, FALSE, lastset)}
  BY DEF OwnAnswer, Answer
<1>2. LocalTable \in Table /\ DOMAIN LocalTable = Valid /\ surplus \in Nat
  BY TableTyped DEF TTInv, TTTyped, LocalTable, TypeInv, SmpTyped
<1>3. DOMAIN LocalTable = DOMAIN crc \ gone[vn] /\ Known(vn, crc) /\ crc # None
  BY <1>1, <1>2, TablesOK DEF TTInv, Agreed, Carried, Known
<1>4. \A v, chs : ~resp(v, FALSE, chs).full /\ resp(v, FALSE, chs).type = "response"
  BY DEF Reply
<1>5. \A v, chs : /\ resp(v, TRUE, chs).type = "response" /\ resp(v, TRUE, chs).ttvn = v
                  /\ resp(v, TRUE, chs).from = Mac /\ resp(v, TRUE, chs).changes = chs
  BY DEF Reply
<1> HIDE DEF resp
<1>6. MsgFits(resp(m.ttvn, FALSE, lastset))
  BY <1>4 DEF MsgFits
<1>7. ASSUME NEW junk \in [1..surplus -> Junk] PROVE MsgFits(resp(vn, TRUE, e \o junk))
  <2> DEFINE x == resp(vn, TRUE, e \o junk)
  <2>1. x.type = "response" /\ x.ttvn = vn /\ x.from = Mac /\ x.changes = e \o junk
    BY <1>5
  <2> HIDE DEF x
  <2>2. MsgFits(x)
    BY <1>2, <1>3, <2>1, OwnResponseFits
  <2> QED BY <2>2 DEF x
<1> HIDE DEF e
<1>8. \A x \in msgs' : x \in msgs \/ MsgFits(x)
  <2>1. CASE \E junk \in [1..surplus -> Junk] : msgs' = (msgs \ {m}) \cup {resp(vn, TRUE, e \o junk)}
    <3>1. PICK junk \in [1..surplus -> Junk] : msgs' = (msgs \ {m}) \cup {resp(vn, TRUE, e \o junk)}
      BY <2>1
    <3>2. MsgFits(resp(vn, TRUE, e \o junk))
      BY <1>7
    <3> QED BY <3>1, <3>2
  <2>2. CASE msgs' = msgs \ {m}
    BY <2>2
  <2>3. CASE msgs' = (msgs \ {m}) \cup {resp(m.ttvn, FALSE, lastset)}
    BY <1>6, <2>3
  <2> QED BY <1>1, <2>1, <2>2, <2>3
<1>9. Underway'
  BY <1>1, StillUnderway DEF TTInv, ownVars
<1> QED BY <1>1, <1>8, <1>9, OwnStays

LEMMA RelayAnswerKeeps ==
  ASSUME TypeInv, TTInv, NEW m \in msgs, NEW r \in Receivers, RelayAnswer(r, m)
  PROVE  TTInv'
<1> DEFINE resp(full, chs) == Reply(m, r, m.ttvn, full, FALSE, chs)
           t == recv[r].table
<1>1. /\ m.type = "request" /\ ~SMP /\ UNCHANGED ownVars /\ ogms' = ogms
      /\ UNCHANGED <<relay, upd, recv>>
      /\ \/ msgs' = (msgs \ {m}) \cup {resp(TRUE, Entries(t))}
         \/ msgs' = (msgs \ {m}) \cup {resp(FALSE, recv[r].buff)}
  BY DEF RelayAnswer, RelayHas, Answer
<1>0. t = m.crc
  <2>1. upd = None
    BY <1>1 DEF TypeInv, SmpTyped
  <2> QED BY <2>1 DEF RelayAnswer, RelayHas, CrcMatches, Updating
<1>2. m.ttvn \in Vns /\ t \in Table /\ committed[m.ttvn] = t /\ t # None
  BY <1>0, <1>1, TablesOK DEF TTInv, Carried, MsgFits, Known
<1>3. \A chs : ~resp(FALSE, chs).full /\ resp(FALSE, chs).type = "response"
  BY DEF Reply
<1>4. \A chs : /\ resp(TRUE, chs).type = "response" /\ resp(TRUE, chs).ttvn = m.ttvn
               /\ resp(TRUE, chs).changes = chs
  BY DEF Reply
<1> HIDE DEF resp, t
<1>5. MsgFits(resp(FALSE, recv[r].buff))
  BY <1>3 DEF MsgFits
<1>6. MsgFits(resp(TRUE, Entries(t)))
  BY <1>2, <1>4, FullResponseFits
<1>7. \A x \in msgs' : x \in msgs \/ MsgFits(x)
  BY <1>1, <1>5, <1>6
<1>8. Underway'
  BY <1>1, StillUnderway DEF TTInv, ownVars
<1> QED BY <1>1, <1>7, <1>8, OwnStays

LEMMA RelayCheckKeeps ==
  ASSUME TypeInv, TTInv, NEW m \in msgs, NEW r \in Receivers, RelayCheck(r, m)
  PROVE  TTInv'
<1> DEFINE n == recv[r]
           w == m.full \/ n.buff = None
           u == Updating(r)
<1>1. /\ m.type = "request" /\ UNCHANGED ownVars /\ ogms' = ogms /\ UNCHANGED <<upd, recv>>
      /\ msgs' = msgs \ {m}
      /\ relay' = [node |-> r, msg |-> m, whole |-> w, was |-> n, crossed |-> u]
  BY DEF RelayCheck, RelayHas
<1>2. ~u => n.table = m.crc
  BY DEF RelayCheck, RelayHas, CrcMatches
<1> HIDE DEF w, u, n
<1>3. relay'.msg = m /\ relay'.node = r /\ relay'.crossed = u
  BY <1>1
<1>4. Known(m.ttvn, m.crc)
  BY <1>1 DEF TTInv, Carried, MsgFits
<1>5. (\A v, t : Known(v, t)' <=> Known(v, t)) /\ Underway
  BY <1>1 DEF ownVars, Known, TTInv
<1>6. recv'[relay'.node].table = n.table
  BY <1>1, <1>3 DEF n
<1>7. Underway'
  BY <1>1, <1>2, <1>3, <1>4, <1>5, <1>6 DEF Underway
<1>8. \A x \in msgs' : x \in msgs
  BY <1>1
<1> QED BY <1>1, <1>7, <1>8, OwnStays

LEMMA RelayCopyKeeps ==
  ASSUME TypeInv, TTInv, RelayCopy
  PROVE  TTInv'
<1> DEFINE m == relay.msg
           r == relay.node
           t == recv[r].table
           c == relay.crossed
           x(full, chs) == Reply(m, r, m.ttvn, full, c, chs)
<1>1. /\ relay # None /\ relay' = None /\ UNCHANGED ownVars /\ ogms' = ogms /\ UNCHANGED <<upd, recv>>
      /\ \/ ~c /\ msgs' = msgs \cup {x(TRUE, Entries(t))}
         \/ c /\ \E chs : msgs' = msgs \cup {x(TRUE, chs)}
         \/ \E chs : msgs' = msgs \cup {x(FALSE, chs)}
         \/ msgs' = msgs \cup {m}
  BY DEF RelayCopy
<1>2. Known(m.ttvn, m.crc) /\ (~c => t = m.crc)
  BY <1>1 DEF TTInv, Underway
<1>3. m.type = "request"
  BY <1>1 DEF TypeInv, SmpTyped, Copying, Request
<1>4. \A full, chs : LET y == x(full, chs)
                     IN  /\ y.type = "response" /\ y.ttvn = m.ttvn /\ y.full = full /\ y.torn = c
                         /\ y.changes = chs
  BY DEF Reply
<1> HIDE DEF x, m, r, t, c
<1>5. MsgFits(m)
  BY <1>2, <1>3 DEF MsgFits
<1>6. \A chs : MsgFits(x(FALSE, chs)) /\ (c => MsgFits(x(TRUE, chs)))
  BY <1>4 DEF MsgFits
<1>7. ~c => MsgFits(x(TRUE, Entries(t)))
  <2> SUFFICES ASSUME ~c PROVE MsgFits(x(TRUE, Entries(t)))
    OBVIOUS
  <2> DEFINE y == x(TRUE, Entries(t))
  <2>1. m.ttvn \in Vns /\ t \in Table /\ committed[m.ttvn] = t /\ t # None
    BY <1>2, TablesOK DEF Known
  <2>2. y.type = "response" /\ y.ttvn = m.ttvn /\ y.changes = Entries(t)
    BY <1>4
  <2> HIDE DEF y
  <2>3. MsgFits(y)
    BY <2>1, <2>2, FullResponseFits
  <2> QED BY <2>3 DEF y
<1>8. \A y \in msgs' : y \in msgs \/ MsgFits(y)
  <2>1. CASE ~c /\ msgs' = msgs \cup {x(TRUE, Entries(t))}
    BY <1>7, <2>1
  <2>2. CASE c /\ \E chs : msgs' = msgs \cup {x(TRUE, chs)}
    BY <1>6, <2>2
  <2>3. CASE \E chs : msgs' = msgs \cup {x(FALSE, chs)}
    BY <1>6, <2>3
  <2>4. CASE msgs' = msgs \cup {m}
    BY <1>5, <2>4
  <2> QED BY <1>1, <2>1, <2>2, <2>3, <2>4
<1>9. Underway'
  <2>1. \A v, k : Known(v, k)' <=> Known(v, k)
    BY <1>1 DEF ownVars, Known
  <2> QED BY <1>1, <2>1 DEF TTInv, Underway
<1> QED BY <1>1, <1>8, <1>9, OwnStays

LEMMA FinishKeeps ==
  ASSUME TypeInv, TTInv, Finish
  PROVE  TTInv'
<1> DEFINE r == upd.node
           n == recv[r]
<1>1. /\ upd # None /\ upd' = None /\ UNCHANGED ownVars /\ ogms' = ogms /\ UNCHANGED relay
      /\ IF upd.ogm # None THEN Judge(r, n, upd.ogm)
         ELSE recv' = [recv EXCEPT ![r].waiting = FALSE] /\ UNCHANGED msgs
  BY DEF Finish
<1>2. recv \in [Receivers -> OrigNode] /\ r \in Receivers /\ n \in OrigNode
  <2>1. recv \in [Receivers -> OrigNode] /\ r \in Receivers
    BY <1>1 DEF TypeInv, SmpTyped, Update
  <2> QED BY <2>1
<1>3. /\ \A m \in msgs' : m \in msgs \/ MsgFits(m)
      /\ recv'[r].table = recv[r].table /\ \A q \in Receivers : q # r => recv'[q] = recv[q]
  <2>1. CASE upd.ogm # None
    <3>1. Judge(r, n, upd.ogm) /\ Known(upd.ogm.ttvn, upd.ogm.crc)
      BY <1>1, <2>1 DEF TTInv, Underway
    <3> HIDE DEF r
    <3> QED BY <1>2, <3>1, JudgeFits
  <2>2. CASE upd.ogm = None
    <3>1. recv' = [recv EXCEPT ![r] = [n EXCEPT !.waiting = FALSE]] /\ UNCHANGED msgs
      BY <1>1, <2>2
    <3>2. [n EXCEPT !.waiting = FALSE].table = n.table
      BY <1>2 DEF OrigNode
    <3> QED BY <1>2, <3>1, <3>2
  <2> QED BY <2>1, <2>2
<1>4. Underway'
  BY <1>1, <1>2, <1>3, UnderwayAfter DEF TTInv
<1> QED BY <1>1, <1>3, <1>4, OwnStays

LEMMA HandleResponseKeeps ==
  ASSUME TypeInv, TTInv, NEW m \in msgs, HandleResponse(m)
  PROVE  TTInv'
<1> DEFINE r == m.node
<1>1. UNCHANGED ownVars /\ ogms' = ogms /\ (\A x \in msgs' : x \in msgs) /\ m.type = "response"
  BY DEF HandleResponse
<1>2. r \in Receivers /\ recv \in [Receivers -> OrigNode]
  BY <1>1 DEF TypeInv, NetTyped, MsgTyped, Response
<1>3. \/ UNCHANGED <<recv, upd, relay>>
      \/ /\ Cross(r) /\ \E k : recv' = [recv EXCEPT ![r] = k]
         /\ upd' = upd \/ upd'.ogm = None
  <2> DEFINE n == recv[r]
             X == IF m.full THEN Filled(n, m.changes, m.ttvn) ELSE Changed(n, m.changes, m.ttvn)
             old == IF m.full THEN NoTable ELSE n.table
  <2>1. IF ~n.known THEN UNCHANGED <<recv, upd, relay>>
        ELSE /\ Cross(r)
             /\ \E x \in X : IF SMP THEN Begin(r, x, old, None)
                             ELSE /\ recv' = [recv EXCEPT ![r] = [x EXCEPT !.waiting = FALSE]]
                                  /\ UNCHANGED upd
    BY DEF HandleResponse
  <2> HIDE DEF r, n, X, old
  <2>2. \A x : Begin(r, x, old, None) => recv' = [recv EXCEPT ![r] = x] /\ upd'.ogm = None
    BY DEF Begin
  <2> QED BY <2>1, <2>2
<1> HIDE DEF r
<1>4. Underway'
  <2>1. CASE UNCHANGED <<recv, upd, relay>>
    BY <1>1, <2>1, StillUnderway DEF TTInv, ownVars
  <2>2. CASE /\ Cross(r) /\ \E k : recv' = [recv EXCEPT ![r] = k]
             /\ upd' = upd \/ upd'.ogm = None
    <3>1. \A q \in Receivers : q # r => recv'[q] = recv[q]
      BY <1>2, <2>2
    <3> QED BY <1>1, <1>2, <2>2, <3>1, UnderwayAfter DEF TTInv
  <2> QED BY <1>3, <2>1, <2>2
<1> QED BY <1>1, <1>4, OwnStays

LEMMA NodeLossKeeps ==
  ASSUME TypeInv, TTInv, NEW r \in Receivers, RequestTimeout(r) \/ RouteLost(r) \/ OrigPurged(r)
  PROVE  TTInv'
<1>1. UNCHANGED <<ownVars, ogms, msgs>> /\ upd' = upd
  BY DEF RequestTimeout, RouteLost, OrigPurged
<1>2. recv \in [Receivers -> OrigNode]
  BY DEF TypeInv
<1>3. /\ \A q \in Receivers : q # r => recv'[q] = recv[q]
      /\ (relay' = relay /\ recv'[r].table = recv[r].table) \/ Cross(r)
  <2>1. CASE RequestTimeout(r)
    <3> DEFINE n == recv[r]
    <3>1. relay' = relay /\ recv' = [recv EXCEPT ![r] = [n EXCEPT !.waiting = FALSE]]
      BY <2>1 DEF RequestTimeout
    <3>2. [n EXCEPT !.waiting = FALSE].table = n.table
      BY <1>2 DEF OrigNode
    <3> QED BY <1>2, <3>1, <3>2
  <2>2. CASE RouteLost(r)
    BY <1>2, <2>2 DEF RouteLost
  <2>3. CASE OrigPurged(r)
    BY <1>2, <2>3 DEF OrigPurged
  <2> QED BY <2>1, <2>2, <2>3
<1>4. Underway'
  BY <1>1, <1>3, UnderwayAfter DEF TTInv
<1> QED BY <1>1, <1>4, OwnStays

\* The removal of a NEW client
LEMMA LeaveBeginsKeeps ==
  ASSUME TTInv, NEW c \in Hosts, LeaveBegins(c)
  PROVE  TTInv'
<1>1. /\ UNCHANGED <<local, changes, count, owed, vn, crc, commit, container, ogms, msgs, committed,
                     events>> /\ UNCHANGED <<gone, surplus, relay, upd, recv>>
  BY DEF LeaveBegins
<1>2. TTTyped' /\ Waiting' /\ Agreed'
  BY <1>1 DEF TTInv, TTTyped, Waiting, Agreed, Valid
<1>3. \A K \in Nat : Spent(K)' <=> Spent(K)
  BY <1>1 DEF Spent, Ago, One, Begun, Empties
<1>4. Carried'
  BY <1>1, CarriedStays DEF TTInv
<1>5. Underway'
  BY <1>1, StillUnderway DEF TTInv
<1> QED BY <1>2, <1>3, <1>4, <1>5 DEF TTInv

LEMMA LeaveEventKeeps ==
  ASSUME TypeInv, TTInv, LeaveEvent
  PROVE  TTInv'
<1>1. TypeInv' /\ Event /\ local' = local
  BY LeaveEventTyped DEF LeaveEvent
<1>2. changes' \in Seq(Change) /\ owed' \in -2..2
  BY <1>1 DEF TypeInv, OwnTyped
<1>3. local' \in UNION {[S -> Entry] : S \in SUBSET Addrs} /\ Valid' = Valid
  BY <1>1 DEF TTInv, TTTyped, Valid
<1> QED BY <1>1, <1>2, <1>3, EventRest

LEMMA LeaveHashKeeps ==
  ASSUME TypeInv, TTInv, LeaveHash
  PROVE  TTInv'
<1> DEFINE c == leave.ch.addr
           announced == c \in DOMAIN local /\ ~local[c].new
           more == IF announced THEN {c} ELSE {}
           g == gone[vn] \cup more
<1>1. /\ local' = [d \in DOMAIN local \ {c} |-> local[d]]
      /\ surplus' = surplus + (IF announced THEN 1 ELSE 0)
      /\ gone' = [gone EXCEPT ![vn] = g]
      /\ UNCHANGED <<changes, count, owed, vn, crc, commit, container, ogms, msgs, recv, relay, upd,
                     committed, events>>
  BY DEF LeaveHash, Restrict
<1>2. vn \in Vns /\ surplus \in Nat /\ gone \in [Vns -> SUBSET Addrs]
  BY DEF TypeInv, OwnTyped, SmpTyped
<1>3. local' \in UNION {[S -> Entry] : S \in SUBSET Addrs}
  <2>1. PICK S \in SUBSET Addrs : local \in [S -> Entry]
    BY DEF TTInv, TTTyped
  <2>2. local' \in [S \ {c} -> Entry] /\ S \ {c} \in SUBSET Addrs
    BY <1>1, <2>1
  <2> QED BY <2>2
<1>4. Valid' = Valid \ more
  BY <1>1 DEF Valid
<1>5. gone'[vn] = gone[vn] \cup more /\ \A v \in Vns : gone[v] \subseteq gone'[v]
  <2> HIDE DEF g
  <2>1. gone'[vn] = g /\ \A v \in Vns : v # vn => gone'[v] = gone[v]
    BY <1>1, <1>2
  <2> QED BY <2>1 DEF g
<1>6. surplus' = 0 => surplus = 0
  BY <1>1, <1>2
<1> HIDE DEF c, more, g
<1>7. TTTyped' /\ Waiting'
  BY <1>1, <1>3 DEF TTInv, TTTyped, Waiting
<1>8. \A K \in Nat : Spent(K)' <=> Spent(K)
  BY <1>1 DEF Spent, Ago, One, Begun, Empties
<1>9. Agreed'
  BY <1>1, <1>4, <1>5 DEF TTInv, Agreed
<1>10. (\A v, t : Known(v, t) => Known(v, t)') /\ (\A m : MsgFits(m) => MsgFits(m)')
  BY <1>1, <1>5, <1>6, FitsStill
<1>11. Carried'
  BY <1>1, <1>10 DEF TTInv, Carried
<1>12. Underway'
  BY <1>1, <1>10, UnderwayStays DEF TTInv
<1> QED BY <1>7, <1>8, <1>9, <1>11, <1>12 DEF TTInv

-----------------------------------------------------------------------------
(* The theorems                                                            *)

LEMMA TTInitKeeps == Init => TTInv
<1> SUFFICES ASSUME Init PROVE TTInv
  OBVIOUS
<1> DEFINE alone == [c \in {Mac} |-> FALSE]
           own == ChangeOf(Mac, FALSE, FALSE)
<1>1. /\ vn \in FirstVns
      /\ local = [c \in {Mac} |-> [new |-> vn = 0, pend |-> FALSE, wifi |-> FALSE]]
      /\ changes = (IF vn = 0 THEN <<own>> ELSE << >>) /\ count = Len(changes)
      /\ owed = 0 /\ commit = [step |-> "idle", n |-> 0]
      /\ crc = (IF vn = 0 THEN NoTable ELSE alone)
      /\ container = Container(<< >>)
      /\ committed = [v \in 0..(VnMod - 1) |-> IF v = vn THEN crc ELSE None]
      /\ ogms = {} /\ msgs = {} /\ events = 0
  BY DEF Init
<1>2. vn \in Vns /\ Mac \in Addrs
  BY <1>1, TTNumbers DEF Addrs
<1>3. /\ local \in UNION {[S -> Entry] : S \in SUBSET Addrs} /\ DOMAIN local = {Mac}
      /\ local[Mac].new = (vn = 0)
  <2> DEFINE e == [new |-> vn = 0, pend |-> FALSE, wifi |-> FALSE]
  <2>1. e \in Entry /\ e.new = (vn = 0)
    BY DEF Entry
  <2> HIDE DEF e
  <2>2. local = [c \in {Mac} |-> e]
    BY <1>1 DEF e
  <2>3. {Mac} \in SUBSET Addrs /\ local \in [{Mac} -> Entry]
    BY <1>2, <2>1, <2>2
  <2> QED BY <2>1, <2>2, <2>3
<1>4. NoTable \in Table /\ alone \in Table /\ DOMAIN NoTable = {} /\ DOMAIN alone = {Mac}
  <2>1. {} \in SUBSET Addrs /\ NoTable \in [{} -> BOOLEAN] /\ DOMAIN NoTable = {}
    BY DEF NoTable
  <2>2. {Mac} \in SUBSET Addrs /\ alone \in [{Mac} -> BOOLEAN]
    BY <1>2
  <2> QED BY <2>1, <2>2 DEF Table
<1>5. changes \in Seq(Change) /\ count \in {0, 1} /\ events \in 0..MaxEvents
  <2>1. own \in Change
    BY <1>2 DEF ChangeOf, Change
  <2> HIDE DEF own
  <2>2. <<own>> \in Seq(Change) /\ Len(<<own>>) = 1 /\ << >> \in Seq(Change) /\ Len(<< >>) = 0
    BY <2>1
  <2> QED BY <1>1, <2>2, TTNumbers
<1>6. crc \in Table /\ committed \in [Vns -> Table \cup {None}] /\ committed[vn] = crc
      /\ \A v \in Vns \ {vn} : committed[v] = None
  BY <1>1, <1>2, <1>4 DEF Vns
<1>7. TTTyped
  <2>1. commit \in [step : Steps, n : Int] /\ owed \in Int /\ count \in Int
    BY <1>1, <1>5 DEF Steps
  <2> QED BY <1>2, <1>3, <1>5, <1>6, <2>1 DEF TTTyped
<1>8. Waiting
  BY <1>1, <1>5 DEF Waiting
<1>9. Spent(0)
  <2>1. One(Begun) = 0 /\ One(owed > 0) = 0 /\ One(~Empties /\ count > 0) \in {0, 1}
    BY <1>1 DEF One, Begun
  <2>2. \A v \in Vns : Ago(v) > 0 => v # vn
    BY <1>2, TTNumbers DEF Ago, Vns
  <2>3. 0 + One(Begun) + One(owed > 0) + One(~Empties /\ count > 0) <= events + 1
    BY <1>1, <2>1
  <2>4. \A v \in Vns : Ago(v) > 0 => committed[v] = None
    BY <1>6, <2>2
  <2> QED BY <2>3, <2>4 DEF Spent
<1>12. relay = None /\ upd = None /\ gone[vn] = {}
  BY <1>2 DEF Init, Vns
<1>13. Underway
  BY <1>12 DEF Underway
<1>10. Agreed
  <2>1. Valid = (IF vn = 0 THEN {} ELSE {Mac})
    BY <1>3 DEF Valid
  <2> QED BY <1>1, <1>4, <1>12, <2>1 DEF Agreed
<1>11. Carried
  <2>1. Known(vn, crc)
    BY <1>2, <1>6 DEF Known
  <2>2. container.ttvn = vn /\ container.crc = crc
    BY <1>1 DEF Container
  <2> QED BY <1>1, <2>1, <2>2 DEF Carried
<1> QED BY <1>7, <1>8, <1>9, <1>10, <1>11, <1>13 DEF TTInv

LEMMA TTStepKeeps ==
  ASSUME TypeInv, TTInv, [Next]_vars, 2 * MaxEvents + 1 <= MaxDiff
  PROVE  TTInv'
<1>1. CASE ClientEvent
  BY <1>1, EventKeeps DEF ClientEvent
<1>2. CASE Account
  BY <1>2, AccountKeeps
<1>3. CASE Commit
  BY <1>3, CommitNothingKeeps, CommitFlagsKeeps, CommitPurgeKeeps, CommitCrcKeeps,
     CommitCountKeeps, CommitDrainKeeps DEF Commit
<1>4. CASE Answers \/ Finish
  BY <1>4, OwnAnswerKeeps, RelayAnswerKeeps, RelayCheckKeeps, RelayCopyKeeps, FinishKeeps
     DEF Answers
<1>5. CASE Lose
  <2>1. /\ UNCHANGED ownVars /\ (\A o \in ogms' : o \in ogms) /\ (\A m \in msgs' : m \in msgs)
        /\ UNCHANGED <<recv, relay, upd>>
    BY <1>5 DEF Lose
  <2>2. Underway'
    BY <2>1, StillUnderway DEF TTInv, ownVars
  <2> QED BY <2>1, <2>2, OwnStays
<1>6. ASSUME NEW m \in msgs, HandleResponse(m) PROVE TTInv'
  BY <1>6, HandleResponseKeeps
<1>7. ASSUME NEW r \in Receivers, RequestTimeout(r) \/ RouteLost(r) \/ OrigPurged(r)
      PROVE  TTInv'
  BY <1>7, NodeLossKeeps
<1>8. ASSUME NEW r \in Receivers, NEW o \in ogms, HandleOgm(r, o) PROVE TTInv'
  BY <1>8, HandleOgmKeeps
<1>9. CASE UNCHANGED vars
  <2>1. UNCHANGED <<ownVars, ogms, msgs, recv, relay, upd>>
    BY <1>9 DEF vars, ownVars
  <2>2. Underway'
    BY <2>1, StillUnderway DEF TTInv, ownVars
  <2> QED BY <2>1, <2>2, OwnStays
<1>10. CASE Leave
  BY <1>10, LeaveBeginsKeeps, LeaveEventKeeps, LeaveHashKeeps DEF Leave
<1> QED BY <1>1, <1>2, <1>3, <1>4, <1>5, <1>6, <1>7, <1>8, <1>9, <1>10 DEF Next

\* batadv_tt_local_commit_changes_nolock and batadv_send_my_tt_response hold the
\* commit lock, and nothing else is atomic on several CPUs: the invariant holds
\* whatever events and removals come between the steps of a commit, whatever
\* updates come between the steps of a relay and of another update, and whatever is
\* lost, repeated or answered by others.  The events of a behaviour fit one
\* container: a commit that leaves changes on the list would make the next one
\* without a new event, and the numbers come round.
THEOREM TTInvHolds ==
  ASSUME 2 * MaxEvents + 1 <= MaxDiff
  PROVE  Spec => []TTInv
<1>1. Init => TypeInv /\ TTInv
  BY InitTyped, TTInitKeeps
<1>2. TypeInv /\ TTInv /\ [Next]_vars => (TypeInv /\ TTInv)'
  BY StepKeepsTypes, TTStepKeeps
<1> QED BY <1>1, <1>2, PTL DEF Spec

\* batadv_send_my_tt_response and batadv_send_other_tt_response never send, under
\* a version number, a table other than the one committed with that number, but
\* for the three races of several CPUs: a client removed while a commit announces
\* it, the entries that then end the originator's table, and a relay's table that
\* is changed while it is copied.
THEOREM FullTablesAreCommitted ==
  ASSUME 2 * MaxEvents + 1 <= MaxDiff
  PROVE  Spec => []FullIsCommitted
<1>1. TTInv => FullIsCommitted
  BY DEF TTInv, Carried, MsgFits, FullFits, FullIsCommitted
<1> QED BY <1>1, TTInvHolds, PTL

\* On nodes with one CPU there is no exception.
Exactly ==
  \A m \in msgs : m.type = "response" /\ m.full =>
    /\ committed[m.ttvn] # None
    /\ {m.changes[i].addr : i \in 1..Len(m.changes)} = DOMAIN committed[m.ttvn]

\* batadv_send_my_tt_response, batadv_send_other_tt_response: when bottom halves
\* that are disabled keep every handler in one piece, a full table names exactly
\* the clients of the version it carries.
THEOREM FullTablesAreExact ==
  ASSUME 2 * MaxEvents + 1 <= MaxDiff, ~SMP
  PROVE  Spec => []Exactly
<1>1. TypeInv /\ TTInv => Exactly
  <2> SUFFICES ASSUME TypeInv, TTInv, NEW m \in msgs, m.type = "response", m.full
               PROVE  /\ committed[m.ttvn] # None
                      /\ {m.changes[i].addr : i \in 1..Len(m.changes)} = DOMAIN committed[m.ttvn]
    BY DEF Exactly
  <2>1. MsgTyped(m) /\ surplus = 0 /\ \A v \in Vns : gone[v] = {}
    BY DEF TypeInv, NetTyped, SmpTyped
  <2>2. FullFits(m)
    BY <2>1 DEF TTInv, Carried, MsgFits, MsgTyped
  <2> QED BY <2>1, <2>2 DEF FullFits
<1>2. Init => TypeInv /\ TTInv
  BY InitTyped, TTInitKeeps
<1>3. TypeInv /\ TTInv /\ [Next]_vars => (TypeInv /\ TTInv)'
  BY StepKeepsTypes, TTStepKeeps
<1> QED BY <1>1, <1>2, <1>3, PTL DEF Spec

-----------------------------------------------------------------------------
(***************************************************************************)
(* No change is forgotten (TTIsConsistent)                                 *)
(***************************************************************************)
\* What a list of changes says of the client c
Nowhere(list, c) == \A i \in 1..Len(list) : list[i].addr # c
AddOnly(list, c) ==
  \E i \in 1..Len(list) :
    /\ list[i].addr = c /\ ~list[i].del
    /\ \A j \in 1..Len(list) : list[j].addr = c => j = i
DelsOnly(list, c) == \A i \in 1..Len(list) : list[i].addr = c => list[i].del
Leaving(list, c) == \E i \in 1..Len(list) : list[i].addr = c /\ list[i].del

\* Between two commits a client that is not announced yet has one change on the
\* list, and one that goes is there to go.
Told(c) ==
  /\ c \notin DOMAIN local => c \notin DOMAIN crc /\ Nowhere(changes, c)
  /\ c \in DOMAIN local /\ local[c].new =>
       ~local[c].pend /\ c \notin DOMAIN crc /\ AddOnly(changes, c)
  /\ c \in DOMAIN local /\ ~local[c].new =>
       /\ c \in DOMAIN crc /\ DelsOnly(changes, c)
       /\ local[c].pend => Leaving(changes, c)

\* All is announced.
Clean == DOMAIN local = DOMAIN crc /\ \A c \in DOMAIN local : ~local[c].new /\ ~local[c].pend

\* Where a commit is
Committing ==
  /\ commit.step # "idle" => owed = 0
  /\ commit.step \in {"purge", "crc"} => count >= 1 /\ \A c \in DOMAIN local : ~local[c].new
  /\ commit.step = "crc" => \A c \in DOMAIN local : ~local[c].pend
  /\ commit.step \in {"count", "drain"} => Clean
  /\ commit.step = "drain" => commit.n = count

ListInv ==
  /\ count + owed = Len(changes) /\ Len(changes) <= events + 1 /\ events \in 0..MaxEvents
  /\ Committing
  /\ commit.step = "idle" => \A c \in Addrs : Told(c)
  /\ \A c \in DOMAIN local \cap Hosts : local[c].wifi \in Wifis

-----------------------------------------------------------------------------
(* The list of changes *)

\* The same client, and the same kind of change
Like(a, b) == a.addr = b.addr /\ a.del = b.del

Longer(list, ch, q) ==
  /\ \A i \in 1..Len(list) : list[i].addr = ch.addr => list[i].del = ch.del
  /\ Len(q) = Len(list) + 1 /\ q[Len(list) + 1] = ch
  /\ \A i \in 1..Len(list) : Like(q[i], list[i])

\* The f-th change is of the opposite kind, and goes.
Shorter(list, ch, q, f) ==
  /\ f \in 1..Len(list) /\ list[f].addr = ch.addr /\ list[f].del # ch.del
  /\ Len(q) = Len(list) - 1
  /\ \A i \in 1..Len(q) : Like(q[i], list[IF i < f THEN i ELSE i + 1])

LEMMA QueuedShape ==
  ASSUME NEW list \in Seq(Change), NEW ch \in Change
  PROVE  \/ Longer(list, ch, Queued(list, ch))
         \/ \E f \in 1..Len(list) : Shorter(list, ch, Queued(list, ch), f)
<1> DEFINE n == Len(list)
           same == {i \in 1..n : list[i].addr = ch.addr}
           opposite == {i \in same : list[i].del # ch.del}
           first == CHOOSE i \in opposite : \A j \in opposite : i <= j
           flagged == [i \in 1..n |->
                         IF /\ i \in same /\ ~ch.del /\ ~list[i].del
                            /\ \A j \in opposite : i < j
                         THEN ch ELSE list[i]]
           q == Queued(list, ch)
<1>1. q = IF opposite = {} THEN Append(flagged, ch) ELSE RemoveAt(flagged, first)
  BY DEF Queued
<1>2. n \in Nat /\ \A i \in 1..n : list[i] \in Change
  OBVIOUS
<1>3. \A i \in 1..n : list[i].del \in BOOLEAN
  BY <1>2 DEF Change
<1>4. ch.del \in BOOLEAN
  BY DEF Change
<1>5. \A i \in 1..n : Like(flagged[i], list[i])
  BY <1>3, <1>4 DEF Like
<1>6. flagged \in Seq(Change) /\ Len(flagged) = n
  <2>1. flagged \in [1..n -> Change]
    BY <1>2
  <2> QED BY <1>2, <2>1
<1>7. opposite # {} => first \in opposite
  <2>1. opposite \in SUBSET Nat
    OBVIOUS
  <2>2. opposite # {} => \E i \in opposite : \A j \in opposite : i <= j
    BY <2>1, SmallestNumber
  <2> QED BY <2>2
<1>8. \A i : i \in opposite <=> i \in 1..n /\ list[i].addr = ch.addr /\ list[i].del # ch.del
  OBVIOUS
<1> HIDE DEF n, same, opposite, first, flagged, q
<1>9. CASE opposite = {}
  <2>1. q = Append(flagged, ch)
    BY <1>1, <1>9
  <2>2. Len(q) = n + 1 /\ q[n + 1] = ch /\ \A i \in 1..n : q[i] = flagged[i]
    BY <1>2, <1>6, <2>1
  <2>3. \A i \in 1..n : list[i].addr = ch.addr => list[i].del = ch.del
    BY <1>8, <1>9
  <2>4. \A i \in 1..n : Like(q[i], list[i])
    BY <1>5, <2>2
  <2> QED BY <2>2, <2>3, <2>4 DEF Longer, n, q
<1>10. CASE opposite # {}
  <2> DEFINE a == SubSeq(flagged, 1, first - 1)
             b == SubSeq(flagged, first + 1, n)
  <2>1. first \in Nat /\ first >= 1 /\ first <= n /\ first \in 1..n
        /\ list[first].addr = ch.addr /\ list[first].del # ch.del
    BY <1>2, <1>7, <1>8, <1>10
  <2>2. a \in Seq(Change) /\ Len(a) = first - 1 /\ \A i \in 1..(first - 1) : a[i] = flagged[i]
    BY <1>2, <1>6, <2>1, SubSeqProperties
  <2>3. /\ b \in Seq(Change) /\ Len(b) = n - first
        /\ \A i \in 1..(n - first) : b[i] = flagged[first + i]
    <3>1. Len(b) = n - first /\ b \in Seq(Change)
      BY <1>2, <1>6, <2>1, SubSeqProperties
    <3>2. \A i \in 1..(n - first) : b[i] = flagged[first + i]
      <4> TAKE i \in 1..(n - first)
      <4>1. b[i] = flagged[first + 1 + i - 1]
        BY <1>2, <1>6, <2>1, SubSeqProperties
      <4>2. first + 1 + i - 1 = first + i
        BY <1>2, <2>1
      <4> QED BY <4>1, <4>2
    <3> QED BY <3>1, <3>2
  <2>4. q = a \o b
    BY <1>1, <1>6, <1>10 DEF RemoveAt
  <2> HIDE DEF a, b
  <2>5. Len(q) = n - 1
    <3>0. a \in Seq(Change) /\ b \in Seq(Change)
      BY <2>2, <2>3
    <3>1. Len(a \o b) = Len(a) + Len(b)
      BY <3>0
    <3> QED BY <1>2, <2>1, <2>2, <2>3, <2>4, <3>1
  <2>6. \A i \in 1..(n - 1) : q[i] = IF i < first THEN flagged[i] ELSE flagged[i + 1]
    <3> TAKE i \in 1..(n - 1)
    <3>1. CASE i < first
      <4>1. i \in 1..Len(a)
        BY <1>2, <2>1, <2>2, <3>1
      <4>2. q[i] = a[i]
        BY <2>2, <2>3, <2>4, <4>1
      <4> QED BY <2>2, <3>1, <4>1, <4>2
    <3>2. CASE ~(i < first)
      <4>1. i - Len(a) \in 1..(n - first) /\ first + (i - Len(a)) = i + 1 /\ i > Len(a) /\ i <= Len(a) + Len(b)
        <5> DEFINE la == Len(a)
                   lb == Len(b)
        <5>1. la = first - 1 /\ lb = n - first /\ i \in Nat /\ i <= n - 1
          BY <1>2, <2>1, <2>2, <2>3
        <5> HIDE DEF la, lb, a, b, q
        <5>2. i - la \in 1..(n - first) /\ first + (i - la) = i + 1 /\ i > la /\ i <= la + lb
          BY <1>2, <2>1, <3>2, <5>1
        <5> QED BY <5>2 DEF la, lb
      <4>2. q[i] = b[i - Len(a)]
        BY <1>2, <2>2, <2>3, <2>4, <4>1
      <4> QED BY <2>3, <3>2, <4>1, <4>2
    <3> QED BY <3>1, <3>2
  <2>7. \A i \in 1..(n - 1) : (i < first => i \in 1..n) /\ i + 1 \in 1..n
    BY <1>2, <2>1
  <2>8. \A i \in 1..Len(q) : Like(q[i], list[IF i < first THEN i ELSE i + 1])
    BY <1>5, <2>5, <2>6, <2>7
  <2>9. Shorter(list, ch, q, first)
    BY <2>1, <2>5, <2>8 DEF Shorter, n
  <2> QED BY <2>1, <2>9 DEF n, q
<1> QED BY <1>9, <1>10

\* What the list says of other clients stays.
LEMMA OthersStay ==
  ASSUME NEW list \in Seq(Change), NEW ch \in Change, NEW d, d # ch.addr
  PROVE  /\ Nowhere(list, d) => Nowhere(Queued(list, ch), d)
         /\ AddOnly(list, d) => AddOnly(Queued(list, ch), d)
         /\ DelsOnly(list, d) => DelsOnly(Queued(list, ch), d)
         /\ Leaving(list, d) => Leaving(Queued(list, ch), d)
<1> DEFINE n == Len(list)
           q == Queued(list, ch)
<1>1. n \in Nat
  OBVIOUS
<1>2. Longer(list, ch, q) \/ \E f \in 1..n : Shorter(list, ch, q, f)
  BY QueuedShape
<1>3. CASE Longer(list, ch, q)
  <2>1. Len(q) = n + 1 /\ q[n + 1] = ch /\ \A i \in 1..n : Like(q[i], list[i])
    BY <1>3 DEF Longer
  <2> HIDE DEF q, n
  <2>2. \A i \in 1..Len(q) : i \in 1..n \/ i = n + 1
    BY <1>1, <2>1
  <2>3. \A i \in 1..n : i \in 1..Len(q)
    BY <1>1, <2>1
  <2>4. \A i \in 1..Len(q) : q[i].addr = d => i \in 1..n
    BY <2>1, <2>2
  <2> QED BY <2>1, <2>3, <2>4 DEF Nowhere, AddOnly, DelsOnly, Leaving, Like, q, n
<1>4. ASSUME NEW f \in 1..n, Shorter(list, ch, q, f)
      PROVE  /\ Nowhere(list, d) => Nowhere(q, d)
             /\ AddOnly(list, d) => AddOnly(q, d)
             /\ DelsOnly(list, d) => DelsOnly(q, d)
             /\ Leaving(list, d) => Leaving(q, d)
  <2> DEFINE g(i) == IF i < f THEN i ELSE i + 1
             h(i) == IF i < f THEN i ELSE i - 1
  <2>1. list[f].addr = ch.addr /\ Len(q) = n - 1 /\ \A i \in 1..Len(q) : Like(q[i], list[g(i)])
    BY <1>4 DEF Shorter
  <2> HIDE DEF q, n
  <2>2. \A i \in 1..Len(q) : g(i) \in 1..n /\ h(g(i)) = i
    BY <1>1, <2>1
  <2>3. \A i \in 1..n : i # f => h(i) \in 1..Len(q) /\ g(h(i)) = i
    BY <1>1, <2>1
  <2> HIDE DEF g, h
  <2>4. \A i \in 1..n : list[i].addr = d => h(i) \in 1..Len(q) /\ Like(q[h(i)], list[i])
    BY <2>1, <2>3
  <2>5. Nowhere(list, d) => Nowhere(q, d)
    BY <2>1, <2>2 DEF Nowhere, Like, n
  <2>6. DelsOnly(list, d) => DelsOnly(q, d)
    BY <2>1, <2>2 DEF DelsOnly, Like, n
  <2>7. Leaving(list, d) => Leaving(q, d)
    BY <2>4 DEF Leaving, Like, n
  <2>8. ASSUME AddOnly(list, d) PROVE AddOnly(q, d)
    <3>1. PICK i \in 1..n : /\ list[i].addr = d /\ ~list[i].del
                            /\ \A j \in 1..n : list[j].addr = d => j = i
      BY <2>8 DEF AddOnly, n
    <3>2. h(i) \in 1..Len(q) /\ q[h(i)].addr = d /\ ~q[h(i)].del
      BY <2>4, <3>1 DEF Like
    <3>3. \A j \in 1..Len(q) : q[j].addr = d => j = h(i)
      <4> SUFFICES ASSUME NEW j \in 1..Len(q), q[j].addr = d PROVE j = h(i)
        OBVIOUS
      <4>1. list[g(j)].addr = d
        BY <2>1 DEF Like
      <4>2. g(j) = i
        BY <2>2, <3>1, <4>1
      <4> QED BY <2>2, <4>2
    <3> QED BY <3>2, <3>3 DEF AddOnly
  <2> QED BY <2>5, <2>6, <2>7, <2>8
<1> QED BY <1>2, <1>3, <1>4

\* What the list says of the client of a change
LEMMA OwnChange ==
  ASSUME NEW list \in Seq(Change), NEW ch \in Change
  PROVE  LET q == Queued(list, ch)
             c == ch.addr
         IN  /\ ~ch.del /\ Nowhere(list, c) => AddOnly(q, c)
             /\ ~ch.del /\ DelsOnly(list, c) /\ Leaving(list, c) => DelsOnly(q, c)
             /\ ch.del /\ AddOnly(list, c) => Nowhere(q, c)
             /\ ch.del /\ DelsOnly(list, c) => DelsOnly(q, c) /\ Leaving(q, c)
<1> DEFINE n == Len(list)
           q == Queued(list, ch)
           c == ch.addr
<1> SUFFICES /\ ~ch.del /\ Nowhere(list, c) => AddOnly(q, c)
             /\ ~ch.del /\ DelsOnly(list, c) /\ Leaving(list, c) => DelsOnly(q, c)
             /\ ch.del /\ AddOnly(list, c) => Nowhere(q, c)
             /\ ch.del /\ DelsOnly(list, c) => DelsOnly(q, c) /\ Leaving(q, c)
  OBVIOUS
<1>1. n \in Nat /\ ch.del \in BOOLEAN /\ \A i \in 1..n : list[i].del \in BOOLEAN
  <2>1. \A i \in 1..n : list[i] \in Change
    OBVIOUS
  <2> QED BY <2>1 DEF Change
<1>2. Longer(list, ch, q) \/ \E f \in 1..n : Shorter(list, ch, q, f)
  BY QueuedShape
<1>3. CASE Longer(list, ch, q)
  <2>1. /\ Len(q) = n + 1 /\ q[n + 1] = ch /\ \A i \in 1..n : Like(q[i], list[i])
        /\ \A i \in 1..n : list[i].addr = c => list[i].del = ch.del
    BY <1>3 DEF Longer
  <2> HIDE DEF q, n
  <2>2. \A i \in 1..Len(q) : i \in 1..n \/ i = n + 1
    BY <1>1, <2>1
  <2>3. n + 1 \in 1..Len(q)
    BY <1>1, <2>1
  <2>4. \A i \in 1..Len(q) : i # n + 1 => Like(q[i], list[i]) /\ i \in 1..n
    BY <2>1, <2>2
  <2>5. ~ch.del /\ Nowhere(list, c) => AddOnly(q, c)
    <3> SUFFICES ASSUME ~ch.del, Nowhere(list, c) PROVE AddOnly(q, c)
      OBVIOUS
    <3>1. \A i \in 1..Len(q) : i # n + 1 => q[i].addr # c
      BY <2>4 DEF Nowhere, Like, n
    <3> QED BY <2>1, <2>3, <3>1 DEF AddOnly
  <2>6. ~(~ch.del /\ DelsOnly(list, c) /\ Leaving(list, c))
    BY <2>1 DEF DelsOnly, Leaving, n
  <2>7. ~(ch.del /\ AddOnly(list, c))
    BY <2>1 DEF AddOnly, n
  <2>8. ch.del /\ DelsOnly(list, c) => DelsOnly(q, c) /\ Leaving(q, c)
    <3> SUFFICES ASSUME ch.del, DelsOnly(list, c) PROVE DelsOnly(q, c) /\ Leaving(q, c)
      OBVIOUS
    <3>1. \A i \in 1..Len(q) : q[i].addr = c => q[i].del
      BY <2>1, <2>4 DEF DelsOnly, Like, n
    <3> QED BY <2>1, <2>3, <3>1 DEF DelsOnly, Leaving
  <2> QED BY <2>5, <2>6, <2>7, <2>8
<1>4. ASSUME NEW f \in 1..n, Shorter(list, ch, q, f)
      PROVE  /\ ~(~ch.del /\ Nowhere(list, c))
             /\ DelsOnly(list, c) => DelsOnly(q, c)
             /\ AddOnly(list, c) => Nowhere(q, c)
             /\ ~(ch.del /\ DelsOnly(list, c))
  <2> DEFINE g(i) == IF i < f THEN i ELSE i + 1
  <2>1. /\ list[f].addr = c /\ list[f].del # ch.del /\ Len(q) = n - 1
        /\ \A i \in 1..Len(q) : Like(q[i], list[g(i)])
    BY <1>4 DEF Shorter
  <2> HIDE DEF q, n
  <2>2. \A i \in 1..Len(q) : g(i) \in 1..n /\ g(i) # f
    BY <1>1, <2>1
  <2> HIDE DEF g
  <2>3. ~Nowhere(list, c)
    BY <2>1 DEF Nowhere, n
  <2>4. DelsOnly(list, c) => DelsOnly(q, c)
    BY <2>1, <2>2 DEF DelsOnly, Like, n
  <2>5. AddOnly(list, c) => Nowhere(q, c)
    <3> SUFFICES ASSUME AddOnly(list, c), NEW i \in 1..Len(q), q[i].addr = c PROVE FALSE
      BY DEF Nowhere
    <3>1. list[g(i)].addr = c /\ g(i) \in 1..n /\ g(i) # f
      BY <2>1, <2>2 DEF Like
    <3> QED BY <2>1, <3>1 DEF AddOnly, n
  <2>6. ~(ch.del /\ DelsOnly(list, c))
    BY <1>1, <2>1 DEF DelsOnly, n
  <2> QED BY <2>3, <2>4, <2>5, <2>6
<1> HIDE DEF q, c
<1> QED BY <1>2, <1>3, <1>4

-----------------------------------------------------------------------------
(* Client events *)

\* One CPU, allocations that succeed, an interval shorter than the time a client
\* is remembered, one kind of client, and changes that fit a container.  TLC finds
\* a change that is forgotten when any one of the five is left out.
Undisturbed ==
  /\ ~SMP /\ ~AllocFails /\ ~LongInterval
  /\ \A v, w \in Wifis : v = w
  /\ MaxEvents + 1 <= MaxDiff

LEMMA ListNumbers ==
  ASSUME TypeInv
  PROVE  /\ local \in UNION {[S -> Entry] : S \in SUBSET Addrs} /\ DOMAIN local \subseteq Owned
         /\ local = [c \in DOMAIN local |-> local[c]]
         /\ \A c \in DOMAIN local : local[c] \in Entry
         /\ changes \in Seq(Change) /\ Len(changes) \in Nat /\ count \in Int /\ owed \in Int
         /\ commit \in [step : Steps, n : Int]
<1>1. /\ local \in UNION {[S -> Entry] : S \in SUBSET Owned} /\ changes \in Seq(Change)
      /\ count \in Int /\ owed \in -2..2 /\ commit \in [step : Steps, n : Int]
  BY DEF TypeInv, OwnTyped
<1>2. local \in UNION {[S -> Entry] : S \in SUBSET Addrs} /\ DOMAIN local \subseteq Owned
  BY <1>1, OwnedAddrs
<1>3. Len(changes) \in Nat /\ owed \in Int
  BY <1>1
<1> QED BY <1>1, <1>2, <1>3, TableTyped

\* A change of client c is queued, which leaves the others alone.
LEMMA OneEvent ==
  ASSUME TypeInv, ListInv, NEW c \in Hosts, NEW ch \in Change, ch.addr = c,
         Event, commit.step = "idle",
         changes' = Queued(changes, ch), owed' = Len(changes') - Len(changes),
         \A d : d # c => (d \in DOMAIN local' <=> d \in DOMAIN local),
         \A d \in DOMAIN local : d # c => local'[d] = local[d],
         c \in DOMAIN local' => local'[c].wifi \in Wifis,
         Told(c)'
  PROVE  ListInv'
<1>1. /\ owed = 0 /\ events' = events + 1 /\ events < MaxEvents
      /\ UNCHANGED <<count, crc, commit>>
  BY DEF Event
<1>2. /\ changes \in Seq(Change) /\ Len(changes) \in Nat /\ count \in Int
  BY ListNumbers
<1>3. changes' \in Seq(Change) /\ Len(changes') <= Len(changes) + 1 /\ Len(changes') \in Nat
  <2>1. Queued(changes, ch) \in Seq(Change) /\ Len(Queued(changes, ch)) <= Len(changes) + 1
    BY <1>2, QueuedIs
  <2> QED BY <2>1
<1>4. /\ count + owed = Len(changes) /\ Len(changes) <= events + 1 /\ events \in 0..MaxEvents
      /\ \A d \in Addrs : Told(d)
      /\ \A d \in DOMAIN local \cap Hosts : local[d].wifi \in Wifis
  BY DEF ListInv
<1>5. /\ count' + owed' = Len(changes') /\ Len(changes') <= events' + 1 /\ events' \in 0..MaxEvents
  BY <1>1, <1>2, <1>3, <1>4, TTNumbers
<1>6. Committing'
  BY <1>1 DEF Committing
<1>7. ASSUME NEW d \in Addrs PROVE Told(d)'
  <2>1. CASE d = c
    BY <2>1
  <2>2. CASE d # c
    <3>1. /\ Nowhere(changes, d) => Nowhere(changes', d)
          /\ AddOnly(changes, d) => AddOnly(changes', d)
          /\ DelsOnly(changes, d) => DelsOnly(changes', d)
          /\ Leaving(changes, d) => Leaving(changes', d)
      BY <1>2, <2>2, OthersStay
    <3>2. (d \in DOMAIN local' <=> d \in DOMAIN local) /\ (d \in DOMAIN local => local'[d] = local[d])
      BY <2>2
    <3>3. Told(d) /\ crc' = crc
      BY <1>1, <1>4
    <3> QED BY <3>1, <3>2, <3>3 DEF Told
  <2> QED BY <2>1, <2>2
<1>8. ASSUME NEW d \in DOMAIN local' \cap Hosts PROVE local'[d].wifi \in Wifis
  BY <1>4
<1> QED BY <1>5, <1>6, <1>7, <1>8 DEF ListInv

LEMMA OneStored ==
  ASSUME Undisturbed, NEW ch, Events(<<ch>>)
  PROVE  changes' = Queued(changes, ch) /\ owed' = Len(changes') - Len(changes)
<1> DEFINE chs == <<ch>>
<1>1. chs # << >> /\ Len(chs) = 1 /\ chs[1] = ch
  OBVIOUS
<1> HIDE DEF chs
<1>2. PICK st \in Stored(chs) : changes' = AllQueued(changes, st) /\ owed' = Len(changes') - Len(changes)
  BY DEF Events, chs
<1>3. st = chs
  BY <1>2 DEF Stored, Undisturbed
<1>4. AllQueued(changes, chs) = Queued(changes, ch)
  BY <1>1 DEF AllQueued
<1> QED BY <1>2, <1>3, <1>4

LEMMA ToldOf ==
  ASSUME NEW c, Told(c)
  PROVE  /\ c \notin DOMAIN local => c \notin DOMAIN crc /\ Nowhere(changes, c)
         /\ c \in DOMAIN local /\ local[c].new =>
              ~local[c].pend /\ c \notin DOMAIN crc /\ AddOnly(changes, c)
         /\ c \in DOMAIN local /\ ~local[c].new =>
              /\ c \in DOMAIN crc /\ DelsOnly(changes, c)
              /\ local[c].pend => Leaving(changes, c)
BY DEF Told

LEMMA LeaveListed ==
  ASSUME Undisturbed, TypeInv, ListInv, NEW c \in Hosts, LocalPurge(c) \/ LocalRemove(c)
  PROVE  ListInv'
<1> DEFINE e == local[c]
           ch == ChangeOf(c, TRUE, e.wifi)
           left == [e EXCEPT !.pend = TRUE]
<1>1. Event /\ commit.step = "idle" /\ c \in DOMAIN local /\ crc' = crc /\ Events(<<ch>>)
  BY DEF LocalPurge, LocalRemove, Event, Undisturbed
<1>2. /\ local = [d \in DOMAIN local |-> local[d]] /\ e \in Entry /\ c \in Addrs
      /\ changes \in Seq(Change)
  BY <1>1, ListNumbers DEF Addrs
<1>3. ch \in Change /\ ch.addr = c /\ ch.del
  BY <1>2 DEF ChangeOf, Change, Entry
<1>4. left.new = e.new /\ left.pend /\ left.wifi = e.wifi /\ e.new \in BOOLEAN
  BY <1>2 DEF Entry
<1>5. changes' = Queued(changes, ch) /\ owed' = Len(changes') - Len(changes)
  BY <1>1, OneStored
<1>6. Told(c) /\ e.wifi \in Wifis
  BY <1>1, <1>2 DEF ListInv
<1> HIDE DEF ch, left
<1>7. CASE LocalRemove(c) /\ e.new
  <2>1. local' = [d \in DOMAIN local \ {c} |-> local[d]]
    BY <1>7 DEF LocalRemove, Restrict
  <2>2. Nowhere(changes', c) /\ c \notin DOMAIN crc'
    <3>1. AddOnly(changes, c) /\ c \notin DOMAIN crc
      BY <1>1, <1>6, <1>7, ToldOf
    <3> QED BY <1>1, <1>2, <1>3, <1>5, <3>1, OwnChange
  <2>3. Told(c)'
    BY <2>1, <2>2 DEF Told
  <2>4. /\ \A d : d # c => (d \in DOMAIN local' <=> d \in DOMAIN local)
        /\ \A d \in DOMAIN local : d # c => local'[d] = local[d]
        /\ c \notin DOMAIN local'
    BY <2>1
  <2> QED BY <1>1, <1>3, <1>5, <2>3, <2>4, OneEvent
<1>8. CASE LocalPurge(c) \/ (LocalRemove(c) /\ ~e.new)
  <2>1. local' = [local EXCEPT ![c] = left] /\ ~e.new
    <3>1. CASE LocalPurge(c)
      BY <3>1 DEF LocalPurge, Undisturbed, left
    <3>2. CASE LocalRemove(c) /\ ~e.new
      BY <3>2 DEF LocalRemove, left
    <3> QED BY <1>8, <3>1, <3>2
  <2>2. /\ DOMAIN local' = DOMAIN local /\ local'[c] = left
        /\ \A d \in DOMAIN local : d # c => local'[d] = local[d]
    BY <1>1, <1>2, <2>1
  <2>3. DelsOnly(changes', c) /\ Leaving(changes', c) /\ c \in DOMAIN crc'
    <3>1. DelsOnly(changes, c) /\ c \in DOMAIN crc
      BY <1>1, <1>6, <2>1, ToldOf
    <3> QED BY <1>1, <1>2, <1>3, <1>5, <3>1, OwnChange
  <2>4. Told(c)'
    BY <1>1, <1>4, <2>1, <2>2, <2>3 DEF Told
  <2>5. local'[c].wifi \in Wifis
    BY <1>4, <1>6, <2>2
  <2> QED BY <1>1, <1>3, <1>5, <2>2, <2>4, <2>5, OneEvent
<1> QED BY <1>7, <1>8

LEMMA AddListed ==
  ASSUME Undisturbed, TypeInv, ListInv, NEW c \in Hosts, NEW w \in Wifis, LocalAdd(c, w)
  PROVE  ListInv'
<1> DEFINE ch == ChangeOf(c, FALSE, w)
<1>1. Event /\ commit.step = "idle" /\ crc' = crc
  BY DEF LocalAdd, Event, Undisturbed
<1>2. /\ local = [d \in DOMAIN local |-> local[d]] /\ \A d \in DOMAIN local : local[d] \in Entry
      /\ c \in Addrs /\ w \in BOOLEAN /\ changes \in Seq(Change) /\ Told(c)
  BY <1>1, ListNumbers, TTNumbers DEF Addrs, ListInv
<1>3. ch \in Change /\ ch.addr = c /\ ~ch.del
  BY <1>2 DEF ChangeOf, Change
<1>4. CASE c \notin DOMAIN local
  <2> DEFINE e == [new |-> TRUE, pend |-> FALSE, wifi |-> w]
  <2>1. /\ local' = [d \in {c} \cup DOMAIN local |-> IF d = c THEN e ELSE local[d]]
        /\ Events(<<ch>>)
    BY <1>4 DEF LocalAdd
  <2>2. e.new /\ ~e.pend /\ e.wifi = w
    OBVIOUS
  <2> HIDE DEF ch, e
  <2>3. changes' = Queued(changes, ch) /\ owed' = Len(changes') - Len(changes)
    BY <2>1, OneStored
  <2>4. AddOnly(changes', c) /\ c \notin DOMAIN crc'
    <3>1. Nowhere(changes, c) /\ c \notin DOMAIN crc
      BY <1>2, <1>4, ToldOf
    <3> QED BY <1>1, <1>2, <1>3, <2>3, <3>1, OwnChange
  <2>5. /\ \A d : d # c => (d \in DOMAIN local' <=> d \in DOMAIN local)
        /\ \A d \in DOMAIN local : d # c => local'[d] = local[d]
        /\ c \in DOMAIN local' /\ local'[c] = e
    BY <2>1
  <2>6. Told(c)' /\ local'[c].wifi \in Wifis
    BY <2>2, <2>4, <2>5 DEF Told
  <2> QED BY <1>1, <1>3, <2>3, <2>5, <2>6, OneEvent
<1>5. CASE c \in DOMAIN local
  <2> DEFINE e == local[c]
             again == IF e.pend THEN <<ChangeOf(c, FALSE, e.wifi)>> ELSE << >>
             flags == IF e.wifi # w THEN <<ch>> ELSE << >>
             back == [e EXCEPT !.pend = FALSE, !.wifi = w]
  <2>1. local' = [local EXCEPT ![c] = back] /\ again \o flags # << >> /\ Events(again \o flags)
    BY <1>5 DEF LocalAdd
  <2>2. e \in Entry /\ e.wifi = w
    BY <1>2, <1>5 DEF ListInv, Undisturbed
  <2>3. again \o flags = again
    <3>1. flags = << >>
      BY <2>2
    <3>2. << >> \o << >> = << >>
      OBVIOUS
    <3>3. <<ch>> \o << >> = <<ch>>
      <4> HIDE DEF ch
      <4>1. <<ch>> \in Seq({ch})
        OBVIOUS
      <4> QED BY <4>1, ConcatEmptySeq
    <3>4. again = << >> \/ again = <<ch>>
      BY <2>2
    <3> HIDE DEF again, flags, ch
    <3> QED BY <3>1, <3>2, <3>3, <3>4
  <2>4. e.pend /\ again = <<ch>>
    BY <2>1, <2>2, <2>3
  <2>5. back.new = e.new /\ ~back.pend /\ back.wifi = w
    BY <2>2 DEF Entry
  <2> HIDE DEF ch, again, flags, back
  <2>6. changes' = Queued(changes, ch) /\ owed' = Len(changes') - Len(changes)
    BY <2>1, <2>3, <2>4, OneStored
  <2>7. ~e.new /\ c \in DOMAIN crc /\ DelsOnly(changes, c) /\ Leaving(changes, c)
    BY <1>2, <1>5, <2>4, ToldOf
  <2>8. DelsOnly(changes', c) /\ c \in DOMAIN crc'
    BY <1>1, <1>2, <1>3, <2>6, <2>7, OwnChange
  <2>9. /\ DOMAIN local' = DOMAIN local /\ local'[c] = back
        /\ \A d \in DOMAIN local : d # c => local'[d] = local[d]
    BY <1>2, <1>5, <2>1
  <2>10. Told(c)' /\ local'[c].wifi \in Wifis
    BY <1>5, <2>5, <2>7, <2>8, <2>9 DEF Told
  <2> QED BY <1>1, <1>3, <2>6, <2>9, <2>10, OneEvent
<1> QED BY <1>4, <1>5

-----------------------------------------------------------------------------
(* The commit *)

LEMMA ListFacts ==
  ASSUME ListInv
  PROVE  /\ count + owed = Len(changes) /\ Len(changes) <= events + 1 /\ events \in 0..MaxEvents
         /\ Committing
         /\ commit.step = "idle" => \A c \in Addrs : Told(c)
         /\ \A c \in DOMAIN local \cap Hosts : local[c].wifi \in Wifis
BY DEF ListInv

LEMMA EmptyIsClean ==
  ASSUME TypeInv, ListInv, commit.step = "idle", Len(changes) = 0
  PROVE  Clean
<1>1. DOMAIN crc \subseteq Addrs /\ DOMAIN local \subseteq Addrs /\ \A c \in Addrs : Told(c)
  BY ListNumbers DEF TypeInv, OwnTyped, Table, ListInv, Owned, Addrs
<1>2. \A c : ~AddOnly(changes, c) /\ ~Leaving(changes, c)
  BY DEF AddOnly, Leaving
<1>3. \A c \in DOMAIN local : ~local[c].new /\ ~local[c].pend /\ c \in DOMAIN crc
  BY <1>1, <1>2, ToldOf
<1>4. \A c \in DOMAIN crc : c \in DOMAIN local
  BY <1>1, ToldOf
<1> QED BY <1>3, <1>4 DEF Clean

LEMMA ListStays ==
  ASSUME ListInv, UNCHANGED <<local, changes, count, owed, crc, commit, events>>
  PROVE  ListInv'
BY DEF ListInv, Committing, Clean, Told

LEMMA AccountListed ==
  ASSUME TypeInv, ListInv, Account
  PROVE  ListInv'
<1>1. /\ owed # 0 /\ count' = count + owed /\ owed' = 0
      /\ UNCHANGED <<local, changes, crc, commit, events>>
  BY DEF Account
<1>2. count \in Int /\ owed \in Int /\ Len(changes) \in Nat
  BY ListNumbers
<1>3. commit.step = "idle"
  BY <1>1, ListFacts DEF Committing
<1>4. count' + owed' = Len(changes')
  BY <1>1, <1>2, ListFacts
<1>5. Committing'
  BY <1>1, <1>3 DEF Committing
<1>6. \A c \in Addrs : Told(c)'
  BY <1>1, <1>3, ListFacts DEF Told
<1> QED BY <1>1, <1>4, <1>5, <1>6, ListFacts DEF ListInv

LEMMA CommitNothingListed ==
  ASSUME Undisturbed, TypeInv, ListInv, CommitNothing
  PROVE  ListInv'
<1>1. /\ commit.step = "idle" /\ owed = 0 /\ count < 1
      /\ UNCHANGED <<local, changes, count, owed, crc, events>>
  BY DEF CommitNothing, Counted, Undisturbed
<1>2. CASE UNCHANGED commit
  BY <1>1, <1>2, ListStays
<1>3. CASE Step("count")
  <2>1. count \in Int /\ Len(changes) \in Nat
    BY ListNumbers
  <2>2. Len(changes) = 0
    BY <1>1, <2>1, ListFacts
  <2>3. Clean
    BY <1>1, <2>2, EmptyIsClean
  <2>4. commit'.step = "count"
    BY <1>3 DEF Step
  <2>5. Committing'
    BY <1>1, <2>3, <2>4 DEF Committing, Clean
  <2> QED BY <1>1, <2>4, <2>5 DEF ListInv
<1> QED BY <1>2, <1>3 DEF CommitNothing

LEMMA CommitTableListed ==
  ASSUME Undisturbed, TypeInv, ListInv, CommitFlags \/ CommitPurge \/ CommitCrc
  PROVE  ListInv'
<1>1. UNCHANGED <<changes, count, owed, events>>
  BY DEF CommitFlags, CommitPurge, CommitCrc
<1>2. /\ local = [c \in DOMAIN local |-> local[c]] /\ \A c \in DOMAIN local : local[c] \in Entry
      /\ count + owed = Len(changes) /\ Len(changes) <= events + 1 /\ events \in 0..MaxEvents
      /\ \A c \in DOMAIN local \cap Hosts : local[c].wifi \in Wifis
  BY ListNumbers, ListFacts
<1>3. CASE CommitFlags
  <2>1. /\ commit.step = "idle" /\ owed = 0 /\ count >= 1 /\ commit'.step = "purge"
        /\ local' = [c \in DOMAIN local |-> [local[c] EXCEPT !.new = FALSE]]
    BY <1>3 DEF CommitFlags, Counted, Undisturbed, Step
  <2>2. \A c \in DOMAIN local : ~local'[c].new /\ local'[c].wifi = local[c].wifi
    BY <1>2, <2>1 DEF Entry
  <2>3. Committing'
    BY <1>1, <2>1, <2>2 DEF Committing
  <2>4. \A c \in DOMAIN local' \cap Hosts : local'[c].wifi \in Wifis
    BY <1>2, <2>1, <2>2
  <2> QED BY <1>1, <1>2, <2>1, <2>3, <2>4 DEF ListInv
<1>4. CASE CommitPurge
  <2>1. /\ commit.step = "purge" /\ commit'.step = "crc"
        /\ local' = [c \in {d \in DOMAIN local : ~local[d].pend} |-> local[c]]
    BY <1>4 DEF CommitPurge, Restrict, Step
  <2>2. owed = 0 /\ count >= 1 /\ \A c \in DOMAIN local : ~local[c].new
    BY <2>1, ListFacts DEF Committing
  <2>3. \A c \in DOMAIN local' : c \in DOMAIN local /\ local'[c] = local[c] /\ ~local[c].pend
    BY <2>1
  <2>4. Committing'
    BY <1>1, <2>1, <2>2, <2>3 DEF Committing
  <2>5. \A c \in DOMAIN local' \cap Hosts : local'[c].wifi \in Wifis
    BY <1>2, <2>3
  <2> QED BY <1>1, <1>2, <2>1, <2>4, <2>5 DEF ListInv
<1>5. CASE CommitCrc
  <2>1. /\ commit.step = "crc" /\ commit'.step = "count" /\ local' = local
        /\ DOMAIN crc' = Valid
    BY <1>5 DEF CommitCrc, Step
  <2>2. owed = 0 /\ \A c \in DOMAIN local : ~local[c].new /\ ~local[c].pend
    BY <2>1, ListFacts DEF Committing
  <2>3. Clean'
    BY <2>1, <2>2 DEF Clean, Valid
  <2>4. Committing'
    BY <1>1, <2>1, <2>2, <2>3 DEF Committing
  <2> QED BY <1>1, <1>2, <2>1, <2>4 DEF ListInv
<1> QED BY <1>3, <1>4, <1>5

LEMMA CommitCountListed ==
  ASSUME Undisturbed, TypeInv, ListInv, CommitCount
  PROVE  ListInv'
<1>1. /\ commit.step = "count" /\ commit'.step = "drain" /\ commit'.n = count
      /\ UNCHANGED <<local, changes, count, owed, crc, events>>
  BY DEF CommitCount
<1>2. owed = 0 /\ Clean
  BY <1>1, ListFacts DEF Committing
<1>3. Committing'
  BY <1>1, <1>2 DEF Committing, Clean
<1> QED BY <1>1, <1>3, ListFacts DEF ListInv

LEMMA CommitDrainListed ==
  ASSUME Undisturbed, TypeInv, ListInv, CommitDrain
  PROVE  ListInv'
<1>1. /\ commit.step = "drain" /\ commit'.step = "idle" /\ UNCHANGED <<local, owed, crc>>
  BY DEF CommitDrain, Step
<1>2. owed = 0 /\ Clean /\ commit.n = count
  BY <1>1, ListFacts DEF Committing
<1>3. count \in Int /\ Len(changes) \in Nat /\ count = Len(changes)
      /\ Len(changes) <= events + 1 /\ events \in 0..MaxEvents
  BY <1>2, ListNumbers, ListFacts
<1>4. count <= MaxDiff
  <2>1. MaxEvents + 1 <= MaxDiff
    BY DEF Undisturbed
  <2> QED BY <1>3, <2>1, TTNumbers
<1>5. Len(changes') = 0 /\ count' = 0 /\ events' = events
  <2>1. CASE DrainNothing(commit.n) /\ UNCHANGED events
    <3>1. UNCHANGED <<changes, count, events>> /\ (count < 1 \/ count > MaxDiff)
      BY <1>2, <2>1 DEF DrainNothing
    <3>2. count = 0
      BY <1>3, <1>4, <3>1, TTNumbers
    <3> QED BY <1>3, <3>1, <3>2
  <2>2. CASE DrainList(commit.n) /\ UNCHANGED events
    <3>1. changes' = << >> /\ count' = 0
      BY <2>2 DEF DrainList
    <3> QED BY <2>2, <3>1
  <2> QED BY <2>1, <2>2 DEF CommitDrain, Undisturbed
<1>6. Clean'
  BY <1>1, <1>2 DEF Clean
<1>7. \A c \in Addrs : Told(c)'
  <2> TAKE c \in Addrs
  <2> QED BY <1>5, <1>6 DEF Clean, Told, Nowhere, DelsOnly
<1>8. Committing'
  BY <1>1, <1>2 DEF Committing
<1>9. count' + owed' = Len(changes') /\ Len(changes') <= events' + 1 /\ events' \in 0..MaxEvents
  BY <1>1, <1>2, <1>3, <1>5
<1> QED BY <1>1, <1>7, <1>8, <1>9, ListFacts DEF ListInv

-----------------------------------------------------------------------------
(* The theorem *)

LEMMA InitListed == Init => ListInv
<1> SUFFICES ASSUME Init PROVE ListInv
  OBVIOUS
<1> DEFINE own == ChangeOf(Mac, FALSE, FALSE)
           e == [new |-> vn = 0, pend |-> FALSE, wifi |-> FALSE]
<1>1. /\ local = [c \in {Mac} |-> e]
      /\ changes = (IF vn = 0 THEN <<own>> ELSE << >>) /\ count = Len(changes)
      /\ owed = 0 /\ commit = [step |-> "idle", n |-> 0] /\ events = 0
      /\ DOMAIN crc = (IF vn = 0 THEN {} ELSE {Mac})
  BY DEF Init, NoTable
<1>2. own.addr = Mac /\ ~own.del /\ (e.new <=> vn = 0) /\ ~e.pend
  BY DEF ChangeOf
<1> HIDE DEF own, e
<1>3. Len(<<own>>) = 1 /\ <<own>>[1] = own /\ Len(<< >>) = 0
  OBVIOUS
<1>4. /\ vn = 0 => Len(changes) = 1 /\ changes[1] = own
      /\ vn # 0 => Len(changes) = 0
  BY <1>1, <1>3
<1>5. DOMAIN local = {Mac} /\ local[Mac] = e
  BY <1>1
<1>6. ASSUME NEW c \in Addrs PROVE Told(c)
  <2>1. CASE vn = 0 /\ c = Mac
    <3>1. AddOnly(changes, c)
      <4>1. 1 \in 1..Len(changes) /\ \A j \in 1..Len(changes) : j = 1
        <5>1. Len(changes) = 1
          BY <1>4, <2>1
        <5>2. 1 \in 1..1 /\ \A j \in 1..1 : j = 1
          OBVIOUS
        <5> QED BY <5>1, <5>2
      <4> QED BY <1>2, <1>4, <2>1, <4>1 DEF AddOnly
    <3> QED BY <1>1, <1>2, <1>5, <2>1, <3>1 DEF Told
  <2>2. CASE vn # 0 /\ c = Mac
    <3>1. DelsOnly(changes, c)
      BY <1>4, <2>2 DEF DelsOnly
    <3> QED BY <1>1, <1>2, <1>5, <2>2, <3>1 DEF Told
  <2>3. CASE c # Mac
    <3>1. Nowhere(changes, c)
      BY <1>2, <1>4, <2>3 DEF Nowhere
    <3> QED BY <1>1, <1>5, <2>3, <3>1 DEF Told
  <2> QED BY <2>1, <2>2, <2>3
<1>7. count + owed = Len(changes) /\ Len(changes) <= events + 1 /\ events \in 0..MaxEvents
  <2>1. MaxEvents \in Nat /\ (Len(changes) = 0 \/ Len(changes) = 1)
    BY <1>4, TTNumbers
  <2> QED BY <1>1, <2>1
<1>8. Committing
  BY <1>1 DEF Committing
<1>9. DOMAIN local \cap Hosts = {}
  BY <1>5, ConstantsOK
<1> QED BY <1>6, <1>7, <1>8, <1>9 DEF ListInv

LEMMA StepKeepsList ==
  ASSUME Undisturbed, TypeInv, ListInv, [Next]_vars
  PROVE  ListInv'
<1>1. CASE ClientEvent
  BY <1>1, LeaveListed, AddListed DEF ClientEvent
<1>2. CASE Account
  BY <1>2, AccountListed
<1>3. CASE Commit
  BY <1>3, CommitNothingListed, CommitTableListed, CommitCountListed, CommitDrainListed DEF Commit
<1>4. CASE Answers \/ Finish \/ Lose \/ \E m \in msgs : HandleResponse(m)
  <2>1. UNCHANGED ownVars
    BY <1>4 DEF Answers, OwnAnswer, RelayAnswer, RelayCheck, RelayCopy, Finish, Lose, HandleResponse
  <2> QED BY <2>1, ListStays DEF ownVars
<1>5. ASSUME NEW r \in Receivers, \/ RequestTimeout(r) \/ RouteLost(r) \/ OrigPurged(r)
                                  \/ \E o \in ogms : HandleOgm(r, o)
      PROVE  ListInv'
  <2>1. UNCHANGED ownVars
    BY <1>5 DEF RequestTimeout, RouteLost, OrigPurged, HandleOgm, ApplyDiff, AskDiff, Compare,
                OgmUnchanged
  <2> QED BY <2>1, ListStays DEF ownVars
<1>6. CASE UNCHANGED vars
  BY <1>6, ListStays DEF vars
<1>7. CASE Leave
  <2>1. ~SMP /\ leave = None
    BY DEF Undisturbed, TypeInv, SmpTyped
  <2> QED BY <1>7, <2>1 DEF Leave, LeaveBegins, LeaveEvent, LeaveHash
<1> QED BY <1>1, <1>2, <1>3, <1>4, <1>5, <1>6, <1>7 DEF Next

\* With nothing on the list the clients served are those of the last commit.
LEMMA ListIsKept ==
  ASSUME TypeInv, ListInv
  PROVE  NoChangeForgotten
<1> SUFFICES ASSUME commit.step = "idle", owed = 0, ~(count > 0) PROVE Served = DOMAIN crc
  BY DEF NoChangeForgotten
<1>1. Len(changes) = 0
  BY ListNumbers, ListFacts
<1>2. Clean
  BY <1>1, EmptyIsClean
<1> QED BY <1>2 DEF Clean, Served

\* No order of arrivals, departures and returns within an interval cancels a
\* change (batadv_tt_local_event) without another commit being asked for.
THEOREM TTIsConsistent == Undisturbed /\ Spec => []TTConsistent
<1> SUFFICES ASSUME Undisturbed PROVE Spec => []TTConsistent
  OBVIOUS
<1>1. TypeInv => TypeOK
  BY DEF TypeInv, OwnTyped, NetTyped, SmpTyped, MsgTyped, Owned, Vns, TypeOK
<1>2. TypeInv /\ ListInv => TTConsistent
  BY <1>1, ListIsKept DEF TTConsistent
<1>3. Init => TypeInv /\ ListInv
  BY InitTyped, InitListed
<1>4. TypeInv /\ ListInv /\ [Next]_vars => (TypeInv /\ ListInv)'
  BY StepKeepsTypes, StepKeepsList
<1> QED BY <1>2, <1>3, <1>4, PTL DEF Spec

=============================================================================

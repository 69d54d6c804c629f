----------------------------- MODULE RoutesProofs ------------------------------
(***************************************************************************)
(* The sequence number windows of B.A.T.M.A.N. IV, for any window, any     *)
(* number of neighbours and any order of arrival: a window is the history  *)
(* of what came, and an OGM is passed on once.  And the route that a       *)
(* traceroute finds, for any number of programs, slots and nodes and any   *)
(* order of the answers.  And the routes of B.A.T.M.A.N. V: fresh and      *)
(* without loops, for any nodes, links and throughputs, any numbers lost   *)
(* and any changes of the links.                                           *)
(***************************************************************************)
EXTENDS BatIvOgm, MeshIcmp, BatVOgm, WellFoundedInduction,
        FiniteSetTheorems, TLAPS

-----------------------------------------------------------------------------
(* Serial numbers                                                          *)

LEMMA Numbers ==
  /\ M \in Nat /\ M >= 2 /\ M \div 2 \in Nat /\ 2 * (M \div 2) = M
  /\ W \in Nat /\ W >= 1 /\ SeqnoRange \in Nat /\ W < SeqnoRange
  /\ 2 * (SeqnoRange - 1 + W - 1) < M /\ 2 * W < M
  /\ Base \in Nat /\ GW \in Nat /\ GW >= 1 /\ MaxTq \in Nat
  /\ \A a \in Seqs : a \in Nat /\ 2 * a < M
<1>1. M \in Nat /\ M % 2 = 0 /\ M >= 2 /\ W >= 1 /\ W \in Nat
  BY OgmAssumption, SMT
<1>2. M \div 2 \in Nat /\ 2 * (M \div 2) = M
  BY <1>1, SMT
<1>3. SeqnoRange \in Nat /\ W < SeqnoRange /\ 2 * (SeqnoRange - 1 + W - 1) < M
  BY OgmAssumption
<1>4. 2 * W < M
  BY <1>1, <1>3, SMT
<1> QED BY <1>1, <1>2, <1>3, <1>4, OgmAssumption

LEMMA ModSmall ==
  ASSUME NEW z \in Int, -M < z, z < M
  PROVE  z % M = IF z >= 0 THEN z ELSE z + M
BY Numbers, SMT

LEMMA ModUnique ==
  ASSUME NEW k \in Nat, NEW r \in 0..(M - 1), NEW y \in Nat, y = M * k + r
  PROVE  y % M = r
<1> DEFINE q == y \div M
           p == y % M
<1>1. q \in Nat /\ p \in 0..(M - 1) /\ y = M * q + p
  BY Numbers, SMT
<1> HIDE DEF q, p
<1>2. \A t \in Nat : t >= 1 => M * t >= M
  BY Numbers, SMT
<1>3. CASE k > q
  <2>1. M * (k - q) >= M
    BY <1>1, <1>2, <1>3, SMT
  <2>2. M * (k - q) = M * k - M * q
    BY <1>1, Numbers, SMT
  <2> DEFINE u == M * k
             v == M * q
  <2>3. u \in Nat /\ v \in Nat
    BY <1>1, Numbers, SMT
  <2>4. u - v >= M /\ u + r = v + p
    BY <1>1, <2>1, <2>2
  <2> HIDE DEF u, v
  <2> QED BY <1>1, <2>3, <2>4, Numbers, SMT
<1>4. CASE k < q
  <2>1. M * (q - k) >= M
    BY <1>1, <1>2, <1>4, SMT
  <2>2. M * (q - k) = M * q - M * k
    BY <1>1, Numbers, SMT
  <2> DEFINE u == M * k
             v == M * q
  <2>3. u \in Nat /\ v \in Nat
    BY <1>1, Numbers, SMT
  <2>4. v - u >= M /\ u + r = v + p
    BY <1>1, <2>1, <2>2
  <2> HIDE DEF u, v
  <2> QED BY <1>1, <2>3, <2>4, Numbers, SMT
<1>5. CASE k = q
  <2> DEFINE u == M * k
  <2>1. u \in Nat /\ u + r = u + p
    BY <1>1, <1>5, Numbers, SMT
  <2> HIDE DEF u
  <2> QED BY <1>1, <2>1, Numbers, SMT DEF p
<1> QED BY <1>1, <1>3, <1>4, <1>5, SMT

LEMMA ModOver ==
  ASSUME NEW z \in Nat, NEW a \in Nat, a < M
  PROVE  (z + a) % M = IF (z % M) + a < M THEN (z % M) + a ELSE (z % M) + a - M
<1> DEFINE q == z \div M
           r == z % M
<1>1. q \in Nat /\ r \in 0..(M - 1) /\ z = M * q + r
  BY Numbers, SMT
<1> HIDE DEF q, r
<1>2. CASE r + a < M
  <2>1. z + a = M * q + (r + a) /\ r + a \in 0..(M - 1)
    BY <1>1, <1>2, Numbers, SMT
  <2>2. (z + a) % M = r + a
    BY <1>1, <2>1, ModUnique
  <2> QED BY <1>2, <2>2 DEF r
<1>3. CASE ~(r + a < M)
  <2>1. M * (q + 1) = M * q + M
    BY <1>1, Numbers, SMT
  <2>2. z + a = M * (q + 1) + (r + a - M) /\ r + a - M \in 0..(M - 1)
    BY <1>1, <1>3, <2>1, Numbers, SMT
  <2>3. (z + a) % M = r + a - M
    BY <1>1, <2>2, ModUnique
  <2> QED BY <1>3, <2>3 DEF r
<1> QED BY <1>2, <1>3 DEF r

\* As numbers from 0 the sequence numbers are those on the wire, wrapped once at
\* most.
LEMMA WireLinear ==
  /\ Base % M \in 0..(M - 1)
  /\ \A a \in Seqs : Wire(a) = IF (Base % M) + a < M THEN (Base % M) + a
                               ELSE (Base % M) + a - M
<1>1. Base % M \in 0..(M - 1)
  BY Numbers, SMT
<1>2. ASSUME NEW a \in Seqs
      PROVE  Wire(a) = IF (Base % M) + a < M THEN (Base % M) + a ELSE (Base % M) + a - M
  <2>1. a \in Nat /\ a < M /\ Base \in Nat
    BY Numbers
  <2> QED BY <2>1, ModOver DEF Wire
<1> QED BY <1>1, <1>2

LEMMA DiffLinear ==
  ASSUME NEW x \in 0..(M - 1), NEW y \in 0..(M - 1)
  PROVE  Diff(x, y) = IF x - y >= M \div 2 THEN x - y - M
                      ELSE IF x - y >= 0 THEN x - y
                      ELSE IF x - y + M >= M \div 2 THEN x - y
                      ELSE x - y + M
<1>1. (x - y) % M = IF x - y >= 0 THEN x - y ELSE x - y + M
  BY Numbers, ModSmall, SMT
<1> QED BY <1>1, Numbers, SMT DEF Diff

LEMMA WireRange == \A a \in Seqs : Wire(a) \in 0..(M - 1)
BY WireLinear, Numbers, SMT

\* The differences of OGM a, of the newest number l and of OGM x.
LEMMA Differences ==
  ASSUME NEW l \in 0..(M - 1), NEW a \in Seqs, NEW x \in Seqs
  PROVE  LET d == Diff(Wire(a), l)
             o == Diff(l, Wire(x))
         IN /\ d \in Int /\ o \in Int
            /\ Diff(Wire(a), Wire(x)) = a - x
            /\ 2 * (d + o) < M /\ 2 * (d + o) > -M => d + o = a - x
            /\ 2 * ((a - x) - d) < M /\ 2 * ((a - x) - d) > -M => o = (a - x) - d
            /\ 2 * d > -M => Diff(l, Wire(a)) = -d
<1> DEFINE B == Base % M
<1>1. /\ B \in 0..(M - 1) /\ l \in 0..(M - 1)
      /\ Wire(a) = IF B + a < M THEN B + a ELSE B + a - M
      /\ Wire(x) = IF B + x < M THEN B + x ELSE B + x - M
      /\ Wire(a) \in 0..(M - 1) /\ Wire(x) \in 0..(M - 1)
  BY WireLinear, WireRange
<1>2. a \in Nat /\ x \in Nat /\ 2 * a < M /\ 2 * x < M
  BY Numbers
<1> HIDE DEF B
<1>3. Diff(Wire(a), Wire(x)) = a - x
  BY <1>1, <1>2, DiffLinear, Numbers, SMT
<1> DEFINE H == M \div 2
           Of2(u, v) == IF u - v >= H THEN u - v - M
                        ELSE IF u - v >= 0 THEN u - v
                        ELSE IF u - v + M >= H THEN u - v
                        ELSE u - v + M
<1>7. /\ Diff(Wire(a), l) = Of2(Wire(a), l) /\ Diff(l, Wire(a)) = Of2(l, Wire(a))
      /\ Diff(l, Wire(x)) = Of2(l, Wire(x))
  BY <1>1, DiffLinear
<1>8. H \in Nat /\ 2 * H = M /\ M \in Nat
  BY Numbers
<1> HIDE DEF H
<1>4. Diff(Wire(a), l) \in Int /\ Diff(l, Wire(x)) \in Int
  BY <1>1, <1>7, <1>8, SMT
<1>5. 2 * Diff(Wire(a), l) > -M => Diff(l, Wire(a)) = -Diff(Wire(a), l)
  BY <1>1, <1>7, <1>8, SMT
<1>6. ASSUME 2 * (Diff(Wire(a), l) + Diff(l, Wire(x))) < M,
             2 * (Diff(Wire(a), l) + Diff(l, Wire(x))) > -M
      PROVE  Diff(Wire(a), l) + Diff(l, Wire(x)) = a - x
  BY <1>1, <1>2, <1>6, <1>7, <1>8, SMT
<1>9. ASSUME 2 * ((a - x) - Diff(Wire(a), l)) < M,
             2 * ((a - x) - Diff(Wire(a), l)) > -M
      PROVE  Diff(l, Wire(x)) = (a - x) - Diff(Wire(a), l)
  BY <1>1, <1>2, <1>7, <1>8, <1>9, SMT
<1> QED BY <1>3, <1>4, <1>5, <1>6, <1>9

-----------------------------------------------------------------------------
(* One window                                                              *)

\* The bits are those of the OGMs in h, seen from sequence number l.
Records(bits, h, l) == \A x \in Seqs : x \in h <=> Diff(l, Wire(x)) \in bits

\* What is left of h when OGM a moves the window by d, and a joins it if it came
\* from this neighbour.
After(h, a, d, mark) ==
  (IF ~Moves(d) THEN h ELSE IF IsReset(d) THEN {} ELSE {x \in h : x > a - W})
  \cup IF mark THEN {a} ELSE {}

LEMMA PacketType ==
  ASSUME NEW bits \in SUBSET (0..(W - 1)), NEW d \in Int, NEW mark \in BOOLEAN
  PROVE  GetPacket(bits, d, mark) \in SUBSET (0..(W - 1))
<1>1. CASE d <= 0 /\ d > -W
  BY <1>1, Numbers, SMT DEF GetPacket
<1>2. CASE ~(d <= 0 /\ d > -W)
  <2>1. d > 0 => ShiftBits(bits, d) \in SUBSET (0..(W - 1))
    BY Numbers, SMT DEF ShiftBits
  <2>2. 0 \in 0..(W - 1)
    BY Numbers, SMT
  <2> QED BY <1>2, <2>1, <2>2 DEF GetPacket
<1> QED BY <1>1, <1>2

\* bit_get_packet keeps a window true to the history, across wraps and resets.
LEMMA WindowMoves ==
  ASSUME NEW bits \in SUBSET (0..(W - 1)), NEW h \in SUBSET Seqs,
         NEW l \in 0..(M - 1), NEW a \in Seqs, NEW mark \in BOOLEAN,
         Records(bits, h, l)
  PROVE  LET d == Diff(Wire(a), l)
         IN Records(GetPacket(bits, d, mark), After(h, a, d, mark),
                    IF Moves(d) THEN Wire(a) ELSE l)
<1> DEFINE d == Diff(Wire(a), l)
<1> SUFFICES ASSUME NEW x \in Seqs
             PROVE  x \in After(h, a, d, mark)
                      <=> Diff(IF Moves(d) THEN Wire(a) ELSE l, Wire(x))
                            \in GetPacket(bits, d, mark)
  BY DEF Records
<1> DEFINE o == Diff(l, Wire(x))
<1>1. /\ d \in Int /\ o \in Int /\ a \in Nat /\ x \in Nat
      /\ Diff(Wire(a), Wire(x)) = a - x
      /\ 2 * (d + o) < M /\ 2 * (d + o) > -M => d + o = a - x
      /\ 2 * ((a - x) - d) < M /\ 2 * ((a - x) - d) > -M => o = (a - x) - d
      /\ 2 * d > -M => Diff(l, Wire(a)) = -d
  BY Differences, Numbers
<1>2. x \in h <=> o \in bits
  BY DEF Records
<1>3. o \in bits => o >= 0 /\ o < W
  <2>1. \A b \in bits : b >= 0 /\ b < W
    BY Numbers, SMT
  <2> QED BY <2>1
<1>4. CASE ~Moves(d)
  <2>1. d <= 0 /\ d > -W
    BY <1>4 DEF Moves
  <2>2. x = a => o = -d
    BY <1>1, <2>1, Numbers, SMT
  <2>3. o = -d => x = a
    BY <1>1, Numbers, SMT
  <2>4. GetPacket(bits, d, mark) = IF mark THEN bits \cup {-d} ELSE bits
    BY <2>1 DEF GetPacket
  <2>5. After(h, a, d, mark) = h \cup IF mark THEN {a} ELSE {}
    BY <1>4 DEF After
  <2> HIDE DEF d, o
  <2> QED BY <1>2, <1>4, <2>2, <2>3, <2>4, <2>5 DEF o
<1>5. CASE Moves(d)
  <2>1. ~(d <= 0 /\ d > -W)
    BY <1>5 DEF Moves
  <2>2. GetPacket(bits, d, mark) = (IF d > 0 /\ d < W THEN ShiftBits(bits, d) ELSE {})
                                   \cup (IF mark THEN {0} ELSE {})
    BY <2>1 DEF GetPacket
  <2>3. After(h, a, d, mark) = (IF IsReset(d) THEN {} ELSE {y \in h : y > a - W})
                               \cup IF mark THEN {a} ELSE {}
    BY <1>5 DEF After
  <2>4. a - x = 0 <=> x = a
    BY <1>1
  <2>5. (~IsReset(d) /\ x \in h /\ x > a - W)
          <=> (d > 0 /\ d < W /\ a - x \in ShiftBits(bits, d))
    <3> HIDE DEF d, o
    <3>1. CASE IsReset(d)
      BY <1>1, <2>1, <3>1, Numbers, SMT DEF IsReset
    <3>2. CASE ~IsReset(d)
      <4>1. d > 0 /\ d < SeqnoRange
        BY <1>1, <2>1, <3>2, Numbers, SMT DEF IsReset
      <4>2. x \in h => d + o = a - x
        BY <1>1, <1>2, <1>3, <4>1, Numbers, SMT
      <4>3. a - x \in ShiftBits(bits, d) <=> (\E b \in bits : a - x = b + d /\ b + d < W)
        BY DEF ShiftBits
      <4>4. ASSUME x \in h, x > a - W
            PROVE  d > 0 /\ d < W /\ a - x \in ShiftBits(bits, d)
        BY <1>1, <1>2, <1>3, <4>1, <4>2, <4>3, <4>4, Numbers, SMT
      <4>5. ASSUME d < W, a - x \in ShiftBits(bits, d)
            PROVE  x \in h /\ x > a - W
        <5>1. PICK b \in bits : a - x = b + d /\ b + d < W
          BY <4>3, <4>5
        <5>2. b \in Int /\ b >= 0 /\ b < W
          BY Numbers, SMT
        <5>3. o = b
          BY <1>1, <4>1, <5>1, <5>2, Numbers, SMT
        <5> QED BY <1>1, <1>2, <5>1, <5>2, <5>3, Numbers, SMT
      <4> QED BY <3>2, <4>1, <4>4, <4>5
    <3> QED BY <3>1, <3>2
  <2>6. Diff(Wire(a), Wire(x)) = a - x
    BY <1>1
  <2> HIDE DEF d, o
  <2> QED BY <1>5, <2>2, <2>3, <2>4, <2>5, <2>6
<1> QED BY <1>4, <1>5

-----------------------------------------------------------------------------
(* The invariant                                                           *)

\* The window of a listed neighbour is its history, a neighbour that is not
\* listed has none, and what was passed on for a neighbour it had delivered.
Windows ==
  /\ \A n \in Listed : Records(neigh[n].bits, heard[n], last)
  /\ \A n \in Nbrs \ Listed : heard[n] = {}
  /\ \A n \in Nbrs \ {Orig} : sent[n] \subseteq heard[n]

\* A router that is not known to be off the list is on it; one that is off it
\* has a purge before it, or was set across one.  The handler holds a neighbour
\* of the list or knows that it lost it.
Routing ==
  /\ stale = None /\ router # None => router \in Listed
  /\ stale # None => purge # "idle" \/ crossed
  /\ hand.step # "idle" => hand.n \in Nbrs
  /\ hand.step \in {"found", "better"} /\ hand.lost = None => hand.n \in Listed
  /\ hand.routed => stale # None
  /\ purge = "found" => bestNeigh = None \/ bestNeigh \in Listed

OgmInv == OgmTypeOK /\ PassedOnOnce /\ Windows /\ Routing

LEMMA NewEntryType == NewEntry \in Entry /\ NewEntry.bits = {}
<1>1. 0 \in 0..MaxTq /\ 0 \in 0..(GW - 1) /\ {} \in SUBSET (0..(W - 1))
  BY Numbers, SMT
<1>2. [i \in 0..(GW - 1) |-> 0] \in [0..(GW - 1) -> 0..MaxTq]
  BY <1>1
<1> QED BY <1>1, <1>2 DEF NewEntry, Entry

\* batadv_ring_buffer_set writes inside the ring.
LEMMA RingSetType ==
  ASSUME NEW e \in Entry, NEW value \in 0..MaxTq
  PROVE  RingSet(e, value) \in Entry /\ RingSet(e, value).bits = e.bits
<1>1. (e.index + 1) % GW \in 0..(GW - 1)
  <2>1. e.index + 1 \in Nat
    BY Numbers, SMT DEF Entry
  <2> HIDE DEF Entry
  <2> DEFINE k == e.index + 1
  <2> HIDE DEF k
  <2>2. k \in Nat => k % GW \in 0..(GW - 1)
    BY Numbers, SMT
  <2> QED BY <2>1, <2>2 DEF k
<1> DEFINE r == [e.ring EXCEPT ![e.index] = value]
           i == (e.index + 1) % GW
<1>2. r \in [0..(GW - 1) -> 0..MaxTq]
  BY DEF Entry
<1>3. RingSet(e, value) = [[e EXCEPT !.ring = r] EXCEPT !.index = i]
  BY DEF RingSet, Entry
<1>4. i \in 0..(GW - 1)
  BY <1>1
<1> HIDE DEF r, i
<1>5. [e EXCEPT !.ring = r] \in Entry
  BY <1>2 DEF Entry
<1> QED BY <1>3, <1>4, <1>5 DEF Entry

LEMMA MarkedType ==
  ASSUME OgmTypeOK, NEW n \in Nbrs, NEW d \in Int
  PROVE  /\ Marked(n, d) \in [Nbrs -> Entry \cup {None}]
         /\ \A m \in Nbrs : Marked(n, d)[m] # None <=> m \in Listed
         /\ \A m \in Listed : Marked(n, d)[m].bits = GetPacket(neigh[m].bits, d, m = n)
<1>1. ASSUME NEW m \in Listed
      PROVE  /\ Marked(n, d)[m] \in Entry
             /\ Marked(n, d)[m].bits = GetPacket(neigh[m].bits, d, m = n)
  <2>1. neigh[m] \in Entry /\ m \in Nbrs
    BY DEF OgmTypeOK, Listed
  <2>2. neigh[m].bits \in SUBSET (0..(W - 1))
    BY <2>1 DEF Entry
  <2>3. (m = n) \in BOOLEAN
    OBVIOUS
  <2>4. GetPacket(neigh[m].bits, d, m = n) \in SUBSET (0..(W - 1))
    BY <2>2, <2>3, PacketType
  <2>5. Marked(n, d)[m] = [neigh[m] EXCEPT !.bits = GetPacket(neigh[m].bits, d, m = n)]
    BY <2>1 DEF Marked, Listed
  <2> DEFINE b == GetPacket(neigh[m].bits, d, m = n)
  <2>6. b \in SUBSET (0..(W - 1)) /\ Marked(n, d)[m] = [neigh[m] EXCEPT !.bits = b]
    BY <2>4, <2>5
  <2> HIDE DEF b
  <2>7. Marked(n, d)[m] \in Entry /\ Marked(n, d)[m].bits = b
    BY <2>1, <2>6 DEF Entry
  <2> QED BY <2>7 DEF b
<1>2. \A m \in Nbrs \ Listed : Marked(n, d)[m] = None
  BY DEF Marked, Listed
<1>3. ASSUME NEW m \in Nbrs
      PROVE  Marked(n, d)[m] \in Entry \cup {None} /\ (Marked(n, d)[m] # None <=> m \in Listed)
  BY <1>1, <1>2, NoneAssumption
<1>4. Marked(n, d) = [m \in Nbrs |-> Marked(n, d)[m]]
  BY DEF Marked
<1> QED BY <1>1, <1>3, <1>4

LEMMA RankedType ==
  ASSUME NEW list \in [Nbrs -> Entry \cup {None}], NEW n \in Nbrs, NEW fresh \in BOOLEAN
  PROVE  /\ Ranked(list, n, fresh) \in [Nbrs -> Entry \cup {None}]
         /\ \A m \in Nbrs : Ranked(list, n, fresh)[m] # None <=> list[m] # None \/ m = n
         /\ \A m \in Nbrs : list[m] # None => Ranked(list, n, fresh)[m].bits = list[m].bits
         /\ list[n] = None => Ranked(list, n, fresh)[n].bits = {}
<1> DEFINE e == IF list[n] = None THEN NewEntry ELSE list[n]
<1>1. e \in Entry /\ (list[n] = None => e.bits = {})
  BY NewEntryType
<1>2. 0 \in 0..MaxTq
  BY Numbers, SMT
<1>3. Ranked(list, n, fresh)[n] = e
  BY DEF Ranked
<1>4. \A m \in Nbrs \ {n} :
        Ranked(list, n, fresh)[m] = IF list[m] # None /\ fresh THEN RingSet(list[m], 0)
                                    ELSE list[m]
  BY DEF Ranked
<1>5. list[n] # None => e.bits = list[n].bits
  OBVIOUS
<1>6. \A m \in Nbrs : list[m] # None => RingSet(list[m], 0) \in Entry /\ RingSet(list[m], 0).bits = list[m].bits
  BY <1>2, RingSetType
<1> HIDE DEF e
<1>7. ASSUME NEW m \in Nbrs
      PROVE  /\ Ranked(list, n, fresh)[m] \in Entry \cup {None}
             /\ Ranked(list, n, fresh)[m] # None <=> list[m] # None \/ m = n
             /\ list[m] # None => Ranked(list, n, fresh)[m].bits = list[m].bits
  BY <1>1, <1>3, <1>4, <1>5, <1>6, NoneAssumption
<1>8. Ranked(list, n, fresh) = [m \in Nbrs |-> Ranked(list, n, fresh)[m]]
  BY DEF Ranked
<1> QED BY <1>1, <1>3, <1>7, <1>8

LEMMA NoHandType ==
  NoHand \in [step : {"idle", "seen", "found", "better"}, n : Nbrs \cup {None},
              tq : 0..MaxTq, ttl : Ttls \cup {0}, fresh : BOOLEAN,
              lost : Entry \cup {None}, routed : BOOLEAN]
<1>1. 0 \in 0..MaxTq
  BY Numbers, SMT
<1> QED BY <1>1 DEF NoHand

LEMMA InitOgm == OgmInit => OgmInv
<1> SUFFICES ASSUME OgmInit PROVE OgmInv
  OBVIOUS
<1>1. 0 \in 0..(M - 1) /\ 0 \in 0..GW
  BY Numbers, SMT
<1>2. OgmTypeOK
  BY <1>1, NoHandType DEF OgmInit, OgmTypeOK
<1>3. Listed = {}
  BY DEF OgmInit, Listed
<1> QED BY <1>2, <1>3 DEF OgmInit, OgmInv, Windows, Routing, PassedOnOnce, NoHand

\* The handler of an OGM keeps every window true to its history.
LEMMA WindowsKept ==
  ASSUME OgmInv, NEW n \in Nbrs, NEW a \in Seqs, UpdateSeqnos(n, a),
         neigh' \in [Nbrs -> Entry \cup {None}],
         \A m \in Listed : /\ m \in Listed'
                           /\ neigh'[m].bits = GetPacket(neigh[m].bits, Diff(Wire(a), last), m = n),
         \A m \in Nbrs \ Listed : m \in Listed' => neigh'[m].bits = {}
  PROVE  /\ last' \in 0..(M - 1) /\ guarded' \in BOOLEAN /\ heard' \in [Nbrs -> SUBSET Seqs]
         /\ \A m \in Listed' : Records(neigh'[m].bits, heard'[m], last')
         /\ \A m \in Nbrs \ Listed : heard'[m] = {}
<1> DEFINE d == Diff(Wire(a), last)
<1>1. /\ neigh \in [Nbrs -> Entry \cup {None}] /\ last \in 0..(M - 1)
      /\ guarded \in BOOLEAN /\ heard \in [Nbrs -> SUBSET Seqs]
      /\ \A m \in Listed : Records(neigh[m].bits, heard[m], last)
      /\ \A m \in Nbrs \ Listed : heard[m] = {}
  BY DEF OgmInv, OgmTypeOK, Windows
<1>2. /\ guarded' = (guarded \/ (Listed # {} /\ IsReset(d)))
      /\ last' = IF Listed # {} /\ Moves(d) THEN Wire(a) ELSE last
      /\ heard' = HeardNext(n, a, d)
  BY DEF UpdateSeqnos
<1>3. last' \in 0..(M - 1)
  BY <1>1, <1>2, WireRange
<1>4. guarded' \in BOOLEAN
  BY <1>2
<1>5. \A m \in Nbrs : heard'[m] = InWindow(heard[m], a, d) \cup IF m = n /\ neigh[n] # None THEN {a} ELSE {}
  BY <1>2 DEF HeardNext
<1>6. \A m \in Nbrs \ Listed : heard'[m] = {}
  BY <1>1, <1>5 DEF InWindow, Listed
<1>7. ASSUME NEW m \in Listed
      PROVE  Records(neigh'[m].bits, heard'[m], last') /\ heard'[m] \in SUBSET Seqs
  <2>1. m \in Nbrs /\ neigh[m] # None /\ neigh[m] \in Entry /\ Listed # {}
    BY <1>1 DEF Listed
  <2>2. heard'[m] = After(heard[m], a, d, m = n)
    <3>1. n = m => neigh[n] # None
      BY <2>1
    <3>2. InWindow(heard[m], a, d) = IF ~Moves(d) THEN heard[m]
                                     ELSE IF IsReset(d) THEN {} ELSE {x \in heard[m] : x > a - W}
      BY <2>1 DEF InWindow
    <3> QED BY <1>5, <2>1, <3>1, <3>2 DEF After
  <2>3. heard[m] \in SUBSET Seqs /\ neigh[m].bits \in SUBSET (0..(W - 1)) /\ (m = n) \in BOOLEAN
    BY <1>1, <2>1 DEF Entry
  <2>4. Records(GetPacket(neigh[m].bits, d, m = n), After(heard[m], a, d, m = n),
                IF Moves(d) THEN Wire(a) ELSE last)
    BY <1>1, <2>3, WindowMoves
  <2>5. last' = IF Moves(d) THEN Wire(a) ELSE last
    BY <1>2, <2>1
  <2>6. heard'[m] \in SUBSET Seqs
    BY <2>2, <2>3 DEF After
  <2> QED BY <2>2, <2>4, <2>5, <2>6
<1>8. ASSUME NEW m \in Listed' \ Listed
      PROVE  Records(neigh'[m].bits, heard'[m], last')
  <2>1. m \in Nbrs \ Listed
    BY DEF Listed
  <2>2. neigh'[m].bits = {} /\ heard'[m] = {}
    BY <1>6, <2>1
  <2> QED BY <2>2 DEF Records
<1>9. heard' \in [Nbrs -> SUBSET Seqs]
  <2>1. \A m \in Nbrs : heard'[m] \in SUBSET Seqs
    BY <1>6, <1>7
  <2>2. heard' = [m \in Nbrs |-> heard'[m]]
    BY <1>2 DEF HeardNext
  <2> QED BY <2>1, <2>2
<1> QED BY <1>3, <1>4, <1>6, <1>7, <1>8, <1>9

\* What is passed on for a neighbour that is not the originator came through
\* its window, and was not in it before.
LEMMA PassingKept ==
  ASSUME OgmInv, NEW n \in Nbrs, NEW a \in Seqs, NEW passOn \in BOOLEAN,
         UpdateSeqnos(n, a), SentNext(n, a, Diff(Wire(a), last), passOn),
         passOn /\ n # Orig /\ n \in Listed => ~TestBit(neigh[n].bits, last, Wire(a))
  PROVE  /\ sent' \in [Nbrs -> SUBSET Seqs] /\ again' = FALSE
         /\ \A m \in Nbrs \ {Orig} : sent'[m] \subseteq heard'[m]
<1> DEFINE d == Diff(Wire(a), last)
<1>1. /\ neigh \in [Nbrs -> Entry \cup {None}] /\ last \in 0..(M - 1)
      /\ heard \in [Nbrs -> SUBSET Seqs] /\ sent \in [Nbrs -> SUBSET Seqs] /\ again = FALSE
      /\ \A m \in Listed : Records(neigh[m].bits, heard[m], last)
      /\ \A m \in Nbrs \ {Orig} : sent[m] \subseteq heard[m]
      /\ \A m \in Nbrs \ Listed : heard[m] = {}
  BY DEF OgmInv, OgmTypeOK, PassedOnOnce, Windows
<1>2. /\ sent' = [m \in Nbrs |-> InWindow(sent[m], a, d)
                                 \cup IF m = n /\ passOn /\ neigh[n] # None THEN {a} ELSE {}]
      /\ again' = (again \/ (passOn /\ n # Orig /\ a \in InWindow(sent[n], a, d)))
  BY DEF SentNext
<1>3. \A h : InWindow(h, a, d) \subseteq h
  BY DEF InWindow
<1>4. \A g, h : g \subseteq h => InWindow(g, a, d) \subseteq InWindow(h, a, d)
  BY DEF InWindow
<1>5. sent' \in [Nbrs -> SUBSET Seqs]
  <2>1. \A m \in Nbrs : InWindow(sent[m], a, d) \in SUBSET Seqs
    BY <1>1, <1>3
  <2> HIDE DEF d
  <2> QED BY <1>2, <2>1
<1>6. \A m \in Nbrs : heard'[m] = InWindow(heard[m], a, d) \cup IF m = n /\ neigh[n] # None THEN {a} ELSE {}
  BY DEF UpdateSeqnos, HeardNext
<1>7. ASSUME NEW m \in Nbrs \ {Orig}
      PROVE  sent'[m] \subseteq heard'[m]
  <2>1. InWindow(sent[m], a, d) \subseteq InWindow(heard[m], a, d)
    BY <1>1, <1>4
  <2>3. sent'[m] = InWindow(sent[m], a, d)
                   \cup IF m = n /\ passOn /\ neigh[n] # None THEN {a} ELSE {}
    BY <1>2
  <2> HIDE DEF d
  <2> QED BY <1>6, <2>1, <2>3
<1>8. ASSUME passOn, n # Orig, a \in InWindow(sent[n], a, d)
      PROVE  FALSE
  <2>1. a \in heard[n] /\ n \in Listed
    BY <1>1, <1>3, <1>8
  <2>2. Diff(last, Wire(a)) \in neigh[n].bits
    BY <1>1, <2>1 DEF Records
  <2>3. neigh[n].bits \in SUBSET (0..(W - 1))
    BY <1>1, <2>1 DEF Listed, Entry
  <2>4. Diff(last, Wire(a)) >= 0 /\ Diff(last, Wire(a)) < W
    <3>1. \A b \in neigh[n].bits : b >= 0 /\ b < W
      BY <2>3, Numbers, SMT
    <3> QED BY <2>2, <3>1
  <2>5. TestBit(neigh[n].bits, last, Wire(a))
    BY <2>2, <2>4 DEF TestBit
  <2> QED BY <1>8, <2>1, <2>5
<1>9. again' = FALSE
  BY <1>1, <1>2, <1>8
<1> QED BY <1>5, <1>7, <1>9

\* An OGM that is dropped after update_seqnos.
LEMMA DroppedKeeps ==
  ASSUME OgmInv, NEW n \in Nbrs, NEW a \in Seqs, RecvDropped(n, a)
  PROVE  OgmInv'
<1> DEFINE d == Diff(Wire(a), last)
<1>1. OgmTypeOK /\ Routing /\ last \in 0..(M - 1)
  BY DEF OgmInv, OgmTypeOK
<1>2. /\ UpdateSeqnos(n, a) /\ neigh' = Marked(n, d) /\ SentNext(n, a, d, FALSE)
      /\ UNCHANGED <<lastTtl, router, stale, hand, missed, crossed, purge, bestNeigh>>
  BY DEF RecvDropped, purgeVars
<1>3. d \in Int
  BY <1>1, Differences
<1>4. /\ neigh' \in [Nbrs -> Entry \cup {None}]
      /\ \A m \in Nbrs : neigh'[m] # None <=> m \in Listed
      /\ \A m \in Listed : neigh'[m].bits = GetPacket(neigh[m].bits, d, m = n)
  BY <1>1, <1>2, <1>3, MarkedType
<1>5. Listed' = Listed
  BY <1>4 DEF Listed
<1>6. /\ last' \in 0..(M - 1) /\ guarded' \in BOOLEAN /\ heard' \in [Nbrs -> SUBSET Seqs]
      /\ \A m \in Listed' : Records(neigh'[m].bits, heard'[m], last')
      /\ \A m \in Nbrs \ Listed : heard'[m] = {}
  BY <1>2, <1>4, <1>5, WindowsKept
<1>7. /\ sent' \in [Nbrs -> SUBSET Seqs] /\ again' = FALSE
      /\ \A m \in Nbrs \ {Orig} : sent'[m] \subseteq heard'[m]
  BY <1>2, PassingKept
<1>8. OgmTypeOK'
  <2>1. /\ lastTtl' = lastTtl /\ router' = router /\ stale' = stale /\ hand' = hand
        /\ missed' = missed /\ crossed' = crossed /\ purge' = purge /\ bestNeigh' = bestNeigh
    BY <1>2
  <2>2. /\ lastTtl \in Ttls \cup {0} /\ router \in Nbrs \cup {None} /\ stale \in Entry \cup {None}
        /\ hand \in [step : {"idle", "seen", "found", "better"}, n : Nbrs \cup {None},
                     tq : 0..MaxTq, ttl : Ttls \cup {0}, fresh : BOOLEAN,
                     lost : Entry \cup {None}, routed : BOOLEAN]
        /\ purge \in {"idle", "removed", "found"} /\ bestNeigh \in Nbrs \cup {None}
        /\ crossed \in BOOLEAN /\ missed \in [Nbrs -> 0..GW]
    BY <1>1 DEF OgmTypeOK
  <2>3. /\ lastTtl' \in Ttls \cup {0} /\ router' \in Nbrs \cup {None} /\ stale' \in Entry \cup {None}
        /\ hand' \in [step : {"idle", "seen", "found", "better"}, n : Nbrs \cup {None},
                      tq : 0..MaxTq, ttl : Ttls \cup {0}, fresh : BOOLEAN,
                      lost : Entry \cup {None}, routed : BOOLEAN]
        /\ purge' \in {"idle", "removed", "found"} /\ bestNeigh' \in Nbrs \cup {None}
        /\ crossed' \in BOOLEAN /\ missed' \in [Nbrs -> 0..GW]
    BY <2>1, <2>2
  <2> QED BY <1>4, <1>6, <1>7, <2>3 DEF OgmTypeOK
<1>9. Windows' /\ Routing' /\ PassedOnOnce'
  BY <1>1, <1>2, <1>5, <1>6, <1>7 DEF Windows, Routing, PassedOnOnce
<1> QED BY <1>8, <1>9 DEF OgmInv

\* The first half of the handler.
LEMMA RecvKeeps ==
  ASSUME OgmInv, NEW n \in Nbrs, NEW a \in Seqs, NEW tq \in 0..MaxTq, NEW ttl \in Ttls,
         Recv(n, a, tq, ttl)
  PROVE  OgmInv'
<1> DEFINE d == Diff(Wire(a), last)
           dup == DupStatus(n, Wire(a))
           list == IF n = Orig /\ neigh[n] = None
                   THEN [Marked(n, d) EXCEPT ![n] = NewEntry] ELSE Marked(n, d)
           passOn == PassesOn(n, dup, tq, ttl)
           seen == [NoHand EXCEPT !.step = "seen", !.n = n, !.tq = tq, !.ttl = ttl,
                                  !.fresh = (dup = "NO_DUP")]
<1>1. OgmTypeOK /\ Routing /\ last \in 0..(M - 1)
  BY DEF OgmInv, OgmTypeOK
<1>2. /\ UpdateSeqnos(n, a) /\ SentNext(n, a, d, passOn) /\ neigh' = list
      /\ hand' \in {seen, NoHand}
      /\ UNCHANGED <<lastTtl, router, stale, missed, crossed, purge, bestNeigh>>
  BY DEF Recv, purgeVars
<1>3. /\ seen \in [step : {"idle", "seen", "found", "better"}, n : Nbrs \cup {None},
                   tq : 0..MaxTq, ttl : Ttls \cup {0}, fresh : BOOLEAN,
                   lost : Entry \cup {None}, routed : BOOLEAN]
      /\ seen.step = "seen" /\ seen.n = n /\ seen.routed = FALSE
      /\ NoHand.step = "idle" /\ NoHand.routed = FALSE
  <2> DEFINE f == (dup = "NO_DUP")
  <2>1. f \in BOOLEAN
    OBVIOUS
  <2> HIDE DEF f, dup
  <2> QED BY <2>1, NoHandType DEF NoHand, f
<1>4. d \in Int
  BY <1>1, Differences
<1>5. /\ list \in [Nbrs -> Entry \cup {None}]
      /\ \A m \in Listed : list[m] # None /\ list[m].bits = GetPacket(neigh[m].bits, d, m = n)
      /\ \A m \in Nbrs \ Listed : list[m] # None => m = n /\ list[m].bits = {}
  <2> DEFINE marked == Marked(n, d)
  <2>1. /\ marked \in [Nbrs -> Entry \cup {None}]
        /\ \A m \in Nbrs : marked[m] # None <=> m \in Listed
        /\ \A m \in Listed : marked[m].bits = GetPacket(neigh[m].bits, d, m = n)
    BY <1>1, <1>4, MarkedType
  <2> HIDE DEF marked
  <2>2. CASE n = Orig /\ neigh[n] = None
    <3>1. list = [marked EXCEPT ![n] = NewEntry] /\ n \notin Listed
      BY <2>2 DEF marked, Listed
    <3> HIDE DEF list, d
    <3> QED BY <2>1, <3>1, NewEntryType, NoneAssumption DEF Listed
  <2>3. CASE ~(n = Orig /\ neigh[n] = None)
    <3>1. list = marked
      BY <2>3 DEF marked
    <3> HIDE DEF list, d
    <3> QED BY <2>1, <3>1 DEF Listed
  <2> QED BY <2>2, <2>3
<1> HIDE DEF list, seen
<1>6. Listed \subseteq Listed'
  BY <1>2, <1>5 DEF Listed
<1>7. /\ last' \in 0..(M - 1) /\ guarded' \in BOOLEAN /\ heard' \in [Nbrs -> SUBSET Seqs]
      /\ \A m \in Listed' : Records(neigh'[m].bits, heard'[m], last')
      /\ \A m \in Nbrs \ Listed : heard'[m] = {}
  BY <1>2, <1>5, <1>6, WindowsKept DEF Listed
<1>8. passOn /\ n # Orig /\ n \in Listed => ~TestBit(neigh[n].bits, last, Wire(a))
  <2>1. passOn /\ n # Orig => dup # "NEIGH_DUP"
    BY DEF PassesOn
  <2>2. n \in Listed /\ TestBit(neigh[n].bits, last, Wire(a)) => dup = "NEIGH_DUP"
    BY DEF DupStatus
  <2> QED BY <2>1, <2>2
<1>9. passOn \in BOOLEAN
  BY DEF PassesOn
<1> HIDE DEF passOn, dup
<1>10. /\ sent' \in [Nbrs -> SUBSET Seqs] /\ again' = FALSE
       /\ \A m \in Nbrs \ {Orig} : sent'[m] \subseteq heard'[m]
  BY <1>2, <1>8, <1>9, PassingKept
<1>11. OgmTypeOK'
  BY <1>1, <1>2, <1>3, <1>5, <1>7, <1>10, NoHandType DEF OgmTypeOK
<1>12. Windows' /\ PassedOnOnce'
  BY <1>6, <1>7, <1>10 DEF Windows, PassedOnOnce
<1>13. Routing'
  BY <1>1, <1>2, <1>3, <1>6 DEF Routing
<1> QED BY <1>11, <1>12, <1>13 DEF OgmInv

\* The other steps leave the windows alone.
LEMMA WindowsSame ==
  ASSUME OgmInv, UNCHANGED seqVars,
         \A m \in Listed : m \in Listed' /\ neigh'[m].bits = neigh[m].bits,
         \A m \in Nbrs \ Listed : m \in Listed' => neigh'[m].bits = {}
  PROVE  Windows' /\ PassedOnOnce'
<1>1. UNCHANGED <<last, heard, sent, again>>
  BY DEF seqVars
<1>2. ASSUME NEW m \in Listed'
      PROVE  Records(neigh'[m].bits, heard'[m], last')
  <2>1. CASE m \in Listed
    BY <1>1, <2>1 DEF OgmInv, Windows
  <2>2. CASE m \notin Listed
    <3>1. m \in Nbrs \ Listed
      BY <2>2 DEF Listed
    <3>2. neigh'[m].bits = {} /\ heard'[m] = {}
      BY <1>1, <3>1 DEF OgmInv, Windows
    <3> QED BY <3>2 DEF Records
  <2> QED BY <2>1, <2>2
<1>3. Nbrs \ Listed' \subseteq Nbrs \ Listed
  OBVIOUS
<1>4. PassedOnOnce'
  BY <1>1 DEF OgmInv, PassedOnOnce
<1> QED BY <1>1, <1>2, <1>3, <1>4 DEF OgmInv, Windows

LEMMA FindKeeps == OgmInv /\ FindNeigh => OgmInv'
<1> SUFFICES ASSUME OgmInv, FindNeigh PROVE OgmInv'
  OBVIOUS
<1>1. /\ hand.step = "seen" /\ neigh' = Ranked(neigh, hand.n, hand.fresh)
      /\ missed' = [m \in Nbrs |->
           IF m = hand.n THEN 0
           ELSE IF hand.fresh /\ missed[m] < GW THEN missed[m] + 1
           ELSE missed[m]]
      /\ hand' = [hand EXCEPT !.step = "found"]
      /\ UNCHANGED <<lastTtl, router, stale, crossed, last, guarded, heard, sent, again, purge, bestNeigh>>
      /\ UNCHANGED seqVars
  BY DEF FindNeigh, seqVars, purgeVars
<1>2. OgmTypeOK /\ Routing /\ hand.n \in Nbrs /\ hand.fresh \in BOOLEAN
      /\ neigh \in [Nbrs -> Entry \cup {None}]
  BY <1>1 DEF OgmInv, OgmTypeOK, Routing
<1>3. /\ neigh' \in [Nbrs -> Entry \cup {None}]
      /\ \A m \in Nbrs : neigh'[m] # None <=> neigh[m] # None \/ m = hand.n
      /\ \A m \in Nbrs : neigh[m] # None => neigh'[m].bits = neigh[m].bits
      /\ neigh[hand.n] = None => neigh'[hand.n].bits = {}
  BY <1>1, <1>2, RankedType
<1>4. Listed' = Listed \cup {hand.n}
  BY <1>2, <1>3 DEF Listed
<1>5. /\ \A m \in Listed : m \in Listed' /\ neigh'[m].bits = neigh[m].bits
      /\ \A m \in Nbrs \ Listed : m \in Listed' => neigh'[m].bits = {}
  BY <1>3, <1>4 DEF Listed
<1>6. missed' \in [Nbrs -> 0..GW]
  <2>1. 0 \in 0..GW /\ \A k \in 0..GW : k < GW => k + 1 \in 0..GW
    BY Numbers, SMT
  <2> QED BY <1>1, <1>2, <2>1 DEF OgmTypeOK
<1>7. OgmTypeOK'
  BY <1>1, <1>2, <1>3, <1>6 DEF OgmTypeOK
<1>8. Routing'
  BY <1>1, <1>2, <1>4 DEF Routing, OgmTypeOK
<1> QED BY <1>1, <1>5, <1>7, <1>8, WindowsSame DEF OgmInv

LEMMA RateKeeps == OgmInv /\ RateNeigh => OgmInv'
<1> SUFFICES ASSUME OgmInv, RateNeigh PROVE OgmInv'
  OBVIOUS
<1> DEFINE n     == hand.n
           there == hand.lost = None
           held  == IF there THEN neigh[n] ELSE hand.lost
           entry == RingSet(held, hand.tq)
           same  == router = n /\ IF there THEN stale = None ELSE hand.routed
           kept  == IF there THEN None ELSE entry
           more  == [NoHand EXCEPT !.step = "better", !.n = n, !.fresh = hand.fresh,
                                   !.lost = kept]
<1>1. /\ hand.step = "found"
      /\ neigh' = IF there THEN [neigh EXCEPT ![n] = entry] ELSE neigh
      /\ stale' = IF same /\ ~there THEN entry ELSE stale
      /\ lastTtl' = IF hand.fresh THEN hand.ttl ELSE lastTtl
      /\ hand' \in {more, NoHand}
      /\ UNCHANGED <<router, missed, crossed, last, guarded, heard, sent, again, purge, bestNeigh>>
      /\ UNCHANGED seqVars
  BY DEF RateNeigh, seqVars, purgeVars
<1>2. /\ OgmTypeOK /\ Routing /\ n \in Nbrs /\ hand.tq \in 0..MaxTq /\ hand.fresh \in BOOLEAN
      /\ neigh \in [Nbrs -> Entry \cup {None}] /\ hand.lost \in Entry \cup {None}
      /\ (there => n \in Listed) /\ (hand.routed => stale # None)
  BY <1>1 DEF OgmInv, OgmTypeOK, Routing
<1>3. held \in Entry
  BY <1>2 DEF Listed
<1>4. entry \in Entry /\ entry.bits = held.bits /\ entry # None
  BY <1>2, <1>3, RingSetType, NoneAssumption
<1>5. there => held = neigh[n] /\ n \in Listed
  BY <1>2
<1> HIDE DEF held, entry, n, there
<1>6. more \in [step : {"idle", "seen", "found", "better"}, n : Nbrs \cup {None},
                tq : 0..MaxTq, ttl : Ttls \cup {0}, fresh : BOOLEAN,
                lost : Entry \cup {None}, routed : BOOLEAN]
      /\ more.step = "better" /\ more.n = n /\ more.lost = kept /\ more.routed = FALSE
      /\ NoHand.step = "idle" /\ NoHand.routed = FALSE
  <2>1. kept \in Entry \cup {None}
    BY <1>4
  <2> HIDE DEF kept
  <2> QED BY <1>2, <2>1, NoHandType DEF NoHand
<1> HIDE DEF more
<1>7. /\ neigh' \in [Nbrs -> Entry \cup {None}] /\ Listed' = Listed
      /\ \A m \in Listed : m \in Listed' /\ neigh'[m].bits = neigh[m].bits
      /\ \A m \in Nbrs \ Listed : m \in Listed' => neigh'[m].bits = {}
  <2>1. CASE there
    <3>1. neigh' = [neigh EXCEPT ![n] = entry] /\ neigh[n] # None /\ entry.bits = neigh[n].bits
      BY <1>1, <1>4, <1>5, <2>1 DEF Listed
    <3>2. \A m \in Nbrs : neigh'[m] # None <=> neigh[m] # None
      BY <1>2, <1>4, <3>1
    <3>3. Listed' = Listed
      BY <3>2 DEF Listed
    <3> QED BY <1>2, <1>4, <3>1, <3>3 DEF Listed
  <2>2. CASE ~there
    BY <1>1, <1>2, <2>2 DEF Listed
  <2> QED BY <2>1, <2>2
<1>8. stale' \in Entry \cup {None} /\ (stale' # None <=> stale # None)
  <2>1. same /\ ~there => stale # None
    BY <1>2
  <2> QED BY <1>1, <1>2, <1>4, <2>1 DEF OgmTypeOK
<1>9. lastTtl' \in Ttls \cup {0}
  BY <1>1, <1>2 DEF OgmTypeOK
<1>10. OgmTypeOK'
  BY <1>1, <1>2, <1>6, <1>7, <1>8, <1>9, NoHandType DEF OgmTypeOK
<1>11. kept = None => n \in Listed
  BY <1>4, <1>5
<1> HIDE DEF kept
<1>12. Routing'
  BY <1>1, <1>2, <1>6, <1>7, <1>8, <1>11 DEF Routing
<1> QED BY <1>1, <1>7, <1>10, <1>12, WindowsSame DEF OgmInv

\* The second half ends: whatever is purged meanwhile, a router off the list is
\* known to be.
LEMMA UpdateKeeps == OgmInv /\ UpdateRoute => OgmInv'
<1> SUFFICES ASSUME OgmInv, UpdateRoute PROVE OgmInv'
  OBVIOUS
<1>1. /\ hand.step = "better" /\ router' = hand.n /\ stale' = hand.lost
      /\ crossed' = (hand.lost # None) /\ hand' = NoHand
      /\ UNCHANGED <<neigh, lastTtl, missed, last, guarded, heard, sent, again, purge, bestNeigh>>
      /\ UNCHANGED seqVars /\ Listed' = Listed
  BY DEF UpdateRoute, seqVars, purgeVars, Listed
<1>2. OgmTypeOK /\ Routing
  BY DEF OgmInv
<1>3. OgmTypeOK'
  BY <1>1, <1>2, NoHandType DEF OgmTypeOK
<1>4. Routing'
  BY <1>1, <1>2, NoneAssumption DEF Routing, NoHand
<1>5. /\ \A m \in Listed : m \in Listed' /\ neigh'[m].bits = neigh[m].bits
      /\ \A m \in Nbrs \ Listed : m \in Listed' => neigh'[m].bits = {}
  BY <1>1
<1> QED BY <1>1, <1>3, <1>4, <1>5, WindowsSame DEF OgmInv

\* Neighbours are taken off the list; the route and the handler know it.
LEMMA PurgingKeeps ==
  ASSUME OgmInv, NEW old \in SUBSET Nbrs, PurgeNeighbours(old)
  PROVE  OgmInv'
<1> DEFINE loses == hand.step \in {"found", "better"} /\ hand.n \in old /\ hand.lost = None
           routed == hand.step = "found" /\ router = hand.n /\ stale = None
           lost == [hand EXCEPT !.lost = neigh[hand.n], !.routed = routed]
<1>1. /\ neigh' = [n \in Nbrs |-> IF n \in old THEN None ELSE neigh[n]]
      /\ old \subseteq Listed
      /\ stale' = IF stale = None /\ router \in old THEN neigh[router] ELSE stale
      /\ hand' = IF loses THEN lost ELSE hand
      /\ heard' = [n \in Nbrs |-> IF n \in old THEN {} ELSE heard[n]]
      /\ sent' = [n \in Nbrs |-> IF n \in old THEN {} ELSE sent[n]]
      /\ missed' = [n \in Nbrs |-> IF n \in old THEN 0 ELSE missed[n]]
      /\ purge = "idle" /\ purge' = "removed"
      /\ UNCHANGED <<last, lastTtl, guarded, router, again, crossed, bestNeigh>>
  BY DEF PurgeNeighbours
<1>2. OgmTypeOK /\ Routing /\ Windows /\ PassedOnOnce
  BY DEF OgmInv
<1>3. \A n \in old : neigh[n] \in Entry /\ neigh[n] # None
  BY <1>1, <1>2 DEF Listed, OgmTypeOK
<1>4. Listed' = Listed \ old
  BY <1>1 DEF Listed
<1>5. stale' \in Entry \cup {None}
  BY <1>1, <1>2, <1>3 DEF OgmTypeOK
<1>6. /\ hand' \in [step : {"idle", "seen", "found", "better"}, n : Nbrs \cup {None},
                    tq : 0..MaxTq, ttl : Ttls \cup {0}, fresh : BOOLEAN,
                    lost : Entry \cup {None}, routed : BOOLEAN]
      /\ hand'.step = hand.step /\ hand'.n = hand.n
      /\ (loses => hand'.lost # None /\ (hand'.routed <=> routed))
      /\ (~loses => hand' = hand)
  <2>1. hand \in [step : {"idle", "seen", "found", "better"}, n : Nbrs \cup {None},
                  tq : 0..MaxTq, ttl : Ttls \cup {0}, fresh : BOOLEAN,
                  lost : Entry \cup {None}, routed : BOOLEAN]
    BY <1>2 DEF OgmTypeOK
  <2>2. loses => neigh[hand.n] \in Entry /\ neigh[hand.n] # None
    BY <1>3
  <2>3. routed \in BOOLEAN
    OBVIOUS
  <2> DEFINE e == neigh[hand.n]
  <2>4. CASE loses
    <3>1. hand' = [hand EXCEPT !.lost = e, !.routed = routed] /\ e \in Entry /\ e # None
      BY <1>1, <2>2, <2>4
    <3> HIDE DEF e, routed, lost, loses
    <3> QED BY <2>1, <2>3, <2>4, <3>1
  <2>5. CASE ~loses
    BY <1>1, <2>1, <2>5
  <2> QED BY <2>4, <2>5
<1>7. missed' \in [Nbrs -> 0..GW]
  <2>1. 0 \in 0..GW
    BY Numbers, SMT
  <2> QED BY <1>1, <1>2, <2>1 DEF OgmTypeOK
<1>8. OgmTypeOK'
  <2>1. /\ neigh' \in [Nbrs -> Entry \cup {None}]
        /\ heard' \in [Nbrs -> SUBSET Seqs] /\ sent' \in [Nbrs -> SUBSET Seqs]
    BY <1>1, <1>2 DEF OgmTypeOK
  <2> HIDE DEF lost, loses, routed
  <2> QED BY <1>1, <1>2, <1>5, <1>6, <1>7, <2>1 DEF OgmTypeOK
<1>9. Windows' /\ PassedOnOnce'
  <2>1. \A n \in Listed' : n \in Listed /\ neigh'[n] = neigh[n] /\ heard'[n] = heard[n]
    BY <1>1 DEF Listed
  <2>2. \A n \in Listed' : Records(neigh'[n].bits, heard'[n], last')
    BY <1>1, <1>2, <2>1 DEF Windows
  <2>3. \A n \in Nbrs \ Listed' : heard'[n] = {}
    BY <1>1, <1>2, <1>4 DEF Windows
  <2>4. \A n \in Nbrs \ {Orig} : sent'[n] \subseteq heard'[n]
    BY <1>1, <1>2 DEF Windows
  <2> QED BY <1>1, <1>2, <2>2, <2>3, <2>4 DEF Windows, PassedOnOnce
<1>10. Routing'
  <2>1. stale' = None => stale = None /\ router \notin old
    BY <1>1, <1>3
  <2>2. stale' = None /\ router' # None => router' \in Listed'
    BY <1>1, <1>2, <1>4, <2>1 DEF Routing
  <2>3. hand'.routed => stale' # None
    <3>1. CASE loses
      <4>1. hand'.routed => stale = None /\ router \in old
        BY <1>6, <3>1
      <4> QED BY <1>1, <1>3, <4>1
    <3>2. CASE ~loses
      <4>1. hand'.routed => stale # None
        BY <1>2, <1>6, <3>2 DEF Routing
      <4> QED BY <1>1, <4>1
    <3> QED BY <3>1, <3>2
  <2>4. hand'.step \in {"found", "better"} /\ hand'.lost = None => hand'.n \in Listed'
    <3>1. CASE loses
      BY <1>6, <3>1
    <3>2. CASE ~loses
      BY <1>2, <1>4, <1>6, <3>2 DEF Routing
    <3> QED BY <3>1, <3>2
  <2>5. hand'.step # "idle" => hand'.n \in Nbrs
    BY <1>2, <1>6 DEF Routing
  <2>6. purge' # "idle" /\ purge' # "found"
    BY <1>1
  <2> QED BY <2>2, <2>3, <2>4, <2>5, <2>6 DEF Routing
<1> QED BY <1>8, <1>9, <1>10 DEF OgmInv

\* The end of the purge, and the purge of the originator itself.
LEMMA PurgedKeeps == OgmInv /\ (FindBest \/ PurgeRoute \/ PurgeOrig) => OgmInv'
<1>1. ASSUME OgmInv, FindBest PROVE OgmInv'
  <2>1. /\ purge' = "found" /\ bestNeigh' \in BestNeighbours(neigh)
        /\ UNCHANGED <<neigh, lastTtl, router, stale, hand, missed, crossed>>
        /\ UNCHANGED <<last, guarded, heard, sent, again>>
        /\ UNCHANGED seqVars /\ Listed' = Listed
    BY <1>1 DEF FindBest, seqVars, Listed
  <2>2. bestNeigh' = None \/ bestNeigh' \in Listed
    BY <2>1 DEF BestNeighbours, Listed
  <2>3. OgmTypeOK'
    <3>1. bestNeigh' \in Nbrs \cup {None}
      BY <2>2 DEF Listed
    <3> QED BY <1>1, <2>1, <3>1 DEF OgmInv, OgmTypeOK
  <2>4. Routing'
    BY <1>1, <2>1, <2>2 DEF OgmInv, Routing
  <2>5. /\ \A m \in Listed : m \in Listed' /\ neigh'[m].bits = neigh[m].bits
        /\ \A m \in Nbrs \ Listed : m \in Listed' => neigh'[m].bits = {}
    BY <2>1
  <2> QED BY <1>1, <2>1, <2>3, <2>4, <2>5, WindowsSame DEF OgmInv
<1>2. ASSUME OgmInv, PurgeRoute PROVE OgmInv'
  <2>1. /\ purge = "found" /\ purge' = "idle" /\ bestNeigh' = None
        /\ router' = bestNeigh /\ stale' = None /\ crossed' = FALSE
        /\ hand' = [hand EXCEPT !.routed = FALSE]
        /\ UNCHANGED <<neigh, lastTtl, missed, last, guarded, heard, sent, again>>
        /\ UNCHANGED seqVars /\ Listed' = Listed
    BY <1>2 DEF PurgeRoute, seqVars, Listed
  <2>2. OgmTypeOK /\ Routing
    BY <1>2 DEF OgmInv
  <2>3. OgmTypeOK'
    BY <2>1, <2>2 DEF OgmTypeOK
  <2>4. hand'.routed = FALSE /\ hand'.step = hand.step /\ hand'.n = hand.n /\ hand'.lost = hand.lost
    BY <2>1, <2>2 DEF OgmTypeOK
  <2>5. Routing'
    BY <2>1, <2>2, <2>4 DEF Routing
  <2>6. /\ \A m \in Listed : m \in Listed' /\ neigh'[m].bits = neigh[m].bits
        /\ \A m \in Nbrs \ Listed : m \in Listed' => neigh'[m].bits = {}
    BY <2>1
  <2> QED BY <1>2, <2>1, <2>3, <2>5, <2>6, WindowsSame DEF OgmInv
<1>3. ASSUME OgmInv, PurgeOrig PROVE OgmInv'
  <2>1. 0 \in 0..(M - 1) /\ 0 \in 0..GW
    BY Numbers, SMT
  <2>2. purge = "idle" /\ UNCHANGED <<purge, bestNeigh>>
    BY <1>3 DEF PurgeOrig, purgeVars
  <2>3. OgmTypeOK'
    BY <1>3, <2>1, <2>2, NoHandType DEF PurgeOrig, OgmTypeOK, OgmInv
  <2>4. Listed' = {}
    BY <1>3 DEF PurgeOrig, Listed
  <2> QED BY <1>3, <2>2, <2>3, <2>4 DEF PurgeOrig, OgmInv, Windows, Routing, PassedOnOnce, NoHand
<1> QED BY <1>1, <1>2, <1>3

\* The invariant behind the next two theorems.
THEOREM OgmInvHolds == OgmSpec => []OgmInv
<1>1. OgmInv /\ ProtectionEnds => OgmInv'
  <2> SUFFICES ASSUME OgmInv, ProtectionEnds PROVE OgmInv'
    OBVIOUS
  <2>1. /\ UNCHANGED <<neigh, last, lastTtl, router, stale, hand, heard, sent, again, missed,
                       crossed, purge, bestNeigh>>
        /\ guarded' \in BOOLEAN /\ Listed' = Listed
    BY DEF ProtectionEnds, Listed, purgeVars
  <2>2. OgmTypeOK'
    BY <2>1 DEF OgmInv, OgmTypeOK
  <2>3. Windows' /\ PassedOnOnce'
    BY <2>1 DEF OgmInv, Windows, PassedOnOnce
  <2>4. Routing'
    BY <2>1 DEF OgmInv, Routing
  <2> QED BY <2>2, <2>3, <2>4 DEF OgmInv
<1>2. OgmInv /\ UNCHANGED ogmVars => OgmInv'
  BY DEF ogmVars, seqVars, purgeVars, OgmInv, OgmTypeOK, Windows, Routing, PassedOnOnce, Listed
<1>3. OgmInv /\ [OgmNext]_ogmVars => OgmInv'
  BY <1>1, <1>2, DroppedKeeps, RecvKeeps, FindKeeps, RateKeeps, UpdateKeeps, PurgingKeeps,
     PurgedKeeps DEF OgmNext
<1> QED BY InitOgm, <1>3, PTL DEF OgmSpec

\* Types, windows that are the history of what each neighbour delivered, also
\* across wraps, restarts and protection, and a router that is listed unless a
\* purge comes between the steps of orig_update (OgmConsistent), for every window
\* size, any order of arrival and any interleaving of the two.
THEOREM OgmIsConsistent == OgmSpec => []OgmConsistent
<1>1. OgmInv => OgmConsistent
  <2> SUFFICES ASSUME OgmInv PROVE WindowIsHistory /\ RouterIsListed
    BY DEF OgmInv, OgmConsistent
  <2>1. WindowIsHistory
    BY DEF OgmInv, Windows, WindowIsHistory, Records
  <2>2. RouterIsListed
    BY DEF OgmInv, Routing, RouterIsListed
  <2> QED BY <2>1, <2>2
<1> QED BY <1>1, OgmInvHolds, PTL

\* The flood of an OGM ends: however often and in whatever order its copies
\* come, a distant originator's OGM is passed on once for a neighbour of the list
\* (PassedOnOnce).
THEOREM OgmPassedOnOnce == OgmSpec => []PassedOnOnce
<1>1. OgmInv => PassedOnOnce
  BY DEF OgmInv
<1> QED BY <1>1, OgmInvHolds, PTL

-----------------------------------------------------------------------------
(***************************************************************************)
(* batctl traceroute and the icmp socket                                   *)
(***************************************************************************)
LEMMA SmallestNumber ==
  ASSUME NEW T \in SUBSET Nat, T # {}
  PROVE  \E x \in T : \A y \in T : x <= y
<1> DEFINE R == {ss \in Nat \X Nat : ss[1] < ss[2]}
<1>1. IsWellFoundedOn(R, Nat)
  BY NatLessThanWellFounded DEF OpToRel
<1> HIDE DEF R
<1>2. PICK x \in T : \A y \in T : ~(<<y, x>> \in R)
  BY <1>1, WFMin
<1>3. \A y \in T : ~(y < x)
  BY <1>2 DEF R
<1> QED BY <1>3

IcPackets ==
  [type : {"request", "reply", "exceeded", "unreachable"}, orig : Int, dst : Int,
   uid : IcSlots, seqno : Nat, ttl : Int, rr : Nat, at : Int]

IcPrograms ==
  [pc : {"open", "claim", "write", "read", "close", "closed"},
   kind : {"ping", "ping_rr", "traceroute"}, seq : Nat, left : Int, ttl : Nat, try : Nat,
   out : Nat, in : Nat, written : Nat, hops : [1 .. IcTtlMax -> Int], reached : BOOLEAN]

\* A client that has its slot, or had it.
Claimed(c) == icProg[c].pc \notin {"open", "claim"} /\ icIndex[c] # NoSlot

IcTyped ==
  /\ icSlot \in [IcSlots -> IcClients \cup {NoClient}]
  /\ icIndex \in [IcClients -> IcSlots \cup {NoSlot}]
  /\ icQueue \in [IcClients -> Seq(IcPackets)]
  /\ icProg \in [IcClients -> IcPrograms]
  /\ icNet \subseteq IcPackets
  /\ icAdding \subseteq [client : IcClients, packet : IcPackets]
  /\ icShared \subseteq IcClients

\* Slots, and the clients that found them: an index that was found stays, and
\* two clients that took the same slot are in icShared.
SlotsFound ==
  /\ \A c \in IcClients : icProg[c].pc \in {"claim", "write", "read", "close"} => icIndex[c] \in IcSlots
  /\ \A c \in IcClients : icProg[c].pc = "open" => icIndex[c] = NoSlot
  /\ \A i \in IcSlots, c \in IcClients : icSlot[i] = c => icIndex[c] = i /\ Claimed(c)
  /\ \A c \in IcClients \ icShared : \A d \in IcClients \ {c} :
       Claimed(c) /\ Claimed(d) /\ icIndex[c] = icIndex[d] => icIndex[c] = NoSlot

InQueue(c) == {icQueue[c][i] : i \in DOMAIN icQueue[c]}

\* The packets on the way, found a client for, or queued
Around ==
  icNet \cup {r.packet : r \in icAdding} \cup UNION {InQueue(c) : c \in IcClients}

\* Every packet carries the slot of a client that has it, and only answers
\* come to a client.
SlotsCarried ==
  /\ \A p \in icNet : \E c \in IcClients : Claimed(c) /\ icIndex[c] = p.uid
  /\ \A r \in icAdding, c \in IcClients :
       r.client = c => Claimed(c) /\ icIndex[c] = r.packet.uid /\ r.packet.type # "request"
  /\ \A c \in IcClients : \A p \in InQueue(c) :
       Claimed(c) /\ icIndex[c] = p.uid /\ p.type # "request"

\* What a packet of a request with the initial ttl T is, wherever it is.
OnItsWay(p, T) ==
  /\ p.type = "request" =>
       /\ p.orig = Host /\ p.dst = Target /\ p.at \in 2..Target
       /\ p.ttl >= 1 /\ p.ttl + p.at = T + 2
  /\ p.type = "reply" => p.orig = Target /\ Host + T >= Target
  /\ p.type = "exceeded" => p.orig = Host + T /\ Host + T < Target

\* No packet is of a later request than the client's last, and one of the last
\* was sent with the ttl the client is at.
Answers(p, c) ==
  /\ p.seqno <= icProg[c].seq
  /\ p.seqno = icProg[c].seq => OnItsWay(p, icProg[c].ttl)

AnswersFit ==
  \A c \in IcClients \ icShared :
    IcKind[c] = "traceroute" /\ Claimed(c) =>
      \A p \in Around : p.uid = icIndex[c] => Answers(p, c)

\* The node a traceroute names for a ttl
HopAt(t) == IF Host + t < Target THEN Host + t ELSE Target

HopsFit(c) ==
  LET pr == icProg[c]
  IN  /\ \A t \in 1 .. IcTtlMax : pr.hops[t] \in {0, HopAt(t)}
      /\ pr.reached => \E t \in 1 .. IcTtlMax : pr.hops[t] = Target

IcPrograming ==
  /\ \A c \in IcClients : icProg[c].kind = IcKind[c] /\ icProg[c].ttl \in 1 .. IcTtlMax
  /\ \A c \in IcClients \ icShared : HopsFit(c)

IcInv == IcTyped /\ SlotsFound /\ SlotsCarried /\ AnswersFit /\ IcPrograming

-----------------------------------------------------------------------------
LEMMA IcNumbers ==
  /\ Host = 1 /\ Target \in Nat /\ Target >= 2
  /\ IcTtlMax \in Nat /\ IcTtlMax >= 1
<1>1. Host = 1 /\ Target \in Nat /\ Target >= 2
  BY IcAssumption DEF Host, Target
<1>2. IcTtlMax \in Nat /\ IcTtlMax >= 1
  BY IcAssumption
<1> QED BY <1>1, <1>2

LEMMA NoSlotIsNone ==
  NoSlot \notin IcSlots
<1>1. NoSlot \notin Nat
  BY DEF NoSlot
<1> QED BY <1>1, IcAssumption

LEMMA TowardsIs ==
  ASSUME NEW n \in Int, NEW dst \in Int
  PROVE  Towards(n, dst) \in Int /\ (n < dst => Towards(n, dst) = n + 1)
BY DEF Towards

\* The route is recorded in the packet and nowhere else.
LEMMA RecordedIs ==
  ASSUME NEW p \in IcPackets
  PROVE  /\ recorded(p) \in IcPackets
         /\ recorded(p) = [p EXCEPT !.rr = recorded(p).rr]
<1> DEFINE n == p.rr + 1
<1>1. n \in Nat
  BY DEF IcPackets
<1> HIDE DEF n
<1>2. recorded(p) = p \/ recorded(p) = [p EXCEPT !.rr = n]
  BY DEF recorded, n
<1>3. [p EXCEPT !.rr = n] \in IcPackets /\ p = [p EXCEPT !.rr = p.rr]
  BY <1>1 DEF IcPackets
<1>4. [p EXCEPT !.rr = n].rr = n
  BY DEF IcPackets
<1> QED BY <1>2, <1>3, <1>4

LEMMA RecordedTravels ==
  ASSUME NEW p \in IcPackets
  PROVE  LET r == recorded(p)
         IN  /\ r.type = p.type /\ r.orig = p.orig /\ r.dst = p.dst /\ r.uid = p.uid
             /\ r.seqno = p.seqno /\ r.ttl = p.ttl /\ r.at = p.at
             /\ \A T : OnItsWay(p, T) => OnItsWay(r, T)
<1> DEFINE r == recorded(p)
<1>1. r = [p EXCEPT !.rr = r.rr] /\ r \in IcPackets
  BY RecordedIs
<1> HIDE DEF r
<1>2. /\ r.type = p.type /\ r.orig = p.orig /\ r.dst = p.dst /\ r.uid = p.uid
      /\ r.seqno = p.seqno /\ r.ttl = p.ttl /\ r.at = p.at
  BY <1>1 DEF IcPackets
<1> QED BY <1>2 DEF OnItsWay, r

\* What a node answers to a request, field by field
LEMMA AnswerIs ==
  ASSUME NEW p \in IcPackets, NEW type \in {"reply", "exceeded"}
  PROVE  LET q == answer_of(p, type)
         IN  /\ q \in IcPackets /\ q.type = type /\ q.orig = p.at
             /\ q.uid = p.uid /\ q.seqno = p.seqno
<1> DEFINE at == Towards(p.at, p.orig)
<1>1. at \in Int
  <2>1. p.at \in Int /\ p.orig \in Int
    BY DEF IcPackets
  <2> QED BY <2>1, TowardsIs
<1> HIDE DEF at
<1>2. answer_of(p, type) = [p EXCEPT !.type = type, !.dst = p.orig, !.orig = p.at,
                                     !.ttl = IcTtl, !.at = at]
  BY DEF answer_of, at
<1>3. answer_of(p, type) = [type |-> type, orig |-> p.at, dst |-> p.orig, uid |-> p.uid,
                            seqno |-> p.seqno, ttl |-> IcTtl, rr |-> p.rr, at |-> at]
  BY <1>2 DEF IcPackets
<1>4. answer_of(p, type) \in IcPackets
  BY <1>1, <1>3, IcAssumption DEF IcPackets
<1> QED BY <1>3, <1>4

\* The node that a request reaches answers what the initial ttl asks for.
LEMMA ForwardedTravels ==
  ASSUME NEW p \in IcPackets, p.at # p.dst, NEW q \in forwarded(p)
  PROVE  /\ q \in IcPackets /\ q.uid = p.uid /\ q.seqno = p.seqno
         /\ \A T \in Nat : OnItsWay(p, T) => OnItsWay(q, T)
<1>1. CASE p.ttl < 2
  <2>1. p.type = "request" /\ q = answer_of(p, "exceeded")
    BY <1>1 DEF forwarded
  <2>2. q \in IcPackets /\ q.type = "exceeded" /\ q.orig = p.at /\ q.uid = p.uid /\ q.seqno = p.seqno
    BY <2>1, AnswerIs
  <2>3. ASSUME NEW T \in Nat, OnItsWay(p, T)
        PROVE  OnItsWay(q, T)
    <3> DEFINE t == p.ttl
               a == p.at
    <3>1. /\ t \in Int /\ a \in Int /\ t >= 1 /\ t + a = T + 2 /\ a \in 2..Target
          /\ t < 2 /\ a # Target
      BY <1>1, <2>1, <2>3 DEF OnItsWay, IcPackets
    <3> HIDE DEF t, a
    <3>2. a = Host + T /\ Host + T < Target
      BY <3>1, IcNumbers
    <3> QED BY <2>2, <3>2 DEF OnItsWay, a
  <2> QED BY <2>2, <2>3
<1>2. CASE ~(p.ttl < 2)
  <2> DEFINE t == p.ttl
             a == p.at
             b == Towards(a, p.dst)
  <2>1. q = [p EXCEPT !.ttl = t - 1, !.at = b]
    BY <1>2 DEF forwarded
  <2>2. t \in Int /\ a \in Int /\ p.dst \in Int
    BY DEF IcPackets
  <2> DEFINE d == p.dst
  <2>9. a \in Int /\ d \in Int /\ b = Towards(a, d)
    BY <2>2
  <2>3. b \in Int /\ (a < d => b = a + 1) /\ t - 1 \in Int
    <3> HIDE DEF a, d, t, b
    <3>1. t \in Int
      BY <2>2
    <3> QED BY <2>9, <3>1, TowardsIs
  <2>4. ~(t < 2)
    BY <1>2
  <2> DEFINE u == t - 1
  <2> HIDE DEF b
  <2>5. u \in Int
    BY <2>3
  <2> HIDE DEF t, a, d, u
  <2>6. q = [type |-> p.type, orig |-> p.orig, dst |-> p.dst, uid |-> p.uid,
             seqno |-> p.seqno, ttl |-> u, rr |-> p.rr, at |-> b]
    BY <2>1 DEF IcPackets, u
  <2>7. q \in IcPackets
    BY <2>3, <2>5, <2>6 DEF IcPackets
  <2>8. ASSUME NEW T \in Nat, OnItsWay(p, T)
        PROVE  OnItsWay(q, T)
    <3>1. CASE p.type = "request"
      <4>1. t >= 1 /\ t + a = T + 2 /\ a \in 2..Target /\ a # Target /\ d = Target /\ p.orig = Host
        BY <2>8, <3>1 DEF OnItsWay, t, a, d
      <4>2. b = a + 1 /\ b \in 2..Target
        BY <2>2, <2>3, <4>1, IcNumbers
      <4>3. u >= 1 /\ u + b = T + 2
        BY <2>2, <2>4, <4>1, <4>2 DEF u
      <4> QED BY <2>6, <3>1, <4>1, <4>2, <4>3 DEF OnItsWay, d
    <3>2. CASE p.type # "request"
      BY <2>6, <2>8, <3>2 DEF OnItsWay
    <3> QED BY <3>1, <3>2
  <2> QED BY <2>6, <2>7, <2>8
<1> QED BY <1>1, <1>2

LEMMA ReplyTravels ==
  ASSUME NEW p \in IcPackets, p.at = p.dst, p.type = "request", NEW T \in Nat, OnItsWay(p, T)
  PROVE  OnItsWay(answer_of(p, "reply"), T)
<1> DEFINE t == p.ttl
           a == p.at
<1>1. t >= 1 /\ t + a = T + 2 /\ a = Target /\ t \in Int
  BY DEF OnItsWay, IcPackets
<1>2. answer_of(p, "reply").type = "reply" /\ answer_of(p, "reply").orig = a
  BY AnswerIs
<1> HIDE DEF t, a
<1>3. Host + T >= Target
  BY <1>1, IcNumbers
<1> QED BY <1>1, <1>2, <1>3 DEF OnItsWay

-----------------------------------------------------------------------------
(* The steps *)

LEMMA IcInitHolds ==
  ASSUME IcmpInit
  PROVE  IcInv
<1>1. \A c \in IcClients : Program(IcKind[c]) \in IcPrograms
  <2> TAKE c \in IcClients
  <2>1. IcKind[c] \in {"ping", "ping_rr", "traceroute"}
    BY IcAssumption
  <2> DEFINE k == IcKind[c]
             h == [t \in 1 .. IcTtlMax |-> 0]
  <2>2. h \in [1 .. IcTtlMax -> Int] /\ IcCount \in Int
    BY IcAssumption
  <2> HIDE DEF k, h
  <2>3. Program(k) = [pc |-> "open", kind |-> k, seq |-> 0, left |-> IcCount, ttl |-> 1,
                      try |-> 0, out |-> 0, in |-> 0, written |-> 0, hops |-> h, reached |-> FALSE]
    BY DEF Program, h
  <2>4. Program(k) \in IcPrograms
    BY <2>1, <2>2, <2>3 DEF IcPrograms, k
  <2> QED BY <2>4 DEF k
<1>2. \A c \in IcClients : icProg[c] = Program(IcKind[c])
  BY DEF IcmpInit
<1>3. \A c \in IcClients : /\ icProg[c].pc = "open" /\ icProg[c].kind = IcKind[c] /\ icProg[c].ttl = 1
                           /\ icProg[c].hops = [t \in 1 .. IcTtlMax |-> 0] /\ icProg[c].reached = FALSE
  <2> TAKE c \in IcClients
  <2> DEFINE h == [t \in 1 .. IcTtlMax |-> 0]
             k == IcKind[c]
             pr == icProg[c]
  <2>1. pr = [pc |-> "open", kind |-> k, seq |-> 0, left |-> IcCount, ttl |-> 1,
                   try |-> 0, out |-> 0, in |-> 0, written |-> 0, hops |-> h, reached |-> FALSE]
    BY <1>2 DEF Program
  <2> HIDE DEF h, k, pr
  <2>2. /\ pr.pc = "open" /\ pr.kind = k /\ pr.ttl = 1
        /\ pr.hops = h /\ pr.reached = FALSE
    BY <2>1
  <2> QED BY <2>2 DEF h, k, pr
<1>4. IcTyped
  <2>1. icQueue \in [IcClients -> Seq(IcPackets)]
    <3>1. <<>> \in Seq(IcPackets)
      OBVIOUS
    <3> QED BY <3>1 DEF IcmpInit
  <2>2. icProg \in [IcClients -> IcPrograms]
    BY <1>1 DEF IcmpInit
  <2> QED BY <2>1, <2>2 DEF IcmpInit, IcTyped
<1>5. SlotsFound
  BY <1>3, IcAssumption DEF IcmpInit, SlotsFound, Claimed
<1>6. SlotsCarried
  BY DEF IcmpInit, SlotsCarried, InQueue
<1>7. AnswersFit
  BY DEF IcmpInit, AnswersFit, Around, InQueue
<1>8. IcPrograming
  BY <1>3, IcNumbers DEF IcPrograming, HopsFit
<1> QED BY <1>4, <1>5, <1>6, <1>7, <1>8 DEF IcInv

-----------------------------------------------------------------------------
\* What a queue holds with one packet more, or one less.
LEMMA QueuedIs ==
  ASSUME NEW q \in Seq(IcPackets), NEW p \in IcPackets
  PROVE  /\ queued(q, p) \in Seq(IcPackets)
         /\ \A i \in DOMAIN queued(q, p) :
              queued(q, p)[i] = p \/ \E j \in DOMAIN q : queued(q, p)[i] = q[j]
<1> DEFINE r == Append(q, p)
<1>1. /\ r \in Seq(IcPackets) /\ Len(r) = Len(q) + 1 /\ Len(q) \in Nat
      /\ DOMAIN r = 1 .. Len(r) /\ DOMAIN q = 1 .. Len(q)
      /\ \A i \in 1 .. Len(r) : r[i] = p \/ (i \in 1 .. Len(q) /\ r[i] = q[i])
  OBVIOUS
<1> HIDE DEF r
<1>2. CASE Len(r) > IcQueueMax
  <2>1. queued(q, p) = Tail(r)
    BY <1>2 DEF queued, r
  <2>2. r # <<>>
    BY <1>1
  <2>3. /\ Tail(r) \in Seq(IcPackets) /\ DOMAIN Tail(r) = 1 .. (Len(r) - 1)
        /\ \A i \in 1 .. (Len(r) - 1) : Tail(r)[i] = r[i + 1] /\ i + 1 \in 1 .. Len(r)
    BY <1>1, <2>2
  <2> QED BY <1>1, <2>1, <2>3
<1>3. CASE ~(Len(r) > IcQueueMax)
  <2>1. queued(q, p) = r
    BY <1>3 DEF queued, r
  <2> QED BY <1>1, <2>1
<1> QED BY <1>2, <1>3

LEMMA TailIs ==
  ASSUME NEW q \in Seq(IcPackets), q # <<>>
  PROVE  /\ Tail(q) \in Seq(IcPackets) /\ Head(q) \in IcPackets
         /\ \E j \in DOMAIN q : Head(q) = q[j]
         /\ \A i \in DOMAIN Tail(q) : \E j \in DOMAIN q : Tail(q)[i] = q[j]
<1>1. Len(q) \in Nat /\ DOMAIN q = 1 .. Len(q) /\ Len(q) >= 1 /\ Head(q) = q[1]
  OBVIOUS
<1>2. /\ Tail(q) \in Seq(IcPackets) /\ DOMAIN Tail(q) = 1 .. (Len(q) - 1)
      /\ \A i \in 1 .. (Len(q) - 1) : Tail(q)[i] = q[i + 1] /\ i + 1 \in 1 .. Len(q)
  BY <1>1
<1>3. Head(q) \in IcPackets /\ 1 \in DOMAIN q
  BY <1>1
<1> QED BY <1>1, <1>2, <1>3

\* The packets and the programs have their types.
LEMMA IcElements ==
  ASSUME IcTyped
  PROVE  /\ Around \subseteq IcPackets
         /\ \A c \in IcClients :
              /\ icProg[c] \in IcPrograms /\ icProg[c].seq \in Nat /\ icProg[c].ttl \in Nat
              /\ icIndex[c] \in IcSlots \cup {NoSlot}
<1>1. \A c \in IcClients : InQueue(c) \subseteq IcPackets
  <2> TAKE c \in IcClients
  <2>1. icQueue[c] \in Seq(IcPackets)
    BY DEF IcTyped
  <2> QED BY <2>1 DEF InQueue
<1>2. \A r \in icAdding : r.packet \in IcPackets
  BY DEF IcTyped
<1>3. \A c \in IcClients : icProg[c] \in IcPrograms
  BY DEF IcTyped
<1> QED BY <1>1, <1>2, <1>3 DEF Around, IcTyped, IcPrograms

\* Every packet is of a client that took its slot.
LEMMA OwnerIs ==
  ASSUME IcTyped, SlotsCarried, NEW p \in Around
  PROVE  \E c \in IcClients : Claimed(c) /\ icIndex[c] = p.uid
<1>1. CASE p \in icNet
  BY <1>1 DEF SlotsCarried
<1>2. CASE \E r \in icAdding : p = r.packet
  <2>1. PICK r \in icAdding : p = r.packet
    BY <1>2
  <2>2. r.client \in IcClients
    BY DEF IcTyped
  <2> QED BY <2>1, <2>2 DEF SlotsCarried
<1>3. CASE \E c \in IcClients : p \in InQueue(c)
  BY <1>3 DEF SlotsCarried
<1> QED BY <1>1, <1>2, <1>3 DEF Around

\* A packet p comes of the packet q of the same request.
ComesOf(p, q) ==
  /\ p.uid = q.uid /\ p.seqno = q.seqno
  /\ \A T \in Nat : OnItsWay(q, T) => OnItsWay(p, T)

\* No new request, and no client that has a new slot or a new request
LEMMA FitKept ==
  ASSUME IcTyped, AnswersFit, icShared \subseteq icShared',
         \A p \in Around' : \E q \in Around : ComesOf(p, q),
         \A c \in IcClients \ icShared' :
           Claimed(c)' => /\ Claimed(c) /\ icIndex'[c] = icIndex[c]
                          /\ icProg'[c].seq = icProg[c].seq /\ icProg'[c].ttl = icProg[c].ttl
  PROVE  AnswersFit'
<1> SUFFICES ASSUME NEW c \in IcClients \ icShared', IcKind[c] = "traceroute", Claimed(c)',
                    NEW p \in Around', p.uid = icIndex'[c]
             PROVE  Answers(p, c)'
  BY DEF AnswersFit
<1>1. PICK q \in Around : ComesOf(p, q)
  OBVIOUS
<1>2. /\ c \in IcClients \ icShared /\ Claimed(c) /\ q.uid = icIndex[c]
      /\ icProg'[c].seq = icProg[c].seq /\ icProg'[c].ttl = icProg[c].ttl
  BY <1>1 DEF ComesOf
<1>3. Answers(q, c)
  BY <1>2 DEF AnswersFit
<1>4. icProg[c].ttl \in Nat
  BY <1>2, IcElements
<1>5. p.seqno = q.seqno /\ (OnItsWay(q, icProg[c].ttl) => OnItsWay(p, icProg[c].ttl))
  BY <1>1, <1>4 DEF ComesOf
<1> QED BY <1>2, <1>3, <1>5 DEF Answers, OnItsWay

\* The packets that are left are as they were.
LEMMA SamePackets ==
  ASSUME Around' \subseteq Around
  PROVE  \A p \in Around' : \E q \in Around : ComesOf(p, q)
BY DEF ComesOf

\* A step of one program that keeps its slot and what it knows
LEMMA ProgramMoves ==
  ASSUME IcInv, NEW c \in IcClients, NEW new \in IcPrograms,
         icProg' = [icProg EXCEPT ![c] = new], UNCHANGED <<icIndex, icShared>>,
         Claimed(c) <=> Claimed(c)', new.pc \notin {"claim"},
         new.kind = icProg[c].kind, new.ttl = icProg[c].ttl
  PROVE  /\ icProg' \in [IcClients -> IcPrograms] /\ icProg'[c] = new
         /\ \A d \in IcClients \ {c} : icProg'[d] = icProg[d]
         /\ \A d \in IcClients : Claimed(d) <=> Claimed(d)'
         /\ \A d \in IcClients : icProg'[d].kind = IcKind[d] /\ icProg'[d].ttl \in 1 .. IcTtlMax
<1>1. icProg \in [IcClients -> IcPrograms]
  BY DEF IcInv, IcTyped
<1>2. /\ icProg' \in [IcClients -> IcPrograms] /\ icProg'[c] = new
      /\ \A d \in IcClients \ {c} : icProg'[d] = icProg[d]
  BY <1>1
<1>3. \A d \in IcClients : Claimed(d) <=> Claimed(d)'
  BY <1>2 DEF Claimed
<1> QED BY <1>2, <1>3 DEF IcInv, IcPrograming

\* The parts of the invariant that a step of one program changes nothing of
LEMMA OpenFindKeeps ==
  ASSUME IcInv, NEW c \in IcClients, socket_open_find(c)
  PROVE  IcInv'
<1>0. IcTyped /\ SlotsFound /\ SlotsCarried /\ AnswersFit /\ IcPrograming
  BY DEF IcInv
<1>1. /\ icProg[c].pc = "open" /\ UNCHANGED <<icSlot, icQueue, icNet, icAdding, icShared>>
  BY DEF socket_open_find
<1>2. PICK pc \in {"closed", "claim"}, new \in IcSlots \cup {NoSlot} :
        /\ icProg' = [icProg EXCEPT ![c].pc = pc]
        /\ icIndex' = IF pc = "claim" THEN [icIndex EXCEPT ![c] = new] ELSE icIndex
        /\ pc = "claim" => new \in IcSlots
  <2>1. CASE Free = {}
    BY <2>1 DEF socket_open_find
  <2>2. CASE Free # {}
    <3> DEFINE new == CHOOSE i \in Free : \A j \in Free : i <= j
    <3>1. Free \in SUBSET Nat /\ Free \subseteq IcSlots
      BY IcAssumption DEF Free
    <3>2. \E i \in Free : \A j \in Free : i <= j
      BY <2>2, <3>1, SmallestNumber
    <3>3. new \in IcSlots
      BY <3>1, <3>2
    <3>4. icProg' = [icProg EXCEPT ![c].pc = "claim"] /\ icIndex' = [icIndex EXCEPT ![c] = new]
      BY <2>2 DEF socket_open_find
    <3> HIDE DEF new
    <3> QED BY <3>3, <3>4
  <2> QED BY <2>1, <2>2
<1>3. /\ icIndex' \in [IcClients -> IcSlots \cup {NoSlot}]
      /\ \A d \in IcClients \ {c} : icIndex'[d] = icIndex[d]
      /\ pc = "claim" => icIndex'[c] \in IcSlots
      /\ pc = "closed" => icIndex'[c] = icIndex[c]
  BY <1>0, <1>2 DEF IcTyped
<1>4. /\ icProg' \in [IcClients -> IcPrograms] /\ icProg'[c] = [icProg[c] EXCEPT !.pc = pc]
      /\ \A d \in IcClients \ {c} : icProg'[d] = icProg[d]
  <2>1. icProg \in [IcClients -> IcPrograms] /\ icProg[c] \in IcPrograms
    BY <1>0 DEF IcTyped
  <2>2. [icProg[c] EXCEPT !.pc = pc] \in IcPrograms
    BY <2>1 DEF IcPrograms
  <2> QED BY <1>2, <2>1, <2>2
<1>5. /\ icProg'[c].pc = pc /\ icProg'[c].kind = icProg[c].kind /\ icProg'[c].ttl = icProg[c].ttl
      /\ icProg'[c].hops = icProg[c].hops /\ icProg'[c].reached = icProg[c].reached
  <2>1. icProg[c] \in IcPrograms
    BY <1>0 DEF IcTyped
  <2> QED BY <1>4, <2>1 DEF IcPrograms
<1>6. ~Claimed(c) /\ (pc = "closed" => icIndex[c] = NoSlot)
  BY <1>0, <1>1 DEF Claimed, SlotsFound
<1>7. ~Claimed(c)'
  BY <1>3, <1>5, <1>6 DEF Claimed
<1>8. \A d \in IcClients \ {c} : Claimed(d)' <=> Claimed(d)
  BY <1>3, <1>4 DEF Claimed
<1>9. IcTyped'
  BY <1>0, <1>1, <1>3, <1>4 DEF IcTyped
<1>10. SlotsFound'
  <2>1. \A d \in IcClients : icProg'[d].pc \in {"claim", "write", "read", "close"} => icIndex'[d] \in IcSlots
    BY <1>0, <1>3, <1>4, <1>5 DEF SlotsFound
  <2>2. ASSUME NEW i \in IcSlots, NEW d \in IcClients, icSlot'[i] = d
        PROVE  icIndex'[d] = i /\ Claimed(d)'
    <3>1. icIndex[d] = i /\ Claimed(d)
      BY <1>0, <1>1, <2>2 DEF SlotsFound
    <3>2. d # c
      BY <1>6, <3>1
    <3> QED BY <1>3, <1>8, <3>1, <3>2
  <2>4. \A d \in IcClients : icProg'[d].pc = "open" => icIndex'[d] = NoSlot
    BY <1>0, <1>3, <1>4, <1>5 DEF SlotsFound
  <2>3. \A d \in IcClients \ icShared' : \A e \in IcClients \ {d} :
           Claimed(d)' /\ Claimed(e)' /\ icIndex'[d] = icIndex'[e] => icIndex'[d] = NoSlot
    BY <1>0, <1>1, <1>3, <1>7, <1>8 DEF SlotsFound
  <2> QED BY <2>1, <2>2, <2>3, <2>4 DEF SlotsFound
<1>11. Around' = Around /\ \A d \in IcClients : InQueue(d)' = InQueue(d)
  BY <1>1 DEF Around, InQueue
<1>12. SlotsCarried'
  <2>1. \A d \in IcClients : Claimed(d) => Claimed(d)' /\ icIndex'[d] = icIndex[d]
    BY <1>3, <1>6, <1>8
  <2> QED BY <1>0, <1>1, <1>11, <2>1 DEF SlotsCarried
<1>13. AnswersFit'
  <2>1. \A d \in IcClients \ icShared' :
           Claimed(d)' => /\ Claimed(d) /\ icIndex'[d] = icIndex[d]
                          /\ icProg'[d].seq = icProg[d].seq /\ icProg'[d].ttl = icProg[d].ttl
    BY <1>3, <1>4, <1>7, <1>8
  <2>2. \A p \in Around' : \E q \in Around : ComesOf(p, q)
    BY <1>11, SamePackets
  <2>3. icShared \subseteq icShared'
    BY <1>1
  <2> QED BY <1>0, <2>1, <2>2, <2>3, FitKept
<1>14. IcPrograming'
  <2>1. ASSUME NEW d \in IcClients PROVE HopsFit(d) <=> HopsFit(d)'
    <3>1. icProg'[d].hops = icProg[d].hops /\ icProg'[d].reached = icProg[d].reached
      BY <1>4, <1>5
    <3> QED BY <3>1 DEF HopsFit, HopAt
  <2> QED BY <1>0, <1>1, <1>4, <1>5, <2>1 DEF IcPrograming
<1> QED BY <1>9, <1>10, <1>12, <1>13, <1>14 DEF IcInv

LEMMA OpenClaimKeeps ==
  ASSUME IcInv, NEW c \in IcClients, socket_open_claim(c)
  PROVE  IcInv'
<1> DEFINE same == {d \in IcClients \ {c} : icIndex[d] = icIndex[c]}
           new == [icProg[c] EXCEPT !.pc = "write"]
<1>0. IcTyped /\ SlotsFound /\ SlotsCarried /\ AnswersFit /\ IcPrograming
  BY DEF IcInv
<1>1. /\ icProg[c].pc = "claim" /\ UNCHANGED <<icIndex, icQueue, icNet, icAdding>>
      /\ icSlot' = [icSlot EXCEPT ![icIndex[c]] = c] /\ icProg' = [icProg EXCEPT ![c] = new]
      /\ icShared' = icShared \cup (IF same = {} THEN {} ELSE same \cup {c})
  BY DEF socket_open_claim
<1>2. icProg[c] \in IcPrograms /\ icProg \in [IcClients -> IcPrograms]
  BY <1>0 DEF IcTyped
<1>3. /\ new \in IcPrograms /\ new.pc = "write" /\ new.kind = icProg[c].kind /\ new.ttl = icProg[c].ttl
      /\ new.hops = icProg[c].hops /\ new.reached = icProg[c].reached
  BY <1>2 DEF IcPrograms
<1> HIDE DEF new
<1>4. /\ icProg' \in [IcClients -> IcPrograms] /\ icProg'[c] = new
      /\ \A d \in IcClients \ {c} : icProg'[d] = icProg[d]
  BY <1>1, <1>2, <1>3
<1>5. icIndex[c] \in IcSlots /\ icIndex[c] # NoSlot
  BY <1>0, <1>1, NoSlotIsNone DEF SlotsFound
<1>6. ~Claimed(c) /\ Claimed(c)' /\ \A d \in IcClients \ {c} : Claimed(d)' <=> Claimed(d)
  BY <1>1, <1>3, <1>4, <1>5 DEF Claimed
<1>7. \A d \in IcClients : Claimed(d) => Claimed(d)'
  BY <1>6
<1>8. icShared \subseteq icShared' /\ icShared' \subseteq IcClients
      /\ \A d \in IcClients \ {c} : icIndex[d] = icIndex[c] => d \in icShared' /\ c \in icShared'
  BY <1>0, <1>1 DEF IcTyped
<1>9. icSlot' \in [IcSlots -> IcClients \cup {NoClient}]
  BY <1>0, <1>1 DEF IcTyped
<1>10. IcTyped'
  BY <1>0, <1>1, <1>4, <1>8, <1>9 DEF IcTyped
<1>11. SlotsFound'
  <2>1. \A d \in IcClients : icProg'[d].pc \in {"claim", "write", "read", "close"} => icIndex'[d] \in IcSlots
    BY <1>0, <1>1, <1>4, <1>5 DEF SlotsFound
  <2>2. ASSUME NEW i \in IcSlots, NEW d \in IcClients, icSlot'[i] = d
        PROVE  icIndex'[d] = i /\ Claimed(d)'
    <3>1. CASE i = icIndex[c]
      <4>1. icSlot'[i] = c
        BY <1>0, <1>1, <3>1 DEF IcTyped
      <4> QED BY <1>1, <1>6, <2>2, <3>1, <4>1
    <3>2. CASE i # icIndex[c]
      <4>1. icSlot'[i] = icSlot[i]
        BY <1>0, <1>1, <3>2 DEF IcTyped
      <4> QED BY <1>0, <1>1, <1>7, <2>2, <4>1 DEF SlotsFound
    <3> QED BY <3>1, <3>2
  <2>3. ASSUME NEW d \in IcClients \ icShared', NEW e \in IcClients \ {d},
               Claimed(d)', Claimed(e)', icIndex'[d] = icIndex'[e]
        PROVE  icIndex'[d] = NoSlot
    <3>1. d # c /\ e # c
      BY <1>1, <1>8, <2>3
    <3> QED BY <1>0, <1>1, <1>6, <1>8, <2>3, <3>1 DEF SlotsFound
  <2>4. \A d \in IcClients : icProg'[d].pc = "open" => icIndex'[d] = NoSlot
    BY <1>0, <1>1, <1>3, <1>4 DEF SlotsFound
  <2> QED BY <2>1, <2>2, <2>3, <2>4 DEF SlotsFound
<1>12. Around' = Around /\ \A d \in IcClients : InQueue(d)' = InQueue(d)
  BY <1>1 DEF Around, InQueue
<1>13. SlotsCarried'
  BY <1>0, <1>1, <1>7, <1>12 DEF SlotsCarried
\* Nothing carries a slot before it is taken, but for a client that shares it.
<1>14. AnswersFit'
  <2> SUFFICES ASSUME NEW d \in IcClients \ icShared', IcKind[d] = "traceroute", Claimed(d)',
                      NEW p \in Around', p.uid = icIndex'[d]
               PROVE  Answers(p, d)'
    BY DEF AnswersFit
  <2>1. PICK e \in IcClients : Claimed(e) /\ icIndex[e] = p.uid
    BY <1>0, <1>12, OwnerIs
  <2>2. d # c
    <3> SUFFICES ASSUME d = c PROVE FALSE
      OBVIOUS
    <3>1. e # c
      BY <1>6, <2>1
    <3> QED BY <1>1, <1>8, <2>1, <3>1
  <2>3. Answers(p, d)
    BY <1>0, <1>1, <1>6, <1>8, <1>12, <2>2 DEF AnswersFit
  <2> QED BY <1>4, <2>2, <2>3 DEF Answers, OnItsWay
<1>15. IcPrograming'
  <2>1. ASSUME NEW d \in IcClients PROVE HopsFit(d) <=> HopsFit(d)'
    <3>1. icProg'[d].hops = icProg[d].hops /\ icProg'[d].reached = icProg[d].reached
      BY <1>3, <1>4
    <3> QED BY <3>1 DEF HopsFit, HopAt
  <2> QED BY <1>0, <1>3, <1>4, <1>8, <2>1 DEF IcPrograming
<1> QED BY <1>10, <1>11, <1>13, <1>14, <1>15 DEF IcInv

LEMMA ReleaseKeeps ==
  ASSUME IcInv, NEW c \in IcClients, socket_release(c)
  PROVE  IcInv'
<1> DEFINE new == [icProg[c] EXCEPT !.pc = "closed"]
<1>0. IcTyped /\ SlotsFound /\ SlotsCarried /\ AnswersFit /\ IcPrograming
  BY DEF IcInv
<1>1. /\ icProg[c].pc = "close" /\ UNCHANGED <<icIndex, icNet, icAdding, icShared>>
      /\ icSlot' = [icSlot EXCEPT ![icIndex[c]] = NoClient] /\ icProg' = [icProg EXCEPT ![c] = new]
      /\ icQueue' = [icQueue EXCEPT ![c] = <<>>]
  BY DEF socket_release
<1>2. icProg[c] \in IcPrograms /\ icProg \in [IcClients -> IcPrograms]
  BY <1>0 DEF IcTyped
<1>3. /\ new \in IcPrograms /\ new.pc = "closed" /\ new.kind = icProg[c].kind /\ new.ttl = icProg[c].ttl
      /\ new.hops = icProg[c].hops /\ new.reached = icProg[c].reached /\ new.seq = icProg[c].seq
  BY <1>2 DEF IcPrograms
<1> HIDE DEF new
<1>4. Claimed(c) /\ icIndex[c] \in IcSlots
  BY <1>0, <1>1, NoSlotIsNone DEF Claimed, SlotsFound
<1>5. Claimed(c) <=> Claimed(c)'
  BY <1>1, <1>2, <1>3, <1>4 DEF Claimed
<1>6. /\ icProg' \in [IcClients -> IcPrograms] /\ icProg'[c] = new
      /\ \A d \in IcClients \ {c} : icProg'[d] = icProg[d]
      /\ \A d \in IcClients : Claimed(d) <=> Claimed(d)'
      /\ \A d \in IcClients : icProg'[d].kind = IcKind[d] /\ icProg'[d].ttl \in 1 .. IcTtlMax
  BY <1>1, <1>3, <1>5, ProgramMoves
<1>7. /\ icQueue' \in [IcClients -> Seq(IcPackets)]
      /\ \A d \in IcClients : InQueue(d)' \subseteq InQueue(d)
  <2>1. <<>> \in Seq(IcPackets) /\ DOMAIN <<>> = {}
    OBVIOUS
  <2>2. icQueue \in [IcClients -> Seq(IcPackets)]
    BY <1>0 DEF IcTyped
  <2>3. icQueue'[c] = <<>> /\ \A d \in IcClients \ {c} : icQueue'[d] = icQueue[d]
    BY <1>1, <2>2
  <2>4. \A d \in IcClients : InQueue(d)' \subseteq InQueue(d)
    BY <2>1, <2>3 DEF InQueue
  <2> QED BY <1>1, <2>1, <2>2, <2>4
<1>8. IcTyped'
  BY <1>0, <1>1, <1>6, <1>7 DEF IcTyped
<1>9. SlotsFound'
  <2>1. \A i \in IcSlots, d \in IcClients : icSlot'[i] = d => icSlot[i] = d
    BY <1>0, <1>1, IcAssumption DEF IcTyped
  <2>2. \A d \in IcClients : /\ icProg'[d].pc \in {"claim", "write", "read", "close"}
                                  => icIndex'[d] \in IcSlots
                             /\ icProg'[d].pc = "open" => icIndex'[d] = NoSlot
    BY <1>0, <1>1, <1>3, <1>6 DEF SlotsFound
  <2> QED BY <1>0, <1>1, <1>6, <2>1, <2>2 DEF SlotsFound
<1>10. SlotsCarried'
  BY <1>0, <1>1, <1>6, <1>7 DEF SlotsCarried
<1>11. Around' \subseteq Around
  BY <1>1, <1>7 DEF Around
<1>12. AnswersFit'
  <2>1. \A d \in IcClients \ icShared' :
           Claimed(d)' => /\ Claimed(d) /\ icIndex'[d] = icIndex[d]
                          /\ icProg'[d].seq = icProg[d].seq /\ icProg'[d].ttl = icProg[d].ttl
    BY <1>1, <1>3, <1>6
  <2>2. \A p \in Around' : \E q \in Around : ComesOf(p, q)
    BY <1>11, SamePackets
  <2>3. icShared \subseteq icShared'
    BY <1>1
  <2> QED BY <1>0, <2>1, <2>2, <2>3, FitKept
<1>13. IcPrograming'
  <2>1. ASSUME NEW d \in IcClients PROVE HopsFit(d) <=> HopsFit(d)'
    <3>1. icProg'[d].hops = icProg[d].hops /\ icProg'[d].reached = icProg[d].reached
      BY <1>3, <1>6
    <3> QED BY <3>1 DEF HopsFit, HopAt
  <2> QED BY <1>0, <1>1, <1>6, <2>1 DEF IcPrograming
<1> QED BY <1>8, <1>9, <1>10, <1>12, <1>13 DEF IcInv

\* The slots of the programs, when one that has its slot keeps it
LEMMA SlotsStay ==
  ASSUME SlotsFound, UNCHANGED <<icSlot, icIndex, icShared>>,
         \A d \in IcClients : Claimed(d) <=> Claimed(d)',
         NEW c \in IcClients, \A d \in IcClients \ {c} : icProg'[d] = icProg[d],
         icProg[c].pc \in {"write", "read"}, icProg'[c].pc \in {"write", "read", "close"}
  PROVE  SlotsFound'
<1>1. \A d \in IcClients : /\ icProg'[d].pc \in {"claim", "write", "read", "close"}
                                => icIndex'[d] \in IcSlots
                           /\ icProg'[d].pc = "open" => icIndex'[d] = NoSlot
  BY DEF SlotsFound
<1> QED BY <1>1 DEF SlotsFound

\* An interrupted or timed out program: only its pc and its count of packets sent move.
LEMMA PcMoves ==
  ASSUME IcInv, NEW c \in IcClients, icProg[c].pc \in {"write", "read"}, NEW new \in IcPrograms,
         new.pc \in {"write", "close"}, icProg' = [icProg EXCEPT ![c] = new],
         new.kind = icProg[c].kind, new.ttl = icProg[c].ttl, new.seq = icProg[c].seq,
         new.hops = icProg[c].hops, new.reached = icProg[c].reached,
         UNCHANGED <<icSlot, icIndex, icQueue, icNet, icAdding, icShared>>
  PROVE  IcInv'
<1>0. IcTyped /\ SlotsFound /\ SlotsCarried /\ AnswersFit /\ IcPrograming
  BY DEF IcInv
<1>1. icProg \in [IcClients -> IcPrograms]
  BY <1>0 DEF IcTyped
<1>2. Claimed(c) <=> Claimed(c)'
  BY <1>1 DEF Claimed
<1>3. /\ icProg' \in [IcClients -> IcPrograms] /\ icProg'[c] = new
      /\ \A d \in IcClients \ {c} : icProg'[d] = icProg[d]
      /\ \A d \in IcClients : Claimed(d) <=> Claimed(d)'
      /\ \A d \in IcClients : icProg'[d].kind = IcKind[d] /\ icProg'[d].ttl \in 1 .. IcTtlMax
  BY <1>2, ProgramMoves
<1>4. IcTyped'
  BY <1>0, <1>3 DEF IcTyped
<1>5. SlotsFound'
  BY <1>0, <1>3, SlotsStay
<1>6. Around' = Around /\ \A d \in IcClients : InQueue(d)' = InQueue(d)
  BY DEF Around, InQueue
<1>7. SlotsCarried'
  BY <1>0, <1>3, <1>6 DEF SlotsCarried
<1>8. AnswersFit'
  <2>1. \A d \in IcClients \ icShared' :
           Claimed(d)' => /\ Claimed(d) /\ icIndex'[d] = icIndex[d]
                          /\ icProg'[d].seq = icProg[d].seq /\ icProg'[d].ttl = icProg[d].ttl
    BY <1>3
  <2>2. \A p \in Around' : \E q \in Around : ComesOf(p, q)
    BY <1>6, SamePackets
  <2> QED BY <1>0, <2>1, <2>2, FitKept
<1>9. IcPrograming'
  <2>1. ASSUME NEW d \in IcClients PROVE HopsFit(d) <=> HopsFit(d)'
    <3>1. icProg'[d].hops = icProg[d].hops /\ icProg'[d].reached = icProg[d].reached
      BY <1>3
    <3> QED BY <3>1 DEF HopsFit, HopAt
  <2> QED BY <1>0, <1>3, <2>1 DEF IcPrograming
<1> QED BY <1>4, <1>5, <1>7, <1>8, <1>9 DEF IcInv

LEMMA TimeoutKeeps ==
  ASSUME IcInv, NEW c \in IcClients, program_timeout(c) \/ program_abort(c)
  PROVE  IcInv'
<1> DEFINE pr == icProg[c]
<1>1. pr \in IcPrograms
  BY DEF IcInv, IcTyped
<1>2. CASE program_timeout(c)
  <2> DEFINE n == pr.out + 1
             new == [pr EXCEPT !.pc = "write", !.out = n]
  <2>1. icProg' = [icProg EXCEPT ![c] = new] /\ pr.pc = "read"
        /\ UNCHANGED <<icSlot, icIndex, icQueue, icNet, icAdding, icShared>>
    BY <1>2 DEF program_timeout
  <2>2. n \in Nat
    BY <1>1 DEF IcPrograms
  <2> HIDE DEF n
  <2>3. /\ new \in IcPrograms /\ new.pc = "write" /\ new.kind = pr.kind /\ new.ttl = pr.ttl
        /\ new.seq = pr.seq /\ new.hops = pr.hops /\ new.reached = pr.reached
    BY <1>1, <2>2 DEF IcPrograms
  <2> HIDE DEF new
  <2> QED BY <2>1, <2>3, PcMoves
<1>3. CASE program_abort(c)
  <2> DEFINE new == [pr EXCEPT !.pc = "close"]
  <2>1. icProg' = [icProg EXCEPT ![c] = new] /\ pr.pc \in {"write", "read"}
        /\ UNCHANGED <<icSlot, icIndex, icQueue, icNet, icAdding, icShared>>
    BY <1>3 DEF program_abort
  <2>2. /\ new \in IcPrograms /\ new.pc = "close" /\ new.kind = pr.kind /\ new.ttl = pr.ttl
        /\ new.seq = pr.seq /\ new.hops = pr.hops /\ new.reached = pr.reached
    BY <1>1 DEF IcPrograms
  <2> HIDE DEF new
  <2> QED BY <2>1, <2>2, PcMoves
<1> QED BY <1>2, <1>3

LEMMA IcmpKeeps ==
  ASSUME IcInv, NEW p \in icNet, recv_icmp_packet(p)
  PROVE  IcInv'
<1> DEFINE r == recorded(p)
<1>0. IcTyped /\ SlotsFound /\ SlotsCarried /\ AnswersFit /\ IcPrograming
  BY DEF IcInv
<1>1. p \in IcPackets /\ p \in Around /\ icNet \subseteq Around
  BY <1>0 DEF IcTyped, Around
<1>2. /\ r \in IcPackets /\ r.type = p.type /\ r.orig = p.orig /\ r.dst = p.dst /\ r.uid = p.uid
      /\ r.seqno = p.seqno /\ r.ttl = p.ttl /\ r.at = p.at
      /\ \A T : OnItsWay(p, T) => OnItsWay(r, T)
  BY <1>1, RecordedIs, RecordedTravels
<1>3. UNCHANGED <<icSlot, icIndex, icQueue, icProg, icShared>>
  BY DEF recv_icmp_packet
<1> HIDE DEF r
<1>4. ASSUME NEW q \in icNet'
      PROVE  q \in icNet \/ (q \in IcPackets /\ ComesOf(q, p))
  <2>1. CASE q \in icNet \ {p}
    BY <2>1
  <2>2. CASE q \notin icNet \ {p} /\ p.at # p.dst
    <3>1. q \in forwarded(r)
      BY <1>4, <2>2 DEF recv_icmp_packet, r
    <3>2. q \in IcPackets /\ q.uid = r.uid /\ q.seqno = r.seqno
          /\ \A T \in Nat : OnItsWay(r, T) => OnItsWay(q, T)
      BY <1>2, <2>2, <3>1, ForwardedTravels
    <3> QED BY <1>2, <3>2 DEF ComesOf
  <2>3. CASE q \notin icNet \ {p} /\ p.at = p.dst
    <3>1. q = answer_of(r, "reply") /\ p.type = "request"
      BY <1>4, <2>3 DEF recv_icmp_packet, r
    <3>2. q \in IcPackets /\ q.uid = r.uid /\ q.seqno = r.seqno
      BY <1>2, <3>1, AnswerIs
    <3>3. \A T \in Nat : OnItsWay(r, T) => OnItsWay(q, T)
      BY <1>2, <2>3, <3>1, ReplyTravels
    <3> QED BY <1>2, <3>2, <3>3 DEF ComesOf
  <2> QED BY <2>1, <2>2, <2>3
<1>5. icAdding' = icAdding \/ (/\ icSlot[p.uid] # NoClient
                              /\ icAdding' = icAdding \cup {[client |-> icSlot[p.uid], packet |-> r]}
                              /\ r.type # "request")
  <2>1. r.uid = p.uid /\ r.type = p.type
    BY <1>2
  <2> QED BY <2>1 DEF recv_icmp_packet, socket_receive_packet, r
<1>6. p.uid \in IcSlots /\ (icSlot[p.uid] # NoClient => icSlot[p.uid] \in IcClients)
  BY <1>0, <1>1 DEF IcPackets, IcTyped
<1>7. IcTyped'
  <2>1. icNet' \subseteq IcPackets
    BY <1>0, <1>4 DEF IcTyped
  <2>2. icAdding' \subseteq [client : IcClients, packet : IcPackets]
    BY <1>0, <1>2, <1>5, <1>6 DEF IcTyped
  <2> QED BY <1>0, <1>3, <2>1, <2>2 DEF IcTyped
<1>8. \A d \in IcClients : /\ Claimed(d) <=> Claimed(d)'
                           /\ InQueue(d)' = InQueue(d)
  BY <1>3 DEF Claimed, InQueue
<1>9. SlotsFound'
  BY <1>0, <1>3, <1>8 DEF SlotsFound
<1>10. ASSUME NEW q \in Around'
       PROVE  \E f \in Around : ComesOf(q, f)
  <2>1. CASE q \in icNet'
    BY <1>1, <1>4, <2>1 DEF ComesOf
  <2>2. CASE \E a \in icAdding' : q = a.packet
    <3>1. PICK a \in icAdding' : q = a.packet
      BY <2>2
    <3>2. a \in icAdding \/ q = r
      BY <1>5, <3>1
    <3>3. a \in icAdding => q \in Around
      BY <3>1 DEF Around
    <3>4. ComesOf(r, p)
      BY <1>2 DEF ComesOf
    <3> QED BY <1>1, <3>2, <3>3, <3>4 DEF ComesOf
  <2>3. CASE \E d \in IcClients : q \in InQueue(d)'
    <3>1. q \in Around
      BY <1>8, <2>3 DEF Around
    <3> QED BY <3>1 DEF ComesOf
  <2> QED BY <2>1, <2>2, <2>3 DEF Around
<1>11. AnswersFit'
  <2>1. \A d \in IcClients \ icShared' :
           Claimed(d)' => /\ Claimed(d) /\ icIndex'[d] = icIndex[d]
                          /\ icProg'[d].seq = icProg[d].seq /\ icProg'[d].ttl = icProg[d].ttl
    BY <1>3, <1>8
  <2>2. icShared \subseteq icShared'
    BY <1>3
  <2> QED BY <1>0, <1>10, <2>1, <2>2, FitKept
<1>12. SlotsCarried'
  <2>1. ASSUME NEW q \in icNet' PROVE \E c \in IcClients : Claimed(c)' /\ icIndex'[c] = q.uid
    <3>1. PICK f \in icNet : q.uid = f.uid
      BY <1>4 DEF ComesOf
    <3>2. PICK c \in IcClients : Claimed(c) /\ icIndex[c] = f.uid
      BY <1>0, <3>1 DEF SlotsCarried
    <3> QED BY <1>3, <1>8, <3>1, <3>2
  <2>2. ASSUME NEW a \in icAdding', NEW c \in IcClients, a.client = c
        PROVE  Claimed(c)' /\ icIndex'[c] = a.packet.uid /\ a.packet.type # "request"
    <3>1. CASE a \in icAdding
      BY <1>0, <1>3, <1>8, <2>2, <3>1 DEF SlotsCarried
    <3>2. CASE a \notin icAdding
      <4>1. a = [client |-> icSlot[p.uid], packet |-> r] /\ icSlot[p.uid] # NoClient
        BY <1>5, <3>2
      <4>2. icSlot[p.uid] = c /\ a.packet = r /\ r.type # "request"
        BY <1>5, <2>2, <3>2, <4>1
      <4>3. icIndex[c] = p.uid /\ Claimed(c)
        BY <1>0, <1>6, <4>2 DEF SlotsFound
      <4> QED BY <1>2, <1>3, <1>8, <4>2, <4>3
    <3> QED BY <3>1, <3>2
  <2>3. \A c \in IcClients : \A q \in InQueue(c)' :
          Claimed(c)' /\ icIndex'[c] = q.uid /\ q.type # "request"
    BY <1>0, <1>3, <1>8 DEF SlotsCarried
  <2> QED BY <2>1, <2>2, <2>3 DEF SlotsCarried
<1>13. IcPrograming'
  BY <1>0, <1>3 DEF IcPrograming, HopsFit, HopAt
<1> QED BY <1>7, <1>9, <1>11, <1>12, <1>13 DEF IcInv

LEMMA AddPacketKeeps ==
  ASSUME IcInv, NEW r \in icAdding, socket_add_packet(r)
  PROVE  IcInv'
<1> DEFINE c == r.client
           p == r.packet
<1>0. IcTyped /\ SlotsFound /\ SlotsCarried /\ AnswersFit /\ IcPrograming
  BY DEF IcInv
<1>1. c \in IcClients /\ p \in IcPackets
  BY <1>0 DEF IcTyped
<1>2. Claimed(c) /\ icIndex[c] = p.uid /\ p.type # "request"
  BY <1>0, <1>1 DEF SlotsCarried
<1>3. /\ icAdding' = icAdding \ {r} /\ UNCHANGED <<icSlot, icIndex, icProg, icNet, icShared>>
      /\ icQueue' = icQueue \/ icQueue' = [icQueue EXCEPT ![c] = queued(icQueue[c], p)]
  BY DEF socket_add_packet
<1> HIDE DEF c, p
<1>4. /\ icQueue' \in [IcClients -> Seq(IcPackets)]
      /\ \A d \in IcClients : InQueue(d)' \subseteq InQueue(d) \cup (IF d = c THEN {p} ELSE {})
  <2>1. icQueue \in [IcClients -> Seq(IcPackets)] /\ icQueue[c] \in Seq(IcPackets)
    BY <1>0, <1>1 DEF IcTyped
  <2>2. CASE icQueue' = icQueue
    BY <2>1, <2>2 DEF InQueue
  <2>3. CASE icQueue' = [icQueue EXCEPT ![c] = queued(icQueue[c], p)]
    <3> DEFINE q == queued(icQueue[c], p)
    <3>1. q \in Seq(IcPackets) /\ \A i \in DOMAIN q : q[i] = p \/ \E j \in DOMAIN icQueue[c] : q[i] = icQueue[c][j]
      BY <1>1, <2>1, QueuedIs
    <3> HIDE DEF q
    <3>2. icQueue'[c] = q /\ \A d \in IcClients \ {c} : icQueue'[d] = icQueue[d]
      BY <1>1, <2>1, <2>3 DEF q
    <3>3. icQueue' \in [IcClients -> Seq(IcPackets)]
      BY <2>1, <2>3, <3>1 DEF q
    <3>4. InQueue(c)' \subseteq InQueue(c) \cup {p}
      BY <3>1, <3>2 DEF InQueue
    <3>5. \A d \in IcClients \ {c} : InQueue(d)' = InQueue(d)
      BY <3>2 DEF InQueue
    <3> QED BY <3>3, <3>4, <3>5
  <2> QED BY <1>3, <2>2, <2>3
<1>5. \A d \in IcClients : Claimed(d) <=> Claimed(d)'
  BY <1>3 DEF Claimed
<1>6. IcTyped'
  BY <1>0, <1>3, <1>4 DEF IcTyped
<1>7. SlotsFound'
  BY <1>0, <1>3, <1>5 DEF SlotsFound
<1>8. SlotsCarried'
  <2>1. \A d \in IcClients : \A q \in InQueue(d)' :
          Claimed(d)' /\ icIndex'[d] = q.uid /\ q.type # "request"
    BY <1>0, <1>2, <1>3, <1>4, <1>5 DEF SlotsCarried
  <2> QED BY <1>0, <1>3, <1>5, <2>1 DEF SlotsCarried
<1>9. Around' \subseteq Around
  <2>1. p \in Around
    BY DEF Around, p
  <2>2. \A d \in IcClients : InQueue(d)' \subseteq Around
    BY <1>4, <2>1 DEF Around
  <2> QED BY <1>3, <2>2 DEF Around
<1>10. AnswersFit'
  <2>1. \A d \in IcClients \ icShared' :
           Claimed(d)' => /\ Claimed(d) /\ icIndex'[d] = icIndex[d]
                          /\ icProg'[d].seq = icProg[d].seq /\ icProg'[d].ttl = icProg[d].ttl
    BY <1>3, <1>5
  <2>2. \A q \in Around' : \E f \in Around : ComesOf(q, f)
    BY <1>9, SamePackets
  <2>3. icShared \subseteq icShared'
    BY <1>3
  <2> QED BY <1>0, <2>1, <2>2, <2>3, FitKept
<1>11. IcPrograming'
  BY <1>0, <1>3 DEF IcPrograming, HopsFit, HopAt
<1> QED BY <1>6, <1>7, <1>8, <1>10, <1>11 DEF IcInv

-----------------------------------------------------------------------------
\* The program before its next request, field by field
LEMMA AfterOneIs ==
  ASSUME NEW pr \in IcPrograms, pr.ttl \in 1 .. IcTtlMax, ~Finished(pr)
  PROVE  LET one == AfterOne(pr)
         IN  /\ one \in IcPrograms /\ one.seq = pr.seq + 1 /\ one.ttl \in 1 .. IcTtlMax
             /\ one.kind = pr.kind /\ one.hops = pr.hops /\ one.reached = pr.reached
<1> DEFINE ttl == pr.ttl
           try == pr.try
           s == pr.seq + 1
           l == pr.left - 1
           t1 == ttl + 1
           y1 == try + 1
<1>1. ttl \in Nat /\ try \in Nat /\ s \in Nat /\ l \in Int /\ t1 \in Nat /\ y1 \in Nat
  BY DEF IcPrograms
<1>2. IcTtlMax \in Nat /\ ttl \in 1 .. IcTtlMax
  BY IcNumbers
<1> HIDE DEF s, l, t1, y1
<1>3. CASE pr.kind # "traceroute"
  <2>1. AfterOne(pr) = [pr EXCEPT !.left = l, !.seq = s]
    BY <1>3 DEF AfterOne, s, l
  <2>2. /\ AfterOne(pr) \in IcPrograms /\ AfterOne(pr).seq = s /\ AfterOne(pr).ttl = ttl
        /\ AfterOne(pr).kind = pr.kind /\ AfterOne(pr).hops = pr.hops
        /\ AfterOne(pr).reached = pr.reached
    BY <1>1, <2>1 DEF IcPrograms
  <2> QED BY <1>2, <2>2 DEF s
<1>4. CASE pr.kind = "traceroute" /\ try = IcTries
  <2> DEFINE o == AfterOne(pr)
             first == 1
  <2>5. o = [pr EXCEPT !.ttl = t1, !.try = first, !.seq = s]
    BY <1>4 DEF AfterOne, s, t1
  <2>6. first \in Nat
    OBVIOUS
  <2> HIDE DEF o, first
  <2>1. o = [pc |-> pr.pc, kind |-> pr.kind, seq |-> s, left |-> pr.left, ttl |-> t1, try |-> first,
             out |-> pr.out, in |-> pr.in, written |-> pr.written, hops |-> pr.hops,
             reached |-> pr.reached]
    BY <2>5 DEF IcPrograms
  <2>2. /\ o \in IcPrograms /\ o.seq = s /\ o.ttl = t1
        /\ o.kind = pr.kind /\ o.hops = pr.hops /\ o.reached = pr.reached
    BY <1>1, <2>1, <2>6 DEF IcPrograms
  <2>3. ~(ttl + 1 >= IcTtlMax)
    BY <1>4 DEF Finished
  <2>4. t1 \in 1 .. IcTtlMax
    <3> HIDE DEF ttl
    <3> QED BY <1>1, <1>2, <2>3 DEF t1
  <2> QED BY <2>2, <2>4 DEF s, o
<1>5. CASE pr.kind = "traceroute" /\ try # IcTries
  <2>1. AfterOne(pr) = [pr EXCEPT !.try = y1, !.seq = s]
    BY <1>5 DEF AfterOne, s, y1
  <2>2. /\ AfterOne(pr) \in IcPrograms /\ AfterOne(pr).seq = s /\ AfterOne(pr).ttl = ttl
        /\ AfterOne(pr).kind = pr.kind /\ AfterOne(pr).hops = pr.hops
        /\ AfterOne(pr).reached = pr.reached
    BY <1>1, <2>1 DEF IcPrograms
  <2> QED BY <1>2, <2>2 DEF s
<1> QED BY <1>3, <1>4, <1>5

\* A new request starts with the ttl the program is at.
LEMMA RequestIs ==
  ASSUME IcTyped, NEW c \in IcClients, icIndex[c] \in IcSlots,
         NEW one \in IcPrograms, one.ttl \in 1 .. IcTtlMax
  PROVE  LET q == Request(c, one)
             u == [q EXCEPT !.type = "unreachable"]
         IN  /\ q \in IcPackets /\ q.uid = icIndex[c] /\ q.seqno = one.seq
             /\ IcKind[c] = "traceroute" => OnItsWay(q, one.ttl)
             /\ u \in IcPackets /\ u.uid = icIndex[c] /\ u.seqno = one.seq
             /\ OnItsWay(u, one.ttl) /\ u.type = "unreachable"
<1> DEFINE ttl == IF Ping(c) THEN IcTtl ELSE one.ttl
           rr == IF one.kind = "ping_rr" THEN 1 ELSE 0
           t == one.ttl
           i == icIndex[c]
           s == one.seq
           q == Request(c, one)
           at == Host + 1
<1>1. ttl \in Int /\ rr \in Nat /\ t \in Nat /\ t >= 1 /\ s \in Nat /\ i \in IcSlots
  BY IcAssumption DEF IcPrograms
<1>2. IcKind[c] = "traceroute" => ttl = t
  BY DEF Ping
<1>3. Host \in Int /\ Target \in Int /\ at = 2 /\ at \in 2..Target
  BY IcNumbers
<1>4. q = [type |-> "request", orig |-> Host, dst |-> Target, uid |-> i, seqno |-> s,
           ttl |-> ttl, rr |-> rr, at |-> at]
  BY DEF Request
<1> HIDE DEF ttl, rr, t, i, s, q, at
<1>5. q \in IcPackets /\ q.uid = i /\ q.seqno = s
  BY <1>1, <1>3, <1>4 DEF IcPackets
<1>6. ASSUME IcKind[c] = "traceroute"
      PROVE  OnItsWay(q, t)
  <2>1. ttl >= 1 /\ ttl + at = t + 2
    BY <1>1, <1>2, <1>3, <1>6
  <2> QED BY <1>3, <1>4, <2>1 DEF OnItsWay
<1> DEFINE u == [q EXCEPT !.type = "unreachable"]
<1>7. u = [type |-> "unreachable", orig |-> Host, dst |-> Target, uid |-> i, seqno |-> s,
           ttl |-> ttl, rr |-> rr, at |-> at]
  BY <1>4
<1> HIDE DEF u
<1>8. u \in IcPackets /\ u.uid = i /\ u.seqno = s /\ OnItsWay(u, t) /\ u.type = "unreachable"
  BY <1>1, <1>3, <1>7 DEF IcPackets, OnItsWay
<1> QED BY <1>5, <1>6, <1>8 DEF u, q, t, i, s

\* A program's next request is later than all there are of its slot.
LEMMA WriteKeeps ==
  ASSUME IcInv, NEW c \in IcClients, NEW routed \in BOOLEAN, program_write(c, routed)
  PROVE  IcInv'
<1> DEFINE pr == icProg[c]
<1>0. IcTyped /\ SlotsFound /\ SlotsCarried /\ AnswersFit /\ IcPrograming
  BY DEF IcInv
<1>1. /\ pr.pc = "write" /\ pr \in IcPrograms /\ pr.ttl \in 1 .. IcTtlMax /\ pr.seq \in Nat
      /\ UNCHANGED <<icSlot, icIndex, icAdding, icShared>>
  BY <1>0 DEF program_write, IcTyped, IcPrograming, IcPrograms
<1>2. CASE Finished(pr)
  <2> DEFINE new == [pr EXCEPT !.pc = "close"]
  <2>1. icProg' = [icProg EXCEPT ![c] = new] /\ UNCHANGED <<icQueue, icNet>>
    BY <1>2 DEF program_write
  <2>2. /\ new \in IcPrograms /\ new.pc = "close" /\ new.kind = pr.kind /\ new.ttl = pr.ttl
        /\ new.seq = pr.seq /\ new.hops = pr.hops /\ new.reached = pr.reached
    BY <1>1 DEF IcPrograms
  <2> HIDE DEF new
  <2> QED BY <1>1, <2>1, <2>2, PcMoves
<1>3. CASE ~Finished(pr)
  <2> DEFINE one == AfterOne(pr)
             w == one.written + 1
             new == [one EXCEPT !.pc = "read", !.written = w]
             q == Request(c, one)
             u == [q EXCEPT !.type = "unreachable"]
  <2>1. /\ one \in IcPrograms /\ one.seq = pr.seq + 1 /\ one.ttl \in 1 .. IcTtlMax
        /\ one.kind = pr.kind /\ one.hops = pr.hops /\ one.reached = pr.reached
    BY <1>1, <1>3, AfterOneIs
  <2>2. icProg' = [icProg EXCEPT ![c] = new] /\ socket_write(c, one, routed)
    BY <1>3 DEF program_write
  <2>3. icIndex[c] \in IcSlots /\ icIndex[c] # NoSlot /\ Claimed(c)
    BY <1>0, <1>1, NoSlotIsNone DEF SlotsFound, Claimed
  <2>4. /\ q \in IcPackets /\ q.uid = icIndex[c] /\ q.seqno = one.seq
        /\ IcKind[c] = "traceroute" => OnItsWay(q, one.ttl)
        /\ u \in IcPackets /\ u.uid = icIndex[c] /\ u.seqno = one.seq
        /\ OnItsWay(u, one.ttl) /\ u.type = "unreachable"
    BY <1>0, <2>1, <2>3, RequestIs
  <2>5. \/ icNet' = icNet \cup {q} /\ UNCHANGED icQueue
        \/ UNCHANGED icNet /\ UNCHANGED icQueue
        \/ UNCHANGED icNet /\ icQueue' = [icQueue EXCEPT ![c] = queued(icQueue[c], u)]
    BY <2>2 DEF socket_write
  <2> HIDE DEF one, q, u
  <2>6. /\ new \in IcPrograms /\ new.pc = "read" /\ new.kind = one.kind /\ new.ttl = one.ttl
        /\ new.seq = one.seq /\ new.hops = one.hops /\ new.reached = one.reached
    <3>1. w \in Nat
      BY <2>1 DEF IcPrograms
    <3> HIDE DEF w
    <3> QED BY <2>1, <3>1 DEF IcPrograms
  <2> HIDE DEF new
  <2>7. /\ icProg' \in [IcClients -> IcPrograms] /\ icProg'[c] = new
        /\ \A d \in IcClients \ {c} : icProg'[d] = icProg[d]
    BY <1>0, <2>2, <2>6 DEF IcTyped
  <2>8. \A d \in IcClients : Claimed(d) <=> Claimed(d)'
    BY <1>1, <2>3, <2>6, <2>7 DEF Claimed
  <2>9. /\ icQueue' \in [IcClients -> Seq(IcPackets)]
        /\ \A d \in IcClients : InQueue(d)' \subseteq InQueue(d) \cup (IF d = c THEN {u} ELSE {})
    <3>1. icQueue \in [IcClients -> Seq(IcPackets)] /\ icQueue[c] \in Seq(IcPackets)
      BY <1>0 DEF IcTyped
    <3>2. CASE icQueue' = icQueue
      BY <3>1, <3>2 DEF InQueue
    <3>3. CASE icQueue' = [icQueue EXCEPT ![c] = queued(icQueue[c], u)]
      <4> DEFINE k == queued(icQueue[c], u)
      <4>1. k \in Seq(IcPackets) /\ \A i \in DOMAIN k : k[i] = u \/ \E j \in DOMAIN icQueue[c] : k[i] = icQueue[c][j]
        BY <2>4, <3>1, QueuedIs
      <4> HIDE DEF k
      <4>2. icQueue'[c] = k /\ \A d \in IcClients \ {c} : icQueue'[d] = icQueue[d]
        BY <3>1, <3>3 DEF k
      <4>3. icQueue' \in [IcClients -> Seq(IcPackets)]
        BY <3>1, <3>3, <4>1 DEF k
      <4>4. InQueue(c)' \subseteq InQueue(c) \cup {u}
        BY <4>1, <4>2 DEF InQueue
      <4>5. \A d \in IcClients \ {c} : InQueue(d)' = InQueue(d)
        BY <4>2 DEF InQueue
      <4> QED BY <4>3, <4>4, <4>5
    <3> QED BY <2>5, <3>2, <3>3
  <2>10. IcTyped'
    BY <1>0, <1>1, <2>4, <2>5, <2>7, <2>9 DEF IcTyped
  <2>11. SlotsFound'
    BY <1>0, <1>1, <2>6, <2>7, <2>8, SlotsStay
  <2>12. SlotsCarried'
    <3>1. \A d \in IcClients : \A p \in InQueue(d)' :
            Claimed(d)' /\ icIndex'[d] = p.uid /\ p.type # "request"
      BY <1>0, <1>1, <2>3, <2>4, <2>8, <2>9 DEF SlotsCarried
    <3>2. ASSUME NEW p \in icNet' PROVE \E d \in IcClients : Claimed(d)' /\ icIndex'[d] = p.uid
      <4>1. CASE p \in icNet
        BY <1>0, <1>1, <2>8, <4>1 DEF SlotsCarried
      <4>2. CASE p \notin icNet
        BY <1>1, <2>3, <2>4, <2>5, <2>8, <4>2
      <4> QED BY <4>1, <4>2
    <3>3. \A r \in icAdding', d \in IcClients :
            r.client = d => Claimed(d)' /\ icIndex'[d] = r.packet.uid /\ r.packet.type # "request"
      BY <1>0, <1>1, <2>8 DEF SlotsCarried
    <3> QED BY <3>1, <3>2, <3>3 DEF SlotsCarried
  <2>13. Around' \subseteq Around \cup {q, u}
    <3>1. icNet' \subseteq icNet \cup {q}
      BY <2>5
    <3>2. \A d \in IcClients : InQueue(d)' \subseteq InQueue(d) \cup {u}
      BY <2>9
    <3> QED BY <1>1, <3>1, <3>2 DEF Around
  <2>14. AnswersFit'
    <3> SUFFICES ASSUME NEW d \in IcClients \ icShared', IcKind[d] = "traceroute", Claimed(d)',
                        NEW p \in Around', p.uid = icIndex'[d]
                 PROVE  Answers(p, d)'
      BY DEF AnswersFit
    <3>1. Claimed(d) /\ d \in IcClients \ icShared /\ p.uid = icIndex[d]
      BY <1>1, <2>8
    <3>2. p \in Around => Answers(p, d)
      BY <1>0, <3>1 DEF AnswersFit
    <3>3. CASE d # c
      <4>1. p \in Around
        <5> SUFFICES ASSUME p \in {q, u} PROVE FALSE
          BY <2>13
        <5>1. icIndex[d] = icIndex[c]
          BY <2>4, <3>1
        <5> QED BY <1>0, <2>3, <3>1, <3>3, <5>1 DEF SlotsFound
      <4> QED BY <2>7, <3>2, <3>3, <4>1 DEF Answers, OnItsWay
    <3>4. CASE d = c /\ p \in Around
      <4> DEFINE x == p.seqno
                 y == pr.seq
                 z == icProg'[c].seq
      <4>1. x <= y
        BY <3>2, <3>4 DEF Answers
      <4>2. x \in Nat /\ y \in Nat /\ z = y + 1
        BY <1>0, <1>1, <2>1, <2>6, <2>7, <3>4, IcElements DEF IcPackets
      <4> HIDE DEF x, y, z
      <4>3. x <= z /\ x # z
        BY <4>1, <4>2
      <4> QED BY <3>4, <4>3 DEF Answers, x, z
    <3>5. CASE d = c /\ p \in {q, u}
      <4>1. p.seqno = one.seq /\ OnItsWay(p, one.ttl)
        BY <2>4, <3>5
      <4>2. icProg'[c].seq = one.seq /\ icProg'[c].ttl = one.ttl /\ one.seq \in Nat
        BY <2>1, <2>6, <2>7 DEF IcPrograms
      <4>3. one.seq <= one.seq
        <5> DEFINE z == one.seq
        <5>1. z \in Nat
          BY <4>2
        <5> HIDE DEF z
        <5>2. z <= z
          BY <5>1
        <5> QED BY <5>2 DEF z
      <4> QED BY <3>5, <4>1, <4>2, <4>3 DEF Answers, OnItsWay
    <3> QED BY <2>13, <3>3, <3>4, <3>5
  <2>15. IcPrograming'
    <3>1. ASSUME NEW d \in IcClients PROVE HopsFit(d) <=> HopsFit(d)'
      <4>1. icProg'[d].hops = icProg[d].hops /\ icProg'[d].reached = icProg[d].reached
        BY <2>1, <2>6, <2>7
      <4> QED BY <4>1 DEF HopsFit, HopAt
    <3>2. \A d \in IcClients : icProg'[d].kind = IcKind[d] /\ icProg'[d].ttl \in 1 .. IcTtlMax
      BY <1>0, <2>1, <2>6, <2>7 DEF IcPrograming
    <3> QED BY <1>0, <1>1, <3>1, <3>2 DEF IcPrograming
  <2> QED BY <2>10, <2>11, <2>12, <2>14, <2>15 DEF IcInv
<1> QED BY <1>2, <1>3

\* What a traceroute learns from an answer to its last request
LEMMA AnswerTells ==
  ASSUME NEW pr \in IcPrograms, pr.ttl \in 1 .. IcTtlMax, NEW p \in IcPackets,
         p.type \in {"reply", "exceeded"}, OnItsWay(p, pr.ttl),
         \A t \in 1 .. IcTtlMax : pr.hops[t] \in {0, HopAt(t)},
         pr.reached => \E t \in 1 .. IcTtlMax : pr.hops[t] = Target
  PROVE  LET new == traceroute_answer(pr, p)
         IN  /\ \A t \in 1 .. IcTtlMax : new.hops[t] \in {0, HopAt(t)}
             /\ new.reached => \E t \in 1 .. IcTtlMax : new.hops[t] = Target
<1> DEFINE new == traceroute_answer(pr, p)
           T == pr.ttl
           o == p.orig
           h == pr.hops
           v == IF h[T] = 0 THEN o ELSE h[T]
           reached == pr.reached \/ p.type = "reply"
<1>1. new.hops = [h EXCEPT ![T] = v] /\ new.reached = reached
  BY DEF traceroute_answer, IcPrograms
<1>2. h \in [1 .. IcTtlMax -> Int] /\ T \in 1 .. IcTtlMax
  BY DEF IcPrograms
<1>3. o = HopAt(T) /\ (p.type = "reply" => o = Target)
  <2>1. /\ p.type = "reply" => o = Target /\ Host + T >= Target
        /\ p.type = "exceeded" => o = Host + T /\ Host + T < Target
    BY DEF OnItsWay
  <2> HIDE DEF T, o
  <2>2. T \in Nat
    BY <1>2, IcNumbers
  <2>3. Host + T >= Target => HopAt(T) = Target
    BY <2>2, IcNumbers DEF HopAt
  <2> QED BY <2>1, <2>3 DEF HopAt
<1> HIDE DEF new, T, o, h
<1>4. Target # 0 /\ HopAt(T) # 0
  <2>1. T \in Nat
    BY <1>2, IcNumbers
  <2> QED BY <2>1, IcNumbers DEF HopAt
<1>5. v = HopAt(T) /\ \A t \in 1 .. IcTtlMax : h[t] \in {0, HopAt(t)}
  BY <1>2, <1>3 DEF h
<1>6. /\ new.hops[T] = v /\ \A t \in 1 .. IcTtlMax : t # T => new.hops[t] = h[t]
  BY <1>1, <1>2
<1>7. \A t \in 1 .. IcTtlMax : new.hops[t] \in {0, HopAt(t)}
  BY <1>5, <1>6
<1>8. ASSUME new.reached PROVE \E t \in 1 .. IcTtlMax : new.hops[t] = Target
  <2>1. CASE p.type = "reply"
    BY <1>2, <1>3, <1>5, <1>6, <2>1
  <2>2. CASE p.type # "reply"
    <3>1. PICK t \in 1 .. IcTtlMax : h[t] = Target
      BY <1>1, <1>8, <2>2 DEF h
    <3>2. t = T => v = Target
      BY <1>4, <3>1
    <3> QED BY <1>2, <1>6, <3>1, <3>2
  <2> QED BY <2>1, <2>2
<1> QED BY <1>7, <1>8 DEF new

\* The program after a packet, field by field
LEMMA PacketReadIs ==
  ASSUME NEW pr \in IcPrograms, pr.pc = "read", NEW p \in IcPackets
  PROVE  LET new == packet_read(pr, p)
         IN  /\ new \in IcPrograms /\ new.pc \in {"write", "read", "close"}
             /\ new.kind = pr.kind /\ new.ttl = pr.ttl /\ new.seq = pr.seq
             /\ \/ new.hops = pr.hops /\ new.reached = pr.reached
                \/ /\ pr.kind = "traceroute" /\ p.seqno = pr.seq /\ p.type # "unreachable"
                   /\ new = traceroute_answer(pr, p)
<1> DEFINE new == packet_read(pr, p)
<1>1. CASE TooShort(pr, p)
  <2>1. new = [pr EXCEPT !.pc = "write"]
    BY <1>1 DEF packet_read
  <2> HIDE DEF new
  <2>2. /\ new \in IcPrograms /\ new.pc = "write" /\ new.kind = pr.kind /\ new.ttl = pr.ttl
        /\ new.seq = pr.seq /\ new.hops = pr.hops /\ new.reached = pr.reached
    BY <2>1 DEF IcPrograms
  <2> QED BY <2>2 DEF new
<1>2. CASE ~TooShort(pr, p) /\ p.seqno # pr.seq
  BY <1>2 DEF packet_read
<1>3. CASE ~TooShort(pr, p) /\ p.seqno = pr.seq /\ pr.kind = "traceroute"
  <2>1. new = traceroute_answer(pr, p)
    BY <1>3 DEF packet_read
  <2>2. CASE p.type = "unreachable"
    <3>1. new = [pr EXCEPT !.pc = "close"]
      BY <2>1, <2>2 DEF traceroute_answer
    <3> HIDE DEF new
    <3>2. /\ new \in IcPrograms /\ new.pc = "close" /\ new.kind = pr.kind /\ new.ttl = pr.ttl
          /\ new.seq = pr.seq /\ new.hops = pr.hops /\ new.reached = pr.reached
      BY <3>1 DEF IcPrograms
    <3> QED BY <3>2 DEF new
  <2>3. CASE p.type # "unreachable"
    <3> DEFINE T == pr.ttl
               h == pr.hops
               v == IF h[T] = 0 THEN p.orig ELSE h[T]
               k == [h EXCEPT ![T] = v]
               reached == pr.reached \/ p.type = "reply"
    <3>1. new = [pr EXCEPT !.pc = "write", !.reached = reached, !.hops = k]
      BY <2>1, <2>3 DEF traceroute_answer
    <3>2. k \in [1 .. IcTtlMax -> Int]
      <4>1. h \in [1 .. IcTtlMax -> Int] /\ p.orig \in Int
        BY DEF IcPrograms, IcPackets
      <4> HIDE DEF h, T
      <4> QED BY <4>1
    <3>3. reached \in BOOLEAN
      BY DEF IcPrograms
    <3> HIDE DEF new, k, reached
    <3>4. /\ new \in IcPrograms /\ new.pc = "write" /\ new.kind = pr.kind /\ new.ttl = pr.ttl
          /\ new.seq = pr.seq
      BY <3>1, <3>2, <3>3 DEF IcPrograms
    <3> QED BY <1>3, <2>1, <2>3, <3>4 DEF new
  <2> QED BY <2>2, <2>3
<1>4. CASE ~TooShort(pr, p) /\ p.seqno = pr.seq /\ pr.kind # "traceroute"
  <2> DEFINE n == IF p.type = "reply" THEN pr.in + 1 ELSE pr.in
  <2>1. new = [pr EXCEPT !.in = n, !.pc = "write"]
    BY <1>4 DEF packet_read, ping_answer
  <2>2. n \in Nat
    BY DEF IcPrograms
  <2> HIDE DEF new, n
  <2>3. /\ new \in IcPrograms /\ new.pc = "write" /\ new.kind = pr.kind /\ new.ttl = pr.ttl
        /\ new.seq = pr.seq /\ new.hops = pr.hops /\ new.reached = pr.reached
    BY <2>1, <2>2 DEF IcPrograms
  <2> QED BY <2>3 DEF new
<1> QED BY <1>1, <1>2, <1>3, <1>4

LEMMA ReadKeeps ==
  ASSUME IcInv, NEW c \in IcClients, program_read(c)
  PROVE  IcInv'
<1> DEFINE n == icProg[c].out + 1
           pr == [icProg[c] EXCEPT !.out = n]
           p == Head(icQueue[c])
           new == packet_read(pr, p)
<1>0. IcTyped /\ SlotsFound /\ SlotsCarried /\ AnswersFit /\ IcPrograming
  BY DEF IcInv
<1>1. /\ icProg[c].pc = "read" /\ icQueue[c] # <<>>
      /\ icProg' = [icProg EXCEPT ![c] = new]
      /\ icQueue' = [icQueue EXCEPT ![c] = Tail(icQueue[c])]
      /\ UNCHANGED <<icSlot, icIndex, icNet, icAdding, icShared>>
  BY DEF program_read
<1>2. icProg[c] \in IcPrograms /\ icQueue[c] \in Seq(IcPackets)
      /\ icProg \in [IcClients -> IcPrograms] /\ icQueue \in [IcClients -> Seq(IcPackets)]
  BY <1>0 DEF IcTyped
<1>3. n \in Nat
  BY <1>2 DEF IcPrograms
<1> HIDE DEF n
<1>4. /\ pr \in IcPrograms /\ pr.pc = "read" /\ pr.kind = icProg[c].kind /\ pr.ttl = icProg[c].ttl
      /\ pr.seq = icProg[c].seq /\ pr.hops = icProg[c].hops /\ pr.reached = icProg[c].reached
  BY <1>1, <1>2, <1>3 DEF IcPrograms
<1> HIDE DEF pr
<1>5. p \in IcPackets /\ p \in InQueue(c)
  BY <1>1, <1>2, TailIs DEF InQueue
<1> HIDE DEF p
<1>6. /\ new \in IcPrograms /\ new.pc \in {"write", "read", "close"}
      /\ new.kind = pr.kind /\ new.ttl = pr.ttl /\ new.seq = pr.seq
      /\ \/ new.hops = pr.hops /\ new.reached = pr.reached
         \/ /\ pr.kind = "traceroute" /\ p.seqno = pr.seq /\ p.type # "unreachable"
            /\ new = traceroute_answer(pr, p)
  BY <1>4, <1>5, PacketReadIs
<1> HIDE DEF new
<1>7. /\ icProg' \in [IcClients -> IcPrograms] /\ icProg'[c] = new
      /\ \A d \in IcClients \ {c} : icProg'[d] = icProg[d]
  BY <1>1, <1>2, <1>6
<1>8. icIndex[c] \in IcSlots /\ icIndex[c] # NoSlot /\ Claimed(c)
  BY <1>0, <1>1, NoSlotIsNone DEF SlotsFound, Claimed
<1>9. \A d \in IcClients : Claimed(d) <=> Claimed(d)'
  BY <1>1, <1>6, <1>7, <1>8 DEF Claimed
<1>10. /\ icQueue' \in [IcClients -> Seq(IcPackets)]
       /\ \A d \in IcClients : InQueue(d)' \subseteq InQueue(d)
  <2> DEFINE t == Tail(icQueue[c])
  <2>1. t \in Seq(IcPackets) /\ \A i \in DOMAIN t : \E j \in DOMAIN icQueue[c] : t[i] = icQueue[c][j]
    BY <1>1, <1>2, TailIs
  <2> HIDE DEF t
  <2>2. icQueue'[c] = t /\ \A d \in IcClients \ {c} : icQueue'[d] = icQueue[d]
    BY <1>1, <1>2 DEF t
  <2>3. icQueue' \in [IcClients -> Seq(IcPackets)]
    BY <1>1, <1>2, <2>1 DEF t
  <2>4. InQueue(c)' \subseteq InQueue(c)
    BY <2>1, <2>2 DEF InQueue
  <2>5. \A d \in IcClients \ {c} : InQueue(d)' = InQueue(d)
    BY <2>2 DEF InQueue
  <2> QED BY <2>3, <2>4, <2>5
<1>11. IcTyped'
  BY <1>0, <1>1, <1>7, <1>10 DEF IcTyped
<1>12. SlotsFound'
  BY <1>0, <1>1, <1>6, <1>7, <1>9, SlotsStay
<1>13. SlotsCarried'
  BY <1>0, <1>1, <1>9, <1>10 DEF SlotsCarried
<1>14. Around' \subseteq Around
  BY <1>1, <1>10 DEF Around
<1>15. AnswersFit'
  <2>1. \A d \in IcClients \ icShared' :
           Claimed(d)' => /\ Claimed(d) /\ icIndex'[d] = icIndex[d]
                          /\ icProg'[d].seq = icProg[d].seq /\ icProg'[d].ttl = icProg[d].ttl
    BY <1>1, <1>4, <1>6, <1>7, <1>9
  <2>2. \A q \in Around' : \E f \in Around : ComesOf(q, f)
    BY <1>14, SamePackets
  <2>3. icShared \subseteq icShared'
    BY <1>1
  <2> QED BY <1>0, <2>1, <2>2, <2>3, FitKept
<1>16. IcPrograming'
  <2>1. \A d \in IcClients : icProg'[d].kind = IcKind[d] /\ icProg'[d].ttl \in 1 .. IcTtlMax
    BY <1>0, <1>4, <1>6, <1>7 DEF IcPrograming
  <2>2. ASSUME NEW d \in IcClients \ icShared'
        PROVE  HopsFit(d)'
    <3>1. HopsFit(d)
      BY <1>0, <1>1 DEF IcPrograming
    <3>2. CASE icProg'[d].hops = icProg[d].hops /\ icProg'[d].reached = icProg[d].reached
      BY <3>1, <3>2 DEF HopsFit, HopAt
    <3>3. CASE ~(icProg'[d].hops = icProg[d].hops /\ icProg'[d].reached = icProg[d].reached)
      <4>1. /\ d = c /\ pr.kind = "traceroute" /\ p.seqno = pr.seq /\ p.type # "unreachable"
            /\ new = traceroute_answer(pr, p)
        BY <1>4, <1>6, <1>7, <3>3
      <4>2. IcKind[c] = "traceroute" /\ p \in Around /\ p.uid = icIndex[c] /\ c \in IcClients \ icShared
        BY <1>0, <1>1, <1>4, <1>5, <4>1 DEF IcPrograming, Around, SlotsCarried
      <4>3. Answers(p, c)
        BY <1>0, <1>8, <4>2 DEF AnswersFit
      <4>4. OnItsWay(p, pr.ttl)
        BY <1>4, <4>1, <4>3 DEF Answers
      <4>5. pr.ttl \in 1 .. IcTtlMax
        BY <1>0, <1>4 DEF IcPrograming
      <4>6. p.type = "request" \/ p.type \in {"reply", "exceeded"}
        BY <1>5, <4>1 DEF IcPackets
      <4>7. p.type # "request"
        BY <1>0, <1>5 DEF SlotsCarried
      <4>8. /\ \A t \in 1 .. IcTtlMax : pr.hops[t] \in {0, HopAt(t)}
            /\ pr.reached => \E t \in 1 .. IcTtlMax : pr.hops[t] = Target
        BY <1>4, <3>1, <4>1 DEF HopsFit
      <4>9. /\ \A t \in 1 .. IcTtlMax : new.hops[t] \in {0, HopAt(t)}
            /\ new.reached => \E t \in 1 .. IcTtlMax : new.hops[t] = Target
        BY <1>4, <1>5, <4>1, <4>4, <4>5, <4>6, <4>7, <4>8, AnswerTells
      <4> QED BY <1>7, <4>1, <4>9 DEF HopsFit, HopAt
    <3> QED BY <3>2, <3>3
  <2> QED BY <2>1, <2>2 DEF IcPrograming
<1> QED BY <1>11, <1>12, <1>13, <1>15, <1>16 DEF IcInv

\* A step of something else
LEMMA IcStays ==
  ASSUME IcInv, UNCHANGED icVars
  PROVE  IcInv'
<1>1. UNCHANGED <<icSlot, icIndex, icQueue, icProg, icNet, icAdding, icShared>>
  BY DEF icVars
<1>2. \A c \in IcClients : (Claimed(c) <=> Claimed(c)') /\ InQueue(c)' = InQueue(c)
  BY <1>1 DEF Claimed, InQueue
<1>3. Around' = Around
  BY <1>1, <1>2 DEF Around
<1>4. IcTyped' /\ SlotsFound' /\ SlotsCarried'
  BY <1>1, <1>2 DEF IcInv, IcTyped, SlotsFound, SlotsCarried
<1>5. AnswersFit'
  BY <1>1, <1>2, <1>3 DEF IcInv, AnswersFit, Answers, OnItsWay
<1>6. IcPrograming'
  BY <1>1 DEF IcInv, IcPrograming, HopsFit, HopAt
<1> QED BY <1>4, <1>5, <1>6 DEF IcInv

\* The slots, the packets on their way and what the programs know of the route
\* (icmp_socket.c, traceroute.c) fit together in every state.
THEOREM IcInvHolds == IcmpSpec => []IcInv
<1>1. IcmpInit => IcInv
  BY IcInitHolds
<1>2. IcInv /\ [IcmpNext]_icVars => IcInv'
  <2> SUFFICES ASSUME IcInv, [IcmpNext]_icVars PROVE IcInv'
    OBVIOUS
  <2>1. CASE UNCHANGED icVars
    BY <2>1, IcStays
  <2>2. ASSUME NEW c \in IcClients,
               \/ socket_open_find(c) \/ socket_open_claim(c) \/ socket_release(c)
               \/ program_read(c) \/ program_timeout(c) \/ program_abort(c)
               \/ \E routed \in BOOLEAN : program_write(c, routed)
        PROVE  IcInv'
    BY <2>2, OpenFindKeeps, OpenClaimKeeps, ReleaseKeeps, ReadKeeps, TimeoutKeeps, WriteKeeps
  <2>3. ASSUME NEW r \in icAdding, socket_add_packet(r) PROVE IcInv'
    BY <2>3, AddPacketKeeps
  <2>4. ASSUME NEW p \in icNet, recv_icmp_packet(p) PROVE IcInv'
    BY <2>4, IcmpKeeps
  <2> QED BY <2>1, <2>2, <2>3, <2>4 DEF IcmpNext
<1> QED BY <1>1, <1>2, PTL DEF IcmpSpec

\* A traceroute (traceroute.c:141) names for every ttl the node at that
\* distance or none, and ends early only when the target answered.
THEOREM HopsAreNodes == IcmpSpec => []IcHopsAreNodes
<1>1. IcInv => IcHopsAreNodes
  BY DEF IcInv, IcPrograming, HopsFit, HopAt, IcHopsAreNodes
<1> QED BY <1>1, IcInvHolds, PTL

-----------------------------------------------------------------------------
(***************************************************************************)
(* B.A.T.M.A.N. V: the routes towards one originator                       *)
(***************************************************************************)
VNums == 0..(VSeqMod - 1)
VEntry == [known : BOOLEAN, tp : 0..VMaxTp, seq : VNums]
VMessage == [to : VOthers, from : VNodes, seq : VNums, tp : 0..VMaxTp, ttl : Int]
VOutIf == [real : VNums, fwd : VNums, guarded : BOOLEAN]

\* The variables' types, and what the two tables of a node have in common
VTyped ==
  /\ vSeq \in VNums /\ vOgms \in 0..VMaxOgms /\ vCalm \in BOOLEAN
  /\ DOMAIN vLink = {p \in VOthers \X VNodes : {p[1], p[2]} \in VLinks}
  /\ \A l \in DOMAIN vLink : vLink[l] \in 0..VMaxTp
  /\ vMsgs \subseteq VMessage /\ \A o \in vMsgs : {o.to, o.from} \in VLinks
  /\ vInfo \in [VOthers -> [VTables -> [VNodes -> VEntry]]]
  /\ vRouter \in [VOthers -> [VTables -> VNodes \cup {VNone}]]
  /\ vIf \in [VOthers -> [VTables -> VOutIf]]
  /\ vPassed \subseteq VOthers \X VNums \X {1, 2}

VTogether ==
  \A n \in VOthers :
    /\ vIf[n]["default"].real = vIf[n]["iface"].real
    /\ vIf[n]["default"].guarded = vIf[n]["iface"].guarded
    /\ \A m \in VNodes : vInfo[n]["default"][m].known <=> vInfo[n]["iface"][m].known
    /\ \A t \in VTables :
         /\ vRouter[n][t] # VNone => vInfo[n][t][vRouter[n][t]].known
         /\ \A m \in VNodes : vInfo[n][t][m].known => {n, m} \in VLinks

\* How many OGMs before s
At(s) == IF s >= VFirst THEN s - VFirst ELSE s - VFirst + VSeqMod
VSent == {s \in VNums : At(s) < vOgms}
Passed(n, s) == <<n, s, 1>> \in vPassed
Fwd(n) == vIf[n]["iface"].fwd
Hop(n) == vRouter[n]["iface"]
Via(n) == vInfo[n]["iface"][Hop(n)]

\* The numbers a table keeps
VNumbered(n, t) ==
  /\ \A m \in VNodes : vInfo[n][t][m].known =>
       /\ vRouter[n][t] # VNone
       /\ vInfo[n][t][m].seq \in VSent /\ vIf[n][t].real \in VSent
       /\ At(vInfo[n][t][m].seq) <= At(vIf[n][t].real)
       /\ At(vInfo[n][t][m].seq) - At(vInfo[n][t][vRouter[n][t]].seq) < VOrigDiff

\* What a node has passed on
VPassedOn(n) ==
  \A s \in VNums :
    /\ <<n, s, 2>> \notin vPassed
    /\ Passed(n, s) => /\ s \in VSent /\ At(s) <= At(Fwd(n)) /\ Passed(n, Fwd(n))
                       /\ Hop(n) # VNone /\ At(Fwd(n)) <= At(Via(n).seq)

\* An OGM is newer than what was known of its sender, and alone on its way.
VInOrder ==
  \A o \in vMsgs :
    /\ o.seq \in VSent
    /\ vInfo[o.to]["iface"][o.from].known => At(vInfo[o.to]["iface"][o.from].seq) < At(o.seq)
    /\ \A p \in vMsgs : p.to = o.to /\ p.from = o.from => p = o

\* g[m]: the throughput m passed its last OGM on with, and when in the course of
\* that flood
VLast == [VNodes -> [tp : 0..VMaxTp, rank : Nat]]
Claim(g, m, s, tp) == m = VOrig \/ (Passed(m, s) /\ (s = Fwd(m) => tp <= g[m].tp))

VNotWorse(g, n) ==
  (\E s \in VNums : Passed(n, s)) /\ Via(n).seq = Fwd(n) =>
    /\ Via(n).tp >= g[n].tp
    /\ Via(n).tp = g[n].tp /\ Hop(n) # VOrig /\ Fwd(Hop(n)) = Fwd(n) => g[Hop(n)].rank < g[n].rank

VFlood(g) ==
  /\ \A o \in vMsgs : Claim(g, o.from, o.seq, o.tp)
  /\ \A n \in VOthers, m \in VNodes :
       vInfo[n]["iface"][m].known => Claim(g, m, vInfo[n]["iface"][m].seq, vInfo[n]["iface"][m].tp)
  /\ \A n \in VOthers : VNotWorse(g, n)

VCalmInv ==
  /\ At(vSeq) = vOgms
  /\ \A n \in VOthers : VPassedOn(n) /\ \A t \in VTables : VNumbered(n, t)
  /\ VInOrder /\ \E g \in VLast : VFlood(g)

VInv == VTyped /\ VTogether /\ (vCalm => VCalmInv)

\* Two numbers of the originator compare as they were sent.
VFewOgms == VOrigDiff >= 1 /\ 2 * VMaxOgms <= VSeqMod

\* An OGM comes before the originator has sent BATADV_OGM_MAX_AGE more.
VTimely == vCalm => \A o \in vMsgs : vOgms - At(o.seq) <= VMaxAge

-----------------------------------------------------------------------------
(* Numbers *)

LEMMA VConst ==
  /\ VOrig \in VNodes /\ VNone \notin VNodes
  /\ \A l \in VLinks : l \subseteq VNodes /\ Cardinality(l) = 2
  /\ VMaxTp \in Nat /\ VTtl \in Nat /\ VSeqMod \in Nat /\ VOrigDiff \in Nat /\ VMaxAge \in Nat
  /\ VSeqRange \in Nat /\ VMaxOgms \in Nat /\ VMaxChanges \in Nat
  /\ VTps \subseteq 1..VMaxTp /\ VTps # {} /\ VHopPenalty \in 0..255
  /\ VSeqs \subseteq VNums /\ VFirst \in VNums /\ VSeqMod > 0 /\ 0 \in VNums
<1>1. VSeqMod \in Nat /\ VFirst \in 0..(VSeqMod - 1)
  BY VAssumption
<1>2. VSeqMod > 0 /\ 0 \in 0..(VSeqMod - 1)
  BY <1>1
<1> QED BY <1>1, <1>2, VAssumption DEF VNums

LEMMA AtIs ==
  /\ \A s \in VNums : At(s) \in VNums /\ At(s) \in Int
  /\ \A r, s \in VNums : At(r) = At(s) => r = s
  /\ At(VFirst) = 0
BY VConst DEF At, VNums

LEMMA VModIs ==
  ASSUME NEW m \in Nat, m > 0, NEW z \in Int, -m <= z, z < 2 * m
  PROVE  z % m = IF z < 0 THEN z + m ELSE IF z < m THEN z ELSE z - m
OBVIOUS

LEMMA HalfIs == /\ VSeqMod \div 2 \in Nat /\ 2 * (VSeqMod \div 2) <= VSeqMod
                /\ VSeqMod <= 2 * (VSeqMod \div 2) + 1
BY VConst, SMT

LEMMA SeqDiffIs ==
  ASSUME NEW a \in VNums, NEW b \in VNums, NEW H, H = VSeqMod \div 2,
         At(a) - At(b) < H, At(b) - At(a) <= H
  PROVE  SeqDiff(a, b) = At(a) - At(b)
<1>1. /\ H \in Nat /\ 2 * H <= VSeqMod /\ VSeqMod \in Nat /\ VSeqMod > 0 /\ VFirst \in VNums
      /\ VSeqMod <= 2 * H + 1
  BY HalfIs, VConst
<1> DEFINE z == a - b + H
<1>2. z \in Int /\ -VSeqMod <= z /\ z < 2 * VSeqMod
  BY <1>1 DEF VNums
<1>3. z % VSeqMod = IF z < 0 THEN z + VSeqMod ELSE IF z < VSeqMod THEN z ELSE z - VSeqMod
  BY <1>1, <1>2, VModIs
<1>4. SeqDiff(a, b) = (z % VSeqMod) - H
  BY DEF SeqDiff
<1> DEFINE p == z % VSeqMod
<1>5. p = IF z < 0 THEN z + VSeqMod ELSE IF z < VSeqMod THEN z ELSE z - VSeqMod
  BY <1>3
<1> HIDE DEF p
<1>6. p - H = At(a) - At(b)
  BY <1>1, <1>5 DEF At, VNums
<1> QED BY <1>4, <1>6 DEF p

LEMMA VSentDiff ==
  ASSUME VFewOgms, vOgms \in 0..VMaxOgms, NEW a \in VSent, NEW b \in VSent
  PROVE  /\ SeqDiff(a, b) = At(a) - At(b)
         /\ At(a) \in Nat /\ At(b) \in Nat
<1> DEFINE H == VSeqMod \div 2
           x == At(a)
           y == At(b)
<1>1. a \in VNums /\ b \in VNums /\ x \in VNums /\ y \in VNums /\ x < vOgms /\ y < vOgms
  BY AtIs DEF VSent
<1>2. x \in Nat /\ y \in Nat
  BY <1>1 DEF VNums
<1>3. H \in Nat /\ VSeqMod <= 2 * H + 1 /\ VSeqMod \in Nat
  BY HalfIs, VConst
<1>4. VMaxOgms \in Nat /\ 2 * VMaxOgms <= VSeqMod
  BY VConst DEF VFewOgms
<1> HIDE DEF x, y, H
<1>5. x - y < H /\ y - x <= H
  BY <1>1, <1>2, <1>3, <1>4
<1>6. SeqDiff(a, b) = x - y
  BY <1>1, <1>5, SeqDiffIs DEF x, y, H
<1> QED BY <1>2, <1>6 DEF x, y

-----------------------------------------------------------------------------
(* One table *)

LEMMA VPenaltyIs ==
  ASSUME NEW n, NEW t, NEW tp \in Nat
  PROVE  v_forward_penalty(n, t, tp) \in 0..tp
<1> DEFINE x == tp * (255 - VHopPenalty)
<1>1. VHopPenalty \in 0..255
  BY VConst
<1>2. x \in Nat /\ x <= 255 * tp
  <2> DEFINE q == 255 - VHopPenalty
  <2>1. q \in 0..255
    BY <1>1
  <2> HIDE DEF q
  <2>2. tp * q \in Nat /\ tp * q <= 255 * tp
    BY <2>1
  <2> QED BY <2>2 DEF q
<1> HIDE DEF x
<1>3. x \div 255 \in 0..tp
  BY <1>2
<1>4. tp \div 2 \in 0..tp
  OBVIOUS
<1> QED BY <1>3, <1>4 DEF v_forward_penalty, x

\* An OGM that is out of its time
Refused(n, t, o) ==
  LET diff == SeqDiff(o.seq, vIf[n][t].real)
  IN  window_protected(diff, vIf[n][t]) \/ v_seq_is_old(diff, window_restarts(diff))

VNewEntry(n, t, o, tp) == [known |-> TRUE, tp |-> v_forward_penalty(n, t, tp), seq |-> o.seq]

\* What becomes of a table
TableIs(x, n, t, o, tp) ==
  \/ /\ Refused(n, t, o)
     /\ x.info = vInfo[n][t] /\ x.router = vRouter[n][t] /\ x.if = vIf[n][t] /\ ~x.fwd
  \/ /\ ~Refused(n, t, o)
     /\ x.info = [vInfo[n][t] EXCEPT ![o.from] = VNewEntry(n, t, o, tp)]
     /\ x.router = v_ogm_orig_update(x.info, vRouter[n][t], o.from)
     /\ x.fwd <=> vIf[n][t].fwd # o.seq /\ x.router = o.from /\ t # "default"
     /\ x.if.real = o.seq /\ x.if.fwd = (IF x.fwd THEN o.seq ELSE vIf[n][t].fwd)
     /\ x.if.guarded <=> \/ vIf[n][t].guarded
                         \/ window_restarts(SeqDiff(o.seq, vIf[n][t].real))

LEMMA VTableIs ==
  ASSUME NEW n, NEW t, NEW o, o.seq \in VNums, NEW tp, vIf[n][t] \in VOutIf,
         NEW x, x = v_ogm_process_per_outif(n, t, o, tp)
  PROVE  TableIs(x, n, t, o, tp) /\ x.if \in VOutIf
<1> DEFINE if == vIf[n][t]
           restarts == window_restarts(SeqDiff(o.seq, if.real))
           info == [vInfo[n][t] EXCEPT ![o.from] =
                      [known |-> TRUE, tp |-> v_forward_penalty(n, t, tp), seq |-> o.seq]]
           if1 == [if EXCEPT !.real = o.seq, !.guarded = if.guarded \/ restarts]
           new == [info |-> info, if |-> if1]
<1>1. restarts \in BOOLEAN
  BY DEF window_restarts
<1>2. v_ogm_metric_update(n, t, o, tp) = IF Refused(n, t, o) THEN {} ELSE {new}
  BY DEF v_ogm_metric_update, Refused
<1>3. CASE Refused(n, t, o)
  <2>1. x = [info |-> vInfo[n][t], router |-> vRouter[n][t], if |-> if, fwd |-> FALSE,
             overput |-> FALSE]
    BY <1>2, <1>3 DEF v_ogm_process_per_outif
  <2> QED BY <1>3, <2>1 DEF TableIs
<1>4. CASE ~Refused(n, t, o)
  <2>1. v_ogm_metric_update(n, t, o, tp) = {new} /\ {new} # {}
    BY <1>2, <1>4
  <2>2. x = v_ogm_route_update(n, t, o, new)
    <3> HIDE DEF new
    <3>1. (CHOOSE y \in {new} : TRUE) = new
      OBVIOUS
    <3> QED BY <2>1, <3>1 DEF v_ogm_process_per_outif
  <2> DEFINE chosen == v_ogm_orig_update(info, vRouter[n][t], o.from)
             fwd == ~(if1.fwd = o.seq) /\ chosen = o.from /\ t # "default"
             lastFwd == IF fwd THEN o.seq ELSE if1.fwd
             if2 == [if1 EXCEPT !.fwd = lastFwd]
  <2>3. x = [info |-> info, router |-> chosen, fwd |-> fwd, if |-> if2,
             overput |-> (if1.fwd = o.seq) /\ vRouter[n][t] # VNone]
    BY <2>2 DEF v_ogm_route_update
  <2>4. if1 \in VOutIf /\ if1.real = o.seq /\ if1.fwd = if.fwd /\ if.fwd \in VNums
        /\ (if1.guarded <=> if.guarded \/ restarts)
    <3> HIDE DEF restarts
    <3> QED BY <1>1 DEF VOutIf
  <2> HIDE DEF if1, chosen, info
  <2>5. lastFwd \in VNums /\ lastFwd = (IF fwd THEN o.seq ELSE if.fwd)
    BY <2>4
  <2> HIDE DEF lastFwd
  <2>6. /\ if2 \in VOutIf /\ if2.real = o.seq /\ if2.fwd = lastFwd
        /\ (if2.guarded <=> if.guarded \/ restarts)
    BY <2>4, <2>5 DEF VOutIf
  <2> HIDE DEF if2
  <2>7. /\ x.info = info /\ x.router = chosen /\ x.if = if2 /\ x.fwd = fwd
    <3> HIDE DEF fwd
    <3> QED BY <2>3
  <2>8. fwd <=> if.fwd # o.seq /\ chosen = o.from /\ t # "default"
    BY <2>4
  <2> HIDE DEF fwd, restarts
  <2> QED BY <1>4, <2>5, <2>6, <2>7, <2>8 DEF TableIs, VNewEntry, info, chosen, restarts
<1> QED BY <1>3, <1>4

-----------------------------------------------------------------------------
(* What an OGM does *)

Low(o) == IF vLink[<<o.to, o.from>>] < o.tp THEN vLink[<<o.to, o.from>>] ELSE o.tp

VDrops(o) ==
  /\ vMsgs' = vMsgs \ {o}
  /\ UNCHANGED <<vInfo, vRouter, vIf, vPassed>>

VTakes(o, goes) ==
  /\ \A t \in VTables : ~Refused(o.to, t, o)
  /\ \A m \in VOthers \ {o.to} :
       vInfo'[m] = vInfo[m] /\ vRouter'[m] = vRouter[m] /\ vIf'[m] = vIf[m]
  /\ \A t \in VTables :
       /\ vInfo'[o.to][t] = [vInfo[o.to][t] EXCEPT ![o.from] = VNewEntry(o.to, t, o, Low(o))]
       /\ vRouter'[o.to][t] = v_ogm_orig_update(vInfo'[o.to][t], vRouter[o.to][t], o.from)
       /\ vIf'[o.to][t].real = o.seq
       /\ vIf'[o.to][t].guarded <=> \/ vIf[o.to][t].guarded
                                    \/ window_restarts(SeqDiff(o.seq, vIf[o.to][t].real))
  /\ goes \in BOOLEAN
  /\ goes <=> vIf[o.to]["iface"].fwd # o.seq /\ vRouter'[o.to]["iface"] = o.from
  /\ vIf'[o.to]["iface"].fwd = IF goes THEN o.seq ELSE vIf[o.to]["iface"].fwd
  /\ vPassed' = IF goes
                THEN vPassed \cup {<<o.to, o.seq, IF Passed(o.to, o.seq) THEN 2 ELSE 1>>}
                ELSE vPassed
  /\ vMsgs' = (IF goes /\ o.ttl > 1
               THEN v_ogm_send_to_if(o.to, o.seq, vInfo'[o.to]["iface"][o.from].tp, o.ttl - 1)
               ELSE vMsgs) \ {o}

VTablesOf(info, chosen, if) ==
  /\ info \in [VOthers -> [VTables -> [VNodes -> VEntry]]]
  /\ chosen \in [VOthers -> [VTables -> VNodes \cup {VNone}]]
  /\ if \in [VOthers -> [VTables -> VOutIf]]

LEMMA LowIs ==
  ASSUME VTyped, NEW o \in vMsgs
  PROVE  /\ o \in VMessage /\ o.to \in VOthers /\ o.from \in VNodes /\ o.seq \in VNums
         /\ o.tp \in 0..VMaxTp /\ o.ttl \in Int /\ {o.to, o.from} \in VLinks
         /\ Low(o) \in 0..o.tp /\ Low(o) \in 0..VMaxTp
<1>1. /\ o \in VMessage /\ o.to \in VOthers /\ o.from \in VNodes /\ o.seq \in VNums
      /\ o.tp \in 0..VMaxTp /\ o.ttl \in Int /\ {o.to, o.from} \in VLinks
  BY DEF VTyped, VMessage
<1>2. <<o.to, o.from>> \in DOMAIN vLink
  BY <1>1 DEF VTyped
<1>3. vLink[<<o.to, o.from>>] \in 0..VMaxTp
  BY <1>2 DEF VTyped
<1>4. Low(o) \in 0..o.tp /\ Low(o) \in 0..VMaxTp
  BY <1>1, <1>3, VConst DEF Low
<1> QED BY <1>1, <1>4

LEMMA NewEntryIs ==
  ASSUME VTyped, NEW o \in vMsgs, NEW n, NEW t
  PROVE  /\ VNewEntry(n, t, o, Low(o)) \in VEntry /\ VNewEntry(n, t, o, Low(o)).known
         /\ VNewEntry(n, t, o, Low(o)).seq = o.seq
         /\ VNewEntry(n, t, o, Low(o)).tp <= o.tp /\ VNewEntry(n, t, o, Low(o)).tp \in 0..VMaxTp
<1>1. o.seq \in VNums /\ o.tp \in 0..VMaxTp /\ Low(o) \in 0..o.tp /\ VMaxTp \in Nat
  BY LowIs, VConst
<1>2. Low(o) \in Nat /\ o.tp \in Nat
  BY <1>1
<1>3. v_forward_penalty(n, t, Low(o)) \in 0..Low(o)
  BY <1>2, VPenaltyIs
<1>4. v_forward_penalty(n, t, Low(o)) \in 0..VMaxTp /\ v_forward_penalty(n, t, Low(o)) <= o.tp
  BY <1>1, <1>2, <1>3
<1> QED BY <1>1, <1>4 DEF VNewEntry, VEntry

LEMMA ProcessIs ==
  ASSUME VTyped, VTogether, NEW o \in vMsgs, v_ogm_process(o)
  PROVE  VTablesOf(vInfo', vRouter', vIf') /\ (VDrops(o) \/ \E goes : VTakes(o, goes))
<1> DEFINE n == o.to
           new == [t \in VTables |-> v_ogm_process_per_outif(n, t, o, Low(o))]
           goes == new["iface"].fwd
<1>1. n \in VOthers /\ o.from \in VNodes /\ o.seq \in VNums
  BY LowIs
<1>2. VTablesOf(vInfo, vRouter, vIf)
  BY DEF VTyped, VTablesOf
<1>3. CASE o.tp = 0
  <2>1. VDrops(o)
    BY <1>3 DEF v_ogm_process, VDrops
  <2> QED BY <1>2, <2>1 DEF VDrops, VTablesOf
<1>4. CASE o.tp # 0
  <2>1. /\ vInfo' = [vInfo EXCEPT ![n] = [t \in VTables |-> new[t].info]]
        /\ vRouter' = [vRouter EXCEPT ![n] = [t \in VTables |-> new[t].router]]
        /\ vIf' = [vIf EXCEPT ![n] = [t \in VTables |-> new[t].if]]
        /\ vMsgs' = (IF goes THEN v_ogm_forward(n, o, new["iface"].info[o.from].tp)
                     ELSE vMsgs) \ {o}
        /\ vPassed' = IF goes THEN vPassed \cup {<<n, o.seq, IF <<n, o.seq, 1>> \in vPassed THEN 2 ELSE 1>>}
                      ELSE vPassed
    BY <1>4 DEF v_ogm_process, Low
  <2>2. \A t \in VTables : TableIs(new[t], n, t, o, Low(o)) /\ new[t].if \in VOutIf
    BY <1>1, <1>2, VTableIs DEF VTablesOf
  <2> HIDE DEF new
  <2>3. \A t \in VTables : /\ vInfo'[n][t] = new[t].info /\ vRouter'[n][t] = new[t].router
                           /\ vIf'[n][t] = new[t].if
    BY <1>1, <1>2, <2>1 DEF VTablesOf
  <2>4. \A m \in VOthers \ {n} : /\ vInfo'[m] = vInfo[m] /\ vRouter'[m] = vRouter[m]
                                 /\ vIf'[m] = vIf[m]
    BY <1>1, <1>2, <2>1 DEF VTablesOf
  <2>5. \A t \in VTables : Refused(n, t, o) <=> Refused(n, "iface", o)
    BY <1>1 DEF VTogether, VTables, Refused, window_protected
  <2>6. "iface" \in VTables /\ "default" \in VTables
    BY DEF VTables
  <2>7. CASE Refused(n, "iface", o)
    <3>1. \A t \in VTables : /\ new[t].info = vInfo[n][t] /\ new[t].router = vRouter[n][t]
                             /\ new[t].if = vIf[n][t] /\ ~new[t].fwd
      BY <2>2, <2>5, <2>7 DEF TableIs
    <3>2. /\ [t \in VTables |-> new[t].info] = vInfo[n]
          /\ [t \in VTables |-> new[t].router] = vRouter[n]
          /\ [t \in VTables |-> new[t].if] = vIf[n]
      <4>1. vInfo[n] = [t \in VTables |-> vInfo[n][t]] /\ vRouter[n] = [t \in VTables |-> vRouter[n][t]]
            /\ vIf[n] = [t \in VTables |-> vIf[n][t]]
        BY <1>1, <1>2 DEF VTablesOf
      <4> QED BY <3>1, <4>1
    <3>3. vInfo' = vInfo /\ vRouter' = vRouter /\ vIf' = vIf
      BY <1>1, <1>2, <2>1, <3>2 DEF VTablesOf
    <3>4. vMsgs' = vMsgs \ {o} /\ vPassed' = vPassed
      BY <2>1, <2>6, <3>1
    <3> QED BY <1>2, <3>3, <3>4 DEF VDrops, VTablesOf
  <2>8. CASE ~Refused(n, "iface", o)
    <3>1. \A t \in VTables :
            /\ ~Refused(n, t, o)
            /\ new[t].info = [vInfo[n][t] EXCEPT ![o.from] = VNewEntry(n, t, o, Low(o))]
            /\ new[t].router = v_ogm_orig_update(new[t].info, vRouter[n][t], o.from)
            /\ new[t].fwd <=> vIf[n][t].fwd # o.seq /\ new[t].router = o.from /\ t # "default"
            /\ new[t].if.real = o.seq
            /\ new[t].if.fwd = (IF new[t].fwd THEN o.seq ELSE vIf[n][t].fwd)
            /\ new[t].if.guarded <=> \/ vIf[n][t].guarded
                                     \/ window_restarts(SeqDiff(o.seq, vIf[n][t].real))
      BY <2>2, <2>5, <2>8 DEF TableIs
    <3> DEFINE s == (goes <=> TRUE)
    <3>2. s \in BOOLEAN /\ (s <=> goes)
      OBVIOUS
    <3> HIDE DEF s
    <3>3. \A t \in VTables :
            /\ new[t].info \in [VNodes -> VEntry]
            /\ new[t].router \in VNodes \cup {VNone}
      <4> SUFFICES ASSUME NEW t \in VTables
                   PROVE  new[t].info \in [VNodes -> VEntry] /\ new[t].router \in VNodes \cup {VNone}
        OBVIOUS
      <4>1. VNewEntry(n, t, o, Low(o)) \in VEntry
        BY NewEntryIs
      <4>2. vInfo[n][t] \in [VNodes -> VEntry] /\ vRouter[n][t] \in VNodes \cup {VNone}
        BY <1>1, <1>2 DEF VTablesOf
      <4>3. new[t].info \in [VNodes -> VEntry]
        <5> DEFINE e == VNewEntry(n, t, o, Low(o))
                   i == vInfo[n][t]
        <5> HIDE DEF e
        <5>1. new[t].info = [i EXCEPT ![o.from] = e]
          BY <3>1 DEF e
        <5> HIDE DEF i
        <5>2. i \in [VNodes -> VEntry] /\ e \in VEntry
          BY <4>1, <4>2 DEF e, i
        <5> QED BY <1>1, <5>1, <5>2
      <4>4. new[t].router \in {vRouter[n][t], o.from}
        BY <3>1 DEF v_ogm_orig_update
      <4> QED BY <1>1, <4>2, <4>3, <4>4
    <3>4. VTablesOf(vInfo', vRouter', vIf')
      <4>1. /\ [t \in VTables |-> new[t].info] \in [VTables -> [VNodes -> VEntry]]
            /\ [t \in VTables |-> new[t].router] \in [VTables -> VNodes \cup {VNone}]
            /\ [t \in VTables |-> new[t].if] \in [VTables -> VOutIf]
        BY <2>2, <3>3
      <4> QED BY <1>1, <1>2, <2>1, <4>1 DEF VTablesOf
    <3>5. /\ vPassed' = IF s THEN vPassed \cup {<<n, o.seq, IF Passed(n, o.seq) THEN 2 ELSE 1>>}
                        ELSE vPassed
          /\ vMsgs' = (IF s /\ o.ttl > 1
                       THEN v_ogm_send_to_if(n, o.seq, vInfo'[n]["iface"][o.from].tp, o.ttl - 1)
                       ELSE vMsgs) \ {o}
      BY <2>1, <2>3, <2>6, <3>2 DEF Passed, v_ogm_forward
    <3>6. /\ s <=> vIf[n]["iface"].fwd # o.seq /\ vRouter'[n]["iface"] = o.from
          /\ vIf'[n]["iface"].fwd = IF s THEN o.seq ELSE vIf[n]["iface"].fwd
      BY <2>3, <2>6, <3>1, <3>2 DEF VTables
    <3>7. \A t \in VTables :
            /\ vInfo'[n][t] = [vInfo[n][t] EXCEPT ![o.from] = VNewEntry(n, t, o, Low(o))]
            /\ vRouter'[n][t] = v_ogm_orig_update(vInfo'[n][t], vRouter[n][t], o.from)
            /\ vIf'[n][t].real = o.seq
            /\ vIf'[n][t].guarded <=> \/ vIf[n][t].guarded
                                      \/ window_restarts(SeqDiff(o.seq, vIf[n][t].real))
      BY <2>3, <3>1
    <3>8. VTakes(o, s)
      BY <2>4, <3>1, <3>2, <3>5, <3>6, <3>7 DEF VTakes
    <3> QED BY <3>4, <3>8
  <2> QED BY <2>7, <2>8
<1> QED BY <1>3, <1>4

-----------------------------------------------------------------------------
(* The types *)

LEMMA SendIs ==
  ASSUME VTyped, NEW n \in VNodes, NEW seq \in VNums, NEW tp \in 0..VMaxTp, NEW ttl \in Int,
         NEW p \in v_ogm_send_to_if(n, seq, tp, ttl)
  PROVE  /\ p \in VMessage /\ {p.to, p.from} \in VLinks
         /\ (p \in vMsgs /\ p.from # n) \/ (p.from = n /\ p.seq = seq /\ p.tp = tp)
<1>1. CASE p \in vMsgs /\ p.from # n
  BY <1>1 DEF VTyped
<1>2. CASE p \in {[to |-> m, from |-> n, seq |-> seq, tp |-> tp, ttl |-> ttl] :
                  m \in VNeighbours(n) \ {VOrig}}
  <2>1. PICK m \in VNeighbours(n) \ {VOrig} :
           p = [to |-> m, from |-> n, seq |-> seq, tp |-> tp, ttl |-> ttl]
    BY <1>2
  <2>2. m \in VOthers /\ {n, m} \in VLinks /\ {n, m} = {m, n}
    BY DEF VNeighbours, VOthers
  <2> QED BY <2>1, <2>2 DEF VMessage
<1> QED BY <1>1, <1>2 DEF v_ogm_send_to_if

LEMMA RouterIs ==
  ASSUME NEW info, NEW chosen, NEW m, NEW new, new = v_ogm_orig_update(info, chosen, m)
  PROVE  (new = chosen /\ chosen # VNone) \/ new = m
BY DEF v_ogm_orig_update

LEMMA VTypedStarts ==
  ASSUME VInit
  PROVE  VTyped /\ VTogether
<1>1. PICK tp \in VTps : \A other \in VTps : other <= tp
  <2> DEFINE T == {k \in Nat : \A x \in VTps : x <= k}
  <2>1. VMaxTp \in T
    BY VConst
  <2>2. PICK k \in T : \A j \in T : k <= j
    BY <2>1, SmallestNumber
  <2>3. CASE k \in VTps
    BY <2>2, <2>3
  <2>4. CASE k \notin VTps
    <3>1. PICK y : y \in VTps
      BY VConst
    <3>2. y \in 1..VMaxTp /\ y <= k /\ k \in Nat
      BY <3>1, VConst
    <3>3. k - 1 \in Nat
      BY <3>2, VConst
    <3>4. \A x \in VTps : x <= k - 1
      <4> SUFFICES ASSUME NEW x \in VTps PROVE x <= k - 1
        OBVIOUS
      <4>1. x \in 1..VMaxTp /\ x <= k /\ x # k
        BY <2>4, VConst
      <4> QED BY <3>2, <4>1, VConst
    <3>5. k - 1 \in T
      BY <3>3, <3>4
    <3>6. k <= k - 1
      BY <2>2, <3>5
    <3> QED BY <3>2, <3>6
  <2> QED BY <2>3, <2>4
<1> DEFINE best == CHOOSE x \in VTps : \A other \in VTps : other <= x
<1>2. best \in VTps
  BY <1>1
<1>3. vLink = [l \in {p \in VOthers \X VNodes : {p[1], p[2]} \in VLinks} |-> best]
  BY DEF VInit
<1> HIDE DEF best
<1>4. best \in 0..VMaxTp
  <2>1. VTps \subseteq 1..VMaxTp /\ VMaxTp \in Nat
    BY VConst
  <2>2. \A k \in 1..VMaxTp : k \in 0..VMaxTp
    BY <2>1, SMT
  <2> QED BY <1>2, <2>1, <2>2
<1>5. /\ DOMAIN vLink = {p \in VOthers \X VNodes : {p[1], p[2]} \in VLinks}
      /\ \A l \in DOMAIN vLink : vLink[l] \in 0..VMaxTp
  BY <1>3, <1>4
<1>6. /\ Unheard \in VEntry /\ ~Unheard.known
      /\ [real |-> 0, fwd |-> 0, guarded |-> FALSE] \in VOutIf
  BY VConst DEF Unheard, VEntry, VOutIf
<1>7. VTyped
  <2> HIDE DEF Unheard
  <2>1. /\ vInfo \in [VOthers -> [VTables -> [VNodes -> VEntry]]]
        /\ vRouter \in [VOthers -> [VTables -> VNodes \cup {VNone}]]
        /\ vIf \in [VOthers -> [VTables -> VOutIf]]
    BY <1>6 DEF VInit
  <2>2. vSeq \in VNums /\ vOgms \in 0..VMaxOgms /\ vCalm \in BOOLEAN
    BY VConst DEF VInit
  <2>3. vMsgs = {} /\ vPassed = {}
    BY DEF VInit
  <2> QED BY <1>5, <2>1, <2>2, <2>3 DEF VTyped
<1>8. VTogether
  BY <1>6 DEF VInit, VTogether, VTables
<1> QED BY <1>7, <1>8

\* What an action that leaves the tables alone keeps
LEMMA VTypedKept ==
  ASSUME VTyped, VTogether, UNCHANGED <<vInfo, vRouter, vIf, vPassed>>,
         vSeq' \in VNums, vOgms' \in 0..VMaxOgms, vCalm' \in BOOLEAN,
         DOMAIN vLink' = DOMAIN vLink, \A l \in DOMAIN vLink : vLink'[l] \in 0..VMaxTp,
         \A p \in vMsgs' : p \in VMessage /\ {p.to, p.from} \in VLinks
  PROVE  VTyped' /\ VTogether'
<1>1. VTyped'
  BY DEF VTyped
<1>2. VTogether'
  BY DEF VTogether
<1> QED BY <1>1, <1>2

LEMMA VTypedProcess ==
  ASSUME VTyped, VTogether, NEW o \in vMsgs, v_ogm_process(o)
  PROVE  VTyped' /\ VTogether'
<1>1. VTablesOf(vInfo', vRouter', vIf') /\ (VDrops(o) \/ \E goes : VTakes(o, goes))
  BY ProcessIs
<1>2. vSeq' = vSeq /\ vLink' = vLink /\ vOgms' = vOgms /\ vCalm' = vCalm
  BY DEF v_ogm_process
<1>3. CASE VDrops(o)
  <2>1. \A p \in vMsgs' : p \in VMessage /\ {p.to, p.from} \in VLinks
    BY <1>3 DEF VDrops, VTyped
  <2>2. vSeq \in VNums /\ vOgms \in 0..VMaxOgms /\ vCalm \in BOOLEAN
        /\ \A l \in DOMAIN vLink : vLink[l] \in 0..VMaxTp
    BY DEF VTyped
  <2> QED BY <1>2, <1>3, <2>1, <2>2, VTypedKept DEF VDrops
<1>4. ASSUME NEW goes, VTakes(o, goes) PROVE VTyped' /\ VTogether'
  <2> DEFINE n == o.to
  <2>1. /\ n \in VOthers /\ o.from \in VNodes /\ o.seq \in VNums /\ o.ttl - 1 \in Int
        /\ {n, o.from} \in VLinks /\ n \in VNodes
    BY LowIs DEF VOthers
  <2>2. /\ \A t \in VTables :
             /\ vInfo'[n][t] = [vInfo[n][t] EXCEPT ![o.from] = VNewEntry(n, t, o, Low(o))]
             /\ vRouter'[n][t] = v_ogm_orig_update(vInfo'[n][t], vRouter[n][t], o.from)
             /\ vIf'[n][t].real = o.seq
             /\ vIf'[n][t].guarded <=> \/ vIf[n][t].guarded
                                       \/ window_restarts(SeqDiff(o.seq, vIf[n][t].real))
        /\ \A m \in VOthers \ {n} :
             vInfo'[m] = vInfo[m] /\ vRouter'[m] = vRouter[m] /\ vIf'[m] = vIf[m]
        /\ vPassed' \subseteq vPassed \cup {<<n, o.seq, 1>>, <<n, o.seq, 2>>}
        /\ vMsgs' \subseteq vMsgs \cup
             v_ogm_send_to_if(n, o.seq, vInfo'[n]["iface"][o.from].tp, o.ttl - 1)
    BY <1>4 DEF VTakes
  <2>3. "iface" \in VTables /\ "default" \in VTables
    BY DEF VTables
  <2>4. \A t \in VTables : /\ vInfo'[n][t] \in [VNodes -> VEntry]
                           /\ vIf'[n][t] \in VOutIf /\ vInfo[n][t] \in [VNodes -> VEntry]
    BY <1>1, <2>1 DEF VTablesOf, VTyped
  <2>5. \A t \in VTables, m \in VNodes :
           /\ vInfo'[n][t][m].known <=> (m = o.from \/ vInfo[n][t][m].known)
           /\ vInfo'[n][t][m].tp \in 0..VMaxTp
    <3> SUFFICES ASSUME NEW t \in VTables, NEW m \in VNodes
                 PROVE  /\ vInfo'[n][t][m].known <=> (m = o.from \/ vInfo[n][t][m].known)
                        /\ vInfo'[n][t][m].tp \in 0..VMaxTp
      OBVIOUS
    <3> DEFINE e == VNewEntry(n, t, o, Low(o))
               i == vInfo[n][t]
               j == vInfo'[n][t]
    <3>1. e.known /\ e \in VEntry
      BY NewEntryIs
    <3>2. j = [i EXCEPT ![o.from] = e] /\ i \in [VNodes -> VEntry] /\ j \in [VNodes -> VEntry]
      BY <2>2, <2>4
    <3> HIDE DEF e, i, j
    <3>3. j[m] = IF m = o.from THEN e ELSE i[m]
      BY <3>2
    <3>4. i[m] \in VEntry /\ j[m] \in VEntry
      BY <3>2
    <3>5. (j[m].known <=> (m = o.from \/ i[m].known)) /\ j[m].tp \in 0..VMaxTp
      BY <3>1, <3>3, <3>4 DEF VEntry
    <3> QED BY <3>5 DEF i, j
  <2>6. \A p \in vMsgs' : p \in VMessage /\ {p.to, p.from} \in VLinks
    <3> SUFFICES ASSUME NEW p \in vMsgs' PROVE p \in VMessage /\ {p.to, p.from} \in VLinks
      OBVIOUS
    <3> DEFINE tp == vInfo'[n]["iface"][o.from].tp
    <3>1. tp \in 0..VMaxTp
      BY <2>1, <2>3, <2>5
    <3>2. p \in vMsgs \/ p \in v_ogm_send_to_if(n, o.seq, tp, o.ttl - 1)
      BY <2>2
    <3> HIDE DEF tp
    <3>3. CASE p \in vMsgs
      BY <3>3 DEF VTyped
    <3>4. CASE p \in v_ogm_send_to_if(n, o.seq, tp, o.ttl - 1)
      <4> DEFINE ttl == o.ttl - 1
                 seq == o.seq
      <4>1. ttl \in Int /\ seq \in VNums /\ n \in VNodes
        BY <2>1
      <4>2. p \in v_ogm_send_to_if(n, seq, tp, ttl)
        BY <3>4
      <4> HIDE DEF ttl, seq, n
      <4> QED BY <3>1, <4>1, <4>2, SendIs
    <3> QED BY <3>2, <3>3, <3>4
  <2>7. VTyped'
    <3>1. vPassed' \subseteq VOthers \X VNums \X {1, 2}
      BY <2>1, <2>2 DEF VTyped
    <3>2. vMsgs' \subseteq VMessage
      BY <2>6
    <3>3. vSeq \in VNums /\ vOgms \in 0..VMaxOgms /\ vCalm \in BOOLEAN
          /\ DOMAIN vLink = {p \in VOthers \X VNodes : {p[1], p[2]} \in VLinks}
          /\ \A l \in DOMAIN vLink : vLink[l] \in 0..VMaxTp
      BY DEF VTyped
    <3> QED BY <1>1, <1>2, <2>6, <3>1, <3>2, <3>3 DEF VTyped, VTablesOf
  <2>8. VTogether'
    <3> SUFFICES ASSUME NEW m \in VOthers
                 PROVE  /\ vIf'[m]["default"].real = vIf'[m]["iface"].real
                        /\ vIf'[m]["default"].guarded = vIf'[m]["iface"].guarded
                        /\ \A k \in VNodes :
                             vInfo'[m]["default"][k].known <=> vInfo'[m]["iface"][k].known
                        /\ \A t \in VTables :
                             /\ vRouter'[m][t] # VNone => vInfo'[m][t][vRouter'[m][t]].known
                             /\ \A k \in VNodes : vInfo'[m][t][k].known => {m, k} \in VLinks
      BY DEF VTogether
    <3>1. CASE m # n
      BY <2>2, <3>1 DEF VTogether
    <3>2. CASE m = n
      <4>1. vIf'[n]["default"].real = vIf'[n]["iface"].real
        BY <2>2, <2>3
      <4>2. /\ vIf'[n]["default"].guarded \in BOOLEAN /\ vIf'[n]["iface"].guarded \in BOOLEAN
            /\ vIf'[n]["default"].guarded <=> vIf'[n]["iface"].guarded
        <5>1. vIf'[n]["default"].guarded \in BOOLEAN /\ vIf'[n]["iface"].guarded \in BOOLEAN
          BY <2>3, <2>4 DEF VOutIf
        <5>2. vIf[n]["default"].real = vIf[n]["iface"].real
              /\ vIf[n]["default"].guarded = vIf[n]["iface"].guarded
          BY <2>1 DEF VTogether
        <5> QED BY <2>2, <2>3, <5>1, <5>2
      <4>3. \A k \in VNodes : vInfo'[n]["default"][k].known <=> vInfo'[n]["iface"][k].known
        BY <2>1, <2>3, <2>5 DEF VTogether
      <4>4. \A t \in VTables, k \in VNodes : vInfo'[n][t][k].known => {n, k} \in VLinks
        BY <2>1, <2>5 DEF VTogether
      <4>5. ASSUME NEW t \in VTables, vRouter'[n][t] # VNone
            PROVE  vInfo'[n][t][vRouter'[n][t]].known
        <5>1. (vRouter'[n][t] = vRouter[n][t] /\ vRouter[n][t] # VNone) \/ vRouter'[n][t] = o.from
          <6>1. vRouter'[n][t] = v_ogm_orig_update(vInfo'[n][t], vRouter[n][t], o.from)
            BY <2>2
          <6> QED BY <6>1, RouterIs
        <5>2. vRouter[n][t] \in VNodes \cup {VNone}
          BY <2>1 DEF VTyped
        <5>3. vRouter[n][t] # VNone => vInfo[n][t][vRouter[n][t]].known
          BY <2>1 DEF VTogether
        <5> QED BY <2>1, <2>5, <5>1, <5>2, <5>3
      <4> QED BY <3>2, <4>1, <4>2, <4>3, <4>4, <4>5
    <3> QED BY <3>1, <3>2
  <2> QED BY <2>7, <2>8
<1> QED BY <1>1, <1>3, <1>4

LEMMA VTypedNext ==
  ASSUME VTyped, VTogether, [VNext]_vVars
  PROVE  VTyped' /\ VTogether'
<1> DEFINE Msgs == \A p \in vMsgs' : p \in VMessage /\ {p.to, p.from} \in VLinks
<1>1. /\ vSeq \in VNums /\ vOgms \in 0..VMaxOgms /\ vCalm \in BOOLEAN
      /\ \A l \in DOMAIN vLink : vLink[l] \in 0..VMaxTp
      /\ \A p \in vMsgs : p \in VMessage /\ {p.to, p.from} \in VLinks
      /\ VTablesOf(vInfo, vRouter, vIf)
  BY DEF VTyped, VTablesOf
<1>2. CASE v_ogm_send
  <2>1. vOgms' \in 0..VMaxOgms /\ vSeq' \in VNums
    <3>1. VMaxOgms \in Nat /\ VSeqMod \in Nat /\ VSeqMod > 0
      BY VConst
    <3>2. vOgms' \in 0..VMaxOgms
      BY <1>1, <1>2, <3>1 DEF v_ogm_send
    <3>3. (vSeq + 1) % VSeqMod \in 0..(VSeqMod - 1)
      BY <1>1, <3>1 DEF VNums
    <3> QED BY <1>2, <3>2, <3>3 DEF v_ogm_send, VNums
  <2>2. Msgs
    <3>1. VOrig \in VNodes /\ VMaxTp \in 0..VMaxTp /\ VTtl \in Int
      BY VConst
    <3>2. vMsgs' = v_ogm_send_to_if(VOrig, vSeq, VMaxTp, VTtl)
      BY <1>2 DEF v_ogm_send
    <3> QED BY <1>1, <3>1, <3>2, SendIs
  <2> QED BY <1>1, <1>2, <2>1, <2>2, VTypedKept DEF v_ogm_send
<1>3. ASSUME NEW o \in vMsgs, v_ogm_process(o)
      PROVE  VTyped' /\ VTogether'
  BY <1>3, VTypedProcess
<1>4. ASSUME NEW l \in DOMAIN vLink, NEW tp \in VTps, LinkChanges(l, tp)
      PROVE  VTyped' /\ VTogether'
  <2>1. vLink' = [vLink EXCEPT ![l] = tp]
    BY <1>4 DEF LinkChanges
  <2>2. tp \in 0..VMaxTp
    BY VConst
  <2>3. DOMAIN vLink' = DOMAIN vLink /\ \A k \in DOMAIN vLink : vLink'[k] \in 0..VMaxTp
    BY <1>1, <2>1, <2>2
  <2> QED BY <1>1, <1>4, <2>3, VTypedKept DEF LinkChanges
<1>5. ASSUME NEW s \in VSeqs, v_ogm_init(s)
      PROVE  VTyped' /\ VTogether'
  <2>1. s \in VNums
    BY VConst
  <2>2. /\ vSeq' = s /\ vCalm' = FALSE /\ vPassed' = {}
        /\ UNCHANGED <<vLink, vMsgs, vInfo, vRouter, vIf, vOgms, vOverput>>
    BY <1>5 DEF v_ogm_init
  <2>3. VTyped'
    BY <2>1, <2>2 DEF VTyped
  <2>4. VTogether'
    BY <2>2 DEF VTogether
  <2> QED BY <2>3, <2>4
<1>6. ASSUME NEW n \in VOthers, VProtectionEnds(n)
      PROVE  VTyped' /\ VTogether'
  <2> DEFINE tables == [t \in VTables |-> [vIf[n][t] EXCEPT !.guarded = FALSE]]
  <2>1. /\ vIf' = [vIf EXCEPT ![n] = tables]
        /\ UNCHANGED <<vSeq, vLink, vMsgs, vInfo, vRouter, vOgms, vChanges, vCalm, vPassed, vOverput>>
    BY <1>6 DEF VProtectionEnds
  <2>2. \A t \in VTables : vIf[n][t] \in VOutIf
    BY <1>1 DEF VTablesOf
  <2>3. tables \in [VTables -> VOutIf]
    BY <2>2 DEF VOutIf
  <2>4. \A t \in VTables : tables[t].real = vIf[n][t].real /\ tables[t].guarded = FALSE
    BY <2>2 DEF VOutIf
  <2> HIDE DEF tables
  <2>5. vIf' \in [VOthers -> [VTables -> VOutIf]]
    BY <1>1, <2>1, <2>3 DEF VTablesOf
  <2>6. VTyped'
    BY <2>1, <2>5 DEF VTyped
  <2>7. vIf'[n] = tables /\ \A m \in VOthers \ {n} : vIf'[m] = vIf[m]
    BY <1>1, <2>1 DEF VTablesOf
  <2>8. \A m \in VOthers : /\ vIf'[m]["default"].real = vIf'[m]["iface"].real
                           /\ vIf'[m]["default"].guarded = vIf'[m]["iface"].guarded
    BY <2>4, <2>7 DEF VTables, VTogether
  <2>9. VTogether'
    BY <2>1, <2>8 DEF VTogether
  <2> QED BY <2>6, <2>9
<1>7. ASSUME NEW n \in VOthers, NEW m \in VNodes, NeighbourTimesOut(n, m)
      PROVE  VTyped' /\ VTogether'
  <2> DEFINE info == [t \in VTables |-> [vInfo[n][t] EXCEPT ![m] = Unheard]]
             known == {o \in VNodes : info["default"][o].known}
  <2>1. /\ vInfo' = [vInfo EXCEPT ![n] = info]
        /\ vCalm' = FALSE
        /\ UNCHANGED <<vSeq, vLink, vMsgs, vIf, vOgms, vPassed, vOverput>>
    BY <1>7 DEF NeighbourTimesOut
  <2>2. PICK d \in IF known = {} THEN {VNone} ELSE Best(info["default"], known),
             i \in IF known = {} THEN {VNone} ELSE Best(info["iface"], known) :
               vRouter' = [vRouter EXCEPT ![n] = [t \in VTables |-> IF t = "default" THEN d ELSE i]]
    BY <1>7 DEF NeighbourTimesOut
  <2>3. "iface" \in VTables /\ "default" \in VTables /\ Unheard \in VEntry /\ ~Unheard.known
        /\ \A t \in VTables : vInfo[n][t] \in [VNodes -> VEntry]
    BY <1>1, VConst DEF VTables, VTablesOf, Unheard, VEntry
  <2>4. info \in [VTables -> [VNodes -> VEntry]]
        /\ \A t \in VTables, o \in VNodes : info[t][o].known <=> vInfo[n][t][o].known /\ o # m
    <3> HIDE DEF Unheard
    <3>1. \A t \in VTables : /\ info[t] = [vInfo[n][t] EXCEPT ![m] = Unheard]
                             /\ info[t] \in [VNodes -> VEntry]
      BY <2>3
    <3>2. \A t \in VTables, o \in VNodes : info[t][o] = IF o = m THEN Unheard ELSE vInfo[n][t][o]
      BY <2>3, <3>1
    <3>3. \A t \in VTables, o \in VNodes : vInfo[n][t][o] \in VEntry
      BY <2>3
    <3>4. \A t \in VTables, o \in VNodes : info[t][o].known <=> vInfo[n][t][o].known /\ o # m
      <4> SUFFICES ASSUME NEW t \in VTables, NEW o \in VNodes
                   PROVE  info[t][o].known <=> vInfo[n][t][o].known /\ o # m
        OBVIOUS
      <4>1. info[t][o] = IF o = m THEN Unheard ELSE vInfo[n][t][o]
        BY <3>2
      <4> HIDE DEF info
      <4> QED BY <2>3, <3>3, <4>1
    <3> QED BY <3>1, <3>4
  <2>5. \A o \in VNodes : info["default"][o].known <=> info["iface"][o].known
    <3> HIDE DEF info
    <3> QED BY <2>3, <2>4 DEF VTogether
  <2>6. /\ d \in VNodes \cup {VNone} /\ i \in VNodes \cup {VNone}
        /\ d # VNone => info["default"][d].known
        /\ i # VNone => info["iface"][i].known
    <3> HIDE DEF info
    <3> QED BY <2>2, <2>5 DEF Best
  <2> HIDE DEF info, known
  <2>7. vInfo' \in [VOthers -> [VTables -> [VNodes -> VEntry]]]
    BY <1>1, <2>1, <2>4 DEF VTablesOf
  <2>8. vRouter' \in [VOthers -> [VTables -> VNodes \cup {VNone}]]
    BY <1>1, <2>2, <2>6 DEF VTablesOf
  <2>9. VTyped'
    BY <2>1, <2>7, <2>8 DEF VTyped
  <2>10. VTogether'
    <3> SUFFICES ASSUME NEW a \in VOthers
                 PROVE  /\ vIf'[a]["default"].real = vIf'[a]["iface"].real
                        /\ vIf'[a]["default"].guarded = vIf'[a]["iface"].guarded
                        /\ \A k \in VNodes :
                             vInfo'[a]["default"][k].known <=> vInfo'[a]["iface"][k].known
                        /\ \A t \in VTables :
                             /\ vRouter'[a][t] # VNone => vInfo'[a][t][vRouter'[a][t]].known
                             /\ \A k \in VNodes : vInfo'[a][t][k].known => {a, k} \in VLinks
      BY DEF VTogether
    <3>1. CASE a # n
      <4>1. vInfo'[a] = vInfo[a] /\ vRouter'[a] = vRouter[a] /\ vIf' = vIf
        BY <1>1, <2>1, <2>2, <3>1 DEF VTablesOf
      <4> QED BY <4>1 DEF VTogether
    <3>2. CASE a = n
      <4>1. vInfo'[n] = info /\ vIf' = vIf
            /\ vRouter'[n]["default"] = d /\ vRouter'[n]["iface"] = i
        BY <1>1, <2>1, <2>2, <2>3 DEF VTablesOf
      <4>2. \A t \in VTables : vRouter'[n][t] # VNone => vInfo'[n][t][vRouter'[n][t]].known
        BY <2>6, <4>1 DEF VTables
      <4>3. \A t \in VTables, k \in VNodes : vInfo'[n][t][k].known => {n, k} \in VLinks
        BY <2>4, <4>1 DEF VTogether
      <4> QED BY <2>5, <3>2, <4>1, <4>2, <4>3 DEF VTogether
    <3> QED BY <3>1, <3>2
  <2> QED BY <2>9, <2>10
<1>8. CASE UNCHANGED vVars
  <2>1. VTyped'
    BY <1>8 DEF VTyped, vVars
  <2>2. VTogether'
    BY <1>8 DEF VTogether, vVars
  <2> QED BY <2>1, <2>2
<1> QED BY <1>2, <1>3, <1>4, <1>5, <1>6, <1>7, <1>8 DEF VNext

-----------------------------------------------------------------------------
(* While nothing restarted and no neighbour timed out *)

\* The conjuncts of VCalmInv, with the witness of its last one
VCalmly(g) ==
  /\ VFewOgms /\ VTimely /\ vCalm /\ VTyped /\ VTogether /\ g \in VLast
  /\ \A n \in VOthers : VPassedOn(n) /\ \A t \in VTables : VNumbered(n, t)
  /\ VInOrder /\ VFlood(g)

LEMMA VLinkIs ==
  ASSUME NEW n, NEW m, {n, m} \in VLinks
  PROVE  n # m /\ n \in VNodes /\ m \in VNodes
<1>1. {n, m} \subseteq VNodes /\ Cardinality({n, m}) = 2
  BY VConst
<1>2. CASE n = m
  <2>1. {n, m} = {n}
    BY <1>2
  <2>2. Cardinality({n}) = 1
    BY FS_Singleton
  <2> QED BY <1>1, <2>1, <2>2
<1> QED BY <1>1, <1>2

LEMMA VTakesIs ==
  ASSUME VTyped, NEW o \in vMsgs, NEW goes, VTakes(o, goes), NEW t \in VTables
  PROVE  /\ \A m \in VNodes : vInfo'[o.to][t][m] =
              IF m = o.from THEN VNewEntry(o.to, t, o, Low(o)) ELSE vInfo[o.to][t][m]
         /\ \/ vRouter'[o.to][t] = o.from
               /\ (vRouter[o.to][t] = VNone \/ vRouter[o.to][t] = o.from
                   \/ ~v_keeps_router(vInfo'[o.to][t], vRouter[o.to][t], o.from))
            \/ /\ vRouter'[o.to][t] = vRouter[o.to][t]
               /\ vRouter[o.to][t] # VNone /\ vRouter[o.to][t] # o.from
               /\ v_keeps_router(vInfo'[o.to][t], vRouter[o.to][t], o.from)
<1> DEFINE n == o.to
<1>1. n \in VOthers /\ o.from \in VNodes
  BY LowIs
<1>2. vInfo[n][t] \in [VNodes -> VEntry]
  BY <1>1 DEF VTyped
<1>3. /\ vInfo'[n][t] = [vInfo[n][t] EXCEPT ![o.from] = VNewEntry(n, t, o, Low(o))]
      /\ vRouter'[n][t] = v_ogm_orig_update(vInfo'[n][t], vRouter[n][t], o.from)
  BY DEF VTakes
<1>4. \A m \in VNodes : vInfo'[n][t][m] =
        IF m = o.from THEN VNewEntry(n, t, o, Low(o)) ELSE vInfo[n][t][m]
  BY <1>2, <1>3
<1> QED BY <1>3, <1>4 DEF v_ogm_orig_update

LEMMA AtNat ==
  /\ \A s \in VSent : s \in VNums /\ At(s) \in Nat
  /\ \A r, s \in VSent : At(r) = At(s) => r = s
<1>1. \A s \in VSent : s \in VNums
  BY DEF VSent
<1>2. \A s \in VNums : s \in Int /\ At(s) \in Nat
  BY AtIs DEF VNums
<1> QED BY <1>1, <1>2, AtIs

\* Every number that a table keeps is at most that of an OGM it takes.
LEMMA VNewest ==
  ASSUME NEW g, VCalmly(g), NEW o \in vMsgs, NEW goes, VTakes(o, goes),
         NEW t \in VTables, NEW m \in VNodes, vInfo[o.to][t][m].known
  PROVE  /\ o.seq \in VSent /\ vInfo[o.to][t][m].seq \in VSent
         /\ At(vInfo[o.to][t][m].seq) <= At(o.seq)
<1> DEFINE n == o.to
           real == vIf[n][t].real
<1>1. n \in VOthers /\ o.seq \in VSent
  BY LowIs DEF VCalmly, VInOrder
<1>2. /\ vInfo[n][t][m].seq \in VSent /\ real \in VSent
      /\ At(vInfo[n][t][m].seq) <= At(real)
  BY <1>1 DEF VCalmly, VNumbered
<1>3. /\ SeqDiff(o.seq, real) = At(o.seq) - At(real)
      /\ At(o.seq) \in Nat /\ At(real) \in Nat
  BY <1>1, <1>2, VSentDiff DEF VCalmly, VTyped
<1>4. /\ VMaxAge \in Nat /\ VSeqRange \in Nat /\ vOgms \in Nat
      /\ vOgms - At(o.seq) <= VMaxAge /\ At(real) < vOgms
  BY <1>2, VConst DEF VCalmly, VTimely, VTyped, VSent
<1>5. ~Refused(n, t, o)
  BY DEF VTakes
<1>6. ~v_seq_is_old(SeqDiff(o.seq, real), window_restarts(SeqDiff(o.seq, real)))
  BY <1>5 DEF Refused
<1> DEFINE d == SeqDiff(o.seq, real)
<1> HIDE DEF d, real
<1>7. d \in Int /\ (d < 0 => ~window_restarts(d))
  BY <1>3, <1>4 DEF window_restarts, d
<1>8. ~(d < 0)
  BY <1>6, <1>7 DEF v_seq_is_old, d
<1>9. At(real) <= At(o.seq)
  BY <1>3, <1>8 DEF d
<1>10. At(vInfo[n][t][m].seq) \in Nat
  BY <1>2, AtNat
<1> QED BY <1>1, <1>2, <1>3, <1>9, <1>10

LEMMA VTakesNumbered ==
  ASSUME NEW g, VCalmly(g), NEW o \in vMsgs, NEW goes, VTakes(o, goes), vOgms' = vOgms,
         NEW t \in VTables
  PROVE  VNumbered(o.to, t)'
<1> DEFINE n == o.to
           f == o.from
           s == o.seq
           new == vInfo'[n][t]
           old == vInfo[n][t]
           r == vRouter[n][t]
           q == vRouter'[n][t]
           e == VNewEntry(n, t, o, Low(o))
<1>1. n \in VOthers /\ f \in VNodes /\ s \in VSent /\ VTyped
  BY LowIs DEF VCalmly, VInOrder
<1>2. VSent' = VSent
  BY DEF VSent
<1>3. \A m \in VNodes : new[m] = IF m = f THEN e ELSE old[m]
  BY <1>1, VTakesIs
<1>4. \/ q = f
      \/ q = r /\ r # VNone /\ r # f /\ v_keeps_router(new, r, f)
  BY <1>1, VTakesIs
<1>5. e.seq = s
  BY <1>1, NewEntryIs
<1>6. vIf'[n][t].real = s
  BY DEF VTakes
<1>7. \A m \in VNodes : new[m].known => new[m].seq \in VSent /\ At(new[m].seq) <= At(s)
  <2> SUFFICES ASSUME NEW m \in VNodes, new[m].known
               PROVE  new[m].seq \in VSent /\ At(new[m].seq) <= At(s)
    OBVIOUS
  <2>1. CASE m = f
    <3>1. new[m].seq = s
      BY <1>3, <1>5, <2>1
    <3> QED BY <1>1, <3>1, AtNat
  <2>2. CASE m # f
    <3>1. new[m] = old[m]
      BY <1>3, <2>2
    <3> QED BY <3>1, VNewest
  <2> QED BY <2>1, <2>2
<1>8. q # VNone
  BY <1>1, <1>4, VConst
<1>9. r \in VNodes \cup {VNone}
  BY <1>1 DEF VTyped
<1>10. VOrigDiff \in Nat /\ VOrigDiff >= 1 /\ VFewOgms /\ vOgms \in 0..VMaxOgms
  BY VConst DEF VCalmly, VFewOgms, VTyped
<1>11. \A m \in VNodes : new[m].known => At(new[m].seq) - At(new[q].seq) < VOrigDiff
  <2> SUFFICES ASSUME NEW m \in VNodes, new[m].known
               PROVE  At(new[m].seq) - At(new[q].seq) < VOrigDiff
    OBVIOUS
  <2>1. At(new[m].seq) \in Nat /\ At(s) \in Nat /\ At(new[m].seq) <= At(s)
    BY <1>1, <1>7, AtNat
  <2>2. CASE q = f
    <3>1. new[q].seq = s
      BY <1>1, <1>3, <1>5, <2>2
    <3> HIDE DEF new, q, s
    <3> QED BY <1>10, <2>1, <3>1
  <2>3. CASE q = r /\ r # VNone /\ r # f /\ v_keeps_router(new, r, f)
    <3>1. r \in VNodes /\ old[r].known
      BY <1>1, <1>9, <2>3 DEF VCalmly, VTogether
    <3>2. new[r] = old[r] /\ new[f].seq = s
      BY <1>1, <1>3, <1>5, <2>3, <3>1
    <3>3. SeqDiff(s, new[r].seq) < VOrigDiff
      BY <2>3, <3>2 DEF v_keeps_router
    <3>4. new[r].seq \in VSent
      BY <1>7, <3>1, <3>2
    <3>5. SeqDiff(s, new[r].seq) = At(s) - At(new[r].seq) /\ At(new[r].seq) \in Nat
      BY <1>1, <1>10, <3>4, VSentDiff
    <3> HIDE DEF new, q, s, r
    <3> QED BY <1>10, <2>1, <2>3, <3>3, <3>5
  <2> QED BY <1>4, <2>2, <2>3
<1>12. \A m \in VNodes : new[m].known =>
         /\ q # VNone /\ new[m].seq \in VSent' /\ vIf'[n][t].real \in VSent'
         /\ At(new[m].seq) <= At(vIf'[n][t].real)
         /\ At(new[m].seq) - At(new[q].seq) < VOrigDiff
  BY <1>1, <1>2, <1>6, <1>7, <1>8, <1>11
<1> QED BY <1>12 DEF VNumbered, At

\* A node that takes an OGM for the second time knows its number of the next hop.
LEMMA VKnownNumber ==
  ASSUME NEW g, VCalmly(g), NEW o \in vMsgs, NEW goes, VTakes(o, goes),
         NEW x, Passed(o.to, x)
  PROVE  /\ x \in VSent /\ Fwd(o.to) \in VSent /\ Passed(o.to, Fwd(o.to))
         /\ Hop(o.to) \in VNodes /\ Via(o.to).known
         /\ Via(o.to).seq \in VSent
         /\ At(x) <= At(Fwd(o.to)) /\ At(Fwd(o.to)) <= At(Via(o.to).seq)
         /\ At(Via(o.to).seq) <= At(o.seq)
<1> DEFINE n == o.to
<1>1. n \in VOthers /\ "iface" \in VTables /\ VTyped
  BY LowIs DEF VTables, VCalmly
<1>2. x \in VNums
  BY DEF Passed, VTyped, VCalmly
<1>3. /\ x \in VSent /\ At(x) <= At(Fwd(n)) /\ Passed(n, Fwd(n))
      /\ Hop(n) # VNone /\ At(Fwd(n)) <= At(Via(n).seq)
  BY <1>1, <1>2 DEF VCalmly, VPassedOn
<1>4. Fwd(n) \in VNums
  BY <1>3 DEF Passed, VTyped, VCalmly
<1>5. Fwd(n) \in VSent
  BY <1>1, <1>3, <1>4 DEF VCalmly, VPassedOn
<1>6. Hop(n) \in VNodes
  BY <1>1, <1>3 DEF Hop, VTyped
<1>7. Via(n).known
  BY <1>1, <1>3 DEF VCalmly, VTogether, Hop, Via
<1>8. Via(n).seq \in VSent /\ At(Via(n).seq) <= At(o.seq)
  BY <1>1, <1>6, <1>7, VNewest DEF Via
<1> QED BY <1>3, <1>5, <1>6, <1>7, <1>8

LEMMA VSentOnce ==
  ASSUME NEW g, VCalmly(g), NEW o \in vMsgs, NEW goes, VTakes(o, goes), goes
  PROVE  ~Passed(o.to, o.seq)
<1> SUFFICES ASSUME Passed(o.to, o.seq) PROVE FALSE
  OBVIOUS
<1>1. /\ o.seq \in VSent /\ Fwd(o.to) \in VSent /\ Via(o.to).seq \in VSent
      /\ At(o.seq) <= At(Fwd(o.to)) /\ At(Fwd(o.to)) <= At(Via(o.to).seq)
      /\ At(Via(o.to).seq) <= At(o.seq)
  BY VKnownNumber
<1>2. At(o.seq) \in Nat /\ At(Fwd(o.to)) \in Nat /\ At(Via(o.to).seq) \in Nat
  BY <1>1, AtNat
<1>3. At(o.seq) = At(Fwd(o.to))
  BY <1>1, <1>2
<1>4. o.seq = Fwd(o.to)
  BY <1>1, <1>3, AtNat
<1>5. Fwd(o.to) # o.seq
  BY DEF VTakes, Fwd
<1> QED BY <1>4, <1>5

\* A node that passes the OGM on, and one that does not
LEMMA VSentIs ==
  ASSUME NEW g, VCalmly(g), NEW o \in vMsgs, NEW goes, VTakes(o, goes)
  PROVE  /\ goes \in BOOLEAN
         /\ goes => /\ Fwd(o.to)' = o.seq /\ Fwd(o.to) # o.seq /\ Hop(o.to)' = o.from
                    /\ vPassed' = vPassed \cup {<<o.to, o.seq, 1>>}
         /\ ~goes => Fwd(o.to)' = Fwd(o.to) /\ vPassed' = vPassed
<1>1. goes => ~Passed(o.to, o.seq)
  BY VSentOnce
<1> QED BY <1>1 DEF VTakes, Fwd, Hop

LEMMA VTakesPassed ==
  ASSUME NEW g, VCalmly(g), NEW o \in vMsgs, NEW goes, VTakes(o, goes), vOgms' = vOgms,
         NEW n \in VOthers
  PROVE  VPassedOn(n)'
<1>1. /\ goes \in BOOLEAN
      /\ goes => /\ Fwd(o.to)' = o.seq /\ Fwd(o.to) # o.seq /\ Hop(o.to)' = o.from
                 /\ vPassed' = vPassed \cup {<<o.to, o.seq, 1>>}
      /\ ~goes => Fwd(o.to)' = Fwd(o.to) /\ vPassed' = vPassed
  BY VSentIs
<1>2. VSent' = VSent
  BY DEF VSent
<1>3. /\ o.to \in VOthers /\ o.from \in VNodes /\ o.seq \in VSent /\ "iface" \in VTables
      /\ VTyped /\ o.from # VNone
  BY LowIs, VConst DEF VCalmly, VInOrder, VTables
<1>4. VPassedOn(n)
  BY DEF VCalmly
<1>5. CASE n # o.to
  <2>1. \A x : \A k \in {1, 2} : <<n, x, k>> \in vPassed' <=> <<n, x, k>> \in vPassed
    BY <1>1, <1>5
  <2>2. Fwd(n)' = Fwd(n) /\ Hop(n)' = Hop(n) /\ Via(n)' = Via(n)
    BY <1>5 DEF VTakes, Fwd, Hop, Via
  <2>3. \A x : Passed(n, x)' <=> Passed(n, x)
    BY <2>1 DEF Passed
  <2> QED BY <1>2, <1>4, <2>1, <2>2, <2>3 DEF VPassedOn, At
<1>6. CASE n = o.to
  <2> SUFFICES ASSUME NEW x \in VNums
               PROVE  /\ <<n, x, 2>> \notin vPassed'
                      /\ Passed(n, x)' => /\ x \in VSent' /\ At(x) <= At(Fwd(n)')
                                          /\ Passed(n, Fwd(n))'
                                          /\ Hop(n)' # VNone /\ At(Fwd(n)') <= At(Via(n)'.seq)
    BY DEF VPassedOn, At
  <2>1. <<n, x, 2>> \notin vPassed'
    BY <1>1, <1>4 DEF VPassedOn
  <2>2. Hop(n)' # VNone
    BY <1>3, <1>6, VTakesIs DEF Hop
  <2>3. Hop(n)' = o.from => Via(n)'.seq = o.seq
    <3>1. Hop(n)' = o.from => Via(n)' = VNewEntry(n, "iface", o, Low(o))
      BY <1>3, <1>6, VTakesIs DEF Hop, Via
    <3> QED BY <1>3, <3>1, NewEntryIs
  <2>4. Hop(n)' # o.from => Hop(n)' = Hop(n) /\ Hop(n) # VNone
    BY <1>3, <1>6, VTakesIs DEF Hop
  <2>5. Hop(n)' # o.from => Via(n)' = Via(n)
    <3> SUFFICES ASSUME Hop(n)' # o.from PROVE Via(n)' = Via(n)
      OBVIOUS
    <3>1. Hop(n)' = Hop(n) /\ Hop(n) # VNone
      BY <2>4
    <3>2. Hop(n) \in VNodes
      BY <1>3, <3>1 DEF Hop, VTyped
    <3>3. vInfo'[n]["iface"][Hop(n)] = vInfo[n]["iface"][Hop(n)]
      BY <1>3, <1>6, <3>1, <3>2, VTakesIs
    <3> QED BY <3>1, <3>3 DEF Via
  <2>6. ASSUME goes, Passed(n, x)'
        PROVE  /\ x \in VSent /\ At(x) <= At(Fwd(n)') /\ Passed(n, Fwd(n))'
               /\ At(Fwd(n)') <= At(Via(n)'.seq)
    <3>1. Fwd(n)' = o.seq /\ Via(n)'.seq = o.seq /\ At(o.seq) \in Nat
      BY <1>1, <1>3, <1>6, <2>3, <2>6, AtNat
    <3>2. Passed(n, Fwd(n))'
      BY <1>1, <1>6, <2>6, <3>1 DEF Passed
    <3>3. x = o.seq \/ Passed(n, x)
      BY <1>1, <1>6, <2>6 DEF Passed
    <3>4. CASE x = o.seq
      BY <1>3, <3>1, <3>2, <3>4
    <3>5. CASE Passed(n, x)
      <4>1. /\ x \in VSent /\ Fwd(n) \in VSent /\ Via(n).seq \in VSent
            /\ At(x) <= At(Fwd(n)) /\ At(Fwd(n)) <= At(Via(n).seq)
            /\ At(Via(n).seq) <= At(o.seq)
        BY <1>6, <3>5, VKnownNumber
      <4>2. At(x) \in Nat /\ At(Fwd(n)) \in Nat /\ At(Via(n).seq) \in Nat
        BY <4>1, AtNat
      <4>3. At(x) <= At(o.seq)
        BY <3>1, <4>1, <4>2
      <4> QED BY <3>1, <3>2, <4>1, <4>3
    <3> QED BY <3>3, <3>4, <3>5
  <2>7. ASSUME ~goes, Passed(n, x)'
        PROVE  /\ x \in VSent /\ At(x) <= At(Fwd(n)') /\ Passed(n, Fwd(n))'
               /\ At(Fwd(n)') <= At(Via(n)'.seq)
    <3>1. Passed(n, x) /\ Fwd(n)' = Fwd(n) /\ vPassed' = vPassed
      BY <1>1, <1>6, <2>7 DEF Passed
    <3>2. /\ x \in VSent /\ Fwd(n) \in VSent /\ Via(n).seq \in VSent /\ Passed(n, Fwd(n))
          /\ At(x) <= At(Fwd(n)) /\ At(Fwd(n)) <= At(Via(n).seq)
          /\ At(Via(n).seq) <= At(o.seq)
      BY <1>6, <3>1, VKnownNumber
    <3>3. At(Fwd(n)) <= At(Via(n)'.seq)
      <4>1. At(Fwd(n)) \in Nat /\ At(Via(n).seq) \in Nat /\ At(o.seq) \in Nat
        BY <1>3, <3>2, AtNat
      <4>2. At(Fwd(n)) <= At(o.seq)
        BY <3>2, <4>1
      <4> QED BY <2>3, <2>5, <3>2, <4>2
    <3>4. Passed(n, Fwd(n))'
      BY <3>1, <3>2 DEF Passed
    <3> QED BY <3>1, <3>2, <3>3, <3>4
  <2> QED BY <1>1, <1>2, <2>1, <2>2, <2>6, <2>7
<1> QED BY <1>5, <1>6

\* An OGM that o.to passes on, to p.to
PassedOnBy(p, o) ==
  /\ p.to \in VOthers /\ p.to # o.to
  /\ p = [to |-> p.to, from |-> o.to, seq |-> o.seq,
          tp |-> VNewEntry(o.to, "iface", o, Low(o)).tp, ttl |-> o.ttl - 1]

\* The OGMs that are on their way after one was taken
LEMMA VTakesMsgs ==
  ASSUME NEW g, VCalmly(g), NEW o \in vMsgs, NEW goes, VTakes(o, goes)
  PROVE  \/ vMsgs' \subseteq vMsgs \ {o}
         \/ /\ goes
            /\ \A p \in vMsgs' : \/ p \in vMsgs \ {o} /\ p.from # o.to
                                 \/ PassedOnBy(p, o)
<1> DEFINE tp == vInfo'[o.to]["iface"][o.from].tp
<1>0. "iface" \in VTables /\ o.from \in VNodes /\ o.to \in VNodes /\ VTyped
  BY LowIs DEF VTables, VOthers, VCalmly
<1>1. tp = VNewEntry(o.to, "iface", o, Low(o)).tp
  BY <1>0, VTakesIs
<1>2. vMsgs' = (IF goes /\ o.ttl > 1
                THEN v_ogm_send_to_if(o.to, o.seq, tp, o.ttl - 1) ELSE vMsgs) \ {o}
  BY DEF VTakes
<1> HIDE DEF tp
<1>3. CASE ~(goes /\ o.ttl > 1)
  BY <1>2, <1>3
<1>4. CASE goes /\ o.ttl > 1
  <2> SUFFICES ASSUME NEW p \in vMsgs'
               PROVE  (p \in vMsgs \ {o} /\ p.from # o.to) \/ PassedOnBy(p, o)
    BY <1>4
  <2>1. p \in v_ogm_send_to_if(o.to, o.seq, tp, o.ttl - 1) /\ p # o
    BY <1>2, <1>4
  <2>2. CASE p \in vMsgs /\ p.from # o.to
    BY <2>1, <2>2
  <2>3. CASE p \in {[to |-> m, from |-> o.to, seq |-> o.seq, tp |-> tp, ttl |-> o.ttl - 1] :
                    m \in VNeighbours(o.to) \ {VOrig}}
    <3>1. PICK m \in VNeighbours(o.to) \ {VOrig} :
             p = [to |-> m, from |-> o.to, seq |-> o.seq, tp |-> tp, ttl |-> o.ttl - 1]
      BY <2>3
    <3>2. m \in VOthers /\ m # o.to
      BY VLinkIs DEF VNeighbours, VOthers
    <3> QED BY <1>1, <3>1, <3>2 DEF PassedOnBy
  <2> QED BY <2>1, <2>2, <2>3 DEF v_ogm_send_to_if
<1> QED BY <1>3, <1>4

LEMMA VTakesInOrder ==
  ASSUME NEW g, VCalmly(g), NEW o \in vMsgs, NEW goes, VTakes(o, goes), vOgms' = vOgms
  PROVE  VInOrder'
<1> DEFINE n == o.to
<1>1. VSent' = VSent
  BY DEF VSent
<1>2. VTyped /\ VInOrder /\ VFlood(g) /\ "iface" \in VTables /\ n \in VOthers
      /\ o.from \in VNodes /\ o.from # n
  BY LowIs, VLinkIs DEF VCalmly, VTables
<1>3. ASSUME NEW p \in vMsgs \ {o}
      PROVE  /\ p.seq \in VSent
             /\ vInfo'[p.to]["iface"][p.from].known =>
                  At(vInfo'[p.to]["iface"][p.from].seq) < At(p.seq)
  <2>1. p.to \in VOthers /\ p.from \in VNodes
    BY <1>2, LowIs
  <2>2. p.to = n => p.from # o.from
    BY <1>2 DEF VInOrder
  <2>3. vInfo'[p.to]["iface"][p.from] = vInfo[p.to]["iface"][p.from]
    <3>1. CASE p.to = n
      BY <1>2, <2>1, <2>2, <3>1, VTakesIs
    <3>2. CASE p.to # n
      BY <2>1, <3>2 DEF VTakes
    <3> QED BY <3>1, <3>2
  <2> QED BY <1>2, <2>3 DEF VInOrder
<1>4. ASSUME goes, NEW p, PassedOnBy(p, o)
      PROVE  /\ p.seq \in VSent
             /\ vInfo'[p.to]["iface"][p.from].known =>
                  At(vInfo'[p.to]["iface"][p.from].seq) < At(p.seq)
  <2>1. p.seq = o.seq /\ p.from = n /\ p.to \in VOthers /\ p.to # n /\ o.seq \in VSent
    BY <1>2, <1>4 DEF PassedOnBy, VInOrder
  <2>2. vInfo'[p.to]["iface"][n] = vInfo[p.to]["iface"][n]
    BY <2>1 DEF VTakes
  <2>3. ASSUME vInfo[p.to]["iface"][n].known
        PROVE  At(vInfo[p.to]["iface"][n].seq) < At(o.seq)
    <3> DEFINE x == vInfo[p.to]["iface"][n].seq
    <3>1. n \in VNodes /\ n # VOrig
      BY <1>2 DEF VOthers
    <3>2. Passed(n, x)
      BY <1>2, <2>1, <2>3, <3>1 DEF VFlood, Claim
    <3> HIDE DEF x
    <3>3. /\ x \in VSent /\ Fwd(n) \in VSent /\ Via(n).seq \in VSent
          /\ At(x) <= At(Fwd(n)) /\ At(Fwd(n)) <= At(Via(n).seq) /\ At(Via(n).seq) <= At(o.seq)
      BY <3>2, VKnownNumber
    <3>4. At(x) \in Nat /\ At(Fwd(n)) \in Nat /\ At(Via(n).seq) \in Nat /\ At(o.seq) \in Nat
      BY <2>1, <3>3, AtNat
    <3>5. At(Fwd(n)) # At(o.seq)
      BY <1>4, <2>1, <3>3, AtNat, VSentIs
    <3>6. At(x) < At(o.seq)
      BY <3>3, <3>4, <3>5
    <3> QED BY <3>6 DEF x
  <2> QED BY <2>1, <2>2, <2>3
<1>5. \A p \in vMsgs' : /\ p.seq \in VSent
                        /\ vInfo'[p.to]["iface"][p.from].known =>
                             At(vInfo'[p.to]["iface"][p.from].seq) < At(p.seq)
  BY <1>3, <1>4, VTakesMsgs
<1>6. \A p, q \in vMsgs' : p.to = q.to /\ p.from = q.from => p = q
  <2>1. CASE vMsgs' \subseteq vMsgs \ {o}
    BY <1>2, <2>1 DEF VInOrder
  <2>2. CASE \A p \in vMsgs' : (p \in vMsgs \ {o} /\ p.from # n) \/ PassedOnBy(p, o)
    <3> SUFFICES ASSUME NEW p \in vMsgs', NEW q \in vMsgs', p.to = q.to, p.from = q.from
                 PROVE  p = q
      OBVIOUS
    <3>1. CASE p.from # n
      <4>1. ~PassedOnBy(p, o) /\ ~PassedOnBy(q, o)
        BY <3>1 DEF PassedOnBy
      <4>2. p \in vMsgs /\ q \in vMsgs
        BY <2>2, <4>1
      <4> QED BY <1>2, <4>2 DEF VInOrder
    <3>2. CASE p.from = n
      BY <2>2, <3>2 DEF PassedOnBy
    <3> QED BY <3>1, <3>2
  <2> QED BY <2>1, <2>2, VTakesMsgs
<1> QED BY <1>1, <1>5, <1>6 DEF VInOrder, At

\* What the node that took the OGM says of it from now on
NextLast(g, h, o, goes, tp) ==
  h = IF goes
      THEN [g EXCEPT ![o.to] = [tp |-> tp, rank |-> IF o.from = VOrig THEN 0
                                                   ELSE g[o.from].rank + 1]]
      ELSE g

LEMMA VLastIs ==
  ASSUME NEW g \in VLast, NEW goes \in BOOLEAN, NEW o, o.to \in VNodes, o.from \in VNodes,
         o.to # o.from, NEW tp \in 0..VMaxTp, NEW h, NextLast(g, h, o, goes, tp)
  PROVE  /\ h \in VLast
         /\ ~goes => h = g
         /\ \A m \in VNodes \ {o.to} : h[m] = g[m]
         /\ goes => h[o.to].tp = tp /\ (o.from # VOrig => h[o.from].rank < h[o.to].rank)
         /\ \A m \in VNodes : h[m].tp \in Nat /\ g[m].tp \in Nat
<1> DEFINE rank == IF o.from = VOrig THEN 0 ELSE g[o.from].rank + 1
           e == [tp |-> tp, rank |-> rank]
<1>1. \A m \in VNodes : g[m] \in [tp : 0..VMaxTp, rank : Nat]
  BY DEF VLast
<1>2. \A m \in VNodes : g[m].tp \in 0..VMaxTp /\ g[m].rank \in Nat
  BY <1>1
<1>3. rank \in Nat /\ (o.from # VOrig => g[o.from].rank < rank)
  BY <1>2
<1> HIDE DEF rank
<1>4. e \in [tp : 0..VMaxTp, rank : Nat] /\ e.tp = tp /\ e.rank = rank
  BY <1>3
<1>5. h = IF goes THEN [g EXCEPT ![o.to] = e] ELSE g
  BY DEF NextLast, rank
<1> HIDE DEF e
<1>6. h \in VLast
  BY <1>4, <1>5 DEF VLast
<1>7. \A m \in VNodes \ {o.to} : h[m] = g[m]
  BY <1>5 DEF VLast
<1>8. goes => h[o.to] = e
  BY <1>5 DEF VLast
<1>9. \A m \in VNodes : h[m].tp \in Nat /\ g[m].tp \in Nat
  <2>1. \A m \in VNodes : h[m] \in [tp : 0..VMaxTp, rank : Nat]
    BY <1>6 DEF VLast
  <2> QED BY <1>2, <2>1
<1> QED BY <1>3, <1>4, <1>5, <1>6, <1>7, <1>8, <1>9

LEMMA VTakesClaims ==
  ASSUME NEW g, VCalmly(g), NEW o \in vMsgs, NEW goes, VTakes(o, goes),
         NEW tp, tp = VNewEntry(o.to, "iface", o, Low(o)).tp,
         NEW h, NextLast(g, h, o, goes, tp)
  PROVE  /\ \A m \in VNodes : \A x, y : Claim(g, m, x, y) => Claim(h, m, x, y)'
         /\ Claim(h, o.from, o.seq, tp)'
         /\ goes => Claim(h, o.to, o.seq, tp)'
<1> DEFINE n == o.to
<1>1. /\ VTyped /\ VFlood(g) /\ g \in VLast /\ n \in VOthers /\ n \in VNodes
      /\ o.from \in VNodes /\ o.from # n /\ "iface" \in VTables
  BY LowIs, VLinkIs DEF VCalmly, VTables, VOthers
<1>2. tp \in 0..VMaxTp /\ tp <= o.tp /\ o.tp \in 0..VMaxTp /\ VMaxTp \in Nat
  <2>1. tp \in 0..VMaxTp /\ tp <= o.tp
    BY <1>1, NewEntryIs
  <2>2. o.tp \in 0..VMaxTp /\ VMaxTp \in Nat
    BY <1>1, LowIs, VConst
  <2> QED BY <2>1, <2>2
<1>3. /\ ~goes => h = g
      /\ \A m \in VNodes \ {n} : h[m] = g[m]
      /\ goes => h[n].tp = tp
      /\ \A m \in VNodes : h[m].tp \in Nat /\ g[m].tp \in Nat
  <2>1. o.to \in VNodes /\ o.from \in VNodes /\ o.to # o.from
    BY <1>1
  <2> HIDE DEF n
  <2>2. /\ ~goes => h = g
        /\ \A m \in VNodes \ {o.to} : h[m] = g[m]
        /\ goes => h[o.to].tp = tp /\ (o.from # VOrig => h[o.from].rank < h[o.to].rank)
        /\ \A m \in VNodes : h[m].tp \in Nat /\ g[m].tp \in Nat
    <3>1. goes \in BOOLEAN
      BY DEF VTakes
    <3>2. g \in VLast /\ tp \in 0..VMaxTp /\ NextLast(g, h, o, goes, tp)
      BY <1>1, <1>2
    <3> QED BY <2>1, <3>1, <3>2, VLastIs
  <2> QED BY <2>2 DEF n
<1>4. /\ goes \in BOOLEAN
      /\ goes => /\ Fwd(n)' = o.seq /\ Fwd(n) # o.seq /\ Hop(n)' = o.from
                 /\ vPassed' = vPassed \cup {<<n, o.seq, 1>>}
      /\ ~goes => Fwd(n)' = Fwd(n) /\ vPassed' = vPassed
  BY VSentIs
<1>5. goes => ~Passed(n, o.seq)
  BY VSentOnce
<1>6. \A m \in VOthers \ {n} : Fwd(m)' = Fwd(m)
  BY DEF VTakes, Fwd
<1>7. \A m, x : Passed(m, x) => Passed(m, x)'
  BY <1>4 DEF Passed
<1>8. ASSUME NEW m \in VNodes, NEW x, NEW y, Claim(g, m, x, y)
      PROVE  Claim(h, m, x, y)'
  <2>1. CASE m = VOrig
    BY <2>1 DEF Claim
  <2>2. CASE m \in VOthers \ {n}
    BY <1>3, <1>6, <1>7, <1>8, <2>2 DEF Claim, VOthers
  <2>3. CASE m = n /\ ~goes
    BY <1>3, <1>4, <1>7, <1>8, <2>3 DEF Claim
  <2>4. CASE m = n /\ n # VOrig /\ goes
    <3>1. Passed(n, x) /\ x # o.seq
      BY <1>5, <1>8, <2>4 DEF Claim
    <3> QED BY <1>4, <1>7, <2>4, <3>1 DEF Claim
  <2> QED BY <1>1, <2>1, <2>2, <2>3, <2>4 DEF VOthers
<1>9. Claim(h, o.from, o.seq, tp)'
  <2>1. Claim(h, o.from, o.seq, o.tp)'
    BY <1>1, <1>8 DEF VFlood
  <2>2. h[o.from].tp \in Nat
    BY <1>1, <1>3
  <2> QED BY <1>2, <2>1, <2>2 DEF Claim
<1>10. goes => Claim(h, n, o.seq, tp)'
  <2> SUFFICES ASSUME goes PROVE Claim(h, n, o.seq, tp)'
    OBVIOUS
  <2>1. Passed(n, o.seq)' /\ h[n].tp = tp
    BY <1>3, <1>4 DEF Passed
  <2> QED BY <1>2, <2>1 DEF Claim
<1> QED BY <1>8, <1>9, <1>10

LEMMA VTakesNotWorse ==
  ASSUME NEW g, VCalmly(g), NEW o \in vMsgs, NEW goes, VTakes(o, goes),
         NEW tp, tp = VNewEntry(o.to, "iface", o, Low(o)).tp,
         NEW h, NextLast(g, h, o, goes, tp), NEW k \in VOthers
  PROVE  VNotWorse(h, k)'
<1> DEFINE n == o.to
           f == o.from
           s == o.seq
<1>1. /\ VTyped /\ VFlood(g) /\ g \in VLast /\ n \in VOthers /\ n \in VNodes
      /\ f \in VNodes /\ f # n /\ "iface" \in VTables /\ s \in VSent /\ VFewOgms
      /\ VTogether /\ n # VOrig
  BY LowIs, VLinkIs DEF VCalmly, VTables, VOthers, VInOrder
<1>2. tp \in 0..VMaxTp /\ tp \in Nat /\ tp <= o.tp /\ o.tp \in 0..VMaxTp /\ VMaxTp \in Nat
  <2>1. tp \in 0..VMaxTp /\ tp <= o.tp
    BY <1>1, NewEntryIs
  <2>2. o.tp \in 0..VMaxTp /\ VMaxTp \in Nat
    BY <1>1, LowIs, VConst
  <2> QED BY <2>1, <2>2
<1>3. /\ ~goes => h = g
      /\ \A m \in VNodes \ {n} : h[m] = g[m]
      /\ goes => h[n].tp = tp /\ (f # VOrig => h[f].rank < h[n].rank)
      /\ \A m \in VNodes : h[m].tp \in Nat /\ g[m].tp \in Nat
  <2>1. o.to \in VNodes /\ o.from \in VNodes /\ o.to # o.from
    BY <1>1
  <2> HIDE DEF n
  <2>2. /\ ~goes => h = g
        /\ \A m \in VNodes \ {o.to} : h[m] = g[m]
        /\ goes => h[o.to].tp = tp /\ (o.from # VOrig => h[o.from].rank < h[o.to].rank)
        /\ \A m \in VNodes : h[m].tp \in Nat /\ g[m].tp \in Nat
    <3>1. goes \in BOOLEAN
      BY DEF VTakes
    <3>2. g \in VLast /\ tp \in 0..VMaxTp /\ NextLast(g, h, o, goes, tp)
      BY <1>1, <1>2
    <3> QED BY <2>1, <3>1, <3>2, VLastIs
  <2> QED BY <2>2 DEF n
<1>4. /\ goes \in BOOLEAN
      /\ goes => /\ Fwd(n)' = s /\ Fwd(n) # s /\ Hop(n)' = f
                 /\ vPassed' = vPassed \cup {<<n, s, 1>>}
      /\ ~goes => Fwd(n)' = Fwd(n) /\ vPassed' = vPassed
  BY VSentIs
<1>5. goes => ~Passed(n, s)
  BY VSentOnce
<1>6. \A m \in VOthers \ {n} : /\ Fwd(m)' = Fwd(m) /\ Hop(m)' = Hop(m) /\ Via(m)' = Via(m)
                               /\ \A x : Passed(m, x)' <=> Passed(m, x)
  <2> SUFFICES ASSUME NEW m \in VOthers \ {n}
               PROVE  /\ Fwd(m)' = Fwd(m) /\ Hop(m)' = Hop(m) /\ Via(m)' = Via(m)
                      /\ \A x : Passed(m, x)' <=> Passed(m, x)
    OBVIOUS
  <2>1. Fwd(m)' = Fwd(m) /\ Hop(m)' = Hop(m) /\ Via(m)' = Via(m)
    BY DEF VTakes, Fwd, Hop, Via
  <2>2. \A x : Passed(m, x)' <=> Passed(m, x)
    BY <1>4 DEF Passed
  <2> QED BY <2>1, <2>2
<1>7. \A m \in VNodes : vInfo'[n]["iface"][m] =
        IF m = f THEN VNewEntry(n, "iface", o, Low(o)) ELSE vInfo[n]["iface"][m]
  BY <1>1, VTakesIs
<1>8. Hop(n)' = f => Via(n)'.seq = s /\ Via(n)'.tp = tp
  <2>1. Hop(n)' = f => Via(n)' = VNewEntry(n, "iface", o, Low(o))
    BY <1>1, <1>7 DEF Hop, Via
  <2> QED BY <1>1, <2>1, NewEntryIs
<1> SUFFICES ASSUME NEW z \in VNums, Passed(k, z)', Via(k)'.seq = Fwd(k)'
             PROVE  /\ Via(k)'.tp >= h[k].tp
                    /\ Via(k)'.tp = h[k].tp /\ Hop(k)' # VOrig /\ Fwd(Hop(k))' = Fwd(k)' =>
                         h[Hop(k)'].rank < h[k].rank
  BY DEF VNotWorse
<1>9. ASSUME NEW m \in VOthers, NEW x \in VNums, Passed(m, x)
      PROVE  /\ Hop(m) # VNone /\ Hop(m) \in VNodes /\ Hop(m) # m /\ Via(m).known
             /\ Via(m).seq = Fwd(m) =>
                  /\ Via(m).tp >= g[m].tp
                  /\ Via(m).tp = g[m].tp /\ Hop(m) # VOrig /\ Fwd(Hop(m)) = Fwd(m) =>
                       g[Hop(m)].rank < g[m].rank
  <2>1. Hop(m) # VNone
    BY <1>9 DEF VCalmly, VPassedOn
  <2>2. Hop(m) \in VNodes
    BY <1>1, <2>1 DEF Hop, VTyped
  <2>3. Via(m).known /\ {m, Hop(m)} \in VLinks
    BY <1>1, <2>1, <2>2 DEF Via, Hop, VTogether
  <2>4. VNotWorse(g, m)
    BY <1>1 DEF VFlood
  <2> QED BY <1>9, <2>1, <2>2, <2>3, <2>4, VLinkIs DEF VNotWorse
<1>10. CASE k # n
  <2>1. /\ Passed(k, z) /\ Via(k)' = Via(k) /\ Hop(k)' = Hop(k) /\ Fwd(k)' = Fwd(k)
        /\ Via(k).seq = Fwd(k) /\ k \in VNodes /\ h[k] = g[k]
    BY <1>3, <1>6, <1>10 DEF VOthers
  <2>2. /\ Hop(k) \in VNodes /\ Via(k).known /\ Via(k).tp >= g[k].tp
        /\ Via(k).tp = g[k].tp /\ Hop(k) # VOrig /\ Fwd(Hop(k)) = Fwd(k) =>
             g[Hop(k)].rank < g[k].rank
    BY <1>9, <2>1
  <2>3. ASSUME Via(k).tp = g[k].tp, Hop(k) # VOrig, Fwd(Hop(k))' = Fwd(k)
        PROVE  h[Hop(k)].rank < h[k].rank
    <3>1. CASE Hop(k) # n
      <4>1. Fwd(Hop(k))' = Fwd(Hop(k)) /\ h[Hop(k)] = g[Hop(k)]
        <5>1. Hop(k) \in VOthers \ {n} /\ Hop(k) \in VNodes \ {n}
          BY <2>2, <2>3, <3>1 DEF VOthers
        <5>2. vIf'[Hop(k)] = vIf[Hop(k)]
          BY <5>1 DEF VTakes
        <5> QED BY <1>3, <2>1, <5>1, <5>2 DEF Fwd
      <4> QED BY <2>1, <2>2, <2>3, <4>1
    <3>2. CASE Hop(k) = n /\ ~goes
      <4>1. Fwd(Hop(k))' = Fwd(Hop(k)) /\ h = g
        BY <1>3, <1>4, <2>1, <3>2 DEF Fwd
      <4> QED BY <2>1, <2>2, <2>3, <4>1
    <3>3. CASE Hop(k) = n /\ goes
      <4>1. Via(k).seq = s
        BY <1>4, <2>1, <2>3, <3>3 DEF Fwd
      <4>2. Claim(g, n, Via(k).seq, Via(k).tp)
        BY <1>1, <2>2, <3>3 DEF VFlood, Via
      <4>3. Passed(n, s)
        BY <1>1, <4>1, <4>2 DEF Claim
      <4> QED BY <1>5, <3>3, <4>3
    <3> QED BY <1>4, <3>1, <3>2, <3>3
  <2>4. Fwd(Hop(k))' = vIf'[Hop(k)]["iface"].fwd
    BY <2>1 DEF Fwd
  <2> QED BY <2>1, <2>2, <2>3
<1>11. CASE k = n /\ goes
  <2>1. Hop(k)' = f /\ Via(k)'.tp = tp /\ h[k].tp = tp
    BY <1>3, <1>4, <1>8, <1>11
  <2> QED BY <1>2, <1>3, <1>11, <2>1
<1>12. CASE k = n /\ ~goes /\ Hop(n)' # f
  <2>1. Hop(n)' = Hop(n) /\ Hop(n) # VNone
    BY <1>1, <1>12, VTakesIs DEF Hop
  <2>2. Passed(n, z) /\ Fwd(n)' = Fwd(n) /\ h = g
    BY <1>3, <1>4, <1>12 DEF Passed
  <2>3. Hop(n) \in VNodes /\ Hop(n) # n
    BY <1>1, <1>9, <2>2
  <2>4. Via(n)' = Via(n)
    BY <1>7, <1>12, <2>1, <2>3 DEF Via, Hop
  <2>5. Hop(n) # VOrig => Fwd(Hop(n))' = Fwd(Hop(n))
    <3>1. Hop(n) # VOrig => Hop(n) \in VOthers \ {n}
      BY <2>3 DEF VOthers
    <3>2. Hop(n) # VOrig => vIf'[Hop(n)] = vIf[Hop(n)]
      BY <3>1 DEF VTakes
    <3> QED BY <2>1, <3>2 DEF Fwd
  <2>6. /\ Via(n).tp >= g[n].tp
        /\ Via(n).tp = g[n].tp /\ Hop(n) # VOrig /\ Fwd(Hop(n)) = Fwd(n) =>
             g[Hop(n)].rank < g[n].rank
    BY <1>1, <1>9, <1>12, <2>2, <2>4
  <2> QED BY <1>12, <2>1, <2>2, <2>4, <2>5, <2>6
<1>13. CASE k = n /\ ~goes /\ Hop(n)' = f
  <2>1. Passed(n, z) /\ Fwd(n)' = Fwd(n) /\ h = g /\ Via(n)'.seq = s /\ Via(n)'.tp = tp
    BY <1>3, <1>4, <1>8, <1>13 DEF Passed
  <2>2. s = Fwd(n)
    BY <1>13, <2>1
  <2>3. /\ Hop(n) # VNone /\ Hop(n) \in VNodes /\ Via(n).known
        /\ Via(n).seq = Fwd(n) => Via(n).tp >= g[n].tp
    BY <1>1, <1>9, <2>1
  <2>4. /\ Via(n).seq \in VSent /\ Fwd(n) \in VSent
        /\ At(Fwd(n)) <= At(Via(n).seq) /\ At(Via(n).seq) <= At(s)
    BY <2>1, VKnownNumber
  <2>5. Via(n).seq = s
    <3>1. At(Via(n).seq) \in Nat /\ At(s) \in Nat
      BY <1>1, <2>4, AtNat
    <3>2. At(Via(n).seq) = At(s)
      BY <2>2, <2>4, <3>1
    <3> QED BY <1>1, <2>4, <3>2, AtNat
  <2>6. Hop(n) # f
    <3> SUFFICES ASSUME Hop(n) = f PROVE FALSE
      OBVIOUS
    <3>1. vInfo[n]["iface"][f].known /\ vInfo[n]["iface"][f].seq = s
      BY <2>3, <2>5 DEF Via
    <3>2. At(s) < At(s)
      BY <3>1 DEF VCalmly, VInOrder
    <3> QED BY <1>1, <3>2, AtNat
  <2>7. ~v_keeps_router(vInfo'[n]["iface"], Hop(n), f)
    BY <1>1, <1>13, <2>3, <2>6, VTakesIs DEF Hop
  <2>8. /\ vInfo'[n]["iface"][Hop(n)] = Via(n)
        /\ vInfo'[n]["iface"][f].seq = s /\ vInfo'[n]["iface"][f].tp = tp
    <3>1. vInfo'[n]["iface"][f] = VNewEntry(n, "iface", o, Low(o))
      BY <1>1, <1>7
    <3>2. vInfo'[n]["iface"][f].seq = s /\ vInfo'[n]["iface"][f].tp = tp
      BY <1>1, <3>1, NewEntryIs
    <3> QED BY <1>7, <2>3, <2>6, <3>2 DEF Via
  <2>9. SeqDiff(s, s) = At(s) - At(s) /\ At(s) \in Nat
    BY <1>1, VSentDiff DEF VTyped
  <2>10. VOrigDiff >= 1
    BY <1>1 DEF VFewOgms
  <2>11. SeqDiff(s, s) < VOrigDiff
    BY <2>9, <2>10, VConst
  <2>12. ~(Via(n).tp >= tp)
    BY <2>5, <2>7, <2>8, <2>11 DEF v_keeps_router
  <2>13. Via(n).tp \in Nat
    <3>1. Via(n) \in VEntry
      BY <1>1, <2>3 DEF Via, VTyped
    <3> QED BY <3>1, VConst DEF VEntry
  <2>14. Via(n).tp >= g[n].tp /\ g[n].tp \in Nat
    BY <1>1, <1>3, <2>2, <2>3, <2>5
  <2>15. tp > g[n].tp
    BY <1>2, <2>12, <2>13, <2>14
  <2> QED BY <1>2, <1>13, <2>1, <2>14, <2>15
<1> QED BY <1>4, <1>10, <1>11, <1>12, <1>13

LEMMA VTakesFlood ==
  ASSUME NEW g, VCalmly(g), NEW o \in vMsgs, NEW goes, VTakes(o, goes)
  PROVE  \E h \in VLast : VFlood(h)'
<1>1. PICK tp : tp = VNewEntry(o.to, "iface", o, Low(o)).tp
  OBVIOUS
<1>2. PICK h : NextLast(g, h, o, goes, tp)
  BY DEF NextLast
<1>3. /\ VTyped /\ VFlood(g) /\ g \in VLast /\ o.to \in VOthers /\ o.to \in VNodes
      /\ o.from \in VNodes /\ o.from # o.to /\ "iface" \in VTables /\ goes \in BOOLEAN
  BY LowIs, VLinkIs DEF VCalmly, VTables, VOthers, VTakes
<1>4. tp \in 0..VMaxTp
  BY <1>1, <1>3, NewEntryIs
<1>5. h \in VLast
  BY <1>2, <1>3, <1>4, VLastIs
<1>6. /\ \A m \in VNodes : \A x, y : Claim(g, m, x, y) => Claim(h, m, x, y)'
      /\ Claim(h, o.from, o.seq, tp)'
      /\ goes => Claim(h, o.to, o.seq, tp)'
  BY <1>1, <1>2, VTakesClaims
<1> DEFINE C(m, x, y) ==
             m = VOrig \/ (<<m, x, 1>> \in vPassed'
                           /\ (x = vIf'[m]["iface"].fwd => y <= h[m].tp))
<1>7. /\ \A m \in VNodes : \A x, y : Claim(g, m, x, y) => C(m, x, y)
      /\ C(o.from, o.seq, tp)
      /\ goes => C(o.to, o.seq, tp)
  BY <1>6 DEF Claim, Passed, Fwd
<1> HIDE DEF C
<1>8. ASSUME NEW p \in vMsgs' PROVE C(p.from, p.seq, p.tp)
  <2>1. CASE p \in vMsgs
    BY <1>3, <1>7, <2>1, LowIs DEF VFlood
  <2>2. CASE PassedOnBy(p, o) /\ goes
    <3>1. p.from = o.to /\ p.seq = o.seq /\ p.tp = tp
      BY <1>1, <2>2 DEF PassedOnBy
    <3> QED BY <1>7, <2>2, <3>1
  <2> QED BY <2>1, <2>2, VTakesMsgs
<1>9. ASSUME NEW n \in VOthers, NEW m \in VNodes, vInfo'[n]["iface"][m].known
      PROVE  C(m, vInfo'[n]["iface"][m].seq, vInfo'[n]["iface"][m].tp)
  <2> DEFINE x == vInfo'[n]["iface"][m]
  <2>1. CASE n = o.to /\ m = o.from
    <3>1. x = VNewEntry(o.to, "iface", o, Low(o))
      BY <1>3, <2>1, VTakesIs
    <3>2. x.seq = o.seq /\ x.tp = tp
      BY <1>1, <1>3, <3>1, NewEntryIs
    <3> QED BY <1>7, <2>1, <3>2
  <2>2. CASE ~(n = o.to /\ m = o.from)
    <3>1. x = vInfo[n]["iface"][m]
      <4>1. CASE n = o.to
        BY <1>3, <2>2, <4>1, VTakesIs
      <4>2. CASE n # o.to
        BY <4>2 DEF VTakes
      <4> QED BY <4>1, <4>2
    <3>2. Claim(g, m, x.seq, x.tp)
      <4>1. Claim(g, m, vInfo[n]["iface"][m].seq, vInfo[n]["iface"][m].tp)
        BY <1>3, <1>9, <3>1 DEF VFlood
      <4> QED BY <3>1, <4>1
    <3> QED BY <1>7, <3>2
  <2> QED BY <2>1, <2>2
<1>10. \A k \in VOthers : VNotWorse(h, k)'
  BY <1>1, <1>2, VTakesNotWorse
<1>11. /\ \A p \in vMsgs' : Claim(h, p.from, p.seq, p.tp)'
       /\ \A n \in VOthers, m \in VNodes : vInfo'[n]["iface"][m].known =>
            Claim(h, m, vInfo[n]["iface"][m].seq, vInfo[n]["iface"][m].tp)'
  BY <1>8, <1>9 DEF C, Claim, Passed, Fwd
<1>12. VFlood(h)'
  BY <1>10, <1>11 DEF VFlood
<1> QED BY <1>5, <1>12

LEMMA VProcessCalm ==
  ASSUME VFewOgms, VTimely, vCalm, VTyped, VTogether, VCalmInv,
         NEW o \in vMsgs, v_ogm_process(o)
  PROVE  VCalmInv'
<1>1. PICK g \in VLast : VFlood(g)
  BY DEF VCalmInv
<1>2. VCalmly(g)
  BY <1>1 DEF VCalmInv, VCalmly
<1>3. vSeq' = vSeq /\ vOgms' = vOgms
  BY DEF v_ogm_process
<1>4. VSent' = VSent /\ At(vSeq)' = vOgms'
  BY <1>3 DEF VSent, At, VCalmInv
<1>5. CASE VDrops(o)
  <2>1. /\ vMsgs' \subseteq vMsgs
        /\ vInfo' = vInfo /\ vRouter' = vRouter /\ vIf' = vIf /\ vPassed' = vPassed
    BY <1>5 DEF VDrops
  <2>2. \A n \in VOthers : VPassedOn(n)' /\ \A t \in VTables : VNumbered(n, t)'
    BY <1>4, <2>1 DEF VCalmInv, VPassedOn, VNumbered, Passed, Fwd, Hop, Via, At
  <2>3. VInOrder'
    BY <1>4, <2>1 DEF VCalmInv, VInOrder, At
  <2>4. VFlood(g)'
    <3>1. \A p \in vMsgs' : Claim(g, p.from, p.seq, p.tp)'
      BY <1>1, <2>1 DEF VFlood, Claim, Passed, Fwd
    <3>2. \A n \in VOthers, m \in VNodes : vInfo'[n]["iface"][m].known =>
            Claim(g, m, vInfo[n]["iface"][m].seq, vInfo[n]["iface"][m].tp)'
      BY <1>1, <2>1 DEF VFlood, Claim, Passed, Fwd
    <3>3. \A n \in VOthers : VNotWorse(g, n)'
      BY <1>1, <2>1 DEF VFlood, VNotWorse, Passed, Fwd, Hop, Via
    <3> QED BY <3>1, <3>2, <3>3 DEF VFlood
  <2> QED BY <1>1, <1>4, <2>2, <2>3, <2>4 DEF VCalmInv
<1>6. ASSUME NEW goes, VTakes(o, goes) PROVE VCalmInv'
  <2>1. \A n \in VOthers : VPassedOn(n)'
    BY <1>2, <1>3, <1>6, VTakesPassed
  <2>2. ASSUME NEW n \in VOthers, NEW t \in VTables PROVE VNumbered(n, t)'
    <3>1. CASE n = o.to
      BY <1>2, <1>3, <1>6, <3>1, VTakesNumbered
    <3>2. CASE n # o.to
      <4>1. vInfo'[n] = vInfo[n] /\ vRouter'[n] = vRouter[n] /\ vIf'[n] = vIf[n]
        BY <1>6, <3>2 DEF VTakes
      <4> QED BY <1>4, <4>1 DEF VCalmInv, VNumbered, At
    <3> QED BY <3>1, <3>2
  <2>3. VInOrder'
    BY <1>2, <1>3, <1>6, VTakesInOrder
  <2>4. \E h \in VLast : VFlood(h)'
    BY <1>2, <1>6, VTakesFlood
  <2>5. (\E h \in VLast : VFlood(h))'
    BY <2>4
  <2> QED BY <1>4, <2>1, <2>2, <2>3, <2>5 DEF VCalmInv
<1> QED BY <1>5, <1>6, ProcessIs

LEMMA VSendCalm ==
  ASSUME VFewOgms, VTyped, VTogether, VCalmInv, v_ogm_send
  PROVE  VCalmInv'
<1>1. PICK g \in VLast : VFlood(g)
  BY DEF VCalmInv
<1>2. /\ vOgms < VMaxOgms /\ vOgms' = vOgms + 1
      /\ vMsgs' = v_ogm_send_to_if(VOrig, vSeq, VMaxTp, VTtl)
      /\ vSeq' = (vSeq + 1) % VSeqMod
      /\ UNCHANGED <<vInfo, vRouter, vIf, vPassed>>
  BY DEF v_ogm_send
<1>3. /\ vSeq \in VNums /\ vOgms \in Nat /\ At(vSeq) = vOgms
      /\ VMaxOgms \in Nat /\ VSeqMod \in Nat /\ 2 * VMaxOgms <= VSeqMod /\ VSeqMod > 0
      /\ VFirst \in VNums
  BY VConst DEF VTyped, VCalmInv, VFewOgms
<1>4. At(vSeq)' = vOgms'
  <2> DEFINE x == vSeq + 1
             y == x % VSeqMod
  <2>1. x \in Nat /\ x <= VSeqMod
    BY <1>3 DEF VNums
  <2>2. y = IF x < VSeqMod THEN x ELSE x - VSeqMod
    <3>1. x < 2 * VSeqMod
      BY <1>3, <2>1
    <3> HIDE DEF x
    <3>2. -VSeqMod <= x
      BY <1>3, <2>1
    <3> QED BY <1>3, <2>1, <3>1, <3>2, VModIs
  <2> HIDE DEF y
  <2>3. At(y) = vOgms + 1
    BY <1>2, <1>3, <2>2 DEF At, VNums
  <2>4. vSeq' = y
    BY <1>2 DEF y
  <2> QED BY <1>2, <2>3, <2>4 DEF At
<1>5. VSent \subseteq VSent' /\ vSeq \in VSent'
  <2>1. \A s \in VSent : s \in VNums /\ At(s) \in Nat /\ At(s) < vOgms
    BY AtNat DEF VSent
  <2>2. \A s \in VSent : s \in VNums /\ At(s) < vOgms + 1
    BY <1>3, <2>1
  <2>3. At(vSeq) < vOgms + 1
    BY <1>3
  <2> QED BY <1>2, <1>3, <2>2, <2>3 DEF VSent, At
<1>6. \A n \in VOthers : VPassedOn(n)' /\ \A t \in VTables : VNumbered(n, t)'
  BY <1>2, <1>5 DEF VCalmInv, VPassedOn, VNumbered, Passed, Fwd, Hop, Via, At
<1>7. ASSUME NEW p \in vMsgs'
      PROVE  \/ p \in vMsgs /\ p.from # VOrig
             \/ /\ p.to \in VOthers
                /\ p = [to |-> p.to, from |-> VOrig, seq |-> vSeq, tp |-> VMaxTp, ttl |-> VTtl]
  <2>1. CASE p \in {[to |-> m, from |-> VOrig, seq |-> vSeq, tp |-> VMaxTp, ttl |-> VTtl] :
                    m \in VNeighbours(VOrig) \ {VOrig}}
    <3>1. PICK m \in VNeighbours(VOrig) \ {VOrig} :
             p = [to |-> m, from |-> VOrig, seq |-> vSeq, tp |-> VMaxTp, ttl |-> VTtl]
      BY <2>1
    <3>2. m \in VOthers /\ p.to = m
      BY <3>1 DEF VNeighbours, VOthers
    <3> QED BY <3>1, <3>2
  <2> QED BY <1>2, <1>7, <2>1 DEF v_ogm_send_to_if
<1>8. VInOrder'
  <2>1. ASSUME NEW p \in vMsgs'
        PROVE  /\ p.seq \in VSent'
               /\ vInfo'[p.to]["iface"][p.from].known =>
                    At(vInfo'[p.to]["iface"][p.from].seq) < At(p.seq)
    <3>1. CASE p \in vMsgs
      BY <1>2, <1>5, <3>1 DEF VCalmInv, VInOrder
    <3>2. CASE /\ p.to \in VOthers
               /\ p = [to |-> p.to, from |-> VOrig, seq |-> vSeq, tp |-> VMaxTp, ttl |-> VTtl]
      <4>1. p.from = VOrig /\ p.seq = vSeq
        BY <3>2
      <4>2. ASSUME vInfo[p.to]["iface"][VOrig].known
            PROVE  At(vInfo[p.to]["iface"][VOrig].seq) < At(vSeq)
        <5>1. "iface" \in VTables /\ VOrig \in VNodes
          BY VConst DEF VTables
        <5>2. vInfo[p.to]["iface"][VOrig].seq \in VSent
          BY <3>2, <4>2, <5>1 DEF VCalmInv, VNumbered
        <5> QED BY <1>3, <5>2 DEF VSent
      <4> QED BY <1>2, <1>5, <4>1, <4>2
    <3> QED BY <1>7, <2>1, <3>1, <3>2
  <2>2. \A p, q \in vMsgs' : p.to = q.to /\ p.from = q.from => p = q
    <3> SUFFICES ASSUME NEW p \in vMsgs', NEW q \in vMsgs', p.to = q.to, p.from = q.from
                 PROVE  p = q
      OBVIOUS
    <3>1. CASE p.from = VOrig
      BY <1>7, <3>1
    <3>2. CASE p.from # VOrig
      <4>1. p \in vMsgs /\ q \in vMsgs
        BY <1>7, <3>2
      <4> QED BY <4>1 DEF VCalmInv, VInOrder
    <3> QED BY <3>1, <3>2
  <2> QED BY <2>1, <2>2 DEF VInOrder, At
<1>9. VFlood(g)'
  <2>1. ASSUME NEW p \in vMsgs' PROVE Claim(g, p.from, p.seq, p.tp)'
    <3>1. CASE p \in vMsgs
      BY <1>1, <1>2, <3>1 DEF VFlood, Claim, Passed, Fwd
    <3>2. CASE p.from = VOrig
      BY <3>2 DEF Claim
    <3> QED BY <1>7, <3>1, <3>2
  <2>2. \A n \in VOthers, m \in VNodes : vInfo'[n]["iface"][m].known =>
          Claim(g, m, vInfo[n]["iface"][m].seq, vInfo[n]["iface"][m].tp)'
    BY <1>1, <1>2 DEF VFlood, Claim, Passed, Fwd
  <2>3. \A n \in VOthers : VNotWorse(g, n)'
    BY <1>1, <1>2 DEF VFlood, VNotWorse, Passed, Fwd, Hop, Via
  <2> QED BY <2>1, <2>2, <2>3 DEF VFlood
<1> QED BY <1>1, <1>4, <1>6, <1>8, <1>9 DEF VCalmInv

\* Links that change, and the end of the protection, leave the numbers alone.
LEMMA VOtherCalm ==
  ASSUME VTyped, VCalmInv, UNCHANGED <<vSeq, vOgms, vMsgs, vInfo, vRouter, vPassed>>,
         \A n \in VOthers, t \in VTables : /\ vIf'[n][t].real = vIf[n][t].real
                                           /\ vIf'[n][t].fwd = vIf[n][t].fwd
  PROVE  VCalmInv'
<1>1. PICK g \in VLast : VFlood(g)
  BY DEF VCalmInv
<1>2. VSent' = VSent /\ At(vSeq)' = vOgms'
  BY DEF VSent, At, VCalmInv
<1>3. \A n \in VOthers : /\ Fwd(n)' = Fwd(n) /\ Hop(n)' = Hop(n) /\ Via(n)' = Via(n)
                         /\ \A x : Passed(n, x)' <=> Passed(n, x)
  BY DEF Fwd, Hop, Via, Passed, VTables
<1>4. \A n \in VOthers : VPassedOn(n)' /\ \A t \in VTables : VNumbered(n, t)'
  <2>1. \A n \in VOthers : VPassedOn(n)'
    BY <1>2, <1>3 DEF VCalmInv, VPassedOn, At
  <2>2. \A n \in VOthers, t \in VTables : VNumbered(n, t)'
    BY <1>2 DEF VCalmInv, VNumbered, At
  <2> QED BY <2>1, <2>2
<1>5. VInOrder'
  BY <1>2 DEF VCalmInv, VInOrder, At
<1>6. \A m \in VNodes : \A x, y : Claim(g, m, x, y) => Claim(g, m, x, y)'
  BY <1>3 DEF Claim, VOthers
<1>7. VFlood(g)'
  <2> DEFINE C(m, x, y) ==
               m = VOrig \/ (<<m, x, 1>> \in vPassed'
                             /\ (x = vIf'[m]["iface"].fwd => y <= g[m].tp))
  <2>1. \A m \in VNodes : \A x, y : Claim(g, m, x, y) => C(m, x, y)
    BY <1>6 DEF Claim, Passed, Fwd
  <2> HIDE DEF C
  <2>2. \A p \in vMsgs' : C(p.from, p.seq, p.tp)
    BY <1>1, <2>1, LowIs DEF VFlood
  <2>3. \A n \in VOthers, m \in VNodes : vInfo'[n]["iface"][m].known =>
          C(m, vInfo'[n]["iface"][m].seq, vInfo'[n]["iface"][m].tp)
    BY <1>1, <2>1 DEF VFlood
  <2>4. \A n \in VOthers : VNotWorse(g, n)'
    <3> SUFFICES ASSUME NEW n \in VOthers PROVE VNotWorse(g, n)'
      OBVIOUS
    <3>1. VNotWorse(g, n)
      BY <1>1 DEF VFlood
    <3>2. ASSUME NEW z \in VNums, Passed(n, z) PROVE Hop(n) \in VNodes
      <4>1. VPassedOn(n)
        BY DEF VCalmInv
      <4>2. Hop(n) # VNone
        BY <3>2, <4>1 DEF VPassedOn
      <4>3. Hop(n) \in VNodes \cup {VNone}
        BY DEF Hop, VTyped, VTables
      <4> QED BY <4>2, <4>3
    <3>3. ASSUME NEW z \in VNums, Passed(n, z), Hop(n) # VOrig
          PROVE  vIf'[Hop(n)]["iface"].fwd = vIf[Hop(n)]["iface"].fwd
      BY <3>2, <3>3 DEF VOthers, VTables
    <3> QED BY <1>3, <3>1, <3>3 DEF VNotWorse, Fwd
  <2>5. /\ \A p \in vMsgs' : Claim(g, p.from, p.seq, p.tp)'
        /\ \A n \in VOthers, m \in VNodes : vInfo'[n]["iface"][m].known =>
             Claim(g, m, vInfo[n]["iface"][m].seq, vInfo[n]["iface"][m].tp)'
    BY <2>2, <2>3 DEF C, Claim, Passed, Fwd
  <2> QED BY <2>4, <2>5 DEF VFlood
<1> QED BY <1>1, <1>2, <1>4, <1>5, <1>7 DEF VCalmInv

LEMMA VInvStarts ==
  ASSUME VInit
  PROVE  VInv
<1>1. VTyped /\ VTogether
  BY VTypedStarts
<1>2. VCalmInv
  <2>1. /\ vSeq = VFirst /\ vMsgs = {} /\ vOgms = 0 /\ vPassed = {}
        /\ \A n \in VOthers, t \in VTables, m \in VNodes : vInfo[n][t][m] = Unheard
    BY DEF VInit
  <2>2. At(vSeq) = vOgms
    BY <2>1, AtIs
  <2>3. \A n \in VOthers : VPassedOn(n) /\ \A t \in VTables : VNumbered(n, t)
    BY <2>1 DEF VPassedOn, VNumbered, Passed, Unheard
  <2>4. VInOrder
    BY <2>1 DEF VInOrder
  <2> DEFINE g == [m \in VNodes |-> [tp |-> 0, rank |-> 0]]
  <2>5. g \in VLast
    <3>1. 0 \in 0..VMaxTp
      BY VConst
    <3> QED BY <3>1 DEF VLast
  <2> HIDE DEF g
  <2>6. VFlood(g)
    BY <2>1 DEF VFlood, VNotWorse, Passed, Unheard, VTables
  <2> QED BY <2>2, <2>3, <2>4, <2>5, <2>6 DEF VCalmInv
<1> QED BY <1>1, <1>2 DEF VInv

LEMMA VInvNext ==
  ASSUME VFewOgms, VTimely, VInv, [VNext]_vVars
  PROVE  VInv'
<1>1. VTyped /\ VTogether /\ VTyped' /\ VTogether'
  BY VTypedNext DEF VInv
<1> SUFFICES ASSUME vCalm' PROVE VCalmInv'
  BY <1>1 DEF VInv
<1>2. CASE v_ogm_send
  <2>1. VCalmInv
    BY <1>2 DEF v_ogm_send, VInv
  <2> QED BY <1>1, <1>2, <2>1, VSendCalm
<1>3. ASSUME NEW o \in vMsgs, v_ogm_process(o) PROVE VCalmInv'
  <2>1. vCalm /\ VCalmInv
    BY <1>3 DEF v_ogm_process, VInv
  <2> QED BY <1>1, <1>3, <2>1, VProcessCalm
<1>4. ASSUME NEW l \in DOMAIN vLink, NEW tp \in VTps, LinkChanges(l, tp) PROVE VCalmInv'
  BY <1>1, <1>4, VOtherCalm DEF LinkChanges, VInv
<1>5. ASSUME NEW s \in VSeqs, v_ogm_init(s) PROVE VCalmInv'
  BY <1>5 DEF v_ogm_init
<1>6. ASSUME NEW n \in VOthers, VProtectionEnds(n) PROVE VCalmInv'
  <2> DEFINE tables == [t \in VTables |-> [vIf[n][t] EXCEPT !.guarded = FALSE]]
  <2>1. /\ vIf' = [vIf EXCEPT ![n] = tables]
        /\ UNCHANGED <<vSeq, vMsgs, vInfo, vRouter, vOgms, vCalm, vPassed>>
    BY <1>6 DEF VProtectionEnds
  <2>2. vIf \in [VOthers -> [VTables -> VOutIf]]
    BY <1>1 DEF VTyped
  <2>3. \A t \in VTables : tables[t].real = vIf[n][t].real /\ tables[t].fwd = vIf[n][t].fwd
    BY <2>2 DEF VOutIf
  <2> HIDE DEF tables
  <2>4. \A m \in VOthers : vIf'[m] = IF m = n THEN tables ELSE vIf[m]
    BY <2>1, <2>2
  <2>5. \A m \in VOthers, t \in VTables : /\ vIf'[m][t].real = vIf[m][t].real
                                          /\ vIf'[m][t].fwd = vIf[m][t].fwd
    BY <2>3, <2>4
  <2>6. VCalmInv
    BY <2>1 DEF VInv
  <2> QED BY <1>1, <2>1, <2>5, <2>6, VOtherCalm
<1>7. ASSUME NEW n \in VOthers, NEW m \in VNodes, NeighbourTimesOut(n, m) PROVE VCalmInv'
  BY <1>7 DEF NeighbourTimesOut
<1>8. CASE UNCHANGED vVars
  <2>1. VCalmInv
    BY <1>8 DEF vVars, VInv
  <2> QED BY <1>1, <1>8, <2>1, VOtherCalm DEF vVars
<1> QED BY <1>2, <1>3, <1>4, <1>5, <1>6, <1>7, <1>8 DEF VNext

-----------------------------------------------------------------------------
(* Where a packet goes *)

LEMMA NumbersUpTo ==
  ASSUME NEW n \in Nat, NEW S, 0 \in S, \A i \in 0..(n - 1) : i \in S => i + 1 \in S
  PROVE  0..n \subseteq S
<1> SUFFICES ASSUME NEW m \in 0..n, m \notin S PROVE FALSE
  OBVIOUS
<1> DEFINE T == {i \in Nat : i <= n /\ i \notin S}
<1>1. m \in T /\ T \in SUBSET Nat
  OBVIOUS
<1>2. PICK x \in T : \A y \in T : x <= y
  BY <1>1, SmallestNumber
<1>3. x # 0 /\ x - 1 \in 0..(n - 1)
  OBVIOUS
<1>4. x - 1 \in S
  BY <1>2, <1>3
<1>5. (x - 1) + 1 \in S
  BY <1>3, <1>4
<1> QED BY <1>5

\* The nodes that k hops lead to, from those that one hop less does
NextHops(before, k) ==
  [n \in VNodes |->
     IF n = VOrig \/ k = 0 \/ vRouter[n]["iface"] = VNone THEN {}
     ELSE {vRouter[n]["iface"]} \cup before[k - 1][vRouter[n]["iface"]]]

LEMMA VNodesCount == Cardinality(VNodes) \in Nat
BY VAssumption, FS_CardinalityType

LEMMA HopsAre ==
  \A k \in 0..Cardinality(VNodes) : Hops[k] = NextHops(Hops, k)
<1> DEFINE n == Cardinality(VNodes)
           Made(m) == \E G : G = [i \in 0..m |-> NextHops(G, i)]
           S == {m \in 0..n : Made(m)}
<1>0. n \in Nat
  BY VNodesCount
<1> HIDE DEF n
<1>1. 0 \in S
  <2> DEFINE none == NextHops(<<>>, 0)
  <2>1. [i \in 0..0 |-> none] = [i \in 0..0 |-> NextHops([j \in 0..0 |-> none], i)]
    BY DEF NextHops
  <2>2. 0 \in 0..n
    BY <1>0
  <2> QED BY <2>1, <2>2
<1>2. ASSUME NEW m \in 0..(n - 1), m \in S
      PROVE  m + 1 \in S
  <2>1. PICK G : G = [i \in 0..m |-> NextHops(G, i)]
    BY <1>2
  <2> DEFINE H == [i \in 0..(m + 1) |-> IF i <= m THEN G[i] ELSE NextHops(G, i)]
  <2>2. ASSUME NEW i \in 0..(m + 1)
        PROVE  NextHops(G, i) = NextHops(H, i)
    <3>1. i = 0 \/ (i - 1 \in 0..(m + 1) /\ i - 1 <= m)
      BY <1>0
    <3>2. i = 0 \/ H[i - 1] = G[i - 1]
      BY <3>1
    <3> HIDE DEF H
    <3> QED BY <3>2 DEF NextHops
  <2>3. ASSUME NEW i \in 0..(m + 1)
        PROVE  H[i] = NextHops(H, i)
    <3>1. H[i] = NextHops(G, i)
      <4>1. CASE i <= m
        <5>1. i \in 0..m
          BY <1>0, <4>1
        <5>2. G[i] = NextHops(G, i)
          BY <2>1, <5>1
        <5> QED BY <4>1, <5>2
      <4>2. CASE ~(i <= m)
        BY <4>2
      <4> QED BY <4>1, <4>2
    <3> HIDE DEF H
    <3> QED BY <2>2, <3>1
  <2>4. H = [i \in 0..(m + 1) |-> H[i]]
    OBVIOUS
  <2>5. H = [i \in 0..(m + 1) |-> NextHops(H, i)]
    <3> HIDE DEF H
    <3> QED BY <2>3, <2>4
  <2>6. m + 1 \in 0..n
    BY <1>0
  <2> QED BY <2>5, <2>6
<1>3. n \in S
  <2> HIDE DEF S
  <2>1. 0..n \subseteq S
    BY <1>0, <1>1, <1>2, NumbersUpTo
  <2> QED BY <1>0, <2>1
<1>4. PICK G : G = [i \in 0..n |-> NextHops(G, i)]
  BY <1>3
<1> DEFINE L == CHOOSE F : F = [i \in 0..n |-> NextHops(F, i)]
<1>5. L = [i \in 0..n |-> NextHops(L, i)]
  BY <1>4
<1>6. Hops = L
  BY DEF Hops, NextHops, n
<1> HIDE DEF L
<1> QED BY <1>5, <1>6 DEF n

\* z is nearer to the originator than n: its next hop sent it a newer OGM, or the
\* same with more throughput, or as much, and z passed it on before n did.
Settled(g, n) == /\ Passed(n, Fwd(n)) /\ Fwd(n) = Via(n).seq /\ g[n].tp = Via(n).tp
Nearer(g, n, z) ==
  /\ z \in VOthers /\ Hop(z) # VNone
  /\ \/ At(Via(n).seq) < At(Via(z).seq)
     \/ /\ At(Via(n).seq) = At(Via(z).seq)
        /\ \/ Via(n).tp < Via(z).tp
           \/ /\ Via(n).tp = Via(z).tp /\ Settled(g, z)
              /\ Settled(g, n) => g[z].rank < g[n].rank

LEMMA ViaIs ==
  ASSUME VTyped, VTogether, NEW n \in VOthers, Hop(n) # VNone
  PROVE  /\ Hop(n) \in VNodes /\ Via(n) \in VEntry /\ Via(n).known
         /\ Via(n).seq \in VNums /\ Via(n).tp \in Nat /\ At(Via(n).seq) \in Nat
<1>1. "iface" \in VTables
  BY DEF VTables
<1>2. Hop(n) \in VNodes
  BY <1>1 DEF VTyped, Hop
<1>3. Via(n) \in VEntry
  BY <1>1, <1>2 DEF VTyped, Via
<1>4. Via(n).known
  BY <1>1, <1>2 DEF VTogether, Via, Hop
<1>5. Via(n).seq \in VNums /\ Via(n).tp \in Nat
  BY <1>3, VConst DEF VEntry
<1>6. At(Via(n).seq) \in Nat
  BY <1>5, AtIs DEF VNums
<1> QED BY <1>2, <1>3, <1>4, <1>5, <1>6

LEMMA NextIsNearer ==
  ASSUME NEW g, VCalmly(g), NEW n \in VOthers, Hop(n) # VNone, Hop(n) # VOrig
  PROVE  Nearer(g, n, Hop(n))
<1> DEFINE h == Hop(n)
           x == Via(n).seq
<1>1. /\ VTyped /\ VTogether /\ VFlood(g) /\ g \in VLast
  BY DEF VCalmly
<1>2. /\ h \in VNodes /\ Via(n).known /\ Via(n).tp \in Nat /\ At(x) \in Nat /\ x \in VNums
  BY <1>1, ViaIs
<1>3. h \in VOthers
  BY <1>2 DEF VOthers
<1>4. Passed(h, x) /\ (x = Fwd(h) => Via(n).tp <= g[h].tp)
  BY <1>1, <1>2 DEF VFlood, Claim, Via
<1>5. /\ At(x) <= At(Fwd(h)) /\ Passed(h, Fwd(h)) /\ Hop(h) # VNone
      /\ At(Fwd(h)) <= At(Via(h).seq)
  BY <1>2, <1>3, <1>4 DEF VCalmly, VPassedOn
<1>6. Via(h).tp \in Nat /\ At(Via(h).seq) \in Nat /\ Via(h).seq \in VNums
  BY <1>1, <1>3, <1>5, ViaIs
<1>7. Fwd(h) \in VNums /\ At(Fwd(h)) \in Nat
  <2>1. Fwd(h) \in VNums
    BY <1>1, <1>5 DEF Passed, VTyped
  <2> QED BY <2>1, AtIs DEF VNums
<1>8. g[h].tp \in Nat /\ g[h].rank \in Nat
  <2>1. g[h] \in [tp : 0..VMaxTp, rank : Nat]
    BY <1>1, <1>2 DEF VLast
  <2> QED BY <2>1
<1> HIDE DEF h, x
<1>9. CASE At(x) < At(Via(h).seq)
  BY <1>3, <1>5, <1>9 DEF Nearer, x, h
<1>10. CASE ~(At(x) < At(Via(h).seq))
  <2>1. At(x) = At(Fwd(h)) /\ At(x) = At(Via(h).seq)
    BY <1>2, <1>5, <1>6, <1>7, <1>10
  <2>2. x = Fwd(h) /\ Via(h).seq = Fwd(h)
    BY <1>2, <1>6, <1>7, <2>1, AtIs
  <2>3. VNotWorse(g, h)
    BY <1>1, <1>3 DEF VFlood
  <2>4. Via(n).tp <= g[h].tp /\ Via(h).tp >= g[h].tp
    BY <1>4, <1>5, <1>7, <2>2, <2>3 DEF VNotWorse
  <2>5. CASE Via(n).tp < Via(h).tp
    BY <1>3, <1>5, <2>1, <2>5 DEF Nearer, x, h
  <2>6. CASE ~(Via(n).tp < Via(h).tp)
    <3>1. Via(n).tp = g[h].tp /\ Via(h).tp = g[h].tp
      BY <1>2, <1>6, <1>8, <2>4, <2>6
    <3>2. Settled(g, h)
      BY <1>5, <2>2, <3>1 DEF Settled
    <3>3. ASSUME Settled(g, n) PROVE g[h].rank < g[n].rank
      <4>1. VNotWorse(g, n)
        BY <1>1 DEF VFlood
      <4>2. /\ Passed(n, Fwd(n)) /\ Fwd(n) = x /\ g[n].tp = Via(n).tp
        BY <3>3 DEF Settled, x
      <4> QED BY <1>2, <2>2, <4>1, <4>2 DEF VNotWorse, x, h
    <3> QED BY <1>3, <1>5, <2>1, <3>1, <3>2, <3>3 DEF Nearer, x, h
  <2> QED BY <2>5, <2>6
<1> QED BY <1>9, <1>10 DEF h

LEMMA NearerIsTransitive ==
  ASSUME NEW g, VCalmly(g), NEW n \in VOthers, NEW h, NEW z, Hop(n) # VNone,
         Nearer(g, n, h), Nearer(g, h, z)
  PROVE  Nearer(g, n, z)
<1>1. /\ VTyped /\ VTogether /\ g \in VLast
      /\ h \in VOthers /\ z \in VOthers /\ Hop(h) # VNone /\ Hop(z) # VNone
  BY DEF VCalmly, Nearer
<1>2. \A m \in {n, h, z} : /\ Via(m).tp \in Nat /\ At(Via(m).seq) \in Nat
                           /\ g[m].rank \in Nat
  <2> SUFFICES ASSUME NEW m \in {n, h, z}
               PROVE  Via(m).tp \in Nat /\ At(Via(m).seq) \in Nat /\ g[m].rank \in Nat
    OBVIOUS
  <2>1. m \in VOthers /\ Hop(m) # VNone
    BY <1>1
  <2>2. Via(m).tp \in Nat /\ At(Via(m).seq) \in Nat
    BY <1>1, <2>1, ViaIs
  <2>3. g[m] \in [tp : 0..VMaxTp, rank : Nat]
    BY <1>1, <2>1 DEF VLast, VOthers
  <2> QED BY <2>2, <2>3
<1> QED BY <1>1, <1>2 DEF Nearer

LEMMA NotNearerThanItself ==
  ASSUME NEW g, VCalmly(g), NEW n \in VOthers, Hop(n) # VNone
  PROVE  ~Nearer(g, n, n)
<1>1. Via(n).tp \in Nat /\ At(Via(n).seq) \in Nat
  BY ViaIs DEF VCalmly
<1>2. g[n].rank \in Nat
  <2>1. g[n] \in [tp : 0..VMaxTp, rank : Nat]
    BY DEF VLast, VOthers, VCalmly
  <2> QED BY <2>1
<1> QED BY <1>1, <1>2 DEF Nearer

LEMMA AllHopsAreNearer ==
  ASSUME NEW g, VCalmly(g), NEW n \in VOthers, NEW z \in Hops[Cardinality(VNodes)][n]
  PROVE  z = VOrig \/ (Hop(n) # VNone /\ Nearer(g, n, z))
<1> DEFINE c == Cardinality(VNodes)
           Fine(k) == \A m \in VOthers : \A y \in Hops[k][m] :
                        y = VOrig \/ (Hop(m) # VNone /\ Nearer(g, m, y))
           S == {k \in 0..c : Fine(k)}
<1>1. c \in Nat
  BY VNodesCount
<1>2. \A k \in 0..c, m \in VOthers :
        Hops[k][m] = IF k = 0 \/ Hop(m) = VNone THEN {} ELSE {Hop(m)} \cup Hops[k - 1][Hop(m)]
  <2> SUFFICES ASSUME NEW k \in 0..c, NEW m \in VOthers
               PROVE  Hops[k][m] = IF k = 0 \/ Hop(m) = VNone THEN {}
                                   ELSE {Hop(m)} \cup Hops[k - 1][Hop(m)]
    OBVIOUS
  <2>1. Hops[k] = NextHops(Hops, k)
    BY HopsAre
  <2>2. m \in VNodes /\ m # VOrig
    BY DEF VOthers
  <2> QED BY <2>1, <2>2 DEF NextHops, Hop
<1>3. \A k \in 0..c : Hops[k][VOrig] = {}
  <2> SUFFICES ASSUME NEW k \in 0..c PROVE Hops[k][VOrig] = {}
    OBVIOUS
  <2>1. Hops[k] = NextHops(Hops, k)
    BY HopsAre
  <2> QED BY <2>1, VConst DEF NextHops
<1> HIDE DEF c
<1>4. 0 \in S
  <2>1. 0 \in 0..c
    BY <1>1
  <2>2. \A m \in VOthers : Hops[0][m] = {}
    BY <1>2, <2>1
  <2> QED BY <2>1, <2>2
<1>5. ASSUME NEW k \in 0..(c - 1), k \in S
      PROVE  k + 1 \in S
  <2>1. k + 1 \in 0..c /\ k + 1 # 0 /\ (k + 1) - 1 = k /\ k \in 0..c
    BY <1>1
  <2> SUFFICES ASSUME NEW m \in VOthers, NEW y \in Hops[k + 1][m], y # VOrig
               PROVE  Hop(m) # VNone /\ Nearer(g, m, y)
    BY <2>1
  <2>2. Hop(m) # VNone /\ (y = Hop(m) \/ y \in Hops[k][Hop(m)])
    BY <1>2, <2>1
  <2>3. Hop(m) \in VNodes
    BY <2>2, ViaIs DEF VCalmly
  <2>4. CASE y = Hop(m)
    BY <2>2, <2>4, NextIsNearer
  <2>5. CASE y \in Hops[k][Hop(m)]
    <3>1. Hop(m) # VOrig
      BY <1>3, <2>1, <2>5
    <3>2. Hop(m) \in VOthers
      BY <2>3, <3>1 DEF VOthers
    <3>3. Nearer(g, m, Hop(m))
      BY <2>2, <3>1, NextIsNearer
    <3>4. Nearer(g, Hop(m), y)
      BY <1>5, <2>5, <3>2
    <3> QED BY <2>2, <3>3, <3>4, NearerIsTransitive
  <2> QED BY <2>2, <2>4, <2>5
<1>6. c \in S
  <2> HIDE DEF S
  <2>1. 0..c \subseteq S
    BY <1>1, <1>4, <1>5, NumbersUpTo
  <2> QED BY <1>1, <2>1
<1>7. Fine(c)
  BY <1>6
<1> QED BY <1>7 DEF c

LEMMA VTypedIsOK ==
  ASSUME VTyped, VTogether
  PROVE  VTypeOK
<1>1. vSeq \in 0..(VSeqMod - 1)
  BY DEF VTyped, VNums
<1>2. \A n \in VOthers, t \in VTables, m \in VNodes : vInfo[n][t][m].tp \in 0..VMaxTp
  <2> SUFFICES ASSUME NEW n \in VOthers, NEW t \in VTables, NEW m \in VNodes
               PROVE  vInfo[n][t][m].tp \in 0..VMaxTp
    OBVIOUS
  <2>1. vInfo[n][t][m] \in VEntry
    BY DEF VTyped
  <2> QED BY <2>1 DEF VEntry
<1>3. \A n \in VOthers, t \in VTables :
        /\ vRouter[n][t] \in VNodes \cup {VNone}
        /\ vRouter[n][t] # VNone => /\ {n, vRouter[n][t]} \in VLinks
                                    /\ vInfo[n][t][vRouter[n][t]].known
  <2> SUFFICES ASSUME NEW n \in VOthers, NEW t \in VTables
               PROVE  /\ vRouter[n][t] \in VNodes \cup {VNone}
                      /\ vRouter[n][t] # VNone => /\ {n, vRouter[n][t]} \in VLinks
                                                  /\ vInfo[n][t][vRouter[n][t]].known
    OBVIOUS
  <2>1. vRouter[n][t] \in VNodes \cup {VNone}
    BY DEF VTyped
  <2>2. vRouter[n][t] # VNone => vInfo[n][t][vRouter[n][t]].known
    BY DEF VTogether
  <2>3. \A m \in VNodes : vInfo[n][t][m].known => {n, m} \in VLinks
    BY DEF VTogether
  <2> QED BY <2>1, <2>2, <2>3
<1> QED BY <1>1, <1>2, <1>3 DEF VTypeOK

LEMMA VInvIsSound ==
  ASSUME VFewOgms, VTimely, VInv
  PROVE  VRoutesSound
<1>1. VTyped /\ VTogether
  BY DEF VInv
<1>2. VTypeOK
  BY <1>1, VTypedIsOK
<1> SUFFICES ASSUME vCalm
             PROVE  /\ \A n \in VOthers : n \notin Hops[Cardinality(VNodes)][n]
                    /\ \A n \in VOthers, t \in VTables, m \in VNodes :
                         vInfo[n][t][m].known /\ vRouter[n][t] # VNone =>
                           SeqDiff(vInfo[n][t][m].seq, vInfo[n][t][vRouter[n][t]].seq) < VOrigDiff
                    /\ \A k \in vPassed : k[3] = 1
  BY <1>2 DEF VRoutesSound, VNoLoop, VRouterIsFresh, VForwardsOnce
<1>3. VCalmInv
  BY DEF VInv
<1>4. PICK g \in VLast : VFlood(g)
  BY <1>3 DEF VCalmInv
<1>5. VCalmly(g)
  BY <1>1, <1>3, <1>4 DEF VCalmly, VCalmInv
<1>6. \A n \in VOthers : n \notin Hops[Cardinality(VNodes)][n]
  BY <1>5, AllHopsAreNearer, NotNearerThanItself DEF VOthers
<1>7. \A n \in VOthers, t \in VTables, m \in VNodes :
        vInfo[n][t][m].known /\ vRouter[n][t] # VNone =>
          SeqDiff(vInfo[n][t][m].seq, vInfo[n][t][vRouter[n][t]].seq) < VOrigDiff
  <2> SUFFICES ASSUME NEW n \in VOthers, NEW t \in VTables, NEW m \in VNodes,
                      vInfo[n][t][m].known, vRouter[n][t] # VNone
               PROVE  SeqDiff(vInfo[n][t][m].seq, vInfo[n][t][vRouter[n][t]].seq) < VOrigDiff
    OBVIOUS
  <2> DEFINE r == vRouter[n][t]
             x == vInfo[n][t][m].seq
             y == vInfo[n][t][r].seq
  <2>1. r \in VNodes /\ vInfo[n][t][r].known
    BY <1>1 DEF VTyped, VTogether
  <2>2. x \in VSent /\ y \in VSent /\ At(x) - At(y) < VOrigDiff
    BY <1>3, <2>1 DEF VCalmInv, VNumbered
  <2> HIDE DEF x, y
  <2>3. SeqDiff(x, y) = At(x) - At(y)
    BY <1>1, <2>2, VSentDiff DEF VTyped
  <2> QED BY <2>2, <2>3 DEF x, y
<1>8. \A k \in vPassed : k[3] = 1
  <2> SUFFICES ASSUME NEW k \in vPassed PROVE k[3] = 1
    OBVIOUS
  <2>1. PICK n \in VOthers, s \in VNums, i \in {1, 2} : k = <<n, s, i>>
    BY <1>1 DEF VTyped
  <2>2. <<n, s, 2>> \notin vPassed
    BY <1>3 DEF VCalmInv, VPassedOn
  <2> QED BY <2>1, <2>2
<1> QED BY <1>6, <1>7, <1>8

(* Every variable of B.A.T.M.A.N. V keeps its type, and every next hop that
   v_ogm_orig_update or find_best_neighbor takes is a neighbour of which something
   is known, across restarts and timeouts. *)
THEOREM VTypeCorrect == VSpec => []VTypeOK
<1>1. VInit => VTyped /\ VTogether
  BY VTypedStarts
<1>2. VTyped /\ VTogether /\ [VNext]_vVars => (VTyped /\ VTogether)'
  BY VTypedNext
<1>3. VTyped /\ VTogether => VTypeOK
  BY VTypedIsOK
<1> QED BY <1>1, <1>2, <1>3, PTL DEF VSpec

(* v_ogm_process never makes a loop, never stays with a neighbour that falls
   BATADV_OGM_MAX_ORIGDIFF behind another, and passes an OGM on once, for any nodes
   and links and however the averages of the links change.  The originator sends
   less OGMs than half the sequence numbers, and none is so late that the receiver
   takes it for one of before a restart. *)
THEOREM VRoutesAreSound == VFewOgms /\ VSpec /\ []VTimely => []VRoutesSound
<1> SUFFICES ASSUME VFewOgms PROVE VSpec /\ []VTimely => []VRoutesSound
  OBVIOUS
<1>1. VInit => VInv
  BY VInvStarts
<1>2. VInv /\ VTimely /\ [VNext]_vVars => VInv'
  BY VInvNext
<1>3. VInv /\ VTimely => VRoutesSound
  BY VInvIsSound
<1> QED BY <1>1, <1>2, <1>3, PTL DEF VSpec

(* The same, with the lateness bounded by how many OGMs there are: v_ogm_process
   never takes one of them for one of before a restart. *)
THEOREM VRoutesAreSoundInTime ==
  VFewOgms /\ VMaxOgms <= VMaxAge /\ VSpec => []VRoutesSound
<1> SUFFICES ASSUME VFewOgms, VMaxOgms <= VMaxAge PROVE VSpec => []VRoutesSound
  OBVIOUS
<1>1. VInit => VTyped /\ VTogether
  BY VTypedStarts
<1>2. VTyped /\ VTogether /\ [VNext]_vVars => (VTyped /\ VTogether)'
  BY VTypedNext
<1>3. VTyped => VTimely
  <2> SUFFICES ASSUME VTyped, NEW o \in vMsgs PROVE vOgms - At(o.seq) <= VMaxAge
    BY DEF VTimely
  <2>1. o.seq \in VNums
    BY LowIs
  <2>2. At(o.seq) \in Nat
    BY <2>1, AtIs DEF VNums
  <2>3. vOgms \in 0..VMaxOgms /\ VMaxOgms \in Nat /\ VMaxAge \in Nat
    BY VConst DEF VTyped
  <2> QED BY <2>2, <2>3
<1>4. VSpec /\ []VTimely => []VRoutesSound
  BY VRoutesAreSound
<1> QED BY <1>1, <1>2, <1>3, <1>4, PTL DEF VSpec

=================================================================================

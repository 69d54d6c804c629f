------------------------------ MODULE MeshProofs ------------------------------
(***************************************************************************)
(* Theorems about what a hop and a link do: the TQ metric, for all packet  *)
(* counts and penalties, fragmentation, for any sizes, buckets, ranges of  *)
(* sequence numbers and packets, network coding, for any nodes,            *)
(* neighbours, routes and packets of any lengths, and the probing of the   *)
(* neighbours of an interface, for any of them.                            *)
(***************************************************************************)
EXTENDS TqMetric, Fragmentation, NetworkCoding, BatVElp, FiniteSetTheorems,
        WellFoundedInduction, TLAPS

-----------------------------------------------------------------------------
(***************************************************************************)
(* TqMetric                                                                *)
(***************************************************************************)
\* A quotient is bounded by what its dividend is bounded by.
LEMMA DivBound ==
  ASSUME NEW a \in Nat, NEW b \in Nat, NEW k \in Nat \ {0}, a <= b * k
  PROVE  a \div k \in 0..b
BY SMT

\* batadv_hop_penalty never raises a TQ.
LEMMA HopPenaltyRange ==
  ASSUME NEW t \in 0..MaxValue, NEW h \in 0..MaxValue
  PROVE  HopPenalty(t, h) \in 0..t
<1>1. t * (MaxValue - h) \in Nat /\ t * (MaxValue - h) <= t * MaxValue
  BY SMT DEF MaxValue
<1> QED BY <1>1, DivBound DEF HopPenalty, MaxValue

\* A hop penalty that is not 0 lowers every TQ that is not 0.
LEMMA HopPenaltyLess ==
  ASSUME NEW t \in 1..MaxValue, NEW h \in 1..MaxValue
  PROVE  HopPenalty(t, h) \in 0..(t - 1)
<1>1. t * (MaxValue - h) \in Nat /\ t * (MaxValue - h) < t * MaxValue
  BY SMT DEF MaxValue
<1> QED BY <1>1, SMT DEF HopPenalty, MaxValue

\* tq_own of calc_tq fits its u8 without wrapping.
LEMMA TqOwnRange ==
  ASSUME NEW eq \in 0..Window, NEW rq \in 0..Window
  PROVE  TqOwn(eq, rq) \in 0..MaxValue
BY SMT DEF TqOwn, Smaller, MaxValue, Window, U8

\* tq_asym_penalty of calc_tq is between 0 and TQ_MAX_VALUE.
LEMMA AsymPenaltyRange ==
  ASSUME NEW rq \in 0..Window
  PROVE  AsymPenalty(rq) \in 0..MaxValue
<1> DEFINE inv == (Window - rq) % U8
           sq == inv * inv
           cube == sq * inv
<1>1. inv \in 0..64
  BY SMT DEF Window, U8
<1> HIDE DEF inv
<1>2. sq \in Nat /\ sq <= 64 * inv
  BY <1>1, SMT
<1> HIDE DEF sq
<1>3. cube \in Nat /\ cube <= sq * 64
  BY <1>1, <1>2, SMT
<1> HIDE DEF cube
<1>4. 255 * cube \in Nat /\ 255 * cube <= 255 * 262144
  BY <1>1, <1>2, <1>3, SMT
<1>5. (255 * cube) \div 262144 \in 0..255
  BY <1>4, SMT
<1>6. Window * Window * Window = 262144
  BY SMT DEF Window
<1>7. AsymPenalty(rq) = 255 - ((255 * cube) \div 262144)
  BY <1>6 DEF AsymPenalty, MaxValue, cube, sq, inv
<1> QED BY <1>5, <1>7, SMT DEF MaxValue

\* combined_tq of calc_tq is at most the TQ of the OGM.
LEMMA CombinedRange ==
  ASSUME NEW t \in 0..MaxValue, NEW own \in 0..MaxValue,
         NEW asym \in 0..MaxValue, NEW iface \in 0..MaxValue
  PROVE  Combined(t, own, asym, iface) \in 0..t
<1> DEFINE p == t * own * asym
           q == p \div MaxValue
           r == p % MaxValue
<1>1. p \in Nat /\ p <= t * 65025
  <2>1. t * own \in Nat /\ t * own <= t * 255
    BY SMT DEF MaxValue
  <2> DEFINE to == t * own
  <2> HIDE DEF to
  <2>2. to * asym \in Nat /\ to * asym <= to * 255
    BY <2>1, SMT DEF MaxValue, to
  <2> QED BY <2>1, <2>2, SMT DEF to
<1>2. q \in Nat /\ r \in 0..254 /\ p = 255 * q + r
  <2> HIDE DEF p
  <2> QED BY <1>1, SMT DEF MaxValue
<1> HIDE DEF p, q, r
<1>3. q * iface \in Nat /\ q * iface <= q * 255
  BY <1>2, SMT DEF MaxValue
<1>4. r * iface \in Nat /\ r * iface <= r * 255
  BY <1>2, SMT DEF MaxValue
<1> DEFINE x == (r * iface) \div MaxValue
<1>5. x \in 0..r
  BY <1>2, <1>4, DivBound DEF MaxValue
<1> HIDE DEF x
<1>6. q * iface + x \in Nat /\ q * iface + x <= t * 65025
  BY <1>1, <1>2, <1>3, <1>5, SMT
<1>7. (q * iface + x) \div 65025 \in 0..t
  BY <1>6, DivBound
<1>8. Combined(t, own, asym, iface) = (q * iface + x) \div (MaxValue * MaxValue)
  BY DEF Combined, p, q, r, x
<1> QED BY <1>7, <1>8 DEF MaxValue

\* A link never improves the TQ.
LEMMA CalcTqRange ==
  ASSUME NEW t \in 0..MaxValue, NEW eq \in 0..Window, NEW rq \in 0..Window,
         NEW wifi \in BOOLEAN, NEW h \in 0..MaxValue
  PROVE  CalcTq(t, eq, rq, wifi, h) \in 0..t
<1>1. HopPenalty(MaxValue, h) \in 0..MaxValue
  <2>1. MaxValue \in 0..MaxValue
    BY DEF MaxValue
  <2> QED BY <2>1, HopPenaltyRange
<1>2. (IF wifi THEN HopPenalty(MaxValue, h) ELSE MaxValue) \in 0..MaxValue
  BY <1>1 DEF MaxValue
<1> QED BY <1>2, TqOwnRange, AsymPenaltyRange, CombinedRange DEF CalcTq

-----------------------------------------------------------------------------
Inv == TypeOK /\ StrictlyWorse

\* The inductive invariant holds for an OGM that has just been sent.
LEMMA InvInit == Init => Inv
BY DEF Init, Inv, TypeOK, StrictlyWorse, MaxValue, U8

\* Receiving and forwarding the OGM keeps the inductive invariant.
LEMMA InvNext == Inv /\ [Next]_vars => Inv'
<1> SUFFICES ASSUME Inv, [Next]_vars PROVE Inv'
  OBVIOUS
<1>1. CASE UNCHANGED vars
  BY <1>1 DEF Inv, TypeOK, StrictlyWorse, vars
<1>2. CASE Next
  <2>1. PICK eq \in Counts, rq \in Counts, wifi \in BOOLEAN,
             h \in HopPenalties : Forward(eq, rq, wifi, h)
    BY <1>2 DEF Next
  <2>2. /\ eq \in 0..Window /\ rq \in 0..Window /\ h \in 0..MaxValue
        /\ tq \in 0..MaxValue
    BY MetricAssumption DEF Inv, TypeOK
  <2> DEFINE c == CalcTq(tq, eq, rq, wifi, h)
  <2>3. c \in 0..tq
    BY <2>2, CalcTqRange
  <2>4. tq' = HopPenalty(c, h) /\ before' = tq
    BY <2>1 DEF Forward
  <2> HIDE DEF c
  <2>5. c \in 0..MaxValue
    BY <2>2, <2>3, SMT DEF MaxValue
  <2>6. tq' \in 0..c
    BY <2>2, <2>4, <2>5, HopPenaltyRange
  <2>7. TypeOK'
    BY <2>2, <2>3, <2>4, <2>6, SMT DEF TypeOK, MaxValue, U8
  <2>8. ASSUME before' > 0, 0 \notin HopPenalties PROVE tq' < before'
    <3>1. CASE c = 0
      BY <3>1, <2>2, <2>4, <2>6, <2>8, SMT
    <3>2. CASE c # 0
      <4>1. c \in 1..MaxValue /\ h \in 1..MaxValue
        BY <3>2, <2>2, <2>5, <2>8, SMT DEF MaxValue
      <4>2. tq' \in 0..(c - 1)
        BY <4>1, <2>4, HopPenaltyLess
      <4> QED BY <4>2, <2>2, <2>3, <2>4, SMT
    <3> QED BY <3>1, <3>2
  <2> QED BY <2>7, <2>8 DEF Inv, StrictlyWorse
<1> QED BY <1>1, <1>2 DEF Next

\* The TQ stays in a u8 on every path, for all packet counts that a window
\* can have and all hop penalties (calc_tq and batadv_hop_penalty).
THEOREM MetricTypeCorrect == Spec => []TypeOK
<1>1. Inv => TypeOK
  BY DEF Inv
<1> QED BY <1>1, InvInit, InvNext, PTL DEF Spec

\* Every hop takes something off the TQ, for all packet counts and all hop
\* penalties but 0: no OGM comes back as good as it was sent.
THEOREM EveryHopCosts == Spec => []StrictlyWorse
<1>1. Inv => StrictlyWorse
  BY DEF Inv
<1> QED BY <1>1, InvInit, InvNext, PTL DEF Spec

\* A larger dividend has no smaller quotient.
LEMMA DivMonotone ==
  ASSUME NEW a \in Nat, NEW b \in Nat, NEW k \in Nat \ {0}, a <= b
  PROVE  a \div k <= b \div k
<1> DEFINE x == a \div k
           y == b \div k
<1>1. /\ x \in Nat /\ x * k \in Nat /\ x * k <= a
      /\ y \in Nat /\ y * k \in Nat /\ b < y * k + k
  BY SMT
<1> HIDE DEF x, y
<1>2. x >= y + 1 => x * k >= (y + 1) * k
  BY <1>1, SMT
<1>3. (y + 1) * k = y * k + k
  BY <1>1, SMT
<1>4. ~(x >= y + 1)
  BY <1>1, <1>2, <1>3, SMT
<1>5. x <= y
  BY <1>1, <1>4, SMT
<1> QED BY <1>5 DEF x, y

\* A larger factor makes no smaller product.
LEMMA ProductMonotone ==
  ASSUME NEW a \in Nat, NEW b \in Nat, NEW c \in Nat, a <= b
  PROVE  a * c \in Nat /\ b * c \in Nat /\ a * c <= b * c
BY SMT

\* tq_own grows with the echoes.
LEMMA TqOwnMonotone ==
  ASSUME NEW e1 \in 0..Window, NEW e2 \in 0..Window, NEW rq \in 0..Window, e1 <= e2
  PROVE  TqOwn(e1, rq) <= TqOwn(e2, rq)
<1>1. TqOwn(e1, rq) \in 0..MaxValue /\ TqOwn(e2, rq) \in 0..MaxValue
  BY TqOwnRange
<1> DEFINE s1 == Smaller(e1, rq)
           s2 == Smaller(e2, rq)
<1>2. s1 \in 0..rq /\ s2 \in 0..rq /\ s1 <= s2
  BY SMT DEF Smaller, Window
<1>3. TqOwn(e1, rq) = (IF s1 < 1 \/ rq < 1 THEN 0 ELSE ((MaxValue * s1) \div rq) % U8)
  BY DEF TqOwn
<1>4. TqOwn(e2, rq) = (IF s2 < 1 \/ rq < 1 THEN 0 ELSE ((MaxValue * s2) \div rq) % U8)
  BY DEF TqOwn
<1> HIDE DEF s1, s2
<1>5. CASE s1 < 1 \/ rq < 1
  BY <1>1, <1>3, <1>5, SMT DEF MaxValue
<1>6. CASE ~(s1 < 1 \/ rq < 1)
  <2> DEFINE a == MaxValue * s1
             b == MaxValue * s2
  <2>1. rq \in Nat \ {0} /\ rq \in 0..64 /\ s2 >= 1
    BY <1>2, <1>6, SMT DEF Window
  <2>2. a \in Nat /\ b \in Nat /\ a <= b /\ a <= 255 * rq /\ b <= 255 * rq
    BY <1>2, <2>1, SMT DEF MaxValue
  <2> HIDE DEF a, b
  <2>3. a \div rq \in 0..255 /\ b \div rq \in 0..255 /\ a \div rq <= b \div rq
    BY <2>1, <2>2, DivBound, DivMonotone
  <2> DEFINE x == a \div rq
             y == b \div rq
  <2>4. TqOwn(e1, rq) = x % U8 /\ TqOwn(e2, rq) = y % U8
    <3>1. ~(s1 < 1 \/ rq < 1) /\ ~(s2 < 1 \/ rq < 1)
      BY <1>2, <1>6, <2>1, SMT
    <3> QED BY <1>3, <1>4, <3>1, Zenon DEF a, b
  <2> HIDE DEF x, y
  <2>5. x \in 0..255 /\ y \in 0..255 /\ x <= y
    BY <2>3 DEF x, y
  <2>6. x % U8 = x /\ y % U8 = y
    BY <2>5, SMT DEF U8
  <2> QED BY <2>4, <2>5, <2>6
<1> QED BY <1>5, <1>6

\* Without an interface penalty the two divisions are one.
LEMMA CombinedIs ==
  ASSUME NEW t \in 0..MaxValue, NEW own \in 0..MaxValue, NEW asym \in 0..MaxValue
  PROVE  t * own * asym \in Nat /\ Combined(t, own, asym, MaxValue) = (t * own * asym) \div 65025
<1> DEFINE p == t * own * asym
           q == p \div MaxValue
           r == p % MaxValue
<1>1. p \in Nat
  BY SMT DEF MaxValue
<1>2. q \in Nat /\ r \in 0..254 /\ p = 255 * q + r
  <2> HIDE DEF p
  <2> QED BY <1>1, SMT DEF MaxValue
<1> HIDE DEF p, q, r
<1>3. (r * MaxValue) \div MaxValue = r
  BY <1>2, SMT DEF MaxValue
<1>4. q * MaxValue + r = p
  BY <1>2, SMT DEF MaxValue
<1>5. Combined(t, own, asym, MaxValue) = (q * MaxValue + ((r * MaxValue) \div MaxValue)) \div (MaxValue * MaxValue)
  BY DEF Combined, p, q, r
<1>6. MaxValue * MaxValue = 65025
  BY SMT DEF MaxValue
<1> QED BY <1>1, <1>3, <1>4, <1>5, <1>6 DEF p

\* A hop over a link with more echoes leaves no smaller TQ.
LEMMA CalcTqMonotone ==
  ASSUME NEW t \in 0..MaxValue, NEW e1 \in 0..Window, NEW e2 \in 0..Window,
         NEW rq \in 0..Window, e1 <= e2
  PROVE  CalcTq(t, e1, rq, FALSE, 0) <= CalcTq(t, e2, rq, FALSE, 0)
<1> DEFINE a == TqOwn(e1, rq)
           b == TqOwn(e2, rq)
           c == AsymPenalty(rq)
<1>1. a \in 0..MaxValue /\ b \in 0..MaxValue /\ a <= b /\ c \in 0..MaxValue
  BY TqOwnRange, TqOwnMonotone, AsymPenaltyRange
<1>2. CalcTq(t, e1, rq, FALSE, 0) = Combined(t, a, c, MaxValue)
      /\ CalcTq(t, e2, rq, FALSE, 0) = Combined(t, b, c, MaxValue)
  BY DEF CalcTq
<1> HIDE DEF a, b, c
<1>3. a \in Nat /\ b \in Nat /\ c \in Nat /\ t \in Nat
  BY <1>1, SMT DEF MaxValue
<1>4. a * t \in Nat /\ b * t \in Nat /\ a * t <= b * t
  BY <1>1, <1>3, ProductMonotone
<1>5. t * a = a * t /\ t * b = b * t
  BY <1>3, SMT
<1>6. (t * a) * c <= (t * b) * c
  BY <1>3, <1>4, <1>5, ProductMonotone
<1> DEFINE x == t * a * c
           y == t * b * c
<1>7. /\ x \in Nat /\ y \in Nat /\ x <= y
      /\ Combined(t, a, c, MaxValue) = x \div 65025
      /\ Combined(t, b, c, MaxValue) = y \div 65025
  BY <1>1, <1>6, CombinedIs
<1> HIDE DEF x, y
<1>8. x \div 65025 <= y \div 65025
  BY <1>7, DivMonotone
<1>9. Combined(t, a, c, MaxValue) <= Combined(t, b, c, MaxValue)
  BY <1>7, <1>8
<1> QED BY <1>2, <1>9, Zenon

\* batadv_iv_ogm_calc_tq: tq_own, cut to a u8 and divided in integers, still
\* never rates a link worse for more echoes, for all packet counts of a window.
THEOREM EchoesNeverHurt == Spec => []MoreEchoesNeverWorse
<1>1. TypeOK => MoreEchoesNeverWorse
  <2> SUFFICES ASSUME TypeOK, before < U8,
                      NEW rq \in Counts, NEW e1 \in Counts, NEW e2 \in Counts, e1 <= e2
               PROVE  CalcTq(before, e1, rq, FALSE, 0) <= CalcTq(before, e2, rq, FALSE, 0)
    BY DEF MoreEchoesNeverWorse
  <2>1. before \in 0..MaxValue
    BY SMT DEF TypeOK, U8, MaxValue
  <2>2. rq \in 0..Window /\ e1 \in 0..Window /\ e2 \in 0..Window
    BY MetricAssumption
  <2> QED BY <2>1, <2>2, CalcTqMonotone
<1> QED BY <1>1, MetricTypeCorrect, PTL

-----------------------------------------------------------------------------
(***************************************************************************)
(* Frag                                                                    *)
(***************************************************************************)
-----------------------------------------------------------------------------
(* How a packet is cut *)

LEMMA FragNumbers ==
  /\ FragSize \in Nat /\ FragSize > 0 /\ MaxFragments \in Nat /\ MaxFragments > 0
  /\ Buckets \in Nat /\ Buckets > 0 /\ SeqMod \in Nat /\ SeqMod > 0
  /\ StartSeq \in Nat /\ FragWindow \in Nat /\ MaxPkts \in Nat
  /\ \A len \in Lens : len \in Nat /\ len > 0
BY FragAssumption

LEMMA Division ==
  ASSUME NEW a \in Nat, NEW d \in Nat, d > 0
  PROVE  /\ a \div d \in Nat /\ a % d \in Nat /\ a % d < d
         /\ a = (a \div d) * d + (a % d)
BY SMT

\* A product is monotonous, one step more is a factor more.
LEMMA Steps ==
  ASSUME NEW i \in Int, NEW j \in Int, NEW d \in Nat, d > 0
  PROVE  /\ i * d \in Int /\ (i + 1) * d = i * d + d /\ (i - 1) * d = i * d - d
         /\ i < j => i * d + d <= j * d
         /\ i <= j => i * d <= j * d
         /\ i >= 0 => i * d >= 0
BY SMT

LEMMA CutRange ==
  ASSUME NEW len \in Lens
  PROVE  LET n == NumFragments(len)
         IN  /\ n \in Nat /\ n > 0
             /\ n * FragSize \in Nat /\ (n - 1) * FragSize \in Nat
             /\ (n - 1) * FragSize < len /\ len <= n * FragSize
             /\ n * FragSize = (n - 1) * FragSize + FragSize
             /\ len <= SizeLimit => n <= MaxFragments
<1> DEFINE n == NumFragments(len)
<1>1. len \in Nat /\ len > 0 /\ len + FragSize - 1 \in Nat
  BY FragNumbers, SMT
<1> DEFINE a == len + FragSize - 1
<1>2. n \in Nat /\ a % FragSize \in Nat /\ a % FragSize < FragSize
      /\ a = n * FragSize + (a % FragSize)
  BY <1>1, FragNumbers, Division DEF NumFragments
<1>3. n * FragSize \in Int /\ (n - 1) * FragSize = n * FragSize - FragSize
      /\ (n < MaxFragments + 1 \/ (MaxFragments + 1) * FragSize <= n * FragSize)
      /\ (MaxFragments + 1) * FragSize = MaxFragments * FragSize + FragSize
      /\ n * FragSize >= 0 /\ MaxFragments * FragSize \in Int
  <2>1. n \in Int /\ MaxFragments \in Int /\ MaxFragments + 1 \in Int
    BY <1>2, FragNumbers
  <2> HIDE DEF n
  <2> QED BY <1>2, <2>1, FragNumbers, Steps
<1> DEFINE p == n * FragSize
           q == (n - 1) * FragSize
           r == a % FragSize
           m == MaxFragments * FragSize
           t == (MaxFragments + 1) * FragSize
<1>4. FragSize * MaxFragments = m
  BY FragNumbers, SMT
<1>5. /\ p \in Int /\ q = p - FragSize /\ r \in Nat /\ r < FragSize /\ p >= 0
      /\ len + FragSize - 1 = p + r /\ m \in Int /\ t = m + FragSize
      /\ n < MaxFragments + 1 \/ t <= p
  BY <1>2, <1>3
<1> HIDE DEF n, p, q, r, m, t
<1>6. /\ p \in Nat /\ q \in Int /\ q < len /\ len <= p /\ p = q + FragSize
      /\ len <= m => n < MaxFragments + 1
  BY <1>1, <1>5, FragNumbers, SMT
<1>7. n > 0
  <2>1. n = 0 => p = 0
    BY FragNumbers, SMT DEF p
  <2> QED BY <1>1, <1>2, <1>6, <2>1 DEF n
<1>8. q \in Nat
  <2>1. n - 1 \in Nat
    BY <1>2, <1>7 DEF n
  <2> QED BY <2>1, FragNumbers, SMT DEF q
<1> QED BY <1>2, <1>4, <1>6, <1>7, <1>8, FragNumbers DEF n, p, q, m, SizeLimit

\* Where fragment `no' of a packet starts and how long it is.
LEMMA FragmentRange ==
  ASSUME NEW k, NEW len \in Lens, NEW no \in 0..(NumFragments(len) - 1)
  PROVE  LET f == Fragment(k, len, no)
         IN  /\ f.size \in 1..FragSize
             /\ no * FragSize \in Nat
             /\ no * FragSize + f.size <= len
<1> DEFINE n == NumFragments(len)
<1>1. /\ n \in Nat /\ n > 0 /\ (n - 1) * FragSize \in Nat
      /\ n * FragSize = (n - 1) * FragSize + FragSize
      /\ (n - 1) * FragSize < len /\ len <= n * FragSize
  BY CutRange
<1>2. no \in Nat /\ no <= n - 1
  BY <1>1
<1>3. /\ no * FragSize \in Int /\ no * FragSize >= 0
      /\ no < n - 1 => no * FragSize + FragSize <= (n - 1) * FragSize
  <2>1. no \in Int /\ n - 1 \in Int
    BY <1>1
  <2> HIDE DEF n
  <2> QED BY <1>2, <2>1, FragNumbers, Steps
<1>4. Fragment(k, len, no).size = IF no < n - 1 THEN FragSize ELSE len - no * FragSize
  BY DEF Fragment
<1> DEFINE a == no * FragSize
           b == (n - 1) * FragSize
<1>5. no = n - 1 => a = b
  OBVIOUS
<1> HIDE DEF n, a, b
<1> QED BY <1>1, <1>2, <1>3, <1>4, <1>5, FragNumbers, SMT DEF a, b

-----------------------------------------------------------------------------
(* Counting the payload that fragments of one packet hold *)

\* The fragments `frags' are cut from packet k, which is len long.
Of(frags, k, len) ==
  \A f \in frags : \E no \in 0..(NumFragments(len) - 1) : f = Fragment(k, len, no)

All(k, len) == {Fragment(k, len, no) : no \in 0..(NumFragments(len) - 1)}

\* Where a unit of a fragment is in the packet, from its tail.
Place(u) == u[1].no * FragSize + u[2]

LEMMA FragmentFields ==
  ASSUME NEW k, NEW len, NEW no
  PROVE  LET f == Fragment(k, len, no)
         IN  f.pkt = k /\ f.seqno = Seqno(k) /\ f.no = no /\ f.total = len
BY DEF Fragment

LEMMA UnitOf ==
  ASSUME NEW frags, NEW u
  PROVE  u \in Units(frags) <=> /\ u = <<u[1], u[2]>> /\ u[1] \in frags
                                /\ u[2] \in 1..u[1].size
<1>1. ASSUME u \in Units(frags)
      PROVE  u = <<u[1], u[2]>> /\ u[1] \in frags /\ u[2] \in 1..u[1].size
  <2>1. PICK f \in frags : u \in {f} \X (1..f.size)
    BY <1>1 DEF Units
  <2>2. u = <<u[1], u[2]>> /\ u[1] \in {f} /\ u[2] \in 1..f.size
    BY <2>1
  <2>3. u[1] = f
    BY <2>2
  <2> QED BY <2>2, <2>3
<1>2. ASSUME u = <<u[1], u[2]>>, u[1] \in frags, u[2] \in 1..u[1].size
      PROVE  u \in Units(frags)
  <2>1. u \in {u[1]} \X (1..u[1].size)
    BY <1>2
  <2> QED BY <1>2, <2>1 DEF Units
<1> QED BY <1>1, <1>2

\* Every unit has a place in the packet, and no two of them the same one.
LEMMA UnitPlaces ==
  ASSUME NEW k, NEW len \in Lens, NEW frags, Of(frags, k, len)
  PROVE  [u \in Units(frags) |-> Place(u)] \in Injection(Units(frags), 1..len)
<1>1. ASSUME NEW u \in Units(frags)
      PROVE  /\ Place(u) \in 1..len /\ u = <<u[1], u[2]>>
             /\ u[1].no \in Nat /\ u[1] = Fragment(k, len, u[1].no)
             /\ u[1].no * FragSize \in Nat /\ u[2] \in 1..FragSize
             /\ Place(u) = u[1].no * FragSize + u[2]
  <2>1. u = <<u[1], u[2]>> /\ u[1] \in frags /\ u[2] \in 1..u[1].size
    BY UnitOf
  <2>2. PICK no \in 0..(NumFragments(len) - 1) : u[1] = Fragment(k, len, no)
    BY <2>1 DEF Of
  <2>3. u[1].no = no
    BY <2>2, FragmentFields
  <2>4. /\ u[1].size \in 1..FragSize /\ no * FragSize \in Nat
        /\ no * FragSize + u[1].size <= len
    BY <2>2, FragmentRange
  <2>5. no \in Nat
    BY CutRange
  <2> DEFINE p == no * FragSize
             z == u[1].size
             i == u[2]
  <2>6. i \in 1..z /\ z \in 1..FragSize /\ p \in Nat /\ p + z <= len
    BY <2>1, <2>4
  <2>7. Place(u) = p + i
    BY <2>3 DEF Place
  <2> HIDE DEF p, z, i
  <2>8. p + i \in 1..len /\ i \in 1..FragSize
    BY <2>6, FragNumbers
  <2> QED BY <2>1, <2>2, <2>3, <2>4, <2>5, <2>7, <2>8 DEF p, i
<1>2. ASSUME NEW u \in Units(frags), NEW v \in Units(frags), Place(u) = Place(v)
      PROVE  u = v
  <2> DEFINE a == u[1].no
             b == v[1].no
             p == a * FragSize
             q == b * FragSize
             i == u[2]
             j == v[2]
  <2>1. /\ a \in Nat /\ b \in Nat /\ p \in Nat /\ q \in Nat
        /\ i \in 1..FragSize /\ j \in 1..FragSize /\ p + i = q + j
    BY <1>1, <1>2
  <2>2. (a < b => p + FragSize <= q) /\ (b < a => q + FragSize <= p)
    <3> HIDE DEF a, b
    <3> QED BY <2>1, FragNumbers, Steps
  <2>3. a = b => p = q
    OBVIOUS
  <2>4. a = b /\ i = j
    <3> HIDE DEF a, b, p, q, i, j
    <3> QED BY <2>1, <2>2, <2>3, FragNumbers
  <2> QED BY <1>1, <2>4
<1> QED BY <1>1, <1>2 DEF Injection, IsInjective

\* The units of one packet's fragments are at most its length, and as many
\* only when every fragment is there.
LEMMA UnitsOfPacket ==
  ASSUME NEW k, NEW len \in Lens, NEW frags, Of(frags, k, len)
  PROVE  /\ IsFiniteSet(Units(frags))
         /\ Cardinality(Units(frags)) \in 0..len
         /\ Cardinality(Units(frags)) = len <=> frags = All(k, len)
<1> DEFINE U == Units(frags)
           place == [u \in U |-> Place(u)]
<1>1. IsFiniteSet(1..len) /\ Cardinality(1..len) = len /\ len \in Nat
  BY FragNumbers, FS_Interval
<1>2. place \in Injection(U, 1..len)
  BY UnitPlaces
<1>3. /\ IsFiniteSet(U) /\ Cardinality(U) <= len
      /\ Cardinality(U) = len <=> place \in Surjection(U, 1..len)
  <2> HIDE DEF U, place
  <2> QED BY <1>1, <1>2, FS_Injection
<1>4. Cardinality(U) \in Nat
  BY <1>3, FS_CardinalityType
<1>5. ASSUME place \in Surjection(U, 1..len)
      PROVE  frags = All(k, len)
  <2>1. frags \subseteq All(k, len)
    BY DEF Of, All
  <2>2. ASSUME NEW no \in 0..(NumFragments(len) - 1)
        PROVE  Fragment(k, len, no) \in frags
    <3> DEFINE p == no * FragSize
    <3>1. /\ Fragment(k, len, no).size \in 1..FragSize /\ p \in Nat
          /\ p + Fragment(k, len, no).size <= len
      BY FragmentRange
    <3>2. p + 1 \in 1..len
      <4> HIDE DEF p
      <4> QED BY <3>1, <1>1, FragNumbers
    <3>3. PICK u \in U : place[u] = p + 1
      BY <1>5, <3>2 DEF Surjection
    <3>4. Place(u) = p + 1
      BY <3>3
    <3>5. u = <<u[1], u[2]>> /\ u[1] \in frags /\ u[2] \in 1..u[1].size
      BY UnitOf
    <3>6. PICK m \in 0..(NumFragments(len) - 1) : u[1] = Fragment(k, len, m)
      BY <3>5 DEF Of
    <3>7. /\ u[1].no = m /\ m * FragSize \in Nat /\ u[1].size \in 1..FragSize
      BY <3>6, FragmentFields, FragmentRange
    <3> DEFINE q == m * FragSize
               i == u[2]
    <3>8. q + i = p + 1 /\ i \in 1..FragSize /\ q \in Nat /\ m \in Nat /\ no \in Nat
      <4>1. i \in 1..FragSize
        <5> DEFINE z == u[1].size
        <5>1. i \in 1..z /\ z \in 1..FragSize
          BY <3>5, <3>7
        <5> HIDE DEF i, z
        <5> QED BY <5>1, FragNumbers
      <4> QED BY <3>4, <3>7, <4>1, CutRange DEF Place
    <3>9. (m < no => q + FragSize <= p) /\ (no < m => p + FragSize <= q)
      BY <3>8, FragNumbers, Steps
    <3>10. m = no
      <4> HIDE DEF p, q, i
      <4> QED BY <3>1, <3>8, <3>9, FragNumbers
    <3> QED BY <3>5, <3>6, <3>10
  <2> QED BY <2>1, <2>2 DEF All
<1>6. ASSUME frags = All(k, len)
      PROVE  place \in Surjection(U, 1..len)
  <2>1. ASSUME NEW x \in 1..len
        PROVE  \E u \in U : place[u] = x
    <3> DEFINE n == NumFragments(len)
               y == x - 1
               no == y \div FragSize
               i == (y % FragSize) + 1
               p == no * FragSize
    <3>1. y \in Nat /\ x \in Nat
      BY <1>1
    <3>2. no \in Nat /\ i \in 1..FragSize /\ y = p + (i - 1)
      <4> HIDE DEF y
      <4> QED BY <3>1, Division, FragNumbers
    <3>3. /\ n \in Nat /\ n > 0 /\ n * FragSize \in Nat /\ (n - 1) * FragSize \in Nat
          /\ len <= n * FragSize /\ n * FragSize = (n - 1) * FragSize + FragSize
      BY CutRange
    <3>4. p \in Nat /\ (n <= no => n * FragSize <= p)
      <4>1. no \in Int /\ n \in Int /\ no >= 0
        BY <3>2, <3>3
      <4> HIDE DEF no, n
      <4> QED BY <4>1, FragNumbers, Steps
    <3>5. p + i = x
      <4> HIDE DEF no, p, i
      <4> QED BY <3>1, <3>2, <3>4
    <3>6. no < n
      <4> DEFINE t == n * FragSize
      <4>1. n <= no => t <= p
        BY <3>4
      <4>2. t \in Nat /\ len <= t
        BY <3>3
      <4> HIDE DEF no, n, p, i, t
      <4> QED BY <1>1, <3>2, <3>3, <3>4, <3>5, <4>1, <4>2
    <3>7. no \in 0..(n - 1)
      <4> HIDE DEF no, n
      <4> QED BY <3>2, <3>3, <3>6
    <3> DEFINE f == Fragment(k, len, no)
    <3>8. f \in frags /\ f.no = no
      BY <1>6, <3>7, FragmentFields DEF All
    <3>9. f.size = IF no < n - 1 THEN FragSize ELSE len - p
      BY DEF Fragment
    <3>10. i \in 1..f.size
      <4> DEFINE z == f.size
      <4>1. z = IF no < n - 1 THEN FragSize ELSE len - p
        BY <3>9
      <4> HIDE DEF no, n, p, i, z
      <4> QED BY <1>1, <3>2, <3>4, <3>5, <4>1, FragNumbers DEF z
    <3> DEFINE u == <<f, i>>
    <3>11. u[1] = f /\ u[2] = i
      OBVIOUS
    <3> HIDE DEF f, i, u
    <3>12. u \in U
      <4>1. u = <<u[1], u[2]>> /\ u[1] \in frags /\ u[2] \in 1..u[1].size
        BY <3>8, <3>10, <3>11 DEF u
      <4> QED BY <4>1, UnitOf
    <3>13. Place(u) = x
      BY <3>5, <3>8, <3>11 DEF Place
    <3> QED BY <3>12, <3>13
  <2>2. place \in [U -> 1..len]
    BY <1>2 DEF Injection
  <2> QED BY <2>1, <2>2 DEF Surjection
<1> QED BY <1>1, <1>3, <1>4, <1>5, <1>6

\* One fragment more adds its size.
LEMMA OneMore ==
  ASSUME NEW k, NEW len \in Lens, NEW frags, NEW f, f \notin frags,
         Of(frags \cup {f}, k, len)
  PROVE  Cardinality(Units(frags \cup {f})) = Cardinality(Units(frags)) + f.size
<1> DEFINE G == frags \cup {f}
           V == {f} \X (1..f.size)
<1>1. PICK no \in 0..(NumFragments(len) - 1) : f = Fragment(k, len, no)
  BY DEF Of
<1>2. f.size \in Nat
  <2> DEFINE z == f.size
  <2>1. z \in 1..FragSize
    BY <1>1, FragmentRange
  <2> HIDE DEF z
  <2>2. z \in Nat
    BY <2>1, FragNumbers
  <2> QED BY <2>2 DEF z
<1>3. IsFiniteSet(V) /\ Cardinality(V) = f.size
  <2>1. IsFiniteSet({f}) /\ Cardinality({f}) = 1
    BY FS_Singleton
  <2>2. IsFiniteSet(1..f.size) /\ Cardinality(1..f.size) = f.size
    <3> DEFINE z == f.size
    <3>1. z \in Nat
      BY <1>2
    <3> HIDE DEF z
    <3>2. IsFiniteSet(1..z) /\ Cardinality(1..z) = z
      BY <3>1, FS_Interval
    <3> QED BY <3>2 DEF z
  <2> DEFINE z == f.size
             I == 1..z
             F == {f}
  <2>3. IsFiniteSet(I) /\ Cardinality(I) = z /\ IsFiniteSet(F) /\ Cardinality(F) = 1
        /\ z \in Nat
    BY <1>2, <2>1, <2>2
  <2> HIDE DEF z, I, F
  <2>4. IsFiniteSet(F \X I) /\ Cardinality(F \X I) = 1 * z
    BY <2>3, FS_Product
  <2>5. Cardinality(F \X I) = z
    BY <2>3, <2>4
  <2> QED BY <2>4, <2>5 DEF z, I, F
<1>4. Of(frags, k, len)
  BY DEF Of
<1>5. IsFiniteSet(Units(frags)) /\ Cardinality(Units(frags)) \in Nat
  BY <1>4, UnitsOfPacket, FS_CardinalityType
<1>6. Units(G) = Units(frags) \cup V
  BY DEF Units
<1>7. Units(frags) \cap V = {}
  <2> SUFFICES ASSUME NEW u \in Units(frags), u \in V
               PROVE  FALSE
    OBVIOUS
  <2>1. u[1] \in frags
    BY UnitOf
  <2>2. u[1] = f
    OBVIOUS
  <2> QED BY <2>1, <2>2
<1>8. Cardinality(Units(G)) = Cardinality(Units(frags)) + Cardinality(V) - 0
  <2> DEFINE U == Units(frags)
  <2>1. IsFiniteSet(U) /\ IsFiniteSet(V) /\ U \cap V = {} /\ Units(G) = U \cup V
    BY <1>3, <1>5, <1>6, <1>7
  <2> HIDE DEF U, V, G
  <2>2. Cardinality(U \cup V) = Cardinality(U) + Cardinality(V) - Cardinality(U \cap V)
    BY <2>1, FS_Union
  <2>3. Cardinality(U \cap V) = 0
    BY <2>1, FS_EmptySet
  <2> QED BY <2>1, <2>2, <2>3 DEF U
<1> QED BY <1>2, <1>3, <1>5, <1>8

-----------------------------------------------------------------------------
(* Numbers that come round *)

LEMMA Congruent ==
  ASSUME NEW a \in Nat, NEW b \in Nat, NEW d \in Nat, d > 0, NEW t \in Int,
         NEW i \in Nat, NEW j \in Nat, a = i * d + t, b = j * d + t,
         a < b + d, b < a + d
  PROVE  a = b
<1> DEFINE p == i * d
           q == j * d
<1>1. /\ p \in Int /\ q \in Int /\ (i < j => p + d <= q) /\ (j < i => q + d <= p)
      /\ (i = j => p = q)
  BY Steps
<1> HIDE DEF p, q
<1>2. a = p + t /\ b = q + t
  BY DEF p, q
<1> QED BY <1>1, <1>2

LEMMA SeqnoRange ==
  ASSUME NEW k \in Nat
  PROVE  /\ Seqno(k) \in 0..(SeqMod - 1)
         /\ \E i \in Nat : StartSeq + k = i * SeqMod + Seqno(k)
<1>1. StartSeq + k \in Nat
  BY FragNumbers
<1> QED BY <1>1, FragNumbers, Division DEF Seqno

LEMMA SameSeqno ==
  ASSUME NEW k \in Nat, NEW j \in Nat, Seqno(k) = Seqno(j),
         k < j + SeqMod, j < k + SeqMod
  PROVE  k = j
<1>1. PICK i \in Nat : StartSeq + k = i * SeqMod + Seqno(k)
  BY SeqnoRange
<1>2. PICK m \in Nat : StartSeq + j = m * SeqMod + Seqno(k)
  BY SeqnoRange
<1>3. Seqno(k) \in Int
  BY SeqnoRange, FragNumbers
<1> DEFINE a == StartSeq + k
           b == StartSeq + j
<1>4. a \in Nat /\ b \in Nat /\ a < b + SeqMod /\ b < a + SeqMod
  BY FragNumbers
<1>5. a = b
  <2>1. a = i * SeqMod + Seqno(k) /\ b = m * SeqMod + Seqno(k)
    BY <1>1, <1>2
  <2> HIDE DEF a, b
  <2> QED BY <1>3, <1>4, <2>1, FragNumbers, Congruent
<1> QED BY <1>5, FragNumbers

LEMMA BucketRange ==
  ASSUME NEW s \in Nat
  PROVE  Bucket(s) \in 0..(Buckets - 1)
BY FragNumbers, Division DEF Bucket

\* The bucket goes round with the packets: SeqMod is a multiple of Buckets.
LEMMA SameBucket ==
  ASSUME NEW k \in Nat, NEW j \in Nat, Bucket(Seqno(k)) = Bucket(Seqno(j)),
         k < j + Buckets, j < k + Buckets
  PROVE  k = j
<1>1. ASSUME NEW m \in Nat
      PROVE  \E i \in Nat : StartSeq + m = i * Buckets + Bucket(Seqno(m))
  <2>1. PICK u \in Nat : StartSeq + m = u * SeqMod + Seqno(m)
    BY SeqnoRange
  <2>2. Seqno(m) \in Nat
    BY SeqnoRange, FragNumbers
  <2> DEFINE v == Seqno(m) \div Buckets
             w == SeqMod \div Buckets
             t == Bucket(Seqno(m))
  <2>3. v \in Nat /\ Seqno(m) = v * Buckets + t /\ t \in Nat
    BY <2>2, FragNumbers, Division DEF Bucket
  <2>4. w \in Nat /\ SeqMod = w * Buckets + 0
    BY FragNumbers, Division, FragAssumption
  <2> HIDE DEF v, w, t
  <2>5. u * SeqMod = (u * w) * Buckets /\ u * w \in Nat
    BY <2>4, FragNumbers, SMT
  <2>6. (u * w) * Buckets + v * Buckets = (u * w + v) * Buckets /\ u * w + v \in Nat
    BY <2>3, <2>4, FragNumbers, SMT
  <2> DEFINE p == u * SeqMod
             q == v * Buckets
             r == (u * w + v) * Buckets
  <2>7. StartSeq + m = p + Seqno(m) /\ Seqno(m) = q + t /\ p + q = r
        /\ p \in Int /\ q \in Int /\ r \in Int
    BY <2>1, <2>3, <2>4, <2>5, <2>6, FragNumbers
  <2> HIDE DEF p, q, r
  <2>8. StartSeq + m = r + t
    BY <2>3, <2>7
  <2> QED BY <2>6, <2>8 DEF r, t
<1>2. PICK i \in Nat : StartSeq + k = i * Buckets + Bucket(Seqno(k))
  BY <1>1
<1>3. PICK m \in Nat : StartSeq + j = m * Buckets + Bucket(Seqno(k))
  BY <1>1
<1>4. Bucket(Seqno(k)) \in Int
  <2>1. Seqno(k) \in Nat
    BY SeqnoRange, FragNumbers
  <2> QED BY <2>1, BucketRange, FragNumbers
<1> DEFINE a == StartSeq + k
           b == StartSeq + j
<1>5. a \in Nat /\ b \in Nat /\ a < b + Buckets /\ b < a + Buckets
  BY FragNumbers
<1>6. a = b
  <2>1. a = i * Buckets + Bucket(Seqno(k)) /\ b = m * Buckets + Bucket(Seqno(k))
    BY <1>2, <1>3
  <2> HIDE DEF a, b
  <2> QED BY <1>4, <1>5, <2>1, FragNumbers, Congruent
<1> QED BY <1>6, FragNumbers

-----------------------------------------------------------------------------
(* The invariant *)

FragmentSet ==
  [pkt : Packets, seqno : 0..(SeqMod - 1), no : 0..(MaxFragments - 1),
   total : Lens, size : 1..FragSize]

ChainSet ==
  [seqno : 0..(SeqMod - 1), size : Nat, total : Lens \cup {0},
   frags : SUBSET FragmentSet]

FragTyped ==
  /\ sent \in Seq([len : Lens, ok : BOOLEAN]) /\ Len(sent) <= MaxPkts
  /\ net \subseteq FragmentSet
  /\ chain \in [0..(Buckets - 1) -> ChainSet]
  /\ seen \in [0..(Buckets - 1) -> [pkt : 0..MaxPkts, nos : SUBSET Nat,
                                    whole : BOOLEAN]]
  /\ delivered \in [Packets -> Nat]
  /\ mangled = FALSE /\ doubleFree \in BOOLEAN

\* A fragment that the sender really cut.
IsCut(f) ==
  /\ f.pkt \in 1..Len(sent) /\ sent[f.pkt].len <= SizeLimit
  /\ \E no \in 0..(NumFragments(sent[f.pkt].len) - 1) :
       f = Fragment(f.pkt, sent[f.pkt].len, no)

InFlight == \A f \in net : IsCut(f) /\ f.pkt + FragWindow > Len(sent)

\* What is in a chain was cut from the packet that its sequence number stands
\* for, is counted, and is not all of it.
ChainSound(b) ==
  LET c == chain[b] IN
  /\ \A f \in c.frags : /\ IsCut(f) /\ f.pkt + SeqMod > Len(sent)
                        /\ f.seqno = c.seqno /\ f.total = c.total
  /\ c.size = Cardinality(Units(c.frags))
  /\ c.frags # {} => c.size # c.total

FragInv == FragTyped /\ InFlight /\ \A b \in 0..(Buckets - 1) : ChainSound(b)

\* A packet that was delivered is in nobody's way any more: as long as one of
\* its fragments may arrive, the chain has its number and is empty.
HandedOver ==
  \A k \in Packets :
    /\ delivered[k] <= 1
    /\ delivered[k] > 0 =>
         /\ k <= Len(sent)
         /\ \A f \in net : f.pkt = k =>
              /\ chain[Bucket(Seqno(k))].seqno = Seqno(k)
              /\ chain[Bucket(Seqno(k))].frags = {}

\* A packet whose fragments a chain took from the start is delivered, or
\* exactly those that arrived are in the chain.
Collected(b) ==
  LET s == seen[b] IN
  s.whole =>
    /\ s.pkt \in 1..Len(sent) /\ s.nos # {}
    /\ s.nos \subseteq 0..(NumFragments(sent[s.pkt].len) - 1)
    /\ \/ delivered[s.pkt] > 0
       \/ /\ chain[b].seqno = Seqno(s.pkt) /\ chain[b].total = sent[s.pkt].len
          /\ chain[b].frags = {Fragment(s.pkt, sent[s.pkt].len, no) : no \in s.nos}

AllCollected == \A b \in 0..(Buckets - 1) : Collected(b)

-----------------------------------------------------------------------------
(* What the invariant says of a fragment and of its bucket *)

LEMMA WindowFits ==
  ASSUME FragWindow <= Buckets
  PROVE  FragWindow <= SeqMod
<1> DEFINE w == SeqMod \div Buckets
<1>1. w \in Nat /\ SeqMod = w * Buckets + 0
  BY FragNumbers, Division, FragAssumption
<1>2. w = 0 => SeqMod = 0
  <2> HIDE DEF w
  <2> QED BY <1>1, FragNumbers, SMT
<1>3. w >= 1 => Buckets <= w * Buckets
  <2> HIDE DEF w
  <2>1. w >= 1 => 1 * Buckets <= w * Buckets
    BY <1>1, FragNumbers, Steps
  <2> QED BY <2>1, FragNumbers
<1> DEFINE p == w * Buckets
<1> HIDE DEF w, p
<1>4. SeqMod = p /\ (w >= 1 => Buckets <= p)
  BY <1>1, <1>3, FragNumbers DEF p
<1> QED BY <1>1, <1>2, <1>4, FragNumbers

LEMMA CutFields ==
  ASSUME FragTyped, NEW f, IsCut(f)
  PROVE  LET len == sent[f.pkt].len IN
         /\ f.pkt \in 1..Len(sent) /\ f.pkt \in Nat /\ f.pkt \in Packets
         /\ len \in Lens /\ len <= SizeLimit /\ len \in Nat
         /\ f.no \in 0..(NumFragments(len) - 1) /\ f.no \in Nat
         /\ f = Fragment(f.pkt, len, f.no)
         /\ f.seqno = Seqno(f.pkt) /\ f.total = len
         /\ f \in FragmentSet /\ Of({f}, f.pkt, len)
<1> DEFINE len == sent[f.pkt].len
<1>1. f.pkt \in 1..Len(sent) /\ len <= SizeLimit
  BY DEF IsCut
<1>2. PICK no \in 0..(NumFragments(len) - 1) : f = Fragment(f.pkt, len, no)
  BY DEF IsCut
<1>3. len \in Lens /\ f.pkt \in Nat /\ f.pkt \in Packets
  <2>1. sent \in Seq([len : Lens, ok : BOOLEAN]) /\ Len(sent) <= MaxPkts
    BY DEF FragTyped
  <2> DEFINE a == f.pkt
             n == Len(sent)
  <2>3. n \in Nat /\ n <= MaxPkts /\ a \in 1..n
    BY <1>1, <2>1
  <2> HIDE DEF a
  <2>4. sent[a] \in [len : Lens, ok : BOOLEAN]
    <3> DEFINE R == [len : Lens, ok : BOOLEAN]
    <3> HIDE DEF R
    <3>1. sent \in Seq(R) /\ a \in 1..Len(sent)
      BY <2>1, <2>3 DEF R
    <3>2. sent[a] \in R
      BY <3>1
    <3> QED BY <3>2 DEF R
  <2> HIDE DEF n
  <2>5. a \in 1..MaxPkts /\ a \in Nat
    BY <2>3, FragNumbers
  <2>2. sent[f.pkt] \in [len : Lens, ok : BOOLEAN] /\ f.pkt \in 1..MaxPkts /\ f.pkt \in Nat
    BY <2>4, <2>5 DEF a
  <2> QED BY <2>2 DEF Packets
<1>4. f.seqno = Seqno(f.pkt) /\ f.no = no /\ f.total = len
  BY <1>2, FragmentFields
<1>5. no \in 0..(MaxFragments - 1) /\ no \in Nat
  <2> DEFINE n == NumFragments(len)
  <2>1. n \in Nat /\ n <= MaxFragments
    BY <1>1, <1>3, CutRange
  <2> HIDE DEF n
  <2>2. no \in 0..(n - 1)
    BY DEF n
  <2> QED BY <2>1, <2>2, FragNumbers
<1>6. Fragment(f.pkt, len, no).size \in 1..FragSize
  BY <1>3, FragmentRange
<1>7. Seqno(f.pkt) \in 0..(SeqMod - 1)
  BY <1>3, SeqnoRange
<1>8. Fragment(f.pkt, len, no) \in FragmentSet
  <2> DEFINE k == f.pkt
             z == IF no < NumFragments(len) - 1 THEN FragSize ELSE len - no * FragSize
             g == [pkt |-> k, seqno |-> Seqno(k), no |-> no, total |-> len, size |-> z]
  <2>1. Fragment(k, len, no) = g /\ g.size = z
    BY DEF Fragment
  <2>2. z \in 1..FragSize /\ k \in Packets /\ Seqno(k) \in 0..(SeqMod - 1)
        /\ no \in 0..(MaxFragments - 1) /\ len \in Lens
    BY <1>3, <1>5, <1>6, <1>7, <2>1
  <2> HIDE DEF k, z, len
  <2>3. g \in FragmentSet
    BY <2>2 DEF FragmentSet
  <2> QED BY <2>1, <2>3 DEF k, len
<1>9. Of({f}, f.pkt, len)
  BY <1>2 DEF Of
<1> QED BY <1>1, <1>2, <1>3, <1>4, <1>5, <1>8, <1>9, FragNumbers

\* Fragments with the same sequence number that may still meet are from the
\* same packet.
LEMMA OnePacket ==
  ASSUME FragTyped, NEW f, IsCut(f), f.pkt + SeqMod > Len(sent),
         NEW g, IsCut(g), g.pkt + SeqMod > Len(sent), f.seqno = g.seqno
  PROVE  f.pkt = g.pkt
<1>1. /\ f.pkt \in 1..Len(sent) /\ f.pkt \in Nat /\ f.seqno = Seqno(f.pkt)
      /\ g.pkt \in 1..Len(sent) /\ g.pkt \in Nat /\ g.seqno = Seqno(g.pkt)
  BY CutFields
<1>2. Len(sent) \in Nat
  BY DEF FragTyped
<1>3. f.pkt < g.pkt + SeqMod /\ g.pkt < f.pkt + SeqMod
  <2> DEFINE a == f.pkt
             b == g.pkt
             n == Len(sent)
  <2>1. a \in 1..n /\ b \in 1..n /\ n \in Nat /\ a + SeqMod > n /\ b + SeqMod > n
    BY <1>1, <1>2
  <2> HIDE DEF a, b, n
  <2>2. a < b + SeqMod /\ b < a + SeqMod
    BY <2>1, FragNumbers
  <2> QED BY <2>2 DEF a, b
<1> QED BY <1>1, <1>3, SameSeqno

LEMMA NoUnits == Units({}) = {} /\ Cardinality(Units({})) = 0
<1>1. Units({}) = {}
  BY DEF Units
<1> QED BY <1>1, FS_EmptySet

\* What batadv_frag_insert_packet makes of the bucket of a fragment that it
\* takes: fragments of one packet, the new one among them, and counted.
LEMMA Taken ==
  ASSUME FragInv, FragWindow <= SeqMod, NEW f \in net,
         NEW b \in 0..(Buckets - 1), b = Bucket(f.seqno), Placed(chain[b], f)
  PROVE  LET old == chain[b]
             c == Inserted(old, f)
             k == f.pkt
             len == sent[k].len
         IN  /\ c \in ChainSet /\ c.seqno = f.seqno /\ c.total = len /\ f.total = len
             /\ c.frags = (IF old.seqno = f.seqno THEN old.frags ELSE {}) \cup {f}
             /\ Of(c.frags, k, len)
             /\ \A g \in c.frags : /\ IsCut(g) /\ g.pkt + SeqMod > Len(sent)
                                   /\ g.seqno = c.seqno /\ g.total = c.total
             /\ c.size = Cardinality(Units(c.frags))
             /\ ~TooBig(c, f)
             /\ Complete(c, f) <=> c.size = c.total
             /\ Complete(c, f) <=> c.frags = All(k, len)
             /\ IsPacket(c.frags, k) <=> c.frags = All(k, len)
<1> DEFINE old == chain[b]
           c == Inserted(old, f)
           k == f.pkt
           len == sent[k].len
           F == IF old.seqno = f.seqno THEN old.frags ELSE {}
           base == InitChain(old, f)
<1>1. FragTyped /\ IsCut(f) /\ ChainSound(b) /\ f.pkt + SeqMod > Len(sent)
  <2>1. FragTyped /\ IsCut(f) /\ f.pkt + FragWindow > Len(sent) /\ ChainSound(b)
    BY DEF FragInv, InFlight
  <2>5. f.pkt \in Nat
    BY <2>1, CutFields
  <2>6. Len(sent) \in Nat
    BY <2>1 DEF FragTyped
  <2>2. f.pkt \in Nat /\ Len(sent) \in Nat
    BY <2>5, <2>6
  <2> DEFINE a == f.pkt
             n == Len(sent)
  <2>3. a \in Nat /\ n \in Nat /\ a + FragWindow > n
    BY <2>1, <2>2
  <2> HIDE DEF a, n
  <2>4. a + SeqMod > n
    BY <2>3, FragNumbers
  <2> QED BY <2>1, <2>4 DEF a, n
<1>2. /\ k \in 1..Len(sent) /\ len \in Lens /\ len <= SizeLimit /\ len \in Nat
      /\ f.seqno = Seqno(k) /\ f.total = len /\ f \in FragmentSet /\ Of({f}, k, len)
      /\ f = Fragment(k, len, f.no)
  BY <1>1, CutFields
<1>3. old \in ChainSet
  BY <1>1 DEF FragTyped
<1>4. old.size \in Nat /\ old.frags \subseteq FragmentSet
  BY <1>3 DEF ChainSet
<1>5. \A g \in old.frags : /\ IsCut(g) /\ g.pkt + SeqMod > Len(sent)
                           /\ g.seqno = old.seqno /\ g.total = old.total
  BY <1>1 DEF ChainSound
<1>6. old.size = Cardinality(Units(old.frags))
  BY <1>1 DEF ChainSound
<1>7. \A g \in F : IsCut(g) /\ g.pkt + SeqMod > Len(sent) /\ g.seqno = f.seqno
  BY <1>5
<1>8. ASSUME NEW g \in F
      PROVE  g.pkt = k /\ g.total = len /\ g = Fragment(k, len, g.no)
             /\ g.no \in 0..(NumFragments(len) - 1)
  <2>1. IsCut(g) /\ g.pkt + SeqMod > Len(sent) /\ g.seqno = f.seqno
    BY <1>7
  <2>2. g.pkt = k
    BY <1>1, <2>1, OnePacket
  <2> QED BY <1>1, <2>1, <2>2, CutFields
<1>9. Of(F \cup {f}, k, len)
  BY <1>2, <1>8 DEF Of
<1>10. Of(F, k, len)
  BY <1>8 DEF Of
<1>11. f \notin F
  BY DEF Placed
<1>12. base \in ChainSet /\ base.seqno = f.seqno /\ base.frags = F
       /\ base.size = Cardinality(Units(F)) /\ base.total = len
  <2>1. CASE old.seqno = f.seqno
    <3>1. base = old /\ F = old.frags
      BY <2>1 DEF InitChain
    <3>2. F # {}
      BY <2>1, <3>1 DEF Placed
    <3>3. PICK g : g \in F
      BY <3>2
    <3>4. old.total = len
      <4>1. g.total = old.total
        BY <1>5, <3>1, <3>3
      <4>2. g.total = len
        BY <1>8, <3>3
      <4> QED BY <4>1, <4>2
    <3> QED BY <1>3, <1>6, <2>1, <3>1, <3>4
  <2>2. CASE old.seqno # f.seqno
    <3>1. base = [seqno |-> f.seqno, size |-> 0, total |-> f.total, frags |-> {}]
          /\ F = {}
      BY <2>2 DEF InitChain
    <3>2. f.seqno \in 0..(SeqMod - 1) /\ f.total \in Lens
      BY <1>2 DEF FragmentSet
    <3>3. base \in ChainSet
      BY <3>1, <3>2 DEF ChainSet
    <3>4. base.size = Cardinality(Units(F)) /\ base.frags = F
      <4> HIDE DEF base, F
      <4>1. base.size = 0 /\ base.frags = {}
        BY <3>1
      <4>2. Units(F) = Units({}) /\ F = {}
        BY <3>1
      <4> QED BY <4>1, <4>2, NoUnits
    <3>5. base.seqno = f.seqno /\ base.total = len
      BY <1>2, <3>1
    <3> QED BY <3>3, <3>4, <3>5
  <2> QED BY <2>1, <2>2
<1>13. c = [base EXCEPT !.frags = @ \cup {f}, !.size = @ + f.size]
  BY DEF Inserted
<1>14. f.size \in Nat
  <2>1. f.size \in 1..FragSize
    BY <1>2 DEF FragmentSet
  <2> DEFINE z == f.size
  <2> HIDE DEF z
  <2>2. z \in 1..FragSize
    BY <2>1 DEF z
  <2>3. z \in Nat
    BY <2>2, FragNumbers
  <2> QED BY <2>3 DEF z
<1>15. c \in ChainSet /\ c.seqno = f.seqno /\ c.total = len /\ c.frags = F \cup {f}
       /\ c.size = Cardinality(Units(F)) + f.size
  <2> DEFINE n == base.size + f.size
  <2> HIDE DEF base, F, len
  <2>1. base.size \in Nat /\ n \in Nat /\ base.frags \subseteq FragmentSet
    BY <1>12, <1>14 DEF ChainSet
  <2> HIDE DEF n
  <2>2. c = [seqno |-> base.seqno, size |-> n, total |-> base.total,
             frags |-> base.frags \cup {f}]
    BY <1>12, <1>13 DEF ChainSet, n
  <2>3. base.seqno \in 0..(SeqMod - 1) /\ base.total \in Lens \cup {0}
    BY <1>12 DEF ChainSet
  <2>4. c \in ChainSet
    BY <1>2, <2>1, <2>2, <2>3 DEF ChainSet
  <2> QED BY <1>12, <2>2, <2>4 DEF n
<1>16. c.size = Cardinality(Units(c.frags))
  <2> HIDE DEF c, F, k, len
  <2> QED BY <1>2, <1>9, <1>11, <1>15, OneMore
<1>17. Of(c.frags, k, len)
  BY <1>9, <1>15
<1>18. c.size \in 0..len /\ (c.size = len <=> c.frags = All(k, len))
  <2> HIDE DEF c, k, len
  <2> QED BY <1>2, <1>16, <1>17, UnitsOfPacket
<1>19. ~TooBig(c, f)
  <2> DEFINE z == c.size
             t == c.total
  <2>1. z \in 0..len /\ len \in Nat /\ t = len /\ t = f.total /\ len <= SizeLimit
        /\ SizeLimit \in Nat
    <3>1. SizeLimit \in Nat
      BY FragNumbers, SMT DEF SizeLimit
    <3> QED BY <1>2, <1>15, <1>18, <3>1
  <2> HIDE DEF z, t, len
  <2>2. ~(z > SizeLimit) /\ ~(t > SizeLimit) /\ t = f.total
    BY <2>1
  <2> QED BY <2>2 DEF TooBig, z, t
<1>20. Complete(c, f) <=> c.size = c.total
  BY <1>2, <1>15, <1>19 DEF Complete
<1>21. \A g \in c.frags : /\ IsCut(g) /\ g.pkt + SeqMod > Len(sent)
                          /\ g.seqno = c.seqno /\ g.total = c.total
  BY <1>1, <1>2, <1>7, <1>8, <1>15
<1>22. IsPacket(c.frags, k) <=> c.frags = All(k, len)
  BY <1>2 DEF IsPacket, All
<1> HIDE DEF c, len, k
<1> QED BY <1>2, <1>15, <1>16, <1>17, <1>18, <1>19, <1>20, <1>21, <1>22
        DEF c, len, k

\* What batadv_frag_skb_buffer does: the fragment is refused and nothing
\* changes, or it is taken, or it is the last one and the packet is merged.
LEMMA Received ==
  ASSUME FragInv, FragWindow <= SeqMod, NEW f \in net, RecvFragment(f)
  PROVE  LET b == Bucket(f.seqno)
             c == Inserted(chain[b], f)
         IN  /\ b \in 0..(Buckets - 1)
             /\ sent' = sent /\ net' \subseteq net
             /\ seen' = [seen EXCEPT ![b] = Seen(@, chain[b], f)]
             /\ \/ /\ ~Placed(chain[b], f) /\ chain' = chain
                   /\ UNCHANGED <<mangled, delivered, doubleFree>>
                \/ /\ Placed(chain[b], f) /\ ~Complete(c, f)
                   /\ chain' = [chain EXCEPT ![b] = c]
                   /\ UNCHANGED <<mangled, delivered, doubleFree>>
                \/ /\ Placed(chain[b], f) /\ Complete(c, f)
                   /\ chain' = [chain EXCEPT ![b] = Cleared(c)]
                   /\ Merge(c, f)
<1> DEFINE b == Bucket(f.seqno)
           old == chain[b]
           c == Inserted(old, f)
<1>1. b \in 0..(Buckets - 1)
  <2>1. f \in FragmentSet
    BY DEF FragInv, FragTyped
  <2>2. f.seqno \in 0..(SeqMod - 1)
    BY <2>1 DEF FragmentSet
  <2> DEFINE q == f.seqno
  <2> HIDE DEF q
  <2>3. q \in 0..(SeqMod - 1)
    BY <2>2 DEF q
  <2>4. q \in Nat
    BY <2>3, FragNumbers
  <2> QED BY <2>4, BucketRange DEF q
<1>2. /\ net' \in {net, net \ {f}} /\ sent' = sent
      /\ seen' = [seen EXCEPT ![b] = Seen(@, old, f)]
      /\ IF Placed(old, f) \/ old.frags = {}
         THEN /\ chain' = [chain EXCEPT ![b] = IF TooBig(c, f) \/ Complete(c, f)
                                               THEN Cleared(c) ELSE c]
              /\ IF Complete(c, f) THEN Merge(c, f)
                 ELSE UNCHANGED <<mangled, delivered, doubleFree>>
         ELSE UNCHANGED <<chain, mangled, delivered, doubleFree>>
  BY DEF RecvFragment
<1>3. net' \subseteq net
  BY <1>2
<1>4. CASE Placed(old, f)
  <2>1. ~TooBig(c, f)
    BY <1>1, <1>4, Taken
  <2> HIDE DEF b, old, c
  <2> QED BY <1>1, <1>2, <1>3, <1>4, <2>1 DEF b, old, c
<1>5. CASE ~Placed(old, f) /\ old.frags # {}
  BY <1>1, <1>2, <1>3, <1>5
<1>6. CASE ~Placed(old, f) /\ old.frags = {}
  <2>1. c = old
    BY <1>6 DEF Inserted
  <2>2. chain \in [0..(Buckets - 1) -> ChainSet] /\ old \in ChainSet
    BY <1>1 DEF FragInv, FragTyped
  <2>3. old.size = Cardinality(Units(old.frags))
    BY <1>1 DEF FragInv, ChainSound
  <2>4. old.size = 0
    <3> HIDE DEF old
    <3> QED BY <1>6, <2>3, NoUnits
  <2>5. Cleared(old) = old
    <3> HIDE DEF old
    <3> QED BY <1>6, <2>2, <2>4 DEF Cleared, ChainSet
  <2>6. ~Complete(old, f)
    <3>1. f \in FragmentSet
      BY DEF FragInv, FragTyped
    <3>2. f.total \in Lens
      BY <3>1 DEF FragmentSet
    <3>3. f.total # 0
      BY <3>2, FragNumbers
    <3> QED BY <2>4, <3>3 DEF Complete
  <2>7. chain' = chain
    <3>1. chain' = [chain EXCEPT ![b] = old]
      BY <1>2, <1>6, <2>1, <2>5
    <3> QED BY <2>2, <3>1
  <2>8. UNCHANGED <<mangled, delivered, doubleFree>>
    BY <1>2, <1>6, <2>1, <2>6
  <2> QED BY <1>1, <1>2, <1>3, <1>6, <2>7, <2>8
<1> QED BY <1>4, <1>5, <1>6

-----------------------------------------------------------------------------
(* Every step keeps it *)

LEMMA SentGrows ==
  ASSUME FragTyped, NEW len \in Lens, SendPacket(len)
  PROVE  LET k == Len(sent) + 1 IN
         /\ k \in Packets /\ k \in Nat /\ Len(sent') = k
         /\ sent' \in Seq([len : Lens, ok : BOOLEAN])
         /\ \A j \in 1..Len(sent) : sent'[j] = sent[j] /\ j \in 1..Len(sent')
         /\ sent'[k].len = len
<1> DEFINE R == [len : Lens, ok : BOOLEAN]
           x == [len |-> len, ok |-> Succeeds(len)]
<1>1. sent' = Append(sent, x) /\ Len(sent) < MaxPkts
  BY DEF SendPacket
<1>2. x \in R /\ x.len = len
  BY DEF Succeeds
<1>3. sent \in Seq(R)
  BY DEF FragTyped
<1> HIDE DEF R, x
<1>4. /\ Len(sent) \in Nat /\ Len(sent') = Len(sent) + 1 /\ sent' \in Seq(R)
      /\ \A j \in 1..Len(sent) : sent'[j] = sent[j] /\ j \in 1..Len(sent')
      /\ sent'[Len(sent) + 1] = x
  BY <1>1, <1>2, <1>3
<1>5. Len(sent) + 1 \in Packets
  BY <1>1, <1>4, FragNumbers DEF Packets
<1> QED BY <1>2, <1>4, <1>5 DEF R

\* Only numbers that the length has fragments for are cut.
LEMMA CutNumbers ==
  ASSUME NEW len \in Lens,
         NEW no \in (0..(Cut(len) - 1)) \cup
                    (IF Succeeds(len) THEN {NumFragments(len) - 1} ELSE {})
  PROVE  no \in 0..(NumFragments(len) - 1)
<1> DEFINE n == NumFragments(len)
<1>1. n \in Nat /\ n > 0
  BY CutRange
<1>2. Cut(len) \in Int /\ Cut(len) <= n - 1
  <2> DEFINE a == n - 1
             m == MaxFragments - 1
  <2>1. a \in Int /\ m \in Int
    BY <1>1, FragNumbers
  <2>2. Cut(len) = Min({a, m})
    BY DEF Cut
  <2> HIDE DEF a, m
  <2>3. \E x \in {a, m} : \A y \in {a, m} : x <= y
    BY <2>1
  <2>4. Min({a, m}) \in {a, m} /\ Min({a, m}) <= a
    BY <2>3 DEF Min
  <2> QED BY <2>1, <2>2, <2>4 DEF a
<1> DEFINE c == Cut(len)
<1>3. no \in 0..(c - 1) \/ no = n - 1
  OBVIOUS
<1> HIDE DEF n, c
<1>4. no \in 0..(n - 1)
  BY <1>1, <1>2, <1>3 DEF c
<1> QED BY <1>4 DEF n

LEMMA CutStays ==
  ASSUME NEW f, IsCut(f), sent'[f.pkt] = sent[f.pkt], f.pkt \in 1..Len(sent')
  PROVE  IsCut(f)'
BY DEF IsCut, Fragment

LEMMA SoundStays ==
  ASSUME NEW b, ChainSound(b), chain'[b] = chain[b],
         \A f \in chain[b].frags : IsCut(f)' /\ f.pkt + SeqMod > Len(sent')
  PROVE  ChainSound(b)'
BY DEF ChainSound

LEMMA EmptySound ==
  ASSUME NEW b, chain'[b].frags = {}, chain'[b].size = 0
  PROVE  ChainSound(b)'
BY NoUnits DEF ChainSound

LEMMA FragInvSend ==
  ASSUME FragInv, FragWindow <= SeqMod, NEW len \in Lens, SendPacket(len)
  PROVE  FragInv'
<1> DEFINE k == Len(sent) + 1
           nos == (0..(Cut(len) - 1)) \cup
                  (IF Succeeds(len) THEN {NumFragments(len) - 1} ELSE {})
           new == IF len > SizeLimit THEN {}
                  ELSE {Fragment(k, len, no) : no \in nos}
<1>1. FragTyped /\ InFlight
  BY DEF FragInv
<1>2. /\ k \in Packets /\ k \in Nat /\ Len(sent') = k
      /\ sent' \in Seq([len : Lens, ok : BOOLEAN])
      /\ \A j \in 1..Len(sent) : sent'[j] = sent[j] /\ j \in 1..Len(sent')
      /\ sent'[k].len = len
  BY <1>1, SentGrows
<1>3. /\ net' = {f \in net : f.pkt + FragWindow > k} \cup new
      /\ \A b \in DOMAIN chain : \A f \in chain[b].frags : f.pkt + SeqMod > k
      /\ UNCHANGED <<chain, delivered, mangled, seen, doubleFree>>
  BY DEF SendPacket
<1>4. Len(sent') <= MaxPkts
  <2> DEFINE n == Len(sent')
  <2>1. n \in Packets
    BY <1>2
  <2> HIDE DEF n
  <2>2. n <= MaxPkts
    BY <2>1, FragNumbers DEF Packets
  <2> QED BY <2>2 DEF n
<1>5. ASSUME NEW f, IsCut(f)
      PROVE  IsCut(f)'
  <2>1. f.pkt \in 1..Len(sent)
    BY <1>5 DEF IsCut
  <2> QED BY <1>2, <1>5, <2>1, CutStays
<1>6. ASSUME NEW f \in new
      PROVE  IsCut(f)' /\ f.pkt + FragWindow > k /\ f \in FragmentSet
  <2>1. len <= SizeLimit
    <3>1. len \in Nat /\ SizeLimit \in Nat
      BY FragNumbers, SMT DEF SizeLimit
    <3>2. ~(len > SizeLimit)
      OBVIOUS
    <3> QED BY <3>1, <3>2
  <2>2. PICK no \in nos : f = Fragment(k, len, no)
    OBVIOUS
  <2>3. no \in 0..(NumFragments(len) - 1)
    BY CutNumbers
  <2>4. f.pkt = k
    BY <2>2, FragmentFields
  <2>5. k \in 1..Len(sent')
    <3>1. k \in 1..k
      <4> HIDE DEF k
      <4>1. k > 0
        BY <1>2, FragNumbers DEF Packets
      <4> QED BY <1>2, <4>1
    <3> QED BY <1>2, <3>1
  <2>6. IsCut(f)'
    <3>1. Fragment(k, len, no) = Fragment(f.pkt, sent'[f.pkt].len, no)
      BY <1>2, <2>4
    <3> DEFINE g == f.pkt
    <3>2. g \in 1..Len(sent') /\ sent'[g].len = len
      BY <1>2, <2>4, <2>5
    <3>3. f = Fragment(g, sent'[g].len, no)
      BY <2>2, <3>1
    <3>4. \E m \in 0..(NumFragments(sent'[g].len) - 1) : f = Fragment(g, sent'[g].len, m)
      BY <2>3, <3>2, <3>3
    <3> HIDE DEF g
    <3>5. /\ g \in 1..Len(sent') /\ sent'[g].len <= SizeLimit
          /\ \E m \in 0..(NumFragments(sent'[g].len) - 1) : f = Fragment(g, sent'[g].len, m)
      BY <2>1, <3>2, <3>4
    <3> QED BY <3>5 DEF g, IsCut, Fragment, Seqno, NumFragments
  <2>7. k + FragWindow > k
    <3> HIDE DEF k
    <3>1. FragWindow > 0
      BY FragAssumption
    <3> QED BY <1>2, <3>1, FragNumbers
  <2>8. f \in FragmentSet
    <3>1. Fragment(k, len, no).size \in 1..FragSize
      BY <2>3, FragmentRange
    <3>2. Seqno(k) \in 0..(SeqMod - 1)
      BY <1>2, SeqnoRange
    <3>3. no \in 0..(MaxFragments - 1)
      <4> DEFINE n == NumFragments(len)
      <4>1. n \in Nat /\ n <= MaxFragments
        BY <2>1, CutRange
      <4> HIDE DEF n
      <4>2. no \in 0..(n - 1)
        BY <2>3 DEF n
      <4> QED BY <4>1, <4>2, FragNumbers
    <3> DEFINE z == IF no < NumFragments(len) - 1 THEN FragSize ELSE len - no * FragSize
               g == [pkt |-> k, seqno |-> Seqno(k), no |-> no, total |-> len, size |-> z]
    <3>4. f = g /\ g.size = z
      BY <2>2 DEF Fragment
    <3>5. z \in 1..FragSize
      BY <2>2, <3>1, <3>4
    <3> HIDE DEF k, z
    <3>6. g \in FragmentSet
      BY <1>2, <3>2, <3>3, <3>5 DEF FragmentSet
    <3> QED BY <3>4, <3>6
  <2> QED BY <2>4, <2>6, <2>7, <2>8
<1>7. FragTyped'
  <2>1. net' \subseteq FragmentSet
    <3> HIDE DEF new
    <3> QED BY <1>1, <1>3, <1>6 DEF FragTyped
  <2> QED BY <1>1, <1>2, <1>3, <1>4, <2>1 DEF FragTyped, FragmentSet, ChainSet, Packets
<1>8. InFlight'
  <2> SUFFICES ASSUME NEW f \in net'
               PROVE  IsCut(f)' /\ f.pkt + FragWindow > Len(sent')
    BY DEF InFlight
  <2>1. CASE f \in new
    BY <1>2, <1>6, <2>1
  <2>2. CASE f \notin new
    <3>1. f \in net /\ f.pkt + FragWindow > k
      BY <1>3, <2>2
    <3> QED BY <1>1, <1>2, <1>5, <3>1 DEF InFlight
  <2> QED BY <2>1, <2>2
<1>9. ASSUME NEW b \in 0..(Buckets - 1)
      PROVE  ChainSound(b)'
  <2>1. ChainSound(b) /\ b \in DOMAIN chain
    BY <1>1 DEF FragInv, FragTyped
  <2>2. \A f \in chain[b].frags : IsCut(f)' /\ f.pkt + SeqMod > Len(sent')
    <3> HIDE DEF k
    <3> QED BY <1>2, <1>3, <1>5, <2>1 DEF ChainSound
  <2> QED BY <1>3, <2>1, <2>2, SoundStays
<1> QED BY <1>7, <1>8, <1>9 DEF FragInv

\* The types after a step that changes one chain, and fragments only in it.
LEMMA TypedStays ==
  ASSUME FragTyped, NEW b \in 0..(Buckets - 1), NEW c \in ChainSet,
         chain' = [chain EXCEPT ![b] = c],
         seen' \in [0..(Buckets - 1) -> [pkt : 0..MaxPkts, nos : SUBSET Nat,
                                         whole : BOOLEAN]],
         sent' = sent, net' \subseteq net, mangled' = FALSE,
         delivered' \in [Packets -> Nat], doubleFree' \in BOOLEAN
  PROVE  FragTyped'
<1>1. chain' \in [0..(Buckets - 1) -> ChainSet]
  BY DEF FragTyped
<1>2. sent' \in Seq([len : Lens, ok : BOOLEAN]) /\ Len(sent') <= MaxPkts
  BY DEF FragTyped
<1>3. net' \subseteq FragmentSet
  BY DEF FragTyped
<1> QED BY <1>1, <1>2, <1>3 DEF FragTyped, FragmentSet, ChainSet, Packets

LEMMA CutUnchanged ==
  ASSUME sent' = sent, NEW f
  PROVE  IsCut(f)' <=> IsCut(f)
BY DEF IsCut, Fragment

LEMMA InFlightStays ==
  ASSUME InFlight, sent' = sent, net' \subseteq net
  PROVE  InFlight'
<1> SUFFICES ASSUME NEW f \in net'
             PROVE  IsCut(f)' /\ f.pkt + FragWindow > Len(sent')
  BY DEF InFlight
<1>1. IsCut(f) /\ f.pkt + FragWindow > Len(sent)
  BY DEF InFlight
<1> QED BY <1>1, CutUnchanged

LEMMA SeenTyped ==
  ASSUME FragInv, NEW f \in net, NEW b \in 0..(Buckets - 1)
  PROVE  [seen EXCEPT ![b] = Seen(@, chain[b], f)] \in
           [0..(Buckets - 1) -> [pkt : 0..MaxPkts, nos : SUBSET Nat, whole : BOOLEAN]]
<1>1. f \in FragmentSet /\ seen \in [0..(Buckets - 1) -> [pkt : 0..MaxPkts,
                                     nos : SUBSET Nat, whole : BOOLEAN]]
  BY DEF FragInv, FragTyped
<1>2. f.pkt \in 0..MaxPkts /\ f.no \in Nat
  <2> DEFINE a == f.pkt
             n == f.no
  <2>1. a \in Packets /\ n \in 0..(MaxFragments - 1)
    BY <1>1 DEF FragmentSet
  <2> HIDE DEF a, n
  <2>2. a \in 0..MaxPkts /\ n \in Nat
    BY <2>1, FragNumbers DEF Packets
  <2> QED BY <2>2 DEF a, n
<1>3. Seen(seen[b], chain[b], f) \in [pkt : 0..MaxPkts, nos : SUBSET Nat, whole : BOOLEAN]
  BY <1>1, <1>2 DEF Seen
<1> QED BY <1>1, <1>3

LEMMA FragInvRecv ==
  ASSUME FragInv, FragWindow <= SeqMod, NEW f \in net, RecvFragment(f)
  PROVE  FragInv'
<1> DEFINE b == Bucket(f.seqno)
           old == chain[b]
           c == Inserted(old, f)
<1>1. FragTyped /\ InFlight /\ \A a \in 0..(Buckets - 1) : ChainSound(a)
  BY DEF FragInv
<1>2. /\ b \in 0..(Buckets - 1) /\ sent' = sent /\ net' \subseteq net
      /\ seen' = [seen EXCEPT ![b] = Seen(@, chain[b], f)]
      /\ \/ /\ ~Placed(old, f) /\ chain' = chain
            /\ UNCHANGED <<mangled, delivered, doubleFree>>
         \/ /\ Placed(old, f) /\ ~Complete(c, f)
            /\ chain' = [chain EXCEPT ![b] = c]
            /\ UNCHANGED <<mangled, delivered, doubleFree>>
         \/ /\ Placed(old, f) /\ Complete(c, f)
            /\ chain' = [chain EXCEPT ![b] = Cleared(c)]
            /\ Merge(c, f)
  BY Received
<1>3. InFlight'
  BY <1>1, <1>2, InFlightStays
<1>4. seen' \in [0..(Buckets - 1) -> [pkt : 0..MaxPkts, nos : SUBSET Nat,
                                      whole : BOOLEAN]]
  <2> HIDE DEF b
  <2> QED BY <1>2, SeenTyped
<1>5. /\ chain \in [0..(Buckets - 1) -> ChainSet] /\ f.pkt \in Packets
      /\ delivered \in [Packets -> Nat] /\ mangled = FALSE /\ doubleFree \in BOOLEAN
  <2>1. f \in FragmentSet
    BY <1>1 DEF FragTyped
  <2> QED BY <1>1, <2>1 DEF FragTyped, FragmentSet
<1>6. ASSUME NEW a \in 0..(Buckets - 1), chain'[a] = chain[a]
      PROVE  ChainSound(a)'
  <2>1. ChainSound(a)
    BY <1>1
  <2>2. \A g \in chain[a].frags : IsCut(g)' /\ g.pkt + SeqMod > Len(sent')
    BY <1>2, <2>1, CutUnchanged DEF ChainSound
  <2> QED BY <1>6, <2>1, <2>2, SoundStays
<1>7. CASE ~Placed(old, f) /\ chain' = chain /\ UNCHANGED <<mangled, delivered, doubleFree>>
  <2>1. chain' = [chain EXCEPT ![b] = old] /\ old \in ChainSet
    <3>1. b \in 0..(Buckets - 1)
      BY <1>2
    <3>2. chain \in [0..(Buckets - 1) -> ChainSet]
      BY <1>5
    <3>3. chain' = chain
      BY <1>7, Zenon
    <3> HIDE DEF b
    <3> QED BY <3>1, <3>2, <3>3
  <2>2. FragTyped'
    <3> HIDE DEF b, old
    <3> QED BY <1>1, <1>2, <1>4, <1>5, <1>7, <2>1, TypedStays, Zenon
  <2> QED BY <1>3, <1>6, <1>7, <2>2 DEF FragInv
<1>8. CASE Placed(old, f) /\ ~Complete(c, f) /\ chain' = [chain EXCEPT ![b] = c]
           /\ UNCHANGED <<mangled, delivered, doubleFree>>
  <2>1. /\ c \in ChainSet
        /\ \A g \in c.frags : /\ IsCut(g) /\ g.pkt + SeqMod > Len(sent)
                              /\ g.seqno = c.seqno /\ g.total = c.total
        /\ c.size = Cardinality(Units(c.frags))
        /\ c.size # c.total
    BY <1>2, <1>8, Taken
  <2>2. FragTyped'
    <3> HIDE DEF b, old, c
    <3> QED BY <1>1, <1>2, <1>4, <1>5, <1>8, <2>1, TypedStays
  <2>3. chain'[b] = c
    BY <1>2, <1>5, <1>8
  <2>4. ChainSound(b)'
    <3> HIDE DEF b, c
    <3>1. \A g \in c.frags : IsCut(g)' /\ g.pkt + SeqMod > Len(sent')
      BY <1>2, <2>1, CutUnchanged
    <3> QED BY <2>1, <2>3, <3>1 DEF ChainSound
  <2>5. ASSUME NEW a \in 0..(Buckets - 1), a # b
        PROVE  ChainSound(a)'
    <3>1. chain'[a] = chain[a]
      BY <1>5, <1>8, <2>5
    <3> QED BY <1>6, <3>1
  <2> QED BY <1>3, <2>2, <2>4, <2>5 DEF FragInv
<1>9. CASE Placed(old, f) /\ Complete(c, f)
           /\ chain' = [chain EXCEPT ![b] = Cleared(c)] /\ Merge(c, f)
  <2>1. c \in ChainSet /\ IsPacket(c.frags, f.pkt)
    BY <1>2, <1>9, Taken
  <2>2. Cleared(c) \in ChainSet /\ Cleared(c).frags = {} /\ Cleared(c).size = 0
    <3> HIDE DEF c
    <3> QED BY <2>1 DEF Cleared, ChainSet
  <2>3. mangled' = FALSE /\ delivered' \in [Packets -> Nat] /\ doubleFree' \in BOOLEAN
    <3> HIDE DEF c
    <3>1. CASE /\ mangled' = (mangled \/ ~IsPacket(c.frags, f.pkt))
               /\ delivered' = [delivered EXCEPT ![f.pkt] = @ + 1]
               /\ UNCHANGED doubleFree
      <4>1. mangled' = FALSE
        BY <1>5, <2>1, <3>1
      <4>2. delivered' \in [Packets -> Nat]
        BY <1>5, <3>1
      <4> QED BY <1>5, <3>1, <4>1, <4>2
    <3>2. CASE doubleFree' = TRUE /\ UNCHANGED <<mangled, delivered>>
      BY <1>5, <3>2
    <3> QED BY <1>9, <3>1, <3>2 DEF Merge
  <2>4. FragTyped'
    <3> HIDE DEF b, c
    <3> QED BY <1>1, <1>2, <1>4, <1>9, <2>2, <2>3, TypedStays
  <2>5. ChainSound(b)'
    <3>1. chain'[b] = Cleared(c)
      BY <1>2, <1>5, <1>9
    <3> HIDE DEF b, c
    <3> QED BY <2>2, <3>1, EmptySound
  <2>6. ASSUME NEW a \in 0..(Buckets - 1), a # b
        PROVE  ChainSound(a)'
    <3>1. chain'[a] = chain[a]
      BY <1>5, <1>9, <2>6
    <3> QED BY <1>6, <3>1
  <2> QED BY <1>3, <2>4, <2>5, <2>6 DEF FragInv
<1> QED BY <1>2, <1>7, <1>8, <1>9

LEMMA FragInvPurge ==
  ASSUME FragInv, NEW b \in DOMAIN chain, PurgeChain(b)
  PROVE  FragInv'
<1>1. /\ FragTyped /\ InFlight /\ \A a \in 0..(Buckets - 1) : ChainSound(a)
      /\ b \in 0..(Buckets - 1) /\ chain \in [0..(Buckets - 1) -> ChainSet]
  BY DEF FragInv, FragTyped
<1>2. /\ chain' = [chain EXCEPT ![b] = Cleared(chain[b])]
      /\ seen' = [seen EXCEPT ![b].whole = FALSE]
      /\ UNCHANGED <<sent, net, delivered, mangled, doubleFree>>
  BY DEF PurgeChain
<1>3. /\ Cleared(chain[b]) \in ChainSet /\ Cleared(chain[b]).frags = {}
      /\ Cleared(chain[b]).size = 0
  <2>1. chain[b] \in ChainSet
    BY <1>1
  <2> QED BY <2>1 DEF Cleared, ChainSet
<1>4. FragTyped'
  <2>1. seen' \in [0..(Buckets - 1) -> [pkt : 0..MaxPkts, nos : SUBSET Nat,
                                        whole : BOOLEAN]]
    BY <1>1, <1>2 DEF FragTyped
  <2>2. /\ sent' = sent /\ net' \subseteq net /\ mangled' = FALSE
        /\ delivered' \in [Packets -> Nat] /\ doubleFree' \in BOOLEAN
    BY <1>1, <1>2 DEF FragTyped
  <2> QED BY <1>1, <1>2, <1>3, <2>1, <2>2, TypedStays
<1>5. InFlight'
  BY <1>1, <1>2, InFlightStays
<1>6. ASSUME NEW a \in 0..(Buckets - 1)
      PROVE  ChainSound(a)'
  <2>1. CASE a = b
    <3>1. chain'[b] = Cleared(chain[b])
      BY <1>1, <1>2
    <3> QED BY <1>3, <2>1, <3>1, EmptySound
  <2>2. CASE a # b
    <3>1. chain'[a] = chain[a]
      BY <1>1, <1>2, <2>2
    <3>2. ChainSound(a)
      BY <1>1
    <3>3. \A g \in chain[a].frags : IsCut(g)' /\ g.pkt + SeqMod > Len(sent')
      BY <1>2, <3>2, CutUnchanged DEF ChainSound
    <3> QED BY <3>1, <3>2, <3>3, SoundStays
  <2> QED BY <2>1, <2>2
<1> QED BY <1>4, <1>5, <1>6 DEF FragInv

LEMMA NewChainTyped == NewChain \in ChainSet /\ NewChain.frags = {} /\ NewChain.size = 0
BY FragNumbers DEF NewChain, ChainSet

LEMMA FragInvPurgeOrig ==
  ASSUME FragInv, PurgeOrig
  PROVE  FragInv'
<1>1. FragTyped /\ chain \in [0..(Buckets - 1) -> ChainSet]
  BY DEF FragInv, FragTyped
<1>2. /\ chain' = [b \in 0..(Buckets - 1) |-> NewChain]
      /\ seen' = [b \in 0..(Buckets - 1) |-> Unseen] /\ net' = {}
      /\ UNCHANGED <<sent, delivered, mangled, doubleFree>>
  BY <1>1 DEF PurgeOrig
<1>3. FragTyped'
  <2>1. chain' \in [0..(Buckets - 1) -> ChainSet]
    BY <1>2, NewChainTyped
  <2>2. Unseen \in [pkt : 0..MaxPkts, nos : SUBSET Nat, whole : BOOLEAN]
    BY FragNumbers DEF Unseen
  <2> QED BY <1>1, <1>2, <2>1, <2>2 DEF FragTyped, FragmentSet, ChainSet, Packets
<1>4. InFlight'
  BY <1>2 DEF InFlight
<1>5. ASSUME NEW b \in 0..(Buckets - 1)
      PROVE  ChainSound(b)'
  <2>1. chain'[b] = NewChain
    BY <1>2
  <2> QED BY <2>1, NewChainTyped, EmptySound
<1> QED BY <1>3, <1>4, <1>5 DEF FragInv

LEMMA FragInvInit == FragInit => FragInv
<1> SUFFICES ASSUME FragInit PROVE FragInv
  OBVIOUS
<1>1. FragTyped
  <2>1. sent \in Seq([len : Lens, ok : BOOLEAN]) /\ Len(sent) <= MaxPkts
    BY FragNumbers DEF FragInit
  <2>2. chain \in [0..(Buckets - 1) -> ChainSet]
    BY NewChainTyped DEF FragInit
  <2>3. Unseen \in [pkt : 0..MaxPkts, nos : SUBSET Nat, whole : BOOLEAN]
    BY FragNumbers DEF Unseen
  <2> QED BY <2>1, <2>2, <2>3 DEF FragTyped, FragInit
<1>2. InFlight
  BY DEF FragInit, InFlight
<1>3. ASSUME NEW b \in 0..(Buckets - 1)
      PROVE  ChainSound(b)
  <2>1. chain[b] = NewChain
    BY DEF FragInit
  <2> QED BY <2>1, NewChainTyped, NoUnits DEF ChainSound
<1> QED BY <1>1, <1>2, <1>3 DEF FragInv

\* What is in flight and in the chains stays sound, for every window of late
\* fragments that is not longer than the sequence numbers: the buffers of the
\* receiver hold fragments of one packet each, counted right.
THEOREM FragInvHolds ==
  ASSUME FragWindow <= SeqMod
  PROVE  FragSpec => []FragInv
<1>1. FragInit => FragInv
  BY FragInvInit
<1>2. FragInv /\ [FragNext]_fragVars => FragInv'
  <2> SUFFICES ASSUME FragInv, [FragNext]_fragVars PROVE FragInv'
    OBVIOUS
  <2>1. CASE \E len \in Lens : SendPacket(len)
    BY <2>1, FragInvSend
  <2>2. CASE \E f \in net : RecvFragment(f)
    BY <2>2, FragInvRecv
  <2>3. CASE \E b \in DOMAIN chain : PurgeChain(b)
    BY <2>3, FragInvPurge
  <2>4. CASE PurgeOrig
    BY <2>4, FragInvPurgeOrig
  <2>5. CASE UNCHANGED fragVars
    BY <2>5 DEF fragVars, FragInv, FragTyped, InFlight, ChainSound, IsCut, Fragment,
                FragmentSet, ChainSet, Packets
  <2> QED BY <2>1, <2>2, <2>3, <2>4, <2>5 DEF FragNext
<1> QED BY <1>1, <1>2, PTL DEF FragSpec

-----------------------------------------------------------------------------
(* Delivered once *)

\* Two packets that may both have fragments under way do not share a bucket.
LEMMA OwnBucket ==
  ASSUME FragInv, FragWindow <= Buckets, NEW f \in net, NEW g \in net,
         Bucket(Seqno(g.pkt)) = Bucket(Seqno(f.pkt))
  PROVE  g.pkt = f.pkt
<1>1. FragTyped /\ IsCut(f) /\ IsCut(g)
  BY DEF FragInv, InFlight
<1> DEFINE a == f.pkt
           b == g.pkt
           n == Len(sent)
<1>2. a \in 1..n /\ b \in 1..n /\ a + FragWindow > n /\ b + FragWindow > n
      /\ a \in Nat /\ b \in Nat
  BY <1>1, CutFields DEF FragInv, InFlight
<1>3. n \in Nat
  BY <1>1 DEF FragTyped
<1> HIDE DEF a, b, n
<1>4. a < b + Buckets /\ b < a + Buckets
  BY <1>2, <1>3, FragNumbers
<1>5. Bucket(Seqno(b)) = Bucket(Seqno(a))
  BY DEF a, b
<1>6. b = a
  BY <1>2, <1>4, <1>5, SameBucket
<1> QED BY <1>6 DEF a, b

LEMMA HandedOverRecv ==
  ASSUME FragInv, HandedOver, FragWindow <= Buckets, NEW f \in net, RecvFragment(f)
  PROVE  HandedOver'
<1> DEFINE b == Bucket(f.seqno)
           old == chain[b]
           c == Inserted(old, f)
<1>0. FragWindow <= SeqMod
  BY WindowFits
<1>1. /\ b \in 0..(Buckets - 1) /\ sent' = sent /\ net' \subseteq net
      /\ \/ /\ ~Placed(old, f) /\ chain' = chain
            /\ UNCHANGED <<mangled, delivered, doubleFree>>
         \/ /\ Placed(old, f) /\ ~Complete(c, f)
            /\ chain' = [chain EXCEPT ![b] = c]
            /\ UNCHANGED <<mangled, delivered, doubleFree>>
         \/ /\ Placed(old, f) /\ Complete(c, f)
            /\ chain' = [chain EXCEPT ![b] = Cleared(c)]
            /\ Merge(c, f)
  BY <1>0, Received
<1>2. /\ chain \in [0..(Buckets - 1) -> ChainSet] /\ f.pkt \in Packets
      /\ delivered \in [Packets -> Nat] /\ f.seqno = Seqno(f.pkt)
      /\ f.pkt \in 1..Len(sent) /\ Len(sent) \in Nat
  <2>1. FragTyped /\ IsCut(f)
    BY DEF FragInv, InFlight
  <2>2. f.pkt \in Packets /\ f.seqno = Seqno(f.pkt) /\ f.pkt \in 1..Len(sent)
    BY <2>1, CutFields
  <2>3. /\ chain \in [0..(Buckets - 1) -> ChainSet] /\ Len(sent) \in Nat
        /\ delivered \in [Packets -> Nat]
    BY <2>1 DEF FragTyped
  <2> QED BY <2>2, <2>3
<1>3. ASSUME NEW k \in Packets, delivered[k] > 0, NEW g \in net, g.pkt = k,
             Bucket(Seqno(k)) = b
      PROVE  ~Placed(old, f)
  <2>1. k = f.pkt
    BY <1>2, <1>3, OwnBucket
  <2>2. chain[Bucket(Seqno(k))].seqno = Seqno(k) /\ chain[Bucket(Seqno(k))].frags = {}
    BY <1>3 DEF HandedOver
  <2> QED BY <1>2, <1>3, <2>1, <2>2 DEF Placed
<1>4. CASE ~Placed(old, f) /\ chain' = chain /\ UNCHANGED <<mangled, delivered, doubleFree>>
  <2> SUFFICES ASSUME NEW k \in Packets
               PROVE  /\ delivered'[k] <= 1
                      /\ delivered'[k] > 0 =>
                           /\ k <= Len(sent')
                           /\ \A g \in net' : g.pkt = k =>
                                /\ chain'[Bucket(Seqno(k))].seqno = Seqno(k)
                                /\ chain'[Bucket(Seqno(k))].frags = {}
    BY DEF HandedOver, Packets, Bucket, Seqno
  <2> QED BY <1>1, <1>4 DEF HandedOver
<1>5. CASE Placed(old, f) /\ ~Complete(c, f) /\ chain' = [chain EXCEPT ![b] = c]
           /\ UNCHANGED <<mangled, delivered, doubleFree>>
  <2> SUFFICES ASSUME NEW k \in Packets
               PROVE  /\ delivered'[k] <= 1
                      /\ delivered'[k] > 0 =>
                           /\ k <= Len(sent')
                           /\ \A g \in net' : g.pkt = k =>
                                /\ chain'[Bucket(Seqno(k))].seqno = Seqno(k)
                                /\ chain'[Bucket(Seqno(k))].frags = {}
    BY DEF HandedOver, Packets, Bucket, Seqno
  <2>1. delivered'[k] = delivered[k] /\ delivered[k] <= 1
        /\ (delivered[k] > 0 => k <= Len(sent'))
    BY <1>1, <1>5 DEF HandedOver
  <2>2. ASSUME delivered[k] > 0, NEW g \in net', g.pkt = k
        PROVE  /\ chain'[Bucket(Seqno(k))].seqno = Seqno(k)
               /\ chain'[Bucket(Seqno(k))].frags = {}
    <3>1. g \in net
      BY <1>1
    <3>2. Bucket(Seqno(k)) # b
      BY <1>3, <1>5, <2>2, <3>1
    <3>3. chain'[Bucket(Seqno(k))] = chain[Bucket(Seqno(k))]
      <4>1. k \in Nat
        BY FragNumbers DEF Packets
      <4>2. Seqno(k) \in Nat
        BY <4>1, SeqnoRange, FragNumbers
      <4>3. Bucket(Seqno(k)) \in 0..(Buckets - 1)
        BY <4>2, BucketRange
      <4> QED BY <1>2, <1>5, <3>2, <4>3
    <3> QED BY <2>2, <3>1, <3>3 DEF HandedOver
  <2> QED BY <2>1, <2>2
<1>6. CASE Placed(old, f) /\ Complete(c, f)
           /\ chain' = [chain EXCEPT ![b] = Cleared(c)] /\ Merge(c, f)
  <2> SUFFICES ASSUME NEW k \in Packets
               PROVE  /\ delivered'[k] <= 1
                      /\ delivered'[k] > 0 =>
                           /\ k <= Len(sent')
                           /\ \A g \in net' : g.pkt = k =>
                                /\ chain'[Bucket(Seqno(k))].seqno = Seqno(k)
                                /\ chain'[Bucket(Seqno(k))].frags = {}
    BY DEF HandedOver, Packets, Bucket, Seqno
  <2>1. delivered[f.pkt] = 0
    <3>1. ~(delivered[f.pkt] > 0)
      BY <1>2, <1>3, <1>6
    <3> QED BY <1>2, <3>1
  <2>2. chain'[b].seqno = f.seqno /\ chain'[b].frags = {}
    <3>1. c \in ChainSet /\ c.seqno = f.seqno
      BY <1>0, <1>1, <1>6, Taken
    <3>2. chain'[b] = Cleared(c)
      BY <1>1, <1>2, <1>6
    <3> HIDE DEF b, c
    <3> QED BY <3>1, <3>2 DEF Cleared, ChainSet
  <2>3. \/ delivered' = [delivered EXCEPT ![f.pkt] = @ + 1]
        \/ delivered' = delivered
    BY <1>6 DEF Merge
  <2>4. CASE k = f.pkt
    <3>1. delivered'[k] <= 1
      BY <1>2, <2>1, <2>3, <2>4
    <3>2. k <= Len(sent')
      BY <1>1, <1>2, <2>4
    <3> QED BY <1>2, <2>2, <2>4, <3>1, <3>2
  <2>5. CASE k # f.pkt
    <3>1. delivered'[k] = delivered[k] /\ delivered[k] <= 1
          /\ (delivered[k] > 0 => k <= Len(sent'))
      BY <1>1, <1>2, <2>3, <2>5 DEF HandedOver
    <3>2. ASSUME delivered[k] > 0, NEW g \in net', g.pkt = k
          PROVE  /\ chain'[Bucket(Seqno(k))].seqno = Seqno(k)
                 /\ chain'[Bucket(Seqno(k))].frags = {}
      <4>1. g \in net
        BY <1>1
      <4>2. Bucket(Seqno(k)) # b
        BY <1>3, <1>6, <3>2, <4>1
      <4>3. chain'[Bucket(Seqno(k))] = chain[Bucket(Seqno(k))]
        <5>1. k \in Nat
          BY FragNumbers DEF Packets
        <5>2. Seqno(k) \in Nat
          BY <5>1, SeqnoRange, FragNumbers
        <5>3. Bucket(Seqno(k)) \in 0..(Buckets - 1)
          BY <5>2, BucketRange
        <5> QED BY <1>2, <1>6, <4>2, <5>3
      <4> QED BY <3>2, <4>1, <4>3 DEF HandedOver
    <3> QED BY <3>1, <3>2
  <2> QED BY <2>4, <2>5
<1> QED BY <1>1, <1>4, <1>5, <1>6

LEMMA HandedOverSend ==
  ASSUME FragInv, HandedOver, NEW len \in Lens, SendPacket(len)
  PROVE  HandedOver'
<1> DEFINE k == Len(sent) + 1
<1>1. /\ k \in Nat /\ Len(sent') = k /\ Len(sent) \in Nat
  <2>1. FragTyped
    BY DEF FragInv
  <2>2. Len(sent) \in Nat
    BY <2>1 DEF FragTyped
  <2> QED BY <2>1, <2>2, SentGrows
<1>2. UNCHANGED <<chain, delivered>>
  BY DEF SendPacket
<1>3. ASSUME NEW g \in net', g \notin net
      PROVE  g.pkt = k
  <2>1. \E no : g = Fragment(k, len, no)
    BY <1>3 DEF SendPacket
  <2> QED BY <2>1, FragmentFields
<1> SUFFICES ASSUME NEW j \in Packets
             PROVE  /\ delivered'[j] <= 1
                    /\ delivered'[j] > 0 =>
                         /\ j <= Len(sent')
                         /\ \A g \in net' : g.pkt = j =>
                              /\ chain'[Bucket(Seqno(j))].seqno = Seqno(j)
                              /\ chain'[Bucket(Seqno(j))].frags = {}
  BY DEF HandedOver, Packets, Bucket, Seqno
<1>4. j \in Int
  BY DEF Packets
<1>5. delivered[j] <= 1 /\ (delivered[j] > 0 => j <= Len(sent) /\ j < k)
  <2> HIDE DEF k
  <2>1. k = Len(sent) + 1
    BY DEF k
  <2> QED BY <1>1, <1>4, <2>1 DEF HandedOver
<1>6. ASSUME delivered[j] > 0, NEW g \in net', g.pkt = j
      PROVE  g \in net
  <2>1. j # k
    <3> HIDE DEF k
    <3> QED BY <1>1, <1>4, <1>5, <1>6
  <2> QED BY <1>3, <1>6, <2>1
<1>7. delivered[j] > 0 => j <= Len(sent')
  <2> HIDE DEF k
  <2> QED BY <1>1, <1>4, <1>5
<1> QED BY <1>2, <1>5, <1>6, <1>7 DEF HandedOver

LEMMA HandedOverKept ==
  ASSUME FragInv, HandedOver, sent' = sent, delivered' = delivered, net' \subseteq net,
         \A a \in 0..(Buckets - 1) :
           \/ net' = {}
           \/ chain'[a].seqno = chain[a].seqno
              /\ (chain[a].frags = {} => chain'[a].frags = {})
  PROVE  HandedOver'
<1> SUFFICES ASSUME NEW j \in Packets
             PROVE  /\ delivered'[j] <= 1
                    /\ delivered'[j] > 0 =>
                         /\ j <= Len(sent')
                         /\ \A g \in net' : g.pkt = j =>
                              /\ chain'[Bucket(Seqno(j))].seqno = Seqno(j)
                              /\ chain'[Bucket(Seqno(j))].frags = {}
  BY DEF HandedOver, Packets, Bucket, Seqno
<1>1. Bucket(Seqno(j)) \in 0..(Buckets - 1)
  <2>1. j \in Nat
    BY FragNumbers DEF Packets
  <2>2. Seqno(j) \in Nat
    BY <2>1, SeqnoRange, FragNumbers
  <2> QED BY <2>2, BucketRange
<1> QED BY <1>1 DEF HandedOver

LEMMA HandedOverNext ==
  ASSUME FragInv, HandedOver, FragWindow <= Buckets, [FragNext]_fragVars
  PROVE  HandedOver'
<1>1. CASE \E len \in Lens : SendPacket(len)
  BY <1>1, HandedOverSend
<1>2. CASE \E f \in net : RecvFragment(f)
  BY <1>2, HandedOverRecv
<1>3. ASSUME NEW b \in DOMAIN chain, PurgeChain(b)
      PROVE  HandedOver'
  <2>1. chain \in [0..(Buckets - 1) -> ChainSet] /\ b \in 0..(Buckets - 1)
    BY DEF FragInv, FragTyped
  <2>2. chain' = [chain EXCEPT ![b] = Cleared(chain[b])]
        /\ UNCHANGED <<sent, net, delivered>>
    BY <1>3 DEF PurgeChain
  <2>3. Cleared(chain[b]).seqno = chain[b].seqno /\ Cleared(chain[b]).frags = {}
    <3>1. chain[b] \in ChainSet
      BY <2>1
    <3> QED BY <3>1 DEF Cleared, ChainSet
  <2>4. ASSUME NEW a \in 0..(Buckets - 1)
        PROVE  /\ chain'[a].seqno = chain[a].seqno
               /\ chain[a].frags = {} => chain'[a].frags = {}
    <3>1. chain'[a] = IF a = b THEN Cleared(chain[b]) ELSE chain[a]
      BY <2>1, <2>2
    <3> QED BY <2>3, <3>1
  <2> QED BY <2>2, <2>4, HandedOverKept
<1>4. CASE PurgeOrig
  <2>1. net' = {} /\ UNCHANGED <<sent, delivered>>
    BY <1>4 DEF PurgeOrig
  <2> QED BY <2>1, HandedOverKept
<1>5. CASE UNCHANGED fragVars
  BY <1>5, HandedOverKept DEF fragVars
<1> QED BY <1>1, <1>2, <1>3, <1>4, <1>5 DEF FragNext

\* The fragments of a chain belong to one packet, so the size of the chain is
\* within what the sender sends.
LEMMA ChainOfOne ==
  ASSUME FragInv, NEW b \in 0..(Buckets - 1)
  PROVE  /\ chain[b].size \in 0..SizeLimit
         /\ \A f, g \in chain[b].frags : f.pkt = g.pkt /\ (f.no = g.no => f = g)
<1> DEFINE F == chain[b].frags
<1>1. FragTyped /\ ChainSound(b)
  BY DEF FragInv
<1>2. \A f \in F : IsCut(f) /\ f.pkt + SeqMod > Len(sent) /\ f.seqno = chain[b].seqno
  BY <1>1 DEF ChainSound
<1>3. chain[b].size = Cardinality(Units(F))
  BY <1>1 DEF ChainSound
<1>4. ASSUME NEW f \in F, NEW g \in F
      PROVE  /\ f.pkt = g.pkt /\ (f.no = g.no => f = g)
             /\ g = Fragment(f.pkt, sent[f.pkt].len, g.no)
             /\ g.no \in 0..(NumFragments(sent[f.pkt].len) - 1)
  <2>1. f.pkt = g.pkt
    BY <1>1, <1>2, OnePacket
  <2>2. /\ f = Fragment(f.pkt, sent[f.pkt].len, f.no)
        /\ g = Fragment(g.pkt, sent[g.pkt].len, g.no)
        /\ g.no \in 0..(NumFragments(sent[g.pkt].len) - 1)
    BY <1>1, <1>2, CutFields
  <2> QED BY <2>1, <2>2
<1>5. chain[b].size \in 0..SizeLimit
  <2>0. SizeLimit \in Nat
    BY FragNumbers, SMT DEF SizeLimit
  <2>1. CASE F = {}
    <3>1. chain[b].size = 0
      <4> DEFINE z == chain[b].size
      <4>1. z = Cardinality(Units(F))
        BY <1>3
      <4> HIDE DEF F, z
      <4>2. z = 0
        BY <2>1, <4>1, NoUnits
      <4> QED BY <4>2 DEF z
    <3> QED BY <2>0, <3>1
  <2>2. CASE F # {}
    <3>1. PICK f \in F : TRUE
      BY <2>2
    <3> DEFINE k == f.pkt
               len == sent[k].len
    <3>2. len \in Lens /\ len <= SizeLimit /\ len \in Nat
      BY <1>1, <1>2, <3>1, CutFields
    <3>3. Of(F, k, len)
      BY <1>4, <3>1 DEF Of
    <3>4. Cardinality(Units(F)) \in 0..len
      <4> HIDE DEF F, k, len
      <4> QED BY <3>2, <3>3, UnitsOfPacket
    <3> DEFINE z == chain[b].size
    <3>5. z \in 0..len
      BY <1>3, <3>4
    <3> HIDE DEF z, len
    <3>6. z \in 0..SizeLimit
      BY <2>0, <3>2, <3>5
    <3> QED BY <3>6 DEF z
  <2> QED BY <2>1, <2>2
<1> QED BY <1>4, <1>5

\* Every variable keeps its type, the size kept with a chain is the sum of its
\* fragments, nothing is merged but packets as they were sent, and none twice:
\* if fragments come late by no more packets than there are buckets.  Frames
\* that are older still can be merged a second time.
THEOREM FragDelivers ==
  ASSUME FragWindow <= Buckets
  PROVE  FragSpec => []FragDeliversAsSent
<1>0. FragWindow <= SeqMod
  BY WindowFits
<1>1. FragInit => HandedOver
  BY DEF FragInit, HandedOver
<1>2. FragInv /\ HandedOver /\ [FragNext]_fragVars => HandedOver'
  BY HandedOverNext
<1>3. FragSpec => []FragInv
  BY <1>0, FragInvHolds
<1>4. FragInv /\ HandedOver => FragDeliversAsSent
  <2> SUFFICES ASSUME FragInv, HandedOver PROVE FragDeliversAsSent
    OBVIOUS
  <2>1. FragTyped /\ DOMAIN chain = 0..(Buckets - 1)
    BY DEF FragInv, FragTyped
  <2>2. SizeIsSum
    <3> SUFFICES ASSUME NEW b \in 0..(Buckets - 1)
                 PROVE  /\ chain[b].size = Cardinality(Units(chain[b].frags))
                        /\ \A f, g \in chain[b].frags :
                             f.pkt = g.pkt /\ (f.no = g.no => f = g)
      BY <2>1 DEF SizeIsSum
    <3>1. ChainSound(b)
      BY DEF FragInv
    <3> QED BY <3>1, ChainOfOne DEF ChainSound
  <2>3. MergedIsSent /\ DeliveredOnce
    BY <2>1 DEF FragTyped, MergedIsSent, DeliveredOnce, HandedOver
  <2>4. FragTypeOK
    <3>1. \A k \in DOMAIN sent : sent[k] \in [len : Lens, ok : BOOLEAN]
      <4> DEFINE R == [len : Lens, ok : BOOLEAN]
      <4>1. sent \in Seq(R)
        BY <2>1 DEF FragTyped
      <4> HIDE DEF R
      <4>2. \A k \in DOMAIN sent : sent[k] \in R
        BY <4>1
      <4> QED BY <4>2 DEF R
    <3>2. \A f \in net : IsFragment(f)
      BY <2>1 DEF FragTyped, FragmentSet, IsFragment
    <3>3. ASSUME NEW b \in 0..(Buckets - 1)
          PROVE  /\ chain[b].seqno \in 0..(SeqMod - 1)
                 /\ chain[b].size \in 0..SizeLimit /\ chain[b].total \in Lens \cup {0}
                 /\ \A f \in chain[b].frags : IsFragment(f)
                 /\ seen[b].pkt \in 0..MaxPkts
      <4>1. chain[b] \in ChainSet
        BY <2>1 DEF FragTyped
      <4>2. /\ chain[b].seqno \in 0..(SeqMod - 1) /\ chain[b].total \in Lens \cup {0}
            /\ chain[b].frags \subseteq FragmentSet
        BY <4>1 DEF ChainSet
      <4>3. \A f \in chain[b].frags : IsFragment(f)
        BY <4>2 DEF FragmentSet, IsFragment
      <4>4. seen[b].pkt \in 0..MaxPkts
        BY <2>1 DEF FragTyped
      <4> QED BY <4>2, <4>3, <4>4, ChainOfOne
    <3>4. delivered \in [Packets -> Nat] /\ mangled \in BOOLEAN /\ doubleFree \in BOOLEAN
      BY <2>1 DEF FragTyped
    <3> QED BY <3>1, <3>2, <3>3, <3>4 DEF FragTypeOK
  <2> QED BY <2>2, <2>3, <2>4 DEF FragDeliversAsSent
<1> QED BY <1>1, <1>2, <1>3, <1>4, PTL DEF FragSpec

-----------------------------------------------------------------------------
(* What arrived whole is delivered *)

\* Collected after a step, with names for what the bucket stands for.
Gathers(b, k, len, nos) ==
  seen'[b].whole =>
    /\ seen'[b].pkt = k /\ seen'[b].nos = nos /\ sent'[k].len = len
    /\ k \in 1..Len(sent') /\ nos # {} /\ nos \subseteq 0..(NumFragments(len) - 1)
    /\ \/ delivered'[k] > 0
       \/ /\ chain'[b].seqno = Seqno(k) /\ chain'[b].total = len
          /\ chain'[b].frags = {Fragment(k, len, no) : no \in nos}

LEMMA CollectedThen ==
  ASSUME NEW b, NEW k, NEW len, NEW nos, Gathers(b, k, len, nos)
  PROVE  Collected(b)'
<1> SUFFICES ASSUME seen'[b].whole
             PROVE  LET s == seen'[b] IN
                    /\ s.pkt \in 1..Len(sent') /\ s.nos # {}
                    /\ s.nos \subseteq 0..(NumFragments(sent'[s.pkt].len) - 1)
                    /\ \/ delivered'[s.pkt] > 0
                       \/ /\ chain'[b].seqno = Seqno(s.pkt)
                          /\ chain'[b].total = sent'[s.pkt].len
                          /\ chain'[b].frags =
                               {Fragment(s.pkt, sent'[s.pkt].len, no) : no \in s.nos}
  BY DEF Collected, Fragment, Seqno, NumFragments
<1> QED BY DEF Gathers

LEMMA CollectedRecv ==
  ASSUME FragInv, AllCollected, ~AllocFails, FragWindow <= SeqMod,
         NEW f \in net, RecvFragment(f)
  PROVE  AllCollected'
<1> DEFINE b == Bucket(f.seqno)
           old == chain[b]
           c == Inserted(old, f)
           k == f.pkt
           len == sent[k].len
           n == NumFragments(len)
           s == seen[b]
           t == Seen(s, old, f)
<1>1. /\ b \in 0..(Buckets - 1) /\ sent' = sent
      /\ seen' = [seen EXCEPT ![b] = t]
      /\ \/ /\ ~Placed(old, f) /\ chain' = chain
            /\ UNCHANGED <<mangled, delivered, doubleFree>>
         \/ /\ Placed(old, f) /\ ~Complete(c, f)
            /\ chain' = [chain EXCEPT ![b] = c]
            /\ UNCHANGED <<mangled, delivered, doubleFree>>
         \/ /\ Placed(old, f) /\ Complete(c, f)
            /\ chain' = [chain EXCEPT ![b] = Cleared(c)]
            /\ Merge(c, f)
  BY Received
<1>2. /\ FragTyped /\ IsCut(f)
      /\ chain \in [0..(Buckets - 1) -> ChainSet]
      /\ seen \in [0..(Buckets - 1) -> [pkt : 0..MaxPkts, nos : SUBSET Nat,
                                        whole : BOOLEAN]]
      /\ delivered \in [Packets -> Nat]
  BY DEF FragInv, InFlight, FragTyped
<1>3. /\ k \in 1..Len(sent) /\ k \in Packets /\ f.no \in 0..(n - 1) /\ len \in Lens
      /\ f = Fragment(k, len, f.no) /\ f.seqno = Seqno(k) /\ f.total = len
  BY <1>2, CutFields
<1>4. \A j \in Packets : delivered[j] > 0 => delivered'[j] > 0
  <2>1. \/ delivered' = delivered
        \/ delivered' = [delivered EXCEPT ![k] = @ + 1]
    BY <1>1 DEF Merge
  <2> QED BY <1>2, <1>3, <2>1
<1>5. ASSUME Placed(old, f), Complete(c, f)
      PROVE  delivered'[k] > 0
  <2>1. delivered' = [delivered EXCEPT ![k] = @ + 1]
    BY <1>1, <1>5 DEF Merge
  <2> QED BY <1>2, <1>3, <2>1
<1>6. ASSUME Placed(old, f), ~Complete(c, f)
      PROVE  /\ chain'[b].seqno = Seqno(k) /\ chain'[b].total = len
             /\ chain'[b].frags = (IF old.seqno = f.seqno THEN old.frags ELSE {}) \cup {f}
  <2>1. c.seqno = f.seqno /\ c.total = len
        /\ c.frags = (IF old.seqno = f.seqno THEN old.frags ELSE {}) \cup {f}
    BY <1>1, <1>6, Taken
  <2>2. chain'[b] = c
    BY <1>1, <1>2, <1>6
  <2> HIDE DEF b, c
  <2> QED BY <1>3, <2>1, <2>2
<1>7. ASSUME NEW a \in 0..(Buckets - 1), a # b
      PROVE  Collected(a)'
  <2>1. seen'[a] = seen[a] /\ chain'[a] = chain[a]
    BY <1>1, <1>2, <1>7
  <2>2. Collected(a)
    BY DEF AllCollected
  <2>3. seen[a].whole => seen[a].pkt \in Packets
    <3> DEFINE p == seen[a].pkt
    <3>1. seen[a].whole => p \in 1..Len(sent)
      BY <2>2 DEF Collected
    <3>2. Len(sent) \in Nat /\ Len(sent) <= MaxPkts
      BY <1>2 DEF FragTyped
    <3> DEFINE m == Len(sent)
    <3> HIDE DEF p, m
    <3>3. p \in 1..m => p \in Packets
      BY <3>2, FragNumbers DEF Packets, m
    <3> QED BY <3>1, <3>3 DEF p, m
  <2> DEFINE p == seen[a].pkt
             l == sent[p].len
             ns == seen[a].nos
  <2>4. seen[a].whole =>
           /\ p \in 1..Len(sent) /\ ns # {} /\ ns \subseteq 0..(NumFragments(l) - 1)
           /\ \/ delivered[p] > 0
              \/ /\ chain[a].seqno = Seqno(p) /\ chain[a].total = l
                 /\ chain[a].frags = {Fragment(p, l, no) : no \in ns}
    BY <2>2 DEF Collected
  <2>5. Gathers(a, p, l, ns)
    BY <1>1, <1>4, <2>1, <2>3, <2>4 DEF Gathers
  <2> HIDE DEF p, l, ns
  <2> QED BY <2>5, CollectedThen
<1>8. seen'[b] = t
  BY <1>1, <1>2
<1>9. ASSUME t.whole
      PROVE  /\ t.pkt = k /\ t.nos # {} /\ t.nos \subseteq 0..(n - 1)
             /\ \/ delivered'[k] > 0
                \/ /\ chain'[b].seqno = Seqno(k) /\ chain'[b].total = len
                   /\ chain'[b].frags = {Fragment(k, len, no) : no \in t.nos}
  <2>1. CASE s.pkt = k
    <3>1. s \in [pkt : 0..MaxPkts, nos : SUBSET Nat, whole : BOOLEAN]
      BY <1>1, <1>2
    <3>2. t.pkt = k /\ t.nos = s.nos \cup {f.no} /\ s.whole
      <4> HIDE DEF s, old
      <4> QED BY <1>9, <2>1, <3>1 DEF Seen
    <3>3. /\ s.nos # {} /\ s.nos \subseteq 0..(n - 1)
          /\ \/ delivered[k] > 0
             \/ /\ old.seqno = Seqno(k) /\ old.total = len
                /\ old.frags = {Fragment(k, len, no) : no \in s.nos}
      <4>1. Collected(b)
        BY <1>1 DEF AllCollected
      <4> QED BY <2>1, <3>2, <4>1 DEF Collected
    <3>4. t.nos # {} /\ t.nos \subseteq 0..(n - 1)
      BY <1>3, <3>2, <3>3
    <3>5. CASE delivered[k] > 0
      BY <1>3, <1>4, <3>2, <3>4, <3>5
    <3>6. CASE old.seqno = Seqno(k) /\ old.total = len
               /\ old.frags = {Fragment(k, len, no) : no \in s.nos}
      <4>1. CASE Placed(old, f)
        <5>1. old.frags \cup {f} = {Fragment(k, len, no) : no \in t.nos}
          BY <1>3, <3>2, <3>6
        <5> QED BY <1>3, <1>5, <1>6, <3>2, <3>4, <3>6, <4>1, <5>1
      <4>2. CASE ~Placed(old, f)
        <5>1. f.no \in s.nos
          <6>1. PICK g \in old.frags : g.no = f.no
            <7>1. old.frags # {}
              BY <3>3, <3>6
            <7> QED BY <1>3, <3>6, <4>2, <7>1 DEF Placed
          <6>2. PICK no \in s.nos : g = Fragment(k, len, no)
            BY <3>6
          <6> QED BY <6>1, <6>2, FragmentFields
        <5>2. t.nos = s.nos /\ chain' = chain
          BY <1>1, <3>2, <4>2, <5>1
        <5> QED BY <3>2, <3>4, <3>6, <5>2
      <4> QED BY <4>1, <4>2
    <3> QED BY <3>3, <3>5, <3>6
  <2>2. CASE s.pkt # k
    <3>1. t.pkt = k /\ t.nos = {f.no} /\ old.seqno # f.seqno
      <4>1. t = [pkt |-> f.pkt, nos |-> {f.no}, whole |-> old.seqno # f.seqno]
        BY <2>2 DEF Seen
      <4> HIDE DEF t
      <4> QED BY <1>9, <4>1
    <3>2. Placed(old, f)
      BY <3>1 DEF Placed
    <3>3. {Fragment(k, len, no) : no \in t.nos} = {f}
      BY <1>3, <3>1
    <3>4. t.nos # {} /\ t.nos \subseteq 0..(n - 1)
      BY <1>3, <3>1
    <3> QED BY <1>5, <1>6, <3>1, <3>2, <3>3, <3>4
  <2> QED BY <2>1, <2>2
<1>10. Collected(b)'
  <2> DEFINE ns == t.nos
  <2> HIDE DEF t
  <2>1. Gathers(b, k, len, ns)
    BY <1>1, <1>3, <1>8, <1>9 DEF Gathers
  <2> HIDE DEF k, len, ns, b
  <2> QED BY <2>1, CollectedThen
<1> QED BY <1>7, <1>10 DEF AllCollected

LEMMA CollectedSend ==
  ASSUME FragInv, AllCollected, NEW len \in Lens, SendPacket(len)
  PROVE  AllCollected'
<1> SUFFICES ASSUME NEW b \in 0..(Buckets - 1)
             PROVE  Collected(b)'
  BY DEF AllCollected
<1>1. /\ \A j \in 1..Len(sent) : sent'[j] = sent[j] /\ j \in 1..Len(sent')
      /\ UNCHANGED <<chain, delivered, seen>>
  <2>1. FragTyped
    BY DEF FragInv
  <2> QED BY <2>1, SentGrows DEF SendPacket
<1> DEFINE p == seen[b].pkt
           l == sent[p].len
           ns == seen[b].nos
<1>2. seen[b].whole =>
         /\ p \in 1..Len(sent) /\ ns # {} /\ ns \subseteq 0..(NumFragments(l) - 1)
         /\ \/ delivered[p] > 0
            \/ /\ chain[b].seqno = Seqno(p) /\ chain[b].total = l
               /\ chain[b].frags = {Fragment(p, l, no) : no \in ns}
  BY DEF AllCollected, Collected
<1>3. Gathers(b, p, l, ns)
  BY <1>1, <1>2 DEF Gathers
<1> HIDE DEF p, l, ns
<1> QED BY <1>3, CollectedThen

LEMMA CollectedKept ==
  ASSUME FragInv, AllCollected, UNCHANGED <<sent, delivered>>,
         \A b \in 0..(Buckets - 1) :
           \/ ~seen'[b].whole
           \/ seen'[b] = seen[b] /\ chain'[b] = chain[b]
  PROVE  AllCollected'
<1> SUFFICES ASSUME NEW b \in 0..(Buckets - 1)
             PROVE  Collected(b)'
  BY DEF AllCollected
<1>1. CASE ~seen'[b].whole
  BY <1>1 DEF Collected
<1>2. CASE seen'[b] = seen[b] /\ chain'[b] = chain[b]
  <2> DEFINE p == seen[b].pkt
             l == sent[p].len
             ns == seen[b].nos
  <2>1. seen[b].whole =>
           /\ p \in 1..Len(sent) /\ ns # {} /\ ns \subseteq 0..(NumFragments(l) - 1)
           /\ \/ delivered[p] > 0
              \/ /\ chain[b].seqno = Seqno(p) /\ chain[b].total = l
                 /\ chain[b].frags = {Fragment(p, l, no) : no \in ns}
    BY DEF AllCollected, Collected
  <2>2. Gathers(b, p, l, ns)
    BY <1>2, <2>1 DEF Gathers
  <2> HIDE DEF p, l, ns
  <2> QED BY <2>2, CollectedThen
<1> QED BY <1>1, <1>2

LEMMA CollectedNext ==
  ASSUME FragInv, AllCollected, ~AllocFails, FragWindow <= SeqMod, [FragNext]_fragVars
  PROVE  AllCollected'
<1>0. /\ DOMAIN chain = 0..(Buckets - 1)
      /\ chain \in [0..(Buckets - 1) -> ChainSet]
      /\ seen \in [0..(Buckets - 1) -> [pkt : 0..MaxPkts, nos : SUBSET Nat,
                                        whole : BOOLEAN]]
  BY DEF FragInv, FragTyped
<1>1. CASE \E len \in Lens : SendPacket(len)
  BY <1>1, CollectedSend
<1>2. CASE \E f \in net : RecvFragment(f)
  BY <1>2, CollectedRecv
<1>3. ASSUME NEW b \in DOMAIN chain, PurgeChain(b)
      PROVE  AllCollected'
  <2>1. /\ chain' = [chain EXCEPT ![b] = Cleared(chain[b])]
        /\ seen' = [seen EXCEPT ![b].whole = FALSE]
        /\ UNCHANGED <<sent, delivered>>
    BY <1>3 DEF PurgeChain
  <2>2. ASSUME NEW a \in 0..(Buckets - 1)
        PROVE  ~seen'[a].whole \/ (seen'[a] = seen[a] /\ chain'[a] = chain[a])
    <3>1. CASE a = b
      <4>1. seen'[b] = [seen[b] EXCEPT !.whole = FALSE]
        BY <1>0, <2>1
      <4>2. seen[b] \in [pkt : 0..MaxPkts, nos : SUBSET Nat, whole : BOOLEAN]
        BY <1>0
      <4> QED BY <3>1, <4>1, <4>2
    <3>2. CASE a # b
      BY <1>0, <2>1, <3>2
    <3> QED BY <3>1, <3>2
  <2> QED BY <2>1, <2>2, CollectedKept
<1>4. CASE PurgeOrig
  <2>1. /\ seen' = [b \in 0..(Buckets - 1) |-> Unseen]
        /\ UNCHANGED <<sent, delivered>>
    BY <1>0, <1>4 DEF PurgeOrig
  <2>2. \A a \in 0..(Buckets - 1) : ~seen'[a].whole
    BY <2>1 DEF Unseen
  <2> QED BY <2>1, <2>2, CollectedKept
<1>5. CASE UNCHANGED fragVars
  BY <1>5, CollectedKept DEF fragVars
<1> QED BY <1>1, <1>2, <1>3, <1>4, <1>5 DEF FragNext

\* A packet of which every fragment arrived while its bucket was its own was
\* delivered, if memory can be had: the sizes add up to the total exactly when
\* the last fragment is in, in whatever order they came.
THEOREM WholeIsDelivered ==
  ASSUME FragWindow <= SeqMod, ~AllocFails
  PROVE  FragSpec => []CompleteIsDelivered
<1>1. FragInit => AllCollected
  <2> SUFFICES ASSUME FragInit, NEW b \in 0..(Buckets - 1) PROVE Collected(b)
    BY DEF AllCollected
  <2>1. seen[b] = Unseen
    BY DEF FragInit
  <2> QED BY <2>1 DEF Collected, Unseen
<1>2. FragInv /\ AllCollected /\ [FragNext]_fragVars => AllCollected'
  BY CollectedNext
<1>3. FragSpec => []FragInv
  BY FragInvHolds
<1>4. FragInv /\ AllCollected => CompleteIsDelivered
  <2> SUFFICES ASSUME FragInv, AllCollected, NEW b \in 0..(Buckets - 1), seen[b].pkt > 0,
                      seen[b].whole,
                      seen[b].nos = 0..(NumFragments(sent[seen[b].pkt].len) - 1)
               PROVE  delivered[seen[b].pkt] > 0
    <3>1. FragInv => DOMAIN seen = 0..(Buckets - 1)
      BY DEF FragInv, FragTyped
    <3> QED BY <3>1 DEF CompleteIsDelivered
  <2> DEFINE k == seen[b].pkt
             len == sent[k].len
             F == chain[b].frags
  <2>1. ASSUME ~(delivered[k] > 0)
        PROVE  F = All(k, len) /\ chain[b].total = len /\ seen[b].nos # {}
               /\ k \in 1..Len(sent)
    <3>1. Collected(b)
      BY DEF AllCollected
    <3> QED BY <2>1, <3>1 DEF Collected, All
  <2>2. ChainSound(b) /\ FragTyped
    BY DEF FragInv
  <2>3. ASSUME ~(delivered[k] > 0)
        PROVE  FALSE
    <3>1. F = All(k, len) /\ chain[b].total = len /\ F # {}
      <4>1. F = All(k, len) /\ chain[b].total = len /\ seen[b].nos # {}
        BY <2>1, <2>3
      <4>2. F = {Fragment(k, len, no) : no \in seen[b].nos}
        BY <4>1 DEF All
      <4> QED BY <4>1, <4>2
    <3>2. len \in Lens
      <4>1. PICK f \in F : TRUE
        BY <3>1
      <4>2. \E no : f = Fragment(k, len, no)
        BY <3>1, <4>1 DEF All
      <4>3. f.pkt = k /\ IsCut(f)
        BY <2>2, <4>1, <4>2, FragmentFields DEF ChainSound
      <4> QED BY <2>2, <4>3, CutFields
    <3>3. chain[b].size = Cardinality(Units(F)) /\ chain[b].size # chain[b].total
      BY <2>2, <3>1 DEF ChainSound
    <3>4. Of(F, k, len)
      BY <3>1 DEF Of, All
    <3>5. Cardinality(Units(F)) = len
      <4> HIDE DEF F, k, len
      <4> QED BY <3>1, <3>2, <3>4, UnitsOfPacket
    <3> QED BY <3>1, <3>3, <3>5
  <2> QED BY <2>3
<1> QED BY <1>1, <1>2, <1>3, <1>4, PTL DEF FragSpec

-----------------------------------------------------------------------------
(***************************************************************************)
(* NetworkCoding                                                           *)
(***************************************************************************)
(* Payloads and frames *)

NcPayloads == {Body(p) : p \in NcPackets}

\* What a unicast packet that carries p is, wherever it is buffered.
NcUnicasts == {[dest |-> NcDst[p], body |-> Body(p), decoded |-> d] : p \in NcPackets, d \in BOOLEAN}

NcSmaller(a, b) == IF a <= b THEN a ELSE b

\* The payloads of p and q set against each other, block by block.
NcMixed(p, q) ==
  [i \in 1..(IF NcBlocks[p] >= NcBlocks[q] THEN NcBlocks[p] ELSE NcBlocks[q]) |->
     IF i > NcBlocks[p] THEN {q} ELSE IF i > NcBlocks[q] THEN {p}
     ELSE ({p} \ {q}) \cup ({q} \ {p})]

NcPlainFrames ==
  {[type |-> "UNICAST", src |-> s, dst |-> d, dest |-> NcDst[p], body |-> Body(p)] :
     s \in NcNodes, d \in NcNodes, p \in NcPackets}

NcCodedFrame(f, p, q) ==
  /\ f.type = "CODED" /\ f.src \in NcNodes /\ f.dst \in NcNodes
  /\ f.first_source \in NcNodes /\ f.second_source \in NcNodes /\ f.second_dest \in NcNodes
  /\ f.first_orig_dest = NcDst[p] /\ f.first_crc = Body(p)
  /\ f.second_orig_dest = NcDst[q] /\ f.second_crc = Body(q)
  /\ f.coded_len = NcSmaller(NcBlocks[p], NcBlocks[q])
  /\ f.body = NcMixed(p, q)

NcFrame(f) == f \in NcPlainFrames \/ \E p, q \in NcPackets : NcCodedFrame(f, p, q)

-----------------------------------------------------------------------------
(* Exclusive or *)

LEMMA NcBodyIs ==
  ASSUME NEW p \in NcPackets
  PROVE  /\ NcBlocks[p] \in Nat /\ NcBlocks[p] >= 1
         /\ Body(p) \in Seq({{p}}) /\ Len(Body(p)) = NcBlocks[p]
         /\ \A i \in 1..NcBlocks[p] : Body(p)[i] = {p}
<1>1. NcBlocks[p] \in Nat /\ NcBlocks[p] >= 1
  BY NcAssumption
<1>2. Body(p) \in [1..NcBlocks[p] -> {{p}}]
  BY DEF Body
<1> QED BY <1>1, <1>2 DEF Body

\* Coding: the longer packet with the shorter one over its beginning.
LEMMA NcCodes ==
  ASSUME NEW p \in NcPackets, NEW q \in NcPackets, NcBlocks[p] >= NcBlocks[q]
  PROVE  nc_memxor(Body(p), Body(q), NcBlocks[q]) = NcMixed(p, q)
<1>1. DOMAIN Body(p) = 1..NcBlocks[p]
  BY DEF Body
<1>2. /\ NcBlocks[p] \in Nat /\ NcBlocks[q] \in Nat
      /\ \A i \in 1..NcBlocks[p] : Body(p)[i] = {p}
      /\ \A i \in 1..NcBlocks[q] : Body(q)[i] = {q}
  BY NcBodyIs
<1> DEFINE xor == [i \in 1..NcBlocks[p] |-> IF i > NcBlocks[q] THEN Body(p)[i]
                     ELSE (Body(p)[i] \ Body(q)[i]) \cup (Body(q)[i] \ Body(p)[i])]
           mix == [i \in 1..NcBlocks[p] |-> IF i > NcBlocks[q] THEN {p}
                                            ELSE ({p} \ {q}) \cup ({q} \ {p})]
<1>3. nc_memxor(Body(p), Body(q), NcBlocks[q]) = xor
  BY <1>1 DEF nc_memxor
<1>4. NcMixed(p, q) = mix
  BY <1>2, SMT DEF NcMixed
<1>5. \A i \in 1..NcBlocks[p] : i > NcBlocks[q] \/ i \in 1..NcBlocks[q]
  BY <1>2
<1>6. \A i \in 1..NcBlocks[p] : xor[i] = mix[i]
  BY <1>2, <1>5
<1>7. xor = mix
  BY <1>6
<1> QED BY <1>3, <1>4, <1>7

LEMMA NcMixedSame ==
  ASSUME NEW p \in NcPackets, NEW q \in NcPackets
  PROVE  NcMixed(p, q) = NcMixed(q, p)
<1>1. NcBlocks[p] \in Nat /\ NcBlocks[q] \in Nat
  BY NcBodyIs
<1>2. (IF NcBlocks[p] >= NcBlocks[q] THEN NcBlocks[p] ELSE NcBlocks[q])
        = (IF NcBlocks[q] >= NcBlocks[p] THEN NcBlocks[q] ELSE NcBlocks[p])
  BY <1>1
<1> DEFINE n == IF NcBlocks[q] >= NcBlocks[p] THEN NcBlocks[q] ELSE NcBlocks[p]
<1>3. n \in Nat /\ (n <= NcBlocks[p] \/ n <= NcBlocks[q])
  BY <1>1
<1>4. \A i \in 1..n : (IF i > NcBlocks[p] THEN {q} ELSE IF i > NcBlocks[q] THEN {p}
                        ELSE ({p} \ {q}) \cup ({q} \ {p}))
                    = (IF i > NcBlocks[q] THEN {p} ELSE IF i > NcBlocks[p] THEN {q}
                        ELSE ({q} \ {p}) \cup ({p} \ {q}))
  BY <1>1, <1>3
<1> QED BY <1>2, <1>4 DEF NcMixed

\* Decoding: with one of the two packets the other one comes out.
LEMMA NcDecodes ==
  ASSUME NEW p \in NcPackets, NEW q \in NcPackets,
         NEW len, len = NcSmaller(NcBlocks[p], NcBlocks[q])
  PROVE  (IF Len(Body(p)) > len THEN SubSeq(nc_memxor(NcMixed(p, q), Body(p), len), 1, len)
          ELSE nc_memxor(NcMixed(p, q), Body(p), len)) = Body(q)
<1> DEFINE a == NcBlocks[p]
           b == NcBlocks[q]
           m == nc_memxor(NcMixed(p, q), Body(p), len)
<1>1. a \in Nat /\ b \in Nat /\ a >= 1 /\ b >= 1 /\ Len(Body(p)) = a
      /\ \A i \in 1..a : Body(p)[i] = {p}
  BY NcBodyIs
<1>2. DOMAIN NcMixed(p, q) = 1..(IF a >= b THEN a ELSE b)
  BY DEF NcMixed
<1>3. \A i \in DOMAIN NcMixed(p, q) :
        NcMixed(p, q)[i] = IF i > a THEN {q} ELSE IF i > b THEN {p}
                           ELSE ({p} \ {q}) \cup ({q} \ {p})
  BY DEF NcMixed
<1>4. m = [i \in DOMAIN NcMixed(p, q) |->
             IF i > len THEN NcMixed(p, q)[i]
             ELSE (NcMixed(p, q)[i] \ Body(p)[i]) \cup (Body(p)[i] \ NcMixed(p, q)[i])]
  BY DEF nc_memxor
<1> HIDE DEF m
<1>5. Body(q) = [i \in 1..b |-> {q}]
  BY DEF Body
<1>6. ((({p} \ {q}) \cup ({q} \ {p})) \ {p}) \cup ({p} \ (({p} \ {q}) \cup ({q} \ {p}))) = {q}
  OBVIOUS
<1>7. CASE a > b
  <2>1. len = b
    BY <1>1, <1>7 DEF NcSmaller
  <2>2. DOMAIN m = 1..a /\ \A i \in 1..b : m[i] = {q}
    BY <1>1, <1>2, <1>3, <1>4, <1>6, <1>7, <2>1
  <2> DEFINE T == {m[i] : i \in 1..a}
  <2>3. m \in Seq(T) /\ Len(m) = a
    <3>1. m \in [1..a -> T]
      BY <1>4, <2>2
    <3> HIDE DEF T
    <3> QED BY <1>1, <3>1
  <2> HIDE DEF T
  <2>4. SubSeq(m, 1, b) = [i \in 1..b |-> m[i]]
    BY <1>1, <1>7, <2>3
  <2>5. SubSeq(m, 1, b) = Body(q)
    BY <1>5, <2>2, <2>4
  <2> QED BY <1>1, <1>7, <2>1, <2>5 DEF m
<1>8. CASE a <= b
  <2>1. len = a
    BY <1>1, <1>8 DEF NcSmaller
  <2>2. DOMAIN m = 1..b
    BY <1>1, <1>2, <1>4, <1>8
  <2>3. \A i \in 1..b : m[i] = {q}
    BY <1>1, <1>2, <1>3, <1>4, <1>6, <1>8, <2>1
  <2>4. m = Body(q)
    BY <1>4, <1>5, <2>2, <2>3
  <2> QED BY <1>1, <2>1, <2>4 DEF m
<1> QED BY <1>1, <1>7, <1>8
-----------------------------------------------------------------------------
(* The hashes *)

NcPaths == NcNodes \X NcNodes

\* A path, and a hash of paths, with entries from E
NcPath(E) == [last_valid : Nat, packet_list : Seq(E)]
NcHash(E) == UNION {[D -> NcPath(E)] : D \in SUBSET NcPaths}

NcWaiting == [u : NcUnicasts, age : Nat]
NcOpening == [body : NcPayloads, age : Nat]

LEMMA NcHashIs ==
  ASSUME NEW E, NEW h \in NcHash(E)
  PROVE  DOMAIN h \subseteq NcPaths /\ h \in [DOMAIN h -> NcPath(E)]
BY DEF NcHash

LEMMA NcIsHash ==
  ASSUME NEW E, NEW D \in SUBSET NcPaths, NEW h \in [D -> NcPath(E)]
  PROVE  h \in NcHash(E)
BY DEF NcHash

\* batadv_nc_skb_add_to_path
LEMMA NcAdds ==
  ASSUME NEW E, NEW h \in NcHash(E), NEW path \in NcPaths, NEW e \in E
  PROVE  nc_skb_add_to_path(h, path, e) \in NcHash(E)
<1> DEFINE D == DOMAIN h \cup {path}
           got == nc_get_path(h, path)
<1>1. D \in SUBSET NcPaths /\ h \in [DOMAIN h -> NcPath(E)]
  BY NcHashIs
<1>2. got = [q \in D |-> IF q # path THEN h[q]
                         ELSE [last_valid |-> 0,
                               packet_list |-> IF q \in DOMAIN h THEN h[q].packet_list ELSE <<>>]]
  BY DEF nc_get_path, nc_hash_find
<1>3. \A q \in DOMAIN h : h[q] \in NcPath(E) /\ h[q].packet_list \in Seq(E)
  BY <1>1 DEF NcPath
<1>4. \A q \in D : q # path => h[q] \in NcPath(E)
  BY <1>3
<1>5. (IF path \in DOMAIN h THEN h[path].packet_list ELSE <<>>) \in Seq(E)
  BY <1>3
<1>6. got \in [D -> NcPath(E)]
  <2>1. [last_valid |-> 0,
         packet_list |-> IF path \in DOMAIN h THEN h[path].packet_list ELSE <<>>] \in NcPath(E)
    BY <1>5 DEF NcPath
  <2> QED BY <1>2, <1>4, <2>1
<1> HIDE DEF got
<1> DEFINE new == [got[path] EXCEPT !.packet_list = Append(@, e)]
<1>7. got[path] \in NcPath(E)
  BY <1>6
<1>8. new \in NcPath(E)
  <2>1. Append(got[path].packet_list, e) \in Seq(E)
    BY <1>7 DEF NcPath
  <2> QED BY <1>7, <2>1 DEF NcPath
<1>9. nc_skb_add_to_path(h, path, e) = [got EXCEPT ![path] = new]
  BY DEF nc_skb_add_to_path, got
<1> HIDE DEF new, D
<1>10. [got EXCEPT ![path] = new] \in [D -> NcPath(E)]
  BY <1>6, <1>8
<1> QED BY <1>1, <1>9, <1>10, NcIsHash

\* Taking the packet at i from a path
LEMMA NcTakes ==
  ASSUME NEW E, NEW h \in NcHash(E), NEW path \in DOMAIN h,
         NEW i \in DOMAIN h[path].packet_list
  PROVE  /\ h[path].packet_list[i] \in E
         /\ [h EXCEPT ![path].packet_list = SeqsExt!RemoveAt(@, i)] \in NcHash(E)
<1> DEFINE list == h[path].packet_list
           rest == SeqsExt!RemoveAt(list, i)
           new == [h[path] EXCEPT !.packet_list = rest]
<1>1. DOMAIN h \in SUBSET NcPaths /\ h \in [DOMAIN h -> NcPath(E)] /\ h[path] \in NcPath(E)
  BY NcHashIs
<1>2. list \in Seq(E) /\ i \in 1..Len(list)
  BY <1>1 DEF NcPath
<1> HIDE DEF list
<1>3. rest \in Seq(E)
  <2> DEFINE a == SubSeq(list, 1, i - 1)
             b == SubSeq(list, i + 1, Len(list))
  <2>1. a \in Seq(E) /\ b \in Seq(E)
    BY <1>2
  <2>2. rest = a \o b
    BY DEF SeqsExt!RemoveAt
  <2> HIDE DEF a, b
  <2> QED BY <2>1, <2>2
<1> HIDE DEF rest
<1>4. new \in NcPath(E)
  BY <1>1, <1>3 DEF NcPath
<1>5. [h EXCEPT ![path].packet_list = SeqsExt!RemoveAt(@, i)] = [h EXCEPT ![path] = new]
  BY DEF new, rest, list
<1> HIDE DEF new
<1>6. [h EXCEPT ![path] = new] \in [DOMAIN h -> NcPath(E)]
  BY <1>1, <1>4
<1>7. list[i] \in E
  BY <1>2
<1> QED BY <1>1, <1>5, <1>6, <1>7, NcIsHash DEF list

\* Time passes on the paths.
LEMMA NcAges ==
  ASSUME NEW E, NEW h \in NcHash(E), NEW d \in Nat,
         \A e \in E : [e EXCEPT !.age = Later(@, d)] \in E
  PROVE  Aged(h, d) \in NcHash(E)
<1> DEFINE list(q) == [i \in DOMAIN h[q].packet_list |->
                         [h[q].packet_list[i] EXCEPT !.age = Later(@, d)]]
           valid(q) == Later(h[q].last_valid, d)
<1>1. DOMAIN h \in SUBSET NcPaths /\ h \in [DOMAIN h -> NcPath(E)]
  BY NcHashIs
<1>2. ASSUME NEW q \in DOMAIN h
      PROVE  [last_valid |-> valid(q), packet_list |-> list(q)] \in NcPath(E)
  <2>1. h[q].last_valid \in Nat /\ h[q].packet_list \in Seq(E)
    BY <1>1, <1>2 DEF NcPath
  <2>2. valid(q) \in Nat
    BY <2>1, NcAssumption DEF Later
  <2>3. list(q) \in [1..Len(h[q].packet_list) -> E]
    BY <2>1
  <2>4. list(q) \in Seq(E)
    BY <2>1, <2>3
  <2> HIDE DEF list, valid
  <2> QED BY <2>2, <2>4 DEF NcPath
<1>3. Aged(h, d) = [q \in DOMAIN h |-> [last_valid |-> valid(q), packet_list |-> list(q)]]
  BY DEF Aged
<1> HIDE DEF list, valid
<1>4. Aged(h, d) \in [DOMAIN h -> NcPath(E)]
  BY <1>2, <1>3
<1> QED BY <1>1, <1>4, NcIsHash

\* batadv_nc_purge_paths
LEMMA NcPurges ==
  ASSUME NEW E, NEW h \in NcHash(E), NEW timeout
  PROVE  nc_purge_paths(h, timeout) \in NcHash(E)
<1> DEFINE D == {q \in DOMAIN h : h[q].last_valid <= timeout \/ h[q].packet_list # <<>>}
<1>1. D \in SUBSET NcPaths /\ h \in [DOMAIN h -> NcPath(E)]
  BY NcHashIs
<1>2. nc_purge_paths(h, timeout) = [q \in D |-> h[q]]
  BY DEF nc_purge_paths
<1>3. D \subseteq DOMAIN h
  OBVIOUS
<1> HIDE DEF D
<1>4. nc_purge_paths(h, timeout) \in [D -> NcPath(E)]
  BY <1>1, <1>2, <1>3
<1> QED BY <1>1, <1>4, NcIsHash

\* What is left of a list without its beginning.
LEMMA NcTailOf ==
  ASSUME NEW E, NEW s \in Seq(E), NEW k \in Nat
  PROVE  SubSeq(s, k + 1, Len(s)) \in Seq(E)
OBVIOUS

\* batadv_nc_process_nc_paths
LEMMA NcProcesses ==
  ASSUME NEW E, NEW h \in NcHash(E), NEW timeout
  PROVE  nc_process_nc_paths(h, timeout) \in NcHash(E)
<1> DEFINE new(q) == [h[q] EXCEPT !.packet_list =
                        SubSeq(@, Cardinality(Expired(@, timeout)) + 1, Len(@))]
<1>1. DOMAIN h \in SUBSET NcPaths /\ h \in [DOMAIN h -> NcPath(E)]
  BY NcHashIs
<1>2. ASSUME NEW q \in DOMAIN h PROVE new(q) \in NcPath(E)
  <2> DEFINE list == h[q].packet_list
             k == Cardinality(Expired(list, timeout))
  <2>1. list \in Seq(E) /\ h[q] \in NcPath(E)
    BY <1>1, <1>2 DEF NcPath
  <2>2. k \in Nat
    <3>1. Expired(list, timeout) \subseteq 1..Len(list)
      BY <2>1 DEF Expired
    <3>2. IsFiniteSet(1..Len(list))
      BY <2>1, FS_Interval
    <3> QED BY <3>1, <3>2, FS_Subset, FS_CardinalityType
  <2>3. SubSeq(list, k + 1, Len(list)) \in Seq(E)
    <3> HIDE DEF k, list
    <3> QED BY <2>1, <2>2, NcTailOf
  <2> DEFINE tail == SubSeq(list, k + 1, Len(list))
  <2>4. new(q) = [h[q] EXCEPT !.packet_list = tail]
    OBVIOUS
  <2>5. tail \in Seq(E)
    BY <2>3
  <2> HIDE DEF tail
  <2> QED BY <2>1, <2>4, <2>5 DEF NcPath
<1>3. nc_process_nc_paths(h, timeout) = [q \in DOMAIN h |-> new(q)]
  BY DEF nc_process_nc_paths
<1> HIDE DEF new
<1>4. nc_process_nc_paths(h, timeout) \in [DOMAIN h -> NcPath(E)]
  BY <1>2, <1>3
<1> QED BY <1>1, <1>4, NcIsHash

-----------------------------------------------------------------------------
(* Nodes and the outcomes of their steps *)

NcStates ==
  [on : BOOLEAN, coding : NcHash(NcWaiting), decoding : NcHash(NcOpening),
   hears : SUBSET NcPaths, timestamp_fwd_flush : Nat, timestamp_sniffed_purge : Nat]

NcSound(o) ==
  /\ o = Outcome(o.nd, o.out, o.fwd)
  /\ o.nd \in NcStates /\ \A f \in o.out : NcFrame(f)

LEMMA NcSoundIs ==
  ASSUME NEW nd \in NcStates, NEW out, NEW fwd, \A f \in out : NcFrame(f)
  PROVE  NcSound(Outcome(nd, out, fwd))
BY DEF NcSound, Outcome

LEMMA NcUnicastIs ==
  ASSUME NEW u \in NcUnicasts
  PROVE  u.body \in NcPayloads /\ \E p \in NcPackets : u.dest = NcDst[p] /\ u.body = Body(p)
<1>1. PICK p \in NcPackets : u.dest = NcDst[p] /\ u.body = Body(p)
  BY DEF NcUnicasts
<1> QED BY <1>1 DEF NcPayloads

LEMMA NcStores ==
  ASSUME NEW nd \in NcStates, NEW path \in NcPaths, NEW body \in NcPayloads
  PROVE  nc_skb_store_for_decoding(nd, path, body) \in NcStates
<1> DEFINE e == [body |-> body, age |-> 0]
           new == nc_skb_add_to_path(nd.decoding, path, e)
<1>1. e \in NcOpening /\ nd.decoding \in NcHash(NcOpening)
  BY DEF NcOpening, NcStates
<1> HIDE DEF e
<1>2. new \in NcHash(NcOpening)
  BY <1>1, NcAdds
<1>3. nc_skb_store_for_decoding(nd, path, body)
        = IF ~nd.on THEN nd ELSE [nd EXCEPT !.decoding = new]
  BY DEF nc_skb_store_for_decoding, e
<1> HIDE DEF new
<1> QED BY <1>2, <1>3 DEF NcStates

\* A packet that is sent as it is.
LEMMA NcSendsPlain ==
  ASSUME NEW nd \in NcStates, NEW n \in NcNodes, NEW next \in NcNodes, NEW u \in NcUnicasts
  PROVE  NcSound(Plain(nd, n, next, u))
<1> DEFINE o == Plain(nd, n, next, u)
           new == nc_skb_store_for_decoding(nd, <<n, next>>, u.body)
<1>1. PICK p \in NcPackets : u.dest = NcDst[p] /\ u.body = Body(p)
  BY DEF NcUnicasts
<1>2. u.body \in NcPayloads /\ <<n, next>> \in NcPaths
  BY <1>1 DEF NcPayloads, NcPaths
<1>3. new \in NcStates
  BY <1>2, NcStores
<1>4. NcFrame(Unicast(n, next, u))
  BY <1>1 DEF NcFrame, NcPlainFrames, Unicast
<1>5. o = Outcome(new, {Unicast(n, next, u)}, {u.body})
  BY DEF Plain
<1> HIDE DEF o, new
<1>6. o.nd = new /\ o.out = {Unicast(n, next, u)} /\ o.fwd = {u.body}
  BY <1>5 DEF Outcome
<1>7. NcSound(o)
  BY <1>3, <1>4, <1>5, <1>6 DEF NcSound
<1> QED BY <1>7 DEF o

\* Two packets in one frame: batadv_nc_code_packets
LEMMA NcCodesFrame ==
  ASSUME NEW n \in NcNodes, NEW first, NEW second,
         first.prev \in NcNodes, first.next \in NcNodes, first.u \in NcUnicasts,
         second.prev \in NcNodes, second.next \in NcNodes, second.u \in NcUnicasts
  PROVE  NcFrame(nc_code_packets(n, first, second))
<1>1. PICK p \in NcPackets : first.u.dest = NcDst[p] /\ first.u.body = Body(p)
  BY DEF NcUnicasts
<1>2. PICK q \in NcPackets : second.u.dest = NcDst[q] /\ second.u.body = Body(q)
  BY DEF NcUnicasts
<1> DEFINE long == IF Len(first.u.body) >= Len(second.u.body) THEN first.u.body
                   ELSE second.u.body
           short == IF long = first.u.body THEN second.u.body ELSE first.u.body
           f == nc_code_packets(n, first, second)
<1>3. /\ NcBlocks[p] \in Nat /\ NcBlocks[q] \in Nat
      /\ Len(Body(p)) = NcBlocks[p] /\ Len(Body(q)) = NcBlocks[q]
  BY NcBodyIs
<1>4. f = [type |-> "CODED", src |-> n, dst |-> first.next,
           first_source |-> first.prev, first_orig_dest |-> first.u.dest,
           first_crc |-> first.u.body,
           second_dest |-> second.next, second_source |-> second.prev,
           second_orig_dest |-> second.u.dest, second_crc |-> second.u.body,
           coded_len |-> Len(short), body |-> nc_memxor(long, short, Len(short))]
  BY DEF nc_code_packets
<1>5. /\ Len(short) = NcSmaller(NcBlocks[p], NcBlocks[q])
      /\ nc_memxor(long, short, Len(short)) = NcMixed(p, q)
  <2>1. CASE NcBlocks[p] >= NcBlocks[q]
    <3>1. long = Body(p) /\ short = Body(q)
      BY <1>1, <1>2, <1>3, <2>1
    <3>2. nc_memxor(Body(p), Body(q), NcBlocks[q]) = NcMixed(p, q)
      BY <2>1, NcCodes
    <3> HIDE DEF long, short
    <3> QED BY <1>3, <2>1, <3>1, <3>2 DEF NcSmaller
  <2>2. CASE NcBlocks[q] > NcBlocks[p]
    <3>1. Body(q) # Body(p)
      BY <1>3, <2>2
    <3>2. long = Body(q) /\ short = Body(p)
      BY <1>1, <1>2, <1>3, <2>2, <3>1
    <3>3. nc_memxor(Body(q), Body(p), NcBlocks[p]) = NcMixed(p, q)
      BY <1>3, <2>2, NcCodes, NcMixedSame
    <3> HIDE DEF long, short
    <3> QED BY <1>3, <2>2, <3>2, <3>3 DEF NcSmaller
  <2> QED BY <1>3, <2>1, <2>2
<1> HIDE DEF long, short, f
<1>6. NcCodedFrame(f, p, q)
  BY <1>1, <1>2, <1>4, <1>5 DEF NcCodedFrame
<1>7. NcFrame(f)
  BY <1>6 DEF NcFrame
<1> QED BY <1>7 DEF f

\* A packet that met its partner, coded or not
LEMMA NcMeetsPartner ==
  ASSUME NEW nd \in NcStates, NEW n \in NcNodes, NEW one,
         one.prev \in NcNodes, one.next \in NcNodes, one.u \in NcUnicasts,
         NEW k \in Partners(nd, one.prev, one.next, one.u), NEW failed \in BOOLEAN,
         NEW o \in WithPartner(nd, n, one, k, failed)
  PROVE  NcSound(o)
<1> DEFINE path == <<k[1], k[2]>>
           other == [prev |-> k[1], next |-> k[2], u |-> nd.coding[path].packet_list[k[3]].u]
           taken == [nd EXCEPT !.coding[path].packet_list = SeqsExt!RemoveAt(@, k[3])]
           stored == nc_skb_store_before_coding(taken, n, one, other)
           both == {one.u.body, other.u.body}
           single == Plain(stored, n, other.next, other.u)
           twice == Plain(single.nd, n, one.next, one.u)
<1>1. /\ k[1] \in NcNodes /\ k[2] \in NcNodes /\ path \in DOMAIN nd.coding
      /\ k[3] \in DOMAIN nd.coding[path].packet_list
  BY DEF Partners, nc_hash_find
<1>2. nd.coding \in NcHash(NcWaiting)
  BY DEF NcStates
<1>3. /\ nd.coding[path].packet_list[k[3]] \in NcWaiting
      /\ [nd.coding EXCEPT ![path].packet_list = SeqsExt!RemoveAt(@, k[3])] \in NcHash(NcWaiting)
  <2> HIDE DEF path
  <2> QED BY <1>1, <1>2, NcTakes
<1>4. taken \in NcStates
  <2> DEFINE c == [nd.coding EXCEPT ![path].packet_list = SeqsExt!RemoveAt(@, k[3])]
  <2>1. taken = [nd EXCEPT !.coding = c]
    OBVIOUS
  <2> HIDE DEF c, taken
  <2>2. c \in NcHash(NcWaiting)
    BY <1>3 DEF c
  <2> QED BY <2>1, <2>2 DEF NcStates
<1>5. other.prev \in NcNodes /\ other.next \in NcNodes /\ other.u \in NcUnicasts
  BY <1>1, <1>3 DEF NcWaiting
<1>6. one.u.body \in NcPayloads /\ other.u.body \in NcPayloads
  <2> HIDE DEF other
  <2> QED BY <1>5, NcUnicastIs
<1> HIDE DEF taken, other
<1>7. stored \in NcStates
  <2> DEFINE first == nc_skb_store_for_decoding(taken, <<n, one.next>>, one.u.body)
  <2>1. <<n, one.next>> \in NcPaths /\ <<n, other.next>> \in NcPaths
    BY <1>5 DEF NcPaths
  <2>2. first \in NcStates
    BY <1>4, <1>6, <2>1, NcStores
  <2>3. stored = nc_skb_store_for_decoding(first, <<n, other.next>>, other.u.body)
    BY DEF nc_skb_store_before_coding
  <2> HIDE DEF first, stored
  <2> QED BY <1>6, <2>1, <2>2, <2>3, NcStores
<1> HIDE DEF stored
<1>8. NcSound(single)
  BY <1>5, <1>7, NcSendsPlain
<1>9. NcSound(twice)
  <2>1. single.nd \in NcStates
    BY <1>8 DEF NcSound
  <2> HIDE DEF single
  <2> QED BY <2>1, NcSendsPlain
<1> HIDE DEF single, twice
<1>10. CASE failed
  <2> DEFINE out == single.out \cup twice.out
  <2>1. o = Outcome(twice.nd, out, both)
    BY <1>10, Zenon DEF WithPartner, path, other, taken, stored, single, twice
  <2>2. twice.nd \in NcStates /\ \A f \in out : NcFrame(f)
    BY <1>8, <1>9 DEF NcSound
  <2> HIDE DEF out, both
  <2>3. o.nd = twice.nd /\ o.out = out /\ o.fwd = both
    BY <2>1 DEF Outcome
  <2> QED BY <2>1, <2>2, <2>3 DEF NcSound
<1>11. CASE ~failed
  <2>1. PICK f : /\ f = nc_code_packets(n, other, one) \/ f = nc_code_packets(n, one, other)
                 /\ o = Outcome(stored, {f}, both)
    BY <1>11, Zenon DEF WithPartner, path, other, taken, stored
  <2>2. NcFrame(f)
    BY <1>5, <2>1, NcCodesFrame
  <2> HIDE DEF both
  <2>3. \A g \in {f} : NcFrame(g)
    BY <2>2
  <2> QED BY <1>7, <2>1, <2>3, NcSoundIs, Zenon
<1> QED BY <1>10, <1>11, Zenon

\* Every way to forward a packet
LEMMA NcForwards ==
  ASSUME NEW nd \in NcStates, NEW n \in NcNodes, NEW prev \in NcNodes, NEW next \in NcNodes,
         NEW u \in NcUnicasts, NEW failed \in BOOLEAN,
         NEW o \in nc_skb_forward(nd, n, prev, next, u, failed)
  PROVE  NcSound(o)
<1> DEFINE one == [prev |-> prev, next |-> next, u |-> u]
           e == [u |-> u, age |-> 0]
           added == nc_skb_add_to_path(nd.coding, <<prev, next>>, e)
           kept == [nd EXCEPT !.coding = added]
<1>1. \/ o = Plain(nd, n, next, u)
      \/ \E k \in Partners(nd, prev, next, u) : o \in WithPartner(nd, n, one, k, failed)
      \/ o = Outcome(kept, {}, {})
  BY DEF nc_skb_forward
<1>2. CASE o = Plain(nd, n, next, u)
  BY <1>2, NcSendsPlain
<1>3. ASSUME NEW k \in Partners(nd, prev, next, u), o \in WithPartner(nd, n, one, k, failed)
      PROVE  NcSound(o)
  <2>1. one.prev = prev /\ one.next = next /\ one.u = u
    OBVIOUS
  <2> HIDE DEF one
  <2> QED BY <1>3, <2>1, NcMeetsPartner
<1>4. CASE o = Outcome(kept, {}, {})
  <2>1. e \in NcWaiting /\ nd.coding \in NcHash(NcWaiting) /\ <<prev, next>> \in NcPaths
    BY DEF NcWaiting, NcStates, NcPaths
  <2> HIDE DEF e
  <2>2. added \in NcHash(NcWaiting)
    BY <2>1, NcAdds
  <2> HIDE DEF added
  <2>3. kept \in NcStates
    BY <2>2 DEF NcStates
  <2> HIDE DEF kept
  <2> QED BY <1>4, <2>3 DEF Outcome, NcSound
<1> QED BY <1>1, <1>2, <1>3, <1>4

LEMMA NcIsUnicast ==
  ASSUME NEW p \in NcPackets, NEW d \in BOOLEAN
  PROVE  [dest |-> NcDst[p], body |-> Body(p), decoded |-> d] \in NcUnicasts
<1> DEFINE Mk(a, b) == [dest |-> NcDst[a], body |-> Body(a), decoded |-> b]
<1>1. NcUnicasts = {Mk(a, b) : a \in NcPackets, b \in BOOLEAN}
  BY DEF NcUnicasts
<1> HIDE DEF Mk
<1>2. Mk(p, d) \in {Mk(a, b) : a \in NcPackets, b \in BOOLEAN}
  OBVIOUS
<1> QED BY <1>1, <1>2 DEF Mk

\* What a coded frame gives with the packet its reader already holds.
LEMMA NcOpens ==
  ASSUME NEW n \in NcNodes, NEW f, NEW p \in NcPackets, NEW q \in NcPackets,
         NcCodedFrame(f, p, q)
  PROVE  LET u == nc_skb_decode_packet(n, f, IF f.second_dest = n THEN f.first_crc
                                             ELSE f.second_crc) IN
         /\ u \in NcUnicasts
         /\ u.body = IF f.second_dest = n THEN f.second_crc ELSE f.first_crc
<1> DEFINE len == f.coded_len
           Left(a, b) == IF Len(Body(a)) > len
                        THEN SubSeq(nc_memxor(NcMixed(a, b), Body(a), len), 1, len)
                        ELSE nc_memxor(NcMixed(a, b), Body(a), len)
<1>1. /\ f.first_orig_dest = NcDst[p] /\ f.first_crc = Body(p)
      /\ f.second_orig_dest = NcDst[q] /\ f.second_crc = Body(q)
      /\ len = NcSmaller(NcBlocks[p], NcBlocks[q]) /\ f.body = NcMixed(p, q)
  BY DEF NcCodedFrame
<1>2. len = NcSmaller(NcBlocks[q], NcBlocks[p]) /\ f.body = NcMixed(q, p)
  <2>1. NcBlocks[p] \in Nat /\ NcBlocks[q] \in Nat
    BY NcBodyIs
  <2>2. NcSmaller(NcBlocks[p], NcBlocks[q]) = NcSmaller(NcBlocks[q], NcBlocks[p])
    BY <2>1 DEF NcSmaller
  <2> HIDE DEF len
  <2> QED BY <1>1, <2>2, NcMixedSame
<1> HIDE DEF len
<1>3. Left(p, q) = Body(q)
  BY <1>1, NcDecodes
<1>4. Left(q, p) = Body(p)
  BY <1>2, NcDecodes
<1>5. CASE f.second_dest = n
  <2>1. nc_skb_decode_packet(n, f, Body(p))
          = [dest |-> f.second_orig_dest,
             body |-> IF Len(Body(p)) > f.coded_len
                      THEN SubSeq(nc_memxor(f.body, Body(p), f.coded_len), 1, f.coded_len)
                      ELSE nc_memxor(f.body, Body(p), f.coded_len),
             decoded |-> TRUE]
    BY <1>5, Zenon DEF nc_skb_decode_packet
  <2>2. nc_skb_decode_packet(n, f, f.first_crc)
          = [dest |-> NcDst[q], body |-> Left(p, q), decoded |-> TRUE]
    BY <1>1, <2>1, Zenon DEF len
  <2>3. [dest |-> NcDst[q], body |-> Body(q), decoded |-> TRUE] \in NcUnicasts
    BY NcIsUnicast
  <2> HIDE DEF Left
  <2> DEFINE u == nc_skb_decode_packet(n, f, f.first_crc)
  <2>4. u = [dest |-> NcDst[q], body |-> Body(q), decoded |-> TRUE]
    BY <1>3, <2>2, Zenon
  <2> HIDE DEF u
  <2>5. u \in NcUnicasts
    BY <2>3, <2>4
  <2>6. u.body = f.second_crc
    BY <1>1, <2>4
  <2> QED BY <1>5, <2>5, <2>6, Zenon DEF u
<1>6. CASE f.second_dest # n
  <2>1. nc_skb_decode_packet(n, f, Body(q))
          = [dest |-> f.first_orig_dest,
             body |-> IF Len(Body(q)) > f.coded_len
                      THEN SubSeq(nc_memxor(f.body, Body(q), f.coded_len), 1, f.coded_len)
                      ELSE nc_memxor(f.body, Body(q), f.coded_len),
             decoded |-> TRUE]
    BY <1>6, Zenon DEF nc_skb_decode_packet
  <2>2. nc_skb_decode_packet(n, f, f.second_crc)
          = [dest |-> NcDst[p], body |-> Left(q, p), decoded |-> TRUE]
    BY <1>1, <1>2, <2>1, Zenon DEF len
  <2>3. [dest |-> NcDst[p], body |-> Body(p), decoded |-> TRUE] \in NcUnicasts
    BY NcIsUnicast
  <2> HIDE DEF Left
  <2> DEFINE u == nc_skb_decode_packet(n, f, f.second_crc)
  <2>4. u = [dest |-> NcDst[p], body |-> Body(p), decoded |-> TRUE]
    BY <1>4, <2>2, Zenon
  <2> HIDE DEF u
  <2>5. u \in NcUnicasts
    BY <2>3, <2>4
  <2>6. u.body = f.first_crc
    BY <1>1, <2>4
  <2> QED BY <1>6, <2>5, <2>6, Zenon DEF u
<1> QED BY <1>5, <1>6

-----------------------------------------------------------------------------
(* What the worker flushes *)

LEMMA SmallestNumber ==
  ASSUME NEW T \in SUBSET Nat, T # {}
  PROVE  \E x \in T : \A y \in T : x <= y
<1> DEFINE R == {ss \in Nat \X Nat : ss[1] < ss[2]}
<1>1. IsWellFoundedOn(R, Nat)
  BY NatLessThanWellFounded DEF OpToRel
<1> HIDE DEF R
<1>2. PICK x \in T : \A y \in T : ~(<<y, x>> \in R)
  BY <1>1, WFMin
<1>3. \A y \in T : ~(y < x)
  BY <1>2 DEF R
<1> QED BY <1>3

LEMMA NumbersUpTo ==
  ASSUME NEW n \in Nat, NEW S, 0 \in S, \A i \in 0..(n - 1) : i \in S => i + 1 \in S
  PROVE  0..n \subseteq S
<1> SUFFICES ASSUME NEW m \in 0..n, m \notin S PROVE FALSE
  OBVIOUS
<1> DEFINE T == {i \in Nat : i <= n /\ i \notin S}
<1>1. m \in T /\ T \in SUBSET Nat
  OBVIOUS
<1>2. PICK x \in T : \A y \in T : x <= y
  BY <1>1, SmallestNumber
<1>3. x # 0 /\ x - 1 \in 0..(n - 1)
  OBVIOUS
<1>4. x - 1 \in S
  BY <1>2, <1>3
<1>5. (x - 1) + 1 \in S
  BY <1>3, <1>4
<1> QED BY <1>5

LEMMA NcOverdueIs ==
  ASSUME NEW nd \in NcStates
  PROVE  /\ IsFiniteSet(Overdue(nd))
         /\ \A k \in Overdue(nd) :
              /\ k[1] \in NcPaths
              /\ nd.coding[k[1]].packet_list[k[2]].u \in NcUnicasts
<1> DEFINE D == DOMAIN nd.coding
           list(q) == nd.coding[q].packet_list
           X(q) == {<<q, i>> : i \in Expired(list(q), FwdDelay)}
           F == {X(q) : q \in D}
<1>1. Overdue(nd) = UNION F
  BY DEF Overdue
<1>2. D \in SUBSET NcPaths /\ nd.coding \in [D -> NcPath(NcWaiting)]
  <2>1. nd.coding \in NcHash(NcWaiting)
    BY DEF NcStates
  <2> QED BY <2>1, NcHashIs
<1>3. IsFiniteSet(D)
  <2>1. IsFiniteSet(NcPaths)
    BY NcAssumption, FS_Product DEF NcPaths
  <2> HIDE DEF D
  <2> QED BY <1>2, <2>1, FS_Subset
<1>4. ASSUME NEW q \in D
      PROVE  /\ Expired(list(q), FwdDelay) \subseteq 1..Len(list(q))
             /\ list(q) \in Seq(NcWaiting)
  BY <1>2, <1>4 DEF Expired, NcPath
<1>5. ASSUME NEW q \in D PROVE IsFiniteSet(X(q))
  <2> DEFINE I == 1..Len(list(q))
  <2>1. list(q) \in Seq(NcWaiting) /\ Expired(list(q), FwdDelay) \subseteq I
    BY <1>4
  <2> HIDE DEF list
  <2>2. IsFiniteSet(I)
    BY <2>1, FS_Interval
  <2>3. X(q) \in SUBSET ({q} \X I)
    BY <2>1
  <2> HIDE DEF I, X
  <2>4. IsFiniteSet({q})
    BY FS_Singleton
  <2>5. IsFiniteSet({q} \X I)
    BY <2>2, <2>4, FS_Product
  <2> QED BY <2>3, <2>5, FS_Subset
<1>6. IsFiniteSet(F)
  <2> DEFINE g == [q \in D |-> X(q)]
  <2> HIDE DEF D, X
  <2>1. g \in Surjection(D, F)
    BY DEF Surjection
  <2> HIDE DEF g, F
  <2> QED BY <1>3, <2>1, FS_Surjection
<1>7. IsFiniteSet(UNION F)
  <2>1. \A T \in F : IsFiniteSet(T)
    <3> HIDE DEF X, D
    <3> QED BY <1>5
  <2> HIDE DEF F
  <2> QED BY <1>6, <2>1, FS_UNION
<1>8. ASSUME NEW k \in Overdue(nd)
      PROVE  k[1] \in NcPaths /\ nd.coding[k[1]].packet_list[k[2]].u \in NcUnicasts
  <2>1. PICK q \in D : \E i \in Expired(list(q), FwdDelay) : k = <<q, i>>
    BY <1>1, <1>8
  <2>2. PICK i \in Expired(list(q), FwdDelay) : k = <<q, i>>
    BY <2>1
  <2>3. list(q) \in Seq(NcWaiting) /\ i \in 1..Len(list(q))
    BY <1>4, <2>2
  <2>4. list(q)[i] \in NcWaiting
    <3> HIDE DEF list
    <3> QED BY <2>3
  <2> QED BY <1>2, <2>2, <2>4 DEF NcWaiting
<1> QED BY <1>1, <1>7, <1>8

\* What the flush does with one packet more
NcFlushed(nd) ==
  [nd EXCEPT !.coding = nc_process_nc_paths(@, FwdDelay), !.timestamp_fwd_flush = 0]

NcPut(nd, n, o, k) ==
  LET single == Plain(o.nd, n, k[1][2], nd.coding[k[1]].packet_list[k[2]].u)
  IN  Outcome(single.nd, o.out \cup single.out, o.fwd \cup single.fwd)

NcFlushStep(nd, n, order, after, i) ==
  IF i = 0 THEN Outcome(NcFlushed(nd), {}, {}) ELSE NcPut(nd, n, after[i - 1], order[i])

LEMMA NcFlushIs ==
  ASSUME NEW nd, NEW node, NEW order, Len(order) \in Nat
  PROVE  \E after : /\ \A i \in 0..Len(order) : after[i] = NcFlushStep(nd, node, order, after, i)
                    /\ nc_fwd_flush(nd, node, order) = after[Len(order)]
<1> DEFINE n == Len(order)
           Step(G, i) == NcFlushStep(nd, node, order, G, i)
           Made(m) == \E G : G = [i \in 0..m |-> Step(G, i)]
           S == {m \in 0..n : Made(m)}
<1>0. ASSUME NEW G, NEW H, NEW i, i = 0 \/ G[i - 1] = H[i - 1]
      PROVE  Step(G, i) = Step(H, i)
  BY <1>0 DEF NcFlushStep
<1>1. 0 \in S
  <2> DEFINE H == [i \in 0..0 |-> Outcome(NcFlushed(nd), {}, {})]
  <2>1. H = [i \in 0..0 |-> Step(H, i)]
    BY DEF NcFlushStep
  <2> HIDE DEF H, Step
  <2> QED BY <2>1
<1> HIDE DEF Step
<1>2. ASSUME NEW m \in 0..(n - 1), m \in S
      PROVE  m + 1 \in S
  <2>1. PICK G : G = [i \in 0..m |-> Step(G, i)]
    BY <1>2
  <2> DEFINE H == [i \in 0..(m + 1) |-> IF i <= m THEN G[i] ELSE Step(G, i)]
  <2>2. ASSUME NEW i \in 0..(m + 1)
        PROVE  Step(G, i) = Step(H, i)
    <3>1. i = 0 \/ (i - 1 \in 0..(m + 1) /\ i - 1 <= m)
      OBVIOUS
    <3>2. i = 0 \/ H[i - 1] = G[i - 1]
      BY <3>1
    <3> HIDE DEF H
    <3> QED BY <1>0, <3>2
  <2>3. ASSUME NEW i \in 0..(m + 1)
        PROVE  H[i] = Step(H, i)
    <3>1. H[i] = Step(G, i)
      <4>1. CASE i <= m
        <5>1. i \in 0..m
          BY <4>1
        <5> HIDE DEF n
        <5>2. G[i] = Step(G, i)
          BY <2>1, <5>1
        <5> QED BY <4>1, <5>2
      <4>2. CASE ~(i <= m)
        BY <4>2
      <4> QED BY <4>1, <4>2
    <3> HIDE DEF H
    <3> QED BY <2>2, <3>1
  <2>4. H = [i \in 0..(m + 1) |-> H[i]]
    OBVIOUS
  <2>5. H = [i \in 0..(m + 1) |-> Step(H, i)]
    <3> HIDE DEF H
    <3> QED BY <2>3, <2>4
  <2>6. m + 1 \in 0..n
    OBVIOUS
  <2> QED BY <2>5, <2>6
<1>3. n \in S
  <2> HIDE DEF S
  <2>1. 0..n \subseteq S
    BY <1>1, <1>2, NumbersUpTo
  <2> QED BY <2>1
<1>4. PICK G : G = [i \in 0..n |-> Step(G, i)]
  BY <1>3
<1> DEFINE L == CHOOSE F : F = [i \in 0..n |-> Step(F, i)]
<1>5. L = [i \in 0..n |-> Step(L, i)]
  BY <1>4
<1>6. nc_fwd_flush(nd, node, order) = L[n]
  BY DEF nc_fwd_flush, NcFlushStep, NcPut, NcFlushed, Step
<1> HIDE DEF L
<1>7. \A i \in 0..n : L[i] = Step(L, i)
  BY <1>5
<1> QED BY <1>6, <1>7, Zenon DEF Step

\* batadv_nc_fwd_flush
LEMMA NcFlushes ==
  ASSUME NEW nd \in NcStates, NEW n \in NcNodes,
         NEW order \in FlushOrders(nd)
  PROVE  NcSound(nc_fwd_flush(nd, n, order))
<1> DEFINE O == Overdue(nd)
           len == Cardinality(O)
<1>1. IsFiniteSet(O) /\ \A k \in O : /\ k[1] \in NcPaths
                                     /\ nd.coding[k[1]].packet_list[k[2]].u \in NcUnicasts
  BY NcOverdueIs
<1>2. len \in Nat
  BY <1>1, FS_CardinalityType
<1>3. order \in [1..len -> O]
  BY DEF FlushOrders, SeqsExt!SetToSeqs, SeqsExt!Cardinality, Cardinality
<1> HIDE DEF len, O
<1>4. Len(order) = len
  BY <1>2, <1>3
<1>5. Len(order) \in Nat
  BY <1>2, <1>4
<1>6. PICK after : /\ \A i \in 0..Len(order) : after[i] = NcFlushStep(nd, n, order, after, i)
                   /\ nc_fwd_flush(nd, n, order) = after[Len(order)]
  BY <1>5, NcFlushIs
<1> DEFINE S == {i \in 0..len : NcSound(after[i])}
<1>7. 0 \in S
  <2> DEFINE c == nc_process_nc_paths(nd.coding, FwdDelay)
             fl == NcFlushed(nd)
  <2>1. nd.coding \in NcHash(NcWaiting)
    BY DEF NcStates
  <2>2. c \in NcHash(NcWaiting)
    BY <2>1, NcProcesses
  <2>3. fl = [nd EXCEPT !.coding = c, !.timestamp_fwd_flush = 0]
    BY DEF NcFlushed
  <2> HIDE DEF c, fl
  <2>4. fl \in NcStates
    BY <2>2, <2>3 DEF NcStates
  <2>5. after[0] = Outcome(fl, {}, {})
    BY <1>2, <1>4, <1>6 DEF NcFlushStep, fl
  <2>6. NcSound(after[0])
    BY <2>4, <2>5 DEF NcSound, Outcome
  <2> QED BY <1>2, <2>6
<1>8. ASSUME NEW i \in 0..(len - 1), i \in S
      PROVE  i + 1 \in S
  <2> DEFINE k == order[i + 1]
             u == nd.coding[k[1]].packet_list[k[2]].u
             old == after[i]
             single == Plain(old.nd, n, k[1][2], u)
             out == old.out \cup single.out
             fwd == old.fwd \cup single.fwd
  <2>1. i + 1 \in 1..len /\ i + 1 \in 0..len /\ (i + 1) - 1 = i /\ i + 1 # 0
    BY <1>2
  <2>2. k \in O
    BY <1>3, <2>1
  <2>3. u \in NcUnicasts /\ k[1] \in NcPaths
    BY <1>1, <2>2
  <2>4. k[1][2] \in NcNodes
    BY <2>3 DEF NcPaths
  <2>5. NcSound(old)
    BY <1>8
  <2>6. old.nd \in NcStates /\ \A f \in old.out : NcFrame(f)
    BY <2>5 DEF NcSound
  <2> HIDE DEF u, old
  <2>7. NcSound(single)
    BY <2>3, <2>4, <2>6, NcSendsPlain
  <2>8. after[i + 1] = Outcome(single.nd, out, fwd)
    <3>1. after[i + 1] = NcFlushStep(nd, n, order, after, i + 1)
      BY <1>4, <1>6, <2>1
    <3>2. NcFlushStep(nd, n, order, after, i + 1) = NcPut(nd, n, after[i], order[i + 1])
      BY <2>1 DEF NcFlushStep
    <3> QED BY <3>1, <3>2, Zenon DEF NcPut, u, old
  <2>9. single.nd \in NcStates /\ \A f \in out : NcFrame(f)
    BY <2>6, <2>7 DEF NcSound
  <2> HIDE DEF single, out, fwd
  <2>10. NcSound(after[i + 1])
    BY <2>8, <2>9 DEF NcSound, Outcome
  <2> QED BY <2>1, <2>10
<1>9. 0..len \subseteq S
  <2> HIDE DEF S
  <2> QED BY <1>2, <1>7, <1>8, NumbersUpTo
<1> QED BY <1>2, <1>4, <1>6, <1>9

\* The parts of a run of batadv_nc_worker before the flush
NcAgedBy(nd, d) ==
  [nd EXCEPT !.coding = Aged(@, d), !.decoding = Aged(@, d),
             !.timestamp_fwd_flush = Later(@, d), !.timestamp_sniffed_purge = Later(@, d)]
NcPurgedOf(nd, gone) ==
  [nc_purge_orig(nd, gone) EXCEPT !.coding = nc_purge_paths(@, PathFactor * FwdDelay),
                                  !.decoding = nc_purge_paths(@, PathFactor * BufferTime)]
NcSniffed(o) ==
  [o EXCEPT !.nd.decoding = nc_process_nc_paths(@, BufferTime),
            !.nd.timestamp_sniffed_purge = 0]

LEMMA NcAgesNode ==
  ASSUME NEW nd \in NcStates, NEW d \in Nat
  PROVE  NcAgedBy(nd, d) \in NcStates
<1> DEFINE c == Aged(nd.coding, d)
           e == Aged(nd.decoding, d)
           t == Later(nd.timestamp_fwd_flush, d)
           s == Later(nd.timestamp_sniffed_purge, d)
<1>1. /\ nd.coding \in NcHash(NcWaiting) /\ nd.decoding \in NcHash(NcOpening)
      /\ nd.timestamp_fwd_flush \in Nat /\ nd.timestamp_sniffed_purge \in Nat
  BY DEF NcStates
<1>2. \A a \in Nat : Later(a, d) \in Nat
  BY NcAssumption DEF Later
<1>3. \A w \in NcWaiting : [w EXCEPT !.age = Later(@, d)] \in NcWaiting
  BY <1>2 DEF NcWaiting
<1>4. \A w \in NcOpening : [w EXCEPT !.age = Later(@, d)] \in NcOpening
  BY <1>2 DEF NcOpening
<1>5. c \in NcHash(NcWaiting)
  BY <1>1, <1>3, NcAges
<1>6. e \in NcHash(NcOpening)
  BY <1>1, <1>4, NcAges
<1>7. t \in Nat /\ s \in Nat
  BY <1>1, <1>2
<1>8. NcAgedBy(nd, d) = [nd EXCEPT !.coding = c, !.decoding = e, !.timestamp_fwd_flush = t,
                                   !.timestamp_sniffed_purge = s]
  BY DEF NcAgedBy
<1> HIDE DEF c, e, t, s
<1> QED BY <1>5, <1>6, <1>7, <1>8 DEF NcStates

LEMMA NcPurgesNode ==
  ASSUME NEW nd \in NcStates, NEW gone
  PROVE  NcPurgedOf(nd, gone) \in NcStates
<1> DEFINE c == nc_purge_paths(nd.coding, PathFactor * FwdDelay)
           e == nc_purge_paths(nd.decoding, PathFactor * BufferTime)
           h == nd.hears \ gone
<1>1. /\ nd.coding \in NcHash(NcWaiting) /\ nd.decoding \in NcHash(NcOpening)
      /\ nd.hears \in SUBSET NcPaths
  BY DEF NcStates
<1>2. c \in NcHash(NcWaiting) /\ e \in NcHash(NcOpening)
  BY <1>1, NcPurges
<1>3. h \in SUBSET NcPaths
  BY <1>1
<1>4. nc_purge_orig(nd, gone) = [nd EXCEPT !.hears = h]
  BY DEF nc_purge_orig
<1>5. NcPurgedOf(nd, gone) = [[nd EXCEPT !.hears = h] EXCEPT !.coding = c, !.decoding = e]
  BY <1>4 DEF NcPurgedOf, NcStates
<1> HIDE DEF c, e, h
<1> QED BY <1>2, <1>3, <1>5 DEF NcStates

LEMMA NcSniffs ==
  ASSUME NEW o, NcSound(o)
  PROVE  NcSound(NcSniffed(o))
<1> DEFINE nd == o.nd
           e == nc_process_nc_paths(nd.decoding, BufferTime)
           new == [nd EXCEPT !.decoding = e, !.timestamp_sniffed_purge = 0]
<1>1. /\ o = Outcome(nd, o.out, o.fwd) /\ nd \in NcStates /\ \A f \in o.out : NcFrame(f)
  BY DEF NcSound
<1>2. nd.decoding \in NcHash(NcOpening)
  BY <1>1 DEF NcStates
<1>3. e \in NcHash(NcOpening)
  BY <1>2, NcProcesses
<1>4. new \in NcStates
  <2> HIDE DEF e, nd
  <2> QED BY <1>1, <1>3 DEF NcStates
<1>5. NcSniffed(o) = Outcome(new, o.out, o.fwd)
  <2>1. NcSniffed(o) = [o EXCEPT !.nd = new]
    BY <1>1 DEF NcSniffed, Outcome
  <2> HIDE DEF new, nd
  <2> QED BY <1>1, <2>1 DEF Outcome
<1> HIDE DEF new
<1> QED BY <1>1, <1>4, <1>5 DEF NcSound, Outcome

-----------------------------------------------------------------------------
(* The steps *)

NcOnAir(s) == \A a \in s : a = <<a[1], a[2]>> /\ NcFrame(a[1]) /\ a[2] \in NcNodes

\* What is buffered, overheard or on the air is always some sent packet, or
\* two of them in one frame; so is what was delivered.
NcCarried ==
  /\ nc \in [NcNodes -> NcStates]
  /\ NcOnAir(air)
  /\ NcDeliveredIsSent

LEMMA NcEnds ==
  ASSUME nc \in [NcNodes -> NcStates], NEW n \in NcNodes, NEW o, NcSound(o),
         NEW rest, NcOnAir(rest), Done(n, o, rest)
  PROVE  nc' \in [NcNodes -> NcStates] /\ NcOnAir(air')
<1>1. o.nd \in NcStates /\ \A f \in o.out : NcFrame(f)
  BY DEF NcSound
<1>2. nc' = [nc EXCEPT ![n] = o.nd]
  BY DEF Done
<1>3. nc' \in [NcNodes -> NcStates]
  BY <1>1, <1>2
<1>4. air' = rest \cup {<<f, m>> : f \in o.out, m \in NcNeighbours[n]}
  BY DEF Done
<1>5. NcNeighbours[n] \subseteq NcNodes
  BY NcAssumption
<1>6. ASSUME NEW a \in air' PROVE a = <<a[1], a[2]>> /\ NcFrame(a[1]) /\ a[2] \in NcNodes
  <2>1. CASE a \in rest
    BY <2>1 DEF NcOnAir
  <2>2. CASE a \in {<<f, m>> : f \in o.out, m \in NcNeighbours[n]}
    <3>1. PICK f \in o.out, m \in NcNeighbours[n] : a = <<f, m>>
      BY <2>2
    <3> QED BY <1>1, <1>5, <3>1
  <2> QED BY <1>4, <2>1, <2>2
<1> QED BY <1>3, <1>6 DEF NcOnAir

\* A packet that was taken out of a frame, at node n
LEMMA NcUnpacks ==
  ASSUME NcCarried, NEW n \in NcNodes, NEW nd \in NcStates, NEW prev \in NcNodes,
         NEW u \in NcUnicasts, NEW rest, NcOnAir(rest), Unpacked(n, nd, prev, u, rest)
  PROVE  NcCarried'
<1>0. nc \in [NcNodes -> NcStates] /\ NcDeliveredIsSent
  BY DEF NcCarried
<1>1. PICK p \in NcPackets : u.dest = NcDst[p] /\ u.body = Body(p)
  BY NcUnicastIs
<1>2. CASE u.dest = n
  <2> DEFINE o == Outcome(nd, {}, {})
             new == [dest |-> u.dest, body |-> u.body]
  <2>1. ncDelivered' = ncDelivered \cup {new} /\ Done(n, o, rest)
    BY <1>2 DEF Unpacked
  <2>2. NcSound(o)
    BY DEF NcSound, Outcome
  <2> HIDE DEF o
  <2>3. nc' \in [NcNodes -> NcStates] /\ NcOnAir(air')
    BY <1>0, <2>1, <2>2, NcEnds
  <2>4. new = [dest |-> NcDst[p], body |-> Body(p)]
    BY <1>1
  <2> HIDE DEF new
  <2>5. NcDeliveredIsSent'
    BY <1>0, <2>1, <2>4 DEF NcDeliveredIsSent, Body
  <2> QED BY <2>3, <2>5 DEF NcCarried, NcOnAir
<1>3. CASE u.dest # n
  <2> DEFINE next == NcNextHop[<<n, u.dest>>]
  <2>1. PICK failed \in BOOLEAN : \E o \in nc_skb_forward(nd, n, prev, next, u, failed) :
                                    Done(n, o, rest)
    BY <1>3 DEF Unpacked
  <2>2. PICK o \in nc_skb_forward(nd, n, prev, next, u, failed) : Done(n, o, rest)
    BY <2>1
  <2>3. next \in NcNodes
    BY <1>1, NcAssumption
  <2> HIDE DEF next
  <2>4. NcSound(o)
    BY <2>2, <2>3, NcForwards
  <2>5. nc' \in [NcNodes -> NcStates] /\ NcOnAir(air')
    BY <1>0, <2>2, <2>4, NcEnds
  <2>6. ncDelivered' = ncDelivered
    BY <1>3 DEF Unpacked
  <2>7. NcDeliveredIsSent'
    BY <1>0, <2>6 DEF NcDeliveredIsSent, Body
  <2> QED BY <2>5, <2>7 DEF NcCarried, NcOnAir
<1> QED BY <1>2, <1>3

\* A unicast frame, for the node or overheard
LEMMA NcRecvUnicast ==
  ASSUME NcCarried, NEW a \in air, RecvUnicast(a[2], a[1])
  PROVE  NcCarried'
<1> DEFINE n == a[2]
           f == a[1]
           rest == air \ {<<f, n>>}
<1>1. /\ nc \in [NcNodes -> NcStates] /\ NcDeliveredIsSent
      /\ NcOnAir(rest) /\ NcFrame(f) /\ n \in NcNodes
  BY DEF NcCarried, NcOnAir
<1>2. f.type = "UNICAST"
  BY DEF RecvUnicast
<1>3. f \in NcPlainFrames
  BY <1>1, <1>2 DEF NcFrame, NcCodedFrame
<1>4. PICK p \in NcPackets : f.dest = NcDst[p] /\ f.body = Body(p)
  BY <1>3 DEF NcPlainFrames
<1>5. f.src \in NcNodes /\ f.dst \in NcNodes
  BY <1>3 DEF NcPlainFrames
<1> DEFINE u == [dest |-> f.dest, body |-> f.body, decoded |-> FALSE]
<1>6. u \in NcUnicasts
  BY <1>4, NcIsUnicast
<1>7. nc[n] \in NcStates
  BY <1>1
<1> HIDE DEF rest, u
<1>8. CASE f.dst # n
  <2> DEFINE nd == nc_skb_store_for_decoding(nc[n], <<f.src, f.dst>>, f.body)
             o == Outcome(nd, {}, {})
  <2>1. Done(n, o, rest) /\ ncDelivered' = ncDelivered
    BY <1>8 DEF RecvUnicast, rest
  <2>2. <<f.src, f.dst>> \in NcPaths /\ f.body \in NcPayloads
    BY <1>4, <1>5 DEF NcPaths, NcPayloads
  <2>3. nd \in NcStates
    BY <1>7, <2>2, NcStores
  <2> HIDE DEF nd
  <2>4. NcSound(o)
    BY <2>3 DEF NcSound, Outcome
  <2> HIDE DEF o
  <2>5. nc' \in [NcNodes -> NcStates] /\ NcOnAir(air')
    BY <1>1, <2>1, <2>4, NcEnds
  <2>6. NcDeliveredIsSent'
    BY <1>1, <2>1 DEF NcDeliveredIsSent, Body
  <2> QED BY <2>5, <2>6 DEF NcCarried, NcOnAir
<1>9. CASE f.dst = n
  <2>1. Unpacked(n, nc[n], f.src, u, rest)
    BY <1>9 DEF RecvUnicast, rest, u
  <2> QED BY <1>1, <1>5, <1>6, <1>7, <2>1, NcUnpacks
<1> QED BY <1>8, <1>9

\* The packets that open a coded frame: batadv_nc_find_decoding_packet
LEMMA NcOpenersAre ==
  ASSUME NEW nd, NEW n, NEW f, NEW j \in Openers(nd, n, f)
  PROVE  /\ j[1] = <<IF f.second_dest = n THEN f.first_source ELSE f.second_source, f.src>>
         /\ j[1] \in DOMAIN nd.decoding
         /\ j[2] \in DOMAIN nd.decoding[j[1]].packet_list
         /\ nd.decoding[j[1]].packet_list[j[2]].body
              = IF f.second_dest = n THEN f.first_crc ELSE f.second_crc
<1> DEFINE path == <<IF f.second_dest = n THEN f.first_source ELSE f.second_source, f.src>>
           id == IF f.second_dest = n THEN f.first_crc ELSE f.second_crc
           list == nd.decoding[path].packet_list
           I == {i \in DOMAIN list : list[i].body = id}
<1>1. Openers(nd, n, f) = IF ~(path \in DOMAIN nd.decoding) THEN {} ELSE {<<path, i>> : i \in I}
  BY Zenon DEF Openers, nc_hash_find
<1> HIDE DEF path, id
<1>2. path \in DOMAIN nd.decoding
  BY <1>1
<1>3. PICK i \in I : j = <<path, i>>
  BY <1>1, <1>2
<1> QED BY <1>2, <1>3 DEF path, id

\* A coded frame gives the packet its reader lacks (batadv_nc_recv_coded_packet).
LEMMA NcCodedIs ==
  ASSUME NcCarried, NEW a \in air, nc_recv_coded_packet(a[2], a[1])
  PROVE  LET n == a[2]  f == a[1]  rest == air \ {<<f, n>>} IN
         /\ f.type = "CODED" /\ f.src \in NcNodes
         /\ \/ air' = rest /\ UNCHANGED <<nc, ncDelivered, ncTaken, ncSent, ncFaults, ncLate>>
            \/ \E nd \in NcStates, u \in NcUnicasts :
                 /\ nd.coding = nc[n].coding
                 /\ nd.timestamp_fwd_flush = nc[n].timestamp_fwd_flush
                 /\ u.body = IF f.second_dest = n THEN f.second_crc ELSE f.first_crc
                 /\ Unpacked(n, nd, f.src, u, rest)
<1> DEFINE n == a[2]
           f == a[1]
           rest == air \ {<<f, n>>}
           found == Openers(nc[n], n, f)
           k == CHOOSE j \in found : \A i \in found : j[2] <= i[2]
           list == nc[n].decoding[k[1]].packet_list
           nd == [nc[n] EXCEPT !.decoding[k[1]].packet_list = SeqsExt!RemoveAt(@, k[2])]
           stored == list[k[2]].body
           u == nc_skb_decode_packet(n, f, stored)
<1>1. /\ nc \in [NcNodes -> NcStates] /\ NcDeliveredIsSent
      /\ NcOnAir(rest) /\ NcFrame(f) /\ n \in NcNodes
  BY DEF NcCarried, NcOnAir
<1>2. f.type = "CODED"
  BY Zenon DEF nc_recv_coded_packet
<1>3. PICK p, q \in NcPackets : NcCodedFrame(f, p, q)
  BY <1>1, <1>2 DEF NcFrame, NcPlainFrames
<1>4. nc[n] \in NcStates /\ nc[n].decoding \in NcHash(NcOpening)
  BY <1>1 DEF NcStates
<1>5. \/ air' = rest /\ UNCHANGED <<nc, ncDelivered, ncTaken, ncSent, ncFaults, ncLate>>
      \/ found # {} /\ Unpacked(n, nd, f.src, u, rest)
  BY Zenon DEF nc_recv_coded_packet
<1>6. f.src \in NcNodes
  BY <1>3 DEF NcCodedFrame
<1>7. ASSUME found # {}, Unpacked(n, nd, f.src, u, rest)
      PROVE  \E st \in NcStates, v \in NcUnicasts :
               /\ st.coding = nc[n].coding
               /\ st.timestamp_fwd_flush = nc[n].timestamp_fwd_flush
               /\ v.body = IF f.second_dest = n THEN f.second_crc ELSE f.first_crc
               /\ Unpacked(n, st, f.src, v, rest)
  <2> DEFINE path == <<IF f.second_dest = n THEN f.first_source ELSE f.second_source, f.src>>
             id == IF f.second_dest = n THEN f.first_crc ELSE f.second_crc
  <2>1. \A j \in found : /\ j[1] = path /\ j[1] \in DOMAIN nc[n].decoding
                         /\ j[2] \in DOMAIN nc[n].decoding[j[1]].packet_list
                         /\ nc[n].decoding[j[1]].packet_list[j[2]].body = id
    BY NcOpenersAre
  <2>2. k \in found
    <3>1. \A j \in found : j[2] \in Nat
      <4>1. ASSUME NEW j \in found PROVE j[2] \in Nat
        <5>1. nc[n].decoding[j[1]] \in NcPath(NcOpening)
          <6>1. j[1] \in DOMAIN nc[n].decoding
            BY <2>1
          <6> QED BY <1>4, <6>1, NcHashIs
        <5>2. nc[n].decoding[j[1]].packet_list \in Seq(NcOpening)
          BY <5>1 DEF NcPath
        <5>3. j[2] \in DOMAIN nc[n].decoding[j[1]].packet_list
          BY <2>1
        <5> DEFINE s == nc[n].decoding[j[1]].packet_list
        <5>4. s \in Seq(NcOpening) /\ j[2] \in DOMAIN s
          BY <5>2, <5>3
        <5> HIDE DEF s
        <5>5. DOMAIN s = 1..Len(s) /\ Len(s) \in Nat
          BY <5>4
        <5> QED BY <5>4, <5>5
      <4> QED BY <4>1
    <3> HIDE DEF found
    <3> DEFINE T == {j[2] : j \in found}
    <3>2. T \in SUBSET Nat /\ T # {}
      BY <1>7, <3>1, Zenon
    <3>3. PICK x \in T : \A y \in T : x <= y
      BY <3>2, SmallestNumber
    <3>4. \E j \in found : \A i \in found : j[2] <= i[2]
      BY <3>3
    <3> HIDE DEF T
    <3> QED BY <3>4
  <2> HIDE DEF found, k
  <2>3. /\ k[1] \in DOMAIN nc[n].decoding /\ k[2] \in DOMAIN list /\ stored = id
    BY <2>1, <2>2, Zenon
  <2> DEFINE e == [nc[n].decoding EXCEPT ![k[1]].packet_list = SeqsExt!RemoveAt(@, k[2])]
  <2>4. e \in NcHash(NcOpening)
    BY <1>4, <2>3, NcTakes
  <2>5. nd = [nc[n] EXCEPT !.decoding = e]
    OBVIOUS
  <2> HIDE DEF e, nd
  <2>6. /\ nd \in NcStates /\ nd.coding = nc[n].coding
        /\ nd.timestamp_fwd_flush = nc[n].timestamp_fwd_flush
    BY <1>4, <2>4, <2>5 DEF NcStates
  <2> DEFINE v == nc_skb_decode_packet(n, f, id)
  <2>7. /\ v \in NcUnicasts
        /\ v.body = IF f.second_dest = n THEN f.second_crc ELSE f.first_crc
    BY <1>1, <1>3, NcOpens
  <2> HIDE DEF stored, id
  <2>8. u = v
    BY <2>3
  <2> HIDE DEF u, v, rest, list
  <2> QED BY <1>7, <2>6, <2>7, <2>8
<1> HIDE DEF rest
<1>8. \/ air' = rest /\ UNCHANGED <<nc, ncDelivered, ncTaken, ncSent, ncFaults, ncLate>>
      \/ \E st \in NcStates, v \in NcUnicasts :
           /\ st.coding = nc[n].coding
           /\ st.timestamp_fwd_flush = nc[n].timestamp_fwd_flush
           /\ v.body = IF f.second_dest = n THEN f.second_crc ELSE f.first_crc
           /\ Unpacked(n, st, f.src, v, rest)
  BY <1>5, <1>7, Zenon
<1> QED BY <1>2, <1>6, <1>8 DEF rest

LEMMA NcRecvCoded ==
  ASSUME NcCarried, NEW a \in air, nc_recv_coded_packet(a[2], a[1])
  PROVE  NcCarried'
<1> DEFINE n == a[2]
           f == a[1]
           rest == air \ {<<f, n>>}
<1>1. nc \in [NcNodes -> NcStates] /\ NcDeliveredIsSent /\ NcOnAir(rest) /\ n \in NcNodes
  BY DEF NcCarried, NcOnAir
<1>2. /\ f.src \in NcNodes
      /\ \/ air' = rest /\ UNCHANGED <<nc, ncDelivered, ncTaken, ncSent, ncFaults, ncLate>>
         \/ \E nd \in NcStates, u \in NcUnicasts :
              /\ nd.coding = nc[n].coding
              /\ nd.timestamp_fwd_flush = nc[n].timestamp_fwd_flush
              /\ u.body = IF f.second_dest = n THEN f.second_crc ELSE f.first_crc
              /\ Unpacked(n, nd, f.src, u, rest)
  BY NcCodedIs
<1> HIDE DEF rest
<1>3. CASE air' = rest /\ UNCHANGED <<nc, ncDelivered, ncTaken, ncSent, ncFaults, ncLate>>
  <2>1. NcDeliveredIsSent'
    BY <1>1, <1>3 DEF NcDeliveredIsSent, Body
  <2> QED BY <1>1, <1>3, <2>1 DEF NcCarried, NcOnAir
<1>4. ASSUME NEW nd \in NcStates, NEW u \in NcUnicasts, Unpacked(n, nd, f.src, u, rest)
      PROVE  NcCarried'
  BY <1>1, <1>2, <1>4, NcUnpacks
<1> QED BY <1>2, <1>3, <1>4

\* A run of batadv_nc_worker, part by part
NcCleared(nd, d, gone) == NcPurgedOf(NcAgedBy(nd, d), gone)
NcRan(nd, n, order) ==
  IF nd.timestamp_fwd_flush > FwdDelay THEN nc_fwd_flush(nd, n, order) ELSE Outcome(nd, {}, {})
NcEnded(o) == IF o.nd.timestamp_sniffed_purge > BufferTime THEN NcSniffed(o) ELSE o

LEMMA NcWorkIs ==
  ASSUME NEW n, NEW d, NEW gone, nc_worker(n, d, gone)
  PROVE  /\ ncLate' = (ncLate \/ d > 1)
         /\ UNCHANGED <<ncDelivered, ncTaken, ncUnsent>>
         /\ \E order \in FlushOrders(NcCleared(nc[n], d, gone)) :
              Done(n, NcEnded(NcRan(NcCleared(nc[n], d, gone), n, order)), air)
BY Zenon DEF nc_worker, NcCleared, NcRan, NcEnded, NcPurgedOf, NcAgedBy, NcSniffed

LEMMA NcWorks ==
  ASSUME NcCarried, NEW n \in NcNodes, NEW d \in Nat, NEW gone, nc_worker(n, d, gone)
  PROVE  NcCarried'
<1> DEFINE purged == NcCleared(nc[n], d, gone)
<1>1. nc \in [NcNodes -> NcStates] /\ NcDeliveredIsSent /\ NcOnAir(air)
  BY DEF NcCarried
<1>2. purged \in NcStates
  BY <1>1, NcAgesNode, NcPurgesNode DEF NcCleared
<1>3. PICK order \in FlushOrders(purged) : Done(n, NcEnded(NcRan(purged, n, order)), air)
  BY NcWorkIs
<1> HIDE DEF purged
<1>4. NcSound(NcRan(purged, n, order))
  <2>1. NcSound(nc_fwd_flush(purged, n, order))
    BY <1>2, NcFlushes
  <2>2. NcSound(Outcome(purged, {}, {}))
    BY <1>2 DEF NcSound, Outcome
  <2> QED BY <2>1, <2>2 DEF NcRan
<1>5. NcSound(NcEnded(NcRan(purged, n, order)))
  BY <1>4, NcSniffs DEF NcEnded
<1>6. nc' \in [NcNodes -> NcStates] /\ NcOnAir(air')
  BY <1>1, <1>3, <1>5, NcEnds
<1>7. ncDelivered' = ncDelivered
  BY NcWorkIs
<1>8. NcDeliveredIsSent'
  BY <1>1, <1>7 DEF NcDeliveredIsSent, Body
<1> QED BY <1>6, <1>8 DEF NcCarried, NcOnAir

LEMMA NcStarts ==
  NcInit => NcCarried
<1> SUFFICES ASSUME NcInit PROVE NcCarried
  OBVIOUS
<1>1. \A E : <<>> \in NcHash(E)
  <2> SUFFICES ASSUME NEW E PROVE <<>> \in NcHash(E)
    OBVIOUS
  <2>1. {} \in SUBSET NcPaths /\ <<>> \in [{} -> NcPath(E)]
    OBVIOUS
  <2> QED BY <2>1, NcIsHash
<1>2. nc_mesh_init \in NcStates
  BY <1>1 DEF nc_mesh_init, NcStates
<1>3. nc \in [NcNodes -> NcStates]
  BY <1>2 DEF NcInit
<1> QED BY <1>3 DEF NcInit, NcCarried, NcOnAir, NcDeliveredIsSent

LEMMA NcKeepsCarrying ==
  NcCarried /\ [NcNext]_ncVars => NcCarried'
<1> SUFFICES ASSUME NcCarried, [NcNext]_ncVars PROVE NcCarried'
  OBVIOUS
<1>0. nc \in [NcNodes -> NcStates] /\ NcDeliveredIsSent /\ NcOnAir(air)
  BY DEF NcCarried
<1>1. ASSUME NEW p \in NcPackets, Originate(p) PROVE NcCarried'
  <2> DEFINE n == NcSrc[p]
             u == [dest |-> NcDst[p], body |-> Body(p), decoded |-> FALSE]
             next == NcNextHop[<<n, NcDst[p]>>]
             o == Plain(nc[n], n, next, u)
  <2>1. Done(n, o, air) /\ ncDelivered' = ncDelivered
    BY <1>1 DEF Originate
  <2>2. n \in NcNodes /\ next \in NcNodes
    BY NcAssumption
  <2>3. u \in NcUnicasts
    BY NcIsUnicast
  <2>4. nc[n] \in NcStates
    BY <1>0, <2>2
  <2> HIDE DEF n, u, next
  <2>5. NcSound(o)
    BY <2>2, <2>3, <2>4, NcSendsPlain
  <2> HIDE DEF o
  <2>6. nc' \in [NcNodes -> NcStates] /\ NcOnAir(air')
    BY <1>0, <2>1, <2>2, <2>5, NcEnds
  <2>7. NcDeliveredIsSent'
    BY <1>0, <2>1 DEF NcDeliveredIsSent, Body
  <2> QED BY <2>6, <2>7 DEF NcCarried, NcOnAir
<1>2. ASSUME NEW a \in air, Recv(a[2], a[1]) PROVE NcCarried'
  BY <1>2, NcRecvUnicast, NcRecvCoded DEF Recv
<1>3. ASSUME NEW a \in air, Miss(a[2], a[1]) PROVE NcCarried'
  <2>1. air' \subseteq air /\ nc' = nc /\ ncDelivered' = ncDelivered
    BY <1>3 DEF Miss
  <2>2. NcDeliveredIsSent'
    BY <1>0, <2>1 DEF NcDeliveredIsSent, Body
  <2> QED BY <1>0, <2>1, <2>2 DEF NcCarried, NcOnAir
<1>4. ASSUME NEW k \in NcOgms, nc_update_nc_node(k[1], k[2], k[3]) PROVE NcCarried'
  <2> DEFINE n == k[1]
             h == nc[n].hears \cup {<<k[2], k[3]>>}
             new == [nc[n] EXCEPT !.hears = h]
  <2>1. n \in NcNodes /\ k[2] \in NcNodes /\ k[3] \in NcNodes
    BY NcAssumption
  <2>2. h \in SUBSET NcPaths
    BY <1>0, <2>1 DEF NcStates, NcPaths
  <2>3. nc' = [nc EXCEPT ![n] = new] /\ air' = air /\ ncDelivered' = ncDelivered
    BY <1>4 DEF nc_update_nc_node
  <2> HIDE DEF h, n
  <2>4. new \in NcStates
    BY <1>0, <2>1, <2>2 DEF NcStates
  <2> HIDE DEF new
  <2>5. NcDeliveredIsSent'
    BY <1>0, <2>3 DEF NcDeliveredIsSent, Body
  <2> QED BY <1>0, <2>3, <2>4, <2>5 DEF NcCarried, NcOnAir
<1>5. ASSUME NEW n \in NcTicking, NEW d \in {1, Late}, NEW gone \in SUBSET nc[n].hears,
             nc_worker(n, d, gone)
      PROVE  NcCarried'
  <2>1. n \in NcNodes /\ d \in Nat
    BY NcAssumption
  <2> QED BY <1>5, <2>1, NcWorks
<1>6. ASSUME NEW n \in NcNodes, nc_status_update(n) PROVE NcCarried'
  <2> DEFINE new == [nc[n] EXCEPT !.on = ~@]
  <2>1. nc' = [nc EXCEPT ![n] = new] /\ air' = air /\ ncDelivered' = ncDelivered
    BY <1>6 DEF nc_status_update
  <2>2. new \in NcStates
    <3>1. (~nc[n].on) \in BOOLEAN
      OBVIOUS
    <3> QED BY <1>0, <3>1 DEF NcStates
  <2> HIDE DEF new
  <2>3. NcDeliveredIsSent'
    BY <1>0, <2>1 DEF NcDeliveredIsSent, Body
  <2> QED BY <1>0, <2>1, <2>2, <2>3 DEF NcCarried, NcOnAir
<1>7. CASE UNCHANGED ncVars
  <2>1. NcDeliveredIsSent'
    BY <1>0, <1>7 DEF NcDeliveredIsSent, ncVars, Body
  <2> QED BY <1>0, <1>7, <2>1 DEF NcCarried, NcOnAir, ncVars
<1> QED BY <1>1, <1>2, <1>3, <1>4, <1>5, <1>6, <1>7 DEF NcNext

\* Whatever was coded, lost, overheard, kept waiting or coded once more on its
\* way, what batadv_nc_skb_decode_packet and the forwarders hand to a node is
\* one of the packets that were sent, whole and meant for that address.
THEOREM NcDelivers ==
  NcSpec => []NcDeliveredIsSent
<1>1. NcCarried => NcDeliveredIsSent
  BY DEF NcCarried
<1> QED BY <1>1, NcStarts, NcKeepsCarrying, PTL DEF NcSpec

-----------------------------------------------------------------------------
(* Where a packet waits *)

\* Packet p waits at place i of path q.
NcSpot(h, p, q, i) ==
  /\ q \in DOMAIN h /\ i \in DOMAIN h[q].packet_list
  /\ h[q].packet_list[i].u.body = Body(p)

NcHolds(h, p) == \E q \in NcPaths, i \in Nat : NcSpot(h, p, q, i)

NcOneSpot(h, p) ==
  \A q, r \in NcPaths : \A i, j \in Nat :
    NcSpot(h, p, q, i) /\ NcSpot(h, p, r, j) => q = r /\ i = j

NcRoute(h, p, next) == \A q \in NcPaths, i \in Nat : NcSpot(h, p, q, i) => q[2] = next

\* Packet p waits in hash g as it did in h.
NcKept(h, g, p) ==
  /\ NcHolds(g, p) <=> NcHolds(h, p)
  /\ NcOneSpot(h, p) => NcOneSpot(g, p)
  /\ \A next : NcRoute(h, p, next) => NcRoute(g, p, next)

\* Packets with the same content are the same packet.
LEMMA NcSameBody ==
  ASSUME NEW p \in NcPackets, NEW q \in NcPackets, Body(p) = Body(q)
  PROVE  p = q
<1>0. NcBlocks[p] \in Nat /\ NcBlocks[p] >= 1 /\ NcBlocks[q] \in Nat /\ NcBlocks[q] >= 1
  BY NcBodyIs
<1>1. 1 \in 1..NcBlocks[p] /\ 1 \in 1..NcBlocks[q]
  BY <1>0
<1>2. Body(p)[1] = {p} /\ Body(q)[1] = {q}
  BY <1>1, NcBodyIs
<1> QED BY <1>2

\* What PacketOf reads from a payload is the packet it belongs to.
LEMMA NcPacketIs ==
  ASSUME NEW p \in NcPackets
  PROVE  PacketOf(Body(p)) = p
<1>0. NcBlocks[p] \in Nat /\ NcBlocks[p] >= 1
  BY NcBodyIs
<1>1. 1 \in 1..NcBlocks[p]
  BY <1>0
<1>2. Body(p)[1] = {p}
  BY <1>1, NcBodyIs
<1> QED BY <1>2 DEF PacketOf

\* A place is a number of a list.
LEMMA NcSpotIs ==
  ASSUME NEW h \in NcHash(NcWaiting), NEW p, NEW q, NEW i, NcSpot(h, p, q, i)
  PROVE  /\ q \in NcPaths /\ i \in Nat /\ i >= 1 /\ i <= Len(h[q].packet_list)
         /\ h[q].packet_list \in Seq(NcWaiting) /\ h[q] \in NcPath(NcWaiting)
<1>1. DOMAIN h \subseteq NcPaths /\ h \in [DOMAIN h -> NcPath(NcWaiting)]
  BY NcHashIs
<1>2. q \in DOMAIN h /\ i \in DOMAIN h[q].packet_list
  BY DEF NcSpot
<1>3. h[q] \in NcPath(NcWaiting)
  BY <1>1, <1>2
<1>4. h[q].packet_list \in Seq(NcWaiting)
  BY <1>3 DEF NcPath
<1>5. DOMAIN h[q].packet_list = 1..Len(h[q].packet_list) /\ Len(h[q].packet_list) \in Nat
  BY <1>4
<1> QED BY <1>1, <1>2, <1>3, <1>4, <1>5

\* The same places: nothing changes.
LEMMA NcSamePlaces ==
  ASSUME NEW h, NEW g, NEW p,
         \A q \in NcPaths, i \in Nat : NcSpot(g, p, q, i) <=> NcSpot(h, p, q, i)
  PROVE  NcKept(h, g, p)
BY DEF NcKept, NcHolds, NcOneSpot, NcRoute

\* Places that move up along their path
LEMMA NcShifted ==
  ASSUME NEW h, NEW g, NEW p, NEW F \in [NcPaths \X Nat -> Nat],
         \A q \in NcPaths : \A i, j \in Nat : F[<<q, i>>] = F[<<q, j>>] => i = j,
         \A q \in NcPaths, i \in Nat : NcSpot(g, p, q, i) => NcSpot(h, p, q, F[<<q, i>>]),
         \A q \in NcPaths, j \in Nat :
           NcSpot(h, p, q, j) => \E i \in Nat : NcSpot(g, p, q, i)
  PROVE  NcKept(h, g, p)
<1>1. \A q \in NcPaths, i \in Nat : F[<<q, i>>] \in Nat
  OBVIOUS
<1>2. NcHolds(g, p) <=> NcHolds(h, p)
  BY <1>1 DEF NcHolds
<1>3. NcOneSpot(h, p) => NcOneSpot(g, p)
  <2> SUFFICES ASSUME NcOneSpot(h, p), NEW q \in NcPaths, NEW r \in NcPaths,
                      NEW i \in Nat, NEW j \in Nat,
                      NcSpot(g, p, q, i), NcSpot(g, p, r, j)
               PROVE  q = r /\ i = j
    BY DEF NcOneSpot
  <2>1. NcSpot(h, p, q, F[<<q, i>>]) /\ NcSpot(h, p, r, F[<<r, j>>])
    OBVIOUS
  <2>2. q = r /\ F[<<q, i>>] = F[<<r, j>>]
    BY <1>1, <2>1 DEF NcOneSpot
  <2> QED BY <2>2
<1>4. \A next : NcRoute(h, p, next) => NcRoute(g, p, next)
  BY <1>1 DEF NcRoute
<1> QED BY <1>2, <1>3, <1>4 DEF NcKept

\* Path `path' of g has entry e behind the entries old that it has in h.
NcAdded(h, path, e, g, old) ==
  /\ (path \in DOMAIN h => h[path].packet_list = old) /\ (path \notin DOMAIN h => old = <<>>)
  /\ DOMAIN g = DOMAIN h \cup {path} /\ \A q \in DOMAIN g \ {path} : g[q] = h[q]
  /\ DOMAIN old = 1..Len(old) /\ Len(old) \in Nat
  /\ DOMAIN g[path].packet_list = 1..(Len(old) + 1)
  /\ \A i \in 1..Len(old) : g[path].packet_list[i] = old[i]
  /\ g[path].packet_list[Len(old) + 1] = e

\* batadv_nc_skb_add_to_path puts the packet at the end of its path.
LEMMA NcAddIs ==
  ASSUME NEW h \in NcHash(NcWaiting), NEW path \in NcPaths, NEW e \in NcWaiting,
         NEW g, g = nc_skb_add_to_path(h, path, e)
  PROVE  \E old \in Seq(NcWaiting) : NcAdded(h, path, e, g, old)
<1> DEFINE D == DOMAIN h \cup {path}
           got == nc_get_path(h, path)
           old == IF path \in DOMAIN h THEN h[path].packet_list ELSE <<>>
<1>1. /\ DOMAIN h \subseteq NcPaths /\ h \in [DOMAIN h -> NcPath(NcWaiting)]
  BY NcHashIs
<1>2. got = [q \in D |-> IF q # path THEN h[q]
                         ELSE [last_valid |-> 0, packet_list |-> old]]
  BY DEF nc_get_path, nc_hash_find
<1>3. old \in Seq(NcWaiting) /\ Len(old) \in Nat
  BY <1>1 DEF NcPath
<1>4. DOMAIN old = 1..Len(old)
  BY <1>3
<1>5. (path \in DOMAIN h => h[path].packet_list = old) /\ (path \notin DOMAIN h => old = <<>>)
  OBVIOUS
<1> HIDE DEF old
<1>6. got \in [D -> {got[q] : q \in D}] /\ got[path].packet_list = old
      /\ \A q \in D \ {path} : got[q] = h[q]
  BY <1>2
<1>7. g = [got EXCEPT ![path].packet_list = Append(@, e)]
  BY DEF nc_skb_add_to_path
<1> HIDE DEF got
<1>8. /\ DOMAIN g = D
      /\ \A q \in D \ {path} : g[q] = h[q]
      /\ g[path].packet_list = Append(old, e)
  <2>1. got[path] = [last_valid |-> 0, packet_list |-> old]
    BY <1>2
  <2>2. g = [got EXCEPT ![path] = [got[path] EXCEPT !.packet_list = Append(old, e)]]
    BY <1>6, <1>7
  <2>3. [got[path] EXCEPT !.packet_list = Append(old, e)].packet_list = Append(old, e)
    BY <2>1
  <2> QED BY <1>6, <2>2, <2>3
<1>9. /\ DOMAIN Append(old, e) = 1..(Len(old) + 1)
      /\ \A i \in 1..Len(old) : Append(old, e)[i] = old[i]
      /\ Append(old, e)[Len(old) + 1] = e
  BY <1>3
<1>10. /\ DOMAIN g[path].packet_list = 1..(Len(old) + 1)
       /\ \A i \in 1..Len(old) : g[path].packet_list[i] = old[i]
       /\ g[path].packet_list[Len(old) + 1] = e
  BY <1>8, <1>9
<1>11. DOMAIN g = DOMAIN h \cup {path} /\ \A q \in DOMAIN g \ {path} : g[q] = h[q]
  BY <1>8
<1>12. NcAdded(h, path, e, g, old)
  BY <1>3, <1>4, <1>5, <1>10, <1>11 DEF NcAdded
<1> QED BY <1>3, <1>12

\* batadv_nc_skb_add_to_path gives a packet one place and leaves the others theirs.
LEMMA NcAddsSpot ==
  ASSUME NEW h \in NcHash(NcWaiting), NEW path \in NcPaths, NEW e \in NcWaiting,
         NEW p \in NcPackets, e.u.body = Body(p)
  PROVE  /\ \A r \in NcPackets \ {p} : NcKept(h, nc_skb_add_to_path(h, path, e), r)
         /\ ~NcHolds(h, p) =>
              LET g == nc_skb_add_to_path(h, path, e) IN
              NcHolds(g, p) /\ NcOneSpot(g, p) /\ NcRoute(g, p, path[2])
<1> DEFINE g == nc_skb_add_to_path(h, path, e)
<1>0. g = nc_skb_add_to_path(h, path, e)
  OBVIOUS
<1> HIDE DEF g
<1>1. PICK old \in Seq(NcWaiting) : NcAdded(h, path, e, g, old)
  BY <1>0, NcAddIs
<1>10. \A r, i : NcSpot(g, r, path, i) <=>
          \/ NcSpot(h, r, path, i)
          \/ i = Len(old) + 1 /\ Body(p) = Body(r)
  <2> TAKE r, i
  <2>1. NcSpot(g, r, path, i) <=>
          i \in 1..(Len(old) + 1) /\ g[path].packet_list[i].u.body = Body(r)
    BY <1>1 DEF NcSpot, NcAdded
  <2>2. NcSpot(h, r, path, i) <=> i \in 1..Len(old) /\ old[i].u.body = Body(r)
    BY <1>1 DEF NcSpot, NcAdded
  <2>3. i \in 1..(Len(old) + 1) <=> i \in 1..Len(old) \/ i = Len(old) + 1
    BY <1>1 DEF NcAdded
  <2>4. ~(Len(old) + 1 \in 1..Len(old))
    BY <1>1 DEF NcAdded
  <2> QED BY <1>1, <2>1, <2>2, <2>3, <2>4 DEF NcAdded
<1>11. \A r, i : \A q \in NcPaths \ {path} : NcSpot(g, r, q, i) <=> NcSpot(h, r, q, i)
  BY <1>1 DEF NcSpot, NcAdded
<1>12. ASSUME NEW r \in NcPackets \ {p} PROVE NcKept(h, g, r)
  <2>1. Body(p) # Body(r)
    BY <1>12, NcSameBody
  <2> QED BY <1>10, <1>11, <2>1, NcSamePlaces
<1>13. ASSUME ~NcHolds(h, p)
       PROVE  NcHolds(g, p) /\ NcOneSpot(g, p) /\ NcRoute(g, p, path[2])
  <2>1. \A q \in NcPaths, i \in Nat : NcSpot(g, p, q, i) <=> q = path /\ i = Len(old) + 1
    BY <1>10, <1>11, <1>13 DEF NcHolds
  <2>2. Len(old) + 1 \in Nat
    BY <1>1 DEF NcAdded
  <2> QED BY <2>1, <2>2 DEF NcHolds, NcOneSpot, NcRoute
<1> QED BY <1>12, <1>13 DEF g

\* The list without its entry at i
LEMMA NcRemoved ==
  ASSUME NEW E, NEW s \in Seq(E), NEW i \in 1..Len(s)
  PROVE  LET t == SeqsExt!RemoveAt(s, i) IN
         /\ DOMAIN t = 1..(Len(s) - 1)
         /\ \A j \in 1..(Len(s) - 1) : t[j] = IF j < i THEN s[j] ELSE s[j + 1]
<1> DEFINE a == SubSeq(s, 1, i - 1)
           b == SubSeq(s, i + 1, Len(s))
           t == SeqsExt!RemoveAt(s, i)
<1>1. t = a \o b
  BY DEF SeqsExt!RemoveAt
<1>2. /\ a \in Seq(E) /\ Len(a) = i - 1 /\ \A j \in 1..(i - 1) : a[j] = s[j]
  OBVIOUS
<1>3. /\ b \in Seq(E) /\ Len(b) = Len(s) - i /\ \A j \in 1..(Len(s) - i) : b[j] = s[i + j]
  OBVIOUS
<1> HIDE DEF a, b, t
<1>4. /\ Len(a \o b) = Len(a) + Len(b) /\ DOMAIN (a \o b) = 1..Len(a \o b)
      /\ \A j \in 1..(Len(a) + Len(b)) :
           (a \o b)[j] = IF j <= Len(a) THEN a[j] ELSE b[j - Len(a)]
  <2>1. a \in Seq(E) /\ b \in Seq(E)
    BY <1>2, <1>3
  <2> QED BY <2>1
<1>5. DOMAIN t = 1..(Len(s) - 1)
  BY <1>1, <1>2, <1>3, <1>4
<1>6. ASSUME NEW j \in 1..(Len(s) - 1)
      PROVE  t[j] = IF j < i THEN s[j] ELSE s[j + 1]
  <2>1. CASE j < i
    <3>1. j <= Len(a) /\ j \in 1..(Len(a) + Len(b)) /\ j \in 1..(i - 1)
      BY <1>2, <1>3, <1>6, <2>1
    <3> QED BY <1>1, <1>2, <1>4, <2>1, <3>1
  <2>2. CASE j >= i
    <3>1. (a \o b)[j] = b[j - Len(a)]
      <4>1. ~(j <= Len(a)) /\ j \in 1..(Len(a) + Len(b))
        BY <1>2, <1>3, <1>6, <2>2
      <4> QED BY <1>4, <4>1
    <3>2. j - Len(a) \in 1..(Len(s) - i) /\ i + (j - Len(a)) = j + 1
      BY <1>2, <1>6, <2>2
    <3> DEFINE x == j - Len(a)
    <3>3. b[x] = s[i + x]
      BY <1>3, <3>2
    <3>4. s[i + x] = s[j + 1]
      BY <3>2
    <3>5. ~(j < i)
      BY <1>6, <2>2
    <3> QED BY <1>1, <3>1, <3>3, <3>4, <3>5
  <2> QED BY <2>1, <2>2
<1> QED BY <1>5, <1>6 DEF t

\* Path `path' of g lacks the entry i that it has in h.
NcTakenOut(h, path, i, g) ==
  LET s == h[path].packet_list  t == g[path].packet_list IN
  /\ DOMAIN g = DOMAIN h /\ \A q \in DOMAIN h \ {path} : g[q] = h[q]
  /\ s \in Seq(NcWaiting) /\ Len(s) \in Nat /\ DOMAIN s = 1..Len(s) /\ i \in 1..Len(s)
  /\ DOMAIN t = 1..(Len(s) - 1)
  /\ \A j \in 1..(Len(s) - 1) : t[j] = IF j < i THEN s[j] ELSE s[j + 1]

\* Taking an entry out of a path moves those behind it up.
LEMMA NcTakeIs ==
  ASSUME NEW h \in NcHash(NcWaiting), NEW path \in DOMAIN h,
         NEW i \in DOMAIN h[path].packet_list,
         NEW g, g = [h EXCEPT ![path].packet_list = SeqsExt!RemoveAt(@, i)]
  PROVE  NcTakenOut(h, path, i, g)
<1> DEFINE s == h[path].packet_list
           t == SeqsExt!RemoveAt(s, i)
<1>1. /\ DOMAIN h \subseteq NcPaths /\ h \in [DOMAIN h -> NcPath(NcWaiting)]
      /\ path \in NcPaths /\ h[path] \in NcPath(NcWaiting)
  BY NcHashIs
<1>2. s \in Seq(NcWaiting)
  BY <1>1 DEF NcPath
<1>3. i \in 1..Len(s) /\ Len(s) \in Nat /\ DOMAIN s = 1..Len(s)
  BY <1>2
<1> HIDE DEF s
<1>4. /\ DOMAIN t = 1..(Len(s) - 1)
      /\ \A j \in 1..(Len(s) - 1) : t[j] = IF j < i THEN s[j] ELSE s[j + 1]
  BY <1>2, <1>3, NcRemoved
<1>5. /\ DOMAIN g = DOMAIN h /\ g[path].packet_list = t
      /\ \A q \in DOMAIN h \ {path} : g[q] = h[q]
  <2>1. g = [h EXCEPT ![path] = [h[path] EXCEPT !.packet_list = t]]
    BY DEF s
  <2>2. [h[path] EXCEPT !.packet_list = t].packet_list = t
    BY <1>1 DEF NcPath
  <2> HIDE DEF t
  <2> QED BY <1>1, <2>1, <2>2
<1> QED BY <1>2, <1>3, <1>4, <1>5 DEF NcTakenOut, s

\* A partner leaves its path (batadv_nc_skb_src_search).
LEMMA NcTakesSpot ==
  ASSUME NEW h \in NcHash(NcWaiting), NEW path \in DOMAIN h,
         NEW i \in DOMAIN h[path].packet_list, NEW p \in NcPackets,
         h[path].packet_list[i].u.body = Body(p), NcOneSpot(h, p),
         NEW g, g = [h EXCEPT ![path].packet_list = SeqsExt!RemoveAt(@, i)]
  PROVE  ~NcHolds(g, p) /\ \A r \in NcPackets \ {p} : NcKept(h, g, r)
<1> DEFINE s == h[path].packet_list
           t == g[path].packet_list
<1>1. path \in NcPaths
  BY NcHashIs
<1>2. NcTakenOut(h, path, i, g)
  BY NcTakeIs
<1>3. i \in 1..Len(s) /\ Len(s) \in Nat /\ DOMAIN s = 1..Len(s)
  BY <1>2 DEF NcTakenOut
<1>4. /\ DOMAIN t = 1..(Len(s) - 1)
      /\ \A j \in 1..(Len(s) - 1) : t[j] = IF j < i THEN s[j] ELSE s[j + 1]
  BY <1>2 DEF NcTakenOut
<1>5. /\ DOMAIN g = DOMAIN h /\ g[path].packet_list = t
      /\ \A q \in DOMAIN h \ {path} : g[q] = h[q]
  BY <1>2 DEF NcTakenOut
<1> HIDE DEF s, t
<1> DEFINE F == [x \in NcPaths \X Nat |-> IF x[1] = path /\ x[2] >= i THEN x[2] + 1 ELSE x[2]]
<1>6. \A r, j : j \in Nat => (NcSpot(g, r, path, j) => NcSpot(h, r, path, F[<<path, j>>]))
  <2> TAKE r, j
  <2> HAVE j \in Nat
  <2> HAVE NcSpot(g, r, path, j)
  <2>1. j \in 1..(Len(s) - 1) /\ t[j].u.body = Body(r)
    BY <1>4, <1>5 DEF NcSpot
  <2>2. F[<<path, j>>] = IF j >= i THEN j + 1 ELSE j
    BY <1>1
  <2> HIDE DEF F
  <2>3. F[<<path, j>>] \in 1..Len(s) /\ s[F[<<path, j>>]] = t[j]
    BY <1>3, <1>4, <2>1, <2>2
  <2> QED BY <1>3, <2>1, <2>3 DEF NcSpot, s
<1>7. \A r, q, j : q \in NcPaths \ {path} /\ j \in Nat =>
        (NcSpot(g, r, q, j) <=> NcSpot(h, r, q, j)) /\ F[<<q, j>>] = j
  BY <1>5 DEF NcSpot
<1>8. \A j \in Nat : F[<<path, j>>] # i
  BY <1>1, <1>3
<1>9. F \in [NcPaths \X Nat -> Nat]
  BY <1>3
<1>10. \A q \in NcPaths : \A j, k \in Nat : F[<<q, j>>] = F[<<q, k>>] => j = k
  BY <1>3
<1> HIDE DEF F
<1>11. NcSpot(h, p, path, i)
  BY <1>3 DEF NcSpot, s
<1>12. ~NcHolds(g, p)
  <2> SUFFICES ASSUME NEW q \in NcPaths, NEW j \in Nat, NcSpot(g, p, q, j) PROVE FALSE
    BY DEF NcHolds
  <2>1. NcSpot(h, p, q, F[<<q, j>>]) /\ F[<<q, j>>] \in Nat
    BY <1>6, <1>7, <1>9
  <2>2. q = path /\ F[<<q, j>>] = i
    BY <1>1, <1>3, <1>11, <2>1 DEF NcOneSpot
  <2> QED BY <1>8, <2>2
<1>13. ASSUME NEW r \in NcPackets \ {p} PROVE NcKept(h, g, r)
  <2>1. Body(r) # Body(p)
    BY <1>13, NcSameBody
  <2>2. ASSUME NEW q \in NcPaths, NEW j \in Nat, NcSpot(h, r, q, j)
        PROVE  \E k \in Nat : NcSpot(g, r, q, k)
    <3>1. CASE q # path
      BY <1>7, <2>2, <3>1
    <3>2. CASE q = path
      <4>1. j \in 1..Len(s) /\ s[j].u.body = Body(r)
        BY <1>3, <2>2, <3>2 DEF NcSpot, s
      <4>2. j # i
        BY <2>1, <4>1 DEF s
      <4> DEFINE k == IF j < i THEN j ELSE j - 1
      <4>3. k \in 1..(Len(s) - 1) /\ t[k] = s[j]
        BY <1>3, <1>4, <4>1, <4>2
      <4> HIDE DEF k
      <4>4. NcSpot(g, r, path, k) /\ k \in Nat
        BY <1>4, <1>5, <4>1, <4>3 DEF NcSpot
      <4> QED BY <3>2, <4>4
    <3> QED BY <3>1, <3>2
  <2>3. \A q \in NcPaths, j \in Nat : NcSpot(g, r, q, j) => NcSpot(h, r, q, F[<<q, j>>])
    BY <1>6, <1>7
  <2> QED BY <1>9, <1>10, <2>2, <2>3, NcShifted
<1> QED BY <1>12, <1>13

\* Time changes no place.
LEMMA NcAgedSpot ==
  ASSUME NEW h \in NcHash(NcWaiting), NEW d \in Nat, NEW p
  PROVE  NcKept(h, Aged(h, d), p)
<1> DEFINE g == Aged(h, d)
<1>1. DOMAIN g = DOMAIN h
  BY DEF Aged
<1>2. ASSUME NEW q \in DOMAIN h
      PROVE  /\ DOMAIN g[q].packet_list = DOMAIN h[q].packet_list
             /\ \A i \in DOMAIN h[q].packet_list :
                  g[q].packet_list[i].u = h[q].packet_list[i].u
  <2>1. g[q].packet_list = [i \in DOMAIN h[q].packet_list |->
                              [h[q].packet_list[i] EXCEPT !.age = Later(@, d)]]
    BY <1>2 DEF Aged
  <2>2. h[q].packet_list \in Seq(NcWaiting)
    BY <1>2, NcHashIs DEF NcPath
  <2>3. \A i \in DOMAIN h[q].packet_list : h[q].packet_list[i] \in NcWaiting
    BY <2>2
  <2>4. \A e \in NcWaiting : [e EXCEPT !.age = Later(@, d)].u = e.u
    BY DEF NcWaiting
  <2> QED BY <2>1, <2>3, <2>4
<1> HIDE DEF g
<1>3. \A q, i : NcSpot(g, p, q, i) <=> NcSpot(h, p, q, i)
  BY <1>1, <1>2 DEF NcSpot
<1>4. NcKept(h, g, p)
  BY <1>3, NcSamePlaces
<1> QED BY <1>4 DEF g

\* A path is only removed when nothing waits on it (batadv_nc_purge_paths).
LEMMA NcPurgedSpot ==
  ASSUME NEW h \in NcHash(NcWaiting), NEW timeout, NEW p
  PROVE  NcKept(h, nc_purge_paths(h, timeout), p)
<1> DEFINE g == nc_purge_paths(h, timeout)
           D == {q \in DOMAIN h : h[q].last_valid <= timeout \/ h[q].packet_list # <<>>}
<1>1. g = [q \in D |-> h[q]]
  BY DEF nc_purge_paths
<1>2. ASSUME NEW q, NEW i, NcSpot(h, p, q, i)
      PROVE  q \in D
  <2>1. q \in DOMAIN h /\ i \in DOMAIN h[q].packet_list
    BY <1>2 DEF NcSpot
  <2>2. h[q].packet_list # <<>>
    BY <2>1
  <2> QED BY <2>1, <2>2
<1>3. D \subseteq DOMAIN h
  OBVIOUS
<1> HIDE DEF g, D
<1>4. \A q, i : NcSpot(g, p, q, i) <=> NcSpot(h, p, q, i)
  BY <1>1, <1>2, <1>3 DEF NcSpot
<1>5. NcKept(h, g, p)
  BY <1>4, NcSamePlaces
<1> QED BY <1>5 DEF g

-----------------------------------------------------------------------------
(* What is overdue on a path is its beginning *)

\* The packets that have waited too long are the first ones of a path.
LEMMA NcExpiredIs ==
  ASSUME NEW list \in Seq(NcWaiting), NEW timeout \in Nat
  PROVE  \E k \in 0..Len(list) :
           /\ Expired(list, timeout) = 1..k /\ Cardinality(Expired(list, timeout)) = k
           /\ k < Len(list) => list[k + 1].age <= timeout
<1> DEFINE n == Len(list)
           Late1 == {i \in 1..n : list[i].age <= timeout}
           T == Late1 \cup {n + 1}
<1>1. n \in Nat /\ DOMAIN list = 1..n
  OBVIOUS
<1>2. \A i \in 1..n : list[i].age \in Nat
  <2>1. \A i \in 1..n : list[i] \in NcWaiting
    OBVIOUS
  <2> QED BY <2>1 DEF NcWaiting
<1>3. T \in SUBSET Nat /\ T # {}
  OBVIOUS
<1> HIDE DEF T
<1>4. PICK x \in T : \A y \in T : x <= y
  BY <1>3, SmallestNumber
<1>5. x \in 1..(n + 1)
  BY <1>1, <1>4 DEF T
<1> DEFINE k == x - 1
<1>6. k \in 0..n /\ k \in Nat
  BY <1>1, <1>5
<1>7. \A j \in 1..k : list[j].age > timeout
  <2> SUFFICES ASSUME NEW j \in 1..k PROVE list[j].age > timeout
    OBVIOUS
  <2>1. j \in 1..n /\ ~(x <= j)
    BY <1>5, <1>1
  <2>2. j \notin T
    BY <1>4, <2>1
  <2>3. ~(list[j].age <= timeout)
    BY <2>1, <2>2 DEF T
  <2> QED BY <1>2, <2>1, <2>3
<1>8. k < n => list[k + 1].age <= timeout
  <2> SUFFICES ASSUME k < n PROVE list[x].age <= timeout
    BY <1>5
  <2>1. x # n + 1
    BY <1>5, <1>1
  <2> QED BY <1>4, <2>1 DEF T
<1>9. Expired(list, timeout) = 1..k
  <2>1. ASSUME NEW i \in Expired(list, timeout) PROVE i \in 1..k
    <3>1. i \in 1..n /\ \A j \in 1..i : list[j].age > timeout
      BY <1>1, <2>1 DEF Expired
    <3>2. CASE i >= x
      <4>1. x \in 1..i /\ x \in 1..n /\ k < n
        BY <1>5, <1>1, <3>1, <3>2
      <4>2. list[x].age > timeout /\ list[x].age <= timeout
        BY <1>8, <3>1, <4>1, <1>5
      <4> QED BY <1>2, <4>1, <4>2
    <3>3. CASE ~(i >= x)
      BY <1>5, <1>1, <3>1, <3>3
    <3> QED BY <3>2, <3>3
  <2>2. ASSUME NEW i \in 1..k PROVE i \in Expired(list, timeout)
    <3>1. i \in DOMAIN list /\ 1..i \subseteq 1..k
      BY <1>1, <1>6
    <3> QED BY <1>7, <3>1 DEF Expired
  <2> QED BY <2>1, <2>2
<1>10. Cardinality(1..k) = k
  <2> HIDE DEF k
  <2>1. Cardinality(1..k) = IF 1 > k THEN 0 ELSE k - 1 + 1
    BY <1>6, FS_Interval
  <2> QED BY <1>6, <2>1
<1> HIDE DEF k
<1> QED BY <1>6, <1>8, <1>9, <1>10

\* What the flush leaves on a path (batadv_nc_process_nc_paths)
LEMMA NcCutIs ==
  ASSUME NEW h \in NcHash(NcWaiting), NEW timeout \in Nat, NEW q \in DOMAIN h
  PROVE  \E k \in 0..Len(h[q].packet_list) :
           LET list == h[q].packet_list
               rest == nc_process_nc_paths(h, timeout)[q].packet_list IN
           /\ Expired(list, timeout) = 1..k
           /\ k < Len(list) => list[k + 1].age <= timeout
           /\ DOMAIN rest = 1..(Len(list) - k)
           /\ \A i \in 1..(Len(list) - k) : rest[i] = list[i + k]
<1> DEFINE list == h[q].packet_list
           rest == nc_process_nc_paths(h, timeout)[q].packet_list
<1>1. h[q] \in NcPath(NcWaiting)
  BY NcHashIs
<1>2. list \in Seq(NcWaiting)
  BY <1>1 DEF NcPath
<1>3. rest = SubSeq(list, Cardinality(Expired(list, timeout)) + 1, Len(list))
  BY <1>1 DEF nc_process_nc_paths, NcPath
<1> HIDE DEF list, rest
<1>4. PICK k \in 0..Len(list) :
        /\ Expired(list, timeout) = 1..k /\ Cardinality(Expired(list, timeout)) = k
        /\ k < Len(list) => list[k + 1].age <= timeout
  BY <1>2, NcExpiredIs
<1>5. rest = SubSeq(list, k + 1, Len(list))
  BY <1>3, <1>4
<1>6. /\ DOMAIN rest = 1..(Len(list) - k)
      /\ \A i \in 1..(Len(list) - k) : rest[i] = list[i + k]
  BY <1>2, <1>4, <1>5
<1> QED BY <1>4, <1>6 DEF list, rest

\* What is not overdue moves up; what is overdue is gone.
LEMMA NcCutSpot ==
  ASSUME NEW h \in NcHash(NcWaiting), NEW timeout \in Nat, NEW p,
         NEW g, g = nc_process_nc_paths(h, timeout)
  PROVE  /\ (\A q \in NcPaths, i \in Nat :
               NcSpot(h, p, q, i) => i \notin Expired(h[q].packet_list, timeout))
              => NcKept(h, g, p)
         /\ NcOneSpot(h, p) /\ (\E q \in NcPaths, i \in Nat :
               NcSpot(h, p, q, i) /\ i \in Expired(h[q].packet_list, timeout))
              => ~NcHolds(g, p)
<1> DEFINE list(q) == h[q].packet_list
           K(q) == CHOOSE k \in 0..Len(list(q)) :
                     /\ Expired(list(q), timeout) = 1..k
                     /\ DOMAIN g[q].packet_list = 1..(Len(list(q)) - k)
                     /\ \A i \in 1..(Len(list(q)) - k) : g[q].packet_list[i] = list(q)[i + k]
<1>1. ASSUME NEW q \in DOMAIN h
      PROVE  /\ K(q) \in 0..Len(list(q)) /\ Len(list(q)) \in Nat
             /\ DOMAIN list(q) = 1..Len(list(q))
             /\ Expired(list(q), timeout) = 1..K(q)
             /\ DOMAIN g[q].packet_list = 1..(Len(list(q)) - K(q))
             /\ \A i \in 1..(Len(list(q)) - K(q)) : g[q].packet_list[i] = list(q)[i + K(q)]
  <2>1. h[q] \in NcPath(NcWaiting)
    BY <1>1, NcHashIs
  <2>2. list(q) \in Seq(NcWaiting)
    BY <2>1 DEF NcPath
  <2>3. \E k \in 0..Len(list(q)) :
          /\ Expired(list(q), timeout) = 1..k
          /\ DOMAIN g[q].packet_list = 1..(Len(list(q)) - k)
          /\ \A i \in 1..(Len(list(q)) - k) : g[q].packet_list[i] = list(q)[i + k]
    BY <1>1, NcCutIs
  <2> HIDE DEF list
  <2>4. Len(list(q)) \in Nat /\ DOMAIN list(q) = 1..Len(list(q))
    BY <2>2
  <2> QED BY <2>3, <2>4
<1>2. DOMAIN g = DOMAIN h /\ DOMAIN h \subseteq NcPaths
  BY NcHashIs DEF nc_process_nc_paths
<1> HIDE DEF K
<1>3. \A q, i : NcSpot(g, p, q, i) <=>
          /\ q \in DOMAIN h /\ i \in 1..(Len(list(q)) - K(q))
          /\ list(q)[i + K(q)].u.body = Body(p)
  BY <1>1, <1>2 DEF NcSpot
<1>4. \A q, i : NcSpot(h, p, q, i) <=>
          /\ q \in DOMAIN h /\ i \in 1..Len(list(q)) /\ list(q)[i].u.body = Body(p)
  BY <1>1 DEF NcSpot
<1> HIDE DEF list
<1> DEFINE F == [x \in NcPaths \X Nat |-> IF x[1] \in DOMAIN h THEN x[2] + K(x[1]) ELSE x[2]]
<1>5. F \in [NcPaths \X Nat -> Nat]
  BY <1>1
<1>6. \A q \in NcPaths : \A i, j \in Nat : F[<<q, i>>] = F[<<q, j>>] => i = j
  BY <1>1
<1>7. \A q \in DOMAIN h, i \in Nat : F[<<q, i>>] = i + K(q)
  BY <1>2
<1> HIDE DEF F
<1>8. \A q \in NcPaths, i \in Nat : NcSpot(g, p, q, i) => NcSpot(h, p, q, F[<<q, i>>])
  <2> TAKE q \in NcPaths, i \in Nat
  <2> HAVE NcSpot(g, p, q, i)
  <2>1. q \in DOMAIN h /\ i \in 1..(Len(list(q)) - K(q)) /\ list(q)[i + K(q)].u.body = Body(p)
    BY <1>3
  <2>2. i + K(q) \in 1..Len(list(q))
    BY <1>1, <2>1
  <2> QED BY <1>4, <1>7, <2>1, <2>2
<1>9. ASSUME \A q \in NcPaths, i \in Nat :
               NcSpot(h, p, q, i) => i \notin Expired(list(q), timeout)
      PROVE  NcKept(h, g, p)
  <2>1. ASSUME NEW q \in NcPaths, NEW j \in Nat, NcSpot(h, p, q, j)
        PROVE  \E i \in Nat : NcSpot(g, p, q, i)
    <3>1. q \in DOMAIN h /\ j \in 1..Len(list(q)) /\ list(q)[j].u.body = Body(p)
      BY <1>4, <2>1
    <3>2. j \notin 1..K(q)
      BY <1>1, <1>9, <2>1, <3>1
    <3> DEFINE i == j - K(q)
    <3>3. i \in 1..(Len(list(q)) - K(q)) /\ i + K(q) = j /\ i \in Nat
      BY <1>1, <3>1, <3>2
    <3> HIDE DEF i
    <3> QED BY <1>3, <3>1, <3>3
  <2> QED BY <1>5, <1>6, <1>8, <2>1, NcShifted
<1>10. ASSUME NcOneSpot(h, p), NEW q \in NcPaths, NEW i \in Nat,
              NcSpot(h, p, q, i), i \in Expired(list(q), timeout)
       PROVE  ~NcHolds(g, p)
  <2> SUFFICES ASSUME NEW r \in NcPaths, NEW j \in Nat, NcSpot(g, p, r, j) PROVE FALSE
    BY DEF NcHolds
  <2>1. NcSpot(h, p, r, F[<<r, j>>]) /\ F[<<r, j>>] \in Nat
    BY <1>5, <1>8
  <2>2. r = q /\ F[<<r, j>>] = i
    BY <1>10, <2>1 DEF NcOneSpot
  <2>3. q \in DOMAIN h /\ j \in 1..(Len(list(q)) - K(q))
    BY <1>3, <2>2
  <2>4. i = j + K(q) /\ i \in 1..K(q)
    BY <1>1, <1>7, <1>10, <2>2, <2>3
  <2> QED BY <1>1, <2>3, <2>4
<1> QED BY <1>9, <1>10 DEF list

-----------------------------------------------------------------------------
(* What a step of a forwarder does with its packets *)

\* A step leaves the buffers of the node as h, and the rest of what matters here.
NcBuffers(nd, o, h) ==
  /\ o.nd.coding = h /\ o.nd.hears = nd.hears
  /\ o.nd.timestamp_fwd_flush = nd.timestamp_fwd_flush

\* Overhearing a packet leaves what waits to be forwarded.
LEMMA NcStoresAside ==
  ASSUME NEW nd \in NcStates, NEW path \in NcPaths, NEW body \in NcPayloads
  PROVE  LET s == nc_skb_store_for_decoding(nd, path, body) IN
         /\ s \in NcStates /\ s.coding = nd.coding /\ s.hears = nd.hears
         /\ s.timestamp_fwd_flush = nd.timestamp_fwd_flush
<1>1. nc_skb_store_for_decoding(nd, path, body) \in NcStates
  BY NcStores
<1> DEFINE d == nc_skb_add_to_path(nd.decoding, path, [body |-> body, age |-> 0])
<1>2. nc_skb_store_for_decoding(nd, path, body) = IF ~nd.on THEN nd ELSE [nd EXCEPT !.decoding = d]
  BY DEF nc_skb_store_for_decoding
<1> HIDE DEF d
<1> QED BY <1>1, <1>2 DEF NcStates

\* A packet sent as it is leaves the buffers of the node.
LEMMA NcPlainIs ==
  ASSUME NEW nd \in NcStates, NEW n \in NcNodes, NEW next \in NcNodes, NEW u \in NcUnicasts
  PROVE  LET o == Plain(nd, n, next, u) IN
         /\ NcBuffers(nd, o, nd.coding) /\ o.nd \in NcStates
         /\ o.out = {Unicast(n, next, u)} /\ o.fwd = {u.body}
<1> DEFINE s == nc_skb_store_for_decoding(nd, <<n, next>>, u.body)
<1>1. u.body \in NcPayloads /\ <<n, next>> \in NcPaths
  BY NcUnicastIs DEF NcPaths
<1>2. /\ s \in NcStates /\ s.coding = nd.coding /\ s.hears = nd.hears
      /\ s.timestamp_fwd_flush = nd.timestamp_fwd_flush
  BY <1>1, NcStoresAside
<1>3. Plain(nd, n, next, u) = Outcome(s, {Unicast(n, next, u)}, {u.body})
  BY DEF Plain
<1> HIDE DEF s
<1> QED BY <1>2, <1>3 DEF Outcome, NcBuffers

\* The partner at k, and the two packets that meet: how they go on
NcOther(nd, k) ==
  [prev |-> k[1], next |-> k[2], u |-> nd.coding[<<k[1], k[2]>>].packet_list[k[3]].u]

NcWithout(nd, k) ==
  [nd.coding EXCEPT ![<<k[1], k[2]>>].packet_list = SeqsExt!RemoveAt(@, k[3])]

NcBothGo(nd, n, one, k, o) ==
  LET other == NcOther(nd, k) IN
  /\ NcBuffers(nd, o, NcWithout(nd, k))
  /\ o.fwd = {one.u.body, other.u.body}
  /\ \/ o.out = {Unicast(n, one.next, one.u), Unicast(n, other.next, other.u)}
     \/ o.out = {nc_code_packets(n, other, one)}
     \/ o.out = {nc_code_packets(n, one, other)}

\* When a packet meets a partner, both go on at once, coded or one after the other.
LEMMA NcMeets ==
  ASSUME NEW nd \in NcStates, NEW n \in NcNodes, NEW one,
         one.prev \in NcNodes, one.next \in NcNodes, one.u \in NcUnicasts,
         NEW k \in Partners(nd, one.prev, one.next, one.u), NEW failed \in BOOLEAN,
         NEW o \in WithPartner(nd, n, one, k, failed)
  PROVE  NcBothGo(nd, n, one, k, o)
<1> DEFINE path == <<k[1], k[2]>>
           other == NcOther(nd, k)
           taken == [nd EXCEPT !.coding[path].packet_list = SeqsExt!RemoveAt(@, k[3])]
           stored == nc_skb_store_before_coding(taken, n, one, other)
           both == {one.u.body, other.u.body}
           single == Plain(stored, n, other.next, other.u)
           twice == Plain(single.nd, n, one.next, one.u)
<1>1. /\ k[1] \in NcNodes /\ k[2] \in NcNodes /\ path \in DOMAIN nd.coding
      /\ k[3] \in DOMAIN nd.coding[path].packet_list
  BY DEF Partners, nc_hash_find
<1>2. nd.coding \in NcHash(NcWaiting)
  BY DEF NcStates
<1>3. /\ nd.coding[path].packet_list[k[3]] \in NcWaiting
      /\ NcWithout(nd, k) \in NcHash(NcWaiting)
  <2> HIDE DEF path
  <2>1. /\ nd.coding[path].packet_list[k[3]] \in NcWaiting
        /\ [nd.coding EXCEPT ![path].packet_list = SeqsExt!RemoveAt(@, k[3])] \in NcHash(NcWaiting)
    BY <1>1, <1>2, NcTakes
  <2> QED BY <2>1 DEF NcWithout, path
<1>4. /\ taken \in NcStates /\ taken.coding = NcWithout(nd, k) /\ taken.hears = nd.hears
      /\ taken.timestamp_fwd_flush = nd.timestamp_fwd_flush
  <2> DEFINE c == NcWithout(nd, k)
  <2>1. taken = [nd EXCEPT !.coding = c]
    BY DEF NcWithout
  <2> HIDE DEF c, taken
  <2>2. c \in NcHash(NcWaiting)
    BY <1>3 DEF c
  <2>3. c = NcWithout(nd, k)
    BY DEF c
  <2> QED BY <2>1, <2>2, <2>3 DEF NcStates
<1>5. other.prev \in NcNodes /\ other.next \in NcNodes /\ other.u \in NcUnicasts
  BY <1>1, <1>3 DEF NcWaiting, NcOther
<1>6. one.u.body \in NcPayloads /\ other.u.body \in NcPayloads
  <2> HIDE DEF other
  <2> QED BY <1>5, NcUnicastIs
<1> HIDE DEF taken, other
<1>7. /\ stored \in NcStates /\ stored.coding = NcWithout(nd, k) /\ stored.hears = nd.hears
      /\ stored.timestamp_fwd_flush = nd.timestamp_fwd_flush
  <2> DEFINE first == nc_skb_store_for_decoding(taken, <<n, one.next>>, one.u.body)
  <2>1. <<n, one.next>> \in NcPaths /\ <<n, other.next>> \in NcPaths
    BY <1>5 DEF NcPaths
  <2>2. /\ first \in NcStates /\ first.coding = taken.coding /\ first.hears = taken.hears
        /\ first.timestamp_fwd_flush = taken.timestamp_fwd_flush
    BY <1>4, <1>6, <2>1, NcStoresAside
  <2>3. stored = nc_skb_store_for_decoding(first, <<n, other.next>>, other.u.body)
    BY DEF nc_skb_store_before_coding
  <2> HIDE DEF first, stored
  <2>4. /\ stored \in NcStates /\ stored.coding = first.coding /\ stored.hears = first.hears
        /\ stored.timestamp_fwd_flush = first.timestamp_fwd_flush
    BY <1>6, <2>1, <2>2, <2>3, NcStoresAside
  <2> QED BY <1>4, <2>2, <2>4
<1> HIDE DEF stored
<1>8. /\ NcBuffers(stored, single, stored.coding) /\ single.nd \in NcStates
      /\ single.out = {Unicast(n, other.next, other.u)}
  BY <1>5, <1>7, NcPlainIs
<1> HIDE DEF single
<1>9. /\ NcBuffers(single.nd, twice, single.nd.coding)
      /\ twice.out = {Unicast(n, one.next, one.u)}
  BY <1>8, NcPlainIs
<1> HIDE DEF twice
<1>10. CASE failed
  <2> DEFINE out == single.out \cup twice.out
  <2>1. o = Outcome(twice.nd, out, both)
    BY <1>10, Zenon DEF WithPartner, path, other, NcOther, taken, stored, single, twice
  <2>2. out = {Unicast(n, one.next, one.u), Unicast(n, other.next, other.u)}
    BY <1>8, <1>9
  <2> HIDE DEF out, both
  <2>3. o.nd = twice.nd /\ o.out = out /\ o.fwd = both
    BY <2>1 DEF Outcome
  <2>4. NcBuffers(nd, o, NcWithout(nd, k))
    BY <1>7, <1>8, <1>9, <2>3 DEF NcBuffers
  <2>5. o.fwd = {one.u.body, other.u.body}
    BY <2>3 DEF both
  <2>6. o.out = {Unicast(n, one.next, one.u), Unicast(n, other.next, other.u)}
    BY <2>2, <2>3
  <2> QED BY <2>4, <2>5, <2>6 DEF NcBothGo, other
<1>11. CASE ~failed
  <2>1. PICK f : /\ f = nc_code_packets(n, other, one) \/ f = nc_code_packets(n, one, other)
                 /\ o = Outcome(stored, {f}, both)
    BY <1>11, Zenon DEF WithPartner, path, other, NcOther, taken, stored
  <2> HIDE DEF both
  <2>3. o.nd = stored /\ o.out = {f} /\ o.fwd = both
    BY <2>1 DEF Outcome
  <2>4. NcBuffers(nd, o, NcWithout(nd, k))
    BY <1>7, <2>3 DEF NcBuffers
  <2>5. o.fwd = {one.u.body, other.u.body}
    BY <2>3 DEF both
  <2>6. \/ o.out = {nc_code_packets(n, other, one)}
        \/ o.out = {nc_code_packets(n, one, other)}
    BY <2>1, <2>3
  <2> QED BY <2>4, <2>5, <2>6 DEF NcBothGo, other
<1> QED BY <1>10, <1>11, Zenon

\* The ways to forward a packet (batadv_nc_skb_forward)
LEMMA NcForwardIs ==
  ASSUME NEW nd \in NcStates, NEW n \in NcNodes, NEW prev \in NcNodes, NEW next \in NcNodes,
         NEW u \in NcUnicasts, NEW failed \in BOOLEAN,
         NEW o \in nc_skb_forward(nd, n, prev, next, u, failed)
  PROVE  \/ /\ NcBuffers(nd, o, nd.coding)
            /\ o.out = {Unicast(n, next, u)} /\ o.fwd = {u.body}
         \/ \E k \in Partners(nd, prev, next, u) :
              NcBothGo(nd, n, [prev |-> prev, next |-> next, u |-> u], k, o)
         \/ /\ NcBuffers(nd, o, nc_skb_add_to_path(nd.coding, <<prev, next>>, [u |-> u, age |-> 0]))
            /\ o.out = {} /\ o.fwd = {}
<1> DEFINE one == [prev |-> prev, next |-> next, u |-> u]
           added == nc_skb_add_to_path(nd.coding, <<prev, next>>, [u |-> u, age |-> 0])
           kept == [nd EXCEPT !.coding = added]
<1>1. \/ o = Plain(nd, n, next, u)
      \/ \E k \in Partners(nd, prev, next, u) : o \in WithPartner(nd, n, one, k, failed)
      \/ o = Outcome(kept, {}, {})
  BY DEF nc_skb_forward
<1>2. CASE o = Plain(nd, n, next, u)
  BY <1>2, NcPlainIs
<1>3. ASSUME NEW k \in Partners(nd, prev, next, u), o \in WithPartner(nd, n, one, k, failed)
      PROVE  NcBothGo(nd, n, one, k, o)
  <2>1. one.prev = prev /\ one.next = next /\ one.u = u
    OBVIOUS
  <2> HIDE DEF one
  <2> QED BY <1>3, <2>1, NcMeets
<1>4. CASE o = Outcome(kept, {}, {})
  <2> HIDE DEF added
  <2>1. NcBuffers(nd, o, added) /\ o.out = {} /\ o.fwd = {}
    BY <1>4 DEF Outcome, NcBuffers, NcStates
  <2> QED BY <2>1 DEF added
<1> QED BY <1>1, <1>2, <1>3, <1>4

\* Any order of what is overdue names all of it.
LEMMA NcOrderIs ==
  ASSUME NEW nd \in NcStates, NEW order \in FlushOrders(nd)
  PROVE  /\ Len(order) \in Nat /\ order \in [1..Len(order) -> Overdue(nd)]
         /\ \A k \in Overdue(nd) : \E i \in 1..Len(order) : order[i] = k
<1> DEFINE O == Overdue(nd)
           len == Cardinality(O)
           D == 1..len
<1>1. IsFiniteSet(O) /\ len \in Nat
  BY NcOverdueIs, FS_CardinalityType
<1>2. order \in [D -> O] /\ \A i, j \in D : i # j => order[i] # order[j]
  BY DEF FlushOrders, SeqsExt!SetToSeqs, SeqsExt!Cardinality, Cardinality
<1> HIDE DEF O, len
<1>3. Len(order) = len
  BY <1>1, <1>2
<1>4. order \in Injection(D, O)
  BY <1>2 DEF Injection, IsInjective
<1>5. IsFiniteSet(D) /\ Cardinality(D) = len
  <2>1. IsFiniteSet(1..len) /\ Cardinality(1..len) = IF 1 > len THEN 0 ELSE len - 1 + 1
    BY <1>1, FS_Interval
  <2> QED BY <1>1, <2>1
<1>6. Cardinality(O) = len
  BY DEF len
<1> HIDE DEF D
<1>7. order \in Surjection(D, O)
  BY <1>1, <1>4, <1>5, <1>6, FS_Injection
<1>8. \A k \in O : \E i \in D : order[i] = k
  BY <1>7 DEF Surjection
<1> QED BY <1>1, <1>2, <1>3, <1>8 DEF O, D

\* A packet that is flushed, and where it goes
NcDue(nd, k) == nd.coding[k[1]].packet_list[k[2]].u
NcDueFrame(nd, n, k) == Unicast(n, k[1][2], NcDue(nd, k))

\* The flush sends what is overdue, and nothing else (batadv_nc_fwd_flush).
LEMMA NcFlushSends ==
  ASSUME NEW nd \in NcStates, NEW n \in NcNodes, NEW order \in FlushOrders(nd)
  PROVE  LET o == nc_fwd_flush(nd, n, order) IN
         /\ o.nd \in NcStates
         /\ o.nd.coding = nc_process_nc_paths(nd.coding, FwdDelay)
         /\ o.nd.hears = nd.hears /\ o.nd.timestamp_fwd_flush = 0
         /\ \A f : f \in o.out <=> \E k \in Overdue(nd) : f = NcDueFrame(nd, n, k)
         /\ \A b : b \in o.fwd <=> \E k \in Overdue(nd) : b = NcDue(nd, k).body
<1> DEFINE O == Overdue(nd)
           len == Len(order)
           c == nc_process_nc_paths(nd.coding, FwdDelay)
<1>1. /\ len \in Nat /\ order \in [1..len -> O]
      /\ \A k \in O : \E i \in 1..len : order[i] = k
  BY NcOrderIs
<1>2. \A k \in O : k[1] \in NcPaths /\ NcDue(nd, k) \in NcUnicasts
  BY NcOverdueIs DEF NcDue
<1> HIDE DEF len, O, c
<1>3. PICK after : /\ \A i \in 0..len : after[i] = NcFlushStep(nd, n, order, after, i)
                   /\ nc_fwd_flush(nd, n, order) = after[len]
  <2>1. Len(order) \in Nat
    BY <1>1 DEF len
  <2> QED BY <2>1, NcFlushIs DEF len
<1> DEFINE Good(o, i) ==
             /\ o.nd \in NcStates /\ o.nd.coding = c
             /\ o.nd.hears = nd.hears /\ o.nd.timestamp_fwd_flush = 0
             /\ \A f : f \in o.out <=> \E j \in 1..i : f = NcDueFrame(nd, n, order[j])
             /\ \A b : b \in o.fwd <=> \E j \in 1..i : b = NcDue(nd, order[j]).body
           S == {i \in 0..len : Good(after[i], i)}
<1>4. 0 \in S
  <2> DEFINE fl == NcFlushed(nd)
  <2>1. nd.coding \in NcHash(NcWaiting)
    BY DEF NcStates
  <2>2. c \in NcHash(NcWaiting)
    BY <2>1, NcProcesses DEF c
  <2>3. fl = [nd EXCEPT !.coding = c, !.timestamp_fwd_flush = 0]
    BY DEF NcFlushed, c
  <2> HIDE DEF fl
  <2>4. /\ fl \in NcStates /\ fl.coding = c /\ fl.hears = nd.hears
        /\ fl.timestamp_fwd_flush = 0
    BY <2>2, <2>3 DEF NcStates
  <2>5. after[0] = Outcome(fl, {}, {})
    BY <1>1, <1>3 DEF NcFlushStep, fl
  <2>6. Good(after[0], 0)
    BY <2>4, <2>5 DEF Outcome
  <2> HIDE DEF Good
  <2> QED BY <1>1, <2>6
<1>5. ASSUME NEW i \in 0..(len - 1), i \in S
      PROVE  i + 1 \in S
  <2> DEFINE k == order[i + 1]
             u == NcDue(nd, k)
             old == after[i]
             single == Plain(old.nd, n, k[1][2], u)
             new == after[i + 1]
  <2>1. i + 1 \in 1..len /\ i + 1 \in 0..len /\ (i + 1) - 1 = i /\ i + 1 # 0
    BY <1>1
  <2>2. k \in O
    BY <1>1, <2>1
  <2>3. u \in NcUnicasts /\ k[1] \in NcPaths
    BY <1>2, <2>2
  <2>4. k[1][2] \in NcNodes
    BY <2>3 DEF NcPaths
  <2>5. Good(old, i)
    BY <1>5
  <2>6. new = Outcome(single.nd, old.out \cup single.out, old.fwd \cup single.fwd)
    <3>1. new = NcFlushStep(nd, n, order, after, i + 1)
      BY <1>3, <2>1
    <3>2. NcFlushStep(nd, n, order, after, i + 1) = NcPut(nd, n, after[i], order[i + 1])
      BY <2>1 DEF NcFlushStep
    <3> QED BY <3>1, <3>2, Zenon DEF NcPut, NcDue
  <2> HIDE DEF u, old, k, new
  <2>7. /\ NcBuffers(old.nd, single, old.nd.coding) /\ single.nd \in NcStates
        /\ single.out = {Unicast(n, k[1][2], u)} /\ single.fwd = {u.body}
    BY <2>3, <2>4, <2>5, NcPlainIs
  <2> HIDE DEF single
  <2>8. /\ new.nd = single.nd /\ new.out = old.out \cup single.out
        /\ new.fwd = old.fwd \cup single.fwd
    BY <2>6 DEF Outcome
  <2>9. \A j : j \in 1..(i + 1) <=> j \in 1..i \/ j = i + 1
    BY <1>1
  <2>10. \A f : f \in new.out <=> \E j \in 1..(i + 1) : f = NcDueFrame(nd, n, order[j])
    <3>1. single.out = {NcDueFrame(nd, n, order[i + 1])}
      BY <2>7 DEF NcDueFrame, u, k
    <3> QED BY <2>5, <2>8, <2>9, <3>1
  <2>11. \A b : b \in new.fwd <=> \E j \in 1..(i + 1) : b = NcDue(nd, order[j]).body
    <3>1. single.fwd = {NcDue(nd, order[i + 1]).body}
      BY <2>7 DEF u, k
    <3> QED BY <2>5, <2>8, <2>9, <3>1
  <2>12. Good(new, i + 1)
    BY <2>5, <2>7, <2>8, <2>10, <2>11 DEF NcBuffers
  <2> HIDE DEF Good
  <2> QED BY <2>1, <2>12 DEF new
<1>6. 0..len \subseteq S
  <2> HIDE DEF S
  <2> QED BY <1>1, <1>4, <1>5, NumbersUpTo
<1>7. Good(after[len], len)
  BY <1>1, <1>6
<1> DEFINE o == nc_fwd_flush(nd, n, order)
<1>8. Good(o, len)
  <2> HIDE DEF Good
  <2> QED BY <1>3, <1>7
<1> HIDE DEF o
<1>9. \A f : f \in o.out <=> \E k \in O : f = NcDueFrame(nd, n, k)
  BY <1>1, <1>8
<1>10. \A b : b \in o.fwd <=> \E k \in O : b = NcDue(nd, k).body
  BY <1>1, <1>8
<1> QED BY <1>8, <1>9, <1>10 DEF o, O, c

\* Frame f brings packet p to node m, and m is to open it.
NcCarriesTo(f, m, p) ==
  \/ f.type = "UNICAST" /\ f.dst = m /\ f.body = Body(p)
  \/ f.type = "CODED" /\ IF m = f.second_dest THEN f.second_crc = Body(p)
                         ELSE m = f.dst /\ f.first_crc = Body(p)

NcRouteOf(n, p) == NcNextHop[<<n, NcDst[p]>>]

\* Every packet in the buffers h of node n waits once, for its next hop.
NcTidy(n, h) == \A p \in NcPackets : NcOneSpot(h, p) /\ NcRoute(h, p, NcRouteOf(n, p))

\* What a step with outcome o can do with packet p: nothing, keep it waiting,
\* or send it, once, to its next hop.
NcSilent(o, p) ==
  Body(p) \notin o.fwd /\ \A f \in o.out : \A m \in NcNodes : ~NcCarriesTo(f, m, p)

NcNone(o, p) == NcSilent(o, p) /\ ~NcHolds(o.nd.coding, p)

NcStays(n, o, p) ==
  /\ NcSilent(o, p) /\ NcHolds(o.nd.coding, p)
  /\ NcOneSpot(o.nd.coding, p) /\ NcRoute(o.nd.coding, p, NcRouteOf(n, p))

NcGone(n, o, p) ==
  /\ ~NcHolds(o.nd.coding, p) /\ Body(p) \in o.fwd
  /\ \A f \in o.out : \A m \in NcNodes : NcCarriesTo(f, m, p) => m = NcRouteOf(n, p)
  /\ \A f, g \in o.out : \A m \in NcNodes :
       NcCarriesTo(f, m, p) /\ NcCarriesTo(g, m, p) => f = g

NcFairly(n, h, new, o) ==
  /\ o.fwd \subseteq NcPayloads
  /\ \A p \in NcPackets :
       IF p \in new \/ NcHolds(h, p) THEN NcStays(n, o, p) \/ NcGone(n, o, p)
       ELSE NcNone(o, p)

\* A plain frame brings its packet to the next hop.
LEMMA NcUnicastCarries ==
  ASSUME NEW n, NEW next, NEW u, NEW m, NEW p
  PROVE  NcCarriesTo(Unicast(n, next, u), m, p) <=> next = m /\ u.body = Body(p)
BY DEF NcCarriesTo, Unicast

\* A coded frame brings one of two packets, each to its own next hop.
LEMMA NcCodedCarries ==
  ASSUME NEW n, NEW a, NEW b, NEW m, NEW p, NcCarriesTo(nc_code_packets(n, a, b), m, p)
  PROVE  \/ m = a.next /\ a.u.body = Body(p)
         \/ m = b.next /\ b.u.body = Body(p)
<1> DEFINE f == nc_code_packets(n, a, b)
<1>1. /\ f.type = "CODED" /\ f.dst = a.next /\ f.second_dest = b.next
      /\ f.first_crc = a.u.body /\ f.second_crc = b.u.body
  BY DEF nc_code_packets
<1> HIDE DEF f
<1>2. NcCarriesTo(f, m, p)
  BY DEF f
<1> QED BY <1>1, <1>2 DEF NcCarriesTo

\* A packet that a step does not touch
LEMMA NcUntouched ==
  ASSUME NEW n, NEW h, NcTidy(n, h), NEW o, NEW p \in NcPackets,
         NcKept(h, o.nd.coding, p), NcSilent(o, p)
  PROVE  IF NcHolds(h, p) THEN NcStays(n, o, p) ELSE NcNone(o, p)
<1>1. NcOneSpot(h, p) /\ NcRoute(h, p, NcRouteOf(n, p))
  BY DEF NcTidy
<1>2. /\ NcHolds(o.nd.coding, p) <=> NcHolds(h, p)
      /\ NcOneSpot(o.nd.coding, p) /\ NcRoute(o.nd.coding, p, NcRouteOf(n, p))
  BY <1>1 DEF NcKept
<1>3. CASE NcHolds(h, p)
  BY <1>2, <1>3 DEF NcStays
<1>4. CASE ~NcHolds(h, p)
  BY <1>2, <1>4 DEF NcNone
<1> QED BY <1>3, <1>4

\* A packet that is forwarded is for the node its sender meant.
LEMMA NcPacketOfUnicast ==
  ASSUME NEW u \in NcUnicasts, NEW p \in NcPackets, u.body = Body(p)
  PROVE  u.dest = NcDst[p]
<1>1. PICK q \in NcPackets : u.dest = NcDst[q] /\ u.body = Body(q)
  BY NcUnicastIs
<1>2. q = p
  BY <1>1, NcSameBody
<1> QED BY <1>1, <1>2

\* A packet that goes out alone
LEMMA NcAloneFair ==
  ASSUME NEW n \in NcNodes, NEW next, NEW u, NEW p \in NcPackets, u.body = Body(p),
         next = NcRouteOf(n, p), NEW h, NcTidy(n, h), ~NcHolds(h, p),
         NEW o, o.nd.coding = h, o.out = {Unicast(n, next, u)}, o.fwd = {u.body}
  PROVE  NcFairly(n, h, {p}, o)
<1>1. NcGone(n, o, p)
  <2>1. \A f \in o.out : f = Unicast(n, next, u)
    OBVIOUS
  <2>2. \A f \in o.out : \A m \in NcNodes : NcCarriesTo(f, m, p) => m = NcRouteOf(n, p)
    BY <2>1, NcUnicastCarries
  <2> QED BY <2>1, <2>2 DEF NcGone
<1>2. ASSUME NEW r \in NcPackets \ {p}
      PROVE  IF NcHolds(h, r) THEN NcStays(n, o, r) ELSE NcNone(o, r)
  <2>1. Body(r) # u.body
    BY <1>2, NcSameBody
  <2>2. NcSilent(o, r)
    BY <2>1, NcUnicastCarries DEF NcSilent
  <2>3. NcKept(h, o.nd.coding, r)
    BY DEF NcKept
  <2> QED BY <1>2, <2>2, <2>3, NcUntouched
<1>3. o.fwd \subseteq NcPayloads
  BY DEF NcPayloads
<1> QED BY <1>1, <1>2, <1>3 DEF NcFairly

\* A packet that waits
LEMMA NcWaitsFair ==
  ASSUME NEW n \in NcNodes, NEW prev \in NcNodes, NEW next \in NcNodes,
         NEW u \in NcUnicasts, NEW p \in NcPackets,
         u.body = Body(p), next = NcRouteOf(n, p),
         NEW h \in NcHash(NcWaiting), NcTidy(n, h), ~NcHolds(h, p),
         NEW o, o.nd.coding = nc_skb_add_to_path(h, <<prev, next>>, [u |-> u, age |-> 0]),
         o.out = {}, o.fwd = {}
  PROVE  NcFairly(n, h, {p}, o)
<1> DEFINE e == [u |-> u, age |-> 0]
           path == <<prev, next>>
<1>1. e \in NcWaiting /\ e.u.body = Body(p) /\ path \in NcPaths /\ path[2] = next
  BY DEF NcWaiting, NcPaths
<1>2. \A r \in NcPackets : NcSilent(o, r)
  BY DEF NcSilent
<1>3. o.nd.coding = nc_skb_add_to_path(h, path, e)
  OBVIOUS
<1> HIDE DEF e, path
<1>4. /\ \A r \in NcPackets \ {p} : NcKept(h, nc_skb_add_to_path(h, path, e), r)
      /\ ~NcHolds(h, p) =>
           LET g == nc_skb_add_to_path(h, path, e) IN
           NcHolds(g, p) /\ NcOneSpot(g, p) /\ NcRoute(g, p, path[2])
  BY <1>1, NcAddsSpot
<1>5. NcStays(n, o, p)
  BY <1>1, <1>2, <1>3, <1>4 DEF NcStays
<1>6. \A r \in NcPackets \ {p} : IF NcHolds(h, r) THEN NcStays(n, o, r) ELSE NcNone(o, r)
  BY <1>2, <1>3, <1>4, NcUntouched
<1> QED BY <1>5, <1>6 DEF NcFairly

\* A packet that met its partner
LEMMA NcMeetFair ==
  ASSUME NEW nd \in NcStates, NEW n \in NcNodes, NEW one, NEW p \in NcPackets,
         one.u.body = Body(p), one.next = NcRouteOf(n, p),
         NcTidy(n, nd.coding), ~NcHolds(nd.coding, p),
         NEW k \in Partners(nd, one.prev, one.next, one.u),
         NEW o, NcBothGo(nd, n, one, k, o)
  PROVE  NcFairly(n, nd.coding, {p}, o)
<1> DEFINE h == nd.coding
           path == <<k[1], k[2]>>
           i == k[3]
           other == NcOther(nd, k)
           g == NcWithout(nd, k)
<1>1. h \in NcHash(NcWaiting) /\ path \in DOMAIN h /\ i \in DOMAIN h[path].packet_list
      /\ path \in NcPaths
  BY DEF Partners, nc_hash_find, NcStates, NcPaths
<1>2. /\ other.next = path[2] /\ other.u = h[path].packet_list[i].u
      /\ g = [h EXCEPT ![path].packet_list = SeqsExt!RemoveAt(@, i)]
  BY DEF NcOther, NcWithout
<1>3. /\ o.nd.coding = g /\ o.fwd = {one.u.body, other.u.body}
      /\ \/ o.out = {Unicast(n, one.next, one.u), Unicast(n, other.next, other.u)}
         \/ o.out = {nc_code_packets(n, other, one)}
         \/ o.out = {nc_code_packets(n, one, other)}
  BY DEF NcBothGo, NcBuffers
<1> HIDE DEF h, path, i, other, g
<1>4. h[path].packet_list[i] \in NcWaiting
  BY <1>1, NcTakes
<1>5. other.u \in NcUnicasts
  BY <1>2, <1>4 DEF NcWaiting
<1>6. PICK q \in NcPackets : other.u.dest = NcDst[q] /\ other.u.body = Body(q)
  BY <1>5, NcUnicastIs
<1>7. NcSpot(h, q, path, i)
  BY <1>1, <1>2, <1>6 DEF NcSpot
<1>8. i \in Nat
  BY <1>1, <1>7, NcSpotIs
<1>9. NcHolds(h, q) /\ NcOneSpot(h, q) /\ path[2] = NcRouteOf(n, q)
  BY <1>1, <1>7, <1>8 DEF NcHolds, NcTidy, NcRoute, h
<1>10. q # p
  BY <1>9 DEF h
<1>11. Body(q) # Body(p)
  BY <1>10, NcSameBody
<1>12. ~NcHolds(g, q) /\ \A r \in NcPackets \ {q} : NcKept(h, g, r)
  BY <1>1, <1>2, <1>6, <1>9, NcTakesSpot
<1>13. other.next = NcRouteOf(n, q)
  BY <1>2, <1>9
<1>14. \A f \in o.out : \A m \in NcNodes : \A r \in NcPackets : NcCarriesTo(f, m, r) =>
         \/ r = p /\ m = NcRouteOf(n, p)
         \/ r = q /\ m = NcRouteOf(n, q)
  <2>1. ASSUME NEW f \in o.out, NEW m \in NcNodes, NEW r \in NcPackets, NcCarriesTo(f, m, r)
        PROVE  \/ m = one.next /\ one.u.body = Body(r)
               \/ m = other.next /\ other.u.body = Body(r)
    BY <1>3, <2>1, NcUnicastCarries, NcCodedCarries
  <2>2. \A r \in NcPackets : (Body(p) = Body(r) => r = p) /\ (Body(q) = Body(r) => r = q)
    BY NcSameBody
  <2> QED BY <1>6, <1>13, <2>1, <2>2
<1>15. \A f, e \in o.out : \A m \in NcNodes : \A r \in NcPackets :
         NcCarriesTo(f, m, r) /\ NcCarriesTo(e, m, r) => f = e
  <2>1. CASE o.out = {Unicast(n, one.next, one.u), Unicast(n, other.next, other.u)}
    <3>1. ASSUME NEW m, NEW r
          PROVE  ~(NcCarriesTo(Unicast(n, one.next, one.u), m, r)
                   /\ NcCarriesTo(Unicast(n, other.next, other.u), m, r))
      BY <1>6, <1>11, NcUnicastCarries
    <3> QED BY <2>1, <3>1
  <2> QED BY <1>3, <2>1
<1>16. ASSUME NEW r \in {p, q} PROVE NcGone(n, o, r)
  <2>1. Body(r) \in o.fwd
    BY <1>3, <1>6
  <2>2. ~NcHolds(o.nd.coding, r)
    <3>1. CASE r = q
      BY <1>3, <1>12, <3>1
    <3>2. CASE r = p
      <4>1. NcKept(h, g, p)
        BY <1>10, <1>12
      <4>2. ~NcHolds(h, p)
        BY DEF h
      <4> QED BY <1>3, <3>2, <4>1, <4>2 DEF NcKept
    <3> QED BY <3>1, <3>2
  <2> QED BY <1>10, <1>14, <1>15, <2>1, <2>2 DEF NcGone
<1>17. ASSUME NEW r \in NcPackets \ {p, q}
       PROVE  IF NcHolds(h, r) THEN NcStays(n, o, r) ELSE NcNone(o, r)
  <2>1. Body(r) # Body(p) /\ Body(r) # Body(q)
    BY <1>17, NcSameBody
  <2>2. NcSilent(o, r)
    BY <1>3, <1>6, <1>14, <1>17, <2>1 DEF NcSilent
  <2>3. NcKept(h, o.nd.coding, r) /\ NcTidy(n, h)
    BY <1>3, <1>12, <1>17 DEF h
  <2> QED BY <2>2, <2>3, NcUntouched
<1>18. o.fwd \subseteq NcPayloads
  BY <1>3, <1>6 DEF NcPayloads
<1>19. NcFairly(n, h, {p}, o)
  BY <1>9, <1>16, <1>17, <1>18 DEF NcFairly
<1> QED BY <1>19 DEF h

\* batadv_nc_skb_forward loses no packet and doubles none.
LEMMA NcForwardFair ==
  ASSUME NEW nd \in NcStates, NEW n \in NcNodes, NEW prev \in NcNodes,
         NEW u \in NcUnicasts, NEW p \in NcPackets, u.body = Body(p),
         NcTidy(n, nd.coding), ~NcHolds(nd.coding, p), NEW failed \in BOOLEAN,
         NEW o \in nc_skb_forward(nd, n, prev, NcNextHop[<<n, u.dest>>], u, failed)
  PROVE  NcFairly(n, nd.coding, {p}, o)
<1> DEFINE next == NcNextHop[<<n, u.dest>>]
<1>1. next = NcRouteOf(n, p) /\ next \in NcNodes
  BY NcPacketOfUnicast, NcAssumption DEF NcRouteOf
<1>2. o \in nc_skb_forward(nd, n, prev, next, u, failed)
  OBVIOUS
<1> HIDE DEF next
<1> DEFINE one == [prev |-> prev, next |-> next, u |-> u]
           added == nc_skb_add_to_path(nd.coding, <<prev, next>>, [u |-> u, age |-> 0])
<1>3. \/ NcBuffers(nd, o, nd.coding) /\ o.out = {Unicast(n, next, u)} /\ o.fwd = {u.body}
      \/ \E k \in Partners(nd, prev, next, u) : NcBothGo(nd, n, one, k, o)
      \/ NcBuffers(nd, o, added) /\ o.out = {} /\ o.fwd = {}
  BY <1>1, <1>2, NcForwardIs
<1>4. one.prev = prev /\ one.next = next /\ one.u = u
  OBVIOUS
<1>5. nd.coding \in NcHash(NcWaiting)
  BY DEF NcStates
<1> HIDE DEF one
<1>6. CASE NcBuffers(nd, o, nd.coding) /\ o.out = {Unicast(n, next, u)} /\ o.fwd = {u.body}
  BY <1>1, <1>6, NcAloneFair DEF NcBuffers
<1>7. CASE \E k \in Partners(nd, prev, next, u) : NcBothGo(nd, n, one, k, o)
  BY <1>1, <1>4, <1>7, NcMeetFair
<1>8. CASE NcBuffers(nd, o, added) /\ o.out = {} /\ o.fwd = {}
  BY <1>1, <1>5, <1>8, NcWaitsFair DEF NcBuffers
<1> QED BY <1>3, <1>6, <1>7, <1>8

\* A packet that is overdue is at its place.
LEMMA NcOverdueSpot ==
  ASSUME NEW nd \in NcStates
  PROVE  /\ \A k \in Overdue(nd) :
              /\ k[1] \in NcPaths /\ k[2] \in Nat /\ k = <<k[1], k[2]>>
              /\ k[2] \in Expired(nd.coding[k[1]].packet_list, FwdDelay)
              /\ \A p : NcDue(nd, k).body = Body(p) => NcSpot(nd.coding, p, k[1], k[2])
         /\ \A p, q, i :
              NcSpot(nd.coding, p, q, i) /\ i \in Expired(nd.coding[q].packet_list, FwdDelay)
              => <<q, i>> \in Overdue(nd) /\ NcDue(nd, <<q, i>>).body = Body(p)
<1> DEFINE h == nd.coding
           X(q) == {<<q, i>> : i \in Expired(h[q].packet_list, FwdDelay)}
<1>1. h \in NcHash(NcWaiting)
  BY DEF NcStates
<1>2. DOMAIN h \subseteq NcPaths /\ h \in [DOMAIN h -> NcPath(NcWaiting)]
  BY <1>1, NcHashIs
<1>3. \A k : k \in Overdue(nd) <=> \E q \in DOMAIN h : k \in X(q)
  BY DEF Overdue
<1>4. ASSUME NEW k \in Overdue(nd)
      PROVE  /\ k[1] \in NcPaths /\ k[2] \in Nat /\ k = <<k[1], k[2]>>
             /\ k[2] \in Expired(h[k[1]].packet_list, FwdDelay)
             /\ \A p : NcDue(nd, k).body = Body(p) => NcSpot(h, p, k[1], k[2])
  <2>1. PICK q \in DOMAIN h : k \in X(q)
    BY <1>3
  <2>2. PICK i \in Expired(h[q].packet_list, FwdDelay) : k = <<q, i>>
    BY <2>1
  <2>3. h[q].packet_list \in Seq(NcWaiting)
    BY <1>2, <2>1 DEF NcPath
  <2>4. i \in DOMAIN h[q].packet_list
    BY <2>2 DEF Expired
  <2>5. i \in Nat
    <3> DEFINE s == h[q].packet_list
    <3>1. s \in Seq(NcWaiting) /\ i \in DOMAIN s
      BY <2>3, <2>4
    <3> HIDE DEF s
    <3>2. DOMAIN s = 1..Len(s)
      BY <3>1
    <3> QED BY <3>1, <3>2
  <2>6. k[1] = q /\ k[2] = i
    BY <2>2
  <2> QED BY <1>2, <2>1, <2>2, <2>4, <2>5, <2>6 DEF NcSpot, NcDue
<1>5. ASSUME NEW p, NEW q, NEW i, NcSpot(h, p, q, i), i \in Expired(h[q].packet_list, FwdDelay)
      PROVE  <<q, i>> \in Overdue(nd) /\ NcDue(nd, <<q, i>>).body = Body(p)
  <2>1. q \in DOMAIN h /\ h[q].packet_list[i].u.body = Body(p)
    BY <1>5 DEF NcSpot
  <2>2. <<q, i>> \in X(q)
    BY <1>5
  <2>3. <<q, i>>[1] = q /\ <<q, i>>[2] = i
    OBVIOUS
  <2> QED BY <1>3, <2>1, <2>2, <2>3 DEF NcDue
<1> QED BY <1>4, <1>5

\* The flush sends each overdue packet once, to its next hop, and keeps the others.
LEMMA NcFlushFair ==
  ASSUME NEW nd \in NcStates, NEW n \in NcNodes, NcTidy(n, nd.coding),
         NEW order \in FlushOrders(nd), NEW o, o = nc_fwd_flush(nd, n, order)
  PROVE  NcFairly(n, nd.coding, {}, o)
<1> DEFINE h == nd.coding
           O == Overdue(nd)
           Old(q) == Expired(h[q].packet_list, FwdDelay)
<1>1. /\ o.nd.coding = nc_process_nc_paths(h, FwdDelay)
      /\ \A f : f \in o.out <=> \E k \in O : f = NcDueFrame(nd, n, k)
      /\ \A b : b \in o.fwd <=> \E k \in O : b = NcDue(nd, k).body
  BY NcFlushSends
<1>2. /\ \A k \in O : /\ k[1] \in NcPaths /\ k[2] \in Nat /\ k = <<k[1], k[2]>>
                      /\ k[2] \in Old(k[1])
                      /\ \A p : NcDue(nd, k).body = Body(p) => NcSpot(h, p, k[1], k[2])
      /\ \A p, q, i : NcSpot(h, p, q, i) /\ i \in Old(q)
                      => <<q, i>> \in O /\ NcDue(nd, <<q, i>>).body = Body(p)
  BY NcOverdueSpot
<1>3. h \in NcHash(NcWaiting) /\ FwdDelay \in Nat
  BY NcAssumption DEF NcStates
<1>4. NcTidy(n, h)
  OBVIOUS
<1> HIDE DEF h, O
<1>5. ASSUME NEW p \in NcPackets
      PROVE  /\ (\A q \in NcPaths, i \in Nat : NcSpot(h, p, q, i) => i \notin Old(q))
                  => NcKept(h, o.nd.coding, p)
             /\ NcOneSpot(h, p) /\ (\E q \in NcPaths, i \in Nat : NcSpot(h, p, q, i) /\ i \in Old(q))
                  => ~NcHolds(o.nd.coding, p)
  BY <1>1, <1>3, NcCutSpot
<1> HIDE DEF Old
<1>6. \A k \in O : \A m, p : NcCarriesTo(NcDueFrame(nd, n, k), m, p) =>
        k[1][2] = m /\ NcSpot(h, p, k[1], k[2])
  <2> TAKE k \in O
  <2> TAKE m, p
  <2>1. NcCarriesTo(NcDueFrame(nd, n, k), m, p) <=> k[1][2] = m /\ NcDue(nd, k).body = Body(p)
    BY NcUnicastCarries DEF NcDueFrame
  <2> QED BY <1>2, <2>1
<1>7. ASSUME NEW p \in NcPackets
      PROVE  IF NcHolds(h, p) THEN NcStays(n, o, p) \/ NcGone(n, o, p) ELSE NcNone(o, p)
  <2>1. NcOneSpot(h, p) /\ NcRoute(h, p, NcRouteOf(n, p))
    BY <1>4 DEF NcTidy
  <2>2. CASE \E q \in NcPaths, i \in Nat : NcSpot(h, p, q, i) /\ i \in Old(q)
    <3>1. PICK q \in NcPaths, i \in Nat : NcSpot(h, p, q, i) /\ i \in Old(q)
      BY <2>2
    <3>2. ~NcHolds(o.nd.coding, p) /\ NcHolds(h, p)
      BY <1>5, <2>1, <3>1 DEF NcHolds
    <3>3. Body(p) \in o.fwd
      BY <1>1, <1>2, <3>1
    <3>4. \A f \in o.out : \A m \in NcNodes : NcCarriesTo(f, m, p) =>
            m = NcRouteOf(n, p) /\ f = NcDueFrame(nd, n, <<q, i>>)
      <4> TAKE f \in o.out
      <4> TAKE m \in NcNodes
      <4> HAVE NcCarriesTo(f, m, p)
      <4>1. PICK k \in O : f = NcDueFrame(nd, n, k)
        BY <1>1
      <4>2. k[1][2] = m /\ NcSpot(h, p, k[1], k[2]) /\ k[1] \in NcPaths /\ k[2] \in Nat
            /\ k = <<k[1], k[2]>>
        BY <1>2, <1>6, <4>1
      <4>3. k[1] = q /\ k[2] = i
        BY <2>1, <3>1, <4>2 DEF NcOneSpot
      <4>4. m = NcRouteOf(n, p)
        BY <2>1, <4>2 DEF NcRoute
      <4> QED BY <4>1, <4>2, <4>3, <4>4
    <3>5. NcGone(n, o, p)
      BY <3>2, <3>3, <3>4 DEF NcGone
    <3> QED BY <3>2, <3>5
  <2>3. CASE ~\E q \in NcPaths, i \in Nat : NcSpot(h, p, q, i) /\ i \in Old(q)
    <3>1. NcKept(h, o.nd.coding, p)
      BY <1>5, <2>3
    <3>2. \A k \in O : ~NcSpot(h, p, k[1], k[2])
      BY <1>2, <2>3
    <3>3. Body(p) \notin o.fwd
      BY <1>1, <1>2, <3>2
    <3>4. \A f \in o.out : \A m \in NcNodes : ~NcCarriesTo(f, m, p)
      BY <1>1, <1>6, <3>2
    <3>5. NcSilent(o, p)
      BY <3>3, <3>4 DEF NcSilent
    <3> QED BY <1>4, <3>1, <3>5, NcUntouched
  <2> QED BY <2>2, <2>3
<1>8. o.fwd \subseteq NcPayloads
  <2>1. \A k \in Overdue(nd) : NcDue(nd, k) \in NcUnicasts
    BY NcOverdueIs DEF NcDue
  <2> QED BY <1>1, <2>1, NcUnicastIs DEF O
<1> QED BY <1>7, <1>8 DEF NcFairly, h

\* What ages and is purged stays where it is.
LEMMA NcClearedKeeps ==
  ASSUME NEW nd \in NcStates, NEW d \in Nat, NEW gone
  PROVE  LET c == NcCleared(nd, d, gone) IN
         /\ c \in NcStates
         /\ c.coding = nc_purge_paths(Aged(nd.coding, d), PathFactor * FwdDelay)
         /\ c.timestamp_fwd_flush = Later(nd.timestamp_fwd_flush, d)
         /\ \A p : NcKept(nd.coding, c.coding, p)
<1> DEFINE aged == NcAgedBy(nd, d)
           c == NcCleared(nd, d, gone)
<1>1. aged \in NcStates
  BY NcAgesNode
<1>2. aged.coding = Aged(nd.coding, d)
      /\ aged.timestamp_fwd_flush = Later(nd.timestamp_fwd_flush, d)
  <2> DEFINE a == Aged(nd.coding, d)
             b == Aged(nd.decoding, d)
             t == Later(nd.timestamp_fwd_flush, d)
             s == Later(nd.timestamp_sniffed_purge, d)
  <2>1. aged = [nd EXCEPT !.coding = a, !.decoding = b, !.timestamp_fwd_flush = t,
                          !.timestamp_sniffed_purge = s]
    BY DEF NcAgedBy
  <2> HIDE DEF a, b, t, s, aged
  <2>2. aged.coding = a /\ aged.timestamp_fwd_flush = t
    BY <2>1 DEF NcStates
  <2> QED BY <2>2 DEF a, t
<1> HIDE DEF aged
<1>3. NcPurgedOf(aged, gone) \in NcStates
  BY <1>1, NcPurgesNode
<1>4. /\ NcPurgedOf(aged, gone).coding = nc_purge_paths(aged.coding, PathFactor * FwdDelay)
      /\ NcPurgedOf(aged, gone).timestamp_fwd_flush = aged.timestamp_fwd_flush
  <2> DEFINE g == nc_purge_paths(aged.coding, PathFactor * FwdDelay)
             e == nc_purge_paths(aged.decoding, PathFactor * BufferTime)
             h == aged.hears \ gone
             new == NcPurgedOf(aged, gone)
  <2>1. new = [[aged EXCEPT !.hears = h] EXCEPT !.coding = g, !.decoding = e]
    BY <1>1 DEF NcPurgedOf, NcStates, nc_purge_orig
  <2> HIDE DEF g, e, h, new
  <2>2. new.coding = g /\ new.timestamp_fwd_flush = aged.timestamp_fwd_flush
    BY <1>1, <2>1 DEF NcStates
  <2> QED BY <2>2 DEF g, new
<1>5. c = NcPurgedOf(aged, gone)
  BY DEF NcCleared, aged
<1> HIDE DEF c
<1>6. ASSUME NEW p PROVE NcKept(nd.coding, c.coding, p)
  <2>1. nd.coding \in NcHash(NcWaiting) /\ aged.coding \in NcHash(NcWaiting)
    BY <1>1 DEF NcStates
  <2>2. NcKept(nd.coding, aged.coding, p)
    BY <1>2, <2>1, NcAgedSpot
  <2>3. NcKept(aged.coding, c.coding, p)
    BY <1>4, <1>5, <2>1, NcPurgedSpot
  <2> QED BY <2>2, <2>3 DEF NcKept
<1> QED BY <1>2, <1>3, <1>4, <1>5, <1>6 DEF c

\* The overheard packets are dropped apart from all this.
LEMMA NcEndedIs ==
  ASSUME NEW o, NcSound(o)
  PROVE  LET e == NcEnded(o) IN
         /\ e.out = o.out /\ e.fwd = o.fwd /\ e.nd.coding = o.nd.coding
         /\ e.nd.timestamp_fwd_flush = o.nd.timestamp_fwd_flush
<1> DEFINE nd == o.nd
           x == nc_process_nc_paths(nd.decoding, BufferTime)
           new == [nd EXCEPT !.decoding = x, !.timestamp_sniffed_purge = 0]
           s == NcSniffed(o)
<1>1. o = Outcome(nd, o.out, o.fwd) /\ nd \in NcStates
  BY DEF NcSound
<1>2. new.coding = nd.coding /\ new.timestamp_fwd_flush = nd.timestamp_fwd_flush
  <2> HIDE DEF x, nd
  <2> QED BY <1>1 DEF NcStates
<1>3. s = Outcome(new, o.out, o.fwd)
  <2>1. s = [o EXCEPT !.nd = new]
    BY <1>1 DEF NcSniffed, Outcome
  <2> HIDE DEF new, nd, s
  <2> QED BY <1>1, <2>1 DEF Outcome
<1> HIDE DEF new, s
<1>4. s.nd = new /\ s.out = o.out /\ s.fwd = o.fwd
  BY <1>3 DEF Outcome
<1> QED BY <1>2, <1>4 DEF NcEnded, s

\* A run of the worker loses no packet and doubles none.
LEMMA NcWorkFair ==
  ASSUME NEW nd \in NcStates, NEW n \in NcNodes, NcTidy(n, nd.coding), NEW d \in Nat, NEW gone,
         NEW order \in FlushOrders(NcCleared(nd, d, gone)),
         NEW o, o = NcEnded(NcRan(NcCleared(nd, d, gone), n, order))
  PROVE  NcSound(o) /\ NcFairly(n, nd.coding, {}, o)
<1> DEFINE c == NcCleared(nd, d, gone)
           ran == NcRan(c, n, order)
<1>1. c \in NcStates /\ \A p : NcKept(nd.coding, c.coding, p)
  BY NcClearedKeeps
<1>2. order \in FlushOrders(c) /\ o = NcEnded(ran)
  OBVIOUS
<1> HIDE DEF c
<1>3. NcTidy(n, c.coding)
  BY <1>1 DEF NcTidy, NcKept
<1>4. NcSound(ran) /\ NcFairly(n, c.coding, {}, ran)
  <2>1. CASE c.timestamp_fwd_flush > FwdDelay
    <3>1. ran = nc_fwd_flush(c, n, order)
      BY <2>1 DEF NcRan
    <3> HIDE DEF ran
    <3> QED BY <1>1, <1>2, <1>3, <3>1, NcFlushes, NcFlushFair
  <2>2. CASE ~(c.timestamp_fwd_flush > FwdDelay)
    <3>1. ran = Outcome(c, {}, {})
      BY <2>2 DEF NcRan
    <3> HIDE DEF ran
    <3>2. ran.nd = c /\ ran.out = {} /\ ran.fwd = {}
      BY <3>1 DEF Outcome
    <3>3. NcSound(ran)
      BY <1>1, <3>1, NcSoundIs
    <3>4. ASSUME NEW p \in NcPackets
          PROVE  IF NcHolds(c.coding, p) THEN NcStays(n, ran, p) ELSE NcNone(ran, p)
      <4>1. NcSilent(ran, p) /\ NcKept(c.coding, ran.nd.coding, p)
        BY <3>2 DEF NcSilent, NcKept
      <4> QED BY <1>3, <4>1, NcUntouched
    <3> QED BY <3>2, <3>3, <3>4 DEF NcFairly
  <2> QED BY <2>1, <2>2
<1> HIDE DEF ran
<1>5. o.out = ran.out /\ o.fwd = ran.fwd /\ o.nd.coding = ran.nd.coding
  BY <1>2, <1>4, NcEndedIs
<1>6. NcSound(o)
  BY <1>2, <1>4, NcSniffs DEF NcEnded
<1>7. NcFairly(n, nd.coding, {}, o)
  BY <1>1, <1>4, <1>5 DEF NcFairly, NcStays, NcGone, NcNone, NcSilent, NcKept
<1> QED BY <1>6, <1>7

\* A step of node n that only changes what n overhears.
LEMMA NcIdleFair ==
  ASSUME NEW nd, NEW n \in NcNodes, NEW h, NcTidy(n, h), nd.coding = h
  PROVE  NcFairly(n, h, {}, Outcome(nd, {}, {}))
<1> DEFINE o == Outcome(nd, {}, {})
<1>1. o.nd.coding = h /\ o.out = {} /\ o.fwd = {}
  BY DEF Outcome
<1> HIDE DEF o
<1>2. ASSUME NEW p \in NcPackets
      PROVE  IF NcHolds(h, p) THEN NcStays(n, o, p) ELSE NcNone(o, p)
  <2>1. NcSilent(o, p) /\ NcKept(h, o.nd.coding, p)
    BY <1>1 DEF NcSilent, NcKept
  <2> QED BY <2>1, NcUntouched
<1>3. NcFairly(n, h, {}, o)
  BY <1>1, <1>2 DEF NcFairly
<1> QED BY <1>3 DEF o

-----------------------------------------------------------------------------
(* Where each packet is *)

\* Routes lead to the destination without a loop: along the next hops towards
\* it something decreases, for instance the number of hops left.
NcDecreases(rank) ==
  /\ rank \in [NcNodes \X NcNodes -> Nat]
  /\ \A n, d \in NcNodes : n # d => rank[<<NcNextHop[<<n, d>>], d>>] < rank[<<n, d>>]

NcLoopFree == \E rank : NcDecreases(rank)

NcRank(rank, n, p) == rank[<<n, NcDst[p]>>]

NcTook(n, p) == <<n, p>> \in ncTaken
NcHeldAt(n, p) == NcHolds(nc[n].coding, p)
NcBrings(a, p) == NcCarriesTo(a[1], a[2], p)

\* The nodes that took p before n are further from its destination.
NcLastToTake(rank, n, p) ==
  \A m \in NcNodes \ {n} : NcTook(m, p) =>
     n # NcDst[p] /\ (m = NcDst[p] \/ NcRank(rank, m, p) > NcRank(rank, n, p))

\* Packet p is not sent yet, waits at one node, or is in one frame to one
\* node; every other node that took it has sent it once.
NcUnsentIs(p) ==
  p \in ncUnsent => /\ \A n \in NcNodes : ~NcTook(n, p) /\ ~NcHeldAt(n, p)
                    /\ \A a \in air : ~NcBrings(a, p)
NcOnWayOnce(p) == \A a, b \in air : NcBrings(a, p) /\ NcBrings(b, p) => a = b
NcOnWayIs(rank, p) ==
  \A a \in air : NcBrings(a, p) =>
    \A n \in NcNodes :
      /\ ~NcHeldAt(n, p)
      /\ NcTook(n, p) => n = NcDst[p] \/ NcRank(rank, n, p) > NcRank(rank, a[2], p)
NcHeldIs(rank, p) ==
  \A n \in NcNodes : NcHeldAt(n, p) =>
    /\ NcTook(n, p) /\ NcLastToTake(rank, n, p)
    /\ \A m \in NcNodes : NcHeldAt(m, p) => m = n
NcSentIs(p) ==
  \A n \in NcNodes :
    ncSent[<<n, p>>] = IF NcTook(n, p) /\ ~NcHeldAt(n, p) THEN 1 ELSE 0

NcPlace(rank, p) ==
  /\ NcUnsentIs(p) /\ NcOnWayOnce(p) /\ NcOnWayIs(rank, p)
  /\ NcHeldIs(rank, p) /\ NcSentIs(p)

NcTidied == \A n \in NcNodes : NcTidy(n, nc[n].coding)

NcCounts ==
  /\ ncTaken \subseteq NcNodes \X NcPackets
  /\ ncSent \in [NcNodes \X NcPackets -> Nat]

NcPlaces(rank) ==
  NcCarried /\ NcCounts /\ NcTidied /\ \A p \in NcPackets : NcPlace(rank, p)

\* What holds when node n is about to deal with packet p, which waits there or
\* has just come in; rest is what else is on the air.
NcAtHand(rank, n, p, rest) ==
  /\ \A a \in rest : ~NcBrings(a, p)
  /\ \A m \in NcNodes \ {n} : ~NcHeldAt(m, p)
  /\ \A m \in NcNodes \ {n} : ncSent[<<m, p>>] = IF NcTook(m, p) THEN 1 ELSE 0
  /\ ncSent[<<n, p>>] = 0
  /\ NcLastToTake(rank, n, p)

\* How often node n has sent p after a step
LEMMA NcCountsSends ==
  ASSUME ncSent \in [NcNodes \X NcPackets -> Nat], NEW n \in NcNodes, NEW o,
         o.fwd \subseteq NcPayloads, NEW rest, Done(n, o, rest)
  PROVE  /\ ncSent' \in [NcNodes \X NcPackets -> Nat]
         /\ \A m \in NcNodes, p \in NcPackets :
              ncSent'[<<m, p>>] = IF m = n /\ Body(p) \in o.fwd THEN ncSent[<<m, p>>] + 1
                                  ELSE ncSent[<<m, p>>]
<1>1. ncSent' = [k \in NcNodes \X NcPackets |->
         IF k[1] = n /\ \E b \in o.fwd : PacketOf(b) = k[2] THEN ncSent[k] + 1 ELSE ncSent[k]]
  BY DEF Done
<1>2. ncSent' \in [NcNodes \X NcPackets -> Nat]
  BY <1>1
<1>3. ASSUME NEW m \in NcNodes, NEW p \in NcPackets
      PROVE  ncSent'[<<m, p>>] = IF m = n /\ Body(p) \in o.fwd THEN ncSent[<<m, p>>] + 1
                                 ELSE ncSent[<<m, p>>]
  <2>1. (\E b \in o.fwd : PacketOf(b) = p) <=> Body(p) \in o.fwd
    <3>1. ASSUME NEW b \in o.fwd, PacketOf(b) = p PROVE b = Body(p)
      <4>1. PICK q \in NcPackets : b = Body(q)
        BY <3>1 DEF NcPayloads
      <4> QED BY <3>1, <4>1, NcPacketIs
    <3>2. PacketOf(Body(p)) = p
      BY NcPacketIs
    <3> QED BY <3>1, <3>2
  <2>2. <<m, p>> \in NcNodes \X NcPackets /\ <<m, p>>[1] = m /\ <<m, p>>[2] = p
    OBVIOUS
  <2> DEFINE k == <<m, p>>
  <2>3. ncSent'[k] = IF k[1] = n /\ \E b \in o.fwd : PacketOf(b) = k[2] THEN ncSent[k] + 1
                     ELSE ncSent[k]
    BY <1>1, <2>2
  <2> QED BY <2>1, <2>2, <2>3
<1> QED BY <1>2, <1>3

\* What is on the air after a step, and what of it brings a packet
LEMMA NcNewOnAir ==
  ASSUME NEW n \in NcNodes, NEW o, NEW rest, Done(n, o, rest), NcOnAir(rest), NEW p
  PROVE  /\ \A a \in air' : NcBrings(a, p) =>
              a \in rest \/ (a = <<a[1], a[2]>> /\ a[1] \in o.out /\ a[2] \in NcNodes)
<1>1. air' = rest \cup {<<f, m>> : f \in o.out, m \in NcNeighbours[n]}
  BY DEF Done
<1>2. NcNeighbours[n] \subseteq NcNodes
  BY NcAssumption
<1>3. ASSUME NEW a \in air', a \notin rest
      PROVE  a = <<a[1], a[2]>> /\ a[1] \in o.out /\ a[2] \in NcNodes
  <2>1. PICK f \in o.out, m \in NcNeighbours[n] : a = <<f, m>>
    BY <1>1, <1>3
  <2> QED BY <1>2, <2>1
<1> QED BY <1>3

\* A packet that the step does not touch
LEMMA NcPlaceKept ==
  ASSUME NEW rank, NEW n \in NcNodes, NEW o, NEW rest, Done(n, o, rest),
         NcCarried, NcCounts, rest \subseteq air, NEW p \in NcPackets,
         o.fwd \subseteq NcPayloads, NcPlace(rank, p), ~NcHeldAt(n, p), NcNone(o, p),
         \A m \in NcNodes : NcTook(m, p)' <=> NcTook(m, p), ncUnsent' \subseteq ncUnsent
  PROVE  NcPlace(rank, p)'
<1>1. /\ nc \in [NcNodes -> NcStates] /\ NcOnAir(rest)
  BY DEF NcCarried, NcOnAir
<1>2. nc' = [nc EXCEPT ![n] = o.nd]
  BY DEF Done
<1>3. \A m \in NcNodes : NcHeldAt(m, p)' <=> NcHeldAt(m, p)
  <2> TAKE m \in NcNodes
  <2>1. nc'[m] = IF m = n THEN o.nd ELSE nc[m]
    BY <1>1, <1>2
  <2> QED BY <2>1 DEF NcHeldAt, NcNone
<1>4. \A a \in air' : NcBrings(a, p) => a \in air
  <2>1. NcSilent(o, p)
    BY DEF NcNone
  <2> QED BY <1>1, <2>1, NcNewOnAir DEF NcSilent, NcBrings
<1>5. \A m \in NcNodes : ncSent'[<<m, p>>] = ncSent[<<m, p>>]
  <2>1. Body(p) \notin o.fwd
    BY DEF NcNone, NcSilent
  <2> QED BY <2>1, NcCountsSends DEF NcCounts
<1>6. NcUnsentIs(p)'
  BY <1>3, <1>4 DEF NcPlace, NcUnsentIs, NcBrings
<1>7. NcOnWayOnce(p)'
  BY <1>4 DEF NcPlace, NcOnWayOnce, NcBrings
<1>8. NcOnWayIs(rank, p)'
  BY <1>3, <1>4 DEF NcPlace, NcOnWayIs, NcBrings, NcRank
<1>9. NcHeldIs(rank, p)'
  BY <1>3 DEF NcPlace, NcHeldIs, NcLastToTake, NcRank
<1>10. NcSentIs(p)'
  BY <1>3, <1>5 DEF NcPlace, NcSentIs
<1> QED BY <1>6, <1>7, <1>8, <1>9, <1>10 DEF NcPlace

\* A packet at hand is kept or sent on, once.
LEMMA NcPlaceHandled ==
  ASSUME NEW rank, NcDecreases(rank), NEW n \in NcNodes, NEW o, NEW rest, Done(n, o, rest),
         NcCarried, NcCounts, rest \subseteq air, NEW p \in NcPackets,
         o.fwd \subseteq NcPayloads, NcAtHand(rank, n, p, rest),
         NcStays(n, o, p) \/ NcGone(n, o, p),
         n = NcDst[p] => \A m \in NcNodes \ {n} : ~NcTook(m, p),
         \A m \in NcNodes : NcTook(m, p)' <=> NcTook(m, p) \/ m = n, p \notin ncUnsent'
  PROVE  NcPlace(rank, p)'
<1>1. nc \in [NcNodes -> NcStates] /\ NcOnAir(rest)
  BY DEF NcCarried, NcOnAir
<1>2. nc' = [nc EXCEPT ![n] = o.nd]
  BY DEF Done
<1>3. \A m \in NcNodes : NcHeldAt(m, p)' <=> m = n /\ NcHolds(o.nd.coding, p)
  <2> TAKE m \in NcNodes
  <2>1. nc'[m] = IF m = n THEN o.nd ELSE nc[m]
    BY <1>1, <1>2
  <2> QED BY <2>1 DEF NcHeldAt, NcAtHand
<1>4. \A a \in air' : NcBrings(a, p) =>
        a = <<a[1], a[2]>> /\ a[1] \in o.out /\ a[2] \in NcNodes
  BY <1>1, NcNewOnAir DEF NcAtHand
<1>5. \A m \in NcNodes :
        ncSent'[<<m, p>>] = IF m = n /\ Body(p) \in o.fwd THEN ncSent[<<m, p>>] + 1
                            ELSE ncSent[<<m, p>>]
  BY NcCountsSends DEF NcCounts
<1>6. \A m \in NcNodes \ {n} : NcTook(m, p) =>
        n # NcDst[p] /\ (m = NcDst[p] \/ NcRank(rank, m, p) > NcRank(rank, n, p))
  BY DEF NcAtHand, NcLastToTake
<1>7. CASE NcStays(n, o, p)
  <2>1. NcSilent(o, p) /\ NcHolds(o.nd.coding, p)
    BY <1>7 DEF NcStays
  <2>2. \A a \in air' : ~NcBrings(a, p)
    BY <1>4, <2>1 DEF NcSilent, NcBrings
  <2>3. \A m \in NcNodes : ncSent'[<<m, p>>] = ncSent[<<m, p>>]
    BY <1>5, <2>1 DEF NcSilent
  <2>4. NcUnsentIs(p)'
    BY DEF NcUnsentIs
  <2>5. NcOnWayOnce(p)' /\ NcOnWayIs(rank, p)'
    BY <2>2 DEF NcOnWayOnce, NcOnWayIs, NcBrings
  <2>6. NcHeldIs(rank, p)'
    BY <1>3, <1>6, <2>1 DEF NcHeldIs, NcLastToTake, NcRank
  <2>7. NcSentIs(p)'
    BY <1>3, <2>1, <2>3 DEF NcSentIs, NcAtHand
  <2> QED BY <2>4, <2>5, <2>6, <2>7 DEF NcPlace
<1>8. CASE NcGone(n, o, p)
  <2>1. /\ ~NcHolds(o.nd.coding, p) /\ Body(p) \in o.fwd
        /\ \A f \in o.out : \A m \in NcNodes : NcCarriesTo(f, m, p) => m = NcRouteOf(n, p)
        /\ \A f, g \in o.out : \A m \in NcNodes :
             NcCarriesTo(f, m, p) /\ NcCarriesTo(g, m, p) => f = g
    BY <1>8 DEF NcGone
  <2>2. \A m \in NcNodes : ~NcHeldAt(m, p)'
    BY <1>3, <2>1
  <2>3. \A a \in air' : NcBrings(a, p) => a[2] = NcRouteOf(n, p)
    BY <1>4, <2>1 DEF NcBrings
  <2>4. NcOnWayOnce(p)'
    <3> SUFFICES ASSUME NEW a \in air', NEW b \in air', NcBrings(a, p), NcBrings(b, p)
                 PROVE  a = b
      BY DEF NcOnWayOnce, NcBrings
    <3>1. a[2] = b[2] /\ a[1] \in o.out /\ b[1] \in o.out /\ a[2] \in NcNodes
      BY <1>4, <2>3
    <3>2. a[1] = b[1]
      BY <2>1, <3>1 DEF NcBrings
    <3>3. a = <<a[1], a[2]>> /\ b = <<b[1], b[2]>>
      BY <1>4
    <3> QED BY <3>1, <3>2, <3>3
  <2>5. NcOnWayIs(rank, p)'
    <3>1. n # NcDst[p] => NcRank(rank, NcRouteOf(n, p), p) < NcRank(rank, n, p)
      BY NcAssumption DEF NcDecreases, NcRank, NcRouteOf
    <3>2. NcRouteOf(n, p) \in NcNodes /\ \A m \in NcNodes : NcRank(rank, m, p) \in Nat
      BY NcAssumption DEF NcDecreases, NcRank, NcRouteOf
    <3>3. \A m \in NcNodes : NcTook(m, p)' =>
            m = NcDst[p] \/ NcRank(rank, m, p) > NcRank(rank, NcRouteOf(n, p), p)
      BY <1>6, <3>1, <3>2
    <3> QED BY <2>2, <2>3, <3>3 DEF NcOnWayIs, NcBrings, NcRank
  <2>6. NcUnsentIs(p)'
    BY DEF NcUnsentIs
  <2>7. NcHeldIs(rank, p)'
    BY <2>2 DEF NcHeldIs
  <2>8. NcSentIs(p)'
    BY <1>5, <2>1, <2>2 DEF NcSentIs, NcAtHand
  <2> QED BY <2>4, <2>5, <2>6, <2>7, <2>8 DEF NcPlace
<1> QED BY <1>7, <1>8

-----------------------------------------------------------------------------
(* The steps keep every packet in one place *)

\* A step of node n with outcome o, which deals with the packets in new
LEMMA NcStepDone ==
  ASSUME NEW rank, NcDecreases(rank), NcPlaces(rank), NcCarried', NEW n \in NcNodes, NEW o,
         NEW rest, rest \subseteq air, Done(n, o, rest), NEW new \in SUBSET NcPackets,
         NcFairly(n, nc[n].coding, new, o),
         ncTaken' = ncTaken \cup {<<n, p>> : p \in new},
         ncUnsent' \subseteq ncUnsent, new \cap ncUnsent' = {},
         \A p \in new : /\ NcAtHand(rank, n, p, rest)
                        /\ n = NcDst[p] => \A m \in NcNodes \ {n} : ~NcTook(m, p)
  PROVE  NcPlaces(rank)'
<1>1. /\ NcCarried /\ NcCounts /\ NcTidied /\ \A p \in NcPackets : NcPlace(rank, p)
      /\ nc \in [NcNodes -> NcStates]
  BY DEF NcPlaces, NcCarried
<1>2. /\ o.fwd \subseteq NcPayloads
      /\ \A p \in NcPackets :
           IF p \in new \/ NcHeldAt(n, p) THEN NcStays(n, o, p) \/ NcGone(n, o, p)
           ELSE NcNone(o, p)
  BY DEF NcFairly, NcHeldAt
<1>3. \A m \in NcNodes, p \in NcPackets : NcTook(m, p)' <=> NcTook(m, p) \/ (m = n /\ p \in new)
  BY DEF NcTook
<1>4. NcCounts'
  <2>1. ncSent' \in [NcNodes \X NcPackets -> Nat]
    BY <1>1, <1>2, NcCountsSends DEF NcCounts
  <2>2. ncTaken' \subseteq NcNodes \X NcPackets
    BY <1>1 DEF NcCounts
  <2> QED BY <2>1, <2>2 DEF NcCounts
<1>5. NcTidied'
  <2>1. nc' = [nc EXCEPT ![n] = o.nd]
    BY DEF Done
  <2>2. ASSUME NEW p \in NcPackets
        PROVE  NcOneSpot(o.nd.coding, p) /\ NcRoute(o.nd.coding, p, NcRouteOf(n, p))
    <3>1. CASE NcStays(n, o, p)
      BY <3>1 DEF NcStays
    <3>2. CASE ~NcHolds(o.nd.coding, p)
      BY <3>2 DEF NcHolds, NcOneSpot, NcRoute
    <3> QED BY <1>2, <3>1, <3>2 DEF NcGone, NcNone
  <2>3. \A m \in NcNodes : nc'[m] = IF m = n THEN o.nd ELSE nc[m]
    BY <1>1, <2>1
  <2>4. ASSUME NEW m \in NcNodes PROVE NcTidy(m, nc'[m].coding)
    BY <1>1, <2>2, <2>3 DEF NcTidied, NcTidy
  <2> QED BY <2>4 DEF NcTidied, NcTidy, NcRouteOf
<1>6. ASSUME NEW p \in NcPackets PROVE NcPlace(rank, p)'
  <2>1. NcPlace(rank, p)
    BY <1>1
  <2>2. CASE p \in new
    <3>1. NcAtHand(rank, n, p, rest) /\ (NcStays(n, o, p) \/ NcGone(n, o, p))
          /\ (n = NcDst[p] => \A m \in NcNodes \ {n} : ~NcTook(m, p)) /\ p \notin ncUnsent'
      BY <1>2, <2>2
    <3>2. \A m \in NcNodes : NcTook(m, p)' <=> NcTook(m, p) \/ m = n
      BY <1>3, <2>2
    <3> QED BY <1>1, <1>2, <3>1, <3>2, NcPlaceHandled
  <2>3. CASE p \notin new /\ NcHeldAt(n, p)
    <3>1. NcTook(n, p) /\ NcLastToTake(rank, n, p) /\ \A m \in NcNodes : NcHeldAt(m, p) => m = n
      BY <2>1, <2>3 DEF NcPlace, NcHeldIs
    <3>2. \A a \in rest : ~NcBrings(a, p)
      BY <2>1, <2>3 DEF NcPlace, NcOnWayIs
    <3>3. /\ \A m \in NcNodes \ {n} : ncSent[<<m, p>>] = IF NcTook(m, p) THEN 1 ELSE 0
          /\ ncSent[<<n, p>>] = 0
      BY <2>1, <2>3, <3>1 DEF NcPlace, NcSentIs
    <3>4. NcAtHand(rank, n, p, rest)
      BY <3>1, <3>2, <3>3 DEF NcAtHand
    <3>5. p \notin ncUnsent'
      BY <2>1, <3>1 DEF NcPlace, NcUnsentIs
    <3>6. \A m \in NcNodes : NcTook(m, p)' <=> NcTook(m, p) \/ m = n
      BY <1>3, <2>3, <3>1
    <3>7. n = NcDst[p] => \A m \in NcNodes \ {n} : ~NcTook(m, p)
      BY <3>1 DEF NcLastToTake
    <3>8. NcStays(n, o, p) \/ NcGone(n, o, p)
      BY <1>2, <2>3
    <3> QED BY <1>1, <1>2, <3>4, <3>5, <3>6, <3>7, <3>8, NcPlaceHandled
  <2>4. CASE p \notin new /\ ~NcHeldAt(n, p)
    <3>1. NcNone(o, p)
      BY <1>2, <2>4
    <3>2. \A m \in NcNodes : NcTook(m, p)' <=> NcTook(m, p)
      BY <1>3, <2>4
    <3> QED BY <1>1, <1>2, <2>1, <2>4, <3>1, <3>2, NcPlaceKept
  <2> QED BY <2>2, <2>3, <2>4
<1> QED BY <1>4, <1>5, <1>6 DEF NcPlaces

\* A step that touches no packet; frames may be lost.
LEMMA NcStepAside ==
  ASSUME NEW rank, NcPlaces(rank), NcCarried', air' \subseteq air,
         UNCHANGED <<ncTaken, ncSent, ncUnsent>>,
         \A n \in NcNodes : nc'[n].coding = nc[n].coding
  PROVE  NcPlaces(rank)'
<1>1. NcCounts /\ NcTidied /\ \A p \in NcPackets : NcPlace(rank, p)
  BY DEF NcPlaces
<1>2. NcCounts'
  BY <1>1 DEF NcCounts
<1>3. NcTidied'
  BY <1>1 DEF NcTidied, NcTidy, NcRouteOf
<1>4. ASSUME NEW p \in NcPackets PROVE NcPlace(rank, p)'
  <2>1. NcPlace(rank, p)
    BY <1>1
  <2>2. \A n \in NcNodes : (NcHeldAt(n, p)' <=> NcHeldAt(n, p)) /\ (NcTook(n, p)' <=> NcTook(n, p))
    BY DEF NcHeldAt, NcTook
  <2>3. NcUnsentIs(p)'
    BY <2>1, <2>2 DEF NcPlace, NcUnsentIs, NcBrings
  <2>4. NcOnWayOnce(p)'
    BY <2>1 DEF NcPlace, NcOnWayOnce, NcBrings
  <2>5. NcOnWayIs(rank, p)'
    BY <2>1, <2>2 DEF NcPlace, NcOnWayIs, NcBrings, NcRank
  <2>6. NcHeldIs(rank, p)'
    BY <2>1, <2>2 DEF NcPlace, NcHeldIs, NcLastToTake, NcRank
  <2>7. NcSentIs(p)'
    BY <2>1, <2>2 DEF NcPlace, NcSentIs
  <2> QED BY <2>3, <2>4, <2>5, <2>6, <2>7 DEF NcPlace
<1> QED BY <1>2, <1>3, <1>4 DEF NcPlaces

\* The originator sends its packet (batadv_send_skb_to_orig).
LEMMA NcOriginates ==
  ASSUME NEW rank, NcDecreases(rank), NcPlaces(rank), NcCarried', NEW p \in NcPackets,
         Originate(p)
  PROVE  NcPlaces(rank)'
<1> DEFINE n == NcSrc[p]
           next == NcNextHop[<<n, NcDst[p]>>]
           u == [dest |-> NcDst[p], body |-> Body(p), decoded |-> FALSE]
           o == Plain(nc[n], n, next, u)
<1>1. /\ p \in ncUnsent /\ ncUnsent' = ncUnsent \ {p} /\ Done(n, o, air)
      /\ ncTaken' = ncTaken \cup {<<n, p>>}
  BY DEF Originate
<1>2. n \in NcNodes /\ next \in NcNodes /\ next = NcRouteOf(n, p) /\ u \in NcUnicasts
      /\ u.body = Body(p)
  BY NcAssumption, NcIsUnicast DEF NcRouteOf
<1>3. /\ NcPlace(rank, p) /\ NcTidy(n, nc[n].coding) /\ nc[n] \in NcStates
  BY <1>2 DEF NcPlaces, NcTidied, NcCarried
<1> HIDE DEF n, next, u
<1>4. /\ o.nd.coding = nc[n].coding /\ o.out = {Unicast(n, next, u)} /\ o.fwd = {u.body}
  BY <1>2, <1>3, NcPlainIs DEF NcBuffers
<1> HIDE DEF o
<1>5. \A m \in NcNodes : ~NcTook(m, p) /\ ~NcHeldAt(m, p) /\ ncSent[<<m, p>>] = 0
  BY <1>1, <1>3 DEF NcPlace, NcUnsentIs, NcSentIs
<1>6. NcFairly(n, nc[n].coding, {p}, o)
  BY <1>2, <1>3, <1>4, <1>5, NcAloneFair DEF NcHeldAt
<1>7. NcAtHand(rank, n, p, air)
  BY <1>1, <1>2, <1>3, <1>5 DEF NcAtHand, NcLastToTake, NcPlace, NcUnsentIs
<1> DEFINE new == {p}
<1>8. ncTaken' = ncTaken \cup {<<n, q>> : q \in new}
  BY <1>1
<1>9. new \in SUBSET NcPackets /\ new \cap ncUnsent' = {} /\ ncUnsent' \subseteq ncUnsent
  BY <1>1
<1>10. \A q \in new : /\ NcAtHand(rank, n, q, air)
                      /\ n = NcDst[q] => \A m \in NcNodes \ {n} : ~NcTook(m, q)
  BY <1>5, <1>7
<1> HIDE DEF new
<1>11. NcFairly(n, nc[n].coding, new, o)
  BY <1>6 DEF new
<1> QED BY <1>1, <1>2, <1>8, <1>9, <1>10, <1>11, NcStepDone

\* A packet comes to node n in frame a (batadv_recv_unicast_packet).
LEMMA NcTakesIn ==
  ASSUME NEW rank, NcDecreases(rank), NcPlaces(rank), NcCarried', NEW a \in air,
         NEW nd \in NcStates, nd.coding = nc[a[2]].coding, NEW prev \in NcNodes,
         NEW u \in NcUnicasts, NEW p \in NcPackets, u.body = Body(p), NcBrings(a, p),
         Unpacked(a[2], nd, prev, u, air \ {a}), ncUnsent' = ncUnsent
  PROVE  NcPlaces(rank)'
<1> DEFINE n == a[2]
           rest == air \ {a}
           h == nc[n].coding
<1>1. /\ NcPlace(rank, p) /\ NcTidied /\ NcOnAir(air) /\ nc \in [NcNodes -> NcStates]
  BY DEF NcPlaces, NcCarried
<1>2. n \in NcNodes /\ NcTidy(n, h) /\ u.dest = NcDst[p]
  BY <1>1, NcPacketOfUnicast DEF NcOnAir, NcTidied
<1>3. /\ \A b \in rest : ~NcBrings(b, p)
      /\ \A m \in NcNodes : ~NcHeldAt(m, p)
      /\ \A m \in NcNodes : NcTook(m, p) => m = NcDst[p] \/ NcRank(rank, m, p) > NcRank(rank, n, p)
      /\ \A m \in NcNodes : ncSent[<<m, p>>] = IF NcTook(m, p) THEN 1 ELSE 0
      /\ p \notin ncUnsent
  BY <1>1 DEF NcPlace, NcOnWayOnce, NcOnWayIs, NcSentIs, NcUnsentIs
<1>4. Unpacked(n, nd, prev, u, rest) /\ rest \subseteq air /\ nd.coding = h
  OBVIOUS
<1> HIDE DEF n, rest
<1>5. CASE u.dest = n
  <2> DEFINE o == Outcome(nd, {}, {})
             new == {}
  <2>1. Done(n, o, rest) /\ ncTaken' = ncTaken
    BY <1>4, <1>5 DEF Unpacked
  <2>2. NcFairly(n, h, new, o)
    BY <1>2, <1>4, NcIdleFair
  <2>3. ncTaken' = ncTaken \cup {<<n, q>> : q \in new}
    BY <2>1
  <2> HIDE DEF o
  <2> QED BY <1>2, <1>4, <2>1, <2>2, <2>3, NcStepDone
<1>6. CASE u.dest # n
  <2>1. /\ \E failed \in BOOLEAN :
             \E o \in nc_skb_forward(nd, n, prev, NcNextHop[<<n, u.dest>>], u, failed) :
               Done(n, o, rest)
        /\ ncTaken' = ncTaken \cup {<<n, PacketOf(u.body)>>}
    BY <1>4, <1>6 DEF Unpacked
  <2>2. PICK failed \in BOOLEAN :
             \E o \in nc_skb_forward(nd, n, prev, NcNextHop[<<n, u.dest>>], u, failed) :
               Done(n, o, rest)
    BY <2>1
  <2>3. PICK o \in nc_skb_forward(nd, n, prev, NcNextHop[<<n, u.dest>>], u, failed) :
               Done(n, o, rest)
    BY <2>2
  <2>4. ~NcHolds(nd.coding, p) /\ NcTidy(n, nd.coding)
    BY <1>2, <1>3, <1>4 DEF NcHeldAt, h
  <2>5. NcFairly(n, nd.coding, {p}, o)
    BY <1>2, <2>3, <2>4, NcForwardFair
  <2>6. NcRank(rank, n, p) \in Nat
    BY <1>2, NcAssumption DEF NcRank, NcDecreases
  <2>7. ~NcTook(n, p) /\ NcLastToTake(rank, n, p)
    BY <1>2, <1>3, <1>6, <2>6 DEF NcLastToTake
  <2>8. NcAtHand(rank, n, p, rest)
    BY <1>2, <1>3, <2>7 DEF NcAtHand
  <2> DEFINE new == {p}
  <2>9. ncTaken' = ncTaken \cup {<<n, q>> : q \in new}
    BY <2>1, NcPacketIs
  <2>10. new \in SUBSET NcPackets /\ new \cap ncUnsent' = {} /\ ncUnsent' \subseteq ncUnsent
    BY <1>3
  <2>11. \A q \in new : /\ NcAtHand(rank, n, q, rest)
                        /\ n = NcDst[q] => \A m \in NcNodes \ {n} : ~NcTook(m, q)
    BY <1>2, <1>6, <2>8
  <2>12. NcFairly(n, nc[n].coding, new, o)
    BY <1>4, <2>5
  <2> HIDE DEF new
  <2> QED BY <1>2, <1>4, <2>3, <2>9, <2>10, <2>11, <2>12, NcStepDone
<1> QED BY <1>5, <1>6

\* A unicast frame
LEMMA NcPlacesUnicast ==
  ASSUME NEW rank, NcDecreases(rank), NcPlaces(rank), NcCarried', NEW a \in air,
         RecvUnicast(a[2], a[1]), ncUnsent' = ncUnsent
  PROVE  NcPlaces(rank)'
<1> DEFINE n == a[2]
           f == a[1]
           rest == air \ {<<f, n>>}
<1>1. /\ nc \in [NcNodes -> NcStates] /\ NcFrame(f) /\ n \in NcNodes /\ NcTidied
      /\ a = <<f, n>>
  BY DEF NcPlaces, NcCarried, NcOnAir
<1>2. f.type = "UNICAST"
  BY DEF RecvUnicast
<1>3. f \in NcPlainFrames
  BY <1>1, <1>2 DEF NcFrame, NcCodedFrame
<1>4. PICK p \in NcPackets : f.dest = NcDst[p] /\ f.body = Body(p)
  BY <1>3 DEF NcPlainFrames
<1>5. f.src \in NcNodes /\ f.dst \in NcNodes
  BY <1>3 DEF NcPlainFrames
<1> DEFINE u == [dest |-> f.dest, body |-> f.body, decoded |-> FALSE]
<1>6. u \in NcUnicasts /\ u.body = Body(p)
  BY <1>4, NcIsUnicast
<1>7. nc[n] \in NcStates /\ NcTidy(n, nc[n].coding)
  BY <1>1 DEF NcTidied
<1>8. rest = air \ {a} /\ rest \subseteq air
  BY <1>1
<1> HIDE DEF rest, u
<1>9. CASE f.dst # n
  <2> DEFINE nd == nc_skb_store_for_decoding(nc[n], <<f.src, f.dst>>, f.body)
             o == Outcome(nd, {}, {})
             new == {}
  <2>1. Done(n, o, rest) /\ ncTaken' = ncTaken
    BY <1>9 DEF RecvUnicast, rest
  <2>2. <<f.src, f.dst>> \in NcPaths /\ f.body \in NcPayloads
    BY <1>4, <1>5 DEF NcPaths, NcPayloads
  <2>3. nd.coding = nc[n].coding
    BY <1>7, <2>2, NcStoresAside
  <2> HIDE DEF nd
  <2>4. NcFairly(n, nc[n].coding, new, o)
    BY <1>1, <1>7, <2>3, NcIdleFair
  <2>5. ncTaken' = ncTaken \cup {<<n, q>> : q \in new}
    BY <2>1
  <2> HIDE DEF o
  <2> QED BY <1>1, <1>8, <2>1, <2>4, <2>5, NcStepDone
<1>10. CASE f.dst = n
  <2>1. Unpacked(n, nc[n], f.src, u, rest)
    BY <1>10 DEF RecvUnicast, rest, u
  <2>2. NcBrings(a, p)
    BY <1>2, <1>4, <1>10 DEF NcBrings, NcCarriesTo
  <2> QED BY <1>5, <1>6, <1>7, <1>8, <2>1, <2>2, NcTakesIn
<1> QED BY <1>9, <1>10

\* A coded frame
LEMMA NcPlacesCoded ==
  ASSUME NEW rank, NcDecreases(rank), NcPlaces(rank), NcCarried', NEW a \in air,
         nc_recv_coded_packet(a[2], a[1]), ncUnsent' = ncUnsent
  PROVE  NcPlaces(rank)'
<1> DEFINE n == a[2]
           f == a[1]
           rest == air \ {<<f, n>>}
<1>1. NcCarried /\ nc \in [NcNodes -> NcStates] /\ a = <<f, n>>
  BY DEF NcPlaces, NcCarried, NcOnAir
<1>2. /\ f.type = "CODED" /\ f.src \in NcNodes
      /\ \/ air' = rest /\ UNCHANGED <<nc, ncDelivered, ncTaken, ncSent, ncFaults, ncLate>>
         \/ \E nd \in NcStates, u \in NcUnicasts :
              /\ nd.coding = nc[n].coding
              /\ nd.timestamp_fwd_flush = nc[n].timestamp_fwd_flush
              /\ u.body = IF f.second_dest = n THEN f.second_crc ELSE f.first_crc
              /\ Unpacked(n, nd, f.src, u, rest)
  BY <1>1, NcCodedIs
<1>3. n \in {f.dst, f.second_dest} \/ (air' = rest /\ UNCHANGED <<nc, ncTaken, ncSent>>)
  BY Zenon DEF nc_recv_coded_packet
<1>4. rest = air \ {a} /\ rest \subseteq air
  BY <1>1
<1> HIDE DEF rest
<1>5. CASE air' = rest /\ UNCHANGED <<nc, ncTaken, ncSent>>
  BY <1>4, <1>5, NcStepAside
<1>6. ASSUME n \in {f.dst, f.second_dest}, NEW nd \in NcStates, NEW u \in NcUnicasts,
             nd.coding = nc[n].coding,
             u.body = IF f.second_dest = n THEN f.second_crc ELSE f.first_crc,
             Unpacked(n, nd, f.src, u, rest)
      PROVE  NcPlaces(rank)'
  <2>1. PICK p \in NcPackets : u.body = Body(p)
    BY NcUnicastIs
  <2>2. NcBrings(a, p)
    BY <1>2, <1>6, <2>1 DEF NcBrings, NcCarriesTo
  <2> QED BY <1>2, <1>4, <1>6, <2>1, <2>2, NcTakesIn
<1> QED BY <1>2, <1>3, <1>5, <1>6

\* A run of the worker
LEMMA NcPlacesWork ==
  ASSUME NEW rank, NcDecreases(rank), NcPlaces(rank), NcCarried', NEW n \in NcNodes,
         NEW d \in Nat, NEW gone, nc_worker(n, d, gone)
  PROVE  NcPlaces(rank)'
<1> DEFINE c == NcCleared(nc[n], d, gone)
           new == {}
<1>1. /\ UNCHANGED <<ncTaken, ncUnsent>>
      /\ \E order \in FlushOrders(c) : Done(n, NcEnded(NcRan(c, n, order)), air)
  BY NcWorkIs
<1>2. PICK order \in FlushOrders(c) : Done(n, NcEnded(NcRan(c, n, order)), air)
  BY <1>1
<1> DEFINE o == NcEnded(NcRan(c, n, order))
<1>3. nc[n] \in NcStates /\ NcTidy(n, nc[n].coding)
  BY DEF NcPlaces, NcCarried, NcTidied
<1>4. NcFairly(n, nc[n].coding, new, o)
  BY <1>3, NcWorkFair
<1>5. Done(n, o, air)
  BY <1>2
<1>6. ncTaken' = ncTaken \cup {<<n, p>> : p \in new}
  BY <1>1
<1>7. ncUnsent' \subseteq ncUnsent /\ new \in SUBSET NcPackets /\ new \cap ncUnsent' = {}
  BY <1>1
<1> HIDE DEF o
<1> QED BY <1>4, <1>5, <1>6, <1>7, NcStepDone

\* Before the first step no packet is anywhere.
LEMMA NcPlacesStart ==
  ASSUME NEW rank
  PROVE  NcInit => NcPlaces(rank)
<1> SUFFICES ASSUME NcInit PROVE NcPlaces(rank)
  OBVIOUS
<1>1. NcCarried
  BY NcStarts
<1>2. \A n \in NcNodes : nc[n].coding = <<>>
  BY DEF NcInit, nc_mesh_init
<1>3. \A n \in NcNodes, p \in NcPackets : \A q, i : ~NcSpot(nc[n].coding, p, q, i)
  <2>1. DOMAIN <<>> = {}
    OBVIOUS
  <2> QED BY <1>2, <2>1 DEF NcSpot
<1>4. \A n \in NcNodes, p \in NcPackets : ~NcHeldAt(n, p) /\ ~NcTook(n, p)
  BY <1>3 DEF NcHeldAt, NcHolds, NcTook, NcInit
<1>5. NcTidied
  BY <1>3 DEF NcTidied, NcTidy, NcOneSpot, NcRoute
<1>6. NcCounts
  BY DEF NcInit, NcCounts
<1>7. ASSUME NEW p \in NcPackets PROVE NcPlace(rank, p)
  <2>1. air = {} /\ \A n \in NcNodes : ncSent[<<n, p>>] = 0
    BY DEF NcInit
  <2> QED BY <1>4, <2>1 DEF NcPlace, NcUnsentIs, NcOnWayOnce, NcOnWayIs, NcHeldIs, NcSentIs
<1> QED BY <1>1, <1>5, <1>6, <1>7 DEF NcPlaces

\* Every step leaves each packet in one place.
LEMMA NcPlacesNext ==
  ASSUME NEW rank, NcDecreases(rank)
  PROVE  NcPlaces(rank) /\ [NcNext]_ncVars => NcPlaces(rank)'
<1> SUFFICES ASSUME NcPlaces(rank), [NcNext]_ncVars PROVE NcPlaces(rank)'
  OBVIOUS
<1>0. nc \in [NcNodes -> NcStates] /\ NcCarried'
  BY NcKeepsCarrying DEF NcPlaces, NcCarried
<1>1. ASSUME NEW p \in NcPackets, Originate(p) PROVE NcPlaces(rank)'
  BY <1>0, <1>1, NcOriginates
<1>2. ASSUME NEW a \in air, Recv(a[2], a[1]) PROVE NcPlaces(rank)'
  BY <1>0, <1>2, NcPlacesUnicast, NcPlacesCoded DEF Recv
<1>3. ASSUME NEW a \in air, Miss(a[2], a[1]) PROVE NcPlaces(rank)'
  <2>1. air' \subseteq air /\ UNCHANGED <<nc, ncTaken, ncSent, ncUnsent>>
    BY <1>3 DEF Miss
  <2> QED BY <1>0, <2>1, NcStepAside
<1>4. ASSUME NEW k \in NcOgms, nc_update_nc_node(k[1], k[2], k[3]) PROVE NcPlaces(rank)'
  <2> DEFINE h == nc[k[1]].hears \cup {<<k[2], k[3]>>}
             new == [nc[k[1]] EXCEPT !.hears = h]
  <2>1. /\ nc' = [nc EXCEPT ![k[1]] = new]
        /\ UNCHANGED <<air, ncTaken, ncSent, ncUnsent>>
    BY <1>4 DEF nc_update_nc_node
  <2>2. k[1] \in NcNodes
    BY NcAssumption
  <2> HIDE DEF h
  <2>3. new.coding = nc[k[1]].coding
    BY <1>0, <2>2 DEF NcStates
  <2> HIDE DEF new
  <2>4. \A n \in NcNodes : nc'[n].coding = nc[n].coding
    BY <1>0, <2>1, <2>3
  <2> QED BY <1>0, <2>1, <2>4, NcStepAside
<1>5. ASSUME NEW n \in NcTicking, NEW d \in {1, Late}, NEW gone \in SUBSET nc[n].hears,
             nc_worker(n, d, gone)
      PROVE  NcPlaces(rank)'
  <2>1. n \in NcNodes /\ d \in Nat
    BY NcAssumption
  <2> QED BY <1>0, <1>5, <2>1, NcPlacesWork
<1>6. ASSUME NEW n \in NcNodes, nc_status_update(n) PROVE NcPlaces(rank)'
  <2> DEFINE new == [nc[n] EXCEPT !.on = ~@]
  <2>1. nc' = [nc EXCEPT ![n] = new] /\ UNCHANGED <<air, ncTaken, ncSent, ncUnsent>>
    BY <1>6 DEF nc_status_update
  <2>2. new.coding = nc[n].coding
    BY <1>0 DEF NcStates
  <2> HIDE DEF new
  <2>3. \A m \in NcNodes : nc'[m].coding = nc[m].coding
    BY <1>0, <2>1, <2>2
  <2> QED BY <1>0, <2>1, <2>3, NcStepAside
<1>7. CASE UNCHANGED ncVars
  <2>1. air' \subseteq air /\ UNCHANGED <<nc, ncTaken, ncSent, ncUnsent>>
    BY <1>7 DEF ncVars
  <2> QED BY <1>0, <2>1, NcStepAside
<1> QED BY <1>1, <1>2, <1>3, <1>4, <1>5, <1>6, <1>7 DEF NcNext

\* The buffers of a node, place by place
LEMMA NcBufferedIs ==
  ASSUME nc \in [NcNodes -> NcStates], NEW n \in NcNodes
  PROVE  /\ nc[n].coding \in NcHash(NcWaiting)
         /\ \A b \in Buffered(n) :
              /\ b \in NcWaiting
              /\ \E q \in DOMAIN nc[n].coding : \E i \in DOMAIN nc[n].coding[q].packet_list :
                   b = nc[n].coding[q].packet_list[i]
         /\ \A q \in DOMAIN nc[n].coding : \A i \in DOMAIN nc[n].coding[q].packet_list :
              nc[n].coding[q].packet_list[i] \in Buffered(n)
<1> DEFINE h == nc[n].coding
           X(q) == {h[q].packet_list[i] : i \in DOMAIN h[q].packet_list}
<1>1. h \in NcHash(NcWaiting)
  BY DEF NcStates
<1>2. \A b : b \in Buffered(n) <=> \E q \in DOMAIN h : b \in X(q)
  BY DEF Buffered
<1>3. \A b, q : b \in X(q) <=> \E i \in DOMAIN h[q].packet_list : b = h[q].packet_list[i]
  OBVIOUS
<1> HIDE DEF h, X
<1>4. \A q \in DOMAIN h : \A i \in DOMAIN h[q].packet_list : h[q].packet_list[i] \in NcWaiting
  BY <1>1, NcTakes
<1>5. \A b : b \in Buffered(n) <=>
        \E q \in DOMAIN h : \E i \in DOMAIN h[q].packet_list : b = h[q].packet_list[i]
  BY <1>2, <1>3
<1>6. ASSUME NEW b \in Buffered(n)
      PROVE  /\ b \in NcWaiting
             /\ \E q \in DOMAIN h : \E i \in DOMAIN h[q].packet_list : b = h[q].packet_list[i]
  BY <1>4, <1>5
<1>7. \A q \in DOMAIN h : \A i \in DOMAIN h[q].packet_list : h[q].packet_list[i] \in Buffered(n)
  BY <1>5
<1> QED BY <1>1, <1>6, <1>7 DEF h

\* What the history counts and what waits make one.
LEMMA NcCountsOnce ==
  ASSUME NEW rank
  PROVE  NcPlaces(rank) => NcForwardedOnce
<1> SUFFICES ASSUME NcPlaces(rank), NEW n \in NcNodes, NEW p \in NcPackets, <<n, p>> \in ncTaken
             PROVE  ncSent[<<n, p>>]
                      + Cardinality({b \in Buffered(n) : PacketOf(b.u.body) = p}) = 1
  BY DEF NcForwardedOnce
<1> DEFINE B == {b \in Buffered(n) : PacketOf(b.u.body) = p}
           h == nc[n].coding
<1>1. nc \in [NcNodes -> NcStates] /\ NcPlace(rank, p) /\ NcTidy(n, h)
  BY DEF NcPlaces, NcCarried, NcTidied
<1>2. /\ h \in NcHash(NcWaiting)
      /\ \A b \in Buffered(n) :
           /\ b \in NcWaiting
           /\ \E q \in DOMAIN h : \E i \in DOMAIN h[q].packet_list : b = h[q].packet_list[i]
      /\ \A q \in DOMAIN h : \A i \in DOMAIN h[q].packet_list :
           h[q].packet_list[i] \in Buffered(n)
  BY <1>1, NcBufferedIs
<1>3. NcOneSpot(h, p) /\ (NcHeldAt(n, p) <=> NcHolds(h, p))
  BY <1>1 DEF NcTidy, NcHeldAt
<1> HIDE DEF h
<1>4. \A b \in Buffered(n) : PacketOf(b.u.body) = p => b.u.body = Body(p)
  <2> TAKE b \in Buffered(n)
  <2>1. b.u \in NcUnicasts
    BY <1>2 DEF NcWaiting
  <2>2. PICK q \in NcPackets : b.u.body = Body(q)
    BY <2>1, NcUnicastIs
  <2> QED BY <2>2, NcPacketIs
<1>5. \A b \in B : \E q \in NcPaths, i \in Nat : NcSpot(h, p, q, i) /\ b = h[q].packet_list[i]
  <2> TAKE b \in B
  <2>1. PICK q \in DOMAIN h : \E i \in DOMAIN h[q].packet_list : b = h[q].packet_list[i]
    BY <1>2
  <2>2. PICK i \in DOMAIN h[q].packet_list : b = h[q].packet_list[i]
    BY <2>1
  <2>3. NcSpot(h, p, q, i)
    BY <1>4, <2>2 DEF NcSpot
  <2>4. q \in NcPaths /\ i \in Nat
    BY <1>2, <2>3, NcSpotIs
  <2> QED BY <2>2, <2>3, <2>4
<1>6. \A q, i : NcSpot(h, p, q, i) => h[q].packet_list[i] \in B
  BY <1>2, NcPacketIs DEF NcSpot
<1> HIDE DEF B
<1>7. CASE NcHolds(h, p)
  <2>1. PICK q \in NcPaths, i \in Nat : NcSpot(h, p, q, i)
    BY <1>7 DEF NcHolds
  <2> DEFINE b == h[q].packet_list[i]
  <2>2. b \in B
    BY <1>6, <2>1
  <2>3. \A c \in B : c = b
    BY <1>3, <1>5, <2>1 DEF NcOneSpot
  <2> HIDE DEF b
  <2>4. B = {b}
    BY <2>2, <2>3
  <2>5. Cardinality(B) = 1
    BY <2>4, FS_Singleton
  <2>6. ncSent[<<n, p>>] = 0
    BY <1>1, <1>3, <1>7 DEF NcPlace, NcSentIs
  <2> QED BY <2>5, <2>6 DEF B
<1>8. CASE ~NcHolds(h, p)
  <2>1. B = {}
    BY <1>5, <1>8 DEF NcHolds
  <2>2. Cardinality(B) = 0
    BY <2>1, FS_EmptySet
  <2>3. ncSent[<<n, p>>] = 1
    BY <1>1, <1>3, <1>8 DEF NcPlace, NcSentIs, NcTook
  <2> QED BY <2>2, <2>3 DEF B
<1> QED BY <1>7, <1>8

-----------------------------------------------------------------------------
(* How long a packet waits *)

\* On every path the packets are in the order in which they came.
NcSorted(h) ==
  \A q \in DOMAIN h : \A i, j \in DOMAIN h[q].packet_list :
    i <= j => h[q].packet_list[j].age <= h[q].packet_list[i].age

NcAtMost(h, t) ==
  \A q \in DOMAIN h : \A i \in DOMAIN h[q].packet_list : h[q].packet_list[i].age <= t

\* Nothing waits longer than one delay before the last flush.
NcOnTime(nd) ==
  /\ nd.timestamp_fwd_flush <= FwdDelay
  /\ NcAtMost(nd.coding, FwdDelay + nd.timestamp_fwd_flush)

\* The entries of a path have ages.
LEMMA NcEntryIs ==
  ASSUME NEW h \in NcHash(NcWaiting), NEW q \in DOMAIN h
  PROVE  /\ h[q].packet_list \in Seq(NcWaiting) /\ Len(h[q].packet_list) \in Nat
         /\ DOMAIN h[q].packet_list = 1..Len(h[q].packet_list)
         /\ \A i \in DOMAIN h[q].packet_list : h[q].packet_list[i].age \in Nat
<1> DEFINE s == h[q].packet_list
<1>1. h[q] \in NcPath(NcWaiting)
  BY NcHashIs
<1>2. s \in Seq(NcWaiting)
  BY <1>1 DEF NcPath
<1> HIDE DEF s
<1>3. DOMAIN s = 1..Len(s) /\ Len(s) \in Nat
  BY <1>2
<1>4. \A i \in 1..Len(s) : s[i] \in NcWaiting
  BY <1>2
<1>5. \A i \in DOMAIN s : s[i].age \in Nat
  BY <1>3, <1>4 DEF NcWaiting
<1> QED BY <1>2, <1>3, <1>5 DEF s

\* A new packet is the youngest.
LEMMA NcAddsAge ==
  ASSUME NEW h \in NcHash(NcWaiting), NEW path \in NcPaths, NEW e \in NcWaiting, e.age = 0,
         NEW g, g = nc_skb_add_to_path(h, path, e), NcSorted(h)
  PROVE  NcSorted(g) /\ \A t \in Nat : NcAtMost(h, t) => NcAtMost(g, t)
<1>1. PICK old \in Seq(NcWaiting) : NcAdded(h, path, e, g, old)
  BY NcAddIs
<1> DEFINE L == Len(old)
           s == g[path].packet_list
<1>2. /\ (path \in DOMAIN h => h[path].packet_list = old) /\ (path \notin DOMAIN h => L = 0)
      /\ DOMAIN g = DOMAIN h \cup {path} /\ \A q \in DOMAIN g \ {path} : g[q] = h[q]
      /\ DOMAIN old = 1..L /\ L \in Nat
      /\ DOMAIN s = 1..(L + 1) /\ \A i \in 1..L : s[i] = old[i]
      /\ s[L + 1].age = 0
  BY <1>1 DEF NcAdded
<1>3. \A i \in 1..L : path \in DOMAIN h /\ s[i] = h[path].packet_list[i]
                      /\ i \in DOMAIN h[path].packet_list
  BY <1>2
<1>4. \A i \in 1..L : s[i].age \in Nat
  BY <1>3, NcEntryIs
<1> HIDE DEF L, s
<1>5. ASSUME NEW i \in DOMAIN s, NEW j \in DOMAIN s, i <= j PROVE s[j].age <= s[i].age
  <2>1. CASE j \in 1..L
    <3>1. i \in 1..L
      BY <1>2, <1>5, <2>1
    <3> QED BY <1>3, <1>5, <2>1, <3>1 DEF NcSorted
  <2>2. CASE j = L + 1
    <3>1. i \in 1..L \/ i = L + 1
      BY <1>2
    <3> QED BY <1>2, <1>4, <2>2, <3>1
  <2>3. j \in 1..L \/ j = L + 1
    BY <1>2
  <2> QED BY <2>1, <2>2, <2>3
<1>6. NcSorted(g)
  BY <1>2, <1>5 DEF NcSorted, s
<1>7. ASSUME NEW t \in Nat, NcAtMost(h, t) PROVE NcAtMost(g, t)
  <2>1. ASSUME NEW i \in DOMAIN s PROVE s[i].age <= t
    <3>1. i \in 1..L \/ i = L + 1
      BY <1>2
    <3> QED BY <1>2, <1>3, <1>7, <3>1 DEF NcAtMost
  <2> QED BY <1>2, <1>7, <2>1 DEF NcAtMost, s
<1> QED BY <1>6, <1>7

\* A partner is taken out.
LEMMA NcTakesAge ==
  ASSUME NEW h, NEW path, path \in DOMAIN h, NEW i, NEW g, NcTakenOut(h, path, i, g), NcSorted(h)
  PROVE  NcSorted(g) /\ \A t \in Nat : NcAtMost(h, t) => NcAtMost(g, t)
<1> DEFINE s == h[path].packet_list
           t == g[path].packet_list
           at(j) == IF j < i THEN j ELSE j + 1
<1>1. NcTakenOut(h, path, i, g)
  OBVIOUS
<1>2. /\ DOMAIN g = DOMAIN h /\ \A q \in DOMAIN h \ {path} : g[q] = h[q]
      /\ Len(s) \in Nat /\ DOMAIN s = 1..Len(s) /\ i \in 1..Len(s)
      /\ DOMAIN t = 1..(Len(s) - 1)
      /\ \A j \in 1..(Len(s) - 1) : t[j] = s[at(j)]
  BY <1>1 DEF NcTakenOut
<1>3. \A j \in 1..(Len(s) - 1) : at(j) \in DOMAIN s
  BY <1>2
<1>4. \A j, k \in 1..(Len(s) - 1) : j <= k => at(j) <= at(k)
  BY <1>2
<1>5. \A j, k \in DOMAIN s : j <= k => s[k].age <= s[j].age
  BY DEF NcSorted
<1> HIDE DEF s, t, at
<1>6. \A j, k \in DOMAIN t : j <= k => t[k].age <= t[j].age
  BY <1>2, <1>3, <1>4, <1>5
<1>7. NcSorted(g)
  BY <1>2, <1>6 DEF NcSorted, t
<1>8. ASSUME NEW x \in Nat, NcAtMost(h, x) PROVE NcAtMost(g, x)
  <2>1. \A j \in DOMAIN t : t[j].age <= x
    BY <1>2, <1>3, <1>8 DEF NcAtMost, s
  <2> QED BY <1>2, <1>8, <2>1 DEF NcAtMost, t
<1> QED BY <1>7, <1>8

\* Time passes for all alike.
LEMMA NcAgedAge ==
  ASSUME NEW h \in NcHash(NcWaiting), NEW d \in Nat, NcSorted(h)
  PROVE  /\ NcSorted(Aged(h, d))
         /\ \A t \in Nat : NcAtMost(h, t) => NcAtMost(Aged(h, d), t + d)
<1> DEFINE g == Aged(h, d)
<1>1. DOMAIN g = DOMAIN h
  BY DEF Aged
<1>2. ASSUME NEW q \in DOMAIN h
      PROVE  /\ DOMAIN g[q].packet_list = DOMAIN h[q].packet_list
             /\ \A i \in DOMAIN h[q].packet_list :
                  g[q].packet_list[i].age = Later(h[q].packet_list[i].age, d)
  <2>1. g[q].packet_list = [i \in DOMAIN h[q].packet_list |->
                              [h[q].packet_list[i] EXCEPT !.age = Later(@, d)]]
    BY <1>2 DEF Aged
  <2>2. \A i \in DOMAIN h[q].packet_list : h[q].packet_list[i] \in NcWaiting
    BY <1>2, NcTakes
  <2>3. \A e \in NcWaiting : [e EXCEPT !.age = Later(@, d)].age = Later(e.age, d)
    BY DEF NcWaiting
  <2> QED BY <2>1, <2>2, <2>3
<1>3. \A a, b \in Nat : /\ a <= b => Later(a, d) <= Later(b, d)
                        /\ Later(a, d) <= a + d
                        /\ Later(a, d) \in Nat
  BY NcAssumption DEF Later
<1> HIDE DEF g
<1>4. \A q \in DOMAIN h : \A i \in DOMAIN h[q].packet_list : h[q].packet_list[i].age \in Nat
  BY NcEntryIs
<1>5. NcSorted(g)
  <2> SUFFICES ASSUME NEW q \in DOMAIN g, NEW i \in DOMAIN g[q].packet_list,
                      NEW j \in DOMAIN g[q].packet_list, i <= j
               PROVE  g[q].packet_list[j].age <= g[q].packet_list[i].age
    BY DEF NcSorted
  <2>1. q \in DOMAIN h /\ i \in DOMAIN h[q].packet_list /\ j \in DOMAIN h[q].packet_list
    BY <1>1, <1>2
  <2>2. h[q].packet_list[j].age <= h[q].packet_list[i].age
    BY <2>1 DEF NcSorted
  <2> QED BY <1>2, <1>3, <1>4, <2>1, <2>2
<1>6. ASSUME NEW t \in Nat, NcAtMost(h, t) PROVE NcAtMost(g, t + d)
  <2> SUFFICES ASSUME NEW q \in DOMAIN g, NEW i \in DOMAIN g[q].packet_list
               PROVE  g[q].packet_list[i].age <= t + d
    BY DEF NcAtMost
  <2>1. q \in DOMAIN h /\ i \in DOMAIN h[q].packet_list
    BY <1>1, <1>2
  <2> DEFINE a == h[q].packet_list[i].age
  <2>2. a <= t /\ a \in Nat
    BY <1>4, <1>6, <2>1 DEF NcAtMost
  <2>3. g[q].packet_list[i].age = Later(a, d)
    BY <1>2, <2>1
  <2> HIDE DEF a
  <2>4. Later(a, d) <= a + d /\ Later(a, d) \in Nat
    BY <1>3, <2>2
  <2> QED BY <2>2, <2>3, <2>4
<1> QED BY <1>5, <1>6 DEF g

\* batadv_nc_purge_paths leaves the order of what waits.
LEMMA NcPurgedAge ==
  ASSUME NEW h, NEW timeout, NcSorted(h)
  PROVE  /\ NcSorted(nc_purge_paths(h, timeout))
         /\ \A t \in Nat : NcAtMost(h, t) => NcAtMost(nc_purge_paths(h, timeout), t)
<1> DEFINE g == nc_purge_paths(h, timeout)
<1>1. DOMAIN g \subseteq DOMAIN h /\ \A q \in DOMAIN g : g[q] = h[q]
  BY DEF nc_purge_paths
<1> HIDE DEF g
<1>2. NcSorted(g)
  BY <1>1 DEF NcSorted
<1>3. \A t \in Nat : NcAtMost(h, t) => NcAtMost(g, t)
  BY <1>1 DEF NcAtMost
<1> QED BY <1>2, <1>3 DEF g

\* The flush leaves only what has not waited for the delay.
LEMMA NcCutAge ==
  ASSUME NEW h \in NcHash(NcWaiting), NEW timeout \in Nat, NcSorted(h),
         NEW g, g = nc_process_nc_paths(h, timeout)
  PROVE  NcSorted(g) /\ NcAtMost(g, timeout)
<1>1. DOMAIN g = DOMAIN h
  BY DEF nc_process_nc_paths
<1>2. ASSUME NEW q \in DOMAIN h
      PROVE  /\ \A i, j \in DOMAIN g[q].packet_list :
                  i <= j => g[q].packet_list[j].age <= g[q].packet_list[i].age
             /\ \A i \in DOMAIN g[q].packet_list : g[q].packet_list[i].age <= timeout
  <2> DEFINE s == h[q].packet_list
             t == g[q].packet_list
  <2>1. PICK k \in 0..Len(s) :
          /\ k < Len(s) => s[k + 1].age <= timeout
          /\ DOMAIN t = 1..(Len(s) - k)
          /\ \A i \in 1..(Len(s) - k) : t[i] = s[i + k]
    BY <1>2, NcCutIs
  <2>2. Len(s) \in Nat /\ DOMAIN s = 1..Len(s) /\ \A i \in DOMAIN s : s[i].age \in Nat
    BY <1>2, NcEntryIs
  <2>3. \A i, j \in DOMAIN s : i <= j => s[j].age <= s[i].age
    BY <1>2 DEF NcSorted
  <2> HIDE DEF s, t
  <2>4. \A i \in DOMAIN t : i + k \in DOMAIN s /\ t[i] = s[i + k] /\ i \in Nat
    BY <2>1, <2>2
  <2>5. ASSUME NEW i \in DOMAIN t, NEW j \in DOMAIN t, i <= j PROVE t[j].age <= t[i].age
    <3>1. i + k <= j + k
      BY <2>1, <2>4, <2>5
    <3> QED BY <2>3, <2>4, <3>1
  <2>6. ASSUME NEW i \in DOMAIN t PROVE t[i].age <= timeout
    <3>1. k + 1 \in DOMAIN s /\ k + 1 <= i + k /\ k < Len(s) /\ i + k \in DOMAIN s
      BY <2>1, <2>2, <2>4, <2>6
    <3>2. s[i + k].age <= s[k + 1].age /\ s[k + 1].age <= timeout
      BY <2>1, <2>3, <3>1
    <3>3. s[i + k].age \in Nat /\ s[k + 1].age \in Nat
      BY <2>2, <3>1
    <3> QED BY <2>4, <3>2, <3>3
  <2> QED BY <2>5, <2>6 DEF t
<1> QED BY <1>1, <1>2 DEF NcSorted, NcAtMost

\* A flush is always late by Late.
LEMMA NcLateIs ==
  FwdDelay \in Nat /\ Late \in Nat /\ FwdDelay + 1 < Late
<1>1. /\ FwdDelay \in Nat /\ Late \in Nat /\ BufferTime \in Nat /\ BufferTime > FwdDelay
      /\ PathFactor \in Nat /\ PathFactor >= 1 /\ Late > PathFactor * BufferTime
  BY NcAssumption
<1>2. PathFactor * BufferTime \in Nat /\ 1 * BufferTime <= PathFactor * BufferTime
  BY <1>1, ProductMonotone
<1>3. 1 * BufferTime = BufferTime
  BY <1>1
<1> QED BY <1>1, <1>2, <1>3

\* batadv_nc_skb_forward keeps the order, and new packets are young.
LEMMA NcForwardAge ==
  ASSUME NEW nd \in NcStates, NEW n \in NcNodes, NEW prev \in NcNodes, NEW next \in NcNodes,
         NEW u \in NcUnicasts, NEW failed \in BOOLEAN,
         NEW o \in nc_skb_forward(nd, n, prev, next, u, failed), NcSorted(nd.coding)
  PROVE  /\ NcSorted(o.nd.coding) /\ o.nd.timestamp_fwd_flush = nd.timestamp_fwd_flush
         /\ \A t \in Nat : NcAtMost(nd.coding, t) => NcAtMost(o.nd.coding, t)
<1> DEFINE one == [prev |-> prev, next |-> next, u |-> u]
           e == [u |-> u, age |-> 0]
           h == nd.coding
           added == nc_skb_add_to_path(h, <<prev, next>>, e)
<1>1. \/ NcBuffers(nd, o, h)
      \/ \E k \in Partners(nd, prev, next, u) : NcBuffers(nd, o, NcWithout(nd, k))
      \/ NcBuffers(nd, o, added)
  BY NcForwardIs DEF NcBothGo
<1>2. h \in NcHash(NcWaiting) /\ e \in NcWaiting /\ e.age = 0 /\ <<prev, next>> \in NcPaths
  BY DEF NcStates, NcWaiting, NcPaths
<1>3. added = nc_skb_add_to_path(h, <<prev, next>>, e)
  OBVIOUS
<1> HIDE DEF e, added
<1>4. NcSorted(added) /\ \A t \in Nat : NcAtMost(h, t) => NcAtMost(added, t)
  BY <1>2, <1>3, NcAddsAge
<1>5. ASSUME NEW k \in Partners(nd, prev, next, u)
      PROVE  /\ NcSorted(NcWithout(nd, k))
             /\ \A t \in Nat : NcAtMost(h, t) => NcAtMost(NcWithout(nd, k), t)
  <2> DEFINE path == <<k[1], k[2]>>
             g == NcWithout(nd, k)
             i == k[3]
  <2>1. path \in DOMAIN h /\ i \in DOMAIN h[path].packet_list
    BY DEF Partners, nc_hash_find
  <2>2. g = [h EXCEPT ![path].packet_list = SeqsExt!RemoveAt(@, i)]
    BY DEF NcWithout
  <2>3. NcSorted(h) /\ h \in NcHash(NcWaiting)
    BY <1>2
  <2> HIDE DEF path, g, i, h
  <2>4. NcTakenOut(h, path, i, g)
    BY <2>1, <2>2, <2>3, NcTakeIs
  <2>5. NcSorted(g) /\ \A t \in Nat : NcAtMost(h, t) => NcAtMost(g, t)
    BY <2>1, <2>3, <2>4, NcTakesAge
  <2> QED BY <2>5 DEF g, h
<1> QED BY <1>1, <1>4, <1>5 DEF NcBuffers

\* The lists of every node are in order, and short of the time that is allowed
\* as long as the worker runs on time.
NcAgeOf(nd, late) ==
  /\ NcSorted(nd.coding) /\ nd.timestamp_fwd_flush <= Late
  /\ ~late => NcOnTime(nd)

NcWaits == \A n \in NcNodes : NcAgeOf(nc[n], ncLate)

\* It is enough to look at the node that acts.
LEMMA NcAgesStep ==
  ASSUME NcCarried, NcWaits, NEW n \in NcNodes, NEW new, nc' = [nc EXCEPT ![n] = new],
         NcAgeOf(new, ncLate'), ncLate => ncLate'
  PROVE  NcWaits'
<1>1. nc \in [NcNodes -> NcStates]
  BY DEF NcCarried
<1>2. \A m \in NcNodes : nc'[m] = IF m = n THEN new ELSE nc[m]
  BY <1>1
<1>3. \A m \in NcNodes : NcAgeOf(nc[m], ncLate')
  BY DEF NcWaits, NcAgeOf
<1>4. \A m \in NcNodes : NcAgeOf(nc'[m], ncLate')
  BY <1>2, <1>3
<1> QED BY <1>4 DEF NcWaits, NcAgeOf, NcOnTime, NcSorted, NcAtMost

\* A packet comes in
LEMMA NcAgesUnpack ==
  ASSUME NcCarried, NcWaits, NEW n \in NcNodes, NEW nd \in NcStates,
         nd.coding = nc[n].coding, nd.timestamp_fwd_flush = nc[n].timestamp_fwd_flush,
         NEW prev \in NcNodes, NEW u \in NcUnicasts, NEW rest, Unpacked(n, nd, prev, u, rest)
  PROVE  NcWaits'
<1>0. NcAgeOf(nd, ncLate)
  BY DEF NcWaits, NcAgeOf, NcOnTime
<1>1. CASE u.dest = n
  <2> DEFINE o == Outcome(nd, {}, {})
  <2>1. Done(n, o, rest) /\ ncLate' = ncLate
    BY <1>1 DEF Unpacked
  <2>2. o.nd = nd
    BY DEF Outcome
  <2> HIDE DEF o
  <2>3. nc' = [nc EXCEPT ![n] = nd]
    BY <2>1, <2>2 DEF Done
  <2>4. NcAgeOf(nd, ncLate')
    BY <1>0, <2>1
  <2> QED BY <2>1, <2>3, <2>4, NcAgesStep
<1>2. CASE u.dest # n
  <2> DEFINE next == NcNextHop[<<n, u.dest>>]
  <2>1. \E failed \in BOOLEAN : ncLate' = ncLate /\
          \E o \in nc_skb_forward(nd, n, prev, next, u, failed) : Done(n, o, rest)
    BY <1>2 DEF Unpacked
  <2>2. PICK failed \in BOOLEAN : ncLate' = ncLate /\
          \E o \in nc_skb_forward(nd, n, prev, next, u, failed) : Done(n, o, rest)
    BY <2>1
  <2>3. PICK o \in nc_skb_forward(nd, n, prev, next, u, failed) : Done(n, o, rest)
    BY <2>2
  <2>4. next \in NcNodes
    <3>1. PICK p \in NcPackets : u.dest = NcDst[p]
      BY NcUnicastIs
    <3> QED BY <3>1, NcAssumption
  <2> HIDE DEF next
  <2>5. /\ NcSorted(o.nd.coding) /\ o.nd.timestamp_fwd_flush = nd.timestamp_fwd_flush
        /\ \A t \in Nat : NcAtMost(nd.coding, t) => NcAtMost(o.nd.coding, t)
    BY <1>0, <2>3, <2>4, NcForwardAge DEF NcAgeOf
  <2>6. FwdDelay + nd.timestamp_fwd_flush \in Nat
    BY NcLateIs DEF NcStates
  <2>7. NcAgeOf(o.nd, ncLate)
    BY <1>0, <2>5, <2>6 DEF NcAgeOf, NcOnTime
  <2>8. nc' = [nc EXCEPT ![n] = o.nd] /\ ncLate' = ncLate
    BY <2>2, <2>3 DEF Done
  <2>9. NcAgeOf(o.nd, ncLate')
    BY <2>7, <2>8
  <2> QED BY <2>8, <2>9, NcAgesStep
<1> QED BY <1>1, <1>2

\* A run of the worker: it flushes what is late.
LEMMA NcWorkAge ==
  ASSUME NEW nd \in NcStates, NEW n \in NcNodes, NEW d \in Nat, NEW gone, NEW late \in BOOLEAN,
         NEW order \in FlushOrders(NcCleared(nd, d, gone)), NcAgeOf(nd, late),
         NEW o, o = NcRan(NcCleared(nd, d, gone), n, order)
  PROVE  NcAgeOf(o.nd, late \/ d > 1)
<1> DEFINE c == NcCleared(nd, d, gone)
           aged == Aged(nd.coding, d)
           ts == nd.timestamp_fwd_flush
<1>1. /\ c \in NcStates /\ c.coding = nc_purge_paths(aged, PathFactor * FwdDelay)
      /\ c.timestamp_fwd_flush = Later(ts, d)
  BY NcClearedKeeps
<1>2. order \in FlushOrders(c) /\ o = NcRan(c, n, order)
  OBVIOUS
<1> HIDE DEF c
<1>3. nd.coding \in NcHash(NcWaiting) /\ ts \in Nat /\ NcSorted(nd.coding) /\ ts <= Late
  BY DEF NcStates, NcAgeOf
<1>4. /\ NcSorted(aged)
      /\ \A t \in Nat : NcAtMost(nd.coding, t) => NcAtMost(aged, t + d)
  BY <1>3, NcAgedAge
<1> HIDE DEF aged
<1>5. /\ NcSorted(c.coding)
      /\ \A t \in Nat : NcAtMost(aged, t) => NcAtMost(c.coding, t)
  BY <1>1, <1>4, NcPurgedAge
<1> HIDE DEF ts
<1>6. Later(ts, d) \in Nat /\ Later(ts, d) <= Late /\ (d <= 1 /\ ts <= FwdDelay => Later(ts, d) = ts + d)
  BY <1>3, NcLateIs DEF Later
<1>7. CASE c.timestamp_fwd_flush > FwdDelay
  <2> DEFINE g == nc_process_nc_paths(c.coding, FwdDelay)
  <2>1. o = nc_fwd_flush(c, n, order)
    BY <1>2, <1>7 DEF NcRan
  <2>2. o.nd.coding = g /\ o.nd.timestamp_fwd_flush = 0
    BY <1>1, <1>2, <2>1, NcFlushSends
  <2>3. c.coding \in NcHash(NcWaiting) /\ g = nc_process_nc_paths(c.coding, FwdDelay)
    BY <1>1 DEF NcStates
  <2> HIDE DEF g
  <2>4. NcSorted(g) /\ NcAtMost(g, FwdDelay)
    BY <1>5, <2>3, NcCutAge, NcLateIs
  <2>5. 0 <= Late /\ 0 <= FwdDelay /\ FwdDelay + 0 = FwdDelay
    BY NcLateIs
  <2> QED BY <2>2, <2>4, <2>5 DEF NcAgeOf, NcOnTime
<1>8. CASE ~(c.timestamp_fwd_flush > FwdDelay)
  <2> DEFINE x == Outcome(c, {}, {})
  <2>1. o = x /\ x.nd = c
    BY <1>2, <1>8 DEF NcRan, Outcome
  <2> HIDE DEF x
  <2>2. o.nd = c
    BY <2>1
  <2>3. Later(ts, d) <= FwdDelay
    BY <1>1, <1>6, <1>8, NcLateIs
  <2>4. ASSUME ~(late \/ d > 1) PROVE NcOnTime(c)
    <3>1. ts <= FwdDelay /\ NcAtMost(nd.coding, FwdDelay + ts) /\ d <= 1
      BY <2>4 DEF NcAgeOf, NcOnTime, ts
    <3>2. Later(ts, d) = ts + d /\ FwdDelay + ts \in Nat
      BY <1>3, <1>6, <3>1, NcLateIs
    <3>3. NcAtMost(aged, (FwdDelay + ts) + d) /\ (FwdDelay + ts) + d \in Nat
      BY <1>4, <3>1, <3>2
    <3>4. NcAtMost(c.coding, (FwdDelay + ts) + d)
      BY <1>5, <3>3
    <3>5. (FwdDelay + ts) + d = FwdDelay + c.timestamp_fwd_flush
      BY <1>1, <1>3, <3>2, NcLateIs
    <3> QED BY <1>1, <2>3, <3>4, <3>5 DEF NcOnTime
  <2> QED BY <1>1, <1>5, <1>6, <2>2, <2>4 DEF NcAgeOf
<1> QED BY <1>7, <1>8

\* A run of batadv_nc_worker, with the flush or without
LEMMA NcAgesWork ==
  ASSUME NcCarried, NcWaits, ncLate \in BOOLEAN, NEW n \in NcNodes, NEW d \in Nat, NEW gone,
         nc_worker(n, d, gone)
  PROVE  NcWaits'
<1> DEFINE c == NcCleared(nc[n], d, gone)
<1>1. /\ ncLate' = (ncLate \/ d > 1)
      /\ \E order \in FlushOrders(c) : Done(n, NcEnded(NcRan(c, n, order)), air)
  BY NcWorkIs
<1>2. PICK order \in FlushOrders(c) : Done(n, NcEnded(NcRan(c, n, order)), air)
  BY <1>1
<1> DEFINE ran == NcRan(c, n, order)
           o == NcEnded(ran)
<1>3. nc[n] \in NcStates /\ NcAgeOf(nc[n], ncLate) /\ NcCleared(nc[n], d, gone) \in NcStates
  BY NcAgesNode, NcPurgesNode DEF NcCarried, NcWaits, NcCleared
<1>4. NcAgeOf(ran.nd, ncLate \/ d > 1)
  BY <1>3, NcWorkAge
<1>5. NcSound(ran)
  <2>1. NcSound(nc_fwd_flush(c, n, order)) /\ NcSound(Outcome(c, {}, {}))
    BY <1>3, NcFlushes, NcSoundIs
  <2> HIDE DEF c
  <2> QED BY <2>1 DEF NcRan
<1> HIDE DEF ran
<1>6. /\ o.nd.coding = ran.nd.coding
      /\ o.nd.timestamp_fwd_flush = ran.nd.timestamp_fwd_flush
  BY <1>5, NcEndedIs
<1>7. nc' = [nc EXCEPT ![n] = o.nd]
  BY <1>2 DEF Done, ran
<1> HIDE DEF o
<1>8. NcAgeOf(o.nd, ncLate')
  BY <1>1, <1>4, <1>6 DEF NcAgeOf, NcOnTime
<1> QED BY <1>1, <1>7, <1>8, NcAgesStep

\* A step that leaves the buffers and the clocks of every node
LEMMA NcAgesAside ==
  ASSUME NcWaits, ncLate' = ncLate,
         \A n \in NcNodes : /\ nc'[n].coding = nc[n].coding
                            /\ nc'[n].timestamp_fwd_flush = nc[n].timestamp_fwd_flush
  PROVE  NcWaits'
<1>1. \A n \in NcNodes : NcAgeOf(nc'[n], ncLate')
  BY DEF NcWaits, NcAgeOf, NcOnTime
<1> QED BY <1>1 DEF NcWaits, NcAgeOf, NcOnTime, NcSorted, NcAtMost

\* One node does something that leaves its buffers and its clock.
LEMMA NcAgesBeside ==
  ASSUME NcCarried, NcWaits, ncLate' = ncLate, NEW n \in NcNodes, NEW new,
         nc' = [nc EXCEPT ![n] = new], new.coding = nc[n].coding,
         new.timestamp_fwd_flush = nc[n].timestamp_fwd_flush
  PROVE  NcWaits'
<1>1. nc \in [NcNodes -> NcStates]
  BY DEF NcCarried
<1>2. \A m \in NcNodes : /\ nc'[m].coding = nc[m].coding
                         /\ nc'[m].timestamp_fwd_flush = nc[m].timestamp_fwd_flush
  BY <1>1
<1> QED BY <1>2, NcAgesAside

\* A unicast frame comes in, for this node or for another.
LEMMA NcAgesUnicast ==
  ASSUME NcCarried, NcWaits, NEW a \in air, RecvUnicast(a[2], a[1])
  PROVE  NcWaits'
<1> DEFINE n == a[2]
           f == a[1]
           rest == air \ {<<f, n>>}
<1>1. nc \in [NcNodes -> NcStates] /\ NcFrame(f) /\ n \in NcNodes
  BY DEF NcCarried, NcOnAir
<1>2. f.type = "UNICAST"
  BY DEF RecvUnicast
<1>3. f \in NcPlainFrames
  BY <1>1, <1>2 DEF NcFrame, NcCodedFrame
<1>4. PICK p \in NcPackets : f.dest = NcDst[p] /\ f.body = Body(p)
  BY <1>3 DEF NcPlainFrames
<1>5. f.src \in NcNodes /\ f.dst \in NcNodes /\ nc[n] \in NcStates
  BY <1>1, <1>3 DEF NcPlainFrames
<1> DEFINE u == [dest |-> f.dest, body |-> f.body, decoded |-> FALSE]
<1>6. u \in NcUnicasts
  BY <1>4, NcIsUnicast
<1> HIDE DEF rest, u
<1>7. CASE f.dst # n
  <2> DEFINE nd == nc_skb_store_for_decoding(nc[n], <<f.src, f.dst>>, f.body)
             o == Outcome(nd, {}, {})
  <2>1. Done(n, o, rest) /\ ncLate' = ncLate
    BY <1>7 DEF RecvUnicast, rest
  <2>2. <<f.src, f.dst>> \in NcPaths /\ f.body \in NcPayloads
    BY <1>4, <1>5 DEF NcPaths, NcPayloads
  <2>3. /\ nd.coding = nc[n].coding
        /\ nd.timestamp_fwd_flush = nc[n].timestamp_fwd_flush
    BY <1>5, <2>2, NcStoresAside
  <2>4. o.nd = nd
    BY DEF Outcome
  <2> HIDE DEF o
  <2>5. nc' = [nc EXCEPT ![n] = nd]
    BY <2>1, <2>4 DEF Done
  <2> HIDE DEF nd
  <2> QED BY <1>1, <2>1, <2>3, <2>5, NcAgesBeside
<1>8. CASE f.dst = n
  <2>1. Unpacked(n, nc[n], f.src, u, rest)
    BY <1>8 DEF RecvUnicast, rest, u
  <2> QED BY <1>1, <1>5, <1>6, <2>1, NcAgesUnpack
<1> QED BY <1>7, <1>8

\* A coded frame comes in.
LEMMA NcAgesCoded ==
  ASSUME NcCarried, NcWaits, NEW a \in air, nc_recv_coded_packet(a[2], a[1])
  PROVE  NcWaits'
<1> DEFINE n == a[2]
           f == a[1]
           rest == air \ {<<f, n>>}
<1>1. n \in NcNodes
  BY DEF NcCarried, NcOnAir
<1>2. /\ f.src \in NcNodes
      /\ \/ UNCHANGED <<nc, ncLate>>
         \/ \E nd \in NcStates, u \in NcUnicasts :
              /\ nd.coding = nc[n].coding
              /\ nd.timestamp_fwd_flush = nc[n].timestamp_fwd_flush
              /\ Unpacked(n, nd, f.src, u, rest)
  BY NcCodedIs
<1> HIDE DEF rest
<1>3. CASE UNCHANGED <<nc, ncLate>>
  BY <1>3, NcAgesAside
<1>4. ASSUME NEW nd \in NcStates, NEW u \in NcUnicasts, nd.coding = nc[n].coding,
             nd.timestamp_fwd_flush = nc[n].timestamp_fwd_flush,
             Unpacked(n, nd, f.src, u, rest)
      PROVE  NcWaits'
  BY <1>1, <1>2, <1>4, NcAgesUnpack
<1> QED BY <1>2, <1>3, <1>4

\* Every step keeps the order of what waits and its ages.
LEMMA NcWaitsNext ==
  NcCarried /\ NcWaits /\ ncLate \in BOOLEAN /\ [NcNext]_ncVars
    => NcWaits' /\ ncLate' \in BOOLEAN
<1> SUFFICES ASSUME NcCarried, NcWaits, ncLate \in BOOLEAN, [NcNext]_ncVars
             PROVE  NcWaits' /\ ncLate' \in BOOLEAN
  OBVIOUS
<1>0. nc \in [NcNodes -> NcStates]
  BY DEF NcCarried
<1>1. ASSUME NEW p \in NcPackets, Originate(p) PROVE NcWaits' /\ ncLate' = ncLate
  <2> DEFINE n == NcSrc[p]
             next == NcNextHop[<<n, NcDst[p]>>]
             u == [dest |-> NcDst[p], body |-> Body(p), decoded |-> FALSE]
             o == Plain(nc[n], n, next, u)
  <2>1. Done(n, o, air) /\ ncLate' = ncLate
    BY <1>1 DEF Originate
  <2>2. n \in NcNodes /\ next \in NcNodes /\ u \in NcUnicasts /\ nc[n] \in NcStates
    BY <1>0, NcAssumption, NcIsUnicast
  <2> HIDE DEF n, next, u
  <2>3. NcBuffers(nc[n], o, nc[n].coding)
    BY <2>2, NcPlainIs
  <2>4. /\ o.nd.coding = nc[n].coding
        /\ o.nd.timestamp_fwd_flush = nc[n].timestamp_fwd_flush
    BY <2>3 DEF NcBuffers
  <2> HIDE DEF o
  <2>5. nc' = [nc EXCEPT ![n] = o.nd]
    BY <2>1 DEF Done
  <2> QED BY <2>1, <2>2, <2>4, <2>5, NcAgesBeside
<1>2. ASSUME NEW a \in air, Recv(a[2], a[1]) PROVE NcWaits' /\ ncLate' = ncLate
  <2>1. NcWaits'
    BY <1>2, NcAgesUnicast, NcAgesCoded DEF Recv
  <2>2. ncLate' = ncLate
    BY <1>2, Zenon DEF Recv, RecvUnicast, nc_recv_coded_packet, Unpacked
  <2> QED BY <2>1, <2>2
<1>3. ASSUME NEW a \in air, Miss(a[2], a[1]) PROVE NcWaits' /\ ncLate' = ncLate
  <2>1. nc' = nc /\ ncLate' = ncLate
    BY <1>3 DEF Miss
  <2> QED BY <2>1, NcAgesAside
<1>4. ASSUME NEW k \in NcOgms, nc_update_nc_node(k[1], k[2], k[3])
      PROVE  NcWaits' /\ ncLate' = ncLate
  <2> DEFINE h == nc[k[1]].hears \cup {<<k[2], k[3]>>}
             new == [nc[k[1]] EXCEPT !.hears = h]
  <2>1. nc' = [nc EXCEPT ![k[1]] = new] /\ ncLate' = ncLate
    BY <1>4 DEF nc_update_nc_node
  <2>2. k[1] \in NcNodes
    BY NcAssumption
  <2> HIDE DEF h
  <2>3. /\ new.coding = nc[k[1]].coding
        /\ new.timestamp_fwd_flush = nc[k[1]].timestamp_fwd_flush
    BY <1>0, <2>2 DEF NcStates
  <2> HIDE DEF new
  <2> QED BY <2>1, <2>2, <2>3, NcAgesBeside
<1>5. ASSUME NEW n \in NcTicking, NEW d \in {1, Late}, NEW gone \in SUBSET nc[n].hears,
             nc_worker(n, d, gone)
      PROVE  NcWaits' /\ ncLate' \in BOOLEAN
  <2>1. n \in NcNodes /\ d \in Nat
    BY NcAssumption
  <2>2. ncLate' = (ncLate \/ d > 1)
    BY <1>5 DEF nc_worker
  <2> QED BY <1>5, <2>1, <2>2, NcAgesWork
<1>6. ASSUME NEW n \in NcNodes, nc_status_update(n) PROVE NcWaits' /\ ncLate' = ncLate
  <2> DEFINE new == [nc[n] EXCEPT !.on = ~@]
  <2>1. nc' = [nc EXCEPT ![n] = new] /\ ncLate' = ncLate
    BY <1>6 DEF nc_status_update
  <2>2. /\ new.coding = nc[n].coding
        /\ new.timestamp_fwd_flush = nc[n].timestamp_fwd_flush
    BY <1>0 DEF NcStates
  <2> HIDE DEF new
  <2> QED BY <2>1, <2>2, NcAgesBeside
<1>7. CASE UNCHANGED ncVars
  <2>1. nc' = nc /\ ncLate' = ncLate
    BY <1>7 DEF ncVars
  <2> QED BY <2>1, NcAgesAside
<1> QED BY <1>1, <1>2, <1>3, <1>4, <1>5, <1>6, <1>7 DEF NcNext

\* Before the first step nothing waits.
LEMMA NcWaitsStart ==
  NcInit => NcWaits /\ ncLate \in BOOLEAN
<1> SUFFICES ASSUME NcInit PROVE NcWaits /\ ncLate \in BOOLEAN
  OBVIOUS
<1>1. \A n \in NcNodes : nc[n].coding = <<>> /\ nc[n].timestamp_fwd_flush = 0
  BY DEF NcInit, nc_mesh_init
<1>2. DOMAIN <<>> = {} /\ 0 <= Late /\ 0 <= FwdDelay
  BY NcLateIs
<1> QED BY <1>1, <1>2 DEF NcWaits, NcAgeOf, NcOnTime, NcSorted, NcAtMost, NcInit

\* What the property says of the age and of the types
LEMMA NcNoneHeldLong ==
  NcCarried /\ NcWaits => NcNotHeldLong
<1> SUFFICES ASSUME NcCarried, NcWaits, ~ncLate, NEW n \in NcNodes, NEW b \in Buffered(n)
             PROVE  b.age <= 2 * FwdDelay
  BY DEF NcNotHeldLong
<1> DEFINE h == nc[n].coding
           ts == nc[n].timestamp_fwd_flush
<1>1. nc \in [NcNodes -> NcStates]
  BY DEF NcCarried
<1>2. PICK q \in DOMAIN h : \E i \in DOMAIN h[q].packet_list : b = h[q].packet_list[i]
  BY <1>1, NcBufferedIs
<1>3. PICK i \in DOMAIN h[q].packet_list : b = h[q].packet_list[i]
  BY <1>2
<1>4. b.age <= FwdDelay + ts /\ ts <= FwdDelay
  BY <1>2, <1>3 DEF NcWaits, NcAgeOf, NcOnTime, NcAtMost
<1>5. b \in NcWaiting /\ ts \in Nat
  BY <1>1, NcBufferedIs DEF NcStates
<1>6. b.age \in Nat
  BY <1>5 DEF NcWaiting
<1> HIDE DEF ts
<1> QED BY <1>4, <1>5, <1>6, NcLateIs

\* The types follow from both parts.
LEMMA NcTyped ==
  NcCarried /\ NcCounts /\ NcWaits => NcTypeOK
<1> SUFFICES ASSUME NcCarried, NcCounts, NcWaits PROVE NcTypeOK
  OBVIOUS
<1>1. ASSUME NEW n \in NcNodes
      PROVE  /\ nc[n].hears \subseteq NcNodes \X NcNodes
             /\ DOMAIN nc[n].coding \subseteq NcNodes \X NcNodes
             /\ nc[n].timestamp_fwd_flush \in 0..Late
  <2>1. nc[n] \in NcStates
    BY DEF NcCarried
  <2>2. nc[n].hears \subseteq NcNodes \X NcNodes
    BY <2>1 DEF NcStates, NcPaths
  <2>3. nc[n].coding \in NcHash(NcWaiting)
    BY <2>1 DEF NcStates
  <2>4. DOMAIN nc[n].coding \subseteq NcNodes \X NcNodes
    BY <2>3, NcHashIs DEF NcPaths
  <2>5. nc[n].timestamp_fwd_flush \in Nat /\ nc[n].timestamp_fwd_flush <= Late
    BY <2>1 DEF NcStates, NcWaits, NcAgeOf
  <2> QED BY <2>2, <2>4, <2>5, NcLateIs
<1> QED BY <1>1 DEF NcTypeOK, NcCounts

\* All of it together
NcInv(rank) == NcPlaces(rank) /\ NcWaits /\ ncLate \in BOOLEAN

\* The buffers of the forwarders, for routes along which a packet never comes
\* back (nc_process_nc_paths, nc_skb_forward, nc_purge_paths): whatever meets,
\* is coded, fails to be allocated, is missed or comes late, a node that has
\* taken a packet holds it or has sent it once, and holds nothing for longer
\* than two delays while its worker runs on time.
THEOREM NcForwardsEach ==
  NcLoopFree => (NcSpec => []NcForwardsAll)
<1> SUFFICES ASSUME NcLoopFree PROVE NcSpec => []NcForwardsAll
  OBVIOUS
<1>0. PICK rank : NcDecreases(rank)
  BY DEF NcLoopFree
<1>1. NcInit => NcInv(rank)
  BY NcPlacesStart, NcWaitsStart DEF NcInv
<1>2. NcInv(rank) /\ [NcNext]_ncVars => NcInv(rank)'
  <2>1. NcPlaces(rank) => NcCarried
    BY DEF NcPlaces
  <2> QED BY <1>0, <2>1, NcPlacesNext, NcWaitsNext DEF NcInv
<1>3. NcInv(rank) => NcForwardsAll
  BY NcCountsOnce, NcNoneHeldLong, NcTyped DEF NcInv, NcPlaces, NcForwardsAll
<1> QED BY <1>1, <1>2, <1>3, PTL DEF NcSpec

-----------------------------------------------------------------------------
(***************************************************************************)
(* BatVElp                                                                 *)
(***************************************************************************)
\* What bat_events works on
ElpWorkNames == ElpNeighbours \cup {"periodic"}
ElpNeighs == [here : BOOLEAN, latest : 0..(ElpSeqMod - 1), refs : Nat, missed : 0..ElpTimeout]

InQueue(q, w) == \E i \in DOMAIN q : q[i] = w

\* A work is queued once, and the periodic one behind the measurements that its
\* last run has queued.
ElpLine(q) ==
  /\ q \in Seq(ElpWorkNames)
  /\ \A i, j \in DOMAIN q : q[i] = q[j] => i = j
  /\ \A i \in DOMAIN q : q[i] = "periodic" => i = Len(q)

\* What the thread is at tells its work.
ElpThread(r) ==
  /\ r = [work |-> r.work, at |-> r.at] /\ r.work \in ElpWorkNames \cup {"none"}
  /\ (r.work = "none") <=> (r.at = "none")
  /\ r.at = "send" => r.work = "periodic"
  /\ r.work = "periodic" => r.at \in {"begin", "send"}

\* The periodic work is in one place while the interface is in use, but for the
\* time of its cancellation.
ElpOnePeriodic ==
  /\ elpTimer => ~InQueue(elpQueue, "periodic") /\ elpRun.work # "periodic"
  /\ elpRun.work = "periodic" => elpQueue = <<>>
  /\ elpUser = "none" =>
       (elpUsed <=> elpTimer \/ InQueue(elpQueue, "periodic") \/ elpRun.work = "periodic")
  /\ elpUser = "cancel" => elpUsed /\ ~elpTimer /\ ~InQueue(elpQueue, "periodic")
  /\ elpUsed => elpSkb

One(b) == IF b THEN 1 ELSE 0

\* The references of a neighbour
ElpHeld(e, queued, runs) == e.refs = One(queued) + One(runs) + One(e.here)

\* A neighbour that is not heard comes one number nearer with each packet, and
\* is purged before its numbers have gone round.
ElpNear(s, e, deaf) ==
  deaf > 0 =>
    LET d == ElpSeqDiff(s, e.latest) IN
    /\ e.here /\ deaf <= ElpMaxAge
    /\ d >= deaf - ElpMaxAge + 1 /\ d <= 1 + e.missed

ElpFlags == elpUsed \in BOOLEAN /\ elpSkb \in BOOLEAN /\ elpTimer \in BOOLEAN
            /\ elpUser \in {"none", "cancel"}

ElpAll ==
  /\ elpNeigh \in [ElpNeighbours -> ElpNeighs]
  /\ elpSent \in [ElpNeighbours -> 0..(ElpSeqMod - 1)]
  /\ elpDeaf \in [ElpNeighbours -> Nat]
  /\ \A n \in ElpNeighbours :
       /\ ElpHeld(elpNeigh[n], InQueue(elpQueue, n), elpRun.work = n)
       /\ ElpNear(elpSent[n], elpNeigh[n], elpDeaf[n])

ElpInv == ElpFlags /\ ElpLine(elpQueue) /\ ElpThread(elpRun) /\ ElpOnePeriodic /\ ElpAll

-----------------------------------------------------------------------------
(* Queues *)

LEMMA ElpNames ==
  /\ IsFiniteSet(ElpNeighbours) /\ "periodic" \notin ElpNeighbours /\ "none" \notin ElpNeighbours
  /\ \A k \in ElpKinds : k \notin {"begin", "send", "none"}
  /\ ElpSeqMod \in Nat /\ ElpMaxAge \in Nat /\ ElpTimeout \in Nat
  /\ 2 * (ElpTimeout + 2) <= ElpSeqMod
BY ElpAssumption DEF ElpAllKinds

LEMMA ElpIndices ==
  ASSUME NEW q, ElpLine(q)
  PROVE  /\ q \in Seq(ElpWorkNames) /\ Len(q) \in Nat /\ DOMAIN q = 1..Len(q)
         /\ \A i \in 1..Len(q) : q[i] \in ElpWorkNames
         /\ q = <<>> <=> Len(q) = 0
BY DEF ElpLine

\* The timer fires.
LEMMA ElpLonger ==
  ASSUME NEW q, ElpLine(q), ~InQueue(q, "periodic")
  PROVE  LET r == Append(q, "periodic") IN
         /\ ElpLine(r)
         /\ \A w : InQueue(r, w) <=> InQueue(q, w) \/ w = "periodic"
<1> DEFINE r == Append(q, "periodic")
           k == Len(q)
<1>1. /\ q \in Seq(ElpWorkNames) /\ k \in Nat /\ DOMAIN q = 1..k
      /\ \A i \in 1..k : q[i] \in ElpWorkNames
  BY ElpIndices
<1>2. "periodic" \in ElpWorkNames
  BY DEF ElpWorkNames
<1>3. /\ r \in Seq(ElpWorkNames) /\ Len(r) = k + 1 /\ DOMAIN r = 1..(k + 1)
      /\ \A i \in 1..k : r[i] = q[i]
      /\ r[k + 1] = "periodic"
  BY <1>1, <1>2
<1>4. /\ \A i, j \in 1..k : q[i] = q[j] => i = j
      /\ \A i \in 1..k : q[i] # "periodic"
  BY <1>1 DEF ElpLine, InQueue
<1> HIDE DEF r, k
<1>5. \A i \in 1..(k + 1) : i \in 1..k \/ i = k + 1
  BY <1>1
<1>6. \A i, j \in DOMAIN r : r[i] = r[j] => i = j
  BY <1>3, <1>4, <1>5
<1>7. \A i \in DOMAIN r : r[i] = "periodic" => i = Len(r)
  BY <1>3, <1>4, <1>5
<1>8. 1..k \subseteq 1..(k + 1) /\ k + 1 \in 1..(k + 1)
  BY <1>1
<1>9. \A w : InQueue(r, w) <=> InQueue(q, w) \/ w = "periodic"
  BY <1>1, <1>3, <1>5, <1>8 DEF InQueue
<1> QED BY <1>3, <1>6, <1>7, <1>9 DEF ElpLine, r

\* The thread takes the first work.
LEMMA ElpShorter ==
  ASSUME NEW q, ElpLine(q), q # <<>>
  PROVE  /\ Head(q) \in ElpWorkNames /\ ElpLine(Tail(q))
         /\ Head(q) = "periodic" => Tail(q) = <<>>
         /\ InQueue(q, Head(q))
         /\ \A w : InQueue(Tail(q), w) <=> InQueue(q, w) /\ w # Head(q)
<1> DEFINE r == Tail(q)
           k == Len(q)
<1>1. /\ q \in Seq(ElpWorkNames) /\ k \in Nat /\ DOMAIN q = 1..k /\ k >= 1
      /\ \A i \in 1..k : q[i] \in ElpWorkNames
  BY ElpIndices
<1>2. /\ r \in Seq(ElpWorkNames) /\ Len(r) = k - 1 /\ DOMAIN r = 1..(k - 1)
      /\ \A i \in 1..(k - 1) : r[i] = q[i + 1]
      /\ Head(q) = q[1]
  BY <1>1
<1>3. /\ \A i, j \in 1..k : q[i] = q[j] => i = j
      /\ \A i \in 1..k : q[i] = "periodic" => i = k
  BY <1>1 DEF ElpLine
<1> HIDE DEF r, k
<1>4. \A i, j \in DOMAIN r : r[i] = r[j] => i = j
  BY <1>1, <1>2, <1>3
<1>5. \A i \in DOMAIN r : r[i] = "periodic" => i = Len(r)
  BY <1>1, <1>2, <1>3
<1>6. 1 \in 1..k /\ (Head(q) = "periodic" => k = 1)
  BY <1>1, <1>2, <1>3
<1>7. Head(q) = "periodic" => r = <<>>
  BY <1>2, <1>6
<1>8. ASSUME NEW w
      PROVE  InQueue(r, w) <=> InQueue(q, w) /\ w # Head(q)
  <2>1. ASSUME InQueue(r, w) PROVE InQueue(q, w) /\ w # Head(q)
    <3>1. PICK i \in 1..(k - 1) : r[i] = w
      BY <1>2, <2>1 DEF InQueue
    <3>2. i + 1 \in 1..k /\ q[i + 1] = w /\ i + 1 # 1
      BY <1>1, <1>2, <3>1
    <3> QED BY <1>1, <1>2, <1>3, <1>6, <3>2 DEF InQueue
  <2>2. ASSUME InQueue(q, w), w # Head(q) PROVE InQueue(r, w)
    <3>1. PICK i \in 1..k : q[i] = w
      BY <1>1, <2>2 DEF InQueue
    <3>2. i # 1
      BY <1>2, <2>2, <3>1
    <3>3. i - 1 \in 1..(k - 1) /\ (i - 1) + 1 = i
      BY <1>1, <3>1, <3>2
    <3>4. r[i - 1] = w
      BY <1>2, <3>1, <3>3
    <3> QED BY <1>2, <3>3, <3>4 DEF InQueue
  <2> QED BY <2>1, <2>2
<1> QED BY <1>1, <1>2, <1>4, <1>5, <1>6, <1>7, <1>8 DEF ElpLine, InQueue, r

\* The periodic work is taken back.
LEMMA ElpCut ==
  ASSUME NEW q, ElpLine(q), NEW i \in DOMAIN q, q[i] = "periodic"
  PROVE  LET r == ElpSeqs!RemoveAt(q, i) IN
         /\ ElpLine(r) /\ ~InQueue(r, "periodic")
         /\ \A n \in ElpNeighbours : InQueue(r, n) <=> InQueue(q, n)
<1> DEFINE k == Len(q)
           a == SubSeq(q, 1, i - 1)
           b == SubSeq(q, i + 1, k)
           r == a \o b
<1>1. /\ q \in Seq(ElpWorkNames) /\ k \in Nat /\ DOMAIN q = 1..k
      /\ \A j \in 1..k : q[j] \in ElpWorkNames
  BY ElpIndices
<1>2. i = k /\ k >= 1
  BY <1>1 DEF ElpLine
<1>3. /\ a \in Seq(ElpWorkNames) /\ Len(a) = k - 1 /\ \A j \in 1..(k - 1) : a[j] = q[j]
      /\ b = <<>>
  <2>1. /\ SubSeq(q, 1, k - 1) \in Seq(ElpWorkNames) /\ Len(SubSeq(q, 1, k - 1)) = k - 1
        /\ \A j \in 1..(k - 1) : SubSeq(q, 1, k - 1)[j] = q[j]
    BY <1>1, <1>2
  <2>2. SubSeq(q, k + 1, k) = <<>>
    BY <1>1, <1>2
  <2> QED BY <1>2, <2>1, <2>2
<1>4. ElpSeqs!RemoveAt(q, i) = r
  BY DEF ElpSeqs!RemoveAt
<1> HIDE DEF a, b, k
<1>5. r = a
  BY <1>3
<1>6. /\ r \in Seq(ElpWorkNames) /\ Len(r) = k - 1 /\ DOMAIN r = 1..(k - 1)
      /\ \A j \in 1..(k - 1) : r[j] = q[j]
  BY <1>1, <1>2, <1>3, <1>5
<1>7. /\ \A j, h \in 1..k : q[j] = q[h] => j = h
      /\ \A j \in 1..k : q[j] = "periodic" => j = k
  BY <1>1 DEF ElpLine, k
<1> HIDE DEF r
<1>8. 1..(k - 1) \subseteq 1..k /\ \A j \in 1..k : j \in 1..(k - 1) \/ j = k
  BY <1>1
<1>9. \A j \in 1..(k - 1) : j # k
  BY <1>1
<1>10. ElpLine(r) /\ ~InQueue(r, "periodic")
  BY <1>6, <1>7, <1>8, <1>9 DEF ElpLine, InQueue
<1>11. \A n \in ElpNeighbours : InQueue(r, n) <=> InQueue(q, n)
  BY <1>1, <1>2, <1>6, <1>8, ElpNames DEF InQueue
<1> QED BY <1>4, <1>10, <1>11

\* The measurements of all neighbours are queued, in some order.
LEMMA ElpOrders ==
  ASSUME NEW here \in SUBSET ElpNeighbours, NEW order \in ElpSeqs!SetToSeqs(here)
  PROVE  /\ ElpLine(order) /\ ~InQueue(order, "periodic")
         /\ \A n \in ElpNeighbours : InQueue(order, n) <=> n \in here
<1> DEFINE k == Cardinality(here)
           D == 1..k
           R == {order[i] : i \in D}
<1>1. IsFiniteSet(here)
  BY ElpNames, FS_Subset
<1>2. k \in Nat
  BY <1>1, FS_CardinalityType
<1>3. order \in [D -> here] /\ \A i, j \in D : i # j => order[i] # order[j]
  BY DEF ElpSeqs!SetToSeqs, ElpSeqs!Cardinality, Cardinality
<1> HIDE DEF k
<1>4. IsFiniteSet(D) /\ Cardinality(D) = k
  <2>1. 1 \in Int /\ k \in Int
    BY <1>2
  <2>2. IsFiniteSet(1..k) /\ Cardinality(1..k) = IF 1 > k THEN 0 ELSE k - 1 + 1
    BY <2>1, FS_Interval
  <2> QED BY <1>2, <2>2
<1>5. order \in [D -> R] /\ R \subseteq here
  BY <1>3
<1>6. order \in Bijection(D, R)
  BY <1>3, <1>5 DEF Bijection, Injection, Surjection, IsInjective
<1>7. ExistsBijection(D, R)
  BY <1>6 DEF ExistsBijection
<1>8. Cardinality(R) = k
  BY <1>4, <1>7, FS_Bijection
<1>9. R = here
  <2>1. Cardinality(here) = Cardinality(R) => here = R
    BY <1>1, <1>5, FS_Subset
  <2> QED BY <1>8, <2>1 DEF k
<1>10. DOMAIN order = D /\ \A i \in D : order[i] \in ElpWorkNames /\ order[i] # "periodic"
  BY <1>3, ElpNames DEF ElpWorkNames
<1>11. order \in Seq(ElpWorkNames)
  BY <1>2, <1>3, <1>10
<1> HIDE DEF D
<1>12. \A n \in ElpNeighbours : InQueue(order, n) <=> n \in here
  BY <1>9, <1>10 DEF InQueue
<1> QED BY <1>3, <1>10, <1>11, <1>12 DEF ElpLine, InQueue

-----------------------------------------------------------------------------
(* Sequence numbers *)

ElpHalf == ElpSeqMod \div 2

LEMMA ElpDiffIs ==
  ASSUME NEW s \in 0..(ElpSeqMod - 1), NEW l \in 0..(ElpSeqMod - 1)
  PROVE  /\ ElpHalf \in Nat /\ 2 * ElpHalf <= ElpSeqMod /\ ElpSeqMod <= 2 * ElpHalf + 1
         /\ ElpSeqDiff(s, l) \in Int
         /\ ElpSeqDiff(s, l) = (IF s - l + ElpHalf < 0 THEN s - l + ElpHalf + ElpSeqMod
                                ELSE IF s - l + ElpHalf < ElpSeqMod THEN s - l + ElpHalf
                                ELSE s - l + ElpHalf - ElpSeqMod) - ElpHalf
<1>1. ElpSeqMod \in Nat /\ ElpSeqMod >= 4
  BY ElpNames
<1> DEFINE M == ElpSeqMod
           h == ElpHalf
           x == s - l + h
<1>2. h \in Nat /\ 2 * h <= M /\ M <= 2 * h + 1
  BY <1>1 DEF ElpHalf
<1>3. x \in Int /\ -M < x /\ x < 2 * M
  BY <1>1, <1>2
<1> HIDE DEF x
<1>4. x % M = IF x < 0 THEN x + M ELSE IF x < M THEN x ELSE x - M
  BY <1>1, <1>3
<1>5. ElpSeqDiff(s, l) = (x % M) - h
  BY DEF ElpSeqDiff, ElpHalf, x
<1>6. ElpSeqDiff(s, l) = (IF x < 0 THEN x + M ELSE IF x < M THEN x ELSE x - M) - h
  BY <1>4, <1>5
<1>7. ElpSeqDiff(s, l) \in Int
  BY <1>1, <1>2, <1>3, <1>6
<1> QED BY <1>1, <1>2, <1>3, <1>6, <1>7 DEF x

\* The next number is one further.
LEMMA ElpDiffNext ==
  ASSUME NEW s \in 0..(ElpSeqMod - 1), NEW l \in 0..(ElpSeqMod - 1),
         ElpSeqDiff(s, l) <= ElpTimeout
  PROVE  LET t == (s + 1) % ElpSeqMod IN
         /\ ElpSeqDiff(s, l) \in Int /\ t \in 0..(ElpSeqMod - 1)
         /\ ElpSeqDiff(t, l) = ElpSeqDiff(s, l) + 1
<1> DEFINE M == ElpSeqMod
           t == (s + 1) % M
           h == ElpHalf
<1>1. M \in Nat /\ ElpTimeout \in Nat /\ 2 * (ElpTimeout + 2) <= M
  BY ElpNames
<1>2. s + 1 < M => t = s + 1
  BY <1>1
<1>3. s + 1 = M => t = 0
  <2>1. M % M = 0
    BY <1>1
  <2> QED BY <2>1
<1>4. s \in 0..(M - 1) /\ l \in 0..(M - 1)
  OBVIOUS
<1> HIDE DEF t
<1>5. t = (IF s + 1 < M THEN s + 1 ELSE 0) /\ t \in 0..(M - 1)
  BY <1>1, <1>2, <1>3, <1>4
<1>6. /\ h \in Nat /\ 2 * h <= M /\ M <= 2 * h + 1
      /\ ElpSeqDiff(s, l) = (IF s - l + h < 0 THEN s - l + h + M
                             ELSE IF s - l + h < M THEN s - l + h ELSE s - l + h - M) - h
  BY <1>4, ElpDiffIs
<1>7. ElpSeqDiff(t, l) = (IF t - l + h < 0 THEN t - l + h + M
                          ELSE IF t - l + h < M THEN t - l + h ELSE t - l + h - M) - h
  BY <1>4, <1>5, ElpDiffIs
<1> HIDE DEF h
<1>8. ElpSeqDiff(t, l) = ElpSeqDiff(s, l) + 1 /\ ElpSeqDiff(s, l) \in Int
  BY <1>1, <1>4, <1>5, <1>6, <1>7
<1> QED BY <1>5, <1>8 DEF t

\* A packet that is ignored
LEMMA ElpIgnored ==
  ASSUME NEW s \in 0..(ElpSeqMod - 1), NEW e \in ElpNeighs, NEW f \in ElpNeighs,
         NEW deaf \in Nat, ElpNear(s, e, deaf), elp_is_old(ElpSeqDiff(s, e.latest)),
         f.here, f.latest = e.latest
  PROVE  ElpNear((s + 1) % ElpSeqMod, f, deaf + 1)
<1> DEFINE d == ElpSeqDiff(s, e.latest)
           t == (s + 1) % ElpSeqMod
           c == ElpSeqDiff(t, f.latest)
<1>1. e.latest \in 0..(ElpSeqMod - 1) /\ f.missed \in Nat /\ ElpMaxAge \in Nat /\ ElpTimeout \in Nat
  BY ElpNames DEF ElpNeighs
<1>2. d < 1 /\ d > -ElpMaxAge
  BY DEF elp_is_old
<1>3. d \in Int
  <2>1. ElpSeqMod \in Nat
    BY ElpNames
  <2> QED BY <1>1, <2>1, ElpDiffIs
<1>4. deaf > 0 => deaf <= ElpMaxAge /\ d >= deaf - ElpMaxAge + 1
  BY DEF ElpNear
<1>5. d <= ElpTimeout
  BY <1>1, <1>2, <1>3
<1>6. c = d + 1
  BY <1>1, <1>5, ElpDiffNext
<1> HIDE DEF d
<1>7. /\ deaf + 1 <= ElpMaxAge
      /\ d + 1 >= deaf + 1 - ElpMaxAge + 1 /\ d + 1 <= 1 + f.missed
  BY <1>1, <1>2, <1>3, <1>4
<1>8. f.here /\ deaf + 1 <= ElpMaxAge /\ c >= deaf + 1 - ElpMaxAge + 1 /\ c <= 1 + f.missed
  BY <1>6, <1>7
<1> HIDE DEF c, t
<1>9. ElpNear(t, f, deaf + 1)
  BY <1>1, <1>8 DEF ElpNear, c
<1> QED BY <1>9 DEF t

\* A packet that is lost
LEMMA ElpMissed ==
  ASSUME NEW s \in 0..(ElpSeqMod - 1), NEW e \in ElpNeighs, NEW f \in ElpNeighs,
         NEW deaf \in Nat, ElpNear(s, e, deaf), e.missed < ElpTimeout,
         f.here = e.here, f.latest = e.latest, f.missed = e.missed + 1
  PROVE  ElpNear((s + 1) % ElpSeqMod, f, deaf)
<1> DEFINE d == ElpSeqDiff(s, e.latest)
<1>1. /\ e.latest \in 0..(ElpSeqMod - 1) /\ e.missed \in Nat /\ f.missed \in Nat
      /\ ElpMaxAge \in Nat /\ ElpTimeout \in Nat /\ ElpSeqMod \in Nat
  BY ElpNames DEF ElpNeighs
<1>2. d \in Int
  BY <1>1, ElpDiffIs
<1>3. CASE deaf > 0
  <2>1. e.here /\ deaf <= ElpMaxAge /\ d >= deaf - ElpMaxAge + 1 /\ d <= 1 + e.missed
    BY <1>3 DEF ElpNear
  <2>2. d <= ElpTimeout
    BY <1>1, <1>2, <2>1
  <2>3. ElpSeqDiff((s + 1) % ElpSeqMod, f.latest) = d + 1
    BY <1>1, <2>2, ElpDiffNext
  <2> HIDE DEF d
  <2>4. d + 1 >= deaf - ElpMaxAge + 1 /\ d + 1 <= 1 + f.missed
    BY <1>1, <1>2, <2>1
  <2> QED BY <2>1, <2>3, <2>4 DEF ElpNear
<1> QED BY <1>3 DEF ElpNear

-----------------------------------------------------------------------------
(* References *)

LEMMA ElpNeighIs ==
  ASSUME NEW e \in ElpNeighs
  PROVE  /\ e.here \in BOOLEAN /\ e.refs \in Nat /\ e.latest \in 0..(ElpSeqMod - 1)
         /\ e.missed \in 0..ElpTimeout
BY DEF ElpNeighs

LEMMA ElpNobody == NoNeigh \in ElpNeighs /\ ~NoNeigh.here /\ NoNeigh.refs = 0
<1>1. 0 \in 0..(ElpSeqMod - 1) /\ 0 \in 0..ElpTimeout
  BY ElpNames
<1> QED BY <1>1 DEF NoNeigh, ElpNeighs

\* batadv_hardif_neigh_put
LEMMA ElpPut ==
  ASSUME NEW e \in ElpNeighs, e.refs >= 1, NEW here \in BOOLEAN, NEW f,
         f = neigh_put(e, here)
  PROVE  /\ f \in ElpNeighs /\ f.refs = e.refs - 1
         /\ f.here <=> here /\ e.refs # 1
         /\ f.here => f.latest = e.latest /\ f.missed = e.missed
<1>1. CASE e.refs = 1
  <2>1. f = NoNeigh
    BY <1>1 DEF neigh_put
  <2>2. f \in ElpNeighs /\ ~f.here /\ f.refs = 0
    BY <2>1, ElpNobody
  <2> QED BY <1>1, <2>2
<1>2. CASE e.refs # 1
  <2> DEFINE k == e.refs - 1
             g == [e EXCEPT !.refs = k, !.here = here]
  <2>1. k \in Nat
    BY <1>2, ElpNeighIs
  <2>2. f = g
    BY <1>2 DEF neigh_put
  <2> HIDE DEF k
  <2>3. /\ g \in ElpNeighs /\ g.refs = k /\ g.here = here
        /\ g.latest = e.latest /\ g.missed = e.missed
    BY <2>1 DEF ElpNeighs
  <2> HIDE DEF g
  <2>4. f \in ElpNeighs /\ f.refs = k /\ f.here = here /\ f.latest = e.latest /\ f.missed = e.missed
    BY <2>2, <2>3
  <2> QED BY <1>2, <2>4 DEF k
<1> QED BY <1>1, <1>2

\* Steps that leave the neighbours alone
LEMMA ElpAllKept ==
  ASSUME ElpAll, UNCHANGED <<elpNeigh, elpSent, elpDeaf>>,
         \A n \in ElpNeighbours :
           One(InQueue(elpQueue', n)) + One(elpRun'.work = n)
             = One(InQueue(elpQueue, n)) + One(elpRun.work = n)
  PROVE  ElpAll'
<1>1. ASSUME NEW n \in ElpNeighbours
      PROVE  ElpHeld(elpNeigh[n], InQueue(elpQueue', n), elpRun'.work = n)
  <2>1. /\ elpNeigh[n].refs
             = One(InQueue(elpQueue, n)) + One(elpRun.work = n) + One(elpNeigh[n].here)
        /\ One(InQueue(elpQueue', n)) + One(elpRun'.work = n)
             = One(InQueue(elpQueue, n)) + One(elpRun.work = n)
    BY DEF ElpAll, ElpHeld
  <2> QED BY <2>1 DEF ElpHeld
<1>2. elpNeigh' = elpNeigh /\ elpSent' = elpSent /\ elpDeaf' = elpDeaf
  OBVIOUS
<1>3. /\ elpNeigh' \in [ElpNeighbours -> ElpNeighs]
      /\ elpSent' \in [ElpNeighbours -> 0..(ElpSeqMod - 1)]
      /\ elpDeaf' \in [ElpNeighbours -> Nat]
  BY <1>2 DEF ElpAll
<1>4. ASSUME NEW n \in ElpNeighbours
      PROVE  /\ ElpHeld(elpNeigh'[n], InQueue(elpQueue', n), elpRun'.work = n)
             /\ ElpNear(elpSent'[n], elpNeigh'[n], elpDeaf'[n])
  <2>1. ElpNear(elpSent[n], elpNeigh[n], elpDeaf[n])
    BY DEF ElpAll
  <2> QED BY <1>1, <1>2, <2>1
<1> QED BY <1>3, <1>4 DEF ElpAll

-----------------------------------------------------------------------------
(* The thread of bat_events *)

LEMMA ElpTimerKeeps ==
  ASSUME ElpInv, TimerFires
  PROVE  ElpInv'
<1>1. /\ ElpFlags /\ ElpLine(elpQueue) /\ ElpThread(elpRun) /\ ElpOnePeriodic /\ ElpAll
  BY DEF ElpInv
<1>2. /\ elpTimer /\ elpTimer' = FALSE /\ elpQueue' = Append(elpQueue, "periodic")
      /\ UNCHANGED <<elpUsed, elpSkb, elpRun, elpUser, elpNeigh, elpSent, elpDeaf>>
  BY DEF TimerFires
<1>3. ~InQueue(elpQueue, "periodic") /\ elpRun.work # "periodic"
  BY <1>1, <1>2 DEF ElpOnePeriodic
<1>4. /\ ElpLine(elpQueue')
      /\ \A w : InQueue(elpQueue', w) <=> InQueue(elpQueue, w) \/ w = "periodic"
  BY <1>1, <1>2, <1>3, ElpLonger
<1>5. ElpOnePeriodic'
  BY <1>1, <1>2, <1>3, <1>4 DEF ElpOnePeriodic, ElpFlags
<1>6. ElpAll'
  <2>1. \A n \in ElpNeighbours : InQueue(elpQueue', n) <=> InQueue(elpQueue, n)
    BY <1>4, ElpNames
  <2>2. \A n \in ElpNeighbours :
          One(InQueue(elpQueue', n)) + One(elpRun'.work = n)
            = One(InQueue(elpQueue, n)) + One(elpRun.work = n)
    BY <1>2, <2>1 DEF One
  <2> QED BY <1>1, <1>2, <2>2, ElpAllKept
<1>7. ElpFlags' /\ ElpThread(elpRun)'
  BY <1>1, <1>2 DEF ElpFlags
<1> QED BY <1>4, <1>5, <1>6, <1>7 DEF ElpInv

LEMMA ElpTakeKeeps ==
  ASSUME ElpInv, ThreadTakes
  PROVE  ElpInv'
<1>1. /\ ElpFlags /\ ElpLine(elpQueue) /\ ElpThread(elpRun) /\ ElpOnePeriodic /\ ElpAll
  BY DEF ElpInv
<1> DEFINE w == Head(elpQueue)
<1>2. /\ elpRun.work = "none" /\ elpQueue # <<>>
      /\ elpRun' = [work |-> w, at |-> "begin"] /\ elpQueue' = Tail(elpQueue)
      /\ UNCHANGED <<elpUsed, elpSkb, elpTimer, elpUser, elpNeigh, elpSent, elpDeaf>>
  BY DEF ThreadTakes, ElpIdle
<1>3. /\ w \in ElpWorkNames /\ ElpLine(elpQueue') /\ InQueue(elpQueue, w)
      /\ w = "periodic" => elpQueue' = <<>>
      /\ \A v : InQueue(elpQueue', v) <=> InQueue(elpQueue, v) /\ v # w
  BY <1>1, <1>2, ElpShorter
<1> HIDE DEF w
<1>4. elpRun'.work = w /\ elpRun'.at = "begin"
  BY <1>2
<1>5. ElpThread(elpRun')
  <2>1. w # "none"
    BY <1>3, ElpNames DEF ElpWorkNames
  <2> QED BY <1>2, <1>3, <1>4, <2>1 DEF ElpThread
<1>6. ElpOnePeriodic'
  BY <1>1, <1>2, <1>3, <1>4 DEF ElpOnePeriodic
<1>7. \A n \in ElpNeighbours :
        One(InQueue(elpQueue', n)) + One(elpRun'.work = n)
          = One(InQueue(elpQueue, n)) + One(elpRun.work = n)
  BY <1>2, <1>3, <1>4, ElpNames DEF One
<1>8. ElpAll'
  BY <1>1, <1>2, <1>7, ElpAllKept
<1>9. ElpFlags'
  BY <1>1, <1>2 DEF ElpFlags
<1> QED BY <1>3, <1>5, <1>6, <1>8, <1>9 DEF ElpInv

LEMMA ElpBeginKeeps ==
  ASSUME ElpInv, periodic_begins
  PROVE  ElpInv'
<1>1. /\ ElpFlags /\ ElpLine(elpQueue) /\ ElpThread(elpRun) /\ ElpOnePeriodic /\ ElpAll
  BY DEF ElpInv
<1>2. /\ elpRun = [work |-> "periodic", at |-> "begin"]
      /\ UNCHANGED <<elpUsed, elpSkb, elpQueue, elpUser, elpNeigh, elpSent, elpDeaf>>
  BY DEF periodic_begins
<1>3. elpRun.work = "periodic" /\ elpUsed /\ ~elpTimer
  BY <1>1, <1>2 DEF ElpOnePeriodic, ElpFlags
<1>4. elpRun' = [work |-> "periodic", at |-> "send"] /\ elpTimer' = elpTimer
  BY <1>2, <1>3 DEF periodic_begins, StartTimer, periodic_restarts
<1>5. elpRun'.work = "periodic" /\ elpRun'.at = "send"
  BY <1>4
<1>6. ElpThread(elpRun')
  BY <1>4, <1>5 DEF ElpThread, ElpWorkNames
<1>7. ElpOnePeriodic'
  BY <1>1, <1>2, <1>3, <1>4, <1>5 DEF ElpOnePeriodic
<1>8. ElpAll'
  BY <1>1, <1>2, <1>3, <1>5, ElpAllKept
<1>9. ElpFlags' /\ ElpLine(elpQueue)'
  BY <1>1, <1>2, <1>4 DEF ElpFlags
<1> QED BY <1>6, <1>7, <1>8, <1>9 DEF ElpInv

LEMMA ElpSkipKeeps ==
  ASSUME ElpInv, periodic_skips
  PROVE  ElpInv'
<1>1. /\ ElpFlags /\ ElpLine(elpQueue) /\ ElpThread(elpRun) /\ ElpOnePeriodic /\ ElpAll
  BY DEF ElpInv
<1>2. /\ elpRun = [work |-> "periodic", at |-> "begin"] /\ elpRun' = ElpIdle
      /\ elpTimer' = (elpTimer \/ elpUser # "cancel")
      /\ UNCHANGED <<elpUsed, elpSkb, elpQueue, elpUser, elpNeigh, elpSent, elpDeaf>>
  BY DEF periodic_skips
<1>3. elpRun.work = "periodic" /\ elpUsed /\ ~elpTimer /\ elpTimer' = (elpUser # "cancel")
  BY <1>1, <1>2 DEF ElpOnePeriodic, ElpFlags
<1>4. elpRun'.work = "none" /\ elpRun'.at = "none"
  BY <1>2 DEF ElpIdle
<1>5. ElpThread(elpRun')
  BY <1>2, <1>4 DEF ElpThread, ElpIdle
<1>6. ElpOnePeriodic'
  <2>1. elpQueue' = <<>> /\ ~InQueue(elpQueue', "periodic")
    BY <1>1, <1>2, <1>3 DEF ElpOnePeriodic, InQueue
  <2>2. elpUser' = elpUser /\ elpUser \in {"none", "cancel"} /\ elpUsed' /\ elpSkb'
    BY <1>1, <1>2, <1>3 DEF ElpOnePeriodic, ElpFlags
  <2> QED BY <1>3, <1>4, <2>1, <2>2 DEF ElpOnePeriodic
<1>7. \A n \in ElpNeighbours :
        One(InQueue(elpQueue', n)) + One(elpRun'.work = n)
          = One(InQueue(elpQueue, n)) + One(elpRun.work = n)
  BY <1>2, <1>3, <1>4, ElpNames DEF One
<1>8. ElpAll'
  BY <1>1, <1>2, <1>7, ElpAllKept
<1>9. ElpFlags' /\ ElpLine(elpQueue)'
  BY <1>1, <1>2, <1>3 DEF ElpFlags
<1> QED BY <1>5, <1>6, <1>8, <1>9 DEF ElpInv

LEMMA ElpSendKeeps ==
  ASSUME ElpInv, NEW probed \in SUBSET ElpNeighbours, periodic_sends(probed)
  PROVE  ElpInv'
<1> DEFINE here == {n \in probed : elpNeigh[n].refs > 0}
           todo == {n \in here : ~Queued(n)}
<1>1. /\ ElpFlags /\ ElpLine(elpQueue) /\ ElpThread(elpRun) /\ ElpOnePeriodic /\ ElpAll
  BY DEF ElpInv
<1>2. /\ elpRun = [work |-> "periodic", at |-> "send"] /\ elpRun' = ElpIdle
      /\ elpTimer' = StartTimer("send")
      /\ elpNeigh' = [n \in ElpNeighbours |->
           IF n \in here THEN [elpNeigh[n] EXCEPT !.refs = @ + 1] ELSE elpNeigh[n]]
      /\ UNCHANGED <<elpUsed, elpSkb, elpUser, elpSent, elpDeaf>>
  BY DEF periodic_sends
<1>3. PICK order \in ElpSeqs!SetToSeqs(todo) : elpQueue' = elpQueue \o order
  BY DEF periodic_sends
<1>4. elpRun.work = "periodic" /\ elpQueue = <<>> /\ elpUsed /\ ~elpTimer
  BY <1>1, <1>2 DEF ElpOnePeriodic, ElpFlags
<1>5. todo = here /\ ~InQueue(elpQueue, "periodic") /\ \A n : ~InQueue(elpQueue, n)
  BY <1>4 DEF Queued, InQueue
<1>6. /\ ElpLine(order) /\ ~InQueue(order, "periodic")
      /\ \A n \in ElpNeighbours : InQueue(order, n) <=> n \in here
  BY <1>3, <1>5, ElpOrders
<1>7. elpQueue' = order
  BY <1>3, <1>4, <1>6 DEF ElpLine
<1>8. elpTimer' = (IF elpUser # "cancel" THEN TRUE ELSE elpTimer)
  BY <1>2 DEF StartTimer, periodic_restarts
<1>9. elpRun'.work = "none" /\ elpRun'.at = "none"
  BY <1>2 DEF ElpIdle
<1>10. ElpThread(elpRun')
  BY <1>2, <1>9 DEF ElpThread, ElpIdle
<1>11. ElpOnePeriodic'
  BY <1>1, <1>2, <1>4, <1>6, <1>7, <1>8, <1>9 DEF ElpOnePeriodic, ElpFlags
<1>12. ASSUME NEW n \in ElpNeighbours
       PROVE  /\ elpNeigh'[n] \in ElpNeighs
              /\ ElpHeld(elpNeigh'[n], InQueue(elpQueue', n), elpRun'.work = n)
              /\ ElpNear(elpSent[n], elpNeigh'[n], elpDeaf[n])
  <2> DEFINE e == elpNeigh[n]
             f == [e EXCEPT !.refs = @ + 1]
  <2>1. /\ e \in ElpNeighs /\ ElpHeld(e, InQueue(elpQueue, n), elpRun.work = n)
        /\ ElpNear(elpSent[n], e, elpDeaf[n])
    BY <1>1 DEF ElpAll
  <2>2. elpNeigh'[n] = (IF n \in here THEN f ELSE e) /\ (n \in here => e.refs > 0)
    BY <1>2
  <2>3. e.refs = One(e.here) /\ e.refs \in Nat
    <3>1. e.refs = One(InQueue(elpQueue, n)) + One(elpRun.work = n) + One(e.here)
      BY <2>1 DEF ElpHeld
    <3> HIDE DEF e
    <3> QED BY <1>4, <1>5, <2>1, <3>1, ElpNames, ElpNeighIs DEF One
  <2> HIDE DEF e
  <2>4. /\ f \in ElpNeighs /\ f.refs = e.refs + 1 /\ f.here = e.here
        /\ f.latest = e.latest /\ f.missed = e.missed
    BY <2>1, <2>3 DEF ElpNeighs
  <2> HIDE DEF f
  <2>5. ElpHeld(elpNeigh'[n], InQueue(elpQueue', n), elpRun'.work = n)
    BY <1>6, <1>7, <1>9, <2>2, <2>3, <2>4, ElpNames DEF ElpHeld, One
  <2>6. ElpNear(elpSent[n], f, elpDeaf[n])
    BY <2>1, <2>4 DEF ElpNear
  <2> QED BY <2>1, <2>2, <2>4, <2>5, <2>6
<1>13. elpNeigh' \in [ElpNeighbours -> ElpNeighs]
  <2>1. elpNeigh' = [n \in ElpNeighbours |-> elpNeigh'[n]]
    BY <1>2
  <2> QED BY <1>12, <2>1
<1>14. ElpAll'
  BY <1>1, <1>2, <1>12, <1>13 DEF ElpAll
<1>15. ElpFlags'
  BY <1>1, <1>2, <1>8 DEF ElpFlags
<1> QED BY <1>6, <1>7, <1>10, <1>11, <1>14, <1>15 DEF ElpInv

\* Steps that change one neighbour
LEMMA ElpOneMoves ==
  ASSUME ElpAll, NEW n \in ElpNeighbours,
         elpNeigh' \in [ElpNeighbours -> ElpNeighs],
         elpSent' \in [ElpNeighbours -> 0..(ElpSeqMod - 1)],
         elpDeaf' \in [ElpNeighbours -> Nat],
         \A m \in ElpNeighbours \ {n} :
           /\ elpNeigh'[m] = elpNeigh[m] /\ elpSent'[m] = elpSent[m] /\ elpDeaf'[m] = elpDeaf[m]
           /\ elpRun'.work = m <=> elpRun.work = m,
         elpQueue' = elpQueue,
         ElpHeld(elpNeigh'[n], InQueue(elpQueue, n), elpRun'.work = n),
         ElpNear(elpSent'[n], elpNeigh'[n], elpDeaf'[n])
  PROVE  ElpAll'
<1>1. ASSUME NEW m \in ElpNeighbours
      PROVE  /\ ElpHeld(elpNeigh'[m], InQueue(elpQueue', m), elpRun'.work = m)
             /\ ElpNear(elpSent'[m], elpNeigh'[m], elpDeaf'[m])
  <2>1. CASE m = n
    BY <2>1
  <2>2. CASE m # n
    <3>1. /\ elpNeigh'[m] = elpNeigh[m] /\ elpSent'[m] = elpSent[m] /\ elpDeaf'[m] = elpDeaf[m]
          /\ elpRun'.work = m <=> elpRun.work = m
      BY <2>2
    <3>2. One(elpRun'.work = m) = One(elpRun.work = m)
      BY <3>1 DEF One
    <3>3. /\ elpNeigh[m].refs = One(InQueue(elpQueue, m)) + One(elpRun.work = m) + One(elpNeigh[m].here)
          /\ ElpNear(elpSent[m], elpNeigh[m], elpDeaf[m])
      BY DEF ElpAll, ElpHeld
    <3> QED BY <3>1, <3>2, <3>3 DEF ElpHeld
  <2> QED BY <2>1, <2>2
<1> QED BY <1>1 DEF ElpAll

LEMMA ElpMetricBeginKeeps ==
  ASSUME ElpInv, NEW n \in ElpNeighbours, NEW kind \in ElpKinds, metric_begins(n, kind)
  PROVE  ElpInv'
<1>1. /\ ElpFlags /\ ElpLine(elpQueue) /\ ElpThread(elpRun) /\ ElpOnePeriodic /\ ElpAll
  BY DEF ElpInv
<1>2. /\ elpRun = [work |-> n, at |-> "begin"] /\ elpRun' = [work |-> n, at |-> kind]
      /\ UNCHANGED <<elpUsed, elpSkb, elpTimer, elpQueue, elpUser, elpNeigh, elpSent, elpDeaf>>
  BY DEF metric_begins
<1>3. elpRun.work = n /\ elpRun'.work = n /\ elpRun'.at = kind
  BY <1>2
<1>4. n # "periodic" /\ n # "none" /\ kind # "send" /\ kind # "none"
  BY ElpNames
<1>5. ElpThread(elpRun')
  BY <1>2, <1>3, <1>4 DEF ElpThread, ElpWorkNames
<1>6. ElpOnePeriodic'
  BY <1>1, <1>2, <1>3, <1>4 DEF ElpOnePeriodic
<1>7. ElpAll'
  BY <1>1, <1>2, <1>3, ElpAllKept
<1>8. ElpFlags' /\ ElpLine(elpQueue)'
  BY <1>1, <1>2 DEF ElpFlags
<1> QED BY <1>5, <1>6, <1>7, <1>8 DEF ElpInv

LEMMA ElpMetricEndKeeps ==
  ASSUME ElpInv, NEW n \in ElpNeighbours, NEW kind \in ElpKinds, metric_ends(n, kind)
  PROVE  ElpInv'
<1>1. /\ ElpFlags /\ ElpLine(elpQueue) /\ ElpThread(elpRun) /\ ElpOnePeriodic /\ ElpAll
  BY DEF ElpInv
<1>2. /\ elpRun = [work |-> n, at |-> kind] /\ elpRun' = ElpIdle
      /\ elpNeigh' = [elpNeigh EXCEPT ![n] = neigh_put(elpNeigh[n], elpNeigh[n].here)]
      /\ UNCHANGED <<elpUsed, elpSkb, elpTimer, elpQueue, elpUser, elpSent, elpDeaf>>
  BY DEF metric_ends
<1>3. elpRun.work = n /\ elpRun'.work = "none" /\ elpRun'.at = "none"
  BY <1>2 DEF ElpIdle
<1>4. n # "periodic" /\ n # "none"
  BY ElpNames
<1>5. ElpThread(elpRun')
  BY <1>2, <1>3 DEF ElpThread, ElpIdle
<1>6. ElpOnePeriodic'
  BY <1>1, <1>2, <1>3, <1>4 DEF ElpOnePeriodic
<1> DEFINE e == elpNeigh[n]
           f == neigh_put(e, e.here)
<1>7. /\ e \in ElpNeighs /\ ElpNear(elpSent[n], e, elpDeaf[n])
      /\ e.refs = One(InQueue(elpQueue, n)) + One(elpRun.work = n) + One(e.here)
      /\ elpNeigh \in [ElpNeighbours -> ElpNeighs]
      /\ elpSent \in [ElpNeighbours -> 0..(ElpSeqMod - 1)] /\ elpDeaf \in [ElpNeighbours -> Nat]
  BY <1>1 DEF ElpAll, ElpHeld
<1>8. elpNeigh'[n] = f /\ elpNeigh' = [elpNeigh EXCEPT ![n] = f]
  BY <1>2, <1>7
<1> HIDE DEF e
<1>9. e.here \in BOOLEAN /\ e.refs \in Nat
  BY <1>7, ElpNeighIs
<1>10. e.refs = One(InQueue(elpQueue, n)) + 1 + One(e.here)
  BY <1>3, <1>7 DEF One
<1>11. e.refs >= 1 /\ (e.here => e.refs # 1)
  BY <1>9, <1>10 DEF One
<1>12. /\ f \in ElpNeighs /\ f.refs = e.refs - 1 /\ (f.here <=> e.here)
       /\ f.here => f.latest = e.latest /\ f.missed = e.missed
  BY <1>7, <1>9, <1>11, ElpPut
<1> HIDE DEF f
<1>13. ElpHeld(f, InQueue(elpQueue, n), elpRun'.work = n)
  BY <1>3, <1>4, <1>9, <1>10, <1>12 DEF ElpHeld, One
<1>14. ElpNear(elpSent[n], f, elpDeaf[n])
  BY <1>7, <1>12 DEF ElpNear
<1>15. elpNeigh' \in [ElpNeighbours -> ElpNeighs] /\ \A m \in ElpNeighbours \ {n} : elpNeigh'[m] = elpNeigh[m]
  BY <1>7, <1>8, <1>12
<1>16. \A m \in ElpNeighbours \ {n} : elpRun'.work = m <=> elpRun.work = m
  BY <1>3, ElpNames
<1>17. /\ elpSent' = elpSent /\ elpDeaf' = elpDeaf /\ elpQueue' = elpQueue
  BY <1>2
<1>18. ElpAll'
  BY <1>1, <1>7, <1>8, <1>13, <1>14, <1>15, <1>16, <1>17, ElpOneMoves
<1>19. ElpFlags' /\ ElpLine(elpQueue)'
  BY <1>1, <1>2 DEF ElpFlags
<1> QED BY <1>5, <1>6, <1>18, <1>19 DEF ElpInv

-----------------------------------------------------------------------------
(* User space *)

LEMMA ElpEnableKeeps ==
  ASSUME ElpInv, v_iface_enable
  PROVE  ElpInv'
<1>1. /\ ElpFlags /\ ElpLine(elpQueue) /\ ElpThread(elpRun) /\ ElpOnePeriodic /\ ElpAll
  BY DEF ElpInv
<1>2. /\ ~elpUsed /\ elpUser = "none"
      /\ elpUsed' = TRUE /\ elpSkb' = TRUE /\ elpTimer' = TRUE
      /\ UNCHANGED <<elpQueue, elpRun, elpUser, elpNeigh, elpSent, elpDeaf>>
  BY DEF v_iface_enable
<1>3. ~InQueue(elpQueue, "periodic") /\ elpRun.work # "periodic"
  BY <1>1, <1>2 DEF ElpOnePeriodic, ElpFlags
<1>4. ElpOnePeriodic'
  BY <1>2, <1>3 DEF ElpOnePeriodic
<1>5. ElpAll'
  BY <1>1, <1>2, ElpAllKept
<1>6. ElpFlags' /\ ElpLine(elpQueue)' /\ ElpThread(elpRun)'
  BY <1>1, <1>2 DEF ElpFlags
<1> QED BY <1>4, <1>5, <1>6 DEF ElpInv

LEMMA ElpDisableKeeps ==
  ASSUME ElpInv, v_iface_disable
  PROVE  ElpInv'
<1>1. /\ ElpFlags /\ ElpLine(elpQueue) /\ ElpThread(elpRun) /\ ElpOnePeriodic /\ ElpAll
  BY DEF ElpInv
<1>2. /\ elpUsed /\ elpUser' = "cancel" /\ elpTimer' = FALSE
      /\ UNCHANGED <<elpUsed, elpSkb, elpRun, elpNeigh, elpSent, elpDeaf>>
  BY DEF v_iface_disable
<1>3. /\ ElpLine(elpQueue') /\ ~InQueue(elpQueue', "periodic")
      /\ \A n \in ElpNeighbours : InQueue(elpQueue', n) <=> InQueue(elpQueue, n)
      /\ elpQueue = <<>> => elpQueue' = <<>>
  <2>1. CASE Queued("periodic")
    <3>1. PICK i \in DOMAIN elpQueue :
            elpQueue[i] = "periodic" /\ elpQueue' = ElpSeqs!RemoveAt(elpQueue, i)
      BY <2>1 DEF v_iface_disable
    <3>2. elpQueue # <<>>
      BY <1>1, <3>1, ElpIndices
    <3> QED BY <1>1, <3>1, <3>2, ElpCut
  <2>2. CASE ~Queued("periodic")
    <3>1. elpQueue' = elpQueue
      BY <2>2 DEF v_iface_disable
    <3> QED BY <1>1, <2>2, <3>1 DEF Queued, InQueue
  <2> QED BY <2>1, <2>2
<1>4. ElpOnePeriodic'
  BY <1>1, <1>2, <1>3 DEF ElpOnePeriodic
<1>5. \A n \in ElpNeighbours :
        One(InQueue(elpQueue', n)) + One(elpRun'.work = n)
          = One(InQueue(elpQueue, n)) + One(elpRun.work = n)
  BY <1>2, <1>3 DEF One
<1>6. ElpAll'
  BY <1>1, <1>2, <1>5, ElpAllKept
<1>7. ElpFlags' /\ ElpThread(elpRun)'
  BY <1>1, <1>2 DEF ElpFlags
<1> QED BY <1>3, <1>4, <1>6, <1>7 DEF ElpInv

LEMMA ElpDisabledKeeps ==
  ASSUME ElpInv, v_iface_disabled
  PROVE  ElpInv'
<1>1. /\ ElpFlags /\ ElpLine(elpQueue) /\ ElpThread(elpRun) /\ ElpOnePeriodic /\ ElpAll
  BY DEF ElpInv
<1>2. /\ elpUser = "cancel" /\ elpRun.work # "periodic"
      /\ elpUser' = "none" /\ elpUsed' = FALSE /\ elpSkb' = FALSE
      /\ elpNeigh' = [n \in ElpNeighbours |->
           IF elpNeigh[n].here THEN neigh_put(elpNeigh[n], FALSE) ELSE elpNeigh[n]]
      /\ elpDeaf' = [n \in ElpNeighbours |-> 0]
      /\ UNCHANGED <<elpTimer, elpQueue, elpRun, elpSent>>
  BY DEF v_iface_disabled, cancel_done
<1>3. ~elpTimer /\ ~InQueue(elpQueue, "periodic")
  BY <1>1, <1>2 DEF ElpOnePeriodic
<1>4. ElpOnePeriodic'
  BY <1>2, <1>3 DEF ElpOnePeriodic
<1>5. ASSUME NEW n \in ElpNeighbours
      PROVE  /\ elpNeigh'[n] \in ElpNeighs
             /\ ElpHeld(elpNeigh'[n], InQueue(elpQueue, n), elpRun.work = n)
  <2> DEFINE e == elpNeigh[n]
             f == neigh_put(e, FALSE)
  <2>1. /\ e \in ElpNeighs
        /\ e.refs = One(InQueue(elpQueue, n)) + One(elpRun.work = n) + One(e.here)
    BY <1>1 DEF ElpAll, ElpHeld
  <2>2. elpNeigh'[n] = IF e.here THEN f ELSE e
    BY <1>2
  <2> HIDE DEF e
  <2>3. e.here \in BOOLEAN /\ e.refs \in Nat
    BY <2>1, ElpNeighIs
  <2>4. CASE e.here
    <3>1. e.refs = One(InQueue(elpQueue, n)) + One(elpRun.work = n) + 1
      BY <2>1, <2>4 DEF One
    <3>2. e.refs >= 1
      BY <3>1 DEF One
    <3>3. f \in ElpNeighs /\ f.refs = e.refs - 1 /\ ~f.here
      BY <2>1, <3>2, ElpPut
    <3> HIDE DEF f
    <3>4. ElpHeld(f, InQueue(elpQueue, n), elpRun.work = n)
      BY <3>1, <3>3 DEF ElpHeld, One
    <3> QED BY <2>2, <2>4, <3>3, <3>4
  <2>5. CASE ~e.here
    BY <2>1, <2>2, <2>5 DEF ElpHeld
  <2> QED BY <2>4, <2>5
<1>6. elpNeigh' \in [ElpNeighbours -> ElpNeighs]
  <2>1. elpNeigh' = [n \in ElpNeighbours |-> elpNeigh'[n]]
    BY <1>2
  <2> QED BY <1>5, <2>1
<1>7. \A n \in ElpNeighbours : ElpNear(elpSent[n], elpNeigh'[n], elpDeaf'[n])
  BY <1>2 DEF ElpNear
<1>8. elpDeaf' \in [ElpNeighbours -> Nat] /\ elpSent \in [ElpNeighbours -> 0..(ElpSeqMod - 1)]
  BY <1>1, <1>2 DEF ElpAll
<1>9. ElpAll'
  BY <1>2, <1>5, <1>6, <1>7, <1>8 DEF ElpAll
<1>10. ElpFlags' /\ ElpLine(elpQueue)' /\ ElpThread(elpRun)'
  BY <1>1, <1>2 DEF ElpFlags
<1> QED BY <1>4, <1>9, <1>10 DEF ElpInv

-----------------------------------------------------------------------------
(* Packets *)

LEMMA ElpRecvKeeps ==
  ASSUME ElpInv, NEW n \in ElpNeighbours, elp_packet_recv(n)
  PROVE  ElpInv'
<1>1. /\ ElpFlags /\ ElpLine(elpQueue) /\ ElpThread(elpRun) /\ ElpOnePeriodic /\ ElpAll
  BY DEF ElpInv
<1> DEFINE e == elpNeigh[n]
           s == elpSent[n]
           k == elpDeaf[n]
           old == elp_is_old(ElpSeqDiff(s, e.latest))
           refs == IF e.here THEN e.refs ELSE e.refs + 1
           latest == IF old THEN e.latest ELSE s
           missed == IF old THEN e.missed ELSE 0
           f == [here |-> TRUE, refs |-> refs, latest |-> latest, missed |-> missed]
           t == (s + 1) % ElpSeqMod
           j == IF old THEN k + 1 ELSE 0
<1>2. /\ elpNeigh' = [elpNeigh EXCEPT ![n] = f]
      /\ elpDeaf' = [elpDeaf EXCEPT ![n] = j] /\ elpSent' = [elpSent EXCEPT ![n] = t]
      /\ UNCHANGED <<elpUsed, elpSkb, elpTimer, elpQueue, elpRun, elpUser>>
  BY DEF elp_packet_recv
<1>3. /\ e \in ElpNeighs /\ s \in 0..(ElpSeqMod - 1) /\ k \in Nat
      /\ e.refs = One(InQueue(elpQueue, n)) + One(elpRun.work = n) + One(e.here)
      /\ ElpNear(s, e, k)
      /\ elpNeigh \in [ElpNeighbours -> ElpNeighs]
      /\ elpSent \in [ElpNeighbours -> 0..(ElpSeqMod - 1)] /\ elpDeaf \in [ElpNeighbours -> Nat]
  BY <1>1 DEF ElpAll, ElpHeld
<1>4. ElpSeqMod \in Nat /\ ElpSeqMod >= 4 /\ ElpTimeout \in Nat
  BY ElpNames
<1>5. t \in 0..(ElpSeqMod - 1)
  BY <1>3, <1>4
<1> HIDE DEF e, s, k, t
<1>6. e.here \in BOOLEAN /\ e.refs \in Nat /\ e.latest \in 0..(ElpSeqMod - 1) /\ e.missed \in 0..ElpTimeout
  BY <1>3, ElpNeighIs
<1>7. refs \in Nat /\ latest \in 0..(ElpSeqMod - 1) /\ missed \in 0..ElpTimeout /\ j \in Nat
  BY <1>3, <1>4, <1>6
<1>8. refs = One(InQueue(elpQueue, n)) + One(elpRun.work = n) + 1
  BY <1>3, <1>6 DEF One
<1>9. latest = IF old THEN e.latest ELSE s
  OBVIOUS
<1>10. j = IF old THEN k + 1 ELSE 0
  OBVIOUS
<1> HIDE DEF refs, latest, missed, j
<1>11. f \in ElpNeighs /\ f.here /\ f.refs = refs /\ f.latest = latest /\ f.missed = missed
  BY <1>7 DEF ElpNeighs
<1> HIDE DEF f
<1>12. ElpHeld(f, InQueue(elpQueue, n), elpRun.work = n)
  BY <1>8, <1>11 DEF ElpHeld, One
<1>13. ElpNear(t, f, j)
  <2>1. CASE old
    <3>1. f.latest = e.latest /\ j = k + 1
      BY <2>1, <1>9, <1>10, <1>11
    <3>2. ElpNear(t, f, k + 1)
      BY <2>1, <3>1, <1>3, <1>11, ElpIgnored DEF t
    <3> QED BY <3>1, <3>2
  <2>2. CASE ~old
    <3>1. j = 0
      BY <2>2, <1>10
    <3> QED BY <3>1 DEF ElpNear
  <2> QED BY <2>1, <2>2
<1>14. elpNeigh'[n] = f /\ elpSent'[n] = t /\ elpDeaf'[n] = j
  BY <1>2, <1>3
<1>15. /\ elpNeigh' \in [ElpNeighbours -> ElpNeighs]
       /\ elpSent' \in [ElpNeighbours -> 0..(ElpSeqMod - 1)]
       /\ elpDeaf' \in [ElpNeighbours -> Nat]
  BY <1>2, <1>3, <1>5, <1>7, <1>11
<1>16. \A m \in ElpNeighbours \ {n} :
         /\ elpNeigh'[m] = elpNeigh[m] /\ elpSent'[m] = elpSent[m] /\ elpDeaf'[m] = elpDeaf[m]
         /\ elpRun'.work = m <=> elpRun.work = m
  BY <1>2, <1>3
<1>17. elpQueue' = elpQueue /\ elpRun' = elpRun
  BY <1>2
<1>18. ElpAll'
  BY <1>1, <1>12, <1>13, <1>14, <1>15, <1>16, <1>17, ElpOneMoves
<1>19. ElpFlags' /\ ElpLine(elpQueue)' /\ ElpThread(elpRun)'
  BY <1>1, <1>2 DEF ElpFlags
<1>20. ElpOnePeriodic'
  BY <1>1, <1>2 DEF ElpOnePeriodic
<1> QED BY <1>18, <1>19, <1>20 DEF ElpInv

LEMMA ElpLostKeeps ==
  ASSUME ElpInv, NEW n \in ElpNeighbours, ElpLost(n)
  PROVE  ElpInv'
<1>1. /\ ElpFlags /\ ElpLine(elpQueue) /\ ElpThread(elpRun) /\ ElpOnePeriodic /\ ElpAll
  BY DEF ElpInv
<1> DEFINE e == elpNeigh[n]
           s == elpSent[n]
           k == elpDeaf[n]
           gone == e.missed >= ElpTimeout
           g == [e EXCEPT !.missed = 0]
           h == [e EXCEPT !.missed = e.missed + 1]
           f == IF gone THEN neigh_put(g, FALSE) ELSE h
           t == (s + 1) % ElpSeqMod
           j == IF gone THEN 0 ELSE k
<1>2. /\ elpNeigh' = [elpNeigh EXCEPT ![n] = f]
      /\ elpDeaf' = IF gone THEN [elpDeaf EXCEPT ![n] = 0] ELSE elpDeaf
      /\ elpSent' = [elpSent EXCEPT ![n] = t]
      /\ e.here
      /\ UNCHANGED <<elpUsed, elpSkb, elpTimer, elpQueue, elpRun, elpUser>>
  BY DEF ElpLost
<1>3. /\ e \in ElpNeighs /\ s \in 0..(ElpSeqMod - 1) /\ k \in Nat
      /\ e.refs = One(InQueue(elpQueue, n)) + One(elpRun.work = n) + One(e.here)
      /\ ElpNear(s, e, k)
      /\ elpNeigh \in [ElpNeighbours -> ElpNeighs]
      /\ elpSent \in [ElpNeighbours -> 0..(ElpSeqMod - 1)] /\ elpDeaf \in [ElpNeighbours -> Nat]
  BY <1>1 DEF ElpAll, ElpHeld
<1>4. ElpSeqMod \in Nat /\ ElpSeqMod >= 4 /\ ElpTimeout \in Nat
  BY ElpNames
<1>5. t \in 0..(ElpSeqMod - 1)
  BY <1>3, <1>4
<1>6. elpDeaf' = [elpDeaf EXCEPT ![n] = j]
  <2>1. [elpDeaf EXCEPT ![n] = k] = elpDeaf
    BY <1>3
  <2> QED BY <1>2, <2>1
<1> HIDE DEF e, s, k, t
<1>7. e.here \in BOOLEAN /\ e.refs \in Nat /\ e.latest \in 0..(ElpSeqMod - 1) /\ e.missed \in 0..ElpTimeout
  BY <1>3, ElpNeighIs
<1>8. e.refs = One(InQueue(elpQueue, n)) + One(elpRun.work = n) + 1
  BY <1>2, <1>3 DEF One
<1>9. f \in ElpNeighs /\ ElpHeld(f, InQueue(elpQueue, n), elpRun.work = n) /\ ElpNear(t, f, j)
  <2>1. CASE gone
    <3>1. g \in ElpNeighs /\ g.refs = e.refs
      BY <1>3, <1>4 DEF ElpNeighs
    <3>2. e.refs >= 1
      BY <1>8 DEF One
    <3>3. f = neigh_put(g, FALSE) /\ j = 0
      BY <2>1
    <3> HIDE DEF f, g, j
    <3>4. f \in ElpNeighs /\ f.refs = e.refs - 1 /\ ~f.here
      <4>1. g.refs >= 1
        BY <3>1, <3>2
      <4>2. f \in ElpNeighs /\ f.refs = g.refs - 1 /\ (f.here <=> FALSE /\ g.refs # 1)
        BY <3>1, <3>3, <4>1, ElpPut
      <4> QED BY <3>1, <4>2
    <3>5. ElpHeld(f, InQueue(elpQueue, n), elpRun.work = n)
      BY <1>8, <3>4 DEF ElpHeld, One
    <3>6. ElpNear(t, f, j)
      BY <3>3 DEF ElpNear
    <3> QED BY <3>4, <3>5, <3>6
  <2>2. CASE ~gone
    <3> DEFINE p == e.missed + 1
    <3>1. e.missed < ElpTimeout /\ p \in 0..ElpTimeout
      BY <2>2, <1>4, <1>7
    <3>2. f = [e EXCEPT !.missed = p] /\ j = k
      BY <2>2
    <3> HIDE DEF f, j, p
    <3>3. f \in ElpNeighs /\ f.refs = e.refs /\ f.here = e.here /\ f.latest = e.latest /\ f.missed = p
      BY <1>3, <3>1, <3>2 DEF ElpNeighs
    <3>4. ElpHeld(f, InQueue(elpQueue, n), elpRun.work = n)
      BY <1>3, <3>3 DEF ElpHeld
    <3>5. ElpNear((s + 1) % ElpSeqMod, f, k)
      BY <1>3, <3>1, <3>3, ElpMissed DEF p
    <3> QED BY <3>2, <3>3, <3>4, <3>5 DEF t
  <2> QED BY <2>1, <2>2
<1>10. j \in Nat
  BY <1>3
<1> HIDE DEF f, j
<1>14. elpNeigh'[n] = f /\ elpSent'[n] = t /\ elpDeaf'[n] = j
  BY <1>2, <1>3, <1>6
<1>15. /\ elpNeigh' \in [ElpNeighbours -> ElpNeighs]
       /\ elpSent' \in [ElpNeighbours -> 0..(ElpSeqMod - 1)]
       /\ elpDeaf' \in [ElpNeighbours -> Nat]
  BY <1>2, <1>3, <1>5, <1>6, <1>9, <1>10
<1>16. \A m \in ElpNeighbours \ {n} :
         /\ elpNeigh'[m] = elpNeigh[m] /\ elpSent'[m] = elpSent[m] /\ elpDeaf'[m] = elpDeaf[m]
         /\ elpRun'.work = m <=> elpRun.work = m
  BY <1>2, <1>3, <1>6
<1>17. elpQueue' = elpQueue /\ elpRun' = elpRun
  BY <1>2
<1>18. ElpAll'
  BY <1>1, <1>9, <1>14, <1>15, <1>16, <1>17, ElpOneMoves
<1>19. ElpFlags' /\ ElpLine(elpQueue)' /\ ElpThread(elpRun)'
  BY <1>1, <1>2 DEF ElpFlags
<1>20. ElpOnePeriodic'
  BY <1>1, <1>2 DEF ElpOnePeriodic
<1> QED BY <1>18, <1>19, <1>20 DEF ElpInv

LEMMA ElpRestartKeeps ==
  ASSUME ElpInv, NEW n \in ElpNeighbours, NEW s \in 0..(ElpSeqMod - 1), ElpRestarts(n, s)
  PROVE  ElpInv'
<1>1. /\ ElpFlags /\ ElpLine(elpQueue) /\ ElpThread(elpRun) /\ ElpOnePeriodic /\ ElpAll
  BY DEF ElpInv
<1>2. /\ elpDeaf[n] = 0 /\ elpSent' = [elpSent EXCEPT ![n] = s]
      /\ UNCHANGED <<elpUsed, elpSkb, elpTimer, elpQueue, elpRun, elpUser, elpNeigh, elpDeaf>>
  BY DEF ElpRestarts
<1>3. /\ elpNeigh \in [ElpNeighbours -> ElpNeighs]
      /\ elpSent \in [ElpNeighbours -> 0..(ElpSeqMod - 1)] /\ elpDeaf \in [ElpNeighbours -> Nat]
      /\ ElpHeld(elpNeigh[n], InQueue(elpQueue, n), elpRun.work = n)
  BY <1>1 DEF ElpAll
<1>4. elpNeigh' = elpNeigh /\ elpDeaf' = elpDeaf /\ elpQueue' = elpQueue /\ elpRun' = elpRun
  BY <1>2
<1>5. elpSent' \in [ElpNeighbours -> 0..(ElpSeqMod - 1)]
      /\ \A m \in ElpNeighbours \ {n} : elpSent'[m] = elpSent[m]
  BY <1>2, <1>3
<1>6. ElpNear(elpSent'[n], elpNeigh[n], elpDeaf[n])
  BY <1>2 DEF ElpNear
<1>7. ElpAll'
  BY <1>1, <1>3, <1>4, <1>5, <1>6, ElpOneMoves
<1>8. ElpFlags' /\ ElpLine(elpQueue)' /\ ElpThread(elpRun)'
  BY <1>1, <1>2 DEF ElpFlags
<1>9. ElpOnePeriodic'
  BY <1>1, <1>2 DEF ElpOnePeriodic
<1> QED BY <1>7, <1>8, <1>9 DEF ElpInv

-----------------------------------------------------------------------------
(* The specification *)

LEMMA ElpStarts ==
  ASSUME ElpInit
  PROVE  ElpInv
<1>1. /\ elpUsed = FALSE /\ elpSkb = FALSE /\ elpTimer = FALSE /\ elpUser = "none"
      /\ elpQueue = <<>> /\ elpRun = [work |-> "none", at |-> "none"]
      /\ elpNeigh = [n \in ElpNeighbours |-> NoNeigh]
      /\ elpSent = [n \in ElpNeighbours |-> 1]
      /\ elpDeaf = [n \in ElpNeighbours |-> 0]
  BY DEF ElpInit, ElpIdle
<1>2. elpRun.work = "none" /\ elpRun.at = "none" /\ ElpThread(elpRun)
  BY <1>1 DEF ElpThread
<1>3. ElpFlags /\ ElpLine(elpQueue) /\ \A w : ~InQueue(elpQueue, w)
  <2>1. elpQueue \in Seq(ElpWorkNames) /\ DOMAIN elpQueue = {}
    BY <1>1
  <2>2. ElpFlags
    BY <1>1 DEF ElpFlags
  <2> QED BY <2>1, <2>2 DEF ElpLine, InQueue
<1>4. ElpOnePeriodic
  BY <1>1, <1>2, <1>3 DEF ElpOnePeriodic
<1>5. 1 \in 0..(ElpSeqMod - 1)
  BY ElpNames
<1>6. /\ elpNeigh \in [ElpNeighbours -> ElpNeighs]
      /\ elpSent \in [ElpNeighbours -> 0..(ElpSeqMod - 1)]
      /\ elpDeaf \in [ElpNeighbours -> Nat]
  BY <1>1, <1>5, ElpNobody
<1>7. ASSUME NEW n \in ElpNeighbours
      PROVE  /\ ElpHeld(elpNeigh[n], InQueue(elpQueue, n), elpRun.work = n)
             /\ ElpNear(elpSent[n], elpNeigh[n], elpDeaf[n])
  <2>1. elpNeigh[n] = NoNeigh /\ elpDeaf[n] = 0
    BY <1>1
  <2>2. n # "none"
    BY ElpNames
  <2>3. ElpHeld(NoNeigh, InQueue(elpQueue, n), elpRun.work = n)
    BY <1>2, <1>3, <2>2, ElpNobody DEF ElpHeld, One
  <2> QED BY <2>1, <2>3 DEF ElpNear
<1> QED BY <1>2, <1>3, <1>4, <1>6, <1>7 DEF ElpInv, ElpAll

LEMMA ElpSteps ==
  ASSUME ElpInv, [ElpNext]_elpVars
  PROVE  ElpInv'
<1>1. CASE TimerFires
  BY <1>1, ElpTimerKeeps
<1>2. CASE ThreadTakes
  BY <1>2, ElpTakeKeeps
<1>3. CASE periodic_begins
  BY <1>3, ElpBeginKeeps
<1>4. CASE \E probed \in SUBSET ElpNeighbours : periodic_sends(probed)
  BY <1>4, ElpSendKeeps
<1>5. CASE \E n \in ElpNeighbours, k \in ElpKinds : metric_begins(n, k) \/ metric_ends(n, k)
  BY <1>5, ElpMetricBeginKeeps, ElpMetricEndKeeps
<1>6. CASE v_iface_enable
  BY <1>6, ElpEnableKeeps
<1>7. CASE v_iface_disable
  BY <1>7, ElpDisableKeeps
<1>8. CASE v_iface_disabled
  BY <1>8, ElpDisabledKeeps
<1>9. CASE \E n \in ElpNeighbours : elp_packet_recv(n) \/ ElpLost(n)
  BY <1>9, ElpRecvKeeps, ElpLostKeeps
<1>10. CASE \E n \in ElpNeighbours, s \in 0..(ElpSeqMod - 1) : ElpRestarts(n, s)
  BY <1>10, ElpRestartKeeps
<1>11. CASE periodic_skips
  BY <1>11, ElpSkipKeeps
<1>12. CASE UNCHANGED elpVars
  <2>1. UNCHANGED <<elpUsed, elpSkb, elpTimer, elpQueue, elpRun, elpUser, elpNeigh, elpSent,
                    elpDeaf>>
    BY <1>12 DEF elpVars
  <2>2. ElpAll'
    BY <2>1, ElpAllKept DEF ElpInv
  <2> QED BY <2>1, <2>2 DEF ElpInv, ElpFlags, ElpOnePeriodic
<1> QED BY <1>1, <1>2, <1>3, <1>4, <1>5, <1>6, <1>7, <1>8, <1>9, <1>10, <1>11, <1>12 DEF ElpNext

\* A work is queued at most once.
LEMMA ElpCounted ==
  ASSUME NEW q, ElpLine(q), NEW w
  PROVE  Cardinality({i \in DOMAIN q : q[i] = w}) = One(InQueue(q, w))
<1> DEFINE S == {i \in DOMAIN q : q[i] = w}
<1>1. CASE InQueue(q, w)
  <2>1. PICK i \in DOMAIN q : q[i] = w
    BY <1>1 DEF InQueue
  <2>2. S = {i}
    BY <2>1 DEF ElpLine
  <2>3. Cardinality({i}) = 1
    BY FS_Singleton
  <2> QED BY <1>1, <2>2, <2>3 DEF One
<1>2. CASE ~InQueue(q, w)
  <2>1. S = {}
    BY <1>2 DEF InQueue
  <2> QED BY <1>2, <2>1, FS_EmptySet DEF One
<1> QED BY <1>1, <1>2

LEMMA ElpInvWorks == ElpInv => ElpWorks
<1> SUFFICES ASSUME ElpInv PROVE ElpWorks
  OBVIOUS
<1>1. /\ ElpFlags /\ ElpLine(elpQueue) /\ ElpThread(elpRun) /\ ElpOnePeriodic /\ ElpAll
  BY DEF ElpInv
<1>2. \A w : Cardinality({i \in DOMAIN elpQueue : elpQueue[i] = w}) = One(InQueue(elpQueue, w))
  BY <1>1, ElpCounted
<1>3. ElpRefsBalanced
  <2>1. ASSUME NEW n \in ElpNeighbours
        PROVE  elpNeigh[n].refs = One(InQueue(elpQueue, n)) + One(elpRun.work = n)
                                    + One(elpNeigh[n].here)
    BY <1>1 DEF ElpAll, ElpHeld
  <2> QED BY <1>2, <2>1 DEF ElpRefsBalanced, One
<1>4. ElpPacketThere
  <2> SUFFICES ASSUME elpRun = [work |-> "periodic", at |-> "send"] PROVE elpSkb
    BY DEF ElpPacketThere
  <2>1. elpRun.work = "periodic"
    OBVIOUS
  <2> QED BY <1>1, <2>1 DEF ElpOnePeriodic, ElpFlags
<1>5. ElpKeepsGoing
  <2> SUFFICES ASSUME elpUser = "none"
               PROVE  One(elpTimer) + One(InQueue(elpQueue, "periodic"))
                        + One(elpRun.work = "periodic") = One(elpUsed)
    BY <1>2 DEF ElpKeepsGoing, One
  <2>1. /\ elpTimer => ~InQueue(elpQueue, "periodic") /\ elpRun.work # "periodic"
        /\ elpRun.work = "periodic" => elpQueue = <<>>
        /\ elpUsed <=> elpTimer \/ InQueue(elpQueue, "periodic") \/ elpRun.work = "periodic"
    BY <1>1 DEF ElpOnePeriodic
  <2>2. elpQueue = <<>> => ~InQueue(elpQueue, "periodic")
    BY DEF InQueue
  <2> QED BY <2>1, <2>2 DEF One
<1>6. ElpHeardAgain
  <2> SUFFICES ASSUME NEW n \in ElpNeighbours PROVE elpDeaf[n] <= ElpMaxAge
    BY DEF ElpHeardAgain
  <2>1. elpDeaf[n] \in Nat /\ ElpNear(elpSent[n], elpNeigh[n], elpDeaf[n])
    BY <1>1 DEF ElpAll
  <2> QED BY <2>1, ElpNames DEF ElpNear
<1> QED BY <1>3, <1>4, <1>5, <1>6 DEF ElpWorks

\* However enabling, removing, measuring, hearing and losing interleave: the
\* references of a neighbour are the works and the tables that hold it, the
\* periodic work finds its packet and is nowhere or in one place, and a
\* neighbour that restarts is heard within BATADV_ELP_MAX_AGE packets.
THEOREM ElpIsSound == ElpSpec => []ElpWorks
<1>1. ElpInit => ElpInv
  BY ElpStarts
<1>2. ElpInv /\ [ElpNext]_elpVars => ElpInv'
  BY ElpSteps
<1> QED BY <1>1, <1>2, ElpInvWorks, PTL DEF ElpSpec

===============================================================================

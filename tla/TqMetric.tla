------------------------------- MODULE TqMetric -------------------------------
(***************************************************************************)
(* The TQ metric of B.A.T.M.A.N. IV: what batadv_iv_ogm_calc_tq and        *)
(* batadv_hop_penalty (bat_iv_ogm.c) make of the TQ in an OGM, link after  *)
(* link, with the code's integer widths and its real constants.            *)
(***************************************************************************)
EXTENDS Integers

CONSTANTS
  Counts,       \* packet counts to try for a link, part of 0 .. Window
  HopPenalties  \* values of the hop_penalty attribute to try

MaxValue == 255   \* BATADV_TQ_MAX_VALUE
Window == 64      \* BATADV_TQ_LOCAL_WINDOW_SIZE
U8 == 256

ASSUME MetricAssumption ==
  /\ Counts \subseteq 0..Window
  /\ HopPenalties \subseteq 0..MaxValue

VARIABLES
  tq,       \* TQ in the OGM, as it travels
  before    \* history: TQ before the last hop, U8 before the first

vars == <<tq, before>>

Smaller(x, y) == IF x < y THEN x ELSE y

\* Mutant of HopPenalty: rounds up.
HopPenaltyRoundsUp(t, penalty) ==
  (t * (MaxValue - penalty) + MaxValue - 1) \div MaxValue

\* Mutant of HopPenalty: the penalty is taken off instead of scaled with.
HopPenaltySubtracts(t, penalty) == t - penalty

\* batadv_hop_penalty
HopPenalty(t, penalty) == (t * (MaxValue - penalty)) \div MaxValue

\* Mutant of TqOwn: no care is taken not to get more than 100 %.
TqOwnUnlimited(eq, rq) ==
  IF eq < 1 \/ rq < 1 THEN 0 ELSE ((MaxValue * eq) \div rq) % U8

\* The share of the neighbour's packets that are echoes of our own: eq own
\* OGMs came back (bcast_own_sum), rq packets of it arrived.
TqOwn(eq, rq) ==
  LET total == Smaller(eq, rq) IN
  IF total < 1 \/ rq < 1 THEN 0 ELSE ((MaxValue * total) \div rq) % U8

\* 1 - (1 - x)^3: links on which little is received are punished.
AsymPenalty(rq) ==
  LET inv == (Window - rq) % U8 IN
  MaxValue - ((MaxValue * (inv * inv * inv)) \div (Window * Window * Window))

\* The product of the four factors is at most 255^4 < 2^32, so the u32 does
\* not overflow; it is divided here in two steps to stay below 2^31.
Combined(t, own, asym, iface) ==
  LET p == t * own * asym IN
  ((p \div MaxValue) * iface + ((p % MaxValue) * iface) \div MaxValue)
    \div (MaxValue * MaxValue)

\* wifi: the OGM is to be sent on the half duplex interface it came from.
CalcTq(t, eq, rq, wifi, penalty) ==
  Combined(t, TqOwn(eq, rq), AsymPenalty(rq),
           IF wifi THEN HopPenalty(MaxValue, penalty) ELSE MaxValue)

Init == tq = MaxValue /\ before = U8

\* An OGM is received over a link and forwarded.
Forward(eq, rq, wifi, penalty) ==
  /\ tq' = HopPenalty(CalcTq(tq, eq, rq, wifi, penalty), penalty)
  /\ before' = tq

Next == \E eq \in Counts, rq \in Counts, wifi \in BOOLEAN,
           penalty \in HopPenalties : Forward(eq, rq, wifi, penalty)

Spec == Init /\ [][Next]_vars

-----------------------------------------------------------------------------
(***************************************************************************)
(* Properties                                                              *)
(***************************************************************************)

\* The TQ stays in a u8 on every path.
TypeOK == tq \in 0..MaxValue /\ before \in 0..U8

\* An OGM that has gone round a circle is always worse than before: with a
\* hop penalty each node takes something off, whatever the link, so that no
\* node prefers a path through itself.
StrictlyWorse == (before > 0 /\ 0 \notin HopPenalties) => tq < before

\* At every hop an OGM takes, a link over which more of our own OGMs come
\* back would not have been rated worse, whatever the TQ had already lost.
MoreEchoesNeverWorse ==
  before < U8 =>
    \A rq \in Counts, e1 \in Counts, e2 \in Counts :
      e1 <= e2 => CalcTq(before, e1, rq, FALSE, 0) <= CalcTq(before, e2, rq, FALSE, 0)
===============================================================================

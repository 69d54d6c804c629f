------------------------------ MODULE BisectIv ------------------------------
(***************************************************************************)
(* batctl bisect_iv: loop_detection, which follows the paths of packets    *)
(* through the database built from the logs (BisectDb) and prints them     *)
(* (batctl bisect_iv.c).                                                   *)
(***************************************************************************)
EXTENDS BisectDb, SequencesExt

CONSTANTS
  BsOrder,      \* the order in which hash_iterate meets the nodes
  BsMagicLen,   \* characters of the loop magic left for the numbers
  BsDepth       \* bound: depth of find_rt_table_change

Untagged == <<>>

\* Every sequence number fills the buffer of the loop magic, so that no byte
\* of it is left uninitialized (random first numbers are that large).
ASSUME BsSeqsAssumption == \A s \in BsSeqs : s >= 10 ^ (BsMagicLen - 1)

VARIABLE
  bsOut       \* the paths loop_detection printed

bsVars == <<bsDbVars, bsOut>>

----------------------------------------------------------------------------
(***************************************************************************)
(* loop_detection.  What a walk leaves behind is passed along in st: the   *)
(* marks on the nodes (magic, magic2) and on the history entries (hmagic), *)
(* and the paths printed (out).                                            *)
(***************************************************************************)
\* get_rt_hist_by_seqno: the last change among the events before the first
\* event with a larger number.
get_rt_hist_by_seqno(n, o, s) ==
  LET ev     == bsEvents[n][o]
      larger == {i \in DOMAIN ev : ev[i].seqno > s}
      seen   == {i \in DOMAIN ev : ev[i].hist # NoHist /\ \A j \in larger : i < j}
  IN  IF seen = {} THEN NoHist ELSE ev[CHOOSE i \in seen : \A j \in seen : j <= i].hist

\* snprintf of the loop magic: two addresses fill all but BsMagicLen
\* characters, and the digits of the number that do not fit are cut off.  The
\* count of changes with one number (seqno_count) comes last and never fits.
loop_magic(src, dst, s) ==
  LET Fits == {k \in 0 .. 3 : s \div (10 ^ k) < 10 ^ BsMagicLen}
  IN  <<src, dst, s \div (10 ^ (CHOOSE k \in Fits : \A j \in Fits : k <= j))>>

Printed(src, dst, hop, s, how) == [src |-> src, dst |-> dst, hop |-> hop, seqno |-> s, how |-> how]

\* print_rt_path_at_seqno: the hops are followed until the destination, a
\* node without data, or a node that carries the same magic.  A hop deleted
\* by a timeout has no name to print, and the program ends there.
print_rt_path_at_seqno(st, src, dst, hop, s) ==
  LET tag == loop_magic(src, dst, s)
      RECURSIVE Walk(_, _)
      Walk(n, magic) ==
        LET h == get_rt_hist_by_seqno(n, dst, s)
        IN  IF n = NoHop THEN <<magic, "crash">>
            ELSE IF n = dst \/ bsHist[n][dst] = <<>> THEN <<magic, "end">>
            ELSE IF magic[n] = tag THEN <<magic, "loop">>
            ELSE IF h = NoHist THEN <<[magic EXCEPT ![n] = tag], "end">>
            ELSE Walk(bsHist[n][dst][h].next, [magic EXCEPT ![n] = tag])
      walk == Walk(hop, st.magic)
  IN  IF st.crash THEN st
      ELSE [st EXCEPT !.magic = walk[1], !.crash = walk[2] = "crash",
                      !.out = @ \cup {Printed(src, dst, hop, s, walk[2])}]

\* The path src uses when it has seen s, printed if it has one.
print_path_of(st, src, dst, s) ==
  LET h == get_rt_hist_by_seqno(src, dst, s)
  IN  IF h = NoHist THEN st ELSE print_rt_path_at_seqno(st, src, dst, bsHist[src][dst][h].next, s)

Returned(st, res) == [st |-> st, res |-> res]

\* find_rt_table_change: the changes of the route to dst at the nodes on the
\* path of src, between two numbers.  Returns 0 when the path was printed, -2
\* when it met a loop and -1 otherwise.
RECURSIVE find_rt_table_change(_, _, _, _, _, _, _)
find_rt_table_change(st, src, dst, cur, lo, hi, depth) ==
  LET tag  == loop_magic(src, dst, lo)
      list == bsHist[cur][dst]
      \* the loop over rt_hist_list: [st, lo, check, loop]
      RECURSIVE Changes(_, _)
      Changes(i, at) ==
        IF i > Len(list) \/ at.loop THEN at
        ELSE LET h == list[i]
                 sub  == find_rt_table_change([at.st EXCEPT !.hmagic[<<cur, dst, i>>] = tag],
                                              src, dst, h.next, at.lo, h.seqno, depth - 1)
                 next == [at EXCEPT !.check = TRUE, !.lo = h.seqno + 1,
                            !.st = IF sub.res = 0 THEN sub.st
                                   ELSE print_path_of(sub.st, src, dst, h.seqno)]
             IN  IF h.seqno = Timeout \/ h.seqno < at.lo \/ h.seqno >= hi THEN Changes(i + 1, at)
                 ELSE IF at.st.hmagic[<<cur, dst, i>>] = tag
                 THEN [at EXCEPT !.loop = TRUE, !.st = print_path_of(@, src, dst, h.seqno)]
                 ELSE Changes(i + 1, next)
      done  == Changes(1, [st |-> st, lo |-> lo, check |-> FALSE, loop |-> FALSE])
      again == ~done.check /\ done.st.magic2[cur] = tag
      after == IF done.check THEN done.st ELSE [done.st EXCEPT !.magic2[cur] = tag]
      h     == get_rt_hist_by_seqno(cur, dst, IF lo = hi THEN hi ELSE hi - 1)
  IN  IF st.crash \/ depth = 0 \/ cur = NoHop THEN Returned(st, -1)
      ELSE IF cur = dst THEN Returned(print_path_of(st, src, dst, hi), 0)
      ELSE IF done.loop THEN Returned(done.st, -2)
      ELSE IF again
      THEN Returned(print_path_of(done.st, src, dst, lo), IF lo = hi THEN -1 ELSE -2)
      ELSE IF h = NoHist THEN Returned(after, -1)
      ELSE find_rt_table_change(after, src, dst, list[h].next, done.lo, hi, depth - 1)

\* A plausible slip: a first route is not looked at.
check_change_later(st, n, o, i) ==
  LET h == bsHist[n][o][i]
  IN  IF h.seqno = Timeout \/ h.flag = "delete" \/ i = 1 THEN st
      ELSE print_rt_path_at_seqno(st, n, o, h.next, h.seqno)

\* One entry of the history in loop_detection.
check_change(st, n, o, i) ==
  LET h    == bsHist[n][o][i]
      prev == bsHist[n][o][i - 1]
      path(at) == print_rt_path_at_seqno(at, n, o, h.next, h.seqno)
      sub  == find_rt_table_change(st, n, o, prev.next, prev.seqno + 1, h.seqno, BsDepth)
  IN  IF h.seqno = Timeout \/ h.flag = "delete" THEN st
      ELSE IF i = 1 THEN path(st)
      ELSE IF h.seqno <= prev.seqno + 1 THEN path(st)
      ELSE IF sub.res # -2 THEN sub.st ELSE path(sub.st)

LoopInit ==
  [magic  |-> [n \in BsNodes |-> Untagged],
   magic2 |-> [n \in BsNodes |-> Untagged],
   hmagic |-> [k \in BsNodes \X BsOrigs \X (1 .. BsMaxLines) |-> Untagged],
   out |-> {}, crash |-> FALSE]

\* loop_detection over all nodes and originators; an originator without a
\* route history is skipped.
loop_detection ==
  LET pairs == SelectSeq(FlattenSeq([i \in DOMAIN BsOrder |->
                 [j \in DOMAIN SetToSeq(BsOrigs) |-> <<BsOrder[i], SetToSeq(BsOrigs)[j]>>]]),
                 LAMBDA p : p[1] # p[2])
      one(at, p) == FoldLeft(LAMBDA a, i : check_change(a, p[1], p[2], i), at,
                             [i \in DOMAIN bsHist[p[1]][p[2]] |-> i])
  IN  FoldLeft(one, LoopInit, pairs).out

\* The default analysis, after the logs were read.
Detect == EndLog /\ bsOut' = loop_detection

BisectInit == BisectDbInit /\ bsOut = {}

BisectNext ==
  \/ (ReadLogs \/ Trace) /\ UNCHANGED bsOut
  \/ Detect

BisectSpec == BisectInit /\ [][BisectNext]_bsVars

----------------------------------------------------------------------------
(***************************************************************************)
(* Properties.                                                             *)
(***************************************************************************)
\* The nodes a packet to dst meets from n on, when every node uses the route
\* it had at the number s.
RECURSIVE Circles(_, _, _, _)
Circles(n, dst, s, met) ==
  IF n = NoHop \/ n = dst \/ bsHist[n][dst] = <<>> THEN FALSE
  ELSE IF n \in met THEN TRUE
  ELSE LET h == get_rt_hist_by_seqno(n, dst, s)
       IN  h # NoHist /\ Circles(bsHist[n][dst][h].next, dst, s, met \cup {n})

\* A path is printed as "aborted due to loop!" (bisect_iv.c:675) only when the
\* routes the nodes had at that number really lead a packet in a circle.
BisectLoopIsReal ==
  \A p \in bsOut : p.how = "loop" => Circles(p.hop, p.dst, p.seqno, {})

\* No node on the way has to be passed over for lack of a route at number s.
AllHaveRoutes(o, s) ==
  \A m \in BsNodes \ {o} : get_rt_hist_by_seqno(m, o, s) # NoHist

\* When a change of a route closes a circle, some path to that originator is
\* printed as a loop (find_rt_table_change, bisect_iv.c:697), although the marks
\* of the walks are cut and remain on the nodes.  A change that comes some
\* numbers after the one before it is looked at only along the routes of that
\* interval: where a node had none yet, the tool gives up and may print nothing.
\* Only for logs without timeouts: the path after the first change that follows
\* a deletion is not looked at.
BisectCircleIsFound ==
  bsPhase = "done" =>
    \A n \in BsNodes, o \in BsOrigs : \A i \in DOMAIN bsHist[n][o] :
      LET h == bsHist[n][o][i]
          direct == i = 1 \/ h.seqno <= bsHist[n][o][i - 1].seqno + 1
      IN  Circles(h.next, o, h.seqno, {}) /\ (direct \/ AllHaveRoutes(o, h.seqno - 1)) =>
            \/ \E p \in bsOut : p.dst = o /\ p.how = "loop"
            \/ \E m \in BsNodes : \E j \in DOMAIN bsHist[m][o] : bsHist[m][o][j].flag = "delete"
=============================================================================

-------------------------- MODULE BridgeLoopAvoidance --------------------------
(***************************************************************************)
(* Bridge loop avoidance (bridge_loop_avoidance.c): nodes of the mesh that *)
(* are bridged into the same LAN (backbone gateways) agree over the LAN    *)
(* which of them forwards the frames of a mesh client.  One VLAN.          *)
(*                                                                         *)
(* A gateway handles one frame at a time; claim frames travel over the LAN *)
(* in order between two gateways and can be lost.  The 16 bit checksum of  *)
(* a gateway's claims is an exclusive or of one number per client; it is   *)
(* modelled by the set of clients that went into it an odd number of       *)
(* times, so collisions are left out.  The LAN floods all claim frames.    *)
(***************************************************************************)
EXTENDS Integers, FiniteSets, Sequences

SeqsExt == INSTANCE SequencesExt

CONSTANTS
  Gws,               \* backbone gateways
  Clients,           \* clients of the mesh
  NoGw,              \* owner of a client nobody claims
  GroupOf,           \* gateway -> group id made from its own address
  Mates,             \* <<g, h>>: g knows the originator h in the mesh
  BackboneTimeout,   \* BATADV_BLA_BACKBONE_TIMEOUT, in periods
  ClaimTimeout,      \* BATADV_BLA_CLAIM_TIMEOUT, in periods
  WaitPeriods,       \* BATADV_BLA_WAIT_PERIODS
  MaxFrames,         \* bound: frames of clients
  MaxLost,           \* bound: claim frames lost on the LAN
  MaxToggles,        \* bound: writes to the bridge_loop_avoidance attribute
  SettlePeriods      \* periods after which the gateways must agree

ASSUME BlaAssumption ==
  /\ IsFiniteSet(Gws) /\ NoGw \notin Gws /\ IsFiniteSet(Clients)
  /\ GroupOf \in [Gws -> Nat]
  /\ Mates \subseteq Gws \X Gws
  /\ BackboneTimeout \in Nat \ {0} /\ ClaimTimeout \in Nat \ {0}
  /\ WaitPeriods \in Nat \ {0}
  /\ MaxFrames \in Nat /\ MaxLost \in Nat /\ MaxToggles \in Nat
  /\ SettlePeriods \in Nat

VARIABLES
  bla,         \* gateway -> struct batadv_priv_bla and the attribute
  lan,         \* <<from, to>> -> claim frames on their way
  blaRan,      \* gateways whose worker ran in this period
  blaQuiet,    \* history: periods since a client, a loss or a write, up to
               \* SettlePeriods
  blaBudget    \* what is left of the bounds

blaVars == <<bla, lan, blaRan, blaQuiet, blaBudget>>

\* struct batadv_bla_backbone_gw
BackboneGw == [known : BOOLEAN, age : 0..BackboneTimeout, crc : SUBSET Clients,
               request_sent : BOOLEAN, wait_periods : 0..WaitPeriods]
NoBackbone == [known |-> FALSE, age |-> 0, crc |-> {}, request_sent |-> FALSE,
               wait_periods |-> 0]

\* struct batadv_bla_claim, in the claim hash under the client's address
Claim == [owner : Gws \cup {NoGw}, age : 0..ClaimTimeout]
NoClaim == [owner |-> NoGw, age |-> 0]

\* batadv_bla_init, for a node with a primary interface
bla_init(g) ==
  [on |-> TRUE, group |-> GroupOf[g], num_requests |-> 0,
   claim |-> [c \in Clients |-> NoClaim],
   backbone |-> [h \in Gws |-> NoBackbone]]

BlaInit ==
  /\ bla = [g \in Gws |-> bla_init(g)]
  /\ lan = [p \in Gws \X Gws |-> <<>>]
  /\ blaRan = {} /\ blaQuiet = 0
  /\ blaBudget = [frames |-> MaxFrames, lost |-> MaxLost, toggles |-> MaxToggles]

-----------------------------------------------------------------------------
(* A handler maps [n, out] to [n, out]: the state of the gateway and the   *)
(* claim frames it has sent so far.                                        *)

Xor(S, T) == (S \ T) \cup (T \ S)
Owned(n, h) == {c \in Clients : n.claim[c].owner = h}

\* batadv_bla_send_claim
ClaimFrame(n, type, data) == [type |-> type, group |-> n.group, data |-> data]

bla_send_claim(s, type, data) ==
  [s EXCEPT !.out = Append(@, ClaimFrame(s.n, type, data))]

\* A frame for each client of cs, in the order of the hash
SendForEach(s, type, cs) ==
  LET order == SeqsExt!SetToSeq(cs) IN
  [s EXCEPT !.out = @ \o [i \in DOMAIN order |-> ClaimFrame(s.n, type, order[i])]]

\* batadv_bla_send_announce
bla_send_announce(s, g) == bla_send_claim(s, "ANNOUNCE", s.n.backbone[g].crc)

\* A request to h is open until h, or for the own entry the time, has answered.
OpenRequest(s, h) ==
  [s EXCEPT !.n.backbone[h].request_sent = TRUE, !.n.num_requests = @ + 1]
CloseRequest(s, h) ==
  [s EXCEPT !.n.backbone[h].request_sent = FALSE, !.n.num_requests = @ - 1]

\* batadv_bla_get_backbone_gw.  (That the gateway's clients leave the global
\* translation table is an effect on that table.)
bla_get_backbone_gw(s, h, own_backbone) ==
  LET added == [s EXCEPT !.n.backbone[h] = [NoBackbone EXCEPT !.known = TRUE]]
      told == bla_send_announce(added, h)
  IN  IF s.n.backbone[h].known THEN s
      ELSE IF ~own_backbone THEN added
      ELSE OpenRequest([told EXCEPT !.n.backbone[h].wait_periods = WaitPeriods], h)

\* batadv_bla_update_own_backbone_gw
bla_update_own_backbone_gw(s, g) ==
  [bla_get_backbone_gw(s, g, TRUE) EXCEPT !.n.backbone[g].age = 0]

\* batadv_bla_del_backbone_claims
bla_del_backbone_claims(n, h) ==
  [n EXCEPT !.claim = [c \in Clients |-> IF c \in Owned(n, h) THEN NoClaim ELSE @[c]],
            !.backbone[h].crc = {}]

\* batadv_bla_send_request: the old entries go at once; only h answers.
bla_send_request(s, h) ==
  LET n == bla_del_backbone_claims(s.n, h)
      asked == bla_send_claim([s EXCEPT !.n = n], "REQUEST", h)
  IN  IF n.backbone[h].request_sent THEN asked ELSE OpenRequest(asked, h)

\* Mutant of bla_add_claim: the old owner keeps the client in its checksum.
bla_add_claim_keeps(n, c, h) ==
  IF n.claim[c].owner = h THEN [n EXCEPT !.claim[c].age = 0]
  ELSE [n EXCEPT !.claim[c] = [owner |-> h, age |-> 0],
                 !.backbone[h] = [n.backbone[h] EXCEPT !.crc = Xor(@, {c}), !.age = 0]]

\* batadv_bla_add_claim
bla_add_claim(n, c, h) ==
  LET old == n.claim[c].owner
      gone == IF old = NoGw THEN n ELSE [n EXCEPT !.backbone[old].crc = Xor(@, {c})]
  IN  IF old = h THEN [n EXCEPT !.claim[c].age = 0]
      ELSE [gone EXCEPT
                !.claim[c] = [owner |-> h, age |-> 0],
                !.backbone[h] = [gone.backbone[h] EXCEPT !.crc = Xor(@, {c}), !.age = 0]]

\* batadv_bla_del_claim, whoever owns the client
bla_del_claim(n, c) ==
  LET old == n.claim[c].owner IN
  IF old = NoGw THEN n
  ELSE [n EXCEPT !.claim[c] = NoClaim, !.backbone[old].crc = Xor(@, {c})]

\* batadv_handle_claim; g is the gateway that handles it
handle_claim(s, g, h, c) ==
  LET t == bla_get_backbone_gw(s, h, FALSE)
      u == [t EXCEPT !.n = bla_add_claim(t.n, c, h)]
  IN  IF h = g THEN bla_send_claim(u, "CLAIM", c) ELSE u

\* batadv_handle_unclaim
handle_unclaim(s, g, h, c) ==
  LET t == IF h = g THEN bla_send_claim(s, "UNCLAIM", c) ELSE s IN
  IF ~t.n.backbone[h].known THEN t
  ELSE [t EXCEPT !.n = bla_del_claim(t.n, c)]

\* Mutant of handle_announce: a request stays open when its answer is right.
handle_announce_waits(s, h, crc) ==
  LET t == [bla_get_backbone_gw(s, h, FALSE) EXCEPT !.n.backbone[h].age = 0]
  IN  IF t.n.backbone[h].crc # crc THEN bla_send_request(t, h) ELSE t

\* batadv_handle_announce
handle_announce(s, h, crc) ==
  LET t == [bla_get_backbone_gw(s, h, FALSE) EXCEPT !.n.backbone[h].age = 0]
  IN  IF t.n.backbone[h].crc # crc THEN bla_send_request(t, h)
      ELSE IF t.n.backbone[h].request_sent THEN CloseRequest(t, h) ELSE t

\* batadv_bla_answer_request: a CLAIM for each own client, then an ANNOUNCE.
bla_answer_request(s, g) ==
  IF ~s.n.backbone[g].known THEN s
  ELSE bla_send_announce(SendForEach(s, "CLAIM", Owned(s.n, g)), g)

\* batadv_handle_request; to is the gateway that is asked.
handle_request(s, g, to) == IF to = g THEN bla_answer_request(s, g) ELSE s

\* batadv_bla_process_claim with batadv_check_claim_group: frame f from h.
check_claim_group(n, g, h, f) ==
  IF f.group = n.group THEN n
  ELSE [n EXCEPT !.group = IF f.group > @ THEN f.group ELSE @]

bla_process_claim(s, g, h, f) ==
  LET t == bla_update_own_backbone_gw(
             [s EXCEPT !.n = check_claim_group(s.n, g, h, f)], g)
  IN  IF f.group # s.n.group /\ <<g, h>> \notin Mates THEN s
      ELSE CASE f.type = "CLAIM" -> handle_claim(t, g, h, f.data)
             [] f.type = "UNCLAIM" -> handle_unclaim(t, g, h, f.data)
             [] f.type = "ANNOUNCE" -> handle_announce(t, h, f.data)
             [] f.type = "REQUEST" -> handle_request(t, g, f.data)

\* batadv_bla_purge_claims: handle_unclaim for own claims whose client was not
\* heard.
bla_purge_claims(s, g) ==
  LET silent == {c \in Owned(s.n, g) : s.n.claim[c].age = ClaimTimeout}
      told == SendForEach(s, "UNCLAIM", silent)
  IN  IF ~s.n.backbone[g].known THEN told
      ELSE [told EXCEPT
              !.n.claim = [c \in Clients |-> IF c \in silent THEN NoClaim ELSE @[c]],
              !.n.backbone[g].crc = Xor(@, silent)]

\* batadv_bla_purge_backbone_gw for the gateways that are gone
purge_gw(n, gone) ==
  [n EXCEPT
     !.claim = [c \in Clients |-> IF @[c].owner \in gone THEN NoClaim ELSE @[c]],
     !.backbone = [h \in Gws |-> IF h \in gone THEN NoBackbone ELSE @[h]],
     !.num_requests = @ - Cardinality({h \in gone : n.backbone[h].request_sent})]

bla_purge_backbone_gw(n, now) ==
  purge_gw(n, {h \in Gws : n.backbone[h].known
                            /\ (now \/ n.backbone[h].age = BackboneTimeout)})

\* batadv_bla_periodic_work, the part for the own gateway
announce_own(s, g) ==
  LET t == bla_send_announce([s EXCEPT !.n.backbone[g].age = 0], g)
      e == t.n.backbone[g]
  IN  IF ~e.request_sent THEN t
      ELSE IF e.wait_periods > 1
      THEN [t EXCEPT !.n.backbone[g].wait_periods = @ - 1]
      ELSE CloseRequest([t EXCEPT !.n.backbone[g].wait_periods = 0], g)

-----------------------------------------------------------------------------
(* Steps *)

Grown(age, limit) == IF age < limit THEN age + 1 ELSE limit

\* A period has passed since the last run of the worker.
Older(n) ==
  [n EXCEPT
     !.claim = [c \in Clients |-> IF @[c].owner = NoGw THEN NoClaim
                 ELSE [n.claim[c] EXCEPT !.age = Grown(@, ClaimTimeout)]],
     !.backbone = [h \in Gws |-> IF ~@[h].known THEN NoBackbone
                    ELSE [n.backbone[h] EXCEPT !.age = Grown(@, BackboneTimeout)]]]

\* Gateway g is now in state s.n and its frames are on the LAN; queue is what
\* is left of the frames of others.
Sent(g, s, queue) ==
  /\ bla' = [bla EXCEPT ![g] = s.n]
  /\ lan' = [p \in Gws \X Gws |->
       IF p[1] # g \/ p[2] = g THEN queue[p] ELSE queue[p] \o s.out]

Quiet(g) == [n |-> bla[g], out |-> <<>>]

\* The workers of all gateways run once per period, which is 10 seconds: what
\* a gateway sent in a period has arrived or is lost by its end.
bla_periodic_work(g) ==
  /\ g \notin blaRan /\ \A h \in Gws : lan[<<g, h>>] = <<>>
  /\ IF blaRan \cup {g} = Gws
     THEN blaRan' = {} /\ blaQuiet' = Grown(blaQuiet, SettlePeriods)
     ELSE blaRan' = blaRan \cup {g} /\ UNCHANGED blaQuiet
  /\ LET s == bla_purge_claims([n |-> Older(bla[g]), out |-> <<>>], g)
         t == [s EXCEPT !.n = bla_purge_backbone_gw(s.n, FALSE)]
     IN  Sent(g, IF t.n.on /\ t.n.backbone[g].known THEN announce_own(t, g)
                 ELSE t, lan)
  /\ UNCHANGED blaBudget

\* batadv_bla_tx with a claim frame from the LAN.  With the attribute off it
\* is a frame like any other.
Receive(g, h) ==
  /\ lan[<<h, g>>] # <<>>
  /\ LET f == Head(lan[<<h, g>>])
         rest == [lan EXCEPT ![<<h, g>>] = Tail(@)]
     IN  Sent(g, IF bla[g].on THEN bla_process_claim(Quiet(g), g, h, f)
                 ELSE bla_update_own_backbone_gw(Quiet(g), g), rest)
  /\ UNCHANGED <<blaRan, blaQuiet, blaBudget>>

Lose(g, h) ==
  /\ lan[<<h, g>>] # <<>> /\ blaBudget.lost > 0
  /\ lan' = [lan EXCEPT ![<<h, g>>] = Tail(@)]
  /\ blaBudget' = [blaBudget EXCEPT !.lost = @ - 1]
  /\ blaQuiet' = 0
  /\ UNCHANGED <<bla, blaRan>>

\* The frame of a client is dropped here, another gateway being in charge.
Blocked(n, g, c, bcast) ==
  n.on /\ bcast /\ (n.num_requests > 0 \/ n.claim[c].owner \notin {g, NoGw})

ClientFrame ==
  /\ blaBudget.frames > 0
  /\ blaBudget' = [blaBudget EXCEPT !.frames = @ - 1]
  /\ blaQuiet' = 0
  /\ UNCHANGED blaRan

\* batadv_bla_rx: a frame of client c comes out of the mesh.
bla_rx(g, c, bcast) ==
  LET claimed == IF ~bla[g].on THEN Quiet(g)
                 ELSE IF bla[g].claim[c].owner = g
                 THEN [Quiet(g) EXCEPT !.n.claim[c].age = 0]
                 ELSE handle_claim(Quiet(g), g, g, c)
  IN  /\ ClientFrame
      /\ ~Blocked(bla[g], g, c, bcast)
      /\ Sent(g, bla_update_own_backbone_gw(claimed, g), lan)

\* batadv_bla_tx: a frame of client c, which has roamed, comes from the LAN.
bla_tx(g, c, bcast) ==
  LET freed == IF bla[g].on /\ bla[g].claim[c].owner = g
               THEN handle_unclaim(Quiet(g), g, g, c) ELSE Quiet(g)
  IN  /\ ClientFrame
      /\ ~Blocked(bla[g], g, c, bcast)
      /\ Sent(g, bla_update_own_backbone_gw(freed, g), lan)

\* batadv_bla_status_update and batadv_bla_update_orig_address after a write
\* to the attribute.  Claims are dropped without a word.
bla_status_update(g) ==
  LET n == [bla[g] EXCEPT !.on = ~@, !.group = GroupOf[g]]
      empty == [n EXCEPT !.claim = [c \in Clients |-> NoClaim]]
  IN  /\ blaBudget.toggles > 0
      /\ blaBudget' = [blaBudget EXCEPT !.toggles = @ - 1]
      /\ Sent(g, IF ~n.on
                 THEN [n |-> bla_purge_backbone_gw(
                              [empty EXCEPT !.backbone =
                                 [h \in Gws |-> [@[h] EXCEPT !.crc = {}]]], TRUE),
                       out |-> <<>>]
                 ELSE IF n.backbone[g].known
                 THEN bla_send_announce([n |-> n, out |-> <<>>], g)
                 ELSE [n |-> n, out |-> <<>>], lan)
      /\ blaQuiet' = 0
      /\ UNCHANGED blaRan

BlaNext ==
  \E g \in Gws :
    \/ bla_periodic_work(g)
    \/ \E h \in Gws \ {g} : Receive(g, h) \/ Lose(g, h)
    \/ \E c \in Clients, bcast \in BOOLEAN : bla_rx(g, c, bcast) \/ bla_tx(g, c, bcast)
    \/ bla_status_update(g)

BlaSpec == BlaInit /\ [][BlaNext]_blaVars

-----------------------------------------------------------------------------
(***************************************************************************)
(* Properties                                                              *)
(***************************************************************************)
BlaTypeOK ==
  /\ \A g \in Gws :
       /\ bla[g].on \in BOOLEAN /\ bla[g].group \in Nat
       /\ bla[g].num_requests \in Nat
       /\ bla[g].claim \in [Clients -> Claim]
       /\ bla[g].backbone \in [Gws -> BackboneGw]
  /\ blaRan \subseteq Gws

\* The checksum kept for each gateway, changed one client at a time by claims,
\* unclaims and changes of owner, is the checksum of the clients that the table
\* says it owns; otherwise a right table is thrown away at each announcement.
BlaChecksumIsTable ==
  \A g \in Gws, h \in Gws :
    bla[g].backbone[h].crc = Owned(bla[g], h)

\* num_requests, which blocks all broadcasts, counts the gateways whose
\* answer, or whose first periods, are waited for: nothing else sets it back.
BlaRequestsCounted ==
  \A g \in Gws : bla[g].num_requests =
    Cardinality({h \in Gws : bla[g].backbone[h].request_sent})

\* What g believes h to own is what h owns.
Agree(g, h) == Owned(bla[g], h) = Owned(bla[h], h)

\* When clients fall silent, gateways that are on have within SettlePeriods
\* one view of who owns whom, and broadcasts pass again, whatever was lost,
\* claimed by several at once or dropped with the feature switched off.
BlaSettles ==
  (blaQuiet = SettlePeriods /\ \A p \in Gws \X Gws : lan[p] = <<>>) =>
    \A g \in Gws, h \in Gws :
      (bla[g].on /\ bla[h].on) => Agree(g, h) /\ bla[g].num_requests = 0

\* The tables of a gateway: typed, with the checksums of what they hold, and
\* with as many requests counted as are open (bla_send_request, bla_purge).
BlaConsistent == BlaTypeOK /\ BlaChecksumIsTable /\ BlaRequestsCounted
=============================================================================

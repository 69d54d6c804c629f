----------------------------- MODULE AtomicStore -----------------------------
(***************************************************************************)
(* What the handlers /config and /topo/position of the web-admin server    *)
(* (src/src/main.go) promise their page: one stored struct; a POST replaces *)
(* it in one step and is then acknowledged; a GET is answered with what is *)
(* stored; a request without credentials touches nothing.                  *)
(***************************************************************************)
CONSTANTS Requests, Structs, Zero, None

VARIABLES
  req,       \* request -> method and struct
  store,     \* the stored struct; Zero when nothing was ever stored
  applied,   \* POSTs whose struct has been stored
  resp       \* request -> answer, None while there is none

storeVars == <<req, store, applied, resp>>

Init ==
  /\ req \in [Requests -> [method : {"GET", "POST"}, body : Structs]]
  /\ store \in Structs
  /\ applied = {}
  /\ resp = [r \in Requests |-> None]

Unanswered(r) == resp[r] = None
Answer(r, what) == resp' = [resp EXCEPT ![r] = what]

Apply(r) ==
  /\ Unanswered(r) /\ req[r].method = "POST" /\ r \notin applied
  /\ store' = req[r].body
  /\ applied' = applied \cup {r}
  /\ UNCHANGED <<req, resp>>

AckPost(r) ==
  /\ Unanswered(r) /\ r \in applied
  /\ Answer(r, "ok")
  /\ UNCHANGED <<req, store, applied>>

Get(r) ==
  /\ Unanswered(r) /\ req[r].method = "GET"
  /\ Answer(r, store)
  /\ UNCHANGED <<req, store, applied>>

Reject(r) ==
  /\ Unanswered(r) /\ r \notin applied
  /\ Answer(r, "401")
  /\ UNCHANGED <<req, store, applied>>

Next == \E r \in Requests : Apply(r) \/ AckPost(r) \/ Get(r) \/ Reject(r)

Spec == Init /\ [][Next]_storeVars
==============================================================================

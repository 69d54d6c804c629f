----------------------------- MODULE WirelessEdit -----------------------------
(***************************************************************************)
(* The wireless dialog of the topology page (src/template/js/routing.js):  *)
(* detailWireless shows a node's radio, editWireless lets the user change  *)
(* three fields, saveWirelessChanges sets each changed field with an RPC   *)
(* of its own and then commits or reverts.  The RPCs go through the server *)
(* (proxyHandler and PostByProxy of src/src/main.go) to the LuCI service   *)
(* of the node, which keeps one staging area for everybody.                *)
(*                                                                         *)
(* The calls are synchronous: a browser makes one at a time and waits, but *)
(* two browsers interleave theirs.  What the node does and what the page   *)
(* sees of it are one step, since the page does nothing in between.        *)
(***************************************************************************)
EXTENDS Naturals, FiniteSets

CONSTANTS
  Editors,         \* browsers
  Vals,            \* values of a field
  NoEdit,          \* the empty string: a field that is not to be changed
  Outcomes,        \* how a call may end; see Done and Called
  MaxCallFaults,   \* bound: calls that fail
  MaxRounds        \* bound: dialogs that are opened, by all browsers

ASSUME WirelessAssumption ==
  /\ NoEdit \notin Vals
  /\ Outcomes \subseteq {"ok", "refused", "unreachable", "lost", "garbled"}
  /\ MaxCallFaults \in Nat /\ MaxRounds \in Nat

\* The order in which saveWirelessChanges sets the fields.
Order == <<"channel", "htmode", "txpower">>
Fields == {Order[i] : i \in DOMAIN Order}
Edits == [Fields -> Vals \cup {NoEdit}]
Nothing == [f \in Fields |-> NoEdit]

VARIABLES
  conf,         \* the node: /etc/config/wireless, field -> value
  staged,       \* the node: changes set and not committed, field -> value
  wpc,          \* browser -> where it stands
  shown,        \* browser -> the `wireless' object of its dialog
  wanted,       \* browser -> the arguments of saveWirelessChanges
  flag,         \* browser -> flag of saveWirelessChanges
  alert,        \* browser -> the message on screen
  callFaults,   \* history: how many calls ended in each outcome but "ok"
  rounds,       \* how many dialogs were opened
  before,       \* history: browser -> conf when its save began
  alone,        \* history: browser -> no other one called since then
  lastSet,      \* history: field -> the value set last
  settled       \* history: the last commit or revert of all was answered ok

wirelessVars == <<conf, staged, wpc, shown, wanted, flag, alert, callFaults,
                  rounds, before, alone, lastSet, settled>>

Failures == {"refused", "unreachable", "lost", "garbled"}
Wanted(w) == {f \in Fields : w[f] # NoEdit}
WPCs == {"idle", "editing", "commit", "revert"} \cup Fields

\* External: what LuCI's uci get_all answers, the configuration with the
\* changes that are staged; also what a commit makes of it.
Merged == [f \in Fields |-> IF staged[f] # NoEdit THEN staged[f] ELSE conf[f]]

WirelessInit ==
  /\ \E v \in Vals : conf = [f \in Fields |-> v]
  /\ staged = Nothing
  /\ wpc = [e \in Editors |-> "idle"]
  /\ shown = [e \in Editors |-> conf]
  /\ wanted = [e \in Editors |-> Nothing]
  /\ flag = [e \in Editors |-> TRUE]
  /\ alert = [e \in Editors |-> "none"]
  /\ callFaults = [k \in Failures |-> 0]
  /\ rounds = 0
  /\ before = [e \in Editors |-> conf]
  /\ alone = [e \in Editors |-> TRUE]
  /\ lastSet = conf
  /\ settled = TRUE

-----------------------------------------------------------------------------
(* One RPC *)

AllFaults == callFaults["refused"] + callFaults["unreachable"]
               + callFaults["lost"] + callFaults["garbled"]

\* The call ends this way.
Proxy(out) ==
  IF out = "ok" THEN UNCHANGED callFaults
  ELSE /\ AllFaults < MaxCallFaults
       /\ callFaults' = [callFaults EXCEPT ![out] = @ + 1]

\* Whether the node has carried the call out: refused calls are not, and of
\* the others that fail nobody knows.  PostByProxy ignores the error of Do.
Done(out) ==
  CASE out = "ok" -> {TRUE}
    [] out = "refused" -> {FALSE}
    [] OTHER -> BOOLEAN

\* The success callback runs: with the node's answer, or with an empty body
\* when PostByProxy panicked on the nil response and proxyHandler recovered.
\* It does not run when the server did not answer ("lost") or when the
\* answer announced as JSON does not parse ("garbled").
Called(out) == out \in {"ok", "refused", "unreachable"}

TruthyAnswer(out) == out # "unreachable"

\* jsonData.result is truthy.
Truthy(out) == out = "ok"

\* A call of e that changes the node's state comes between those of others.
Disturbs(e) == alone' = [o \in Editors |-> alone[o] /\ o = e]

-----------------------------------------------------------------------------
(* The dialog *)

\* detailWireless with its getToken: the dialog shows what get_all answered;
\* without a token or an answer there is none.
detailWireless(e, out) ==
  /\ wpc[e] = "idle" /\ rounds < MaxRounds
  /\ rounds' = rounds + 1
  /\ Proxy(out)
  /\ IF out = "ok"
     THEN /\ wpc' = [wpc EXCEPT ![e] = "editing"]
          /\ shown' = [shown EXCEPT ![e] = Merged]
     ELSE UNCHANGED <<wpc, shown>>
  /\ alert' = [alert EXCEPT ![e] = "none"]
  /\ UNCHANGED <<conf, staged, wanted, flag, before, alone, lastSet, settled>>

\* What is left to save of what was typed: not the fields that are empty or
\* as they were shown.
Blank(typed, was) ==
  [f \in Fields |-> IF typed[f] = was[f] THEN NoEdit ELSE typed[f]]

\* Mutant of After: a save that a field failed just ends.
AfterNoRevert(w, i, good) ==
  LET left == {j \in DOMAIN Order : j >= i /\ w[Order[j]] # NoEdit}
  IN IF left # {} THEN Order[CHOOSE j \in left : \A k \in left : j <= k]
     ELSE IF good /\ Wanted(w) # {} THEN "commit"
     ELSE "idle"

\* The next call of a save of w whose fields before position i are done.
After(w, i, good) ==
  LET left == {j \in DOMAIN Order : j >= i /\ w[Order[j]] # NoEdit}
  IN IF left # {} THEN Order[CHOOSE j \in left : \A k \in left : j <= k]
     ELSE IF ~good THEN "revert"
     ELSE IF Wanted(w) # {} THEN "commit"
     ELSE "idle"

\* The user presses the button: saveWirelessChanges starts.  With nothing to
\* change it reports success at once.
editWireless(e) ==
  /\ wpc[e] = "editing"
  /\ \E typed \in Edits : wanted' = [wanted EXCEPT ![e] = Blank(typed, shown[e])]
  /\ flag' = [flag EXCEPT ![e] = TRUE]
  /\ wpc' = [wpc EXCEPT ![e] = After(wanted'[e], 1, TRUE)]
  /\ alert' = [alert EXCEPT ![e] = IF wpc'[e] = "idle" THEN "saved" ELSE @]
  /\ before' = [before EXCEPT ![e] = conf]
  /\ alone' = [alone EXCEPT ![e] = TRUE]
  /\ UNCHANGED <<conf, staged, shown, callFaults, rounds, lastSet, settled>>

cancel(e) ==
  /\ wpc[e] = "editing"
  /\ wpc' = [wpc EXCEPT ![e] = "idle"]
  /\ UNCHANGED <<conf, staged, shown, wanted, flag, alert, callFaults, rounds,
                 before, alone, lastSet, settled>>

\* One set call.  The flag is that of the last call whose callback ran.
setField(e, out) ==
  \E i \in DOMAIN Order, done \in Done(out) :
    LET f == Order[i]
    IN /\ wpc[e] = f
       /\ Proxy(out)
       /\ staged' = IF done THEN [staged EXCEPT ![f] = wanted[e][f]] ELSE staged
       /\ lastSet' = IF done THEN [lastSet EXCEPT ![f] = wanted[e][f]] ELSE lastSet
       /\ flag' = [flag EXCEPT ![e] = IF Called(out) THEN Truthy(out) ELSE @]
       /\ wpc' = [wpc EXCEPT ![e] = After(wanted[e], i + 1, flag'[e])]
       /\ Disturbs(e)
       /\ UNCHANGED <<conf, shown, wanted, alert, rounds, before, settled>>

\* Mutant of commit: what is written stays staged.
commitKeepsStaged(e, out) ==
  /\ wpc[e] = "commit"
  /\ Proxy(out)
  /\ conf' = Merged /\ UNCHANGED staged
  /\ wpc' = [wpc EXCEPT ![e] = "idle"]
  /\ alert' = [alert EXCEPT ![e] = IF Truthy(out) THEN "saved" ELSE "failed"]
  /\ settled' = (out = "ok")
  /\ Disturbs(e)
  /\ UNCHANGED <<shown, wanted, flag, rounds, before, lastSet>>

\* The commit call and its message; no message when no callback runs.
commit(e, out) ==
  /\ wpc[e] = "commit"
  /\ Proxy(out)
  /\ \E done \in Done(out) :
       /\ conf' = IF done THEN Merged ELSE conf
       /\ staged' = IF done THEN Nothing ELSE staged
  /\ wpc' = [wpc EXCEPT ![e] = "idle"]
  /\ alert' = [alert EXCEPT ![e] =
       IF ~Called(out) THEN @ ELSE IF Truthy(out) THEN "saved" ELSE "failed"]
  /\ settled' = (out = "ok")
  /\ Disturbs(e)
  /\ UNCHANGED <<shown, wanted, flag, rounds, before, lastSet>>

\* The revert call; its answer is not looked at.
revert(e, out) ==
  /\ wpc[e] = "revert"
  /\ Proxy(out)
  /\ \E done \in Done(out) : staged' = IF done THEN Nothing ELSE staged
  /\ wpc' = [wpc EXCEPT ![e] = "idle"]
  /\ alert' = [alert EXCEPT ![e] = "failed"]
  /\ settled' = (out = "ok")
  /\ Disturbs(e)
  /\ UNCHANGED <<conf, shown, wanted, flag, rounds, before, lastSet>>

WirelessNext ==
  \E e \in Editors :
    \/ editWireless(e) \/ cancel(e)
    \/ \E out \in Outcomes :
         detailWireless(e, out) \/ setField(e, out) \/ commit(e, out) \/ revert(e, out)

WirelessSpec == WirelessInit /\ [][WirelessNext]_wirelessVars

-----------------------------------------------------------------------------
(* Properties *)

WirelessTypeOK ==
  /\ conf \in [Fields -> Vals]
  /\ staged \in Edits
  /\ wpc \in [Editors -> WPCs]
  /\ shown \in [Editors -> [Fields -> Vals]]
  /\ wanted \in [Editors -> Edits]
  /\ flag \in [Editors -> BOOLEAN]
  /\ alert \in [Editors -> {"none", "saved", "failed"}]
  /\ callFaults \in [Failures -> 0..MaxCallFaults]
  /\ rounds \in 0..MaxRounds

Silent == callFaults["lost"] + callFaults["garbled"]
LastWanted(e) ==
  CHOOSE f \in Wanted(wanted[e]) :
    \A i, j \in DOMAIN Order :
      Order[i] = f /\ Order[j] \in Wanted(wanted[e]) => j <= i

\* "Saved" on screen means that the last field of the save is in the node's
\* configuration, if no callback was left out and no other browser called in
\* between.  Of the other fields it says nothing: the flag (routing.js:589,
\* 605, 620) is that of the last call.
SuccessMeansLastSaved ==
  [][\A e \in Editors :
       /\ alert[e] # "saved" /\ alert'[e] = "saved"
       /\ Wanted(wanted'[e]) # {} /\ Silent' = 0 /\ alone'[e]
       => LET f == LastWanted(e)' IN conf'[f] = wanted'[e][f]]_wirelessVars

\* What the message "saved" says and the code does not guarantee.
SuccessMeansSaved ==
  [][\A e \in Editors :
       /\ alert[e] # "saved" /\ alert'[e] = "saved" /\ Silent' = 0 /\ alone'[e]
       => \A f \in Wanted(wanted'[e]) : conf'[f] = wanted'[e][f]]_wirelessVars

\* "Failed, try again" means that the node's configuration is what it was
\* when the save began, unless another browser called in between or the
\* node carried out a commit whose answer did not come (routing.js:646-660).
FailureKeepsConfig ==
  \A e \in Editors :
    /\ wpc[e] = "idle" /\ alert[e] = "failed" /\ alone[e]
    /\ callFaults["unreachable"] = 0
    => conf = before[e]

\* Without failed calls nothing that two browsers saved is forgotten or left
\* behind in the staging area, however their calls interleave: once both are
\* done, each field has the value that was set last.
EverySaveLands ==
  AllFaults = 0 /\ (\A e \in Editors : wpc[e] \in {"idle", "editing"})
    => conf = lastSet /\ staged = Nothing

\* The node has one staging area, whose changes the next commit writes,
\* whoever sends it.  When every browser is done, changes are left there only
\* if the last commit or revert of all did not come through: refused or lost
\* set calls alone, and the saves of others in between, leave nothing
\* (routing.js:605-660).
NothingLeftStaged ==
  settled /\ (\A e \in Editors : wpc[e] \in {"idle", "editing"}) => staged = Nothing

\* The dialog's state, and what a failed save leaves behind: in the node's
\* configuration and in its staging area.
WirelessConsistent == WirelessTypeOK /\ FailureKeepsConfig /\ NothingLeftStaged
===============================================================================

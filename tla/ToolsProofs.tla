----------------------------- MODULE ToolsProofs -----------------------------
(***************************************************************************)
(* Theorems about the tools around the mesh: the file database of the web  *)
(* administration tool, for any number of requests, any structs, faults    *)
(* and crashes; the wireless dialog, for any number of browsers, values    *)
(* and failing calls; the database batctl bisect_iv builds from any number *)
(* of logs, of any length.                                                 *)
(***************************************************************************)
EXTENDS GobDB, WirelessEdit, BisectDb, FiniteSetTheorems, WellFoundedInduction, TLAPS

-----------------------------------------------------------------------------
(***************************************************************************)
(* GobDB                                                                   *)
(***************************************************************************)
\* Every place a request can be is a value of pc.
LEMMA Places ==
  /\ "new" \in PCs /\ "mkdir" \in PCs /\ "list" \in PCs /\ "open" \in PCs
  /\ "decode" \in PCs /\ "handle" \in PCs /\ "stat" \in PCs
  /\ "remove" \in PCs /\ "put" \in PCs /\ "create" \in PCs
  /\ "types" \in PCs /\ "value" \in PCs /\ "answer" \in PCs
  /\ "done" \in PCs /\ "killed" \in PCs
BY DEF PCs, Steps

\* Goto moves one request and no other.
LEMMA GotoMoves ==
  ASSUME pc \in [Requests -> PCs], NEW r \in Requests, NEW step \in PCs,
         Goto(r, step)
  PROVE  /\ pc' \in [Requests -> PCs]
         /\ pc'[r] = step
         /\ \A o \in Requests : o # r => pc'[o] = pc[o]
BY DEF Goto

\* The type invariant holds of the whole server.
THEOREM TypeCorrect == Spec => []TypeOK
<1>1. Init => TypeOK
  <2> SUFFICES ASSUME Init PROVE TypeOK
    OBVIOUS
  <2>1. PICK left \in {Empty} \cup [types : {TRUE}, value : Structs] :
          file = [i \in Inodes |-> IF i = OldFile THEN left ELSE Empty]
    BY DEF Init
  <2>2. Empty \in [types : BOOLEAN, value : Structs \cup {None}]
    BY DEF Empty
  <2>3. left \in [types : BOOLEAN, value : Structs \cup {None}]
    BY <2>2
  <2>4. file \in [Inodes -> [types : BOOLEAN, value : Structs \cup {None}]]
    BY <2>1, <2>2, <2>3
  <2>5. entry \in Inodes \cup {None} /\ everStored \in BOOLEAN
    BY DEF Init, Inodes
  <2>6. located \in BOOLEAN
    BY DEF Init
  <2> QED
    BY <2>4, <2>5, <2>6 DEF Init, TypeOK, PCs, Steps, Methods
<1>2. TypeOK /\ [Next]_vars => TypeOK'
  <2> SUFFICES ASSUME TypeOK, [Next]_vars PROVE TypeOK'
    OBVIOUS
  <2> DEFINE Inode == [types : BOOLEAN, value : Structs \cup {None}]
  <2>0. /\ Requests \subseteq Inodes
        /\ Zero \in Structs
        /\ Empty \in Inode
    <3>1. Requests \subseteq Inodes /\ Zero \in Structs
      BY DEF Inodes, Structs
    <3>2. Empty \in Inode
      BY DEF Empty
    <3> QED BY <3>1, <3>2
  <2> USE <2>0, Places, GotoMoves DEF TypeOK, Methods, Fault, NoFault, Reply
  <2>1. ASSUME NEW r \in Requests, Wrap(r) PROVE TypeOK'
    BY <2>1 DEF Wrap
  <2>2. ASSUME NEW r \in Requests, InitMkdir(r) PROVE TypeOK'
    <3>1. located' \in BOOLEAN
      BY <2>2 DEF InitMkdir
    <3>2. CASE Goto(r, "list") /\ NoFault
      BY <2>2, <3>1, <3>2 DEF InitMkdir
    <3>3. CASE Goto(r, "handle") /\ Fault
      BY <2>2, <3>1, <3>3 DEF InitMkdir
    <3> QED BY <2>2, <3>2, <3>3 DEF InitMkdir
  <2>3. ASSUME NEW r \in Requests, InitList(r) PROVE TypeOK'
    BY <2>3 DEF InitList
  <2>4. ASSUME NEW r \in Requests, ReadOpen(r) PROVE TypeOK'
    <3>1. CASE entry # None /\ fd' = [fd EXCEPT ![r] = entry]
      BY <2>4, <3>1 DEF ReadOpen
    <3>2. CASE Goto(r, "handle")
      <4>1. fd' \in [Requests -> Inodes \cup {None}]
        BY <2>4 DEF ReadOpen
      <4>2. /\ pc' \in [Requests -> PCs] /\ pc'[r] = "handle"
            /\ \A o \in Requests \ {r} : pc'[o] = pc[o] /\ fd'[o] = fd[o]
        BY <2>4, <3>2 DEF ReadOpen
      <4>3. faults' \in Nat
        BY <2>4 DEF ReadOpen
      <4>4. UNCHANGED <<located, entry, file, req, loaded, resp, crashes, everStored>>
        BY <2>4 DEF ReadOpen
      <4>5. \A o \in Requests : pc'[o] \in {"decode", "types", "value"} => fd'[o] \in Inodes
        BY <4>2
      <4> QED BY <4>1, <4>2, <4>3, <4>4, <4>5
    <3> QED BY <2>4, <3>1, <3>2 DEF ReadOpen
  <2>5. ASSUME NEW r \in Requests, ReadDecode(r) PROVE TypeOK'
    <3>1. loaded' \in [Requests -> Structs \cup {None}]
      <4>1. fd[r] \in Inodes
        BY <2>5 DEF ReadDecode
      <4>2. (IF Decodes(fd[r]) THEN file[fd[r]].value ELSE None) \in Structs \cup {None}
        BY <4>1
      <4> QED BY <2>5, <4>2 DEF ReadDecode
    <3>2. faults' \in Nat /\ fd' = [fd EXCEPT ![r] = None] /\ Goto(r, "handle")
      BY <2>5 DEF ReadDecode
    <3>3. UNCHANGED <<located, entry, file, req, resp, crashes, everStored>>
      BY <2>5 DEF ReadDecode
    <3> QED BY <3>1, <3>2, <3>3
  <2>6. ASSUME NEW r \in Requests, Handle(r) PROVE TypeOK'
    <3>1. CASE req[r].method = "GET"
      <4>1. Goto(r, "done")
        BY <2>6, <3>1 DEF Handle
      <4>2. (IF loaded[r] = None THEN Zero ELSE loaded[r]) \in Structs
        OBVIOUS
      <4>3. resp' \in [Requests -> Structs \cup {None, "ok", "401"}]
        BY <2>6, <3>1, <4>2 DEF Handle
      <4> QED BY <2>6, <4>1, <4>3 DEF Handle
    <3>2. CASE req[r].method = "POST"
      BY <2>6, <3>2 DEF Handle
    <3> QED BY <3>1, <3>2
  <2>7. ASSUME NEW r \in Requests, DeleteStat(r) PROVE TypeOK'
    BY <2>7 DEF DeleteStat, StatThenGoto
  <2>8. ASSUME NEW r \in Requests, DeleteRemove(r) PROVE TypeOK'
    <3>1. CASE entry' = None /\ Goto(r, "put") /\ loaded' = [loaded EXCEPT ![r] = None]
      BY <2>8, <3>1 DEF DeleteRemove
    <3>2. CASE UNCHANGED <<entry, loaded>> /\ Goto(r, "answer")
      BY <2>8, <3>2 DEF DeleteRemove
    <3> QED BY <2>8, <3>1, <3>2 DEF DeleteRemove
  <2>9. ASSUME NEW r \in Requests, PutStat(r) PROVE TypeOK'
    BY <2>9 DEF PutStat, StatThenGoto
  <2>10. ASSUME NEW r \in Requests, PutCreate(r) PROVE TypeOK'
    <3>1. CASE Goto(r, "types") /\ NoFault
      <4>1. PICK i \in Inodes :
              /\ entry' = i
              /\ file' = [file EXCEPT ![i] = Empty]
              /\ fd' = [fd EXCEPT ![r] = i]
        BY <2>10, <3>1, Places, GotoMoves DEF PutCreate
      <4> QED BY <2>10, <3>1, <4>1 DEF PutCreate
    <3>2. CASE Goto(r, "answer")
      BY <2>10, <3>2 DEF PutCreate
    <3> QED BY <2>10, <3>1, <3>2 DEF PutCreate
  <2>11. ASSUME NEW r \in Requests, EncodeTypes(r) PROVE TypeOK'
    <3>1. CASE Goto(r, "value") /\ NoFault
      <4>1. fd[r] \in Inodes /\ file[fd[r]] \in Inode
        BY <2>11 DEF EncodeTypes
      <4>2. [file[fd[r]] EXCEPT !.types = TRUE] \in Inode
        BY <4>1
      <4>3. file' = [file EXCEPT ![fd[r]] = [@ EXCEPT !.types = TRUE]]
        BY <2>11, <3>1, Places, GotoMoves DEF EncodeTypes
      <4>4. file' \in [Inodes -> Inode]
        BY <4>1, <4>2, <4>3
      <4> QED BY <2>11, <3>1, <4>4 DEF EncodeTypes
    <3>2. CASE Goto(r, "answer") /\ UNCHANGED file
      BY <2>11, <3>2 DEF EncodeTypes
    <3> QED BY <2>11, <3>1, <3>2 DEF EncodeTypes
  <2>12. ASSUME NEW r \in Requests, EncodeValue(r) PROVE TypeOK'
    <3>1. everStored' \in BOOLEAN
      BY <2>12 DEF EncodeValue
    <3>2. fd[r] \in Inodes /\ file[fd[r]] \in Inode /\ req[r].body \in Structs
      BY <2>12 DEF EncodeValue
    <3>3. [file[fd[r]] EXCEPT !.value = req[r].body] \in Inode
      BY <3>2
    <3>4. file' \in [Inodes -> Inode]
      <4> DEFINE new == [file[fd[r]] EXCEPT !.value = req[r].body]
      <4>1. file' = [file EXCEPT ![fd[r]] = new] \/ file' = file
        BY <2>12 DEF EncodeValue
      <4>2. new \in Inode /\ file \in [Inodes -> Inode]
        BY <3>3
      <4>3. fd[r] \in Inodes
        BY <3>2
      <4> HIDE DEF new, Inode, TypeOK
      <4>4. CASE file' = file
        BY <4>2, <4>4
      <4>5. CASE file' = [file EXCEPT ![fd[r]] = new]
        BY <4>2, <4>3, <4>5
      <4> QED BY <4>1, <4>4, <4>5
    <3>5. faults' \in Nat
      BY <2>12 DEF EncodeValue
    <3>6. loaded' \in [Requests -> Structs \cup {None}]
      BY <2>12, <3>2 DEF EncodeValue
    <3> QED BY <2>12, <3>1, <3>4, <3>5, <3>6 DEF EncodeValue
  <2>13. ASSUME NEW r \in Requests, AnswerOk(r) PROVE TypeOK'
    BY <2>13 DEF AnswerOk
  <2>14. ASSUME Exit PROVE TypeOK'
    <3>1. pc' \in [Requests -> PCs]
      BY <2>14 DEF Exit
    <3>2. \A r \in Requests : pc'[r] \notin {"decode", "types", "value"}
      BY <2>14 DEF Exit, Steps
    <3> QED BY <2>14, <3>1, <3>2 DEF Exit
  <2>15. ASSUME UNCHANGED vars PROVE TypeOK'
    BY <2>15 DEF vars
  <2> QED
    BY <2>1, <2>2, <2>3, <2>4, <2>5, <2>6, <2>7, <2>8, <2>9, <2>10, <2>11,
       <2>12, <2>13, <2>14, <2>15 DEF Next, Serve
<1> QED BY <1>1, <1>2, PTL DEF Spec

\* The parts of UndisturbedInv.
Quiet == LocatedInv /\ TornInv /\ PresentInv /\ LoadedInv /\ OldFileInv
           /\ ProvenanceInv

\* One system call of one request keeps what an undisturbed server
\* guarantees, action by action and part by part.
LEMMA QuietStep ==
  ASSUME TypeOK, TypeOK', Quiet, Undisturbed, Undisturbed',
         NEW r \in Requests, Wrap(r) \/ Serve(r)
  PROVE  Quiet'
<1>0. /\ OldFile \in Inodes /\ Requests \subseteq Inodes
      /\ None \notin Inodes /\ None \notin Structs /\ "ok" \notin Structs
      /\ Zero \in Structs /\ None # "ok" /\ OldFile \notin Requests
  BY ConstantsAssumption DEF Inodes, Structs
<1> USE <1>0
    DEF Undisturbed, Goto, Reply, NoFault, Fault, TypeOK, Quiet, LocatedInv,
        TornInv, PresentInv, LoadedInv, OldFileInv, ProvenanceInv, Steps,
        Writing, Recreating, Decodes, Empty
<1>1. ASSUME Wrap(r) PROVE Quiet'
  <2>1. /\ pc[r] = "new" /\ pc'[r] \in {"mkdir", "done"}
        /\ \A o \in Requests \ {r} : pc'[o] = pc[o] /\ resp'[o] = resp[o]
        /\ resp'[r] # resp[r] => pc'[r] = "done" /\ resp'[r] = "401"
        /\ UNCHANGED <<located, entry, file, req, loaded, fd, everStored>>
    BY <1>1 DEF Wrap
  <2>2. LocatedInv' /\ LoadedInv'
    BY <2>1
  <2>3. TornInv'
    BY <2>1
  <2>4. PresentInv'
    BY <2>1
  <2>5. OldFileInv'
    BY <2>1
  <2>6. ProvenanceInv'
    <3>1. resp[r] = None
      BY <2>1
    <3> QED BY <2>1, <3>1
  <2> QED BY <2>2, <2>3, <2>4, <2>5, <2>6
<1>2. ASSUME InitMkdir(r) PROVE Quiet'
  <2>1. LocatedInv' /\ TornInv' /\ PresentInv'
    BY <1>2 DEF InitMkdir
  <2>2. LoadedInv' /\ OldFileInv' /\ ProvenanceInv'
    BY <1>2 DEF InitMkdir
  <2> QED BY <2>1, <2>2
<1>3. ASSUME InitList(r) PROVE Quiet'
  <2>1. LocatedInv' /\ TornInv' /\ PresentInv'
    BY <1>3 DEF InitList
  <2>2. LoadedInv' /\ OldFileInv' /\ ProvenanceInv'
    BY <1>3 DEF InitList
  <2> QED BY <2>1, <2>2
<1>4. ASSUME ReadDecode(r) PROVE Quiet'
  <2>1. LocatedInv' /\ TornInv' /\ PresentInv'
    BY <1>4 DEF ReadDecode
  <2>2. LoadedInv' /\ OldFileInv' /\ ProvenanceInv'
    BY <1>4 DEF ReadDecode
  <2> QED BY <2>1, <2>2
<1>5. ASSUME DeleteStat(r) PROVE Quiet'
  <2>1. LocatedInv' /\ TornInv' /\ PresentInv'
    BY <1>5 DEF DeleteStat, StatThenGoto
  <2>2. LoadedInv' /\ OldFileInv'
    BY <1>5 DEF DeleteStat, StatThenGoto
  <2>3. ProvenanceInv'
    BY <1>5 DEF DeleteStat, StatThenGoto
  <2> QED BY <2>1, <2>2, <2>3
<1>6. ASSUME DeleteRemove(r) PROVE Quiet'
  <2>1. LocatedInv' /\ TornInv' /\ PresentInv'
    BY <1>6 DEF DeleteRemove
  <2>2. LoadedInv' /\ OldFileInv' /\ ProvenanceInv'
    BY <1>6 DEF DeleteRemove
  <2> QED BY <2>1, <2>2
<1>7. ASSUME PutStat(r) PROVE Quiet'
  <2>1. LocatedInv' /\ TornInv' /\ PresentInv'
    BY <1>7 DEF PutStat, StatThenGoto
  <2>2. LoadedInv'
    BY <1>7 DEF PutStat, StatThenGoto
  <2>3. OldFileInv'
    BY <1>7 DEF PutStat, StatThenGoto
  <2>4. ProvenanceInv'
    BY <1>7 DEF PutStat, StatThenGoto
  <2> QED BY <2>1, <2>2, <2>3, <2>4
<1>8. ASSUME AnswerOk(r) PROVE Quiet'
  <2>1. LocatedInv' /\ TornInv' /\ PresentInv'
    BY <1>8 DEF AnswerOk
  <2>2. LoadedInv'
    BY <1>8 DEF AnswerOk
  <2>3. OldFileInv'
    BY <1>8 DEF AnswerOk
  <2>4. ProvenanceInv'
    BY <1>8 DEF AnswerOk
  <2> QED BY <2>1, <2>2, <2>3, <2>4
<1>9. ASSUME ReadOpen(r) PROVE Quiet'
  <2>1. /\ pc[r] = "open" /\ pc'[r] \in {"handle", "decode"}
        /\ \A o \in Requests \ {r} : pc'[o] = pc[o] /\ fd'[o] = fd[o]
        /\ UNCHANGED <<located, entry, file, req, loaded, resp, everStored>>
    BY <1>9 DEF ReadOpen
  <2>2. TornInv'
    <3>1. \A o \in Requests : pc'[o] = "types" <=> pc[o] = "types"
      BY <2>1
    <3>2. \A o \in Requests : pc'[o] = "value" <=> pc[o] = "value"
      BY <2>1
    <3> QED BY <2>1, <3>1, <3>2
  <2>3. LocatedInv' /\ PresentInv' /\ LoadedInv'
    BY <2>1
  <2>4. OldFileInv'
    BY <1>9 DEF ReadOpen
  <2>5. ProvenanceInv'
    BY <2>1
  <2> QED BY <2>2, <2>3, <2>4, <2>5
<1>10. ASSUME Handle(r) PROVE Quiet'
  <2>1. LocatedInv'
    BY <1>10 DEF Handle
  <2>2. TornInv'
    BY <1>10 DEF Handle
  <2>3. PresentInv'
    <3>1. \A o \in Requests : resp'[o] = "ok" => resp[o] = "ok"
      <4>1. (IF loaded[r] = None THEN Zero ELSE loaded[r]) # "ok"
        BY <1>0 DEF TypeOK
      <4>2. CASE req[r].method = "GET"
        BY <1>10, <4>1, <4>2 DEF Handle
      <4>3. CASE req[r].method = "POST"
        BY <1>10, <4>3 DEF Handle
      <4> QED BY <1>10, <4>2, <4>3 DEF Handle
    <3>2. \A o \in Requests :
            pc'[o] \in {"types", "value", "answer"} => pc'[o] = pc[o]
      BY <1>10 DEF Handle
    <3>3. \A o \in Requests : pc[o] \in {"put", "create"} => pc'[o] = pc[o]
      BY <1>10 DEF Handle
    <3> QED BY <1>10, <3>1, <3>2, <3>3 DEF Handle
  <2>4. LoadedInv'
    BY <1>10 DEF Handle
  <2>5. OldFileInv'
    BY <1>10 DEF Handle
  <2>6. ProvenanceInv'
    BY <1>10 DEF Handle
  <2> QED BY <2>1, <2>2, <2>3, <2>4, <2>5, <2>6
<1>11. ASSUME PutCreate(r) PROVE Quiet'
  <2>1. PICK i \in Inodes :
          /\ i = (IF entry = None THEN r ELSE entry)
          /\ entry' = i
          /\ file' = [file EXCEPT ![i] = Empty]
          /\ fd' = [fd EXCEPT ![r] = i]
          /\ pc' = [pc EXCEPT ![r] = "types"]
          /\ UNCHANGED <<located, req, loaded, resp, everStored>>
    BY <1>11 DEF PutCreate
  <2>2. \A j \in Inodes : file'[j].value # None => file'[j] = file[j]
    BY <2>1
  <2>3. LocatedInv' /\ TornInv'
    BY <1>11 DEF PutCreate
  <2>4. PresentInv'
    BY <2>1
  <2>5. LoadedInv'
    BY <2>1, <2>2
  <2>6. OldFileInv'
    BY <1>11 DEF PutCreate
  <2>7. ProvenanceInv'
    <3>1. pc[r] = "create"
      BY <1>11 DEF PutCreate
    <3>2. /\ \A o \in Requests : pc[o] = "answer" => pc'[o] = "answer"
          /\ \A o \in Requests : pc[o] = "done" => pc'[o] = "done"
      BY <2>1, <3>1
    <3>3. \A j \in Requests : file'[j].value # None =>
            \E w \in Requests :
              /\ file'[j].value = req'[w].body
              /\ pc'[w] = "answer" \/ resp'[w] = "ok"
      <4> SUFFICES ASSUME NEW j \in Requests, file'[j].value # None
                   PROVE  \E w \in Requests :
                            /\ file'[j].value = req'[w].body
                            /\ pc'[w] = "answer" \/ resp'[w] = "ok"
        OBVIOUS
      <4>1. file'[j] = file[j]
        BY <2>2
      <4>2. PICK w \in Requests : /\ file[j].value = req[w].body
                                  /\ pc[w] = "answer" \/ resp[w] = "ok"
        BY <4>1
      <4> QED BY <2>1, <3>2, <4>1, <4>2
    <3>4. \A o \in Requests : resp'[o] # None => pc'[o] = "done"
      BY <2>1, <3>2
    <3> QED BY <3>3, <3>4
  <2> QED BY <2>3, <2>4, <2>5, <2>6, <2>7
<1>12. ASSUME EncodeTypes(r) PROVE Quiet'
  <2>1. /\ fd[r] \in Inodes
        /\ pc[r] = "types" /\ pc' = [pc EXCEPT ![r] = "value"]
        /\ file' = [file EXCEPT ![fd[r]] = [@ EXCEPT !.types = TRUE]]
        /\ UNCHANGED <<located, entry, req, loaded, fd, resp, everStored>>
    BY <1>12 DEF EncodeTypes
  <2>2. /\ \A j \in Inodes : file'[j].value = file[j].value
        /\ \A j \in Inodes : ~file'[j].types => j # fd[r] /\ ~file[j].types
    BY <2>1
  <2>3. LocatedInv' /\ PresentInv'
    BY <2>1
  <2>4. TornInv'
    <3>1. \A o \in Requests : pc'[o] \in {"types", "value"}
                              <=> pc[o] \in {"types", "value"}
      BY <2>1
    <3>2. \A o \in Requests : o # r => pc'[o] = pc[o]
      BY <2>1
    <3> QED BY <2>1, <2>2, <3>1, <3>2
  <2>5. LoadedInv'
    BY <2>1, <2>2
  <2>6. OldFileInv'
    BY <2>1
  <2>7. ProvenanceInv'
    <3>1. /\ \A o \in Requests : pc[o] = "answer" => pc'[o] = "answer"
          /\ \A o \in Requests : pc[o] = "done" => pc'[o] = "done"
      BY <2>1
    <3>2. \A i \in Requests : file'[i].value # None =>
            \E w \in Requests :
              /\ file'[i].value = req'[w].body
              /\ pc'[w] = "answer" \/ resp'[w] = "ok"
      BY <2>1, <2>2, <3>1
    <3> QED BY <2>1, <3>1, <3>2
  <2> QED BY <2>3, <2>4, <2>5, <2>6, <2>7
<1>13. ASSUME EncodeValue(r) PROVE Quiet'
  <2>1. /\ fd[r] \in Inodes /\ req[r].body \in Structs
        /\ pc[r] = "value" /\ pc' = [pc EXCEPT ![r] = "answer"]
        /\ file' = [file EXCEPT ![fd[r]] = [@ EXCEPT !.value = req[r].body]]
        /\ loaded' = [loaded EXCEPT ![r] = req[r].body]
        /\ everStored'
        /\ UNCHANGED <<located, entry, req, fd, resp>>
    BY <1>13 DEF EncodeValue
  <2>2. /\ \A j \in Inodes : file'[j].types = file[j].types
        /\ \A j \in Inodes \ {fd[r]} : file'[j].value = file[j].value
        /\ file'[fd[r]].value = req[r].body
    BY <2>1
  <2>3. LocatedInv' /\ PresentInv'
    BY <2>1
  <2>4. TornInv'
    <3>1. \A o \in Requests : o # r => pc'[o] = pc[o]
      BY <2>1
    <3> QED BY <2>1, <2>2, <3>1
  <2>5. LoadedInv'
    BY <2>1, <2>2
  <2>6. OldFileInv'
    BY <2>1
  <2>7. ProvenanceInv'
    <3>1. pc'[r] = "answer" /\ \A o \in Requests : o # r => pc'[o] = pc[o]
      BY <2>1
    <3>2. \A j \in Requests : file'[j].value # None =>
            \E w \in Requests :
              /\ file'[j].value = req'[w].body
              /\ pc'[w] = "answer" \/ resp'[w] = "ok"
      <4> SUFFICES ASSUME NEW j \in Requests, file'[j].value # None
                   PROVE  \E w \in Requests :
                            /\ file'[j].value = req'[w].body
                            /\ pc'[w] = "answer" \/ resp'[w] = "ok"
        OBVIOUS
      <4>1. CASE j = fd[r]
        BY <2>1, <2>2, <3>1, <4>1
      <4>2. CASE j # fd[r]
        <5>1. file'[j].value = file[j].value
          BY <2>2, <4>2
        <5>2. PICK w \in Requests : /\ file[j].value = req[w].body
                                    /\ pc[w] = "answer" \/ resp[w] = "ok"
          BY <5>1
        <5>3. pc'[w] = "answer" \/ resp'[w] = "ok"
          BY <2>1, <3>1, <5>2
        <5> QED BY <2>1, <5>1, <5>2, <5>3
      <4> QED BY <4>1, <4>2
    <3>3. \A o \in Requests : resp'[o] # None => pc'[o] = "done"
      BY <2>1, <3>1
    <3> QED BY <3>2, <3>3
  <2> QED BY <2>3, <2>4, <2>5, <2>6, <2>7
<1> QED BY <1>1, <1>2, <1>3, <1>4, <1>5, <1>6, <1>7, <1>8, <1>9, <1>10, <1>11, <1>12, <1>13 DEF Serve

\* An undisturbed server was undisturbed before, and no step of it is a
\* fault or a kill; so the guarantees are an invariant of the whole server.
THEOREM QuietAlways == Spec => []UndisturbedInv
<1>1. Init => UndisturbedInv
  <2> SUFFICES ASSUME Init PROVE Quiet
    BY DEF UndisturbedInv, Quiet
  <2>1. PICK left \in {Empty} \cup [types : {TRUE}, value : Structs] :
          file = [i \in Inodes |-> IF i = OldFile THEN left ELSE Empty]
    BY DEF Init
  <2>2. \A i \in Requests : file[i] = Empty
    BY <2>1, ConstantsAssumption DEF Inodes
  <2>3. None \notin Structs /\ None \notin Inodes /\ OldFile \in Inodes
        /\ None # "ok"
    BY ConstantsAssumption DEF Inodes, Structs
  <2>4. file[OldFile].value # None => Decodes(OldFile)
    <3>1. file[OldFile] = left
      BY <2>1, <2>3
    <3>2. CASE left = Empty
      BY <3>1, <3>2 DEF Empty
    <3>3. CASE left \in [types : {TRUE}, value : Structs]
      BY <2>3, <3>1, <3>3 DEF Decodes
    <3> QED BY <3>2, <3>3
  <2>5. entry # None => entry = OldFile /\ Decodes(OldFile) /\ everStored
    BY DEF Init
  <2>6. LocatedInv /\ PresentInv
    BY <2>3 DEF Init, LocatedInv, PresentInv, Steps
  <2>7. TornInv /\ OldFileInv
    BY <2>3, <2>5 DEF Init, TornInv, OldFileInv, Decodes
  <2>8. \A i \in Inodes : file[i].value # None => everStored
    BY <2>2, <2>3, <2>4 DEF Init, Inodes, Empty
  <2>9. \A i \in Requests : file[i].value = None
    BY <2>2 DEF Empty
  <2>10. ProvenanceInv
    BY <2>9 DEF Init, ProvenanceInv
  <2>11. LoadedInv
    BY <2>8 DEF Init, LoadedInv
  <2> QED BY <2>6, <2>7, <2>10, <2>11 DEF Quiet
<1>2. TypeOK /\ TypeOK' /\ UndisturbedInv /\ [Next]_vars => UndisturbedInv'
  <2> SUFFICES ASSUME TypeOK, TypeOK', UndisturbedInv, [Next]_vars, Undisturbed'
               PROVE  Quiet'
    BY DEF UndisturbedInv, Quiet
  <2>1. Undisturbed
    <3>1. faults' = faults \/ Fault
      BY DEF Next, vars, Wrap, Serve, InitMkdir, InitList, ReadOpen,
             ReadDecode, Handle, DeleteStat, StatThenGoto, DeleteRemove, PutStat, PutCreate,
             EncodeTypes, EncodeValue, AnswerOk, Exit, NoFault
    <3>2. crashes' = crashes \/ crashes' = crashes + 1
      BY DEF Next, vars, Wrap, Serve, InitMkdir, InitList, ReadOpen,
             ReadDecode, Handle, DeleteStat, StatThenGoto, DeleteRemove, PutStat, PutCreate,
             EncodeTypes, EncodeValue, AnswerOk, Exit
    <3> QED BY <3>1, <3>2 DEF Undisturbed, TypeOK, Fault
  <2>2. Quiet
    BY <2>1 DEF UndisturbedInv, Quiet
  <2>3. ASSUME NEW r \in Requests, Wrap(r) \/ Serve(r) PROVE Quiet'
    BY <2>1, <2>2, <2>3, QuietStep
  <2>4. ASSUME Exit PROVE FALSE
    BY <2>1, <2>4 DEF Exit, Undisturbed
  <2>5. ASSUME UNCHANGED vars PROVE Quiet'
    BY <2>2, <2>5 DEF vars, Quiet, LocatedInv, TornInv, PresentInv, LoadedInv,
         OldFileInv, ProvenanceInv, Writing, Recreating, Decodes
  <2> QED BY <2>3, <2>4, <2>5 DEF Next
<1> QED BY <1>1, <1>2, TypeCorrect, PTL DEF Spec

\* A file that does not decode is being written.
THEOREM TornFilesAreBeingWritten == Spec => []TornOnlyWhileWriting
<1>1. TypeOK /\ UndisturbedInv => TornOnlyWhileWriting
  BY DEF TypeOK, UndisturbedInv, TornInv, TornOnlyWhileWriting, Decodes,
         Writing
<1> QED BY <1>1, QuietAlways, TypeCorrect, PTL

\* Racing updates never erase the data altogether.
THEOREM UpdatesNeverVanish == Spec => []NoTotalLoss
<1>1. UndisturbedInv => NoTotalLoss
  BY DEF UndisturbedInv, PresentInv, NoTotalLoss, Recreating
<1> QED BY <1>1, QuietAlways, PTL

\* When the server is idle after any race, an answered POST is stored whole.
THEOREM AnUpdateWins == Spec => []SomeUpdateWins
<1>1. TypeOK /\ UndisturbedInv => SomeUpdateWins
  <2> SUFFICES ASSUME TypeOK, UndisturbedInv, Undisturbed, InFlight = {},
                      NEW r \in Requests, resp[r] = "ok"
               PROVE  /\ entry \in Requests
                      /\ Decodes(entry)
                      /\ \E w \in Requests :
                           resp[w] = "ok" /\ file[entry].value = req[w].body
    BY DEF SomeUpdateWins
  <2>1. \A o \in Requests : pc[o] \notin Steps
    BY DEF InFlight
  <2>2. entry # None
    BY <2>1 DEF UndisturbedInv, PresentInv, Recreating, Steps
  <2>3. entry # OldFile
    BY DEF UndisturbedInv, OldFileInv
  <2>4. entry \in Requests
    BY <2>2, <2>3 DEF TypeOK, Inodes
  <2>5. file[entry].types /\ file[entry].value # None
    BY <2>1, <2>2 DEF UndisturbedInv, TornInv, Writing, Steps
  <2>6. \E w \in Requests : resp[w] = "ok" /\ file[entry].value = req[w].body
    BY <2>1, <2>4, <2>5 DEF UndisturbedInv, ProvenanceInv, Steps
  <2> QED BY <2>4, <2>5, <2>6 DEF Decodes
<1> QED BY <1>1, QuietAlways, TypeCorrect, PTL

\* A torn file that no request has loaded or open stays, whatever requests,
\* failures and restarts follow, until the stat of some DB.Put fails.
THEOREM WedgePermanent == Spec => OnlyFailedStatRepairs
<1> DEFINE Repairs == \E r \in Requests : pc[r] = "put" /\ pc'[r] = "create" /\ faults' > faults
<1>1. TypeOK /\ TypeOK' /\ [Next]_vars => (Wedged => Wedged' \/ Repairs)
  <2> SUFFICES ASSUME TypeOK, TypeOK', [Next]_vars, Wedged, ~Repairs PROVE Wedged'
    OBVIOUS
  <2>7. ASSUME NEW r \in Requests, PutStat(r) PROVE Wedged'
    <3>1. CASE NoFault /\ Goto(r, "answer")
      BY <2>7, <3>1 DEF PutStat, StatThenGoto, TypeOK, Wedged, Decodes, Steps, Goto
    <3>2. CASE Fault /\ Goto(r, "create")
      <4>1. pc[r] = "put" /\ pc'[r] = "create" /\ faults' > faults
        BY <2>7, <3>2 DEF PutStat, StatThenGoto, TypeOK, Goto, Fault
      <4> QED BY <4>1
    <3> QED BY <2>7, <3>1, <3>2 DEF PutStat, StatThenGoto, Wedged
  <2> HIDE DEF Repairs
  <2> USE DEF TypeOK, Wedged, Decodes, Steps, Goto, Reply
  <2>1. ASSUME NEW r \in Requests, Wrap(r) PROVE Wedged'
    BY <2>1 DEF Wrap
  <2>2. ASSUME NEW r \in Requests, InitMkdir(r) PROVE Wedged'
    BY <2>2 DEF InitMkdir
  <2>3. ASSUME NEW r \in Requests, InitList(r) PROVE Wedged'
    BY <2>3 DEF InitList
  <2>4. ASSUME NEW r \in Requests, ReadOpen(r) PROVE Wedged'
    BY <2>4 DEF ReadOpen
  <2>5. ASSUME NEW r \in Requests, ReadDecode(r) PROVE Wedged'
    BY <2>5 DEF ReadDecode
  <2>6. ASSUME NEW r \in Requests, Handle(r) PROVE Wedged'
    BY <2>6 DEF Handle
  <2>8. ASSUME NEW r \in Requests, AnswerOk(r) PROVE Wedged'
    BY <2>8 DEF AnswerOk
  <2>9. ASSUME NEW r \in Requests,
               \/ DeleteStat(r) \/ DeleteRemove(r) \/ PutCreate(r)
               \/ EncodeTypes(r) \/ EncodeValue(r)
        PROVE  FALSE
    BY <2>9 DEF DeleteStat, StatThenGoto, DeleteRemove, PutCreate, EncodeTypes, EncodeValue
  <2>10. ASSUME Exit PROVE Wedged'
    BY <2>10 DEF Exit
  <2>11. ASSUME UNCHANGED vars PROVE Wedged'
    BY <2>11 DEF vars
  <2> QED
    BY <2>1, <2>2, <2>3, <2>4, <2>5, <2>6, <2>7, <2>8, <2>9, <2>10, <2>11
    DEF Next, Serve
<1> QED BY <1>1, TypeCorrect, PTL DEF Spec, OnlyFailedStatRepairs

-----------------------------------------------------------------------------
(***************************************************************************)
(* One administrator: the database is an atomic store                      *)
(***************************************************************************)
\* The places from which only a POST goes on
Changing == {"stat", "remove", "put", "create", "types", "value", "answer"}

\* A POST is served alone.
Turns ==
  /\ \A r, o \in InFlight : r # o => req[r].method = "GET"
  /\ \A r \in Requests : pc[r] \in Changing => req[r].method = "POST"

\* What a request saw of the file is still so.
SeenBy(r) ==
  /\ pc[r] \in {"new", "mkdir", "list", "open", "decode"} => loaded[r] = None
  /\ pc[r] \in {"open", "decode", "stat", "remove", "types", "value"} => entry # None
  /\ pc[r] \in {"decode", "types", "value"} => fd[r] = entry
  /\ pc[r] = "handle" => loaded[r] = IF entry = None THEN None ELSE file[entry].value
  /\ pc[r] \in {"put", "create"} => entry = None

SerialInv == Turns /\ \A r \in Requests : SeenBy(r)

\* A request in flight is in one place, and one that is not a GET is alone.
LEMMA TurnsIs ==
  ASSUME TypeOK, Turns, NEW r \in Requests
  PROVE  /\ pc[r] \in Steps => \A o \in Requests : o # r /\ pc[o] \in Steps =>
                                   req[r].method = "GET" /\ req[o].method = "GET"
         /\ pc[r] \in Changing => pc[r] \in Steps /\ req[r].method = "POST"
         /\ req[r].method \in {"GET", "POST"}
         /\ pc[r] \in {"put", "create", "types", "value"} => pc[r] \in Changing
BY DEF Turns, InFlight, Changing, Steps, TypeOK, Methods

LEMMA NoFaultHappens ==
  ASSUME TypeOK, MaxFaults = 0
  PROVE  ~Fault
BY DEF TypeOK, Fault

LEMMA TurnsKept ==
  ASSUME TypeOK, TypeOK', SerialInv, NEW r \in Requests, (Alone(r) /\ Wrap(r)) \/ Serve(r)
  PROVE  Turns'
<1>1. /\ \A o \in Requests \ {r} : pc'[o] = pc[o]
      /\ UNCHANGED req
  BY GotoMoves, Places DEF TypeOK, Wrap, Serve, InitMkdir, InitList, ReadOpen, ReadDecode, Handle, DeleteStat, StatThenGoto,
     DeleteRemove, PutStat, PutCreate, EncodeTypes, EncodeValue, AnswerOk, Reply, Goto
<1>2. CASE Alone(r) /\ Wrap(r)
  <2>1. pc'[r] \in {"mkdir", "done"}
    BY <1>2, GotoMoves, Places DEF TypeOK, Wrap, Reply
  <2> QED BY <1>1, <1>2, <2>1 DEF SerialInv, Turns, Alone, InFlight, Changing, Steps
<1>3. CASE Serve(r)
  <2>1. pc[r] \in Steps
    BY <1>3 DEF Serve, InitMkdir, InitList, ReadOpen, ReadDecode, Handle, DeleteStat, StatThenGoto,
       DeleteRemove, PutStat, PutCreate, EncodeTypes, EncodeValue, AnswerOk, Steps
  <2>2. pc'[r] \in Changing => pc[r] \in Changing \/ req[r].method = "POST"
    BY <1>3, GotoMoves, Places DEF TypeOK, Serve, InitMkdir, InitList, ReadOpen, ReadDecode, Handle, DeleteStat, StatThenGoto,
       DeleteRemove, PutStat, PutCreate, EncodeTypes, EncodeValue, AnswerOk, Reply, Changing
  <2> QED BY <1>1, <2>1, <2>2 DEF SerialInv, Turns, InFlight
<1> QED BY <1>2, <1>3

\* The other requests in flight, when this one is at work
LEMMA OthersSeen ==
  ASSUME TypeOK, TypeOK', SerialInv, NEW r \in Requests, (Alone(r) /\ Wrap(r)) \/ Serve(r),
         NEW o \in Requests \ {r}
  PROVE  SeenBy(o)'
<1>1. pc'[o] = pc[o] /\ fd'[o] = fd[o] /\ loaded'[o] = loaded[o]
  BY GotoMoves, Places DEF TypeOK, Wrap, Serve, InitMkdir, InitList, ReadOpen, ReadDecode, Handle, DeleteStat, StatThenGoto,
     DeleteRemove, PutStat, PutCreate, EncodeTypes, EncodeValue, AnswerOk, Reply, Goto
<1>2. CASE UNCHANGED <<entry, file>>
  <2>1. SeenBy(o) /\ entry' = entry /\ file' = file
    BY <1>2 DEF SerialInv
  <2> QED BY <1>1, <2>1 DEF SeenBy
<1>3. CASE ~UNCHANGED <<entry, file>>
  <2>1. pc[r] \in Changing
    BY <1>3 DEF Wrap, Serve, InitMkdir, InitList, ReadOpen, ReadDecode, Handle, DeleteStat, StatThenGoto,
       AnswerOk, DeleteRemove, PutStat, PutCreate, EncodeTypes, EncodeValue, Changing
  <2>2. pc[o] \notin Steps
    BY <2>1, TurnsIs DEF SerialInv
  <2>3. SeenBy(o)
    BY DEF SerialInv
  <2> QED BY <1>1, <2>2, <2>3 DEF SeenBy, Steps
<1> QED BY <1>2, <1>3

\* A file that is listed decodes, unless a POST is at work.
LEMMA ListedDecodes ==
  ASSUME TypeOK, SerialInv, Quiet, entry # None, Updating = {}
  PROVE  Decodes(entry) /\ entry \in Inodes /\ file[entry].value \in Structs
<1>1. \A r \in Requests : pc[r] \notin {"types", "value"}
  BY DEF Updating
<1>2. file[entry].types /\ file[entry].value # None
  BY <1>1 DEF Quiet, TornInv, Writing
<1> QED BY <1>2 DEF Decodes, TypeOK

\* A GET in flight sees no update, nor does a POST before it made its own.
LEMMA NoneUpdating ==
  ASSUME TypeOK, SerialInv, NEW r \in Requests, pc[r] \in Steps, r \notin Updating
  PROVE  Updating = {}
BY TurnsIs DEF SerialInv, Updating

LEMMA OwnSeen ==
  ASSUME TypeOK, TypeOK', SerialInv, Quiet, MaxFaults = 0,
         NEW r \in Requests, (Alone(r) /\ Wrap(r)) \/ Serve(r)
  PROVE  SeenBy(r)'
<1> USE GotoMoves, Places, NoFaultHappens DEF TypeOK
<1>0. SeenBy(r) /\ None \notin Inodes
  BY ConstantsAssumption DEF SerialInv, Inodes
<1>1. CASE Wrap(r)
  <2>1. pc'[r] \in {"mkdir", "done"} /\ pc[r] = "new" /\ UNCHANGED loaded
    BY <1>1 DEF Wrap, Reply
  <2> QED BY <1>0, <2>1 DEF SeenBy
<1>2. CASE InitMkdir(r)
  <2>1. pc'[r] = "list" /\ pc[r] = "mkdir" /\ UNCHANGED loaded
    BY <1>2 DEF InitMkdir
  <2> QED BY <1>0, <2>1 DEF SeenBy
<1>3. CASE InitList(r)
  <2>1. /\ pc[r] = "list" /\ pc'[r] = IF entry = None THEN "handle" ELSE "open"
        /\ UNCHANGED <<entry, loaded>>
    BY <1>3 DEF InitList
  <2> QED BY <1>0, <2>1 DEF SeenBy
<1>4. CASE ReadOpen(r)
  <2>1. /\ pc[r] = "open" /\ pc'[r] = "decode" /\ fd'[r] = entry
        /\ UNCHANGED <<entry, loaded>>
    BY <1>0, <1>4 DEF ReadOpen, SeenBy
  <2> QED BY <1>0, <2>1 DEF SeenBy
<1>5. CASE ReadDecode(r)
  <2>1. /\ pc[r] = "decode" /\ pc'[r] = "handle" /\ UNCHANGED <<entry, file>>
        /\ loaded'[r] = IF Decodes(fd[r]) THEN file[fd[r]].value ELSE None
    BY <1>5 DEF ReadDecode
  <2>2. fd[r] = entry /\ entry # None
    BY <1>0, <2>1 DEF SeenBy
  <2>3. pc[r] \in Steps /\ r \notin Updating
    BY <2>1 DEF Steps, Updating
  <2>4. Decodes(entry)
    BY <2>2, <2>3, NoneUpdating, ListedDecodes
  <2> QED BY <2>1, <2>2, <2>4 DEF SeenBy
<1>6. CASE Handle(r)
  <2>1. CASE req[r].method = "GET"
    <3>1. pc'[r] = "done"
      BY <1>6, <2>1 DEF Handle, Reply
    <3> QED BY <3>1 DEF SeenBy
  <2>2. CASE req[r].method = "POST"
    <3>1. /\ pc[r] = "handle" /\ pc'[r] = IF loaded[r] = None THEN "put" ELSE "stat"
          /\ UNCHANGED <<entry, loaded>>
      BY <1>6, <2>2 DEF Handle
    <3>2. loaded[r] = IF entry = None THEN None ELSE file[entry].value
      BY <1>0, <3>1 DEF SeenBy
    <3>3. pc[r] \in Steps /\ r \notin Updating
      BY <3>1 DEF Steps, Updating
    <3>4. entry # None => file[entry].value # None
      BY <3>3, NoneUpdating, ListedDecodes DEF Decodes
    <3> QED BY <3>1, <3>2, <3>4 DEF SeenBy
  <2> QED BY <2>1, <2>2 DEF Methods
<1>7. CASE DeleteStat(r)
  <2>1. /\ pc[r] = "stat" /\ pc'[r] = "remove" /\ UNCHANGED entry
    BY <1>0, <1>7 DEF DeleteStat, StatThenGoto, SeenBy
  <2> QED BY <1>0, <2>1 DEF SeenBy
<1>8. CASE DeleteRemove(r)
  <2>1. pc[r] = "remove" /\ entry # None
    BY <1>0, <1>8 DEF DeleteRemove, SeenBy
  <2>2. pc'[r] = "put" /\ entry' = None
    BY <1>8, <2>1 DEF DeleteRemove
  <2> QED BY <2>2 DEF SeenBy
<1>9. CASE PutStat(r)
  <2>1. pc[r] = "put" /\ pc'[r] = "create" /\ entry' = entry /\ entry = None
    BY <1>0, <1>9 DEF PutStat, StatThenGoto, SeenBy
  <2> QED BY <2>1 DEF SeenBy
<1>10. CASE PutCreate(r)
  <2>1. located /\ entry = None
    BY <1>0, <1>10 DEF PutCreate, SeenBy, Quiet, LocatedInv, Steps
  <2>2. pc'[r] = "types" /\ entry' = r /\ fd'[r] = r
    BY <1>10, <2>1 DEF PutCreate
  <2> QED BY <1>0, <2>2 DEF SeenBy, Inodes
<1>11. CASE EncodeTypes(r)
  <2>1. pc[r] = "types" /\ pc'[r] = "value" /\ UNCHANGED <<entry, fd>>
    BY <1>11 DEF EncodeTypes
  <2> QED BY <1>0, <2>1 DEF SeenBy
<1>12. CASE EncodeValue(r) \/ AnswerOk(r)
  <2>1. pc'[r] \in {"answer", "done"}
    BY <1>12 DEF EncodeValue, AnswerOk, Reply
  <2> QED BY <2>1 DEF SeenBy
<1> QED BY <1>1, <1>2, <1>3, <1>4, <1>5, <1>6, <1>7, <1>8, <1>9, <1>10, <1>11, <1>12 DEF Serve

\* What the mapping makes of the file, before a step and after it
LEMMA StoreIs ==
  /\ \A r \in Requests : Updating = {r} => storeBar = req[r].body
  /\ Updating = {} => storeBar = IF entry # None THEN file[entry].value ELSE Zero
  /\ \A r \in Requests : Updating' = {r} => storeBar' = req'[r].body
  /\ Updating' = {} => storeBar' = IF entry' # None THEN file'[entry'].value ELSE Zero
<1>1. \A r : (CHOOSE x \in {r} : TRUE) = r
  OBVIOUS
<1>2. \A r \in Requests : Updating = {r} => storeBar = req[r].body
  BY <1>1 DEF storeBar
<1>3. \A r \in Requests : Updating' = {r} => storeBar' = req'[r].body
  BY <1>1 DEF storeBar
<1> QED BY <1>2, <1>3 DEF storeBar

\* A step of a request is a step of the atomic store, or none.
LEMMA ServeStores ==
  ASSUME TypeOK, TypeOK', SerialInv, SerialInv', Quiet, Quiet', MaxFaults = 0,
         NEW r \in Requests, (Alone(r) /\ Wrap(r)) \/ Serve(r)
  PROVE  Abstract!Next \/ UNCHANGED Abstract!storeVars
<1> USE GotoMoves, Places, NoFaultHappens DEF TypeOK
<1>0. SeenBy(r)
  BY DEF SerialInv
<1>1. UNCHANGED req /\ \A o \in Requests \ {r} : pc'[o] = pc[o]
  BY DEF Wrap, Serve, InitMkdir, InitList, ReadOpen, ReadDecode, Handle, DeleteStat, StatThenGoto,
     DeleteRemove, PutStat, PutCreate, EncodeTypes, EncodeValue, AnswerOk, Reply
<1>2. \A o \in Requests \ {r} : o \in Updating' <=> o \in Updating
  BY <1>1 DEF Updating
\* A step inside an update, or outside, that changes no file
<1>3. ASSUME r \in Updating' <=> r \in Updating,
             Updating = {} => UNCHANGED <<entry, file>>
      PROVE  UNCHANGED <<Updating, storeBar>>
  <2>1. Updating' = Updating
    BY <1>2, <1>3 DEF Updating
  <2>2. CASE Updating = {}
    BY <1>3, <2>1, <2>2, StoreIs
  <2>3. CASE Updating # {}
    <3>1. storeBar = req[CHOOSE u \in Updating : TRUE].body
      BY <2>3 DEF storeBar
    <3>2. storeBar' = req'[CHOOSE u \in Updating' : TRUE].body
      BY <2>1, <2>3 DEF storeBar
    <3> QED BY <1>1, <2>1, <3>1, <3>2
  <2> QED BY <2>1, <2>2, <2>3
\* A call that changes neither file nor answer and starts no update
<1>4. ASSUME r \in Updating' <=> r \in Updating, UNCHANGED resp,
             Updating = {} => UNCHANGED <<entry, file>>,
             r \in appliedBar' <=> r \in appliedBar
      PROVE  UNCHANGED Abstract!storeVars
  <2>1. appliedBar' = appliedBar
    BY <1>1, <1>2, <1>4 DEF appliedBar
  <2> QED BY <1>1, <1>3, <1>4, <2>1 DEF Abstract!storeVars
<1>5. CASE Alone(r) /\ Wrap(r)
  <2>1. /\ pc[r] = "new" /\ pc'[r] \in {"mkdir", "done"} /\ UNCHANGED <<entry, file>>
        /\ \/ UNCHANGED resp
           \/ resp' = [resp EXCEPT ![r] = "401"]
    BY <1>5 DEF Wrap, Reply
  <2>2. resp[r] = None
    BY <2>1 DEF Quiet, ProvenanceInv
  <2>3. r \notin appliedBar /\ (r \in Updating' <=> r \in Updating)
    BY <2>1, <2>2, ConstantsAssumption DEF appliedBar, Updating
  <2>4. CASE UNCHANGED resp
    <3>1. r \notin appliedBar'
      BY <2>1, <2>2, <2>4, ConstantsAssumption DEF appliedBar, Updating
    <3> QED BY <1>4, <2>1, <2>3, <2>4, <3>1
  <2>5. CASE resp' = [resp EXCEPT ![r] = "401"]
    <3>1. resp'[r] = "401" /\ \A o \in Requests \ {r} : resp'[o] = resp[o]
      BY <2>5
    <3>2. appliedBar' = appliedBar
      BY <1>1, <1>2, <2>1, <2>3, <3>1 DEF appliedBar, Updating
    <3>3. UNCHANGED storeBar
      BY <1>3, <2>1, <2>3
    <3>4. Abstract!Reject(r)
      BY <1>1, <2>2, <2>3, <2>5, <3>2, <3>3
         DEF Abstract!Reject, Abstract!Unanswered, Abstract!Answer
    <3> QED BY <3>4 DEF Abstract!Next
  <2> QED BY <2>1, <2>4, <2>5
<1>6. CASE InitMkdir(r) \/ InitList(r) \/ ReadOpen(r) \/ ReadDecode(r)
  <2>1. /\ pc[r] \in {"mkdir", "list", "open", "decode"} /\ UNCHANGED <<entry, file, resp>>
        /\ pc'[r] \in {"list", "open", "decode", "handle"}
    BY <1>6 DEF InitMkdir, InitList, ReadOpen, ReadDecode
  <2> QED BY <1>4, <2>1 DEF Updating, appliedBar
<1>7. CASE Handle(r) /\ req[r].method = "GET"
  <2>1. /\ pc[r] = "handle" /\ pc'[r] = "done" /\ UNCHANGED <<entry, file>>
        /\ resp' = [resp EXCEPT ![r] = IF loaded[r] = None THEN Zero ELSE loaded[r]]
    BY <1>7 DEF Handle, Reply
  <2>2. resp[r] = None /\ pc[r] \in Steps /\ r \notin Updating
    BY <2>1 DEF Quiet, ProvenanceInv, Steps, Updating
  <2>3. Updating = {}
    BY <2>2, NoneUpdating
  <2>4. loaded[r] = (IF entry = None THEN None ELSE file[entry].value)
        /\ (entry # None => file[entry].value # None)
    BY <1>0, <2>1, <2>3, ListedDecodes DEF SeenBy, Decodes
  <2>5. resp' = [resp EXCEPT ![r] = storeBar]
    BY <2>1, <2>3, <2>4, StoreIs
  <2>6. storeBar \in Structs
    BY <2>3, ListedDecodes, StoreIs DEF Structs
  <2>7. resp'[r] = storeBar /\ \A o \in Requests \ {r} : resp'[o] = resp[o]
    BY <2>5
  <2>8. resp'[r] # "ok" /\ resp[r] # "ok"
    BY <2>2, <2>6, <2>7, ConstantsAssumption DEF Structs
  <2>9. appliedBar' = appliedBar
    BY <1>1, <1>2, <2>1, <2>7, <2>8 DEF appliedBar, Updating
  <2>10. UNCHANGED storeBar
    BY <1>3, <2>1 DEF Updating
  <2>11. Abstract!Get(r)
    BY <1>1, <1>7, <2>2, <2>5, <2>9, <2>10 DEF Abstract!Get, Abstract!Unanswered, Abstract!Answer
  <2> QED BY <2>11 DEF Abstract!Next
\* An update takes effect where it finds no file, or removes it.
<1>8. ASSUME pc[r] \in {"handle", "remove"}, pc'[r] = "put", req[r].method = "POST", UNCHANGED resp
      PROVE  Abstract!Next
  <2>1. resp[r] = None /\ pc[r] \in Steps /\ r \notin Updating /\ r \notin appliedBar
    BY <1>8, ConstantsAssumption DEF Quiet, ProvenanceInv, Steps, Updating, appliedBar
  <2>2. Updating = {} /\ Updating' = {r}
    BY <1>2, <1>8, <2>1, NoneUpdating DEF Updating
  <2>3. storeBar' = req[r].body
    BY <1>1, <2>2, StoreIs
  <2>4. appliedBar' = appliedBar \cup {r}
    BY <1>1, <1>2, <1>8, <2>2 DEF appliedBar
  <2>5. Abstract!Apply(r)
    BY <1>1, <1>8, <2>1, <2>3, <2>4 DEF Abstract!Apply, Abstract!Unanswered
  <2> QED BY <2>5 DEF Abstract!Next
<1>9. CASE Handle(r) /\ req[r].method = "POST"
  <2>1. /\ pc[r] = "handle" /\ UNCHANGED <<entry, file, resp>>
        /\ pc'[r] \in {"put", "stat"}
    BY <1>9 DEF Handle
  <2>2. CASE pc'[r] = "put"
    BY <1>8, <1>9, <2>1, <2>2
  <2>3. CASE pc'[r] = "stat"
    BY <1>4, <2>1, <2>3 DEF Updating, appliedBar
  <2> QED BY <2>1, <2>2, <2>3
<1>10. CASE DeleteStat(r)
  <2>1. pc[r] = "stat" /\ pc'[r] = "remove" /\ UNCHANGED <<entry, file, resp>>
    BY <1>0, <1>10 DEF DeleteStat, StatThenGoto, SeenBy
  <2> QED BY <1>4, <2>1 DEF Updating, appliedBar
<1>11. CASE DeleteRemove(r)
  <2>1. pc[r] = "remove" /\ pc'[r] = "put" /\ UNCHANGED resp
    BY <1>0, <1>11 DEF DeleteRemove, SeenBy
  <2>2. req[r].method = "POST"
    BY <2>1, TurnsIs DEF SerialInv, Changing
  <2> QED BY <1>8, <2>1, <2>2
<1>12. CASE PutStat(r) \/ PutCreate(r) \/ EncodeTypes(r)
  <2>1. pc[r] \in {"put", "create", "types"} /\ pc'[r] \in {"create", "types", "value"} /\ UNCHANGED resp
    BY <1>0, <1>12 DEF PutStat, StatThenGoto, PutCreate, EncodeTypes, SeenBy, Quiet, LocatedInv, Steps
  <2>2. r \in Updating /\ r \in Updating'
    BY <2>1 DEF Updating
  <2> QED BY <1>4, <2>1, <2>2 DEF appliedBar
<1>13. CASE EncodeValue(r)
  <2>1. /\ pc[r] = "value" /\ pc'[r] = "answer" /\ UNCHANGED <<entry, resp>>
        /\ file' = [file EXCEPT ![fd[r]].value = req[r].body]
    <3>1. /\ pc[r] = "value" /\ Goto(r, "answer") /\ UNCHANGED <<entry, resp>>
          /\ file' = [file EXCEPT ![fd[r]].value = req[r].body]
      BY <1>13 DEF EncodeValue
    <3> QED BY <3>1 DEF Goto
  <2>2. fd[r] = entry /\ entry # None /\ entry \in Inodes
    BY <1>0, <2>1 DEF SeenBy
  <2>3. Updating = {r} /\ Updating' = {}
    <3>1. \A o \in Requests \ {r} : o \notin Updating
      BY <2>1, TurnsIs DEF SerialInv, Updating, Changing
    <3>2. r \in Updating /\ Updating \subseteq Requests
      BY <2>1 DEF Updating
    <3>3. \A o \in Requests : o \notin Updating'
      BY <1>2, <2>1, <3>1 DEF Updating
    <3>4. Updating' \subseteq Requests
      BY DEF Updating
    <3> QED BY <3>1, <3>2, <3>3, <3>4
  <2>4. file'[entry].value = req[r].body
    BY <2>1, <2>2
  <2>5. storeBar' = storeBar
    BY <2>1, <2>2, <2>3, <2>4, StoreIs
  <2>6. appliedBar' = appliedBar
    BY <1>1, <1>2, <2>1, <2>3 DEF appliedBar
  <2> QED BY <1>1, <2>1, <2>5, <2>6 DEF Abstract!storeVars
<1>14. CASE AnswerOk(r)
  <2>1. /\ pc[r] = "answer" /\ pc'[r] = "done" /\ UNCHANGED <<entry, file>>
        /\ resp' = [resp EXCEPT ![r] = "ok"]
    BY <1>14 DEF AnswerOk, Reply
  <2>2. resp[r] = None /\ r \in appliedBar
    BY <2>1 DEF Quiet, ProvenanceInv, appliedBar
  <2>3. UNCHANGED storeBar
    BY <1>3, <2>1 DEF Updating
  <2>4. resp'[r] = "ok" /\ \A o \in Requests \ {r} : resp'[o] = resp[o]
    BY <2>1
  <2>5. appliedBar' = appliedBar
    BY <1>1, <1>2, <2>2, <2>4 DEF appliedBar
  <2>6. Abstract!AckPost(r)
    BY <1>1, <2>1, <2>2, <2>3, <2>5 DEF Abstract!AckPost, Abstract!Unanswered, Abstract!Answer
  <2> QED BY <2>6 DEF Abstract!Next
<1>15. req[r].method \in {"GET", "POST"}
  BY DEF Methods
<1> QED BY <1>5, <1>6, <1>7, <1>9, <1>10, <1>11, <1>12, <1>13, <1>14, <1>15 DEF Serve

\* The atomic store (AtomicStore) is what the handlers of /config and
\* /topo/position promise: with one POST at a time, no failing system call
\* and no kill, every behaviour of the file database is one of the store.
THEOREM StoreIsAtomic ==
  ASSUME MaxFaults = 0, MaxCrashes = 0
  PROVE  SerialSpec => ImplementsAtomicStore
<1>1. Init => SerialInv /\ Abstract!Init
  <2> SUFFICES ASSUME Init PROVE SerialInv /\ Abstract!Init
    OBVIOUS
  <2>1. \A r \in Requests : pc[r] = "new" /\ loaded[r] = None
    BY DEF Init
  <2>2. SerialInv
    BY <2>1 DEF SerialInv, Turns, SeenBy, InFlight, Changing, Steps
  <2>3. Updating = {} /\ appliedBar = {}
    BY <2>1, ConstantsAssumption DEF Updating, appliedBar, Init
  <2>4. storeBar \in Structs
    <3>1. PICK left \in {Empty} \cup [types : {TRUE}, value : Structs] :
            file = [i \in Inodes |-> IF i = OldFile THEN left ELSE Empty]
      BY DEF Init
    <3>2. entry # None => entry = OldFile /\ file[OldFile].value # None
      BY DEF Init, Decodes
    <3>3. file[OldFile] = left
      BY <3>1 DEF Inodes
    <3>4. left.value # None => left.value \in Structs
      <4>1. CASE left = Empty
        BY <4>1 DEF Empty
      <4>2. CASE left \in [types : {TRUE}, value : Structs]
        BY <4>2
      <4> QED BY <4>1, <4>2
    <3>5. entry # None => file[entry].value \in Structs
      BY <3>2, <3>3, <3>4
    <3> QED BY <2>3, <3>5, StoreIs DEF Structs
  <2> QED BY <2>2, <2>3, <2>4 DEF Init, Abstract!Init, Methods
<1>2. SerialNext => Next
  BY DEF SerialNext, Next
<1>3. SerialSpec => Spec
  <2>1. [SerialNext]_vars => [Next]_vars
    BY <1>2
  <2> QED BY <2>1, PTL DEF SerialSpec, Spec
<1>4. TypeOK /\ Undisturbed /\ [SerialNext]_vars => Undisturbed'
  <2> SUFFICES ASSUME TypeOK, Undisturbed, [SerialNext]_vars PROVE Undisturbed'
    OBVIOUS
  <2>1. ASSUME NEW r \in Requests, Wrap(r) \/ Serve(r) PROVE UNCHANGED <<faults, crashes>>
    BY <2>1, NoFaultHappens DEF Wrap, Serve, InitMkdir, InitList, ReadOpen, ReadDecode, Handle,
       DeleteStat, StatThenGoto, DeleteRemove, PutStat, PutCreate, EncodeTypes, EncodeValue, AnswerOk, NoFault
  <2>2. ~Exit
    BY DEF Exit, TypeOK
  <2> QED BY <2>1, <2>2 DEF SerialNext, Undisturbed, vars
<1>5. Init => Undisturbed
  BY DEF Init, Undisturbed
<1>6. UndisturbedInv /\ Undisturbed => Quiet
  BY DEF UndisturbedInv, Quiet
<1>7. TypeOK /\ TypeOK' /\ Quiet /\ Quiet' /\ SerialInv /\ [SerialNext]_vars
        => SerialInv' /\ [Abstract!Next]_(Abstract!storeVars)
  <2> SUFFICES ASSUME TypeOK, TypeOK', Quiet, Quiet', SerialInv, [SerialNext]_vars
               PROVE  SerialInv' /\ (Abstract!Next \/ UNCHANGED Abstract!storeVars)
    OBVIOUS
  <2>1. ASSUME NEW r \in Requests, (Alone(r) /\ Wrap(r)) \/ Serve(r)
        PROVE  SerialInv' /\ (Abstract!Next \/ UNCHANGED Abstract!storeVars)
    <3>1. Turns'
      BY <2>1, TurnsKept
    <3>2. \A o \in Requests \ {r} : SeenBy(o)'
      BY <2>1, OthersSeen
    <3>3. SeenBy(r)'
      BY <2>1, OwnSeen
    <3>4. SerialInv'
      BY <3>1, <3>2, <3>3 DEF SerialInv
    <3> QED BY <2>1, <3>4, ServeStores
  <2>2. ~Exit
    BY DEF Exit, TypeOK
  <2>3. CASE UNCHANGED vars
    <3>1. UNCHANGED <<entry, file, pc, req, loaded, fd, resp>>
      BY <2>3 DEF vars
    <3>2. SerialInv'
      BY <3>1 DEF SerialInv, Turns, SeenBy, InFlight
    <3>3. UNCHANGED Abstract!storeVars
      BY <3>1 DEF Abstract!storeVars, storeBar, appliedBar, Updating
    <3> QED BY <3>2, <3>3
  <2> QED BY <2>1, <2>2, <2>3 DEF SerialNext
<1> QED BY <1>1, <1>3, <1>4, <1>5, <1>6, <1>7, TypeCorrect, QuietAlways, PTL
        DEF SerialSpec, ImplementsAtomicStore, Abstract!Spec

-----------------------------------------------------------------------------
(***************************************************************************)
(* Wireless                                                                *)
(***************************************************************************)
-----------------------------------------------------------------------------
(* The fields and where a save stands *)

LEMMA FieldNames ==
  /\ DOMAIN Order = 1..3
  /\ Order[1] = "channel" /\ Order[2] = "htmode" /\ Order[3] = "txpower"
  /\ Fields = {"channel", "htmode", "txpower"}
<1>1. DOMAIN Order = 1..3
  BY DEF Order
<1>2. Order[1] = "channel" /\ Order[2] = "htmode" /\ Order[3] = "txpower"
  BY DEF Order
<1>3. Fields = {Order[1], Order[2], Order[3]}
  BY <1>1, SMT DEF Fields
<1> QED BY <1>1, <1>2, <1>3

\* No two positions have the same field.
LEMMA OrderIsInjective ==
  \A i, j \in DOMAIN Order : Order[i] \in Fields /\ (Order[i] = Order[j] => i = j)
BY FieldNames, SMT

\* The field saved next is one that is wanted; there is a commit after a last
\* call that went well, a revert after one that did not.
LEMMA AfterCases ==
  ASSUME NEW w \in Edits, NEW i \in 1..4, NEW good \in BOOLEAN
  PROVE  \/ \E j \in DOMAIN Order : w[Order[j]] # NoEdit /\ After(w, i, good) = Order[j]
         \/ /\ \A j \in DOMAIN Order : w[Order[j]] # NoEdit => j < i
            /\ After(w, i, good) = IF ~good THEN "revert"
                                   ELSE IF Wanted(w) # {} THEN "commit" ELSE "idle"
<1> DEFINE left == {j \in DOMAIN Order : j >= i /\ w[Order[j]] # NoEdit}
<1>1. CASE left # {}
  <2>1. \E j \in left : \A k \in left : j <= k
    <3>1. left \subseteq 1..3
      BY FieldNames
    <3>2. CASE 1 \in left
      BY <3>1, <3>2, SMT
    <3>3. CASE 1 \notin left /\ 2 \in left
      BY <3>1, <3>3, SMT
    <3>4. CASE 1 \notin left /\ 2 \notin left
      BY <1>1, <3>1, <3>4, SMT
    <3> QED BY <3>2, <3>3, <3>4
  <2> DEFINE first == CHOOSE j \in left : \A k \in left : j <= k
  <2>2. first \in left
    BY <2>1
  <2>3. After(w, i, good) = Order[first]
    BY <1>1 DEF After
  <2> HIDE DEF first
  <2> QED BY <2>2, <2>3
<1>2. CASE left = {}
  <2>1. \A j \in DOMAIN Order : w[Order[j]] # NoEdit => j < i
    BY <1>2, FieldNames, SMT
  <2>2. After(w, i, good) = IF ~good THEN "revert"
                            ELSE IF Wanted(w) # {} THEN "commit" ELSE "idle"
    BY <1>2 DEF After
  <2> QED BY <2>1, <2>2
<1> QED BY <1>1, <1>2

LEMMA AfterType ==
  ASSUME NEW w \in Edits, NEW i \in 1..4, NEW good \in BOOLEAN
  PROVE  After(w, i, good) \in Fields \cup {"revert", "commit", "idle"}
BY AfterCases, OrderIsInjective

\* The field with no wanted one behind it is the last.
LEMMA LastIsLast ==
  ASSUME NEW e, NEW i \in DOMAIN Order, Order[i] \in Wanted(wanted[e]),
         \A j \in DOMAIN Order : wanted[e][Order[j]] # NoEdit => j <= i
  PROVE  LastWanted(e) = Order[i]
<1> DEFINE P(f) == \A k, j \in DOMAIN Order :
                     Order[k] = f /\ Order[j] \in Wanted(wanted[e]) => j <= k
<1>1. P(Order[i])
  BY OrderIsInjective DEF Wanted
<1>2. ASSUME NEW f \in Wanted(wanted[e]), P(f)
      PROVE  f = Order[i]
  <2>1. PICK k \in DOMAIN Order : f = Order[k]
    BY DEF Wanted, Fields
  <2>2. i <= k /\ k <= i
    BY <1>1, <1>2, <2>1
  <2> QED BY <2>1, <2>2, FieldNames, SMT
<1>3. LastWanted(e) = CHOOSE f \in Wanted(wanted[e]) : P(f)
  BY DEF LastWanted
<1> HIDE DEF P
<1> QED BY <1>1, <1>2, <1>3

-----------------------------------------------------------------------------
(* The invariant *)

\* While no call has failed, the last value set is what get_all answers, and a
\* staged change belongs to a save that will commit.
NothingLost ==
  AllFaults = 0 =>
    /\ \A e \in Editors : flag[e] /\ wpc[e] # "revert"
    /\ Merged = lastSet
    /\ staged # Nothing => \E e \in Editors : wpc[e] \in Fields \cup {"commit"}

\* While a browser saves, nothing has changed the configuration, unless another
\* one called; its message is of this save, and at the commit the last field is
\* in the staging area.
SavesInTurn ==
  \A e \in Editors :
    /\ wpc[e] \in Fields => wanted[e][wpc[e]] # NoEdit
    /\ wpc[e] # "idle" => alert[e] = "none"
    /\ wpc[e] \in Fields \cup {"commit", "revert"} /\ alone[e] => conf = before[e]
    /\ wpc[e] = "commit" /\ Silent = 0 /\ alone[e]
         => staged[LastWanted(e)] = wanted[e][LastWanted(e)]

HistoryType ==
  /\ before \in [Editors -> [Fields -> Vals]]
  /\ alone \in [Editors -> BOOLEAN]
  /\ lastSet \in [Fields -> Vals]

WirelessInv ==
  WirelessTypeOK /\ HistoryType /\ NothingLost /\ SavesInTurn /\ FailureKeepsConfig

LEMMA MergedType ==
  ASSUME WirelessTypeOK
  PROVE  Merged \in [Fields -> Vals]
BY DEF WirelessTypeOK, Merged, Edits

LEMMA NothingType == Nothing \in Edits /\ \A f \in Fields : Nothing[f] = NoEdit
BY DEF Nothing, Edits

LEMMA PlaceNames ==
  /\ Fields \cup {"idle", "editing", "commit", "revert"} = WPCs
  /\ "idle" \notin Fields /\ "editing" \notin Fields
  /\ "commit" \notin Fields /\ "revert" \notin Fields
BY FieldNames DEF WPCs

\* Failures are only counted up, each in its own counter.
LEMMA ProxyCounts ==
  ASSUME WirelessTypeOK, NEW out \in Outcomes, Proxy(out)
  PROVE  /\ callFaults' \in [Failures -> 0..MaxCallFaults]
         /\ AllFaults' = 0 => AllFaults = 0 /\ out = "ok"
         /\ Silent' = 0 => Silent = 0 /\ out \notin {"lost", "garbled"}
         /\ callFaults'["unreachable"] = 0
              => callFaults["unreachable"] = 0 /\ out # "unreachable"
<1>1. /\ callFaults["refused"] \in 0..MaxCallFaults
      /\ callFaults["unreachable"] \in 0..MaxCallFaults
      /\ callFaults["lost"] \in 0..MaxCallFaults
      /\ callFaults["garbled"] \in 0..MaxCallFaults
      /\ MaxCallFaults \in Nat
  BY WirelessAssumption DEF WirelessTypeOK, Failures
<1>2. CASE out = "ok"
  BY <1>1, <1>2 DEF Proxy, AllFaults, Silent, WirelessTypeOK
<1>3. CASE out # "ok"
  <2>1. out \in Failures
    BY <1>3, WirelessAssumption DEF Failures
  <2>2. AllFaults < MaxCallFaults /\ callFaults' = [callFaults EXCEPT ![out] = @ + 1]
    BY <1>3 DEF Proxy
  <2>3. callFaults[out] \in 0..MaxCallFaults /\ callFaults[out] + 1 \in 0..MaxCallFaults
    BY <1>1, <2>1, <2>2 DEF AllFaults, Failures
  <2>4. callFaults' \in [Failures -> 0..MaxCallFaults]
    BY <2>1, <2>2, <2>3 DEF WirelessTypeOK
  <2>5. \A k \in Failures : callFaults'[k] = IF k = out THEN callFaults[k] + 1
                                             ELSE callFaults[k]
    BY <2>1, <2>2 DEF WirelessTypeOK
  <2>6. /\ callFaults'["refused"] = IF out = "refused" THEN callFaults["refused"] + 1
                                    ELSE callFaults["refused"]
        /\ callFaults'["unreachable"] = IF out = "unreachable"
             THEN callFaults["unreachable"] + 1 ELSE callFaults["unreachable"]
        /\ callFaults'["lost"] = IF out = "lost" THEN callFaults["lost"] + 1
                                 ELSE callFaults["lost"]
        /\ callFaults'["garbled"] = IF out = "garbled" THEN callFaults["garbled"] + 1
                                    ELSE callFaults["garbled"]
    BY <2>5 DEF Failures
  <2> QED BY <1>1, <2>1, <2>4, <2>6, SMT DEF AllFaults, Silent, Failures
<1> QED BY <1>2, <1>3

\* A call of one browser leaves no other one alone.
LEMMA DisturbsOthers ==
  ASSUME HistoryType, NEW e \in Editors, Disturbs(e)
  PROVE  /\ alone' \in [Editors -> BOOLEAN]
         /\ alone'[e] = alone[e]
         /\ \A o \in Editors \ {e} : ~alone'[o]
BY DEF HistoryType, Disturbs

-----------------------------------------------------------------------------
(* Every action keeps the invariant *)

LEMMA InitWireless == WirelessInit => WirelessInv
<1> SUFFICES ASSUME WirelessInit PROVE WirelessInv
  OBVIOUS
<1>1. conf \in [Fields -> Vals]
  BY DEF WirelessInit
<1>2. WirelessTypeOK
  BY <1>1, NothingType, PlaceNames, WirelessAssumption DEF WirelessInit, WirelessTypeOK
<1>3. HistoryType
  BY <1>1 DEF WirelessInit, HistoryType
<1>4. Merged = conf
  BY <1>1, NothingType DEF WirelessInit, Merged
<1>5. NothingLost
  BY <1>4 DEF WirelessInit, NothingLost
<1>6. SavesInTurn
  BY PlaceNames DEF WirelessInit, SavesInTurn
<1>7. FailureKeepsConfig
  BY DEF WirelessInit, FailureKeepsConfig
<1> QED BY <1>2, <1>3, <1>5, <1>6, <1>7 DEF WirelessInv

LEMMA DialogKeeps ==
  ASSUME WirelessInv, NEW e \in Editors, NEW out \in Outcomes, detailWireless(e, out)
  PROVE  WirelessInv'
<1> USE DEF WirelessInv
<1>1. /\ UNCHANGED <<conf, staged, wanted, flag, before, alone, lastSet>>
      /\ rounds' \in 0..MaxRounds
      /\ alert' = [alert EXCEPT ![e] = "none"]
      /\ Merged' = Merged
  BY WirelessAssumption DEF detailWireless, WirelessTypeOK, Merged
<1>2. /\ wpc[e] = "idle" /\ wpc'[e] \in {"idle", "editing"}
      /\ wpc' \in [Editors -> WPCs]
      /\ \A o \in Editors : o # e => wpc'[o] = wpc[o]
      /\ shown' \in [Editors -> [Fields -> Vals]]
  <2>1. /\ wpc \in [Editors -> WPCs] /\ shown \in [Editors -> [Fields -> Vals]]
        /\ {"idle", "editing"} \subseteq WPCs /\ Merged \in [Fields -> Vals]
    BY MergedType, PlaceNames DEF WirelessTypeOK
  <2>2. /\ wpc[e] = "idle"
        /\ \/ wpc' = [wpc EXCEPT ![e] = "editing"] /\ shown' = [shown EXCEPT ![e] = Merged]
           \/ wpc' = wpc /\ shown' = shown
    BY DEF detailWireless
  <2>3. CASE wpc' = [wpc EXCEPT ![e] = "editing"] /\ shown' = [shown EXCEPT ![e] = Merged]
    BY <2>1, <2>2, <2>3
  <2>4. CASE wpc' = wpc /\ shown' = shown
    BY <2>1, <2>2, <2>4
  <2> QED BY <2>2, <2>3, <2>4
<1>3. WirelessTypeOK'
  BY <1>1, <1>2, ProxyCounts DEF detailWireless, WirelessTypeOK
<1>4. HistoryType'
  BY <1>1 DEF HistoryType
<1>5. NothingLost'
  BY <1>1, <1>2, ProxyCounts, PlaceNames DEF detailWireless, NothingLost
<1>6. \A o \in Editors : LastWanted(o)' = LastWanted(o)
  BY <1>1 DEF LastWanted, Wanted
<1>7. SavesInTurn'
  BY <1>1, <1>2, <1>6, ProxyCounts, PlaceNames
     DEF detailWireless, SavesInTurn, WirelessTypeOK
<1>8. FailureKeepsConfig'
  BY <1>1, <1>2, ProxyCounts DEF detailWireless, FailureKeepsConfig, WirelessTypeOK
<1> QED BY <1>3, <1>4, <1>5, <1>7, <1>8

LEMMA BlankType ==
  ASSUME NEW typed \in Edits, NEW was \in [Fields -> Vals]
  PROVE  Blank(typed, was) \in Edits
BY DEF Edits, Blank

LEMMA EditKeeps ==
  ASSUME WirelessInv, NEW e \in Editors, editWireless(e)
  PROVE  WirelessInv'
<1> USE DEF WirelessInv
<1>1. PICK typed \in Edits : wanted' = [wanted EXCEPT ![e] = Blank(typed, shown[e])]
  BY DEF editWireless
<1> DEFINE w == Blank(typed, shown[e])
<1>2. w \in Edits
  BY BlankType DEF WirelessTypeOK
<1>3. wanted'[e] = w /\ wanted' \in [Editors -> Edits]
  BY <1>1, <1>2 DEF WirelessTypeOK
<1>4. /\ UNCHANGED <<conf, staged, shown, callFaults, rounds, lastSet>>
      /\ flag' = [flag EXCEPT ![e] = TRUE]
      /\ wpc' = [wpc EXCEPT ![e] = After(w, 1, TRUE)]
      /\ before' = [before EXCEPT ![e] = conf]
      /\ alone' = [alone EXCEPT ![e] = TRUE]
      /\ wpc[e] = "editing" /\ Merged' = Merged
      /\ AllFaults' = AllFaults /\ Silent' = Silent
  BY <1>3 DEF editWireless, Merged, AllFaults, Silent
<1> DEFINE next == After(w, 1, TRUE)
<1>5. \/ next \in Fields /\ w[next] # NoEdit
      \/ next = "idle"
  <2>1. CASE \E j \in DOMAIN Order : w[Order[j]] # NoEdit /\ next = Order[j]
    BY <2>1, OrderIsInjective
  <2>2. CASE /\ \A j \in DOMAIN Order : w[Order[j]] # NoEdit => j < 1
             /\ next = IF ~TRUE THEN "revert"
                       ELSE IF Wanted(w) # {} THEN "commit" ELSE "idle"
    <3>1. \A j \in DOMAIN Order : w[Order[j]] = NoEdit
      BY <2>2, FieldNames, SMT
    <3>2. Wanted(w) = {}
      BY <3>1 DEF Wanted, Fields
    <3> QED BY <2>2, <3>2
  <2>3. 1 \in 1..4 /\ TRUE \in BOOLEAN
    OBVIOUS
  <2> QED BY <1>2, <2>1, <2>2, <2>3, AfterCases
<1> HIDE DEF next, w
<1>6. /\ wpc'[e] = next /\ wpc' \in [Editors -> WPCs]
      /\ \A o \in Editors : o # e => wpc'[o] = wpc[o]
  BY <1>4, <1>5, PlaceNames DEF WirelessTypeOK, next
<1>7. /\ alert' \in [Editors -> {"none", "saved", "failed"}]
      /\ alert'[e] = IF next = "idle" THEN "saved" ELSE alert[e]
      /\ \A o \in Editors : o # e => alert'[o] = alert[o]
  BY <1>6 DEF editWireless, WirelessTypeOK
<1>8. WirelessTypeOK'
  BY <1>3, <1>4, <1>6, <1>7 DEF WirelessTypeOK
<1>9. HistoryType'
  BY <1>4 DEF HistoryType, WirelessTypeOK
<1>10. NothingLost'
  <2> SUFFICES ASSUME AllFaults' = 0
      PROVE  /\ \A o \in Editors : flag'[o] /\ wpc'[o] # "revert"
             /\ Merged' = lastSet'
             /\ staged' # Nothing => \E o \in Editors : wpc'[o] \in Fields \cup {"commit"}
    BY <1>4 DEF NothingLost, Nothing
  <2>1. /\ \A o \in Editors : flag[o] /\ wpc[o] # "revert"
        /\ Merged = lastSet
        /\ staged # Nothing => \E o \in Editors : wpc[o] \in Fields \cup {"commit"}
    BY <1>4 DEF NothingLost
  <2>2. next # "revert" /\ wpc[e] \notin Fields \cup {"commit"}
    BY <1>4, <1>5, PlaceNames
  <2>3. \A o \in Editors : flag'[o]
    BY <1>4, <2>1 DEF WirelessTypeOK
  <2>4. \A o \in Editors : wpc'[o] # "revert"
    BY <1>6, <2>1, <2>2
  <2>5. staged' # Nothing => \E o \in Editors : wpc'[o] \in Fields \cup {"commit"}
    BY <1>4, <1>6, <2>1, <2>2
  <2> QED BY <1>4, <2>1, <2>3, <2>4, <2>5
<1>11. \A o \in Editors : o # e => wanted'[o] = wanted[o] /\ LastWanted(o)' = LastWanted(o)
  BY <1>1 DEF LastWanted, Wanted, WirelessTypeOK
<1>12. SavesInTurn'
  <2> SUFFICES ASSUME NEW o \in Editors
      PROVE  /\ wpc'[o] \in Fields => wanted'[o][wpc'[o]] # NoEdit
             /\ wpc'[o] # "idle" => alert'[o] = "none"
             /\ wpc'[o] \in Fields \cup {"commit", "revert"} /\ alone'[o]
                  => conf' = before'[o]
             /\ wpc'[o] = "commit" /\ Silent' = 0 /\ alone'[o]
                  => staged'[LastWanted(o)'] = wanted'[o][LastWanted(o)']
    BY DEF SavesInTurn
  <2>1. CASE o = e
    <3>1. wpc'[e] \in Fields => wanted'[e][wpc'[e]] # NoEdit
      BY <1>3, <1>5, <1>6, PlaceNames
    <3>2. wpc'[e] # "idle" => alert'[e] = "none"
      BY <1>4, <1>6, <1>7, PlaceNames DEF SavesInTurn
    <3>3. conf' = before'[e]
      BY <1>4 DEF HistoryType
    <3>4. wpc'[e] # "commit"
      BY <1>5, <1>6, PlaceNames
    <3> QED BY <2>1, <3>1, <3>2, <3>3, <3>4
  <2>2. CASE o # e
    BY <1>4, <1>6, <1>7, <1>11, <2>2 DEF SavesInTurn, HistoryType
  <2> QED BY <2>1, <2>2
<1>13. FailureKeepsConfig'
  BY <1>4, <1>5, <1>6, <1>7, PlaceNames
     DEF FailureKeepsConfig, SavesInTurn, HistoryType
<1> QED BY <1>8, <1>9, <1>10, <1>12, <1>13

LEMMA CancelKeeps ==
  ASSUME WirelessInv, NEW e \in Editors, cancel(e)
  PROVE  WirelessInv'
<1> USE DEF WirelessInv
<1>1. /\ UNCHANGED <<conf, staged, shown, wanted, flag, alert, callFaults, rounds,
                     before, alone, lastSet>>
      /\ wpc[e] = "editing" /\ wpc'[e] = "idle"
      /\ wpc' \in [Editors -> WPCs]
      /\ \A o \in Editors : o # e => wpc'[o] = wpc[o]
      /\ alert[e] = "none"
  BY PlaceNames DEF cancel, WirelessTypeOK, SavesInTurn
<1>2. /\ Merged' = Merged /\ AllFaults' = AllFaults /\ Silent' = Silent
      /\ \A o \in Editors : LastWanted(o)' = LastWanted(o)
  BY <1>1 DEF Merged, AllFaults, Silent, LastWanted, Wanted
<1>3. WirelessTypeOK' /\ HistoryType'
  BY <1>1 DEF WirelessTypeOK, HistoryType
<1>4. NothingLost'
  BY <1>1, <1>2, PlaceNames DEF NothingLost
<1>5. SavesInTurn'
  BY <1>1, <1>2, PlaceNames DEF SavesInTurn
<1>6. FailureKeepsConfig'
  BY <1>1 DEF FailureKeepsConfig
<1> QED BY <1>3, <1>4, <1>5, <1>6

\* The other browsers are where they were and no longer alone, so SavesInTurn
\* and FailureKeepsConfig say little of them.
LEMMA OthersInTurn ==
  ASSUME WirelessInv, NEW e \in Editors, NEW o \in Editors \ {e}, Disturbs(e),
         wpc'[o] = wpc[o], alert'[o] = alert[o], wanted'[o] = wanted[o]
  PROVE  /\ wpc'[o] \in Fields => wanted'[o][wpc'[o]] # NoEdit
         /\ wpc'[o] # "idle" => alert'[o] = "none"
         /\ ~alone'[o]
BY DisturbsOthers DEF WirelessInv, SavesInTurn

LEMMA SetKeeps ==
  ASSUME WirelessInv, NEW e \in Editors, NEW out \in Outcomes, setField(e, out)
  PROVE  WirelessInv'
<1> USE DEF WirelessInv
<1>1. PICK i \in DOMAIN Order, done \in Done(out) :
        /\ wpc[e] = Order[i]
        /\ Proxy(out)
        /\ staged' = IF done THEN [staged EXCEPT ![Order[i]] = wanted[e][Order[i]]]
                     ELSE staged
        /\ lastSet' = IF done THEN [lastSet EXCEPT ![Order[i]] = wanted[e][Order[i]]]
                      ELSE lastSet
        /\ flag' = [flag EXCEPT ![e] = IF Called(out) THEN Truthy(out) ELSE @]
        /\ wpc' = [wpc EXCEPT ![e] = After(wanted[e], i + 1, flag'[e])]
        /\ Disturbs(e)
        /\ UNCHANGED <<conf, shown, wanted, alert, rounds, before>>
  BY DEF setField
<1> DEFINE f == Order[i]
           w == wanted[e]
<1>2. f \in Fields /\ w \in Edits /\ w[f] # NoEdit /\ w[f] \in Vals
  BY <1>1, OrderIsInjective DEF SavesInTurn, WirelessTypeOK, Edits
<1>3. /\ flag'[e] = (IF Called(out) THEN Truthy(out) ELSE flag[e])
      /\ flag' \in [Editors -> BOOLEAN]
      /\ \A o \in Editors : o # e => flag'[o] = flag[o]
  BY <1>1 DEF WirelessTypeOK, Called, Truthy
<1> DEFINE next == After(w, i + 1, flag'[e])
<1>4. i \in 1..3 /\ i + 1 \in 1..4 /\ flag'[e] \in BOOLEAN
  BY <1>3, FieldNames, SMT
<1>5. \/ \E j \in DOMAIN Order : w[Order[j]] # NoEdit /\ next = Order[j]
      \/ /\ \A j \in DOMAIN Order : w[Order[j]] # NoEdit => j <= i
         /\ next = IF flag'[e] THEN "commit" ELSE "revert"
  <2>1. Wanted(w) # {}
    BY <1>2 DEF Wanted
  <2>2. \A j \in DOMAIN Order : j < i + 1 => j <= i
    BY <1>4, FieldNames, SMT
  <2> QED BY <1>2, <1>4, <2>1, <2>2, AfterCases
<1>6. next \in Fields \cup {"commit", "revert"} /\ (next \in Fields => w[next] # NoEdit)
  BY <1>3, <1>5, OrderIsInjective, PlaceNames
<1>7. /\ wpc'[e] = next /\ wpc' \in [Editors -> WPCs] /\ wpc[e] = f
      /\ \A o \in Editors : o # e => wpc'[o] = wpc[o]
  BY <1>1, <1>6, PlaceNames DEF WirelessTypeOK
<1>8. /\ staged' \in Edits
      /\ lastSet' \in [Fields -> Vals]
  BY <1>1, <1>2 DEF WirelessTypeOK, HistoryType, Edits
<1>9. WirelessTypeOK'
  BY <1>1, <1>3, <1>7, <1>8, ProxyCounts DEF WirelessTypeOK
<1>10. HistoryType'
  BY <1>1, <1>8, DisturbsOthers DEF HistoryType
<1>11. NothingLost'
  <2> SUFFICES ASSUME AllFaults' = 0
      PROVE  /\ \A o \in Editors : flag'[o] /\ wpc'[o] # "revert"
             /\ Merged' = lastSet'
             /\ \E o \in Editors : wpc'[o] \in Fields \cup {"commit"}
    BY DEF NothingLost
  <2>1. AllFaults = 0 /\ out = "ok"
    BY <1>1, ProxyCounts
  <2>2. done /\ flag'[e]
    BY <1>3, <2>1 DEF Done, Called, Truthy
  <2>3. next \in Fields \cup {"commit"}
    BY <1>5, <2>2, OrderIsInjective
  <2>4. \A o \in Editors : flag'[o] /\ wpc'[o] # "revert"
    BY <1>3, <1>7, <2>1, <2>2, <2>3, PlaceNames DEF NothingLost
  <2>5. /\ \A g \in Fields : staged'[g] = IF g = f THEN w[f] ELSE staged[g]
        /\ \A g \in Fields : lastSet'[g] = IF g = f THEN w[f] ELSE lastSet[g]
    BY <1>1, <1>2, <2>2 DEF WirelessTypeOK, HistoryType, Edits
  <2>6. \A g \in Fields : (IF staged[g] # NoEdit THEN staged[g] ELSE conf[g]) = lastSet[g]
    <3>1. Merged = lastSet
      BY <2>1 DEF NothingLost
    <3>2. \A g \in Fields :
            Merged[g] = IF staged[g] # NoEdit THEN staged[g] ELSE conf[g]
      BY DEF Merged
    <3> QED BY <3>1, <3>2
  <2>7. \A g \in Fields : (IF staged'[g] # NoEdit THEN staged'[g] ELSE conf'[g]) = lastSet'[g]
    BY <1>1, <1>2, <2>5, <2>6
  <2>8. Merged' = [g \in Fields |-> lastSet'[g]]
    BY <2>7 DEF Merged
  <2> QED BY <1>7, <1>8, <2>3, <2>4, <2>8
<1>12. SavesInTurn'
  <2> SUFFICES ASSUME NEW o \in Editors
      PROVE  /\ wpc'[o] \in Fields => wanted'[o][wpc'[o]] # NoEdit
             /\ wpc'[o] # "idle" => alert'[o] = "none"
             /\ wpc'[o] \in Fields \cup {"commit", "revert"} /\ alone'[o]
                  => conf' = before'[o]
             /\ wpc'[o] = "commit" /\ Silent' = 0 /\ alone'[o]
                  => staged'[LastWanted(o)'] = wanted'[o][LastWanted(o)']
    BY DEF SavesInTurn
  <2>1. CASE o # e
    BY <1>1, <1>7, <2>1, OthersInTurn
  <2>2. CASE o = e
    <3>1. /\ wpc'[e] \in Fields => wanted'[e][wpc'[e]] # NoEdit
          /\ alert'[e] = "none"
          /\ alone'[e] => conf' = before'[e]
      BY <1>1, <1>2, <1>6, <1>7, DisturbsOthers, PlaceNames DEF SavesInTurn
    <3>2. ASSUME wpc'[e] = "commit", Silent' = 0
          PROVE  staged'[LastWanted(e)'] = wanted'[e][LastWanted(e)']
      <4>1. flag'[e] /\ \A j \in DOMAIN Order : w[Order[j]] # NoEdit => j <= i
        BY <1>3, <1>5, <1>7, <3>2, OrderIsInjective, PlaceNames
      <4>2. out \notin {"lost", "garbled"}
        BY <1>1, <3>2, ProxyCounts
      <4>3. done /\ out = "ok"
        BY <1>3, <4>1, <4>2, WirelessAssumption DEF Done, Called, Truthy
      <4>4. LastWanted(e) = f
        BY <1>2, <4>1, LastIsLast DEF Wanted
      <4>5. LastWanted(e)' = LastWanted(e)
        BY <1>1 DEF LastWanted, Wanted
      <4>6. staged'[f] = w[f]
        BY <1>1, <1>2, <4>3 DEF WirelessTypeOK, Edits
      <4> QED BY <1>1, <4>4, <4>5, <4>6
    <3> QED BY <2>2, <3>1, <3>2
  <2> QED BY <2>1, <2>2
<1>13. FailureKeepsConfig'
  BY <1>1, <1>6, <1>7, DisturbsOthers, PlaceNames DEF FailureKeepsConfig
<1> QED BY <1>9, <1>10, <1>11, <1>12, <1>13

LEMMA CommitKeeps ==
  ASSUME WirelessInv, NEW e \in Editors, NEW out \in Outcomes, commit(e, out)
  PROVE  WirelessInv'
<1> USE DEF WirelessInv
<1>1. PICK done \in Done(out) : /\ conf' = IF done THEN Merged ELSE conf
                                /\ staged' = IF done THEN Nothing ELSE staged
  BY DEF commit
<1>2. /\ wpc[e] = "commit" /\ Proxy(out) /\ Disturbs(e)
      /\ UNCHANGED <<shown, wanted, flag, rounds, before, lastSet>>
      /\ wpc'[e] = "idle" /\ wpc' \in [Editors -> WPCs]
      /\ \A o \in Editors : o # e => wpc'[o] = wpc[o]
  BY DEF commit, WirelessTypeOK, WPCs
<1>3. /\ alert'[e] = (IF ~Called(out) THEN alert[e]
                      ELSE IF Truthy(out) THEN "saved" ELSE "failed")
      /\ alert' \in [Editors -> {"none", "saved", "failed"}]
      /\ \A o \in Editors : o # e => alert'[o] = alert[o]
  BY DEF commit, WirelessTypeOK
<1>4. WirelessTypeOK'
  BY <1>1, <1>2, <1>3, ProxyCounts, MergedType, NothingType DEF WirelessTypeOK
<1>5. HistoryType'
  BY <1>2, DisturbsOthers DEF HistoryType
<1>6. NothingLost'
  <2> SUFFICES ASSUME AllFaults' = 0
      PROVE  /\ \A o \in Editors : flag'[o] /\ wpc'[o] # "revert"
             /\ Merged' = lastSet' /\ staged' = Nothing
    BY DEF NothingLost
  <2>1. AllFaults = 0 /\ out = "ok"
    BY <1>2, ProxyCounts
  <2>2. conf' = Merged /\ staged' = Nothing
    BY <1>1, <2>1 DEF Done
  <2>3. Merged' = Merged
    BY <2>2, MergedType, NothingType DEF Merged
  <2> QED BY <1>2, <2>1, <2>2, <2>3 DEF NothingLost
<1>7. SavesInTurn'
  BY <1>2, <1>3, OthersInTurn, PlaceNames DEF SavesInTurn
<1>8. FailureKeepsConfig'
  <2> SUFFICES ASSUME NEW o \in Editors, wpc'[o] = "idle", alert'[o] = "failed",
                      alone'[o], callFaults'["unreachable"] = 0
      PROVE  conf' = before'[o]
    BY DEF FailureKeepsConfig
  <2>1. o = e /\ alone[e]
    BY <1>2, DisturbsOthers
  <2>2. out # "unreachable"
    BY <1>2, ProxyCounts
  <2>3. Called(out) /\ ~Truthy(out)
    BY <1>2, <1>3, <2>1 DEF SavesInTurn
  <2>4. out = "refused"
    BY <2>2, <2>3, WirelessAssumption DEF Called, Truthy
  <2>5. conf' = conf
    BY <1>1, <2>4 DEF Done
  <2> QED BY <1>2, <2>1, <2>5 DEF SavesInTurn
<1> QED BY <1>4, <1>5, <1>6, <1>7, <1>8

LEMMA RevertKeeps ==
  ASSUME WirelessInv, NEW e \in Editors, NEW out \in Outcomes, revert(e, out)
  PROVE  WirelessInv'
<1> USE DEF WirelessInv
<1>1. /\ wpc[e] = "revert" /\ Proxy(out) /\ Disturbs(e)
      /\ UNCHANGED <<conf, shown, wanted, flag, rounds, before, lastSet>>
      /\ wpc'[e] = "idle" /\ wpc' \in [Editors -> WPCs]
      /\ \A o \in Editors : o # e => wpc'[o] = wpc[o]
      /\ alert' \in [Editors -> {"none", "saved", "failed"}]
      /\ \A o \in Editors : o # e => alert'[o] = alert[o]
      /\ staged' = Nothing \/ staged' = staged
  BY DEF revert, WirelessTypeOK, WPCs
<1>2. WirelessTypeOK'
  BY <1>1, ProxyCounts, NothingType DEF WirelessTypeOK
<1>3. HistoryType'
  BY <1>1, DisturbsOthers DEF HistoryType
<1>4. NothingLost'
  BY <1>1, ProxyCounts DEF NothingLost
<1>5. SavesInTurn'
  BY <1>1, OthersInTurn, PlaceNames DEF SavesInTurn
<1>6. FailureKeepsConfig'
  BY <1>1, DisturbsOthers, PlaceNames DEF FailureKeepsConfig, SavesInTurn
<1> QED BY <1>2, <1>3, <1>4, <1>5, <1>6

LEMMA IdleKeeps ==
  ASSUME WirelessInv, UNCHANGED wirelessVars
  PROVE  WirelessInv'
<1>1. /\ Merged' = Merged /\ AllFaults' = AllFaults /\ Silent' = Silent
      /\ \A o \in Editors : LastWanted(o)' = LastWanted(o)
  BY DEF wirelessVars, Merged, AllFaults, Silent, LastWanted, Wanted
<1>2. UNCHANGED <<conf, staged, wpc, shown, wanted, flag, alert, callFaults, rounds,
                  before, alone, lastSet>>
  BY DEF wirelessVars
<1>3. WirelessTypeOK' /\ HistoryType'
  BY <1>2 DEF WirelessInv, WirelessTypeOK, HistoryType
<1>4. NothingLost' /\ SavesInTurn' /\ FailureKeepsConfig'
  BY <1>1, <1>2 DEF WirelessInv, NothingLost, SavesInTurn, FailureKeepsConfig
<1> QED BY <1>3, <1>4 DEF WirelessInv

\* The invariant behind the theorems that follow.
THEOREM WirelessInvHolds == WirelessSpec => []WirelessInv
<1>1. WirelessInv /\ [WirelessNext]_wirelessVars => WirelessInv'
  BY DialogKeeps, EditKeeps, CancelKeeps, SetKeeps, CommitKeeps, RevertKeeps,
     IdleKeeps DEF WirelessNext
<1> QED BY InitWireless, <1>1, PTL DEF WirelessSpec

\* Changes are staged while a save is under way, or since a commit or revert
\* that did not come through.
Saving(e) == wpc[e] \in Fields \cup {"commit", "revert"}
StagedBySave == settled /\ staged # Nothing => \E e \in Editors : Saving(e)

LEMMA StagedStep ==
  ASSUME WirelessInv, WirelessInv', StagedBySave, [WirelessNext]_wirelessVars
  PROVE  StagedBySave'
<1>1. wpc \in [Editors -> WPCs]
  BY DEF WirelessInv, WirelessTypeOK
<1>2. ASSUME NEW e \in Editors, editWireless(e) \/ cancel(e)
      PROVE  StagedBySave'
  <2>1. /\ UNCHANGED <<staged, settled>> /\ ~Saving(e)
        /\ \A o \in Editors : o # e => wpc'[o] = wpc[o]
    BY <1>1, <1>2, PlaceNames DEF editWireless, cancel, Saving
  <2> QED BY <2>1 DEF StagedBySave, Saving, Nothing
<1>3. ASSUME NEW e \in Editors, NEW out \in Outcomes, detailWireless(e, out)
      PROVE  StagedBySave'
  <2>1. /\ UNCHANGED <<staged, settled>> /\ ~Saving(e)
        /\ \A o \in Editors : o # e => wpc'[o] = wpc[o]
    BY <1>1, <1>3, PlaceNames DEF detailWireless, Saving
  <2> QED BY <2>1 DEF StagedBySave, Saving, Nothing
<1>4. ASSUME NEW e \in Editors, NEW out \in Outcomes, setField(e, out)
      PROVE  StagedBySave'
  <2> SUFFICES Saving(e)'
    BY DEF StagedBySave
  <2>1. PICK i \in DOMAIN Order :
          /\ wpc[e] = Order[i]
          /\ wpc' = [wpc EXCEPT ![e] = After(wanted[e], i + 1, flag'[e])]
    BY <1>4 DEF setField
  <2> DEFINE w == wanted[e]
             good == flag'[e]
  <2>2. w \in Edits /\ w[Order[i]] # NoEdit /\ good \in BOOLEAN
    BY <2>1, OrderIsInjective DEF WirelessInv, WirelessTypeOK, SavesInTurn
  <2>3. i + 1 \in 1..4 /\ Wanted(w) # {}
    BY <2>2, FieldNames, OrderIsInjective, SMT DEF Wanted
  <2>4. wpc'[e] = After(w, i + 1, good)
    BY <1>1, <2>1
  <2> HIDE DEF w, good
  <2>5. After(w, i + 1, good) \in Fields \cup {"commit", "revert"}
    BY <2>2, <2>3, AfterCases, OrderIsInjective
  <2> QED BY <2>4, <2>5 DEF Saving
<1>5. ASSUME NEW e \in Editors, NEW out \in Outcomes, commit(e, out) \/ revert(e, out)
      PROVE  StagedBySave'
  <2>1. settled' = (out = "ok") /\ (out = "ok" => staged' = Nothing)
    BY <1>5 DEF commit, revert, Done
  <2> QED BY <2>1 DEF StagedBySave, Nothing
<1>6. CASE UNCHANGED wirelessVars
  BY <1>6 DEF wirelessVars, StagedBySave, Saving, Nothing
<1> QED BY <1>2, <1>3, <1>4, <1>5, <1>6 DEF WirelessNext

\* Types, and what a save that failed leaves behind: the node's configuration
\* is as it was before, and nothing stays staged unless the last commit or
\* revert of all did not come through, however the calls of other browsers
\* fall and whichever calls fail (WirelessConsistent).
THEOREM WirelessIsConsistent == WirelessSpec => []WirelessConsistent
<1>1. WirelessInit => StagedBySave
  BY DEF WirelessInit, StagedBySave
<1>2. WirelessSpec => []StagedBySave
  BY <1>1, StagedStep, WirelessInvHolds, PTL DEF WirelessSpec
<1>3. WirelessInv /\ StagedBySave => WirelessConsistent
  BY PlaceNames DEF WirelessInv, WirelessConsistent, StagedBySave, Saving, NothingLeftStaged
<1> QED BY <1>2, <1>3, WirelessInvHolds, PTL

\* Without failing calls the saves of any number of browsers end with the
\* configuration that was set last, and nothing is left staged (EverySaveLands).
THEOREM SavesLand == WirelessSpec => []EverySaveLands
<1>1. WirelessInv => EverySaveLands
  <2> SUFFICES ASSUME WirelessInv, AllFaults = 0,
                      \A e \in Editors : wpc[e] \in {"idle", "editing"}
      PROVE  conf = lastSet /\ staged = Nothing
    BY DEF EverySaveLands
  <2>1. Merged = lastSet /\ staged = Nothing
    BY PlaceNames DEF WirelessInv, NothingLost
  <2>2. Merged = conf
    BY <2>1, NothingType DEF Merged, WirelessInv, WirelessTypeOK
  <2> QED BY <2>1, <2>2
<1> QED BY <1>1, WirelessInvHolds, PTL

\* "Saved" is shown when the last field has reached the configuration, whatever
\* order the calls of the browsers take (SuccessMeansLastSaved).
THEOREM SavedMeansLastSaved == WirelessSpec => SuccessMeansLastSaved
<1> DEFINE LastSaved(e) ==
      /\ alert[e] # "saved" /\ alert'[e] = "saved"
      /\ Wanted(wanted'[e]) # {} /\ Silent' = 0 /\ alone'[e]
      => LET f == LastWanted(e)' IN conf'[f] = wanted'[e][f]
<1>1. ASSUME WirelessInv, NEW e \in Editors, NEW o \in Editors, editWireless(o)
      PROVE  LastSaved(e)
  <2> SUFFICES ASSUME alert[e] # "saved", alert'[e] = "saved"
      PROVE  Wanted(wanted'[e]) = {}
    OBVIOUS
  <2>1. e = o /\ wpc'[e] = "idle"
    BY <1>1 DEF editWireless, WirelessInv, WirelessTypeOK
  <2>2. wpc'[e] = After(wanted'[e], 1, TRUE) /\ wanted'[e] \in Edits
    <3>1. editWireless(e)
      BY <1>1, <2>1
    <3>2. PICK typed \in Edits : wanted' = [wanted EXCEPT ![e] = Blank(typed, shown[e])]
      BY <3>1 DEF editWireless
    <3>3. /\ wanted \in [Editors -> Edits] /\ wpc \in [Editors -> WPCs]
          /\ shown[e] \in [Fields -> Vals]
      BY <1>1 DEF WirelessInv, WirelessTypeOK
    <3>4. wanted'[e] = Blank(typed, shown[e]) /\ Blank(typed, shown[e]) \in Edits
      BY <3>2, <3>3, BlankType
    <3>5. wpc' = [wpc EXCEPT ![e] = After(wanted'[e], 1, TRUE)]
      BY <3>1 DEF editWireless
    <3> QED BY <3>3, <3>4, <3>5
  <2>3. 1 \in 1..4 /\ TRUE \in BOOLEAN
    OBVIOUS
  <2> DEFINE w == wanted'[e]
  <2>4. \/ \E j \in DOMAIN Order : w[Order[j]] # NoEdit /\ After(w, 1, TRUE) = Order[j]
        \/ After(w, 1, TRUE) = IF Wanted(w) # {} THEN "commit" ELSE "idle"
    <3> HIDE DEF w
    <3>1. w \in Edits
      BY <2>2 DEF w
    <3> QED BY <2>3, <3>1, AfterCases
  <2>5. After(w, 1, TRUE) = "idle"
    BY <2>1, <2>2
  <2> HIDE DEF w
  <2>6. Wanted(w) = {}
    BY <2>4, <2>5, OrderIsInjective, PlaceNames
  <2> QED BY <2>6 DEF w
<1>2. ASSUME WirelessInv, NEW e \in Editors, NEW o \in Editors, NEW out \in Outcomes,
             commit(o, out)
      PROVE  LastSaved(e)
  <2> SUFFICES ASSUME alert[e] # "saved", alert'[e] = "saved",
                      Silent' = 0, alone'[e], Wanted(wanted'[e]) # {}
      PROVE  conf'[LastWanted(e)'] = wanted'[e][LastWanted(e)']
    OBVIOUS
  <2>1. e = o /\ Truthy(out) /\ wpc[e] = "commit" /\ UNCHANGED wanted
    BY <1>2 DEF commit, WirelessInv, WirelessTypeOK
  <2>2. conf' = Merged
    BY <1>2, <2>1 DEF commit, Done, Truthy
  <2>3. Silent = 0 /\ alone[e]
    BY <1>2, <2>1, ProxyCounts, DisturbsOthers DEF commit, WirelessInv
  <2>4. LastWanted(e)' = LastWanted(e)
    BY <2>1 DEF LastWanted, Wanted
  <2>5. staged[LastWanted(e)] = wanted[e][LastWanted(e)]
    BY <1>2, <2>1, <2>3 DEF WirelessInv, SavesInTurn
  <2>6. LastWanted(e) \in Wanted(wanted[e])
    <3>1. \E i \in DOMAIN Order : Order[i] \in Wanted(wanted[e])
            /\ \A j \in DOMAIN Order : Order[j] \in Wanted(wanted[e]) => j <= i
      <4>1. /\ Wanted(wanted[e]) \subseteq {Order[1], Order[2], Order[3]}
            /\ Wanted(wanted[e]) # {}
        BY <2>1, FieldNames DEF Wanted
      <4>2. CASE Order[3] \in Wanted(wanted[e])
        BY <4>2, FieldNames, SMT
      <4>3. CASE Order[3] \notin Wanted(wanted[e]) /\ Order[2] \in Wanted(wanted[e])
        BY <4>3, FieldNames, SMT
      <4>4. CASE /\ Order[3] \notin Wanted(wanted[e])
                 /\ Order[2] \notin Wanted(wanted[e]) /\ Order[1] \in Wanted(wanted[e])
        BY <4>4, FieldNames, SMT
      <4> QED BY <4>1, <4>2, <4>3, <4>4
    <3>2. PICK i \in DOMAIN Order : Order[i] \in Wanted(wanted[e])
            /\ \A j \in DOMAIN Order : Order[j] \in Wanted(wanted[e]) => j <= i
      BY <3>1
    <3>3. \A j \in DOMAIN Order : wanted[e][Order[j]] # NoEdit => j <= i
      BY <3>2, OrderIsInjective DEF Wanted
    <3>4. LastWanted(e) = Order[i]
      BY <3>2, <3>3, LastIsLast
    <3> QED BY <3>2, <3>4
  <2>7. Merged[LastWanted(e)] = staged[LastWanted(e)]
    BY <2>5, <2>6 DEF Merged, Wanted
  <2> QED BY <2>1, <2>2, <2>4, <2>5, <2>7
<1>3. ASSUME WirelessInv, [WirelessNext]_wirelessVars, NEW e \in Editors
      PROVE  LastSaved(e)
  <2>1. ASSUME NEW o \in Editors, NEW out \in Outcomes,
               cancel(o) \/ detailWireless(o, out) \/ setField(o, out) \/ revert(o, out)
        PROVE  alert'[e] = alert[e] \/ alert'[e] # "saved"
    BY <1>3, <2>1 DEF cancel, detailWireless, setField, revert, WirelessInv, WirelessTypeOK
  <2>2. CASE UNCHANGED wirelessVars
    BY <2>2 DEF wirelessVars
  <2>3. ASSUME NEW o \in Editors, cancel(o)
        PROVE  alert'[e] = alert[e]
    BY <2>3 DEF cancel
  <2> QED BY <1>1, <1>2, <1>3, <2>1, <2>2, <2>3 DEF WirelessNext
<1>4. WirelessInv /\ [WirelessNext]_wirelessVars
        => [\A e \in Editors : LastSaved(e)]_wirelessVars
  BY <1>3
<1> QED BY <1>4, WirelessInvHolds, PTL DEF WirelessSpec, SuccessMeansLastSaved

-----------------------------------------------------------------------------
(***************************************************************************)
(* BisectDb: the trace of an OGM                                           *)
(***************************************************************************)
BsPassed == [prev : BsNodes, best : BOOLEAN]
BsReception == [node : BsNodes, neigh : BsNodes, prev : BsNodes]

\* The nodes of S passed on, unmarked, copies of nodes of S.
BsCircle(fwd, S) == \A n \in S : \E c \in fwd[n] : c.best /\ c.prev \in S

\* Copies passed on without the mark.
BsSteady(fwd) == \A n \in BsNodes : \A c, d \in fwd[n] : c.best /\ d.best => c = d

\* A node passes on copies that the neighbour had passed on without the mark; it
\* marks none but those of the originator.  While no route changes, no nodes
\* pass the OGM on in a circle.
BsFlowOf(fwd) ==
  /\ Flooded \in BsNodes /\ fwd \in [BsNodes -> SUBSET BsPassed]
  /\ \A c \in fwd[Flooded] : c.prev = Flooded
  /\ \A n \in BsNodes : \A c \in fwd[n] :
       (c.prev = Flooded \/ c.best) /\ \E d \in fwd[c.prev] : d.best
  /\ BsSteady(fwd) =>
       \A S \in SUBSET (BsNodes \ {Flooded}) : S # {} => ~BsCircle(fwd, S)
BsFlow == BsFlowOf(bsFwd)

\* What the logs say of a reception is what the neighbour did.
BsHeardOf ==
  \A e \in bsHeard :
    /\ e \in BsReception /\ e.node # e.neigh
    /\ \E c \in bsFwd[e.neigh] : c.prev = e.prev

\* A reception in the tree is under one it can be a child of; if no route
\* changes, it is a root only when there is none.
BsTreeOf ==
  /\ DOMAIN bsTree \subseteq bsHeard
  /\ \A e \in DOMAIN bsTree :
       bsTree[e] = Root \/ (bsTree[e] \in DOMAIN bsTree /\ IsChild(e, bsTree[e]))
  /\ RoutesSteady =>
       \A e, f \in DOMAIN bsTree : IsChild(e, f) => bsTree[e] # Root

BsTraceInv == BsFlow /\ BsHeardOf /\ BsTreeOf

LEMMA BsSteadyIs == RoutesSteady <=> BsSteady(bsFwd)
BY DEF RoutesSteady, BsSteady

\* No reception is its own child, and none is the root itself.
LEMMA BsNoSelf ==
  ASSUME BsHeardOf, NEW e \in bsHeard
  PROVE  ~IsChild(e, e) /\ e # Root
<1>1. e \in BsReception /\ e.node # e.neigh
  BY DEF BsHeardOf
<1> QED BY <1>1 DEF IsChild, Root, BsReception

\* A node passes on one more copy, of a neighbour that passed one on.
LEMMA BsPassesOn ==
  ASSUME NEW fwd, BsFlowOf(fwd), NEW m \in BsNodes \ {Flooded}, NEW n \in BsNodes, m # n,
         NEW best \in BOOLEAN, n = Flooded \/ best, \E d \in fwd[n] : d.best,
         NEW new, new = [fwd EXCEPT ![m] = @ \cup {[prev |-> n, best |-> best]}]
  PROVE  BsFlowOf(new)
<1> DEFINE k == [prev |-> n, best |-> best]
<1>1. k \in BsPassed /\ k.prev = n /\ k.best = best
  BY DEF BsPassed
<1>2. new = [fwd EXCEPT ![m] = @ \cup {k}]
  OBVIOUS
<1> HIDE DEF k
<1> HIDE DEF Flooded
<1>3. /\ Flooded \in BsNodes /\ fwd \in [BsNodes -> SUBSET BsPassed]
      /\ \A c \in fwd[Flooded] : c.prev = Flooded
      /\ \A x \in BsNodes : \A c \in fwd[x] :
           (c.prev = Flooded \/ c.best) /\ \E d \in fwd[c.prev] : d.best
  BY DEF BsFlowOf
<1>4. /\ new \in [BsNodes -> SUBSET BsPassed]
      /\ new[m] = fwd[m] \cup {k}
      /\ \A x \in BsNodes \ {m} : new[x] = fwd[x]
  BY <1>1, <1>2, <1>3
<1>5. \A x \in BsNodes : fwd[x] \subseteq new[x]
  BY <1>4
<1>6. \A c \in new[Flooded] : c.prev = Flooded
  BY <1>3, <1>4
<1>7. ASSUME NEW x \in BsNodes, NEW c \in new[x]
      PROVE  (c.prev = Flooded \/ c.best) /\ \E d \in new[c.prev] : d.best
  <2>1. (c.prev = Flooded \/ c.best) /\ c.prev \in BsNodes /\ \E d \in fwd[c.prev] : d.best
    <3>1. CASE c \in fwd[x]
      <4>1. c \in BsPassed
        BY <1>3, <3>1
      <4> QED BY <1>3, <3>1, <4>1 DEF BsPassed
    <3>2. CASE c = k
      BY <1>1, <3>2
    <3> QED BY <1>4, <1>7, <3>1, <3>2
  <2> QED BY <1>5, <2>1
<1>8. ASSUME BsSteady(new), NEW S \in SUBSET (BsNodes \ {Flooded}), S # {}, BsCircle(new, S)
      PROVE  FALSE
  <2>1. BsSteady(fwd)
    BY <1>5, <1>8 DEF BsSteady
  <2>2. \A Q \in SUBSET (BsNodes \ {Flooded}) : Q # {} => ~BsCircle(fwd, Q)
    BY <2>1 DEF BsFlowOf
  <2>3. PICK x \in S : \A c \in fwd[x] : ~(c.best /\ c.prev \in S)
    BY <1>8, <2>2 DEF BsCircle
  <2>4. PICK c \in new[x] : c.best /\ c.prev \in S
    BY <1>8 DEF BsCircle
  <2>5. x = m /\ c = k /\ x \in BsNodes
    BY <1>4, <1>8, <2>3, <2>4
  <2>6. k \in new[m] /\ k.best /\ n \in S /\ k \notin fwd[m] /\ m \in S
    BY <1>1, <1>4, <2>3, <2>4, <2>5
  <2>7. \A d \in fwd[m] : ~d.best
    BY <1>5, <1>8, <2>6 DEF BsSteady
  <2> DEFINE Q == S \ {m}
  <2>8. ASSUME NEW y \in Q PROVE \E d \in fwd[y] : d.best /\ d.prev \in Q
    <3>1. PICK d \in new[y] : d.best /\ d.prev \in S
      BY <1>8 DEF BsCircle
    <3>2. d \in fwd[y] /\ y \in BsNodes
      BY <1>4, <1>8, <3>1
    <3>3. \E e \in fwd[d.prev] : e.best
      BY <1>3, <3>2
    <3>4. d.prev # m
      BY <2>7, <3>3
    <3> QED BY <3>1, <3>2, <3>4
  <2>9. n \in Q
    BY <2>6
  <2> HIDE DEF Q
  <2>10. Q \in SUBSET (BsNodes \ {Flooded})
    BY <1>8 DEF Q
  <2>11. BsCircle(fwd, Q)
    BY <2>8 DEF BsCircle
  <2> QED BY <2>2, <2>9, <2>10, <2>11
<1> QED BY <1>3, <1>4, <1>6, <1>7, <1>8 DEF BsFlowOf

LEMMA BsOneCopy ==
  ASSUME NEW n, NEW best
  PROVE  [prev : {n}, best : {best}] = {[prev |-> n, best |-> best]}
<1>1. [prev |-> n, best |-> best] \in [prev : {n}, best : {best}]
  OBVIOUS
<1>2. ASSUME NEW c \in [prev : {n}, best : {best}]
      PROVE  c = [prev |-> n, best |-> best]
  <2>1. c = [prev |-> c.prev, best |-> c.best] /\ c.prev = n /\ c.best = best
    OBVIOUS
  <2> QED BY <2>1
<1> QED BY <1>1, <1>2

\* Before the OGM is sent only its originator has it.
LEMMA BsTraceInit == BisectDbInit => BsTraceInv
<1> SUFFICES ASSUME BisectDbInit PROVE BsTraceInv
  OBVIOUS
<1>1. Flooded \in BsNodes /\ NoHop \notin BsNodes
  BY BsAssumption DEF Flooded
<1>2. bsFwd = [n \in BsNodes |-> IF n = Flooded THEN {[prev |-> n, best |-> TRUE]} ELSE {}]
  BY DEF BisectDbInit
<1> HIDE DEF Flooded
<1>3. PICK own : own = [prev |-> Flooded, best |-> TRUE]
  OBVIOUS
<1>4. own \in BsPassed /\ own.prev = Flooded /\ own.best
  BY <1>1, <1>3 DEF BsPassed
<1>5. /\ bsFwd \in [BsNodes -> SUBSET BsPassed]
      /\ bsFwd[Flooded] = {own}
      /\ \A n \in BsNodes \ {Flooded} : bsFwd[n] = {}
  BY <1>1, <1>2, <1>3, <1>4
<1>6. \A S \in SUBSET (BsNodes \ {Flooded}) : S # {} => ~BsCircle(bsFwd, S)
  BY <1>5 DEF BsCircle
<1>7. BsFlow
  BY <1>1, <1>4, <1>5, <1>6 DEF BsFlow, BsFlowOf
<1>8. BsHeardOf
  BY DEF BisectDbInit, BsHeardOf
<1>9. DOMAIN bsTree = {}
  BY DEF BisectDbInit
<1> QED BY <1>7, <1>8, <1>9 DEF BsTraceInv, BsTreeOf

\* A node hears a copy, and may pass it on.
LEMMA BsHears ==
  ASSUME BsTraceInv, NEW m \in BsNodes, NEW n \in BsNodes, NEW c \in bsFwd[n],
         NEW passed \in {{}, {TRUE}, {FALSE}}, HearOgm(m, n, c, passed)
  PROVE  BsTraceInv'
<1> DEFINE e == [node |-> m, neigh |-> n, prev |-> c.prev]
<1>1. /\ m # n /\ bsHeard' = bsHeard \cup {e} /\ bsTree' = bsTree
      /\ passed # {} => m # Flooded /\ m # c.prev /\ c.best
      /\ FALSE \in passed => n = Flooded
      /\ bsFwd' = [bsFwd EXCEPT ![m] = @ \cup [prev : {n}, best : passed]]
  BY DEF HearOgm, batadv_iv_ogm_forward
<1> HIDE DEF Flooded
<1>2. bsFwd \in [BsNodes -> SUBSET BsPassed] /\ c \in BsPassed /\ BsFlowOf(bsFwd)
  BY DEF BsTraceInv, BsFlow, BsFlowOf
<1>3. BsFlowOf(bsFwd')
  <2>1. CASE passed = {}
    <3>1. [prev : {n}, best : passed] = {}
      BY <2>1
    <3>2. bsFwd' = bsFwd
      BY <1>1, <1>2, <3>1
    <3> QED BY <1>2, <3>2
  <2>2. ASSUME NEW best \in BOOLEAN, passed = {best} PROVE BsFlowOf(bsFwd')
    <3>1. [prev : {n}, best : passed] = {[prev |-> n, best |-> best]}
      BY <2>2, BsOneCopy
    <3>2. bsFwd' = [bsFwd EXCEPT ![m] = @ \cup {[prev |-> n, best |-> best]}]
      BY <1>1, <3>1
    <3>3. m \in BsNodes \ {Flooded} /\ (n = Flooded \/ best) /\ c.best
      BY <1>1, <2>2
    <3>4. \E d \in bsFwd[n] : d.best
      BY <3>3
    <3>5. \A new : new = [bsFwd EXCEPT ![m] = @ \cup {[prev |-> n, best |-> best]}] => BsFlowOf(new)
      BY <1>1, <1>2, <3>3, <3>4, BsPassesOn
    <3> QED BY <3>2, <3>5
  <2> QED BY <2>1, <2>2
<1>4. \A x \in BsNodes : bsFwd[x] \subseteq bsFwd'[x]
  BY <1>1, <1>2
<1>5. BsHeardOf'
  <2>1. ASSUME NEW f \in bsHeard
        PROVE  /\ f \in BsReception /\ f.node # f.neigh
               /\ \E d \in bsFwd'[f.neigh] : d.prev = f.prev
    <3>1. /\ f \in BsReception /\ f.node # f.neigh
          /\ \E d \in bsFwd[f.neigh] : d.prev = f.prev
      BY DEF BsTraceInv, BsHeardOf
    <3>2. f.neigh \in BsNodes
      BY <3>1 DEF BsReception
    <3> QED BY <1>4, <3>1, <3>2
  <2>2. e \in BsReception /\ e.node = m /\ e.neigh = n /\ e.prev = c.prev
    BY <1>2 DEF BsReception, BsPassed
  <2>3. e.node # e.neigh /\ \E d \in bsFwd'[e.neigh] : d.prev = e.prev
    BY <1>1, <1>4, <2>2
  <2> HIDE DEF e
  <2> QED BY <1>1, <2>1, <2>2, <2>3 DEF BsHeardOf
<1>6. BsTreeOf'
  <2>1. RoutesSteady' => RoutesSteady
    BY <1>4 DEF RoutesSteady
  <2> QED BY <1>1, <2>1 DEF BsTraceInv, BsTreeOf
<1> QED BY <1>3, <1>5, <1>6 DEF BsTraceInv, BsFlow

\* A circle of receptions would be a circle of nodes that pass the OGM on.
LEMMA BsNoCircle ==
  ASSUME BsTraceInv, RoutesSteady, NEW S \in SUBSET DOMAIN bsTree, S # {}
  PROVE  \E e \in S : bsTree[e] \notin S
<1> SUFFICES ASSUME \A e \in S : bsTree[e] \in S PROVE FALSE
  OBVIOUS
<1> HIDE DEF Flooded
<1> DEFINE N == {e.neigh : e \in S}
<1>1. \A e \in S : e \in bsHeard /\ bsTree[e] \in bsHeard /\ bsTree[e] \in S
  BY DEF BsTraceInv, BsTreeOf
<1>2. \A e \in S : bsTree[e].node = e.neigh /\ bsTree[e].neigh = e.prev
  <2>1. ASSUME NEW e \in S PROVE IsChild(e, bsTree[e])
    BY <1>1, <2>1, BsNoSelf DEF BsTraceInv, BsTreeOf
  <2> QED BY <2>1 DEF IsChild
<1>3. \A e \in S : /\ e.neigh \in BsNodes /\ e.node # e.neigh
                   /\ \E c \in bsFwd[e.neigh] : c.prev = e.prev
  BY <1>1 DEF BsTraceInv, BsHeardOf, BsReception
<1>4. /\ \A c \in bsFwd[Flooded] : c.prev = Flooded
      /\ \A n \in BsNodes : \A c \in bsFwd[n] : c.prev = Flooded \/ c.best
      /\ \A Q \in SUBSET (BsNodes \ {Flooded}) : Q # {} => ~BsCircle(bsFwd, Q)
  BY BsSteadyIs DEF BsTraceInv, BsFlow, BsFlowOf
<1>5. ASSUME NEW e \in S PROVE e.neigh # Flooded
  <2>1. e.neigh = Flooded => e.prev = Flooded
    BY <1>3, <1>4
  <2>2. bsTree[e].node # bsTree[e].neigh
    BY <1>1, <1>3
  <2> QED BY <1>2, <2>1, <2>2
<1>6. ASSUME NEW n \in N PROVE \E c \in bsFwd[n] : c.best /\ c.prev \in N
  <2>1. PICK e \in S : n = e.neigh
    OBVIOUS
  <2>2. PICK c \in bsFwd[n] : c.prev = e.prev
    BY <1>3, <2>1
  <2>3. e.prev \in N /\ e.prev = bsTree[e].neigh
    BY <1>1, <1>2
  <2>4. c.prev # Flooded
    BY <1>1, <1>5, <2>2, <2>3
  <2> QED BY <1>3, <1>4, <2>1, <2>2, <2>3, <2>4
<1>7. N # {} /\ N \subseteq BsNodes \ {Flooded}
  BY <1>3, <1>5
<1> HIDE DEF N
<1> QED BY <1>4, <1>6, <1>7 DEF BsCircle

\* So every reception is reached from the root.
LEMMA BsAllReached ==
  ASSUME BsTraceInv, RoutesSteady
  PROVE  Reached(bsTree) = DOMAIN bsTree
<1>1. ASSUME NEW S \in SUBSET DOMAIN bsTree, S # {} PROVE \E g \in S : bsTree[g] \notin S
  BY <1>1, BsNoCircle
<1> QED BY <1>1 DEF Reached

\* seqno_trace_add puts a reception under a parent and its children under it.
LEMMA BsAdds ==
  ASSUME BsTraceInv, NEW e \in bsHeard, seqno_trace_add(e)
  PROVE  BsTraceInv'
<1> DEFINE D == DOMAIN bsTree
           p == seqno_trace_find_neigh(bsTree, e)
<1>1. /\ e \notin D /\ bsFwd' = bsFwd /\ bsHeard' = bsHeard
      /\ DOMAIN bsTree' = D \cup {e}
      /\ \A f \in D : bsTree'[f] = IF bsTree[f] = Root /\ IsChild(f, e) THEN e ELSE bsTree[f]
      /\ bsTree'[e] = IF p = Root /\ IsChild(e, e) THEN e ELSE p
  BY DEF seqno_trace_add, seqno_trace_check_leaves
<1>2. /\ D \subseteq bsHeard
      /\ \A f \in D : bsTree[f] = Root \/ (bsTree[f] \in D /\ IsChild(f, bsTree[f]))
      /\ RoutesSteady => \A f, g \in D : IsChild(f, g) => bsTree[f] # Root
  BY DEF BsTraceInv, BsTreeOf
<1>3. BsFlow' /\ BsHeardOf' /\ (RoutesSteady' <=> RoutesSteady)
  BY <1>1 DEF BsTraceInv, BsFlow, BsHeardOf, RoutesSteady
<1>4. \A f \in bsHeard : ~IsChild(f, f) /\ f # Root
  BY BsNoSelf DEF BsTraceInv
<1>5. /\ p = Root \/ (p \in D /\ IsChild(e, p))
      /\ RoutesSteady => \A f \in D : IsChild(e, f) => p # Root
  <2> DEFINE found == {f \in Reached(bsTree) : IsChild(e, f)}
  <2>1. p = IF found = {} THEN Root ELSE CHOOSE f \in found : TRUE
    BY DEF seqno_trace_find_neigh
  <2>2. Reached(bsTree) \subseteq D /\ (RoutesSteady => Reached(bsTree) = D)
    BY BsAllReached DEF Reached
  <2>3. \A f \in found : f \in D /\ IsChild(e, f) /\ f # Root
    BY <1>2, <1>4, <2>2
  <2>4. found # {} => p \in found
    BY <2>1
  <2>5. RoutesSteady => \A f \in D : IsChild(e, f) => f \in found
    BY <2>2
  <2> HIDE DEF found, p, D
  <2>6. found = {} => p = Root
    BY <2>1
  <2> QED BY <2>3, <2>4, <2>5, <2>6
<1> HIDE DEF p, D
<1>6. bsTree'[e] = p
  BY <1>1, <1>4
<1>7. \A f \in D \cup {e} :
        bsTree'[f] = Root \/ (bsTree'[f] \in D \cup {e} /\ IsChild(f, bsTree'[f]))
  BY <1>1, <1>2, <1>5, <1>6
<1>8. ASSUME RoutesSteady, NEW f \in D \cup {e}, NEW g \in D \cup {e}, IsChild(f, g)
      PROVE  bsTree'[f] # Root
  <2>1. CASE f = e
    BY <1>4, <1>5, <1>6, <1>8, <2>1
  <2>2. CASE f \in D /\ g \in D
    BY <1>1, <1>2, <1>4, <1>8, <2>2
  <2>3. CASE f \in D /\ g = e
    BY <1>1, <1>2, <1>4, <1>8, <2>3
  <2> QED BY <1>8, <2>1, <2>2, <2>3
<1>9. (D \cup {e}) \subseteq bsHeard'
  BY <1>1, <1>2
<1> QED BY <1>1, <1>3, <1>7, <1>8, <1>9 DEF BsTraceInv, BsTreeOf

LEMMA BsTraceImplies == BsTraceInv => BisectTraceIsFlood
BY BsAllReached DEF BsTraceInv, BsTreeOf, BisectTraceIsFlood

-----------------------------------------------------------------------------
(***************************************************************************)
(* BisectDb: the routing table                                             *)
(***************************************************************************)
BsFlags == {"add", "update", "delete", "none"}
BsEntry == [orig : BsOrigs, next : BsNodes \cup {NoHop}, flag : BsFlags]

\* No originator has two entries that are not deleted.
BsOnce(t) ==
  \A i, j \in 1..Len(t) :
    ~Deleted(t[i]) /\ ~Deleted(t[j]) /\ t[i].orig = t[j].orig => i = j

\* The table t holds the routes r.
BsHolds(t, r) ==
  /\ t \in Seq(BsEntry) /\ BsOnce(t)
  /\ \A i \in 1..Len(t) :
       ~Deleted(t[i]) => r[t[i].orig] # NoHop /\ t[i].next = r[t[i].orig]
  /\ \A o \in BsOrigs : r[o] # NoHop => \E i \in 1..Len(t) : ~Deleted(t[i]) /\ t[i].orig = o

\* One step of the loop that copies the previous table
BsCopy(t, o, next, kind, kept, k) ==
  IF k = 0 THEN <<>>
  ELSE IF Deleted(t[k]) THEN kept[k - 1]
  ELSE Append(kept[k - 1], changed_entry(t[k], o, next, kind))

\* A set of numbers has a smallest one, so what holds of 0 and of each number
\* after one it holds of holds up to n.
LEMMA SmallestNumber ==
  ASSUME NEW T \in SUBSET Nat, T # {}
  PROVE  \E x \in T : \A y \in T : x <= y
<1> DEFINE R == {ss \in Nat \X Nat : ss[1] < ss[2]}
<1>1. IsWellFoundedOn(R, Nat)
  BY NatLessThanWellFounded DEF OpToRel
<1> HIDE DEF R
<1>2. PICK x \in T : \A y \in T : ~(<<y, x>> \in R)
  BY <1>1, WFMin
<1>3. \A y \in T : ~(y < x)
  BY <1>2 DEF R
<1> QED BY <1>3

LEMMA NumbersUpTo ==
  ASSUME NEW n \in Nat, NEW S, 0 \in S, \A i \in 0..(n - 1) : i \in S => i + 1 \in S
  PROVE  0..n \subseteq S
<1> SUFFICES ASSUME NEW m \in 0..n, m \notin S PROVE FALSE
  OBVIOUS
<1> DEFINE T == {i \in Nat : i <= n /\ i \notin S}
<1>1. m \in T /\ T \in SUBSET Nat
  OBVIOUS
<1>2. PICK x \in T : \A y \in T : x <= y
  BY <1>1, SmallestNumber
<1>3. x # 0 /\ x - 1 \in 0..(n - 1)
  OBVIOUS
<1>4. x - 1 \in S
  BY <1>2, <1>3
<1>5. (x - 1) + 1 \in S
  BY <1>3, <1>4
<1> QED BY <1>5

\* What is carried over is what the loop has after the last entry.
LEMMA BsCarriedIs ==
  ASSUME NEW t, NEW o, NEW next, NEW kind, Len(t) \in Nat
  PROVE  \E kept : /\ \A k \in 0..Len(t) : kept[k] = BsCopy(t, o, next, kind, kept, k)
                   /\ carried_over(t, o, next, kind) = kept[Len(t)]
<1> DEFINE n == Len(t)
           Step(G, k) == BsCopy(t, o, next, kind, G, k)
           Made(m) == \E G : G = [k \in 0..m |-> Step(G, k)]
           S == {m \in 0..n : Made(m)}
<1>0. ASSUME NEW G, NEW H, NEW k, k = 0 \/ G[k - 1] = H[k - 1]
      PROVE  Step(G, k) = Step(H, k)
  BY <1>0 DEF BsCopy
<1>1. 0 \in S
  <2> DEFINE H == [k \in 0..0 |-> <<>>]
  <2>1. H = [k \in 0..0 |-> Step(H, k)]
    BY DEF BsCopy
  <2> HIDE DEF H, Step
  <2> QED BY <2>1
<1> HIDE DEF Step
<1>2. ASSUME NEW m \in 0..(n - 1), m \in S
      PROVE  m + 1 \in S
  <2>1. PICK G : G = [k \in 0..m |-> Step(G, k)]
    BY <1>2
  <2> DEFINE H == [k \in 0..(m + 1) |-> IF k <= m THEN G[k] ELSE Step(G, k)]
  <2>2. ASSUME NEW k \in 0..(m + 1)
        PROVE  Step(G, k) = Step(H, k)
    <3>1. k = 0 \/ (k - 1 \in 0..(m + 1) /\ k - 1 <= m)
      OBVIOUS
    <3>2. k = 0 \/ H[k - 1] = G[k - 1]
      BY <3>1
    <3> HIDE DEF H
    <3> QED BY <1>0, <3>2
  <2>3. ASSUME NEW k \in 0..(m + 1)
        PROVE  H[k] = Step(H, k)
    <3>1. H[k] = Step(G, k)
      <4>1. CASE k <= m
        <5>1. k \in 0..m
          BY <4>1
        <5> HIDE DEF n
        <5>2. G[k] = Step(G, k)
          BY <2>1, <5>1
        <5> QED BY <4>1, <5>2
      <4>2. CASE ~(k <= m)
        BY <4>2
      <4> QED BY <4>1, <4>2
    <3> HIDE DEF H
    <3> QED BY <2>2, <3>1
  <2>4. H = [k \in 0..(m + 1) |-> H[k]]
    OBVIOUS
  <2>5. H = [k \in 0..(m + 1) |-> Step(H, k)]
    <3> HIDE DEF H
    <3> QED BY <2>3, <2>4
  <2>6. m + 1 \in 0..n
    OBVIOUS
  <2> QED BY <2>5, <2>6
<1>3. n \in S
  <2> HIDE DEF S
  <2>1. 0..n \subseteq S
    BY <1>1, <1>2, NumbersUpTo
  <2> QED BY <2>1
<1>4. PICK G : G = [k \in 0..n |-> Step(G, k)]
  BY <1>3
<1> DEFINE A == CHOOSE F : F = [k \in 0..n |-> Step(F, k)]
<1>5. A = [k \in 0..n |-> Step(A, k)]
  BY <1>4
<1>6. carried_over(t, o, next, kind) = A[n]
  BY DEF carried_over, BsCopy, Step
<1> HIDE DEF A
<1>7. \A k \in 0..n : A[k] = Step(A, k)
  BY <1>5
<1> QED BY <1>6, <1>7, Zenon DEF Step

\* What the loop has after k entries
BsKept(t, o, next, kind, c, k) ==
  /\ c \in Seq(BsEntry)
  /\ Len(c) = k - Cardinality({i \in 1..k : Deleted(t[i])})
  /\ \A i \in 1..Len(c) : \E j \in 1..k :
       ~Deleted(t[j]) /\ c[i] = changed_entry(t[j], o, next, kind)
  /\ \A j \in 1..k : ~Deleted(t[j]) =>
       \E i \in 1..Len(c) : c[i] = changed_entry(t[j], o, next, kind)
  /\ \A i, j \in 1..Len(c) : c[i].orig = c[j].orig => i = j

\* A changed entry stays with its originator.
LEMMA BsChangedIs ==
  ASSUME NEW e \in BsEntry, NEW o, NEW next \in BsNodes \cup {NoHop}, NEW kind \in BsFlags
  PROVE  LET x == changed_entry(e, o, next, kind)
         IN  /\ x \in BsEntry /\ x.orig = e.orig
             /\ e.orig # o => x.flag = "none" /\ x.next = e.next
             /\ e.orig = o => x.flag = kind /\ (kind # "delete" => x.next = next)
<1>1. "none" \in BsFlags
  BY DEF BsFlags
<1> HIDE DEF BsFlags
<1> QED BY <1>1 DEF changed_entry, BsEntry

\* The loop copies one entry, or leaves it out.
LEMMA BsCopies ==
  ASSUME NEW t \in Seq(BsEntry), BsOnce(t), NEW o, NEW next \in BsNodes \cup {NoHop},
         NEW kind \in BsFlags, NEW k \in 1..Len(t), NEW kept,
         BsKept(t, o, next, kind, kept[k - 1], k - 1)
  PROVE  BsKept(t, o, next, kind, BsCopy(t, o, next, kind, kept, k), k)
<1> DEFINE c == kept[k - 1]
           d == BsCopy(t, o, next, kind, kept, k)
           Dead(m) == {i \in 1..m : Deleted(t[i])}
<1>1. /\ Len(t) \in Nat /\ k \in Nat /\ k # 0 /\ k - 1 \in Nat
      /\ 1..k = (1..(k - 1)) \cup {k} /\ k \notin 1..(k - 1) /\ 1..k \subseteq 1..Len(t)
      /\ \A i \in 1..Len(t) : t[i] \in BsEntry
  OBVIOUS
<1>2. /\ c \in Seq(BsEntry)
      /\ Len(c) = (k - 1) - Cardinality(Dead(k - 1))
      /\ \A i \in 1..Len(c) : \E j \in 1..(k - 1) :
           ~Deleted(t[j]) /\ c[i] = changed_entry(t[j], o, next, kind)
      /\ \A j \in 1..(k - 1) : ~Deleted(t[j]) =>
           \E i \in 1..Len(c) : c[i] = changed_entry(t[j], o, next, kind)
      /\ \A i, j \in 1..Len(c) : c[i].orig = c[j].orig => i = j
  BY DEF BsKept
<1>3. IsFiniteSet(Dead(k - 1)) /\ Cardinality(Dead(k - 1)) \in Nat
  <2>1. IsFiniteSet(1..(k - 1)) /\ Dead(k - 1) \subseteq 1..(k - 1)
    BY <1>1, FS_Interval
  <2> QED BY <2>1, FS_Subset, FS_CardinalityType
<1>4. CASE Deleted(t[k])
  <2>1. d = c
    BY <1>1, <1>4 DEF BsCopy
  <2>2. Dead(k) = Dead(k - 1) \cup {k} /\ k \notin Dead(k - 1)
    BY <1>1, <1>4
  <2>3. Cardinality(Dead(k)) = Cardinality(Dead(k - 1)) + 1
    BY <1>3, <2>2, FS_AddElement
  <2>4. Len(c) = k - Cardinality(Dead(k))
    BY <1>1, <1>2, <1>3, <2>3
  <2> HIDE DEF c, d
  <2> QED BY <1>1, <1>2, <1>4, <2>1, <2>4 DEF BsKept, d
<1>5. CASE ~Deleted(t[k])
  <2> DEFINE x == changed_entry(t[k], o, next, kind)
  <2>1. d = Append(c, x)
    BY <1>1, <1>5 DEF BsCopy
  <2>2. Dead(k) = Dead(k - 1)
    BY <1>1, <1>5
  <2>3. \A j \in 1..k : /\ changed_entry(t[j], o, next, kind) \in BsEntry
                        /\ changed_entry(t[j], o, next, kind).orig = t[j].orig
    BY <1>1, BsChangedIs
  <2>4. x \in BsEntry /\ x.orig = t[k].orig
    BY <1>1, <2>3
  <2> HIDE DEF c, d, x, Dead
  <2>5. /\ d \in Seq(BsEntry) /\ Len(d) = Len(c) + 1 /\ Len(c) \in Nat /\ d[Len(c) + 1] = x
        /\ \A i \in 1..Len(c) : d[i] = c[i]
    BY <1>2, <2>1, <2>4
  <2>6. 1..Len(d) = (1..Len(c)) \cup {Len(c) + 1} /\ Len(c) + 1 \notin 1..Len(c)
    BY <2>5
  <2>7. Len(d) = k - Cardinality(Dead(k))
    BY <1>1, <1>2, <1>3, <2>2, <2>5
  <2>8. \A i \in 1..Len(d) : \E j \in 1..k :
           ~Deleted(t[j]) /\ d[i] = changed_entry(t[j], o, next, kind)
    <3>1. /\ k \in 1..k /\ ~Deleted(t[k])
          /\ d[Len(c) + 1] = changed_entry(t[k], o, next, kind)
      BY <1>1, <1>5, <2>5 DEF x
    <3>2. ASSUME NEW i \in 1..Len(c)
          PROVE  \E j \in 1..k : ~Deleted(t[j]) /\ d[i] = changed_entry(t[j], o, next, kind)
      <4>1. PICK j \in 1..(k - 1) : ~Deleted(t[j]) /\ c[i] = changed_entry(t[j], o, next, kind)
        BY <1>2
      <4>2. j \in 1..k /\ d[i] = c[i]
        BY <1>1, <2>5
      <4> QED BY <4>1, <4>2
    <3> QED BY <2>6, <3>1, <3>2
  <2>9. \A j \in 1..k : ~Deleted(t[j]) =>
           \E i \in 1..Len(d) : d[i] = changed_entry(t[j], o, next, kind)
    <3>1. Len(c) + 1 \in 1..Len(d) /\ d[Len(c) + 1] = changed_entry(t[k], o, next, kind)
      BY <2>5, <2>6 DEF x
    <3>2. ASSUME NEW j \in 1..(k - 1), ~Deleted(t[j])
          PROVE  \E i \in 1..Len(d) : d[i] = changed_entry(t[j], o, next, kind)
      <4>1. PICK i \in 1..Len(c) : c[i] = changed_entry(t[j], o, next, kind)
        BY <1>2, <3>2
      <4>2. i \in 1..Len(d) /\ d[i] = c[i]
        BY <2>5, <2>6
      <4> QED BY <4>1, <4>2
    <3> QED BY <1>1, <3>1, <3>2
  <2>10. \A i \in 1..Len(c) : c[i].orig # x.orig
    <3> TAKE i \in 1..Len(c)
    <3>1. PICK j \in 1..(k - 1) : ~Deleted(t[j]) /\ c[i] = changed_entry(t[j], o, next, kind)
      BY <1>2
    <3>2. c[i].orig = t[j].orig /\ j # k /\ j \in 1..Len(t) /\ k \in 1..Len(t)
      BY <1>1, <2>3, <3>1
    <3> QED BY <1>5, <2>4, <3>1, <3>2 DEF BsOnce
  <2>11. \A i, j \in 1..Len(d) : d[i].orig = d[j].orig => i = j
    BY <1>2, <2>5, <2>6, <2>10
  <2> QED BY <2>5, <2>7, <2>8, <2>9, <2>11 DEF BsKept, d, Dead
<1> QED BY <1>4, <1>5

\* What the loop has in the end, of a table without double entries.
LEMMA BsCarried ==
  ASSUME NEW t \in Seq(BsEntry), BsOnce(t), NEW o, NEW next \in BsNodes \cup {NoHop},
         NEW kind \in BsFlags
  PROVE  BsKept(t, o, next, kind, carried_over(t, o, next, kind), Len(t))
<1> DEFINE n == Len(t)
<1>1. n \in Nat
  OBVIOUS
<1>2. PICK kept : /\ \A k \in 0..n : kept[k] = BsCopy(t, o, next, kind, kept, k)
                  /\ carried_over(t, o, next, kind) = kept[n]
  BY <1>1, BsCarriedIs
<1> DEFINE S == {k \in 0..n : BsKept(t, o, next, kind, kept[k], k)}
<1>3. 0 \in S
  <2>1. kept[0] = <<>>
    BY <1>1, <1>2 DEF BsCopy
  <2>2. {i \in 1..0 : Deleted(t[i])} = {} /\ Cardinality({}) = 0
    BY FS_EmptySet
  <2>3. kept[0] \in Seq(BsEntry) /\ Len(kept[0]) = 0 /\ 1..0 = {}
    BY <2>1
  <2>4. Len(kept[0]) = 0 - Cardinality({i \in 1..0 : Deleted(t[i])})
    BY <2>2, <2>3
  <2> QED BY <1>1, <2>3, <2>4 DEF BsKept
<1>4. ASSUME NEW k \in 0..(n - 1), k \in S PROVE k + 1 \in S
  <2>1. k + 1 \in 1..n /\ k + 1 \in 0..n /\ (k + 1) - 1 = k
    BY <1>1
  <2>2. BsKept(t, o, next, kind, kept[(k + 1) - 1], (k + 1) - 1)
    BY <1>4, <2>1
  <2>3. BsKept(t, o, next, kind, BsCopy(t, o, next, kind, kept, k + 1), k + 1)
    BY <2>1, <2>2, BsCopies
  <2> QED BY <1>2, <2>1, <2>3
<1> HIDE DEF S
<1>5. 0..n \subseteq S
  BY <1>1, <1>3, <1>4, NumbersUpTo
<1>6. n \in S
  BY <1>1, <1>5
<1> QED BY <1>2, <1>6 DEF S

\* What the new table T is, after the old one
BsNews(t, T, o, next, kind) ==
  /\ T \in Seq(BsEntry)
  /\ \A i \in 1..Len(T) :
       \/ T[i].orig = o /\ T[i].flag = kind /\ (kind # "delete" => T[i].next = next)
       \/ /\ T[i].orig # o /\ T[i].flag = "none"
          /\ \E j \in 1..Len(t) :
               ~Deleted(t[j]) /\ T[i].orig = t[j].orig /\ T[i].next = t[j].next
  /\ \A j \in 1..Len(t) :
       ~Deleted(t[j]) /\ t[j].orig # o => \E i \in 1..Len(T) : T[i].orig = t[j].orig
  /\ \E i \in 1..Len(T) : T[i].orig = o
  /\ \A i, j \in 1..Len(T) : T[i].orig = T[j].orig => i = j

\* Such a table holds the routes after the change, if the old one held those
\* before it.
LEMMA BsNewsHold ==
  ASSUME NEW t, NEW r \in [BsOrigs -> BsNodes \cup {NoHop}], BsHolds(t, r),
         NEW o \in BsOrigs, NEW next \in BsNodes \cup {NoHop},
         NEW kind \in {"add", "update", "delete"}, kind = "delete" <=> next = NoHop,
         NEW T, BsNews(t, T, o, next, kind)
  PROVE  BsHolds(T, [r EXCEPT ![o] = next])
<1> DEFINE q == [r EXCEPT ![o] = next]
<1>1. q[o] = next /\ \A p \in BsOrigs \ {o} : q[p] = r[p]
  OBVIOUS
<1>2. /\ T \in Seq(BsEntry) /\ Len(T) \in Nat /\ \A i \in 1..Len(T) : T[i] \in BsEntry
      /\ t \in Seq(BsEntry) /\ \A i \in 1..Len(t) : t[i] \in BsEntry
  BY DEF BsNews, BsHolds
<1>3. /\ \A i \in 1..Len(T) : T[i].orig \in BsOrigs
      /\ \A i \in 1..Len(t) : t[i].orig \in BsOrigs
  BY <1>2 DEF BsEntry
<1> HIDE DEF q
<1>4. BsOnce(T)
  BY DEF BsNews, BsOnce
<1>5. ASSUME NEW i \in 1..Len(T), ~Deleted(T[i])
      PROVE  q[T[i].orig] # NoHop /\ T[i].next = q[T[i].orig]
  <2>1. CASE T[i].orig = o
    <3>1. T[i].flag = kind /\ (kind # "delete" => T[i].next = next)
      BY <2>1 DEF BsNews
    <3> QED BY <1>1, <1>5, <2>1, <3>1 DEF Deleted
  <2>2. CASE T[i].orig # o
    <3>1. PICK j \in 1..Len(t) :
            ~Deleted(t[j]) /\ T[i].orig = t[j].orig /\ T[i].next = t[j].next
      BY <2>2 DEF BsNews
    <3>2. r[t[j].orig] # NoHop /\ t[j].next = r[t[j].orig]
      BY <3>1 DEF BsHolds
    <3> QED BY <1>1, <1>3, <2>2, <3>1, <3>2
  <2> QED BY <2>1, <2>2
<1>6. ASSUME NEW p \in BsOrigs, q[p] # NoHop
      PROVE  \E i \in 1..Len(T) : ~Deleted(T[i]) /\ T[i].orig = p
  <2>1. CASE p = o
    <3>1. PICK i \in 1..Len(T) : T[i].orig = o
      BY DEF BsNews
    <3>2. T[i].flag = kind /\ kind # "delete"
      BY <1>1, <1>6, <2>1, <3>1 DEF BsNews
    <3> QED BY <2>1, <3>1, <3>2 DEF Deleted
  <2>2. CASE p # o
    <3>1. r[p] # NoHop
      BY <1>1, <1>6, <2>2
    <3>2. PICK j \in 1..Len(t) : ~Deleted(t[j]) /\ t[j].orig = p
      BY <3>1 DEF BsHolds
    <3>3. PICK i \in 1..Len(T) : T[i].orig = p
      BY <2>2, <3>2 DEF BsNews
    <3>4. T[i].flag = "none"
      BY <2>2, <3>3 DEF BsNews
    <3> QED BY <3>3, <3>4 DEF Deleted
  <2> QED BY <2>1, <2>2
<1>7. BsHolds(T, q)
  BY <1>2, <1>4, <1>5, <1>6 DEF BsHolds
<1> QED BY <1>7 DEF q

\* A route that is there is changed or deleted: room for as many entries as
\* were copied.
LEMMA BsChanges ==
  ASSUME NEW t, NEW r \in [BsOrigs -> BsNodes \cup {NoHop}], BsHolds(t, r),
         NEW o \in BsOrigs, NEW next \in BsNodes \cup {NoHop},
         NEW kind \in {"update", "delete"}, r[o] # NoHop
  PROVE  HasEntry(t, o) /\ t # <<>> /\ BsNews(t, new_entries(t, o, next, kind), o, next, kind)
<1> DEFINE c == carried_over(t, o, next, kind)
           dead == Cardinality({i \in DOMAIN t : Deleted(t[i])})
           num == num_entries(t, o, kind) - dead
           made == [orig |-> o, next |-> next, flag |-> kind]
           T == new_entries(t, o, next, kind)
<1>1. /\ t \in Seq(BsEntry) /\ BsOnce(t) /\ Len(t) \in Nat /\ DOMAIN t = 1..Len(t)
      /\ \A i \in 1..Len(t) : t[i] \in BsEntry
  BY DEF BsHolds
<1>2. PICK h \in 1..Len(t) : ~Deleted(t[h]) /\ t[h].orig = o
  BY DEF BsHolds
<1>3. HasEntry(t, o) /\ t # <<>>
  BY <1>1, <1>2 DEF HasEntry
<1>4. kind \in BsFlags
  BY DEF BsFlags
<1>5. BsKept(t, o, next, kind, c, Len(t))
  BY <1>1, <1>4, BsCarried
<1>6. num_entries(t, o, kind) = Len(t)
  BY <1>3 DEF num_entries
<1>7. num = Len(c)
  BY <1>1, <1>5, <1>6 DEF BsKept
<1>8. /\ c \in Seq(BsEntry) /\ Len(c) \in Nat /\ DOMAIN c = 1..Len(c)
      /\ c = [i \in 1..Len(c) |-> c[i]]
  BY <1>5 DEF BsKept
<1>9. T = IF num = 1 \/ num # Len(c)
          THEN [i \in 1 .. num |-> IF i = num THEN made ELSE c[i]] ELSE c
  BY DEF new_entries
<1>10. made \in BsEntry /\ made.orig = o /\ made.flag = kind /\ made.next = next
  BY <1>4 DEF BsEntry
<1> HIDE DEF c, dead, num, made, T
<1>11. \A j \in 1..Len(t) :
         LET x == changed_entry(t[j], o, next, kind)
         IN  /\ x \in BsEntry /\ x.orig = t[j].orig
             /\ t[j].orig # o => x.flag = "none" /\ x.next = t[j].next
             /\ t[j].orig = o => x.flag = kind /\ (kind # "delete" => x.next = next)
  BY <1>1, <1>4, BsChangedIs
<1>12. PICK g \in 1..Len(c) : c[g].orig = o
  BY <1>2, <1>5, <1>11 DEF BsKept
<1>13. /\ T \in Seq(BsEntry) /\ Len(T) = Len(c)
       /\ \A i \in 1..Len(T) : T[i] = c[i] \/ (T[i] = made /\ c[i].orig = o)
  <2>1. CASE num = 1
    <3>1. T = [i \in 1..1 |-> made] /\ Len(c) = 1 /\ g = 1
      BY <1>7, <1>9, <1>12, <2>1
    <3>2. T \in Seq(BsEntry) /\ Len(T) = 1 /\ \A i \in 1..1 : T[i] = made
      BY <1>10, <3>1
    <3> QED BY <1>12, <3>1, <3>2
  <2>2. CASE num # 1
    BY <1>7, <1>8, <1>9, <2>2
  <2> QED BY <2>1, <2>2
<1>14. \A i \in 1..Len(T) : T[i].orig = c[i].orig
  BY <1>10, <1>13
<1>15. \A i \in 1..Len(T) :
         \/ T[i].orig = o /\ T[i].flag = kind /\ (kind # "delete" => T[i].next = next)
         \/ /\ T[i].orig # o /\ T[i].flag = "none"
            /\ \E j \in 1..Len(t) :
                 ~Deleted(t[j]) /\ T[i].orig = t[j].orig /\ T[i].next = t[j].next
  <2> TAKE i \in 1..Len(T)
  <2>1. CASE T[i] = made
    BY <1>10, <2>1
  <2>2. CASE T[i] = c[i]
    <3>1. PICK j \in 1..Len(t) :
            ~Deleted(t[j]) /\ c[i] = changed_entry(t[j], o, next, kind)
      BY <1>5, <1>13 DEF BsKept
    <3> QED BY <1>11, <2>2, <3>1
  <2> QED BY <1>13, <2>1, <2>2
<1>16. \A j \in 1..Len(t) :
         ~Deleted(t[j]) /\ t[j].orig # o => \E i \in 1..Len(T) : T[i].orig = t[j].orig
  <2> TAKE j \in 1..Len(t)
  <2> HAVE ~Deleted(t[j]) /\ t[j].orig # o
  <2>1. PICK i \in 1..Len(c) : c[i] = changed_entry(t[j], o, next, kind)
    BY <1>5 DEF BsKept
  <2>2. i \in 1..Len(T) /\ T[i].orig = c[i].orig
    BY <1>13, <1>14
  <2> QED BY <1>11, <2>1, <2>2
<1>17. \E i \in 1..Len(T) : T[i].orig = o
  BY <1>12, <1>13, <1>14
<1>18. \A i, j \in 1..Len(T) : T[i].orig = T[j].orig => i = j
  BY <1>5, <1>13, <1>14 DEF BsKept
<1> QED BY <1>3, <1>13, <1>15, <1>16, <1>17, <1>18 DEF BsNews, T

\* A route that is not there is added: room for one entry more than
\* was copied.
LEMMA BsAddsRoute ==
  ASSUME NEW t, NEW r \in [BsOrigs -> BsNodes \cup {NoHop}], BsHolds(t, r),
         NEW o \in BsOrigs, NEW next \in BsNodes \cup {NoHop}, r[o] = NoHop
  PROVE  BsNews(t, new_entries(t, o, next, "add"), o, next, "add")
<1> DEFINE kind == "add"
           c == carried_over(t, o, next, kind)
           dead == Cardinality({i \in DOMAIN t : Deleted(t[i])})
           num == num_entries(t, o, kind) - dead
           made == [orig |-> o, next |-> next, flag |-> kind]
           T == new_entries(t, o, next, kind)
<1>1. /\ t \in Seq(BsEntry) /\ BsOnce(t) /\ Len(t) \in Nat /\ DOMAIN t = 1..Len(t)
      /\ \A i \in 1..Len(t) : t[i] \in BsEntry
  BY DEF BsHolds
<1>2. kind \in BsFlags
  BY DEF BsFlags
<1>3. BsKept(t, o, next, kind, c, Len(t))
  BY <1>1, <1>2, BsCarried
<1>4. num_entries(t, o, kind) = Len(t) + 1
  <2>1. t = <<>> => Len(t) = 0
    OBVIOUS
  <2> QED BY <2>1 DEF num_entries
<1>5. /\ c \in Seq(BsEntry) /\ Len(c) \in Nat /\ \A i \in 1..Len(c) : c[i] \in BsEntry
  BY <1>3 DEF BsKept
<1>6. Len(c) = Len(t) - dead
  BY <1>1, <1>3 DEF BsKept
<1>7. IsFiniteSet(1..Len(t)) /\ {i \in DOMAIN t : Deleted(t[i])} \subseteq 1..Len(t)
  BY <1>1, FS_Interval
<1>8. dead \in Nat
  BY <1>7, FS_Subset, FS_CardinalityType
<1>9. num = Len(c) + 1 /\ num # Len(c)
  <2> HIDE DEF dead, c
  <2> QED BY <1>1, <1>4, <1>5, <1>6, <1>8
<1>10. T = IF num = 1 \/ num # Len(c)
           THEN [i \in 1 .. num |-> IF i = num THEN made ELSE c[i]] ELSE c
  BY DEF new_entries
<1>11. made \in BsEntry /\ made.orig = o /\ made.flag = kind /\ made.next = next
  BY <1>2 DEF BsEntry
<1>12. \A j \in 1..Len(t) : ~Deleted(t[j]) => t[j].orig # o
  BY DEF BsHolds
<1>13. \A j \in 1..Len(t) :
         LET x == changed_entry(t[j], o, next, kind)
         IN  /\ x \in BsEntry /\ x.orig = t[j].orig
             /\ t[j].orig # o => x.flag = "none" /\ x.next = t[j].next
  BY <1>1, <1>2, BsChangedIs
<1> HIDE DEF c, dead, num, made, T, kind
<1>14. T = [i \in 1..(Len(c) + 1) |-> IF i = Len(c) + 1 THEN made ELSE c[i]]
  BY <1>9, <1>10
<1>15. /\ T \in Seq(BsEntry) /\ Len(T) = Len(c) + 1 /\ T[Len(c) + 1] = made
       /\ \A i \in 1..Len(c) : T[i] = c[i]
       /\ 1..Len(T) = (1..Len(c)) \cup {Len(c) + 1}
  <2>1. \A i \in 1..(Len(c) + 1) : (IF i = Len(c) + 1 THEN made ELSE c[i]) \in BsEntry
    BY <1>5, <1>11
  <2>2. T \in [1..(Len(c) + 1) -> BsEntry]
    BY <1>14, <2>1
  <2>3. T \in Seq(BsEntry) /\ Len(T) = Len(c) + 1
    BY <1>5, <2>2
  <2>4. \A i \in 1..Len(c) : i \in 1..(Len(c) + 1) /\ i # Len(c) + 1
    BY <1>5
  <2>5. Len(c) + 1 \in 1..(Len(c) + 1) /\ 1..(Len(c) + 1) = (1..Len(c)) \cup {Len(c) + 1}
    BY <1>5
  <2> QED BY <1>14, <2>3, <2>4, <2>5
<1>16. ASSUME NEW i \in 1..Len(c)
       PROVE  /\ c[i].orig # o /\ c[i].flag = "none"
              /\ \E j \in 1..Len(t) :
                   ~Deleted(t[j]) /\ c[i].orig = t[j].orig /\ c[i].next = t[j].next
  <2>1. PICK j \in 1..Len(t) : ~Deleted(t[j]) /\ c[i] = changed_entry(t[j], o, next, kind)
    BY <1>3 DEF BsKept
  <2> QED BY <1>12, <1>13, <2>1
<1>17. \A j \in 1..Len(t) : ~Deleted(t[j]) => \E i \in 1..Len(T) : T[i].orig = t[j].orig
  <2> TAKE j \in 1..Len(t)
  <2> HAVE ~Deleted(t[j])
  <2>1. PICK i \in 1..Len(c) : c[i] = changed_entry(t[j], o, next, kind)
    BY <1>3 DEF BsKept
  <2> QED BY <1>13, <1>15, <2>1
<1>18. \E i \in 1..Len(T) : T[i].orig = o
  BY <1>11, <1>15
<1>19. \A i, j \in 1..Len(T) : T[i].orig = T[j].orig => i = j
  <2>1. \A i, j \in 1..Len(c) : c[i].orig = c[j].orig => i = j
    BY <1>3 DEF BsKept
  <2> QED BY <1>11, <1>15, <1>16, <2>1
<1>20. \A i \in 1..Len(T) :
         \/ T[i].orig = o /\ T[i].flag = kind /\ (kind # "delete" => T[i].next = next)
         \/ /\ T[i].orig # o /\ T[i].flag = "none"
            /\ \E j \in 1..Len(t) :
                 ~Deleted(t[j]) /\ T[i].orig = t[j].orig /\ T[i].next = t[j].next
  BY <1>11, <1>15, <1>16
<1> QED BY <1>15, <1>17, <1>18, <1>19, <1>20 DEF BsNews, T, kind

-----------------------------------------------------------------------------
(* The lines of the logs *)
BsEvent == [neigh : BsNodes \cup {NoHop}, seqno : Int, hist : Nat]
BsChange == [next : BsNodes \cup {NoHop}, seqno : Int, flag : BsFlags]

BsDbTyped ==
  /\ bsEvents \in [BsNodes -> [BsOrigs -> Seq(BsEvent)]]
  /\ bsHist \in [BsNodes -> [BsOrigs -> Seq(BsChange)]]
  /\ bsTable \in [BsNodes -> Seq(BsEntry)]
  /\ bsRoute \in [BsNodes -> [BsOrigs -> BsNodes \cup {NoHop}]]

\* The table of each node holds its routes, and there is no route to an
\* originator of which no OGM was logged.
BsRoutesInv ==
  /\ \A n \in BsNodes : BsHolds(bsTable[n], bsRoute[n])
  /\ \A n \in BsNodes, o \in BsOrigs : bsRoute[n][o] # NoHop => bsEvents[n][o] # <<>>

BsLogInv == BsDbTyped /\ BsRoutesInv

\* Nothing was logged.
LEMMA BsLogInit == BisectDbInit => BsLogInv
<1> SUFFICES ASSUME BisectDbInit PROVE BsLogInv
  OBVIOUS
<1>1. BsDbTyped
  BY DEF BisectDbInit, BsDbTyped
<1>2. ASSUME NEW n \in BsNodes PROVE BsHolds(bsTable[n], bsRoute[n])
  <2>1. bsTable[n] = <<>> /\ \A o \in BsOrigs : bsRoute[n][o] = NoHop
    BY DEF BisectDbInit
  <2>2. bsTable[n] \in Seq(BsEntry) /\ 1..Len(bsTable[n]) = {}
    BY <2>1
  <2> QED BY <2>1, <2>2 DEF BsHolds, BsOnce
<1>3. \A n \in BsNodes, o \in BsOrigs : bsRoute[n][o] = NoHop
  BY DEF BisectDbInit
<1> QED BY <1>1, <1>2, <1>3 DEF BsLogInv, BsRoutesInv

\* One list of a database of lists is changed.
BsWith(d, n, o, x) == [d EXCEPT ![n][o] = x]

LEMMA BsOneList ==
  ASSUME NEW T, NEW d \in [BsNodes -> [BsOrigs -> T]], NEW n \in BsNodes, NEW o \in BsOrigs,
         NEW x \in T
  PROVE  /\ BsWith(d, n, o, x) \in [BsNodes -> [BsOrigs -> T]]
         /\ \A m \in BsNodes \ {n} : BsWith(d, n, o, x)[m] = d[m]
         /\ BsWith(d, n, o, x)[n] = [d[n] EXCEPT ![o] = x]
         /\ \A m \in BsNodes, p \in BsOrigs :
              BsWith(d, n, o, x)[m][p] = IF m = n /\ p = o THEN x ELSE d[m][p]
  BY DEF BsWith

\* A list that was appended to is not empty.
LEMMA BsAppended ==
  ASSUME NEW S, NEW q \in Seq(S), NEW x \in S
  PROVE  Append(q, x) \in Seq(S) /\ Append(q, x) # <<>>
<1>1. Append(q, x) \in Seq(S) /\ Len(Append(q, x)) = Len(q) + 1 /\ Len(q) \in Nat
  OBVIOUS
<1>2. Len(<<>>) = 0
  OBVIOUS
<1> QED BY <1>1, <1>2

\* A line about a received OGM changes no route.
LEMMA BsReceives ==
  ASSUME BsLogInv, NEW n \in BsNodes, NEW m \in BsNodes, NEW o \in BsOrigs, NEW s \in BsSeqs,
         LogReceived(n, o, m, s)
  PROVE  BsLogInv'
<1> DEFINE x == Append(bsEvents[n][o], [neigh |-> m, seqno |-> s, hist |-> NoHist])
<1>1. /\ bsEvents' = BsWith(bsEvents, n, o, x)
      /\ bsHist' = bsHist /\ bsTable' = bsTable /\ bsRoute' = bsRoute
  BY DEF LogReceived, seqno_event_new, BsWith
<1>2. bsEvents \in [BsNodes -> [BsOrigs -> Seq(BsEvent)]] /\ bsEvents[n][o] \in Seq(BsEvent)
  BY DEF BsLogInv, BsDbTyped
<1>3. [neigh |-> m, seqno |-> s, hist |-> NoHist] \in BsEvent
  BY BsAssumption DEF BsEvent, NoHist
<1>4. x \in Seq(BsEvent) /\ x # <<>>
  BY <1>2, <1>3, BsAppended
<1> HIDE DEF x
<1>5. /\ bsEvents' \in [BsNodes -> [BsOrigs -> Seq(BsEvent)]]
      /\ \A k \in BsNodes, p \in BsOrigs :
           bsEvents'[k][p] = IF k = n /\ p = o THEN x ELSE bsEvents[k][p]
  <2>1. x \in Seq(BsEvent) /\ bsEvents \in [BsNodes -> [BsOrigs -> Seq(BsEvent)]]
    BY <1>2, <1>4
  <2>2. /\ BsWith(bsEvents, n, o, x) \in [BsNodes -> [BsOrigs -> Seq(BsEvent)]]
        /\ \A k \in BsNodes, p \in BsOrigs :
              BsWith(bsEvents, n, o, x)[k][p] = IF k = n /\ p = o THEN x ELSE bsEvents[k][p]
    <3> DEFINE ES == Seq(BsEvent)
    <3>1. PICK d \in [BsNodes -> [BsOrigs -> ES]] : d = bsEvents
      BY <2>1
    <3>2. x \in ES
      BY <2>1
    <3> HIDE DEF ES
    <3>3. BsWith(d, n, o, x) \in [BsNodes -> [BsOrigs -> ES]]
      BY <3>1, <3>2, BsOneList
    <3>4. ASSUME NEW k \in BsNodes, NEW p \in BsOrigs
          PROVE  BsWith(d, n, o, x)[k][p] = IF k = n /\ p = o THEN x ELSE d[k][p]
      <4>1. d \in [BsNodes -> [BsOrigs -> ES]]
        BY <3>1
      <4>2. PICK y : y = x
        OBVIOUS
      <4>3. BsWith(d, n, o, y)[k][p] = IF k = n /\ p = o THEN y ELSE d[k][p]
        BY <4>1 DEF BsWith
      <4> QED BY <4>2, <4>3
    <3> QED BY <3>1, <3>3, <3>4 DEF ES
  <2> QED BY <1>1, <2>2
<1>6. BsDbTyped'
  BY <1>1, <1>5 DEF BsLogInv, BsDbTyped
<1>7. BsRoutesInv'
  <2>1. \A k \in BsNodes : BsHolds(bsTable'[k], bsRoute'[k])
    BY <1>1 DEF BsLogInv, BsRoutesInv
  <2>2. \A k \in BsNodes, p \in BsOrigs : bsRoute'[k][p] # NoHop => bsEvents'[k][p] # <<>>
    BY <1>1, <1>4, <1>5 DEF BsLogInv, BsRoutesInv
  <2> QED BY <2>1, <2>2 DEF BsRoutesInv
<1> QED BY <1>6, <1>7 DEF BsLogInv

\* A change of a route, of a kind that fits what was there.
LEMMA BsRoutes ==
  ASSUME BsLogInv, NEW n \in BsNodes, NEW o \in BsOrigs,
         NEW next \in BsNodes \cup {NoHop}, NEW kind \in {"add", "update", "delete"},
         kind = "delete" <=> next = NoHop, kind = "add" <=> bsRoute[n][o] = NoHop,
         bsEvents[n][o] # <<>>, routing_table_new(n, o, next, kind),
         bsRoute' = [bsRoute EXCEPT ![n][o] = next]
  PROVE  BsLogInv'
<1> DEFINE t == bsTable[n]
           r == bsRoute[n]
           timeout == kind = "delete" /\ t # <<>>
           ev == bsEvents[n][o]
           events == IF timeout
                     THEN Append(ev, [neigh |-> NoHop, seqno |-> Timeout, hist |-> NoHist])
                     ELSE ev
           hist == Append(bsHist[n][o],
                          [next |-> next, seqno |-> events[Len(events)].seqno, flag |-> kind])
           seen == [events EXCEPT ![Len(events)].hist = Len(hist)]
           T == new_entries(t, o, next, kind)
<1>1. /\ bsEvents \in [BsNodes -> [BsOrigs -> Seq(BsEvent)]] /\ ev \in Seq(BsEvent)
      /\ bsHist \in [BsNodes -> [BsOrigs -> Seq(BsChange)]] /\ bsHist[n][o] \in Seq(BsChange)
      /\ bsTable \in [BsNodes -> Seq(BsEntry)]
      /\ bsRoute \in [BsNodes -> [BsOrigs -> BsNodes \cup {NoHop}]]
      /\ r \in [BsOrigs -> BsNodes \cup {NoHop}]
      /\ BsHolds(t, r)
  BY DEF BsLogInv, BsDbTyped, BsRoutesInv
<1>2. (kind # "add" => HasEntry(t, o)) /\ BsNews(t, T, o, next, kind)
  <2>1. CASE kind = "add"
    BY <1>1, <2>1, BsAddsRoute
  <2>2. CASE kind # "add"
    <3>1. kind \in {"update", "delete"} /\ r[o] # NoHop
      BY <2>2
    <3> HIDE DEF t, r
    <3> QED BY <1>1, <3>1, BsChanges
  <2> QED BY <2>1, <2>2
<1>3. /\ bsTable' = [bsTable EXCEPT ![n] = T]
      /\ bsHist' = BsWith(bsHist, n, o, hist)
      /\ bsEvents' = BsWith(bsEvents, n, o, seen)
  BY <1>2 DEF routing_table_new, BsWith
<1>4. BsHolds(T, [r EXCEPT ![o] = next])
  BY <1>1, <1>2, BsNewsHold
<1>5. T \in Seq(BsEntry)
  BY <1>2 DEF BsNews
<1>6. events \in Seq(BsEvent) /\ events # <<>>
  <2>1. [neigh |-> NoHop, seqno |-> Timeout, hist |-> NoHist] \in BsEvent
    BY DEF BsEvent, Timeout, NoHist
  <2> HIDE DEF ev
  <2>2. CASE timeout
    BY <1>1, <2>1, <2>2, BsAppended
  <2>3. CASE ~timeout
    BY <1>1, <2>3 DEF ev
  <2> QED BY <2>2, <2>3
<1> HIDE DEF T, events, t, r, ev
<1>7. /\ Len(events) \in 1..Len(events) /\ Len(events) \in Nat
      /\ \A i \in 1..Len(events) : events[i] \in BsEvent
      /\ events \in [1..Len(events) -> BsEvent]
  BY <1>6
<1>8. hist \in Seq(BsChange) /\ Len(hist) \in Nat
  <2>1. [next |-> next, seqno |-> events[Len(events)].seqno, flag |-> kind] \in BsChange
    BY <1>7 DEF BsChange, BsEvent, BsFlags
  <2>2. hist \in Seq(BsChange)
    BY <1>1, <2>1, BsAppended
  <2> QED BY <2>2
<1> HIDE DEF hist
<1>9. seen \in Seq(BsEvent) /\ seen # <<>>
  <2>1. PICK e : e = events[Len(events)]
    OBVIOUS
  <2>2. [e EXCEPT !.hist = Len(hist)] \in BsEvent
    BY <1>7, <1>8, <2>1 DEF BsEvent
  <2>3. seen = [events EXCEPT ![Len(events)] = [e EXCEPT !.hist = Len(hist)]]
    BY <2>1
  <2>4. seen \in [1..Len(events) -> BsEvent]
    BY <1>7, <2>2, <2>3
  <2>5. seen \in Seq(BsEvent) /\ Len(seen) = Len(events)
    BY <1>7, <2>4
  <2> HIDE DEF seen
  <2> QED BY <1>7, <2>5
<1> HIDE DEF seen
<1>10. /\ bsEvents' \in [BsNodes -> [BsOrigs -> Seq(BsEvent)]]
       /\ \A k \in BsNodes, p \in BsOrigs :
            bsEvents'[k][p] = IF k = n /\ p = o THEN seen ELSE bsEvents[k][p]
  <2>1. seen \in Seq(BsEvent) /\ bsEvents \in [BsNodes -> [BsOrigs -> Seq(BsEvent)]]
    BY <1>1, <1>9
  <2>2. /\ BsWith(bsEvents, n, o, seen) \in [BsNodes -> [BsOrigs -> Seq(BsEvent)]]
        /\ \A k \in BsNodes, p \in BsOrigs :
              BsWith(bsEvents, n, o, seen)[k][p] = IF k = n /\ p = o THEN seen ELSE bsEvents[k][p]
    <3> DEFINE ES == Seq(BsEvent)
    <3>1. PICK d \in [BsNodes -> [BsOrigs -> ES]] : d = bsEvents
      BY <2>1
    <3>2. seen \in ES
      BY <2>1
    <3> HIDE DEF ES
    <3>3. BsWith(d, n, o, seen) \in [BsNodes -> [BsOrigs -> ES]]
      BY <3>1, <3>2, BsOneList
    <3>4. ASSUME NEW k \in BsNodes, NEW p \in BsOrigs
          PROVE  BsWith(d, n, o, seen)[k][p] = IF k = n /\ p = o THEN seen ELSE d[k][p]
      <4>1. d \in [BsNodes -> [BsOrigs -> ES]]
        BY <3>1
      <4>2. PICK y : y = seen
        OBVIOUS
      <4>3. BsWith(d, n, o, y)[k][p] = IF k = n /\ p = o THEN y ELSE d[k][p]
        BY <4>1 DEF BsWith
      <4> QED BY <4>2, <4>3
    <3> QED BY <3>1, <3>3, <3>4 DEF ES
  <2> QED BY <1>3, <2>2
<1>11. bsHist' \in [BsNodes -> [BsOrigs -> Seq(BsChange)]]
  BY <1>1, <1>3, <1>8, BsOneList
<1>12. /\ bsRoute' \in [BsNodes -> [BsOrigs -> BsNodes \cup {NoHop}]]
       /\ bsRoute'[n] = [r EXCEPT ![o] = next]
       /\ \A k \in BsNodes \ {n} : bsRoute'[k] = bsRoute[k]
       /\ \A k \in BsNodes, p \in BsOrigs :
            bsRoute'[k][p] = IF k = n /\ p = o THEN next ELSE bsRoute[k][p]
  <2>1. bsRoute' = BsWith(bsRoute, n, o, next)
    BY DEF BsWith
  <2> QED BY <1>1, <2>1, BsOneList DEF r
<1>13. /\ bsTable' \in [BsNodes -> Seq(BsEntry)] /\ bsTable'[n] = T
       /\ \A k \in BsNodes \ {n} : bsTable'[k] = bsTable[k]
  BY <1>1, <1>3, <1>5
<1>14. BsDbTyped'
  BY <1>10, <1>11, <1>12, <1>13 DEF BsDbTyped
<1>15. \A k \in BsNodes : BsHolds(bsTable'[k], bsRoute'[k])
  <2> TAKE k \in BsNodes
  <2>1. CASE k = n
    BY <1>4, <1>12, <1>13, <2>1
  <2>2. CASE k # n
    <3>1. bsTable'[k] = bsTable[k] /\ bsRoute'[k] = bsRoute[k]
      BY <1>12, <1>13, <2>2
    <3> QED BY <3>1 DEF BsLogInv, BsRoutesInv
  <2> QED BY <2>1, <2>2
<1>16. \A k \in BsNodes, p \in BsOrigs : bsRoute'[k][p] # NoHop => bsEvents'[k][p] # <<>>
  <2> TAKE k \in BsNodes, p \in BsOrigs
  <2> HAVE bsRoute'[k][p] # NoHop
  <2>1. CASE k = n /\ p = o
    BY <1>9, <1>10, <2>1
  <2>2. CASE ~(k = n /\ p = o)
    <3>1. bsRoute[k][p] # NoHop
      BY <1>12, <2>2
    <3>2. bsEvents[k][p] # <<>>
      BY <3>1 DEF BsLogInv, BsRoutesInv
    <3>3. bsEvents'[k][p] = bsEvents[k][p]
      BY <1>10, <2>2
    <3> QED BY <3>2, <3>3
  <2> QED BY <2>1, <2>2
<1> QED BY <1>14, <1>15, <1>16 DEF BsLogInv, BsRoutesInv

\* The lines about routes are such changes.
LEMMA BsRouteLines ==
  ASSUME BsLogInv, NEW n \in BsNodes, NEW m \in BsNodes, NEW o \in BsOrigs,
         LogRoute(n, o, m) \/ LogDelete(n, o)
  PROVE  BsLogInv'
<1>1. /\ bsEvents[n][o] \in Seq(BsEvent) /\ bsRoute[n][o] \in BsNodes \cup {NoHop}
      /\ bsRoute[n][o] # NoHop => bsEvents[n][o] # <<>>
  BY DEF BsLogInv, BsDbTyped, BsRoutesInv
<1>2. CASE LogRoute(n, o, m)
  <2> DEFINE events == bsEvents[n][o]
             kind == IF bsRoute[n][o] = NoHop THEN "add" ELSE "update"
  <2>1. /\ \E i \in DOMAIN events : events[i].neigh = m
        /\ m # NoHop
        /\ routing_table_new(n, o, m, kind)
        /\ bsRoute' = [bsRoute EXCEPT ![n][o] = m]
    BY <1>2 DEF LogRoute
  <2>2. events # <<>> /\ m \in BsNodes \cup {NoHop}
    BY <1>1, <2>1
  <2>3. /\ kind \in {"add", "update", "delete"} /\ kind # "delete"
        /\ kind = "add" <=> bsRoute[n][o] = NoHop
    OBVIOUS
  <2> HIDE DEF kind
  <2> QED BY <2>1, <2>2, <2>3, BsRoutes
<1>3. CASE LogDelete(n, o)
  <2>1. /\ bsRoute[n][o] # NoHop /\ routing_table_new(n, o, NoHop, "delete")
        /\ bsRoute' = [bsRoute EXCEPT ![n][o] = NoHop]
    BY <1>3 DEF LogDelete
  <2> QED BY <1>1, <2>1, BsRoutes
<1> QED BY <1>2, <1>3

-----------------------------------------------------------------------------
BsDbInv == BsLogInv /\ BsTraceInv

\* Logs and traces have their variables for themselves.
LEMMA BsDbStep == BsDbInv /\ [BisectDbNext]_bsDbVars => BsDbInv'
<1> SUFFICES ASSUME BsDbInv, [BisectDbNext]_bsDbVars PROVE BsDbInv'
  OBVIOUS
<1>1. ASSUME UNCHANGED bsLogVars PROVE BsLogInv'
  BY <1>1 DEF bsLogVars, BsDbInv, BsLogInv, BsDbTyped, BsRoutesInv
<1>2. ASSUME UNCHANGED bsTraceVars PROVE BsTraceInv'
  BY <1>2 DEF bsTraceVars, BsDbInv, BsTraceInv, BsFlow, BsHeardOf, BsTreeOf, RoutesSteady
<1>3. CASE UNCHANGED bsDbVars
  BY <1>1, <1>2, <1>3 DEF bsDbVars, BsDbInv
<1>4. CASE EndLog
  BY <1>1, <1>2, <1>4 DEF EndLog, BsDbInv
<1>5. CASE ReadLogs
  <2>1. UNCHANGED bsTraceVars
    BY <1>5 DEF ReadLogs, LogReceived, LogRoute, LogDelete
  <2>2. BsLogInv'
    BY <1>5, BsReceives, BsRouteLines DEF ReadLogs, BsDbInv
  <2> QED BY <1>2, <2>1, <2>2 DEF BsDbInv
<1>6. CASE Trace
  <2>1. UNCHANGED bsLogVars
    BY <1>6 DEF Trace, HearOgm, StartTrace, seqno_trace_add
  <2>2. CASE StartTrace
    BY <1>1, <1>2, <2>2 DEF StartTrace, bsTraceVars, BsDbInv
  <2>3. CASE ~StartTrace
    <3>1. BsTraceInv'
      BY <1>6, <2>3, BsHears, BsAdds DEF Trace, BsDbInv
    <3> QED BY <1>1, <2>1, <3>1 DEF BsDbInv
  <2> QED BY <2>2, <2>3
<1> QED BY <1>3, <1>4, <1>5, <1>6 DEF BisectDbNext

\* The entries and the routes as sets of pairs.
LEMMA BsTablesImply == BsDbInv => BisectTableIsRoutes
<1> SUFFICES ASSUME BsDbInv, NEW n \in BsNodes
             PROVE  LET t == bsTable[n]
                        live == {i \in DOMAIN t : ~Deleted(t[i])}
                    IN  /\ {<<t[i].orig, t[i].next>> : i \in live}
                             = {<<o, bsRoute[n][o]>> : o \in {p \in BsOrigs : bsRoute[n][p] # NoHop}}
                        /\ \A i, j \in live : t[i].orig = t[j].orig => i = j
  BY DEF BisectTableIsRoutes
<1> DEFINE t == bsTable[n]
           r == bsRoute[n]
           live == {i \in DOMAIN t : ~Deleted(t[i])}
<1>1. BsHolds(t, r)
  BY DEF BsDbInv, BsLogInv, BsRoutesInv
<1> HIDE DEF t, r
<1>2. /\ t \in Seq(BsEntry) /\ DOMAIN t = 1..Len(t)
      /\ \A i \in 1..Len(t) : t[i].orig \in BsOrigs
  <2>1. t \in Seq(BsEntry)
    BY <1>1 DEF BsHolds
  <2>2. \A i \in 1..Len(t) : t[i] \in BsEntry
    BY <2>1
  <2> QED BY <2>1, <2>2 DEF BsEntry
<1>3. \A i, j \in live : t[i].orig = t[j].orig => i = j
  BY <1>1, <1>2 DEF BsHolds, BsOnce
<1>4. \A i \in live : r[t[i].orig] # NoHop /\ t[i].next = r[t[i].orig] /\ t[i].orig \in BsOrigs
  BY <1>1, <1>2 DEF BsHolds
<1>5. \A o \in BsOrigs : r[o] # NoHop => \E i \in live : t[i].orig = o
  BY <1>1, <1>2 DEF BsHolds
<1> HIDE DEF live
<1>6. {<<t[i].orig, t[i].next>> : i \in live}
        = {<<o, r[o]>> : o \in {p \in BsOrigs : r[p] # NoHop}}
  <2>1. ASSUME NEW i \in live
        PROVE  <<t[i].orig, t[i].next>> \in {<<o, r[o]>> : o \in {p \in BsOrigs : r[p] # NoHop}}
    BY <1>4
  <2>2. ASSUME NEW o \in BsOrigs, r[o] # NoHop
        PROVE  <<o, r[o]>> \in {<<t[i].orig, t[i].next>> : i \in live}
    <3>1. PICK i \in live : t[i].orig = o
      BY <1>5, <2>2
    <3>2. <<o, r[o]>> = <<t[i].orig, t[i].next>>
      BY <1>4, <3>1
    <3> QED BY <3>2
  <2> QED BY <2>1, <2>2
<1> QED BY <1>3, <1>6 DEF t, r, live

\* Whatever nodes log, however many lines, in any order: after every line the
\* table that routing_table_new builds is the routing table of the node; the
\* receptions seqno_trace_add has met hang only under receptions they can have
\* been passed on from; and if no route to the originator changed meanwhile,
\* they form a forest in which none of them is a root without need.
THEOREM BisectShowsTheLogs == BisectDbSpec => []BisectDatabase
<1>1. BisectDbInit => BsDbInv
  BY BsLogInit, BsTraceInit DEF BsDbInv
<1>2. BsDbInv => BisectDatabase
  BY BsTablesImply, BsTraceImplies DEF BisectDatabase, BsDbInv
<1> QED BY <1>1, <1>2, BsDbStep, PTL DEF BisectDbSpec
=============================================================================

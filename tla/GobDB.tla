-------------------------------- MODULE GobDB --------------------------------
(***************************************************************************)
(* The file database of the NexFi web-admin server (src/src/main.go) and   *)
(* the two handlers that use it, configHandler ("config"/"title") and      *)
(* topoPositionHandler ("topo"/"position").  Both have the same shape and  *)
(* each owns one key of one directory, so one key is modelled.             *)
(*                                                                         *)
(* net/http runs every request in a goroutine of its own, and nothing in   *)
(* the handlers takes a lock (Config.Lock is allocated and never used), so *)
(* every system call of a request is a separate step here.  A request      *)
(* builds its own DB object: its ObjectsMap is a snapshot taken by         *)
(* DB.Init, and `loaded' below is that snapshot of the one key.            *)
(*                                                                         *)
(* A file is a directory entry plus an inode: os.Remove unlinks the inode, *)
(* but a goroutine that still holds the *os.File goes on writing to it.    *)
(* gob writes a value as type descriptors followed by the value, each with *)
(* a write call of its own, so an inode has two parts; it decodes only     *)
(* when both are there.                                                    *)
(***************************************************************************)
EXTENDS Naturals, FiniteSets

CONSTANTS
  Requests,     \* HTTP requests; each is served at most once
  Values,       \* the structs a well-formed POST body decodes to
  Zero,         \* VisPositionData{} / ConfigData{}: nothing decoded
  OldFile,      \* inode of a file left by an earlier run of the server
  None,         \* no entry, no inode, nothing loaded
  MaxFaults,    \* bound: how many system calls may fail
  MaxCrashes    \* bound: how often the server may be killed

ASSUME ConstantsAssumption ==
  /\ None \notin Values \cup {Zero, OldFile} \cup Requests
  /\ OldFile \notin Requests
  /\ {"ok", "401"} \cap (Values \cup {Zero, None}) = {}
  /\ MaxFaults \in Nat /\ MaxCrashes \in Nat

VARIABLES
  located,      \* db.location exists and is a directory
  entry,        \* inode that location/key names, or None
  file,         \* inode -> its two parts
  pc,           \* where each request stands
  req,          \* request -> method and the struct its body decodes to
  loaded,       \* request -> db.ObjectsMap[key] of its own DB object
  fd,           \* request -> inode it has open
  resp,         \* request -> what the client was sent
  faults, crashes,
  everStored    \* history: a complete value has been in the directory

vars == <<located, entry, file, pc, req, loaded, fd, resp,
          faults, crashes, everStored>>

Structs == Values \cup {Zero}
Inodes == Requests \cup {OldFile}
Empty == [types |-> FALSE, value |-> None]
Methods == {"GET", "POST"}

\* The places where a goroutine can be descheduled: one before each call
\* that touches the file system.
Steps == {"mkdir", "list", "open", "decode", "handle", "stat", "remove",
          "put", "create", "types", "value", "answer"}
PCs == Steps \cup {"new", "done", "killed"}

InFlight == {r \in Requests : pc[r] \in Steps}
Decodes(i) == file[i].types /\ file[i].value # None

Init ==
  /\ \E left \in {Empty} \cup [types : {TRUE}, value : Structs] :
       file = [i \in Inodes |-> IF i = OldFile THEN left ELSE Empty]
  /\ entry = IF Decodes(OldFile) THEN OldFile ELSE None
  /\ located \in IF entry = None THEN BOOLEAN ELSE {TRUE}
  /\ pc = [r \in Requests |-> "new"]
  /\ req \in [Requests -> [method : Methods, body : Structs]]
  /\ loaded = [r \in Requests |-> None]
  /\ fd = [r \in Requests |-> None]
  /\ resp = [r \in Requests |-> None]
  /\ faults = 0 /\ crashes = 0
  /\ everStored = (entry # None)

-----------------------------------------------------------------------------
Goto(r, step) == pc' = [pc EXCEPT ![r] = step]

\* A system call of r fails: the bound MaxFaults is on these alone.
Fault == faults < MaxFaults /\ faults' = faults + 1
NoFault == UNCHANGED faults

Reply(r, what) == resp' = [resp EXCEPT ![r] = what] /\ Goto(r, "done")

\* BasicAuth.Wrap: without the right Authorization header the handler is
\* not called and the answer is 401.
Wrap(r) ==
  /\ pc[r] = "new"
  /\ \/ Goto(r, "mkdir") /\ UNCHANGED resp
     \/ Reply(r, "401")
  /\ UNCHANGED <<located, entry, file, req, loaded, fd, faults, crashes,
                 everStored>>

\* DB.Init, the directory: MkdirAll when it is missing.  When it is there and
\* its stat fails, MkdirAll finds it.  getDatabase drops the error of Init, so
\* a failure only means that nothing is loaded.
InitMkdir(r) ==
  /\ pc[r] = "mkdir"
  /\ \/ located' = TRUE /\ NoFault /\ Goto(r, "list")
     \/ ~located /\ UNCHANGED located /\ Fault /\ Goto(r, "handle")
  /\ UNCHANGED <<entry, file, req, loaded, fd, resp, crashes, everStored>>

\* DB.Init: ListDirFiles takes the list of names.
InitList(r) ==
  /\ pc[r] = "list"
  /\ \/ NoFault /\ Goto(r, IF entry = None THEN "handle" ELSE "open")
     \/ Fault /\ Goto(r, "handle")
  /\ UNCHANGED <<located, entry, file, req, loaded, fd, resp, crashes,
                 everStored>>

\* Mutant of ReadOpen: the error of os.Open is not looked at.
ReadOpenUnchecked(r) ==
  /\ pc[r] = "open"
  /\ NoFault
  /\ fd' = [fd EXCEPT ![r] = entry]
  /\ Goto(r, "decode")
  /\ UNCHANGED <<located, entry, file, req, loaded, resp, crashes,
                 everStored>>

\* readFile opens the listed name; by now the file may be gone.
ReadOpen(r) ==
  /\ pc[r] = "open"
  /\ \/ /\ NoFault
        /\ fd' = [fd EXCEPT ![r] = entry]
        /\ Goto(r, IF entry = None THEN "handle" ELSE "decode")
     \/ Fault /\ UNCHANGED fd /\ Goto(r, "handle")
  /\ UNCHANGED <<located, entry, file, req, loaded, resp, crashes,
                 everStored>>

\* readFile decodes; a file that does not decode, or cannot be read, is
\* skipped by DB.Init.
ReadDecode(r) ==
  /\ pc[r] = "decode"
  /\ \/ /\ NoFault
        /\ loaded' = [loaded EXCEPT ![r] =
                        IF Decodes(fd[r]) THEN file[fd[r]].value ELSE None]
     \/ Fault /\ UNCHANGED loaded
  /\ fd' = [fd EXCEPT ![r] = None]
  /\ Goto(r, "handle")
  /\ UNCHANGED <<located, entry, file, req, resp, crashes, everStored>>

\* Mutant of Handle: DB.Delete does not ask whether the key was loaded.
HandleAlwaysDeletes(r) ==
  /\ pc[r] = "handle"
  /\ \/ /\ req[r].method = "GET"
        /\ Reply(r, IF loaded[r] = None THEN Zero ELSE loaded[r])
     \/ /\ req[r].method = "POST"
        /\ Goto(r, "stat")
        /\ UNCHANGED resp
  /\ UNCHANGED <<located, entry, file, req, loaded, fd, faults, crashes,
                 everStored>>

\* The handler proper.  A GET answers with what was loaded, or with the
\* zero struct.  A POST calls db.Update, whose Delete does nothing unless
\* the key was loaded.  A body that does not decode is logged and the zero
\* struct is stored in its place: that is a request whose body is Zero.
Handle(r) ==
  /\ pc[r] = "handle"
  /\ \/ /\ req[r].method = "GET"
        /\ Reply(r, IF loaded[r] = None THEN Zero ELSE loaded[r])
     \/ /\ req[r].method = "POST"
        /\ Goto(r, IF loaded[r] = None THEN "put" ELSE "stat")
        /\ UNCHANGED resp
  /\ UNCHANGED <<located, entry, file, req, loaded, fd, faults, crashes,
                 everStored>>

\* FileExists takes any error of os.Stat for "not there", so a stat of a file
\* that is there may fail and send r where it goes without the file.
StatThenGoto(r, there, missing) ==
  \/ NoFault /\ Goto(r, IF entry = None THEN missing ELSE there)
  \/ entry # None /\ Fault /\ Goto(r, missing)

\* DB.Delete: the file is gone already, or will be removed.
DeleteStat(r) ==
  /\ pc[r] = "stat"
  /\ StatThenGoto(r, "remove", "put")
  /\ UNCHANGED <<located, entry, file, req, loaded, fd, resp, crashes,
                 everStored>>

\* Mutant of DeleteRemove: DB.Delete swallows the error of os.Remove but
\* reports the key as deleted only in memory (the file is left alone).
DeleteRemoveInMemory(r) ==
  /\ pc[r] = "remove"
  /\ loaded' = [loaded EXCEPT ![r] = None]
  /\ Goto(r, "put")
  /\ UNCHANGED <<located, entry, file, req, fd, resp, faults, crashes,
                 everStored>>

\* Mutant of DeleteRemove: DB.Update returns after DB.Delete.
DeleteRemoveOnly(r) ==
  /\ pc[r] = "remove"
  /\ entry' = None
  /\ Goto(r, "answer")
  /\ UNCHANGED <<located, file, req, loaded, fd, resp, faults, crashes,
                 everStored>>

\* DB.Delete: os.Remove.  It fails when another request removed the file
\* since the stat; DB.Update then returns the error, which nobody reads.
DeleteRemove(r) ==
  /\ pc[r] = "remove"
  /\ \/ /\ entry # None
        /\ NoFault
        /\ entry' = None
        /\ loaded' = [loaded EXCEPT ![r] = None]
        /\ Goto(r, "put")
     \/ /\ IF entry = None THEN NoFault ELSE Fault
        /\ UNCHANGED <<entry, loaded>>
        /\ Goto(r, "answer")
  /\ UNCHANGED <<located, file, req, fd, resp, crashes, everStored>>

\* DB.Put refuses to write over a file that exists.
PutStat(r) ==
  /\ pc[r] = "put"
  /\ StatThenGoto(r, "answer", "create")
  /\ UNCHANGED <<located, entry, file, req, loaded, fd, resp, crashes,
                 everStored>>

\* DB.Put: os.Create opens with O_TRUNC, so a file that another request
\* created since the stat is emptied, not replaced.
PutCreate(r) ==
  /\ pc[r] = "create"
  /\ \/ LET i == IF entry = None THEN r ELSE entry IN
        /\ located
        /\ NoFault
        /\ entry' = i
        /\ file' = [file EXCEPT ![i] = Empty]
        /\ fd' = [fd EXCEPT ![r] = i]
        /\ Goto(r, "types")
     \/ /\ IF located THEN Fault ELSE NoFault
        /\ UNCHANGED <<entry, file, fd>>
        /\ Goto(r, "answer")
  /\ UNCHANGED <<located, req, loaded, resp, crashes, everStored>>

\* Mutant of EncodeTypes: Put returns once the descriptors are out.
EncodeTypesStops(r) ==
  /\ pc[r] = "types"
  /\ NoFault
  /\ file' = [file EXCEPT ![fd[r]].types = TRUE]
  /\ Goto(r, "answer")
  /\ UNCHANGED <<located, entry, req, loaded, fd, resp, crashes, everStored>>

\* gob's Encode sends the type descriptors ...
EncodeTypes(r) ==
  /\ pc[r] = "types"
  /\ \/ /\ NoFault
        /\ file' = [file EXCEPT ![fd[r]].types = TRUE]
        /\ Goto(r, "value")
     \/ Fault /\ UNCHANGED file /\ Goto(r, "answer")
  /\ UNCHANGED <<located, entry, req, loaded, fd, resp, crashes, everStored>>

\* ... and then the value.  The file is never closed.
EncodeValue(r) ==
  /\ pc[r] = "value"
  /\ \/ /\ NoFault
        /\ file' = [file EXCEPT ![fd[r]].value = req[r].body]
        /\ loaded' = [loaded EXCEPT ![r] = req[r].body]
        /\ everStored' = TRUE
     \/ Fault /\ UNCHANGED <<file, loaded, everStored>>
  /\ Goto(r, "answer")
  /\ UNCHANGED <<located, entry, req, fd, resp, crashes>>

\* The handler answers {"status": "ok"} whatever db.Update returned.
AnswerOk(r) ==
  /\ pc[r] = "answer"
  /\ Reply(r, "ok")
  /\ UNCHANGED <<located, entry, file, req, loaded, fd, faults, crashes,
                 everStored>>

\* signalCallback exits on SIGINT and SIGTERM; every goroutine dies with
\* the process, the directory stays as it is.
Exit ==
  /\ crashes < MaxCrashes
  /\ crashes' = crashes + 1
  /\ pc' = [r \in Requests |-> IF pc[r] \in Steps THEN "killed" ELSE pc[r]]
  /\ fd' = [r \in Requests |-> None]
  /\ loaded' = [r \in Requests |-> None]
  /\ UNCHANGED <<located, entry, file, req, resp, faults, everStored>>

Serve(r) ==
  \/ InitMkdir(r) \/ InitList(r) \/ ReadOpen(r) \/ ReadDecode(r)
  \/ Handle(r) \/ DeleteStat(r) \/ DeleteRemove(r) \/ PutStat(r)
  \/ PutCreate(r) \/ EncodeTypes(r) \/ EncodeValue(r) \/ AnswerOk(r)

Next == (\E r \in Requests : Wrap(r) \/ Serve(r)) \/ Exit

Spec == Init /\ [][Next]_vars

\* The use the page makes of the server when one administrator works alone:
\* routing.js issues a POST only from a dialog or a button, when its GETs
\* have been answered.  GETs may still overlap each other.
Alone(r) ==
  \A o \in InFlight : req[o].method = "GET" /\ req[r].method = "GET"

SerialNext ==
  \/ \E r \in Requests : (Alone(r) /\ Wrap(r)) \/ Serve(r)
  \/ Exit

SerialSpec == Init /\ [][SerialNext]_vars

-----------------------------------------------------------------------------
(***************************************************************************)
(* Properties                                                              *)
(***************************************************************************)

\* Type invariant of the state of the server and of its directory.
TypeOK ==
  /\ located \in BOOLEAN
  /\ entry \in Inodes \cup {None}
  /\ file \in [Inodes -> [types : BOOLEAN, value : Structs \cup {None}]]
  /\ pc \in [Requests -> PCs]
  /\ req \in [Requests -> [method : Methods, body : Structs]]
  /\ loaded \in [Requests -> Structs \cup {None}]
  /\ fd \in [Requests -> Inodes \cup {None}]
  /\ \A r \in Requests :
       pc[r] \in {"decode", "types", "value"} => fd[r] \in Inodes
  /\ resp \in [Requests -> Structs \cup {None, "ok", "401"}]
  /\ faults \in Nat /\ crashes \in Nat
  /\ everStored \in BOOLEAN

Undisturbed == faults = 0 /\ crashes = 0

\* Without faults and crashes the file in the directory fails to decode
\* only while a request that has it open is still encoding into it, however
\* many requests race on it (DB.Put's os.Create truncates a file another
\* request is writing, main.go:591).
TornOnlyWhileWriting ==
  (Undisturbed /\ entry # None /\ ~Decodes(entry))
    => \E r \in Requests : fd[r] = entry /\ pc[r] \in {"types", "value"}

\* Without faults and crashes, once something was stored the directory is
\* without the key only between the os.Remove of some request's Delete and
\* the os.Create of some request's Put: racing updates may lose to each
\* other, but never erase the data altogether.
NoTotalLoss ==
  (Undisturbed /\ everStored /\ entry = None)
    => \E r \in Requests : pc[r] \in {"put", "create"}

\* When the server is idle again after any race of requests (no faults, no
\* crashes), and a POST was answered, what is stored is the struct of a
\* POST that was answered: neither the old value, nor a torn file.
SomeUpdateWins ==
  (Undisturbed /\ InFlight = {} /\ \E r \in Requests : resp[r] = "ok")
    => /\ entry \in Requests
       /\ Decodes(entry)
       /\ \E w \in Requests : resp[w] = "ok" /\ file[entry].value = req[w].body

\* saveVisPosition in routing.js tells the user that the positions are saved
\* when it reads status "ok".  For the only POST that was ever let in this
\* is so when the server is idle again: later reads find its struct.
OkMeansStored ==
  \A r \in Requests :
    (/\ resp[r] = "ok"
     /\ InFlight = {}
     /\ \A o \in Requests \ {r} : resp[o] # "ok")
    => /\ entry # None
       /\ Decodes(entry)
       /\ file[entry].value = req[r].body

(***************************************************************************)
(* The inductive invariant behind the three properties above: what holds   *)
(* in every state of an undisturbed server.                                *)
(***************************************************************************)
Writing(i) == {r \in Requests : fd[r] = i /\ pc[r] \in {"types", "value"}}

\* Some request is about to create the file again.
Recreating == \E r \in Requests : pc[r] \in {"put", "create"}

\* The directory is there once a request is past DB.Init's MkdirAll.
LocatedInv ==
  \A r \in Requests : pc[r] \in Steps \ {"mkdir"} => located

\* What is missing in the file is what somebody will still write there.
TornInv ==
  entry # None =>
    /\ ~file[entry].types
         => \E r \in Requests : fd[r] = entry /\ pc[r] = "types"
    /\ file[entry].value = None => Writing(entry) # {}

\* After the first update began the key is there or about to be.
PresentInv ==
  (\/ everStored
   \/ \E r \in Requests : pc[r] \in {"types", "value", "answer"}
                          \/ resp[r] = "ok")
    => entry # None \/ Recreating

\* A request that holds a loaded struct knows that one was stored.
LoadedInv ==
  /\ \A i \in Inodes : file[i].value # None => everStored
  /\ \A r \in Requests :
       /\ loaded[r] # None => everStored
       /\ pc[r] \in {"stat", "remove"} => loaded[r] # None

\* The file of an earlier run survives only until the first POST gets past
\* DB.Delete.
OldFileInv ==
  entry = OldFile =>
    /\ Decodes(OldFile)
    /\ \A r \in Requests :
         /\ pc[r] \notin {"put", "create", "types", "value", "answer"}
         /\ resp[r] # "ok"
         /\ pc[r] = "decode" => fd[r] = OldFile
         /\ pc[r] = "handle" => loaded[r] # None

\* A value in a file of this run comes from a POST that is, or is about to
\* be, answered "ok".
ProvenanceInv ==
  /\ \A i \in Requests : file[i].value # None =>
       \E w \in Requests :
         /\ file[i].value = req[w].body
         /\ pc[w] = "answer" \/ resp[w] = "ok"
  /\ \A r \in Requests : resp[r] # None => pc[r] = "done"

\* The parts together: what an undisturbed server guarantees after every
\* system call of every request.
UndisturbedInv ==
  Undisturbed =>
    /\ LocatedInv /\ TornInv /\ PresentInv /\ LoadedInv
    /\ OldFileInv /\ ProvenanceInv

\* A file that does not decode, with no request left that loaded it before
\* or has it open: what a kill or a failed write inside DB.Put leaves.
Wedged ==
  /\ entry # None
  /\ ~Decodes(entry)
  /\ \A r \in Requests :
       /\ pc[r] \notin {"stat", "remove", "create", "types", "value"}
       /\ pc[r] # "done" => loaded[r] = None
       /\ pc[r] = "decode" => fd[r] = entry

\* A torn file stays: DB.Init skips it, DB.Delete leaves a key alone that was
\* not loaded, and DB.Put refuses a name that exists.  No request, no restart
\* and no failing call replaces it, but for one: when the os.Stat of DB.Put
\* fails (FileExists, main.go:641), os.Create empties the file and the POST
\* goes through.
OnlyFailedStatRepairs ==
  [][Wedged => \/ Wedged'
               \/ \E r \in Requests : pc[r] = "put" /\ pc'[r] = "create" /\ faults' > faults]_vars

-----------------------------------------------------------------------------
(***************************************************************************)
(* Refinement.  Updating requests hold their struct "in the air": the old  *)
(* file may be gone and the new one incomplete, but with POSTs alone the   *)
(* struct takes effect in the step that removes the old one.               *)
(***************************************************************************)
Updating == {r \in Requests : pc[r] \in {"put", "create", "types", "value"}}

storeBar ==
  IF Updating # {} THEN req[CHOOSE r \in Updating : TRUE].body
  ELSE IF entry # None THEN file[entry].value
  ELSE Zero

appliedBar ==
  {r \in Requests : r \in Updating \/ pc[r] = "answer" \/ resp[r] = "ok"}

Abstract == INSTANCE AtomicStore
              WITH store <- storeBar, applied <- appliedBar

\* With POSTs alone, no faults and no crashes, the whole chain of system
\* calls behind /config and /topo/position is an atomic register.
ImplementsAtomicStore == Abstract!Spec

=============================================================================

--------------------------- MODULE LocalFilesProofs ---------------------------
(* Theorems about LocalFiles, for any number of processes and Providers    *)
(* and any bounds: the locks, what the files keep, and that they implement *)
(* LocalStore.                                                             *)
EXTENDS LocalFiles, TLAPS

(* The operations that reach a place. *)
Fits(pc, kind) ==
  /\ pc \in {"list", "prompt"} => kind \in {"connect", "reconnect"}
  /\ pc = "find" => kind \in {"reconnect", "disconnect", "findKey"}
  /\ pc = "fetch" => kind = "refresh"
  /\ pc \in {"lock", "unlock"} =>
       kind \in {"getState", "resetState", "connect", "reconnect", "disconnect"}
  /\ pc = "read" => kind \in {"getState", "connect", "reconnect", "disconnect", "saveCapture"}
  /\ pc \in {"write", "rename", "clean"} => kind \notin {"bootstrap", "findKey"}
  /\ pc \in {"stat", "writeStarter", "link", "unlink", "load"} => kind = "bootstrap"

PlaceOf(p) ==
  /\ proc[p].pc = "idle" => proc[p] = IdleProc
  /\ proc[p].pc # "idle" => proc[p].op \in Operations /\ proc[p].number \in 1..started
  /\ Fits(proc[p].pc, KindOf(p))

PlaceInv ==
  /\ \A p \in Procs : PlaceOf(p)
  /\ \A p, q \in Procs :
       p # q /\ proc[p].pc # "idle" /\ proc[q].pc # "idle" => proc[p].number # proc[q].number

LockInv == TypeOK /\ PlaceInv /\ HolderInSection /\ NothingLeftBehind

-----------------------------------------------------------------------------
(* One process goes to pc, the others stay where they are. *)
Went(p, pc) ==
  /\ proc' \in [Procs -> Proc]
  /\ \A q \in Procs \ {p} : proc'[q] = proc[q]
  /\ proc'[p].pc = pc
  /\ proc'[p].op = proc[p].op /\ proc'[p].number = proc[p].number

(* The places after each place. *)
Follows(p, pc) ==
  /\ proc[p].pc = "list" => pc \in {"prompt", "done"}
  /\ proc[p].pc = "prompt" => pc \in {"lock", "find", "done"}
  /\ proc[p].pc = "find" => pc \in {"lock", "done"}
  /\ proc[p].pc = "fetch" => pc \in {"write", "done"}
  /\ proc[p].pc = "lock" => pc \in {"lock", "read", "write", "done"}
  /\ proc[p].pc = "read" => pc \in {"write", AfterFile(p)}
  /\ proc[p].pc = "write" => pc \in {"rename", "clean"}
  /\ proc[p].pc = "rename" => pc \in {"clean", AfterFile(p)}
  /\ proc[p].pc = "clean" => pc = AfterFile(p)
  /\ proc[p].pc = "unlock" => pc = "done"
  /\ proc[p].pc = "stat" => pc \in {"load", "writeStarter", "done"}
  /\ proc[p].pc = "writeStarter" => pc \in {"link", "unlink", "done"}
  /\ proc[p].pc = "link" => pc = "unlink"
  /\ proc[p].pc = "unlink" => pc \in {"load", "done"}
  /\ proc[p].pc = "load" => pc = "done"

(* One process goes on with its operation. *)
Moved(p) ==
  /\ proc[p].pc \notin {"idle", "done"}
  /\ \E pc \in Places \ {"idle"} : Went(p, pc) /\ Fits(pc, KindOf(p)) /\ Follows(p, pc)
  /\ started' = started

(* The outcomes a call can have. *)
LEMMA OutcomeTypes ==
  /\ NoOutcome \in Outcomes /\ RefusedOutcome \in Outcomes /\ FailedOutcome \in Outcomes
  /\ \A value \in Nat : OkOutcome(value) \in Outcomes
BY DEF NoOutcome, RefusedOutcome, FailedOutcome, OkOutcome, Outcomes, Missing

(* A record of the right fields is a process. *)
LEMMA ProcFields ==
  ASSUME NEW q \in Proc
  PROVE  /\ q.pc \in Places /\ q.number \in Nat /\ q.attempts \in 0..MaxAttempts
         /\ q.seen \in [Providers -> Nat] /\ q.outcome \in Outcomes
         /\ \A pc \in Places, outcome \in Outcomes :
              [q EXCEPT !.pc = pc, !.outcome = outcome] \in Proc
         /\ \A pc \in Places, seen \in [Providers -> Nat] :
              [q EXCEPT !.pc = pc, !.seen = seen] \in Proc
         /\ \A attempts \in 0..MaxAttempts : [q EXCEPT !.attempts = attempts] \in Proc
BY DEF Proc

(* Turn() moves its process and gives it an outcome. *)
LEMMA Turned ==
  ASSUME proc \in [Procs -> Proc], NEW p \in Procs, NEW pc \in Places,
         NEW outcome \in Outcomes, Turn(p, pc, outcome)
  PROVE  Went(p, pc) /\ proc'[p].outcome = outcome /\ proc'[p].seen = proc[p].seen
<1>1. proc[p] \in Proc
  OBVIOUS
<1>2. [proc[p] EXCEPT !.pc = pc, !.outcome = outcome] \in Proc
  BY <1>1, ProcFields
<1>3. proc' = [proc EXCEPT ![p] = [proc[p] EXCEPT !.pc = pc, !.outcome = outcome]]
  BY DEF Turn
<1>4. proc' \in [Procs -> Proc] /\ \A q \in Procs \ {p} : proc'[q] = proc[q]
  BY <1>2, <1>3
<1>5. proc'[p] = [proc[p] EXCEPT !.pc = pc, !.outcome = outcome]
  BY <1>3
<1> QED BY <1>1, <1>4, <1>5 DEF Went, Proc

(* Goto() keeps the outcome. *)
LEMMA WentTo ==
  ASSUME proc \in [Procs -> Proc], NEW p \in Procs, NEW pc \in Places, Goto(p, pc)
  PROVE  Went(p, pc) /\ proc'[p].outcome = proc[p].outcome /\ proc'[p].seen = proc[p].seen
<1>1. proc[p].outcome \in Outcomes
  BY ProcFields
<1> QED BY <1>1, Turned DEF Goto

(* A read of the file keeps it in the process. *)
LEMMA Saw ==
  ASSUME proc \in [Procs -> Proc], NEW p \in Procs, contents \in Contents,
         proc' = [proc EXCEPT ![p].pc = "write", ![p].seen = contents.providers]
  PROVE  Went(p, "write") /\ proc'[p].outcome = proc[p].outcome
         /\ proc'[p].seen = contents.providers
<1>1. contents.providers \in [Providers -> Nat] /\ "write" \in Places
  BY DEF Contents, Places
<1>2. [proc[p] EXCEPT !.pc = "write", !.seen = contents.providers] \in Proc
  BY <1>1, ProcFields
<1>3. proc' \in [Procs -> Proc] /\ \A q \in Procs \ {p} : proc'[q] = proc[q]
  BY <1>2
<1>4. proc'[p] = [proc[p] EXCEPT !.pc = "write", !.seen = contents.providers]
  OBVIOUS
<1>5. proc[p] \in Proc
  OBVIOUS
<1> QED BY <1>3, <1>4, <1>5 DEF Went, Proc

(* Another try at the lock moves nobody. *)
LEMMA TriedAgain ==
  ASSUME proc \in [Procs -> Proc], NEW p \in Procs, proc[p].attempts < MaxAttempts,
         proc' = [proc EXCEPT ![p].attempts = @ + 1]
  PROVE  Went(p, proc[p].pc) /\ proc'[p].outcome = proc[p].outcome
         /\ proc'[p].seen = proc[p].seen
<1>1. proc[p] \in Proc /\ proc[p].attempts \in 0..MaxAttempts
  BY ProcFields
<1>2. proc[p].attempts + 1 \in 0..MaxAttempts
  BY <1>1, BoundsAssumption
<1>3. [proc[p] EXCEPT !.attempts = proc[p].attempts + 1] \in Proc
  BY <1>1, <1>2, ProcFields
<1>4. proc' \in [Procs -> Proc] /\ \A q \in Procs \ {p} : proc'[q] = proc[q]
  BY <1>3
<1>5. proc'[p] = [proc[p] EXCEPT !.attempts = proc[p].attempts + 1]
  OBVIOUS
<1> QED BY <1>1, <1>4, <1>5 DEF Went, Proc

(* Where the file is done with: the lock is released, or there is none.     *)
LEMMA AfterFileFits ==
  ASSUME PlaceInv, NEW p \in Procs, proc[p].pc \in {"read", "write", "rename", "clean"}
  PROVE  AfterFile(p) \in Places \ {"idle"} /\ Fits(AfterFile(p), KindOf(p))
<1>1. proc[p].op \in Operations /\ Fits(proc[p].pc, KindOf(p))
  BY DEF PlaceInv, PlaceOf
<1> QED BY <1>1 DEF AfterFile, Locked, KindOf, Fits, Operations, Places

(* A process that goes on moves along the places of its operation. *)
LEMMA StepMoves ==
  ASSUME TypeOK, PlaceInv, NEW p \in Procs, Step(p) \/ ReadSecret(p)
  PROVE  Moved(p)
<1>1. /\ proc \in [Procs -> Proc] /\ contents \in Contents
      /\ Fits(proc[p].pc, KindOf(p))
      /\ proc[p].pc # "idle" => proc[p].op \in Operations
  BY DEF TypeOK, PlaceInv, PlaceOf
<1>0. /\ proc[p].number \in Nat /\ contents.state \in Nat /\ Missing \in Nat
      /\ KindOf(p) = "findKey" /\ proc[p].pc # "idle" =>
           contents.providers[proc[p].op.provider] \in Nat
  BY <1>1, ProcFields DEF Contents, Missing, KindOf, Operations
<1>2. ASSUME NEW pc \in Places \ {"idle"}, Went(p, pc), Fits(pc, KindOf(p)), Follows(p, pc),
             proc[p].pc \notin {"idle", "done"}, started' = started
      PROVE  Moved(p)
  BY <1>2 DEF Moved
<1>3. CASE ListConnections(p)
  <2>1. \E pc \in {"done", "prompt"} : Went(p, pc)
    BY <1>1, <1>3, Turned, WentTo, OutcomeTypes
       DEF ListConnections, Places
  <2>2. \A pc \in {"done", "prompt"} : pc \in Places \ {"idle"} /\ Fits(pc, KindOf(p)) /\ Follows(p, pc)
    BY <1>1, <1>3 DEF ListConnections, Fits, Follows, Places, KindOf, Operations
  <2>3. proc[p].pc \notin {"idle", "done"} /\ started' = started
    BY <1>3 DEF ListConnections
  <2> QED BY <1>2, <2>1, <2>2, <2>3
<1>4. CASE FindByProviderId(p)
  <2>1. \/ Went(p, "done")
        \/ Went(p, "lock") /\ KindOf(p) # "findKey"
    BY <1>0, <1>1, <1>4, Turned, WentTo, OutcomeTypes DEF FindByProviderId, Places
  <2>2. /\ Fits("done", KindOf(p)) /\ Follows(p, "done") /\ Follows(p, "lock")
        /\ KindOf(p) # "findKey" => Fits("lock", KindOf(p))
    BY <1>1, <1>4 DEF FindByProviderId, Fits, Follows
  <2>3. proc[p].pc \notin {"idle", "done"} /\ started' = started
    BY <1>4 DEF FindByProviderId
  <2> QED BY <1>2, <2>1, <2>2, <2>3 DEF Places
<1>5. CASE FetchCatalog(p)
  <2>1. \E pc \in {"write", "done"} : Went(p, pc)
    BY <1>1, <1>5, Turned, WentTo, OutcomeTypes
       DEF FetchCatalog, Places
  <2>2. \A pc \in {"write", "done"} : pc \in Places \ {"idle"} /\ Fits(pc, KindOf(p)) /\ Follows(p, pc)
    BY <1>1, <1>5 DEF FetchCatalog, Fits, Follows, Places, KindOf, Operations
  <2>3. proc[p].pc \notin {"idle", "done"} /\ started' = started
    BY <1>5 DEF FetchCatalog
  <2> QED BY <1>2, <2>1, <2>2, <2>3
<1>6. CASE Lock(p)
  <2>1. \/ Went(p, "write") /\ KindOf(p) = "resetState"
        \/ Went(p, "read") /\ KindOf(p) # "resetState"
        \/ Went(p, "lock")
        \/ Went(p, "done")
    BY <1>1, <1>6, Turned, WentTo, TriedAgain, OutcomeTypes DEF Lock, Places
  <2>2. /\ Fits("done", KindOf(p)) /\ Fits("lock", KindOf(p))
        /\ KindOf(p) = "resetState" => Fits("write", KindOf(p))
        /\ KindOf(p) # "resetState" => Fits("read", KindOf(p))
        /\ \A pc \in {"write", "read", "lock", "done"} : Follows(p, pc)
    BY <1>1, <1>6 DEF Lock, Fits, Follows
  <2>3. proc[p].pc \notin {"idle", "done"} /\ started' = started
    BY <1>6 DEF Lock
  <2> QED BY <1>2, <2>1, <2>2, <2>3 DEF Places
<1>7. CASE Read(p)
  <2>1. proc[p].pc \in {"read", "write", "rename", "clean"}
    BY <1>7 DEF Read
  <2>2. AfterFile(p) \in Places \ {"idle"} /\ Fits(AfterFile(p), KindOf(p))
    BY <2>1, AfterFileFits
  <2>3. \/ Went(p, AfterFile(p))
        \/ Went(p, "unlock") /\ KindOf(p) # "saveCapture"
        \/ Went(p, "write")
    BY SMT, ZenonT(60), <1>0, <1>1, <1>7, <2>2, Turned, Saw, OutcomeTypes
       DEF Read, KeepsState, Refused, KindOf, Places
  <2>4. /\ Fits("write", KindOf(p))
        /\ KindOf(p) # "saveCapture" => Fits("unlock", KindOf(p)) /\ Follows(p, "unlock")
        /\ Follows(p, "write") /\ Follows(p, AfterFile(p))
    BY <1>1, <1>7 DEF Read, Fits, Follows, AfterFile, Locked
  <2>5. proc[p].pc \notin {"idle", "done"} /\ started' = started
    BY <1>7 DEF Read
  <2> QED BY <1>2, <2>2, <2>3, <2>4, <2>5 DEF Places
<1>8. CASE WriteTemporary(p)
  <2>1. \E pc \in {"rename", "clean"} : Went(p, pc)
    BY <1>1, <1>8, Turned, WentTo, OutcomeTypes
       DEF WriteTemporary, Places
  <2>2. \A pc \in {"rename", "clean"} : pc \in Places \ {"idle"} /\ Fits(pc, KindOf(p)) /\ Follows(p, pc)
    BY <1>1, <1>8 DEF WriteTemporary, Fits, Follows, Places, KindOf, Operations
  <2>3. proc[p].pc \notin {"idle", "done"} /\ started' = started
    BY <1>8 DEF WriteTemporary
  <2> QED BY <1>2, <2>1, <2>2, <2>3
<1>9. CASE Rename(p)
  <2>1. proc[p].pc \in {"read", "write", "rename", "clean"}
    BY <1>9 DEF Rename
  <2>2. AfterFile(p) \in Places \ {"idle"} /\ Fits(AfterFile(p), KindOf(p))
    BY <2>1, AfterFileFits
  <2>3. \E pc \in {"clean"} \cup {AfterFile(p)} : Went(p, pc)
    BY <1>0, <1>1, <2>2, <1>9, Turned, WentTo, OutcomeTypes
       DEF Rename, Places
  <2>4. \A pc \in {"clean"} \cup {AfterFile(p)} : pc \in Places \ {"idle"} /\ Fits(pc, KindOf(p)) /\ Follows(p, pc)
    BY <1>1, <2>2, <1>9 DEF Rename, Fits, Follows, Places, KindOf, Operations
  <2>5. proc[p].pc \notin {"idle", "done"} /\ started' = started
    BY <1>9 DEF Rename
  <2> QED BY <1>2, <2>3, <2>4, <2>5
<1>10. CASE Clean(p)
  <2>1. proc[p].pc \in {"read", "write", "rename", "clean"}
    BY <1>10 DEF Clean
  <2>2. AfterFile(p) \in Places \ {"idle"} /\ Fits(AfterFile(p), KindOf(p))
    BY <2>1, AfterFileFits
  <2>3. \E pc \in {AfterFile(p)} : Went(p, pc)
    BY <1>1, <2>2, <1>10, Turned, WentTo, OutcomeTypes
       DEF Clean, Places
  <2>4. \A pc \in {AfterFile(p)} : pc \in Places \ {"idle"} /\ Fits(pc, KindOf(p)) /\ Follows(p, pc)
    BY <1>1, <2>2, <1>10 DEF Clean, Fits, Follows, Places, KindOf, Operations
  <2>5. proc[p].pc \notin {"idle", "done"} /\ started' = started
    BY <1>10 DEF Clean
  <2> QED BY <1>2, <2>3, <2>4, <2>5
<1>11. CASE Unlock(p)
  <2>1. \E pc \in {"done"} : Went(p, pc)
    BY <1>1, <1>11, Turned, WentTo, OutcomeTypes
       DEF Unlock, Places
  <2>2. \A pc \in {"done"} : pc \in Places \ {"idle"} /\ Fits(pc, KindOf(p)) /\ Follows(p, pc)
    BY <1>1, <1>11 DEF Unlock, Fits, Follows, Places, KindOf, Operations
  <2>3. proc[p].pc \notin {"idle", "done"} /\ started' = started
    BY <1>11 DEF Unlock
  <2> QED BY <1>2, <2>1, <2>2, <2>3
<1>12. CASE Stat(p)
  <2>1. \E pc \in {"done", "load", "writeStarter"} : Went(p, pc)
    BY <1>0, <1>1, <1>12, Turned, WentTo, OutcomeTypes
       DEF Stat, Places
  <2>2. \A pc \in {"done", "load", "writeStarter"} : pc \in Places \ {"idle"} /\ Fits(pc, KindOf(p)) /\ Follows(p, pc)
    BY <1>1, <1>12 DEF Stat, Fits, Follows, Places, KindOf, Operations
  <2>3. proc[p].pc \notin {"idle", "done"} /\ started' = started
    BY <1>12 DEF Stat
  <2> QED BY <1>2, <2>1, <2>2, <2>3
<1>13. CASE WriteStarter(p)
  <2>1. \E pc \in {"link", "unlink", "done"} : Went(p, pc)
    BY <1>1, <1>13, Turned, WentTo, OutcomeTypes
       DEF WriteStarter, Places
  <2>2. \A pc \in {"link", "unlink", "done"} : pc \in Places \ {"idle"} /\ Fits(pc, KindOf(p)) /\ Follows(p, pc)
    BY <1>1, <1>13 DEF WriteStarter, Fits, Follows, Places, KindOf, Operations
  <2>3. proc[p].pc \notin {"idle", "done"} /\ started' = started
    BY <1>13 DEF WriteStarter
  <2> QED BY <1>2, <2>1, <2>2, <2>3
<1>14. CASE Link(p)
  <2>1. \E pc \in {"unlink"} : Went(p, pc)
    BY <1>0, <1>1, <1>14, Turned, WentTo, OutcomeTypes
       DEF Link, Places
  <2>2. \A pc \in {"unlink"} : pc \in Places \ {"idle"} /\ Fits(pc, KindOf(p)) /\ Follows(p, pc)
    BY <1>1, <1>14 DEF Link, Fits, Follows, Places, KindOf, Operations
  <2>3. proc[p].pc \notin {"idle", "done"} /\ started' = started
    BY <1>14 DEF Link
  <2> QED BY <1>2, <2>1, <2>2, <2>3
<1>15. CASE Unlink(p)
  <2>1. \E pc \in {"done", "load"} : Went(p, pc)
    BY <1>1, <1>15, Turned, WentTo, OutcomeTypes
       DEF Unlink, Places
  <2>2. \A pc \in {"done", "load"} : pc \in Places \ {"idle"} /\ Fits(pc, KindOf(p)) /\ Follows(p, pc)
    BY <1>1, <1>15 DEF Unlink, Fits, Follows, Places, KindOf, Operations
  <2>3. proc[p].pc \notin {"idle", "done"} /\ started' = started
    BY <1>15 DEF Unlink
  <2> QED BY <1>2, <2>1, <2>2, <2>3
<1>16. CASE Load(p)
  <2>1. \E pc \in {"done"} : Went(p, pc)
    BY <1>1, <1>16, Turned, WentTo, OutcomeTypes
       DEF Load, Places
  <2>2. \A pc \in {"done"} : pc \in Places \ {"idle"} /\ Fits(pc, KindOf(p)) /\ Follows(p, pc)
    BY <1>1, <1>16 DEF Load, Fits, Follows, Places, KindOf, Operations
  <2>3. proc[p].pc \notin {"idle", "done"} /\ started' = started
    BY <1>16 DEF Load
  <2> QED BY <1>2, <2>1, <2>2, <2>3
<1>17. CASE ReadSecret(p)
  <2>1. \/ Went(p, "lock") \/ Went(p, "done")
        \/ Went(p, "find") /\ KindOf(p) # "connect"
    BY <1>1, <1>17, Turned, WentTo, OutcomeTypes DEF ReadSecret, Places
  <2>2. /\ Fits("lock", KindOf(p)) /\ Fits("done", KindOf(p))
        /\ KindOf(p) # "connect" => Fits("find", KindOf(p))
        /\ \A pc \in {"lock", "done", "find"} : Follows(p, pc)
    BY <1>1, <1>17 DEF ReadSecret, Fits, Follows
  <2>3. proc[p].pc \notin {"idle", "done"} /\ started' = started
    BY <1>17 DEF ReadSecret
  <2> QED BY <1>2, <2>1, <2>2, <2>3 DEF Places
<1> QED
  BY <1>3, <1>4, <1>5, <1>6, <1>7, <1>8, <1>9, <1>10, <1>11,
     <1>12, <1>13, <1>14, <1>15, <1>16, <1>17 DEF Step

-----------------------------------------------------------------------------
(* Types. *)

(* What a process replaces a file by is a file. *)
LEMMA WrittenType ==
  ASSUME TypeOK, PlaceInv, NEW p \in Procs, proc[p].pc = "rename"
  PROVE  Written(p) \in Contents
<1>1. /\ proc[p].op \in Operations /\ KindOf(p) \notin {"bootstrap", "findKey"}
      /\ proc[p].number \in Nat /\ proc[p].seen \in [Providers -> Nat]
  BY ProcFields DEF TypeOK, PlaceInv, PlaceOf, Fits
<1>2. KindOf(p) \in {"getState", "resetState", "connect", "reconnect", "disconnect",
                     "saveCapture", "refresh"}
  BY <1>1 DEF KindOf, Operations
<1>3. KindOf(p) \in {"connect", "reconnect", "disconnect"} => proc[p].op.provider \in Providers
  BY <1>1 DEF KindOf, Operations
<1>4. [proc[p].seen EXCEPT ![proc[p].op.provider] = proc[p].number] \in [Providers -> Nat]
  BY <1>1
<1>5. [proc[p].seen EXCEPT ![proc[p].op.provider] = Missing] \in [Providers -> Nat]
  BY <1>1 DEF Missing
<1>6. contents \in Contents
  BY DEF TypeOK
<1>7. CASE KindOf(p) \in {"getState", "resetState"}
  BY <1>1, <1>6, <1>7 DEF Written, Contents
<1>8. CASE KindOf(p) \in {"connect", "reconnect"}
  BY <1>4, <1>6, <1>8 DEF Written, Contents
<1>9. CASE KindOf(p) = "disconnect"
  BY <1>5, <1>6, <1>9 DEF Written, Contents
<1>10. CASE KindOf(p) \in {"saveCapture", "refresh"}
  BY <1>1, <1>6, <1>10 DEF Written, Contents
<1> QED BY <1>2, <1>7, <1>8, <1>9, <1>10

(* A failing call is counted up to its bound. *)
LEMMA FaultType ==
  ASSUME TypeOK, Fault \/ NoFault
  PROVE  faults' \in 0..MaxFaults
BY BoundsAssumption DEF TypeOK, Fault, NoFault

(* Going on with an operation keeps the types. *)
LEMMA StepTypes ==
  ASSUME TypeOK, PlaceInv, NEW p \in Procs, Step(p) \/ ReadSecret(p)
  PROVE  TypeOK'
<1>1. proc' \in [Procs -> Proc] /\ started' \in Nat /\ proc[p].number \in Nat
  BY StepMoves, ProcFields DEF Moved, Went, TypeOK
<1>2. contents' \in Contents
  <2>1. CASE Rename(p)
    BY <2>1, WrittenType DEF Rename, TypeOK
  <2>2. CASE Link(p)
    BY <2>2 DEF Link, TypeOK, Contents
  <2>3. CASE ~Rename(p) /\ ~Link(p)
    BY <2>3 DEF TypeOK, Step, ReadSecret, ListConnections, FindByProviderId, FetchCatalog, Lock,
       Read, WriteTemporary, Clean, Unlock, Stat, WriteStarter, Unlink, Load
  <2> QED BY <2>1, <2>2, <2>3
<1>3. holder' \in [Locks -> Nat]
  <2>1. CASE Lock(p) \/ Unlock(p)
    BY <1>1, <2>1 DEF Lock, Unlock, TypeOK
  <2>2. CASE ~Lock(p) /\ ~Unlock(p)
    BY <2>2 DEF TypeOK, Step, ReadSecret, ListConnections, FindByProviderId, FetchCatalog, Rename,
       Link, Read, WriteTemporary, Clean, Stat, WriteStarter, Unlink, Load
  <2> QED BY <2>1, <2>2
<1>4. temps' \subseteq temps \cup {proc[p].number} /\ lost' \subseteq lost \cup {proc[p].number}
  BY DEF Step, ReadSecret, ListConnections, FindByProviderId, FetchCatalog, Lock, Read, Link,
     WriteTemporary, Rename, Clean, Unlock, Stat, WriteStarter, Unlink, Load
<1>5. Fault \/ NoFault
  BY DEF Step, ReadSecret, ListConnections, FindByProviderId, FetchCatalog, Lock, Read, Link,
     WriteTemporary, Rename, Clean, Unlock, Stat, WriteStarter, Unlink, Load, NoFault
<1> QED BY <1>1, <1>2, <1>3, <1>4, <1>5, FaultType DEF TypeOK

-----------------------------------------------------------------------------
(* Locks and temporary files. *)

(* Going on with an operation takes a free lock, gives up one's own, loses *)
(* it for good, or leaves it as it is.                                     *)
LEMMA StepLocks ==
  ASSUME TypeOK, PlaceInv, NEW p \in Procs, Step(p) \/ ReadSecret(p)
  PROVE  /\ LockOf(p)' = LockOf(p)
         /\ \/ holder' = holder /\ (InSection(p)' <=> InSection(p))
            \/ /\ holder[LockOf(p)] = 0 /\ InSection(p)'
               /\ holder' = [holder EXCEPT ![LockOf(p)] = proc[p].number]
            \/ /\ InSection(p) /\ ~InSection(p)'
               /\ holder' = [holder EXCEPT ![LockOf(p)] = 0]
            \/ InSection(p) /\ ~InSection(p)' /\ holder' = holder /\ proc[p].number \in lost'
<1>1. PICK pc \in Places \ {"idle"} : Went(p, pc) /\ Fits(pc, KindOf(p)) /\ Follows(p, pc)
  BY StepMoves DEF Moved
<1>2. proc'[p].pc = pc /\ KindOf(p)' = KindOf(p) /\ Locked(p)' = Locked(p)
      /\ LockOf(p)' = LockOf(p)
  BY <1>1 DEF Went, KindOf, Locked, LockOf
<1>3. Fits(proc[p].pc, KindOf(p))
  BY DEF PlaceInv, PlaceOf
<1>4. CASE Lock(p)
  <2>1. CASE /\ holder[LockOf(p)] = 0
             /\ holder' = [holder EXCEPT ![LockOf(p)] = proc[p].number]
             /\ Goto(p, IF KindOf(p) = "resetState" THEN "write" ELSE "read")
    <3>1. pc \in {"read", "write"}
      BY <1>2, <2>1, WentTo DEF TypeOK, Places, Went
    <3>2. InSection(p)'
      BY <1>2, <1>3, <1>4, <3>1 DEF Lock, InSection, Locked, Fits
    <3> QED BY <1>2, <2>1, <3>2
  <2>2. CASE ~ (/\ holder[LockOf(p)] = 0
                /\ holder' = [holder EXCEPT ![LockOf(p)] = proc[p].number]
                /\ Goto(p, IF KindOf(p) = "resetState" THEN "write" ELSE "read"))
    <3>1. pc \in {"lock", "done"} /\ holder' = holder
      BY <1>2, <1>4, <2>2, Turned, TriedAgain, OutcomeTypes DEF Lock, TypeOK, Places, Went
    <3> QED BY <1>2, <1>4, <3>1 DEF Lock, InSection
  <2> QED BY <2>1, <2>2
<1>5. CASE Unlock(p)
  <2>1. pc = "done" /\ InSection(p) /\ ~InSection(p)'
    BY <1>1, <1>2, <1>3, <1>5 DEF Unlock, Follows, InSection, Fits, Locked
  <2> QED BY <1>2, <1>5, <2>1 DEF Unlock, TypeOK
<1>6. CASE ~Lock(p) /\ ~Unlock(p)
  <2>1. holder' = holder /\ proc[p].pc \notin {"lock", "unlock"}
    BY <1>6 DEF Step, ReadSecret, ListConnections, FindByProviderId, FetchCatalog, Rename,
       Link, Read, WriteTemporary, Clean, Stat, WriteStarter, Unlink, Load
  <2>2. proc[p].pc \in Places \ {"idle", "done", "lock", "unlock"}
    BY <2>1, StepMoves, ProcFields DEF Moved, TypeOK
  <2>3. InSection(p) => InSection(p)'
    BY <1>1, <1>2, <2>1 DEF Follows, InSection, AfterFile
  <2>4. ~InSection(p) => ~InSection(p)'
    <3>1. CASE proc[p].pc \in {"read", "write", "rename", "clean"}
      BY <1>2, <3>1 DEF InSection
    <3>2. CASE proc[p].pc = "fetch"
      BY <1>2, <1>3, <3>2 DEF Fits, InSection, Locked
    <3>3. CASE proc[p].pc \notin {"read", "write", "rename", "clean", "fetch"}
      BY <1>1, <1>2, <2>2, <3>3 DEF Follows, Places, InSection
    <3> QED BY <3>1, <3>2, <3>3
  <2> QED BY <1>2, <2>1, <2>3, <2>4
<1> QED BY <1>4, <1>5, <1>6

(* A process at a temporary file of its own. *)
AtTemporary(p) == proc[p].pc \in {"rename", "clean", "link", "unlink"}

(* Going on with an operation leaves no temporary file unattended that it  *)
(* did not fail to remove.                                                 *)
LEMMA StepTemps ==
  ASSUME TypeOK, PlaceInv, NEW p \in Procs, Step(p) \/ ReadSecret(p)
  PROVE  /\ temps' \subseteq temps \cup {proc[p].number} /\ lost \subseteq lost'
         /\ proc[p].number \in temps' =>
              \/ AtTemporary(p)' \/ proc[p].number \in lost'
              \/ proc[p].number \in temps /\ ~AtTemporary(p)
<1>1. PICK pc \in Places \ {"idle"} : Went(p, pc) /\ Fits(pc, KindOf(p)) /\ Follows(p, pc)
  BY StepMoves DEF Moved
<1>2. proc'[p].pc = pc
  BY <1>1 DEF Went
<1>3. temps' \subseteq temps \cup {proc[p].number} /\ lost \subseteq lost'
  BY DEF Step, ReadSecret, ListConnections, FindByProviderId, FetchCatalog, Lock, Rename,
     Link, Read, WriteTemporary, Clean, Unlock, Stat, WriteStarter, Unlink, Load
<1>4. CASE WriteTemporary(p)
  BY <1>1, <1>2, <1>3, <1>4 DEF WriteTemporary, Follows, AtTemporary
<1>5. CASE WriteStarter(p)
  <2>1. CASE temps' = temps
    BY <1>3, <1>5, <2>1 DEF WriteStarter, AtTemporary
  <2>2. CASE temps' # temps
    BY <1>2, <1>3, <1>5, <2>2, Turned, WentTo, OutcomeTypes
       DEF WriteStarter, AtTemporary, TypeOK, Places, Went
  <2> QED BY <2>1, <2>2
<1>6. CASE Rename(p)
  <2>1. CASE proc[p].number \in temps'
    BY <1>2, <1>3, <1>6, <2>1, Turned, OutcomeTypes DEF Rename, AtTemporary, TypeOK, Places, Went
  <2> QED BY <1>3, <2>1
<1>7. CASE Clean(p) \/ Unlink(p)
  BY <1>3, <1>7 DEF Clean, Unlink
<1>8. CASE Link(p)
  BY <1>1, <1>2, <1>3, <1>8 DEF Link, Follows, AtTemporary
<1>9. CASE ~ (\/ WriteTemporary(p) \/ WriteStarter(p) \/ Rename(p) \/ Clean(p) \/ Unlink(p)
             \/ Link(p))
  <2>1. temps' = temps /\ ~AtTemporary(p)
    BY <1>9 DEF Step, ReadSecret, ListConnections, FindByProviderId, FetchCatalog, Lock, Read,
       Unlock, Stat, Load, AtTemporary
  <2> QED BY <1>3, <2>1
<1> QED BY <1>4, <1>5, <1>6, <1>7, <1>8, <1>9

-----------------------------------------------------------------------------
(* The inductive invariant. *)

(* Going on with an operation keeps places fit and numbers apart. *)
LEMMA StepPlaces ==
  ASSUME TypeOK, PlaceInv, NEW p \in Procs, Step(p) \/ ReadSecret(p)
  PROVE  PlaceInv'
<1>1. PICK pc \in Places \ {"idle"} : Went(p, pc) /\ Fits(pc, KindOf(p)) /\ Follows(p, pc)
  BY StepMoves DEF Moved
<1>2. started' = started /\ proc[p].pc # "idle"
  BY StepMoves DEF Moved
<1>3. PlaceOf(p)'
  BY <1>1, <1>2 DEF Went, PlaceOf, PlaceInv, KindOf
<1>4. ASSUME NEW q \in Procs \ {p}
      PROVE  PlaceOf(q)' /\ proc'[q] = proc[q]
  BY <1>1, <1>2 DEF Went, PlaceOf, PlaceInv, KindOf
<1> QED BY <1>1, <1>2, <1>3, <1>4 DEF Went, PlaceInv

(* A process in a section owns its lock, whoever goes on. *)
LEMMA StepHolder ==
  ASSUME LockInv, NEW p \in Procs, Step(p) \/ ReadSecret(p)
  PROVE  HolderInSection'
<1>1. PICK pc \in Places \ {"idle"} : Went(p, pc)
  BY StepMoves DEF Moved, LockInv
<1>2. SUFFICES ASSUME NEW q \in Procs, InSection(q)'
               PROVE  holder'[LockOf(q)'] = proc'[q].number
  BY DEF HolderInSection
<1>3. proc'[q].number = proc[q].number
  BY <1>1 DEF Went
<1>4. CASE q = p
  BY <1>2, <1>3, <1>4, StepLocks DEF LockInv, HolderInSection, TypeOK, LockOf, Locks
<1>5. CASE q # p
  <2>1. InSection(q) /\ LockOf(q)' = LockOf(q)
    BY <1>1, <1>2, <1>5 DEF Went, InSection, Locked, LockOf, KindOf
  <2>2. holder[LockOf(q)] = proc[q].number
    BY <2>1 DEF LockInv, HolderInSection
  <2>3. proc[q].number # 0 /\ proc[p].pc # "idle" /\ proc[q].number # proc[p].number
    BY <1>5, <2>1, StepMoves DEF Moved, LockInv, PlaceInv, PlaceOf, InSection, TypeOK
  <2>4. InSection(p) => LockOf(p) # LockOf(q)
    BY <2>2, <2>3 DEF LockInv, HolderInSection
  <2>5. holder'[LockOf(q)] = holder[LockOf(q)]
    <3>1. LockOf(p) \in Locks /\ LockOf(q) \in Locks /\ holder \in [Locks -> Nat]
      BY DEF LockOf, Locks, LockInv, TypeOK
    <3>2. \/ holder' = holder
          \/ LockOf(p) # LockOf(q) /\ holder' = [holder EXCEPT ![LockOf(p)] = proc[p].number]
          \/ LockOf(p) # LockOf(q) /\ holder' = [holder EXCEPT ![LockOf(p)] = 0]
      BY <2>2, <2>3, <2>4, StepLocks DEF LockInv
    <3> QED BY <3>1, <3>2
  <2> QED BY <1>3, <2>1, <2>2, <2>5
<1> QED BY <1>4, <1>5

(* What is left behind is attended to, or was lost, whoever goes on. *)
LEMMA StepNothingLeft ==
  ASSUME LockInv, NEW p \in Procs, Step(p) \/ ReadSecret(p)
  PROVE  NothingLeftBehind'
<1>1. PICK pc \in Places \ {"idle"} : Went(p, pc)
  BY StepMoves DEF Moved, LockInv
<1>2. proc'[p].number = proc[p].number /\ LockOf(p)' = LockOf(p) /\ lost \subseteq lost'
  BY <1>1, StepTemps DEF Went, LockInv, LockOf, KindOf
<1>3. \A q \in Procs \ {p} :
        /\ proc'[q] = proc[q] /\ LockOf(q)' = LockOf(q)
        /\ InSection(q)' <=> InSection(q)
  BY <1>1 DEF Went, LockOf, KindOf, InSection, Locked
<1>4. ASSUME NEW lock \in Locks, holder'[lock] # 0
      PROVE  \/ holder'[lock] \in lost'
             \/ \E q \in Procs :
                  InSection(q)' /\ LockOf(q)' = lock /\ proc'[q].number = holder'[lock]
  <2>1. CASE holder' = [holder EXCEPT ![LockOf(p)] = proc[p].number] /\ InSection(p)'
             /\ lock = LockOf(p)
    BY <1>2, <2>1 DEF LockInv, TypeOK
  <2>2. CASE holder'[lock] = holder[lock]
    <3>1. CASE holder[lock] \in lost
      BY <1>2, <2>2, <3>1
    <3>2. CASE holder[lock] \notin lost
      <4>1. PICK q \in Procs :
              InSection(q) /\ LockOf(q) = lock /\ proc[q].number = holder[lock]
        BY <1>4, <2>2, <3>2 DEF LockInv, NothingLeftBehind
      <4>2. CASE q # p
        BY <1>3, <2>2, <4>1, <4>2
      <4>3. CASE q = p
        <5>1. CASE InSection(p)'
          BY <1>2, <2>2, <4>1, <4>3, <5>1
        <5>2. CASE ~InSection(p)'
          BY <1>2, <1>4, <2>2, <4>1, <4>3, <5>2, StepLocks DEF LockInv, TypeOK
        <5> QED BY <5>1, <5>2
      <4> QED BY <4>2, <4>3
    <3> QED BY <3>1, <3>2
  <2>3. holder'[lock] # holder[lock] =>
          /\ holder' = [holder EXCEPT ![LockOf(p)] = proc[p].number] /\ InSection(p)'
          /\ lock = LockOf(p)
    BY <1>4, StepLocks DEF LockInv, TypeOK
  <2> QED BY <2>1, <2>2, <2>3
<1>5. ASSUME NEW n \in temps'
      PROVE  n \in lost' \/ \E q \in Procs : proc'[q].number = n /\ AtTemporary(q)'
  <2>1. CASE n \in temps /\ (n # proc[p].number \/ ~AtTemporary(p))
    <3>1. CASE n \in lost
      BY <1>2, <3>1
    <3>2. CASE n \notin lost
      <4>1. PICK q \in Procs : proc[q].number = n /\ AtTemporary(q)
        BY <2>1, <3>2 DEF LockInv, NothingLeftBehind, AtTemporary
      <4>2. q # p
        BY <2>1, <4>1
      <4> QED BY <1>3, <4>1, <4>2 DEF AtTemporary
    <3> QED BY <3>1, <3>2
  <2>2. CASE n = proc[p].number /\ AtTemporary(p)
    BY <1>2, <1>5, <2>2, StepTemps DEF LockInv
  <2>3. CASE n \notin temps
    BY <1>2, <1>5, <2>3, StepTemps DEF LockInv
  <2> QED BY <2>1, <2>2, <2>3
<1> QED BY <1>4, <1>5 DEF NothingLeftBehind, AtTemporary

(* No lock is taken and nothing is under way at first. *)
LEMMA LockInvInit == Init => LockInv
<1> SUFFICES ASSUME Init PROVE LockInv
  OBVIOUS
<1>1. IdleProc \in Proc
  BY BoundsAssumption DEF IdleProc, Proc, Places, NoKeys, Missing, NoOutcome, Outcomes
<1>2. contents \in Contents
  BY DEF Init, FirstContents, Contents
<1>3. TypeOK
  BY <1>1, <1>2, BoundsAssumption DEF Init, TypeOK
<1>4. \A p \in Procs : proc[p] = IdleProc /\ proc[p].pc = "idle"
  BY DEF Init, IdleProc
<1>5. PlaceInv
  BY <1>4 DEF PlaceInv, PlaceOf, Fits
<1>6. HolderInSection /\ NothingLeftBehind
  BY <1>4 DEF Init, HolderInSection, NothingLeftBehind, InSection
<1> QED BY <1>3, <1>5, <1>6 DEF LockInv

(* A process begins an operation: it has a number of its own, and owns     *)
(* nothing yet.                                                            *)
LEMMA BeginKeeps ==
  ASSUME LockInv, NEW p \in Procs, NEW op \in Operations, Begin(p, op)
  PROVE  LockInv'
<1> DEFINE new == [IdleProc EXCEPT !.pc = FirstPlace(op.kind), !.op = op, !.number = started + 1]
<1>1. /\ proc[p].pc = "idle" /\ started \in Nat /\ started' = started + 1
      /\ proc' = [proc EXCEPT ![p] = new]
      /\ contents' = contents /\ holder' = holder /\ temps' = temps /\ lost' = lost
      /\ faults' = faults
  BY DEF Begin, LockInv, TypeOK
<1>2. /\ FirstPlace(op.kind) \in {"list", "find", "lock", "read", "fetch", "stat"}
      /\ Fits(FirstPlace(op.kind), op.kind)
      /\ FirstPlace(op.kind) = "read" => op.kind = "saveCapture"
  BY DEF Operations, FirstPlace, Fits
<1>3. new \in Proc
  <2>1. FirstPlace(op.kind) \in Places /\ started + 1 \in Nat
    BY <1>1, <1>2 DEF Places
  <2>2. IdleProc \in Proc
    BY BoundsAssumption DEF IdleProc, Proc, Places, NoKeys, Missing, NoOutcome, Outcomes
  <2> QED BY <2>1, <2>2 DEF Proc
<1>4. new.pc = FirstPlace(op.kind) /\ new.op = op /\ new.number = started + 1
  BY DEF IdleProc
<1>5. proc'[p] = new /\ \A q \in Procs \ {p} : proc'[q] = proc[q]
  BY <1>1 DEF LockInv, TypeOK
<1> HIDE DEF new
<1>6. TypeOK'
  BY <1>1, <1>3 DEF LockInv, TypeOK
<1>7. PlaceInv'
  <2>1. PlaceOf(p)'
    BY <1>1, <1>2, <1>4, <1>5 DEF PlaceOf, KindOf
  <2>2. \A q \in Procs \ {p} : PlaceOf(q)'
    BY <1>1, <1>5 DEF LockInv, PlaceInv, PlaceOf, KindOf
  <2>3. \A q \in Procs \ {p} : proc'[q].pc # "idle" => proc'[q].number \in 1..started
    BY <1>5 DEF LockInv, PlaceInv, PlaceOf
  <2>4. \A q \in Procs \ {p} : proc'[q].pc # "idle" => proc'[q].number # proc'[p].number
    BY <1>1, <1>4, <1>5, <2>3
  <2> QED BY <1>5, <2>1, <2>2, <2>4 DEF LockInv, PlaceInv
<1>8. ~InSection(p) /\ ~InSection(p)' /\ ~AtTemporary(p)
  BY <1>1, <1>2, <1>4, <1>5 DEF InSection, Locked, KindOf, AtTemporary
<1>9. \A q \in Procs \ {p} :
        /\ LockOf(q)' = LockOf(q) /\ (InSection(q)' <=> InSection(q))
        /\ AtTemporary(q)' <=> AtTemporary(q)
  BY <1>5 DEF LockOf, KindOf, InSection, Locked, AtTemporary
<1>10. HolderInSection'
  BY <1>1, <1>5, <1>8, <1>9 DEF LockInv, HolderInSection
<1>11. NothingLeftBehind'
  BY <1>1, <1>5, <1>8, <1>9 DEF LockInv, NothingLeftBehind, AtTemporary
<1> QED BY <1>6, <1>7, <1>10, <1>11 DEF LockInv

(* A process ends, or dies and is lost with all it held. *)
LEMMA EndKeeps ==
  ASSUME LockInv, NEW p \in Procs, Leave(p) \/ Crash(p)
  PROVE  LockInv'
<1>1. /\ proc[p].pc # "idle" /\ started' = started
      /\ proc' = [proc EXCEPT ![p] = IdleProc]
      /\ contents' = contents /\ holder' = holder /\ temps' = temps
      /\ faults' \in 0..MaxFaults
      /\ \/ lost' = lost /\ proc[p].pc = "done"
         \/ lost' = lost \cup {proc[p].number}
  BY FaultType DEF Leave, Crash, LockInv, TypeOK, NoFault
<1>2. IdleProc \in Proc /\ IdleProc.pc = "idle" /\ IdleProc.number = 0
  BY BoundsAssumption DEF IdleProc, Proc, Places, NoKeys, Missing, NoOutcome, Outcomes
<1>3. proc'[p] = IdleProc /\ \A q \in Procs \ {p} : proc'[q] = proc[q]
  BY <1>1 DEF LockInv, TypeOK
<1>4. proc[p].number \in Nat
  BY ProcFields DEF LockInv, TypeOK
<1>5. TypeOK'
  BY <1>1, <1>2, <1>4 DEF LockInv, TypeOK
<1>6. PlaceInv'
  <2>1. PlaceOf(p)'
    BY <1>2, <1>3 DEF PlaceOf, KindOf, Fits
  <2>2. \A q \in Procs \ {p} : PlaceOf(q)'
    BY <1>1, <1>3 DEF LockInv, PlaceInv, PlaceOf, KindOf
  <2> QED BY <1>2, <1>3, <2>1, <2>2 DEF LockInv, PlaceInv
<1>7. ~InSection(p)'
  BY <1>2, <1>3 DEF InSection
<1>8. \A q \in Procs \ {p} :
        /\ LockOf(q)' = LockOf(q) /\ (InSection(q)' <=> InSection(q))
        /\ AtTemporary(q)' <=> AtTemporary(q)
  BY <1>3 DEF LockOf, KindOf, InSection, Locked, AtTemporary
<1>9. InSection(p) \/ AtTemporary(p) => proc[p].number \in lost'
  BY <1>1 DEF InSection, AtTemporary
<1>10. HolderInSection'
  BY <1>1, <1>3, <1>7, <1>8 DEF LockInv, HolderInSection
<1>11. NothingLeftBehind'
  <2>1. ASSUME NEW lock \in Locks, holder[lock] # 0
        PROVE  \/ holder[lock] \in lost'
               \/ \E q \in Procs :
                    InSection(q)' /\ LockOf(q)' = lock /\ proc'[q].number = holder[lock]
    BY <1>1, <1>3, <1>8, <1>9, <2>1 DEF LockInv, NothingLeftBehind
  <2>2. ASSUME NEW n \in temps
        PROVE  n \in lost' \/ \E q \in Procs : proc'[q].number = n /\ AtTemporary(q)'
    BY <1>1, <1>3, <1>8, <1>9 DEF LockInv, NothingLeftBehind, AtTemporary
  <2> QED BY <1>1, <2>1, <2>2 DEF NothingLeftBehind, AtTemporary
<1> QED BY <1>5, <1>6, <1>10, <1>11 DEF LockInv

(* Every step keeps the invariant. *)
LEMMA LockInvNext == LockInv /\ [Next]_vars => LockInv'
<1> SUFFICES ASSUME LockInv, [Next]_vars PROVE LockInv'
  OBVIOUS
<1>1. CASE \E p \in Procs : Step(p) \/ ReadSecret(p)
  BY <1>1, StepTypes, StepPlaces, StepHolder, StepNothingLeft DEF LockInv
<1>2. CASE \E p \in Procs : Leave(p) \/ Crash(p)
  BY <1>2, EndKeeps
<1>3. CASE \E p \in Procs, op \in Operations : Begin(p, op)
  BY <1>3, BeginKeeps
<1>4. CASE EditConfig
  <2>1. contents' \in Contents
    BY <1>4 DEF EditConfig, LockInv, TypeOK, Contents
  <2> QED BY <1>4, <2>1 DEF EditConfig, LockInv, TypeOK, PlaceInv, PlaceOf, KindOf,
                            HolderInSection, NothingLeftBehind, InSection, Locked, LockOf
<1>5. CASE UNCHANGED vars
  BY <1>5 DEF vars, LockInv, TypeOK, PlaceInv, PlaceOf, KindOf,
              HolderInSection, NothingLeftBehind, InSection, Locked, LockOf
<1> QED BY <1>1, <1>2, <1>3, <1>4, <1>5 DEF Next

(* Every state satisfies the invariant. *)
THEOREM LockInvariant == Spec => []LockInv
<1>1. Init => LockInv
  BY LockInvInit
<1>2. LockInv /\ [Next]_vars => LockInv'
  BY LockInvNext
<1> QED BY <1>1, <1>2, PTL DEF Spec

(* The files, the lock directories and the processes keep their types.     *)
THEOREM LocalTypeCorrect == Spec => []TypeOK
<1>1. LockInv => TypeOK
  BY DEF LockInv
<1> QED BY <1>1, LockInvariant, PTL

(* Between its lock and its unlock a process owns the lock directory.      *)
THEOREM MutualExclusion == Spec => []HolderInSection
<1>1. LockInv => HolderInSection
  BY DEF LockInv
<1> QED BY <1>1, LockInvariant, PTL

(* Lock directories and temporary files outlive only processes that        *)
(* crashed, or could not remove them.                                      *)
THEOREM LeftBehindIsLost == Spec => []NothingLeftBehind
<1>1. LockInv => NothingLeftBehind
  BY DEF LockInv
<1> QED BY <1>1, LockInvariant, PTL


-----------------------------------------------------------------------------
(* What the local files keep. *)

(* What is known of an outcome at each place. *)
KnownOutcome(p) ==
  /\ proc[p].pc \in {"list", "prompt", "find", "fetch", "lock", "read", "write", "rename",
                     "stat", "writeStarter", "link"} => proc[p].outcome = NoOutcome
  /\ proc[p].pc = "clean" => proc[p].outcome = FailedOutcome
  /\ proc[p].pc = "unlock" =>
       proc[p].outcome.kind \in {"ok", "refused"} \/ proc[p].outcome = FailedOutcome
  /\ proc[p].pc = "unlink" => proc[p].outcome \in {FailedOutcome, OkOutcome(Missing)}
  /\ proc[p].pc = "load" => proc[p].outcome = OkOutcome(Missing)

(* What a process read under its lock is still what the file holds when it *)
(* replaces it.                                                            *)
StillSeen(p) ==
  proc[p].pc \in {"write", "rename"} =>
    /\ KindOf(p) = "getState" => contents.state = Missing
    /\ KindOf(p) \in {"connect", "reconnect", "disconnect"} =>
         proc[p].seen = contents.providers /\ ~Refused(proc[p].op, contents)

StoreInv == LockInv /\ \A p \in Procs : KnownOutcome(p) /\ StillSeen(p)

-----------------------------------------------------------------------------
(* The inductive invariant. *)

(* Two processes between lock and unlock hold different locks. *)
LEMMA SectionsApart ==
  ASSUME LockInv, NEW p \in Procs, NEW q \in Procs \ {p}, InSection(p), InSection(q)
  PROVE  LockOf(p) # LockOf(q)
<1>1. proc[p].number # proc[q].number
  BY DEF LockInv, PlaceInv, InSection
<1> QED BY <1>1 DEF LockInv, HolderInSection

(* A locked file changes only under its lock, and only by a rename. *)
LEMMA FilesUnderLocks ==
  ASSUME LockInv, NEW p \in Procs, Step(p) \/ ReadSecret(p)
  PROVE  /\ contents'.state # contents.state =>
              /\ Rename(p) /\ InSection(p) /\ LockOf(p) = "state"
         /\ contents'.providers # contents.providers =>
              /\ Rename(p) /\ InSection(p) /\ LockOf(p) = "providers"
         /\ contents.config = "edited" => contents'.config = "edited"
<1>1. contents \in Contents /\ proc \in [Procs -> Proc]
  BY DEF LockInv, TypeOK
<1>2. CASE Rename(p) /\ contents' = Written(p)
  <2>1. proc[p].op \in Operations /\ KindOf(p) \notin {"bootstrap", "findKey"}
    BY <1>2 DEF LockInv, PlaceInv, PlaceOf, Fits, Rename
  <2>2. KindOf(p) \in {"getState", "resetState", "connect", "reconnect", "disconnect",
                       "saveCapture", "refresh"}
    BY <2>1 DEF KindOf, Operations
  <2>3. contents'.config = contents.config
        /\ (contents'.state # contents.state => KindOf(p) \in {"getState", "resetState"})
        /\ (contents'.providers # contents.providers =>
              KindOf(p) \in {"connect", "reconnect", "disconnect"})
    BY <1>1, <1>2, <2>2 DEF Written, Contents
  <2> QED BY <1>2, <2>3 DEF Rename, InSection, Locked, LockOf
<1>3. CASE Link(p)
  BY <1>1, <1>3 DEF Link, Contents
<1>4. CASE ~Link(p) /\ ~(Rename(p) /\ contents' = Written(p))
  <2>1. contents' = contents
    BY <1>4 DEF Step, ReadSecret, ListConnections, FindByProviderId, FetchCatalog, Lock, Read,
       WriteTemporary, Rename, Clean, Unlock, Stat, WriteStarter, Unlink, Load
  <2> QED BY <2>1
<1> QED BY <1>2, <1>3, <1>4

(* The outcome of a process that goes on fits the place it goes to. *)
LEMMA StepOutcome ==
  ASSUME StoreInv, NEW p \in Procs, Step(p) \/ ReadSecret(p)
  PROVE  KnownOutcome(p)'
<1>1. /\ LockInv /\ KnownOutcome(p) /\ proc \in [Procs -> Proc] /\ contents \in Contents
      /\ Fits(proc[p].pc, KindOf(p)) /\ (proc[p].pc # "idle" => proc[p].op \in Operations)
      /\ proc[p].number \in Nat
  BY ProcFields DEF StoreInv, LockInv, TypeOK, PlaceInv, PlaceOf
<1>2. contents.state \in Nat /\ Missing \in Nat
  BY <1>1 DEF Contents, Missing
<1>3. KindOf(p) = "findKey" /\ proc[p].pc # "idle" =>
           contents.providers[proc[p].op.provider] \in Nat
  BY <1>1 DEF Contents, KindOf, Operations
<1>4. OkOutcome(Missing) # FailedOutcome
      /\ \A value \in Nat : OkOutcome(value).kind = "ok"
      /\ RefusedOutcome.kind = "refused"
  BY DEF OkOutcome, FailedOutcome, RefusedOutcome
<1>5. ASSUME NEW pc \in Places, Went(p, pc), proc'[p].outcome = proc[p].outcome,
             KnownOutcome(p),
             \/ pc \in {"list", "prompt", "find", "fetch", "lock", "read", "write", "rename",
                        "stat", "writeStarter", "link"} /\ proc[p].outcome = NoOutcome
             \/ pc = "unlock" /\ proc[p].outcome = FailedOutcome
             \/ pc = "load" /\ proc[p].outcome = OkOutcome(Missing)
             \/ pc = "done"
      PROVE  KnownOutcome(p)'
  BY <1>5 DEF Went, KnownOutcome
<1>6. ASSUME NEW pc \in Places, NEW outcome \in Outcomes, Turn(p, pc, outcome),
             \/ pc \in {"clean", "unlock", "unlink", "done"} /\ outcome = FailedOutcome
             \/ pc \in {"unlock", "done"} /\ outcome.kind \in {"ok", "refused"}
             \/ pc \in {"unlink", "load", "done"} /\ outcome = OkOutcome(Missing)
      PROVE  KnownOutcome(p)'
  BY <1>1, <1>6, Turned DEF Went, KnownOutcome
<1>7. CASE ListConnections(p)
  BY <1>1, <1>4, <1>5, <1>6, <1>7, WentTo, OutcomeTypes
     DEF ListConnections, Places, KnownOutcome
<1>8. CASE FindByProviderId(p)
  BY <1>1, <1>3, <1>4, <1>5, <1>6, <1>8, WentTo, OutcomeTypes
     DEF FindByProviderId, Places, KnownOutcome
<1>9. CASE FetchCatalog(p)
  BY <1>1, <1>5, <1>6, <1>9, WentTo, OutcomeTypes DEF FetchCatalog, Places, KnownOutcome
<1>10. CASE ReadSecret(p)
  BY <1>1, <1>5, <1>6, <1>10, WentTo, OutcomeTypes DEF ReadSecret, Places, KnownOutcome
<1>11. CASE Lock(p)
  BY <1>1, <1>5, <1>6, <1>11, WentTo, TriedAgain, OutcomeTypes DEF Lock, Places, KnownOutcome
<1>12. CASE Read(p)
  <2>1. AfterFile(p) \in Places /\ AfterFile(p) \in {"unlock", "done"}
    BY DEF AfterFile, Places
  <2> QED BY <1>1, <1>2, <1>4, <1>5, <1>6, <1>12, <2>1, WentTo, Saw, OutcomeTypes
             DEF Read, Places, KnownOutcome
<1>13. CASE WriteTemporary(p)
  BY <1>1, <1>5, <1>6, <1>13, WentTo, OutcomeTypes DEF WriteTemporary, Places, KnownOutcome
<1>14. CASE Rename(p)
  <2>1. AfterFile(p) \in Places /\ AfterFile(p) \in {"unlock", "done"}
    BY DEF AfterFile, Places
  <2> QED BY <1>1, <1>4, <1>6, <1>14, <2>1, OutcomeTypes DEF Rename, Places
<1>15. CASE Clean(p)
  <2>1. AfterFile(p) \in Places /\ AfterFile(p) \in {"unlock", "done"}
    BY DEF AfterFile, Places
  <2> QED BY <1>1, <1>5, <1>15, <2>1, WentTo DEF Clean, Places, KnownOutcome
<1>16. CASE Unlock(p)
  BY <1>1, <1>5, <1>6, <1>16, WentTo, OutcomeTypes DEF Unlock, Places, KnownOutcome
<1>17. CASE Stat(p)
  BY <1>1, <1>2, <1>4, <1>5, <1>6, <1>17, WentTo, OutcomeTypes DEF Stat, Places, KnownOutcome
<1>18. CASE WriteStarter(p)
  BY <1>1, <1>5, <1>6, <1>18, WentTo, OutcomeTypes DEF WriteStarter, Places, KnownOutcome
<1>19. CASE Link(p)
  BY <1>1, <1>2, <1>4, <1>6, <1>19, OutcomeTypes DEF Link, Places
<1>20. CASE Unlink(p)
  BY <1>1, <1>4, <1>5, <1>6, <1>20, WentTo, OutcomeTypes DEF Unlink, Places, KnownOutcome
<1>21. CASE Load(p)
  BY <1>1, <1>5, <1>6, <1>21, WentTo, OutcomeTypes DEF Load, Places, KnownOutcome
<1> QED
  BY <1>7, <1>8, <1>9, <1>10, <1>11, <1>12, <1>13, <1>14, <1>15, <1>16, <1>17, <1>18,
     <1>19, <1>20, <1>21 DEF Step

(* Whoever goes on, what a process read is still there. *)
LEMMA StepSeen ==
  ASSUME StoreInv, NEW p \in Procs, Step(p) \/ ReadSecret(p), NEW q \in Procs
  PROVE  StillSeen(q)'
<1>1. PICK pc \in Places \ {"idle"} : Went(p, pc) /\ Fits(pc, KindOf(p)) /\ Follows(p, pc)
  BY StepMoves DEF Moved, StoreInv, LockInv
<1>2. SUFFICES ASSUME proc'[q].pc \in {"write", "rename"}
               PROVE  StillSeen(q)'
  BY DEF StillSeen
<1>3. /\ proc \in [Procs -> Proc] /\ contents \in Contents /\ Fits(proc[q].pc, KindOf(q))
      /\ StillSeen(q) /\ LockInv
  BY DEF StoreInv, LockInv, TypeOK, PlaceInv, PlaceOf
<1>4. KindOf(q)' = KindOf(q) /\ proc'[q].op = proc[q].op
  BY <1>1 DEF Went, KindOf
<1>5. CASE q = p
  <2>1. CASE WriteTemporary(p)
    <3>1. proc'[p].seen = proc[p].seen /\ contents' = contents /\ proc[p].pc = "write"
      BY <1>2, <1>3, <1>5, <2>1, WentTo, Turned, OutcomeTypes DEF WriteTemporary, Places
    <3> QED BY <1>3, <1>4, <1>5, <3>1 DEF StillSeen, Refused
  <2>2. CASE Read(p)
    <3>1. /\ proc'[p].seen = contents.providers /\ contents' = contents
          /\ ~KeepsState(p) /\ ~Refused(proc[p].op, contents)
      <4>1. ~Turn(p, AfterFile(p), FailedOutcome) /\ ~Turn(p, "unlock", RefusedOutcome)
            /\ ~Turn(p, "unlock", OkOutcome(contents.state))
        BY <1>2, <1>3, <1>5, Turned, OutcomeTypes DEF AfterFile, Places, Went, Contents
      <4> QED BY <1>3, <2>2, <4>1, Saw DEF Read
    <3> QED BY <1>4, <1>5, <3>1 DEF StillSeen, Refused, KeepsState
  <2>3. CASE ~WriteTemporary(p) /\ ~Read(p)
    <3>1. proc[p].pc \in {"lock", "fetch"}
      BY <1>1, <1>2, <1>5, <2>3, StepMoves
         DEF Follows, Moved, Went, AfterFile, StoreInv, LockInv,
             Step, ReadSecret, ListConnections, FindByProviderId, FetchCatalog, Lock, Rename,
             Clean, Unlock, Stat, WriteStarter, Link, Unlink, Load
    <3>2. KindOf(p) \in {"resetState", "refresh"}
      BY <1>1, <1>2, <1>3, <1>5, <3>1, WentTo, Turned, TriedAgain, OutcomeTypes
         DEF Lock, Fits, Went, Places, Step, ReadSecret, ListConnections, FindByProviderId,
             FetchCatalog, Rename, Clean, Unlock, Stat, WriteStarter, Link, Unlink, Load, Read,
             WriteTemporary
    <3> QED BY <1>4, <1>5, <3>2 DEF StillSeen
  <2> QED BY <2>1, <2>2, <2>3
<1>6. CASE q # p
  <2>1. proc'[q] = proc[q]
    BY <1>1, <1>6 DEF Went
  <2>2. ASSUME KindOf(q) = "getState"
        PROVE  contents'.state = contents.state
    <3>1. InSection(q) /\ LockOf(q) = "state"
      BY <1>2, <2>1, <2>2 DEF InSection, Locked, LockOf
    <3> QED BY <1>3, <1>6, <3>1, FilesUnderLocks, SectionsApart
  <2>3. ASSUME KindOf(q) \in {"connect", "reconnect", "disconnect"}
        PROVE  contents'.providers = contents.providers
    <3>1. InSection(q) /\ LockOf(q) = "providers"
      BY <1>2, <2>1, <2>3 DEF InSection, Locked, LockOf
    <3> QED BY <1>3, <1>6, <3>1, FilesUnderLocks, SectionsApart
  <2> QED BY <1>2, <1>3, <1>4, <2>1, <2>2, <2>3 DEF StillSeen, Refused
<1> QED BY <1>5, <1>6

(* Nothing is seen or answered at first. *)
LEMMA StoreInvInit == Init => StoreInv
<1> SUFFICES ASSUME Init PROVE StoreInv
  OBVIOUS
<1>1. \A p \in Procs : KnownOutcome(p) /\ StillSeen(p)
  BY DEF Init, IdleProc, KnownOutcome, StillSeen
<1> QED BY <1>1, LockInvInit DEF StoreInv

(* Every step keeps the invariant. *)
LEMMA StoreInvNext == StoreInv /\ [Next]_vars => StoreInv'
<1> SUFFICES ASSUME StoreInv, [Next]_vars PROVE \A q \in Procs : KnownOutcome(q)' /\ StillSeen(q)'
  BY LockInvNext DEF StoreInv
<1> TAKE q \in Procs
<1>1. proc \in [Procs -> Proc] /\ KnownOutcome(q) /\ StillSeen(q) /\ LockInv
  BY DEF StoreInv, LockInv, TypeOK
<1>2. CASE \E p \in Procs : Step(p) \/ ReadSecret(p)
  <2>1. PICK p \in Procs : Step(p) \/ ReadSecret(p)
    BY <1>2
  <2>2. KnownOutcome(q)'
    <3>1. CASE q = p
      BY <2>1, <3>1, StepOutcome
    <3>2. CASE q # p
      <4>1. proc'[q] = proc[q]
        BY <1>1, <2>1, <3>2, StepMoves DEF Moved, Went, LockInv
      <4> QED BY <1>1, <4>1 DEF KnownOutcome
    <3> QED BY <3>1, <3>2
  <2> QED BY <2>1, <2>2, StepSeen
<1>3. CASE \E p \in Procs : Leave(p) \/ Crash(p)
  <2>1. proc'[q] \in {IdleProc, proc[q]} /\ contents' = contents
    BY <1>1, <1>3 DEF Leave, Crash
  <2> QED BY <1>1, <2>1 DEF KnownOutcome, StillSeen, IdleProc, KindOf, Refused
<1>4. CASE \E p \in Procs, op \in Operations : Begin(p, op)
  <2>1. PICK p \in Procs, op \in Operations : Begin(p, op)
    BY <1>4
  <2>2. contents' = contents
    BY <2>1 DEF Begin
  <2>3. CASE q = p
    <3>1. /\ proc'[q].pc = FirstPlace(op.kind) /\ proc'[q].outcome = NoOutcome
          /\ FirstPlace(op.kind) \in {"list", "find", "lock", "read", "fetch", "stat"}
      <4>1. FirstPlace(op.kind) \in {"list", "find", "lock", "read", "fetch", "stat"}
        BY DEF Operations, FirstPlace
      <4> QED BY <1>1, <2>1, <2>3, <4>1 DEF Begin, IdleProc
    <3> QED BY <3>1 DEF KnownOutcome, StillSeen
  <2>4. CASE q # p
    <3>1. proc'[q] = proc[q]
      BY <1>1, <2>1, <2>4 DEF Begin
    <3> QED BY <1>1, <2>2, <3>1 DEF KnownOutcome, StillSeen, KindOf, Refused
  <2> QED BY <2>3, <2>4
<1>5. CASE EditConfig
  <2>1. proc' = proc /\ contents'.state = contents.state
        /\ contents'.providers = contents.providers
    BY <1>1, <1>5 DEF EditConfig, LockInv, TypeOK, Contents
  <2> QED BY <1>1, <2>1 DEF KnownOutcome, StillSeen, KindOf, Refused
<1>6. CASE UNCHANGED vars
  BY <1>1, <1>6 DEF vars, KnownOutcome, StillSeen, KindOf, Refused
<1> QED BY <1>2, <1>3, <1>4, <1>5, <1>6 DEF Next

(* Every state satisfies the invariant. *)
THEOREM StoreInvariant == Spec => []StoreInv
<1>1. Init => StoreInv
  BY StoreInvInit
<1>2. StoreInv /\ [Next]_vars => StoreInv'
  BY StoreInvNext
<1> QED BY <1>1, <1>2, PTL DEF Spec

-----------------------------------------------------------------------------
(* What the files keep. *)

(* A device identity gives way only to the rename of a reset.              *)
THEOREM IdentityIsKept == Spec => IdentityKept
<1>1. ASSUME StoreInv, [Next]_vars
      PROVE  [contents.state # Missing /\ contents'.state # contents.state =>
                \E p \in Procs : Rename(p) /\ KindOf(p) = "resetState"]_vars
  <2>1. SUFFICES ASSUME Next, contents.state # Missing, contents'.state # contents.state
                 PROVE  \E p \in Procs : Rename(p) /\ KindOf(p) = "resetState"
    BY <1>1 DEF vars
  <2>2. contents \in Contents /\ LockInv
    BY <1>1 DEF StoreInv, LockInv, TypeOK
  <2>3. \E p \in Procs : Step(p) \/ ReadSecret(p)
    BY <2>1, <2>2 DEF Next, Leave, Crash, Begin, EditConfig, Contents
  <2>4. PICK p \in Procs : Step(p) \/ ReadSecret(p)
    BY <2>3
  <2>5. Rename(p) /\ InSection(p) /\ LockOf(p) = "state"
    BY <2>1, <2>2, <2>4, FilesUnderLocks
  <2>6. proc[p].pc = "rename" /\ KindOf(p) \in {"getState", "resetState"}
    BY <2>5 DEF Rename, LockOf
  <2>7. KindOf(p) # "getState"
    BY <1>1, <2>1, <2>6 DEF StoreInv, StillSeen
  <2> QED BY <2>5, <2>6, <2>7
<1> QED BY <1>1, StoreInvariant, PTL DEF Spec, IdentityKept

(* A configuration file that exists is never replaced by the starter.      *)
THEOREM ConfigIsKept == Spec => ConfigKept
<1>1. ASSUME LockInv, [Next]_vars
      PROVE  [contents.config = "edited" => contents'.config # "starter"]_vars
  <2>1. contents \in Contents
    BY <1>1 DEF LockInv, TypeOK
  <2>2. CASE \E p \in Procs : Step(p) \/ ReadSecret(p)
    BY <1>1, <2>2, FilesUnderLocks
  <2>3. CASE ~ \E p \in Procs : Step(p) \/ ReadSecret(p)
    BY <1>1, <2>1, <2>3 DEF Next, Leave, Crash, Begin, EditConfig, Contents, vars
  <2> QED BY <2>2, <2>3
<1> QED BY <1>1, LockInvariant, PTL DEF Spec, ConfigKept

-----------------------------------------------------------------------------
(* LocalFiles implements LocalStore. *)

(* The others stay where they are. *)
OnlyMoves(p) == \A q \in Procs \ {p} : proc'[q] = proc[q]

(* What a process shows of its call at each place. *)
LEMMA CallNow ==
  ASSUME NEW p \in Procs
  PROVE  /\ proc[p].pc = "idle" =>
              StoreCall(p) = [phase |-> "idle", op |-> proc[p].op, number |-> proc[p].number,
                              outcome |-> proc[p].outcome]
         /\ proc[p].pc = "done" =>
              StoreCall(p) = [phase |-> "answered", op |-> proc[p].op,
                              number |-> proc[p].number, outcome |-> proc[p].outcome]
         /\ proc[p].pc \notin {"idle", "done"} /\ proc[p].outcome.kind \in {"ok", "refused"} =>
              StoreCall(p) = [phase |-> "effective", op |-> proc[p].op,
                              number |-> proc[p].number, outcome |-> proc[p].outcome]
         /\ proc[p].pc \notin {"idle", "done"} /\ proc[p].outcome.kind \notin {"ok", "refused"} =>
              StoreCall(p) = [phase |-> "called", op |-> proc[p].op,
                              number |-> proc[p].number, outcome |-> NoOutcome]
BY DEF StoreCall, PhaseOf

(* The same after a step. *)
LEMMA CallThen ==
  ASSUME NEW p \in Procs
  PROVE  /\ proc'[p].pc = "idle" =>
              StoreCall(p)' = [phase |-> "idle", op |-> proc'[p].op, number |-> proc'[p].number,
                               outcome |-> proc'[p].outcome]
         /\ proc'[p].pc = "done" =>
              StoreCall(p)' = [phase |-> "answered", op |-> proc'[p].op,
                               number |-> proc'[p].number, outcome |-> proc'[p].outcome]
         /\ proc'[p].pc \notin {"idle", "done"} /\ proc'[p].outcome.kind \in {"ok", "refused"} =>
              StoreCall(p)' = [phase |-> "effective", op |-> proc'[p].op,
                               number |-> proc'[p].number, outcome |-> proc'[p].outcome]
         /\ proc'[p].pc \notin {"idle", "done"}
              /\ proc'[p].outcome.kind \notin {"ok", "refused"} =>
              StoreCall(p)' = [phase |-> "called", op |-> proc'[p].op,
                               number |-> proc'[p].number, outcome |-> NoOutcome]
BY DEF StoreCall, PhaseOf

(* One process changes the calls at its own place. *)
LEMMA OneCall ==
  ASSUME NEW p \in Procs, OnlyMoves(p)
  PROVE  [q \in Procs |-> StoreCall(q)]'
           = [[q \in Procs |-> StoreCall(q)] EXCEPT ![p] = StoreCall(p)']
BY DEF OnlyMoves, StoreCall, PhaseOf

(* A step that shows nothing. *)
LEMMA StoreStutters ==
  ASSUME NEW p \in Procs, OnlyMoves(p), contents' = contents, started' = started,
         StoreCall(p)' = StoreCall(p)
  PROVE  UNCHANGED Store!vars
<1>1. [q \in Procs |-> StoreCall(q)]' = [q \in Procs |-> StoreCall(q)]
  BY OneCall
<1> QED BY <1>1 DEF Store!vars

(* A call, field by field. *)
CallOf(p, phase, outcome) ==
  [phase |-> phase, op |-> proc[p].op, number |-> proc[p].number, outcome |-> outcome]

(* A call whose phase and outcome change. *)
LEMMA CallTurns ==
  ASSUME NEW p, NEW phase, NEW outcome, NEW next, NEW result
  PROVE  /\ Store!Turned(CallOf(p, phase, outcome), next, result) = CallOf(p, next, result)
         /\ CallOf(p, phase, outcome).phase = phase
         /\ CallOf(p, phase, outcome).op = proc[p].op
         /\ CallOf(p, phase, outcome).number = proc[p].number
         /\ CallOf(p, phase, outcome).outcome = outcome
BY DEF CallOf, Store!Turned

(* A step that fails a call. *)
LEMMA StoreFails ==
  ASSUME NEW p \in Procs, OnlyMoves(p), contents' = contents, started' = started,
         NEW phase \in {"called", "effective"}, NEW outcome,
         StoreCall(p) = CallOf(p, phase, outcome),
         StoreCall(p)' = CallOf(p, "answered", FailedOutcome)
  PROVE  Store!Next
<1>1. [q \in Procs |-> StoreCall(q)][p] = CallOf(p, phase, outcome)
  OBVIOUS
<1>2. [q \in Procs |-> StoreCall(q)]'
        = [[q \in Procs |-> StoreCall(q)] EXCEPT
             ![p] = Store!Turned(CallOf(p, phase, outcome), "answered", FailedOutcome)]
  BY CallTurns, OneCall
<1>3. Store!FailedOutcome = FailedOutcome
  BY DEF Store!FailedOutcome, FailedOutcome, Missing, Store!Missing
<1>4. Store!Fail(p)
  BY <1>1, <1>2, <1>3, CallTurns DEF Store!Fail
<1> QED BY <1>4 DEF Store!Next

(* A step that answers a call that took effect. *)
LEMMA StoreAnswers ==
  ASSUME NEW p \in Procs, OnlyMoves(p), contents' = contents, started' = started,
         NEW outcome, StoreCall(p) = CallOf(p, "effective", outcome),
         StoreCall(p)' = CallOf(p, "answered", outcome)
  PROVE  Store!Next
<1>1. [q \in Procs |-> StoreCall(q)][p] = CallOf(p, "effective", outcome)
  OBVIOUS
<1>2. [q \in Procs |-> StoreCall(q)]'
        = [[q \in Procs |-> StoreCall(q)] EXCEPT
             ![p] = Store!Turned(CallOf(p, "effective", outcome), "answered", outcome)]
  BY CallTurns, OneCall
<1>3. /\ CallOf(p, "effective", outcome).phase = "effective"
      /\ CallOf(p, "effective", outcome).outcome = outcome
  BY CallTurns
<1>4. Store!Answer(p)
  BY <1>1, <1>2, <1>3 DEF Store!Answer
<1> QED BY <1>4 DEF Store!Next

(* A step with which a call takes effect. *)
LEMMA StoreTakesEffect ==
  ASSUME NEW p \in Procs, OnlyMoves(p), started' = started, NEW outcome,
         StoreCall(p) = CallOf(p, "called", NoOutcome),
         contents' = Store!Changed(proc[p].op, proc[p].number, contents),
         outcome = Store!Outcome(proc[p].op, proc[p].number, contents),
         NEW phase \in {"effective", "answered"},
         StoreCall(p)' = CallOf(p, phase, outcome)
  PROVE  Store!Next
<1>1. [q \in Procs |-> StoreCall(q)][p] = CallOf(p, "called", NoOutcome)
  OBVIOUS
<1>2. [q \in Procs |-> StoreCall(q)]'
        = [[q \in Procs |-> StoreCall(q)] EXCEPT
             ![p] = Store!Turned(CallOf(p, "called", NoOutcome), phase, outcome)]
  BY CallTurns, OneCall
<1>3. /\ CallOf(p, "called", NoOutcome).phase = "called"
      /\ CallOf(p, "called", NoOutcome).op = proc[p].op
      /\ CallOf(p, "called", NoOutcome).number = proc[p].number
  BY CallTurns
<1>4. Store!TakeEffect(p)
  BY <1>1, <1>2, <1>3 DEF Store!TakeEffect
<1> QED BY <1>4 DEF Store!Next

(* A process that goes on without effect, or keeps the effect it had. *)
LEMMA GoesOn ==
  ASSUME NEW p \in Procs, NEW pc \in Places \ {"idle", "done"}, Went(p, pc),
         proc[p].pc \notin {"idle", "done"}, contents' = contents, started' = started,
         \/ proc'[p].outcome = proc[p].outcome
         \/ proc[p].outcome.kind \notin {"ok", "refused"}
              /\ proc'[p].outcome.kind \notin {"ok", "refused"}
  PROVE  UNCHANGED Store!vars
<1>1. proc'[p].pc \notin {"idle", "done"} /\ proc'[p].op = proc[p].op
      /\ proc'[p].number = proc[p].number
  BY DEF Went
<1>2. StoreCall(p)' = StoreCall(p)
  <2>1. CASE proc[p].outcome.kind \notin {"ok", "refused"}
    BY <1>1, <2>1, CallNow, CallThen
  <2>2. CASE proc[p].outcome.kind \in {"ok", "refused"}
    BY <1>1, <2>2, CallNow, CallThen
  <2> QED BY <2>1, <2>2
<1>3. OnlyMoves(p)
  BY DEF Went, OnlyMoves
<1> QED BY <1>2, <1>3, StoreStutters

(* A process that ends with a failure. *)
LEMMA EndsFailed ==
  ASSUME NEW p \in Procs, Went(p, "done"), proc'[p].outcome = FailedOutcome,
         proc[p].pc \notin {"idle", "done"}, contents' = contents, started' = started
  PROVE  Store!Next
<1>1. proc'[p].pc = "done" /\ proc'[p].op = proc[p].op /\ proc'[p].number = proc[p].number
  BY DEF Went
<1>2. StoreCall(p)' = CallOf(p, "answered", FailedOutcome)
  BY <1>1, CallThen DEF CallOf
<1>3. \E phase \in {"called", "effective"}, outcome \in {NoOutcome, proc[p].outcome} :
        StoreCall(p) = CallOf(p, phase, outcome)
  BY CallNow DEF CallOf
<1>4. OnlyMoves(p)
  BY DEF Went, OnlyMoves
<1> QED BY <1>2, <1>3, <1>4, StoreFails

(* A process that ends after its effect. *)
LEMMA EndsEffective ==
  ASSUME NEW p \in Procs, Went(p, "done"), proc'[p].outcome = proc[p].outcome,
         proc[p].outcome.kind \in {"ok", "refused"},
         proc[p].pc \notin {"idle", "done"}, contents' = contents, started' = started
  PROVE  Store!Next
<1>1. proc'[p].pc = "done" /\ proc'[p].op = proc[p].op /\ proc'[p].number = proc[p].number
  BY DEF Went
<1>2. StoreCall(p)' = CallOf(p, "answered", proc[p].outcome)
  BY <1>1, CallThen DEF CallOf
<1>3. StoreCall(p) = CallOf(p, "effective", proc[p].outcome)
  BY CallNow DEF CallOf
<1>4. OnlyMoves(p)
  BY DEF Went, OnlyMoves
<1> QED BY <1>2, <1>3, <1>4, StoreAnswers

(* A process whose operation takes effect. *)
LEMMA HasEffect ==
  ASSUME NEW p \in Procs, NEW pc \in Places \ {"idle"}, Went(p, pc),
         proc[p].pc \notin {"idle", "done"}, proc[p].outcome.kind \notin {"ok", "refused"},
         proc'[p].outcome.kind \in {"ok", "refused"},
         proc'[p].outcome = Store!Outcome(proc[p].op, proc[p].number, contents),
         contents' = Store!Changed(proc[p].op, proc[p].number, contents), started' = started
  PROVE  Store!Next
<1>1. StoreCall(p) = CallOf(p, "called", NoOutcome)
  BY CallNow DEF CallOf
<1>2. proc'[p].pc = pc /\ proc'[p].op = proc[p].op /\ proc'[p].number = proc[p].number
  BY DEF Went
<1>3. \E phase \in {"effective", "answered"} :
        StoreCall(p)' = CallOf(p, phase, proc'[p].outcome)
  <2>1. CASE pc = "done"
    BY <1>2, <2>1, CallThen DEF CallOf
  <2>2. CASE pc # "done"
    BY <1>2, <2>2, CallThen DEF CallOf
  <2> QED BY <2>1, <2>2
<1>4. OnlyMoves(p)
  BY DEF Went, OnlyMoves
<1> QED BY <1>1, <1>3, <1>4, StoreTakesEffect

(* Effects that leave the files as they are. *)
LEMMA StoreReads ==
  ASSUME NEW op \in Operations, NEW n, NEW c
  PROVE  /\ Refused(op, c) =>
              Store!Changed(op, n, c) = c /\ Store!Outcome(op, n, c) = RefusedOutcome
         /\ op.kind = "findKey" =>
              /\ Store!Changed(op, n, c) = c
              /\ Store!Outcome(op, n, c) = OkOutcome(c.providers[op.provider])
         /\ op.kind = "getState" /\ c.state # Missing =>
              Store!Changed(op, n, c) = c /\ Store!Outcome(op, n, c) = OkOutcome(c.state)
         /\ op.kind = "bootstrap" /\ c.config # "missing" =>
              Store!Changed(op, n, c) = c /\ Store!Outcome(op, n, c) = OkOutcome(Missing)
BY DEF Refused, Store!Refused, Store!Changed, Store!Outcome, RefusedOutcome, OkOutcome, Missing,
       Store!RefusedOutcome, Store!OkOutcome, Store!Missing

(* A starter that is published is an effect on the configuration. *)
LEMMA StoreStarts ==
  ASSUME NEW op \in Operations, NEW n, NEW c, op.kind = "bootstrap", c.config = "missing"
  PROVE  /\ Store!Changed(op, n, c) = [c EXCEPT !.config = "starter"]
         /\ Store!Outcome(op, n, c) = OkOutcome(Missing)
BY DEF Store!Refused, Store!Changed, Store!Outcome, OkOutcome, Missing, Store!OkOutcome,
       Store!Missing

(* The file a process writes is the effect of its operation. *)
LEMMA StoreWrites ==
  ASSUME StoreInv, NEW p \in Procs, proc[p].pc = "rename"
  PROVE  /\ Store!Changed(proc[p].op, proc[p].number, contents) = Written(p)
         /\ Store!Outcome(proc[p].op, proc[p].number, contents) = OkOutcome(proc[p].number)
<1>1. /\ proc[p].op \in Operations /\ KindOf(p) \notin {"bootstrap", "findKey"}
      /\ contents \in Contents /\ StillSeen(p)
  BY DEF StoreInv, LockInv, TypeOK, PlaceInv, PlaceOf, Fits
<1>2. KindOf(p) \in {"getState", "resetState", "connect", "reconnect", "disconnect",
                     "saveCapture", "refresh"}
  BY <1>1 DEF KindOf, Operations
<1>3. ~Refused(proc[p].op, contents)
  BY <1>1, <1>2 DEF StillSeen, Refused, KindOf
<1>4. ~Store!Refused(proc[p].op, contents)
  BY <1>3 DEF Refused, Store!Refused, Missing, Store!Missing
<1>5. CASE KindOf(p) = "getState"
  <2>1. contents.state = Missing
    BY <1>1, <1>5 DEF StillSeen
  <2> QED BY <1>1, <1>4, <1>5, <2>1 DEF KindOf, Written, Store!Changed, Store!Outcome, Contents,
             OkOutcome, Missing, Store!OkOutcome, Store!Missing
<1>6. CASE KindOf(p) \in {"resetState", "saveCapture", "refresh"}
  BY <1>1, <1>4, <1>6 DEF KindOf, Written, Store!Changed, Store!Outcome,
     OkOutcome, Store!OkOutcome
<1>7. CASE KindOf(p) \in {"connect", "reconnect", "disconnect"}
  <2>1. proc[p].seen = contents.providers
    BY <1>1, <1>7 DEF StillSeen
  <2> QED BY <1>1, <1>4, <1>7, <2>1 DEF KindOf, Written, Store!Changed, Store!Outcome, Contents,
             OkOutcome, Missing, Store!OkOutcome, Store!Missing
<1> QED BY <1>2, <1>5, <1>6, <1>7

(* A process that goes on with its operation is a step of the store. *)
LEMMA StoreStep ==
  ASSUME StoreInv, NEW p \in Procs, Step(p) \/ ReadSecret(p)
  PROVE  Store!Next \/ UNCHANGED Store!vars
<1>1. /\ KnownOutcome(p) /\ proc \in [Procs -> Proc] /\ contents \in Contents
      /\ proc[p].pc \notin {"idle", "done"} /\ started' = started
      /\ proc[p].op \in Operations /\ proc[p].number \in Nat /\ Fits(proc[p].pc, KindOf(p))
  BY StepMoves, ProcFields DEF Moved, StoreInv, LockInv, TypeOK, PlaceInv, PlaceOf
<1>2. /\ contents.state \in Nat /\ Missing \in Nat
      /\ KindOf(p) = "findKey" => contents.providers[proc[p].op.provider] \in Nat
  BY <1>1 DEF Contents, Missing, KindOf, Operations
<1>3. /\ NoOutcome.kind \notin {"ok", "refused"} /\ FailedOutcome.kind \notin {"ok", "refused"}
      /\ RefusedOutcome.kind \in {"ok", "refused"}
      /\ \A value \in Nat : OkOutcome(value).kind \in {"ok", "refused"}
  BY DEF NoOutcome, FailedOutcome, RefusedOutcome, OkOutcome
<1>4. ASSUME Turn(p, "done", FailedOutcome), contents' = contents
      PROVE  Store!Next
  BY <1>1, <1>4, Turned, EndsFailed, OutcomeTypes DEF Places
<1>5. ASSUME NEW pc \in Places \ {"idle", "done"}, Goto(p, pc), contents' = contents
      PROVE  UNCHANGED Store!vars
  BY <1>1, <1>5, WentTo, GoesOn
<1>6. ASSUME NEW pc \in Places \ {"idle", "done"}, Turn(p, pc, FailedOutcome),
             proc[p].outcome = NoOutcome, contents' = contents
      PROVE  UNCHANGED Store!vars
  BY <1>1, <1>3, <1>6, Turned, GoesOn, OutcomeTypes
<1>7. ASSUME NEW pc \in Places \ {"idle"}, NEW outcome \in Outcomes, Turn(p, pc, outcome),
             proc[p].outcome = NoOutcome, outcome.kind \in {"ok", "refused"},
             outcome = Store!Outcome(proc[p].op, proc[p].number, contents),
             contents' = Store!Changed(proc[p].op, proc[p].number, contents)
      PROVE  Store!Next
  BY <1>1, <1>3, <1>7, Turned, HasEffect
<1>8. ASSUME NEW pc \in Places \ {"idle"}, Turn(p, pc, RefusedOutcome),
             proc[p].outcome = NoOutcome, Refused(proc[p].op, contents), contents' = contents
      PROVE  Store!Next
  BY <1>1, <1>3, <1>7, <1>8, StoreReads, OutcomeTypes
<1>9. CASE ListConnections(p)
  BY <1>1, <1>4, <1>5, <1>8, <1>9 DEF ListConnections, KnownOutcome, Places
<1>10. CASE ReadSecret(p)
  BY <1>1, <1>4, <1>5, <1>10 DEF ReadSecret, Places
<1>11. CASE FindByProviderId(p)
  <2>1. ASSUME KindOf(p) = "findKey",
               Turn(p, "done", OkOutcome(contents.providers[proc[p].op.provider]))
        PROVE  Store!Next
    <3>1. OkOutcome(contents.providers[proc[p].op.provider]) \in Outcomes
          /\ OkOutcome(contents.providers[proc[p].op.provider]).kind \in {"ok", "refused"}
      BY <1>2, <1>3, <2>1, OutcomeTypes
    <3>2. proc[p].outcome = NoOutcome /\ contents' = contents /\ proc[p].op.kind = "findKey"
      BY <1>1, <1>11, <2>1 DEF FindByProviderId, KnownOutcome, KindOf
    <3> QED BY <1>1, <1>7, <2>1, <3>1, <3>2, StoreReads DEF Places
  <2> QED BY <1>1, <1>4, <1>5, <1>8, <1>11, <2>1 DEF FindByProviderId, KnownOutcome, Places
<1>12. CASE FetchCatalog(p)
  BY <1>1, <1>4, <1>5, <1>12 DEF FetchCatalog, Places
<1>13. CASE Lock(p)
  <2>1. ASSUME proc[p].attempts < MaxAttempts, proc' = [proc EXCEPT ![p].attempts = @ + 1]
        PROVE  UNCHANGED Store!vars
    BY <1>1, <1>13, <2>1, TriedAgain, GoesOn DEF Lock, Places
  <2> QED BY <1>1, <1>4, <1>5, <1>13, <2>1 DEF Lock, Places
<1>14. CASE Read(p)
  <2>1. ASSUME KeepsState(p), Turn(p, "unlock", OkOutcome(contents.state))
        PROVE  Store!Next
    <3>1. OkOutcome(contents.state) \in Outcomes
          /\ OkOutcome(contents.state).kind \in {"ok", "refused"}
      BY <1>2, <1>3, OutcomeTypes
    <3>2. /\ proc[p].outcome = NoOutcome /\ contents' = contents
          /\ proc[p].op.kind = "getState" /\ contents.state # Missing
      BY <1>1, <1>14, <2>1 DEF Read, KnownOutcome, KindOf, KeepsState
    <3> QED BY <1>1, <1>7, <2>1, <3>1, <3>2, StoreReads DEF Places
  <2>2. ASSUME proc' = [proc EXCEPT ![p].pc = "write", ![p].seen = contents.providers]
        PROVE  UNCHANGED Store!vars
    BY <1>1, <1>14, <2>2, Saw, GoesOn DEF Read, Places
  <2>3. ASSUME Turn(p, AfterFile(p), FailedOutcome)
        PROVE  Store!Next \/ UNCHANGED Store!vars
    BY <1>1, <1>4, <1>6, <1>14, <2>3 DEF Read, KnownOutcome, AfterFile, Places
  <2> QED BY <1>1, <1>8, <1>14, <2>1, <2>2, <2>3 DEF Read, KnownOutcome, Places
<1>15. CASE WriteTemporary(p)
  BY <1>1, <1>5, <1>6, <1>15 DEF WriteTemporary, KnownOutcome, Places
<1>16. CASE Rename(p)
  <2>1. ASSUME contents' = Written(p), Turn(p, AfterFile(p), OkOutcome(proc[p].number))
        PROVE  Store!Next
    <3>1. OkOutcome(proc[p].number) \in Outcomes
          /\ OkOutcome(proc[p].number).kind \in {"ok", "refused"}
      BY <1>1, <1>3, OutcomeTypes
    <3>2. proc[p].outcome = NoOutcome /\ proc[p].pc = "rename"
          /\ AfterFile(p) \in Places \ {"idle"}
      BY <1>1, <1>16 DEF Rename, KnownOutcome, AfterFile, Places
    <3> QED BY <1>7, <2>1, <3>1, <3>2, StoreWrites
  <2> QED BY <1>1, <1>6, <1>16, <2>1 DEF Rename, KnownOutcome, Places
<1>17. CASE Clean(p)
  <2>1. CASE AfterFile(p) = "unlock"
    BY <1>5, <1>17, <2>1 DEF Clean, Places
  <2>2. CASE AfterFile(p) = "done"
    BY <1>1, <1>4, <1>17, <2>2 DEF Clean, KnownOutcome, Goto
  <2> QED BY <2>1, <2>2 DEF AfterFile
<1>18. CASE Unlock(p)
  <2>1. ASSUME Goto(p, "done")
        PROVE  Store!Next
    <3>1. CASE proc[p].outcome = FailedOutcome
      BY <1>4, <1>18, <2>1, <3>1 DEF Unlock, Goto
    <3>2. CASE proc[p].outcome.kind \in {"ok", "refused"}
      BY <1>1, <1>18, <2>1, <3>2, WentTo, EndsEffective DEF Unlock, Places
    <3> QED BY <1>1, <1>18, <3>1, <3>2 DEF Unlock, KnownOutcome
  <2> QED BY <1>4, <1>18, <2>1 DEF Unlock
<1>19. CASE Stat(p)
  <2>1. ASSUME contents.config # "missing", Turn(p, "load", OkOutcome(Missing))
        PROVE  Store!Next
    <3>1. OkOutcome(Missing) \in Outcomes /\ OkOutcome(Missing).kind \in {"ok", "refused"}
      BY <1>2, <1>3, OutcomeTypes
    <3>2. proc[p].outcome = NoOutcome /\ contents' = contents /\ proc[p].op.kind = "bootstrap"
      BY <1>1, <1>19 DEF Stat, KnownOutcome, Fits, KindOf
    <3> QED BY <1>1, <1>7, <2>1, <3>1, <3>2, StoreReads DEF Places
  <2> QED BY <1>4, <1>5, <1>19, <2>1 DEF Stat, Places
<1>20. CASE WriteStarter(p)
  BY <1>1, <1>4, <1>5, <1>6, <1>20 DEF WriteStarter, KnownOutcome, Places
<1>21. CASE Link(p)
  <2>0. /\ OkOutcome(Missing) \in Outcomes /\ OkOutcome(Missing).kind \in {"ok", "refused"}
        /\ proc[p].outcome = NoOutcome /\ proc[p].op.kind = "bootstrap"
    BY <1>1, <1>2, <1>3, <1>21, OutcomeTypes DEF Link, KnownOutcome, Fits, KindOf
  <2>1. ASSUME contents.config = "missing", Turn(p, "unlink", OkOutcome(Missing)),
               contents' = [contents EXCEPT !.config = "starter"]
        PROVE  Store!Next
    BY <1>1, <1>7, <2>0, <2>1, StoreStarts DEF Places
  <2>2. ASSUME contents.config # "missing", Turn(p, "unlink", OkOutcome(Missing)),
               contents' = contents
        PROVE  Store!Next
    BY <1>1, <1>7, <2>0, <2>2, StoreReads DEF Places
  <2> QED BY <1>6, <1>21, <2>0, <2>1, <2>2 DEF Link, Places
<1>22. CASE Unlink(p)
  <2>1. CASE Goto(p, "done") /\ proc[p].outcome = FailedOutcome
    BY <1>4, <1>22, <2>1 DEF Unlink, Goto
  <2>2. CASE Goto(p, "load")
    BY <1>5, <1>22, <2>2 DEF Unlink, Places
  <2> QED BY <1>4, <1>22, <2>1, <2>2 DEF Unlink
<1>23. CASE Load(p)
  <2>1. ASSUME Goto(p, "done")
        PROVE  Store!Next
    <3>1. proc[p].outcome.kind \in {"ok", "refused"} /\ contents' = contents
      BY <1>1, <1>2, <1>3, <1>23 DEF Load, KnownOutcome
    <3> QED BY <1>1, <2>1, <3>1, WentTo, EndsEffective DEF Places
  <2> QED BY <1>4, <1>23, <2>1 DEF Load
<1> QED
  BY <1>9, <1>10, <1>11, <1>12, <1>13, <1>14, <1>15, <1>16, <1>17, <1>18, <1>19, <1>20,
     <1>21, <1>22, <1>23 DEF Step

(* A process that begins an operation begins its call. *)
LEMMA StoreBegins ==
  ASSUME StoreInv, NEW p \in Procs, NEW op \in Operations, Begin(p, op)
  PROVE  Store!Next
<1>1. /\ proc \in [Procs -> Proc] /\ proc[p].pc = "idle"
      /\ started < MaxCalls /\ started' = started + 1 /\ contents' = contents
      /\ proc' = [proc EXCEPT ![p] = [IdleProc EXCEPT !.pc = FirstPlace(op.kind), !.op = op,
                                                      !.number = started + 1]]
  BY DEF Begin, StoreInv, LockInv, TypeOK
<1>2. FirstPlace(op.kind) \notin {"idle", "done"}
  BY DEF Operations, FirstPlace
<1>3. /\ proc'[p].pc = FirstPlace(op.kind) /\ proc'[p].op = op
      /\ proc'[p].number = started + 1 /\ proc'[p].outcome = NoOutcome
  BY <1>1 DEF IdleProc
<1>4. StoreCall(p)' = [phase |-> "called", op |-> op, number |-> started + 1,
                       outcome |-> NoOutcome]
  BY <1>2, <1>3, CallThen DEF NoOutcome
<1>5. StoreCall(p).phase = "idle"
  BY <1>1, CallNow
<1>6. OnlyMoves(p)
  BY <1>1 DEF OnlyMoves
<1>7. Store!NoOutcome = NoOutcome /\ Store!Operations = Operations
  BY DEF Store!NoOutcome, NoOutcome, Store!Missing, Missing, Store!Operations, Operations
<1>8. Store!Call(p, op)
  BY <1>1, <1>4, <1>5, <1>6, <1>7, OneCall DEF Store!Call
<1> QED BY <1>7, <1>8 DEF Store!Next

(* A process that ends or dies leaves its call. *)
LEMMA StoreLeaves ==
  ASSUME StoreInv, NEW p \in Procs, Leave(p) \/ Crash(p)
  PROVE  Store!Next
<1>1. /\ proc \in [Procs -> Proc] /\ proc[p].pc # "idle"
      /\ started' = started /\ contents' = contents
      /\ proc' = [proc EXCEPT ![p] = IdleProc]
  BY DEF Leave, Crash, StoreInv, LockInv, TypeOK
<1>2. OnlyMoves(p) /\ proc'[p] = IdleProc
  BY <1>1 DEF OnlyMoves
<1>3. StoreCall(p)' = Store!NoCall
  BY <1>2, CallThen DEF IdleProc, Store!NoCall, Store!NoOutcome, NoOutcome, Store!Missing, Missing
<1>4. StoreCall(p).phase # "idle"
  BY <1>1, CallNow
<1>5. Store!Leave(p)
  BY <1>1, <1>2, <1>3, <1>4, OneCall DEF Store!Leave
<1> QED BY <1>5 DEF Store!Next

(* The processes and their locks, temporary files and renames implement    *)
(* files whose operations take effect one at a time.                       *)
THEOREM Implements == Spec => StoreSpec
<1>1. Init => Store!Init
  <2> SUFFICES ASSUME Init PROVE Store!Init
    OBVIOUS
  <2>1. contents \in Store!FirstContents
    BY DEF Init, FirstContents, Store!FirstContents
  <2>2. \A p \in Procs : StoreCall(p) = Store!NoCall
    BY CallNow DEF Init, IdleProc, Store!NoCall, Store!NoOutcome, NoOutcome, Store!Missing, Missing
  <2> QED BY <2>1, <2>2 DEF Init, Store!Init
<1>2. StoreInv /\ [Next]_vars => [Store!Next]_Store!vars
  <2> SUFFICES ASSUME StoreInv, [Next]_vars PROVE Store!Next \/ UNCHANGED Store!vars
    OBVIOUS
  <2>1. CASE \E p \in Procs : Step(p) \/ ReadSecret(p)
    BY <2>1, StoreStep
  <2>2. CASE \E p \in Procs : Leave(p) \/ Crash(p)
    BY <2>2, StoreLeaves
  <2>3. CASE \E p \in Procs, op \in Operations : Begin(p, op)
    BY <2>3, StoreBegins
  <2>4. CASE EditConfig
    <3>1. \A p \in Procs : StoreCall(p)' = StoreCall(p)
      BY <2>4 DEF EditConfig, StoreCall, PhaseOf
    <3>2. [p \in Procs |-> StoreCall(p)]' = [p \in Procs |-> StoreCall(p)]
      BY <3>1
    <3>3. Store!EditConfig
      BY <2>4, <3>2 DEF EditConfig, Store!EditConfig
    <3> QED BY <3>3 DEF Store!Next
  <2>5. CASE UNCHANGED vars
    <3>1. \A p \in Procs : StoreCall(p)' = StoreCall(p)
      BY <2>5 DEF vars, StoreCall, PhaseOf
    <3>2. [p \in Procs |-> StoreCall(p)]' = [p \in Procs |-> StoreCall(p)]
      BY <3>1
    <3> QED BY <2>5, <3>2 DEF vars, Store!vars
  <2> QED BY <2>1, <2>2, <2>3, <2>4, <2>5 DEF Next
<1> QED BY <1>1, <1>2, StoreInvariant, PTL DEF Spec, StoreSpec, Store!Spec

=============================================================================

------------------------------ MODULE LocalFiles ------------------------------
(* The processes that share the local files: one CLI process is one        *)
(* operation.  Two files are changed under a lock directory, two are       *)
(* replaced without one, and the configuration starter is published by a   *)
(* link.  Every file-system call can fail, and a process can crash between *)
(* any two of them.                                                        *)
EXTENDS LocalData

CONSTANTS
  Procs,
  MaxCalls,      \* bound: calls, with the one that stands for the past
  MaxAttempts,   \* tries at a lock directory that exists
  MaxFaults      \* bound: failing file-system calls and crashes

ASSUME BoundsAssumption == MaxCalls \in Nat /\ MaxAttempts \in Nat /\ MaxFaults \in Nat

Locks == {"state", "providers"}

VARIABLES
  contents,   \* what the files hold
  holder,     \* lock directory -> the call that made it, or 0
  temps,      \* temporary files, by the call whose random name they bear
  proc,       \* process -> its operation and how far it is
  started,    \* calls begun
  lost,       \* calls that crashed, or failed to unlock or clean up (history)
  faults

vars == <<contents, holder, temps, proc, started, lost, faults>>

Places ==
  {"idle", "list", "prompt", "find", "fetch", "lock", "read", "write", "rename", "clean",
   "unlock", "stat", "writeStarter", "link", "unlink", "load", "done"}

Proc ==
  [pc : Places, op : Operations \cup {None}, number : Nat, attempts : 0..MaxAttempts,
   seen : [Providers -> Nat], outcome : Outcomes]

NoKeys == [provider \in Providers |-> Missing]
IdleProc ==
  [pc |-> "idle", op |-> None, number |-> 0, attempts |-> 0, seen |-> NoKeys,
   outcome |-> NoOutcome]

TypeOK ==
  /\ contents \in Contents
  /\ holder \in [Locks -> Nat]
  /\ temps \subseteq Nat
  /\ proc \in [Procs -> Proc]
  /\ started \in Nat
  /\ lost \subseteq Nat
  /\ faults \in 0..MaxFaults

Init ==
  /\ contents \in FirstContents
  /\ holder = [lock \in Locks |-> 0]
  /\ temps = {}
  /\ proc = [p \in Procs |-> IdleProc]
  /\ started = 1
  /\ lost = {}
  /\ faults = 0

-----------------------------------------------------------------------------
NoFault == UNCHANGED faults
Fault == faults < MaxFaults /\ faults' = faults + 1

Turn(p, pc, outcome) == proc' = [proc EXCEPT ![p].pc = pc, ![p].outcome = outcome]
Goto(p, pc) == Turn(p, pc, proc[p].outcome)

KindOf(p) == proc[p].op.kind
Locked(p) == KindOf(p) \notin {"saveCapture", "refresh", "bootstrap"}
LockOf(p) == IF KindOf(p) \in {"getState", "resetState"} THEN "state" ELSE "providers"
AfterFile(p) == IF Locked(p) THEN "unlock" ELSE "done"

FirstPlace(kind) ==
  CASE kind \in {"connect", "reconnect"} -> "list"
    [] kind \in {"disconnect", "findKey"} -> "find"
    [] kind \in {"getState", "resetState"} -> "lock"
    [] kind = "saveCapture" -> "read"
    [] kind = "refresh" -> "fetch"
    [] kind = "bootstrap" -> "stat"

(* A process starts its operation, ends, or dies where it is. *)
Begin(p, op) ==
  /\ proc[p].pc = "idle" /\ started < MaxCalls
  /\ started' = started + 1
  /\ proc' = [proc EXCEPT ![p] = [IdleProc EXCEPT !.pc = FirstPlace(op.kind), !.op = op,
                                                  !.number = started + 1]]
  /\ UNCHANGED <<contents, holder, temps, lost, faults>>

Leave(p) ==
  /\ proc[p].pc = "done"
  /\ proc' = [proc EXCEPT ![p] = IdleProc]
  /\ UNCHANGED <<contents, holder, temps, started, lost, faults>>

Crash(p) ==
  /\ proc[p].pc \notin {"idle", "done"}
  /\ Fault
  /\ proc' = [proc EXCEPT ![p] = IdleProc]
  /\ lost' = lost \cup {proc[p].number}
  /\ UNCHANGED <<contents, holder, temps, started>>

-----------------------------------------------------------------------------
(* Before the lock. *)

(* connect and reconnect look whether the Provider has a key before they   *)
(* ask for one.                                                            *)
ListConnections(p) ==
  /\ proc[p].pc = "list"
  /\ \/ Turn(p, "done", FailedOutcome) /\ Fault
     \/ Refused(proc[p].op, contents) /\ Turn(p, "done", RefusedOutcome) /\ NoFault
     \/ ~Refused(proc[p].op, contents) /\ Goto(p, "prompt") /\ NoFault
  /\ UNCHANGED <<contents, holder, temps, started, lost>>

(* The user types a key, or none. *)
ReadSecret(p) ==
  /\ proc[p].pc = "prompt"
  /\ \/ Goto(p, IF KindOf(p) = "connect" THEN "lock" ELSE "find")
     \/ Turn(p, "done", FailedOutcome)
  /\ UNCHANGED <<contents, holder, temps, started, lost, faults>>

(* findByProviderId(), which takes no lock. *)
FindByProviderId(p) ==
  /\ proc[p].pc = "find"
  /\ \/ Turn(p, "done", FailedOutcome) /\ Fault
     \/ /\ KindOf(p) = "findKey"
        /\ Turn(p, "done", OkOutcome(contents.providers[proc[p].op.provider]))
        /\ NoFault
     \/ /\ KindOf(p) # "findKey" /\ Refused(proc[p].op, contents)
        /\ Turn(p, "done", RefusedOutcome)
        /\ NoFault
     \/ /\ KindOf(p) # "findKey" /\ ~Refused(proc[p].op, contents)
        /\ Goto(p, "lock")
        /\ NoFault
  /\ UNCHANGED <<contents, holder, temps, started, lost>>

(* refresh(): the catalog arrives before the deadline, or is refused. *)
FetchCatalog(p) ==
  /\ proc[p].pc = "fetch"
  /\ Goto(p, "write") \/ Turn(p, "done", FailedOutcome)
  /\ UNCHANGED <<contents, holder, temps, started, lost, faults>>

-----------------------------------------------------------------------------
(* The lock directory, and the file under it. *)

(* Mutant: the lock is tried for until it is free. *)
MutantTriesForever(p) ==
  /\ proc[p].pc = "lock"
  /\ holder[LockOf(p)] = 0
  /\ holder' = [holder EXCEPT ![LockOf(p)] = proc[p].number]
  /\ Goto(p, IF KindOf(p) = "resetState" THEN "write" ELSE "read")
  /\ UNCHANGED <<contents, temps, started, lost, faults>>

(* mkdir() of the lock directory: it is made, it exists and is tried for   *)
(* again until patience ends, or mkdir() fails.                            *)
Lock(p) ==
  /\ proc[p].pc = "lock"
  /\ \/ /\ holder[LockOf(p)] = 0
        /\ holder' = [holder EXCEPT ![LockOf(p)] = proc[p].number]
        /\ Goto(p, IF KindOf(p) = "resetState" THEN "write" ELSE "read")
        /\ NoFault
     \/ /\ holder[LockOf(p)] # 0 /\ proc[p].attempts < MaxAttempts
        /\ proc' = [proc EXCEPT ![p].attempts = @ + 1]
        /\ UNCHANGED holder /\ NoFault
     \/ /\ holder[LockOf(p)] # 0 /\ proc[p].attempts = MaxAttempts
        /\ Turn(p, "done", FailedOutcome)
        /\ UNCHANGED holder /\ NoFault
     \/ Turn(p, "done", FailedOutcome) /\ UNCHANGED holder /\ Fault
  /\ UNCHANGED <<contents, temps, started, lost>>

KeepsState(p) == KindOf(p) = "getState" /\ contents.state # Missing

(* Mutant: what was looked up before the lock is not looked up again. *)
MutantTrustsTheList(p) ==
  /\ proc[p].pc = "read"
  /\ \/ KeepsState(p) /\ Turn(p, "unlock", OkOutcome(contents.state)) /\ NoFault
     \/ /\ ~KeepsState(p)
        /\ proc' = [proc EXCEPT ![p].pc = "write", ![p].seen = contents.providers]
        /\ NoFault
  /\ UNCHANGED <<contents, holder, temps, started, lost>>

(* The file is read: its content answers, refuses, or is to be changed.    *)
Read(p) ==
  /\ proc[p].pc = "read"
  /\ \/ Turn(p, AfterFile(p), FailedOutcome) /\ Fault
     \/ KeepsState(p) /\ Turn(p, "unlock", OkOutcome(contents.state)) /\ NoFault
     \/ Refused(proc[p].op, contents) /\ Turn(p, "unlock", RefusedOutcome) /\ NoFault
     \/ /\ ~KeepsState(p) /\ ~Refused(proc[p].op, contents)
        /\ proc' = [proc EXCEPT ![p].pc = "write", ![p].seen = contents.providers]
        /\ NoFault
  /\ UNCHANGED <<contents, holder, temps, started, lost>>

(* writeFile() under a random name; a failure can leave part of it. *)
WriteTemporary(p) ==
  /\ proc[p].pc = "write"
  /\ \/ /\ temps' = temps \cup {proc[p].number}
        /\ Goto(p, "rename") /\ NoFault
     \/ /\ temps' = temps \/ temps' = temps \cup {proc[p].number}
        /\ Turn(p, "clean", FailedOutcome) /\ Fault
  /\ UNCHANGED <<contents, holder, started, lost>>

(* The whole file as this process makes it from what it read. *)
Written(p) ==
  LET n == proc[p].number
      provider == proc[p].op.provider
      seen == proc[p].seen
  IN CASE KindOf(p) \in {"getState", "resetState"} -> [contents EXCEPT !.state = n]
       [] KindOf(p) \in {"connect", "reconnect"} ->
            [contents EXCEPT !.providers = [seen EXCEPT ![provider] = n]]
       [] KindOf(p) = "disconnect" ->
            [contents EXCEPT !.providers = [seen EXCEPT ![provider] = Missing]]
       [] KindOf(p) = "saveCapture" -> [contents EXCEPT !.capture = n]
       [] KindOf(p) = "refresh" -> [contents EXCEPT !.catalog = n]

(* Mutant: a failing rename leaves the temporary file. *)
MutantRename(p) ==
  /\ proc[p].pc = "rename"
  /\ \/ /\ contents' = Written(p)
        /\ temps' = temps \ {proc[p].number}
        /\ Turn(p, AfterFile(p), OkOutcome(proc[p].number)) /\ NoFault
     \/ /\ UNCHANGED <<contents, temps>>
        /\ Turn(p, AfterFile(p), FailedOutcome) /\ Fault
  /\ UNCHANGED <<holder, started, lost>>

Rename(p) ==
  /\ proc[p].pc = "rename"
  /\ \/ /\ contents' = Written(p)
        /\ temps' = temps \ {proc[p].number}
        /\ Turn(p, AfterFile(p), OkOutcome(proc[p].number)) /\ NoFault
     \/ /\ UNCHANGED <<contents, temps>>
        /\ Turn(p, "clean", FailedOutcome) /\ Fault
  /\ UNCHANGED <<holder, started, lost>>

Clean(p) ==
  /\ proc[p].pc = "clean"
  /\ \/ temps' = temps \ {proc[p].number} /\ UNCHANGED lost /\ NoFault
     \/ UNCHANGED temps /\ lost' = lost \cup {proc[p].number} /\ Fault
  /\ Goto(p, AfterFile(p))
  /\ UNCHANGED <<contents, holder, started>>

(* rmdir(); when it fails the answer is that failure, whatever was written. *)
Unlock(p) ==
  /\ proc[p].pc = "unlock"
  /\ \/ /\ holder' = [holder EXCEPT ![LockOf(p)] = 0]
        /\ Goto(p, "done")
        /\ UNCHANGED lost /\ NoFault
     \/ /\ Turn(p, "done", FailedOutcome)
        /\ lost' = lost \cup {proc[p].number}
        /\ UNCHANGED holder /\ Fault
  /\ UNCHANGED <<contents, temps, started>>

-----------------------------------------------------------------------------
(* The configuration file: ensureStarter(), then readDocument(). *)
Stat(p) ==
  /\ proc[p].pc = "stat"
  /\ \/ Turn(p, "done", FailedOutcome) /\ Fault
     \/ contents.config # "missing" /\ Turn(p, "load", OkOutcome(Missing)) /\ NoFault
     \/ contents.config = "missing" /\ Goto(p, "writeStarter") /\ NoFault
  /\ UNCHANGED <<contents, holder, temps, started, lost>>

(* open(), writeFile(), close(): a failing open() leaves nothing. *)
WriteStarter(p) ==
  /\ proc[p].pc = "writeStarter"
  /\ \/ temps' = temps \cup {proc[p].number} /\ Goto(p, "link") /\ NoFault
     \/ temps' = temps \cup {proc[p].number} /\ Turn(p, "unlink", FailedOutcome) /\ Fault
     \/ UNCHANGED temps /\ Turn(p, "done", FailedOutcome) /\ Fault
  /\ UNCHANGED <<contents, holder, started, lost>>

(* link() refuses to replace a file: one that exists by now is kept. *)
Link(p) ==
  /\ proc[p].pc = "link"
  /\ \/ UNCHANGED contents /\ Turn(p, "unlink", FailedOutcome) /\ Fault
     \/ /\ contents.config = "missing"
        /\ contents' = [contents EXCEPT !.config = "starter"]
        /\ Turn(p, "unlink", OkOutcome(Missing)) /\ NoFault
     \/ /\ contents.config # "missing" /\ UNCHANGED contents
        /\ Turn(p, "unlink", OkOutcome(Missing)) /\ NoFault
  /\ UNCHANGED <<holder, temps, started, lost>>

Unlink(p) ==
  /\ proc[p].pc = "unlink"
  /\ \/ /\ temps' = temps \ {proc[p].number}
        /\ Goto(p, IF proc[p].outcome = FailedOutcome THEN "done" ELSE "load")
        /\ UNCHANGED lost /\ NoFault
     \/ /\ Turn(p, "done", FailedOutcome)
        /\ lost' = lost \cup {proc[p].number}
        /\ UNCHANGED temps /\ Fault
  /\ UNCHANGED <<contents, holder, started>>

(* A file the user edited may not parse; one the user deleted is missed.   *)
Load(p) ==
  /\ proc[p].pc = "load"
  /\ \/ contents.config # "missing" /\ Goto(p, "done") /\ NoFault
     \/ contents.config # "starter" /\ Turn(p, "done", FailedOutcome) /\ NoFault
     \/ Turn(p, "done", FailedOutcome) /\ Fault
  /\ UNCHANGED <<contents, holder, temps, started, lost>>

EditConfig ==
  /\ \E config \in {"edited", "missing"} : contents' = [contents EXCEPT !.config = config]
  /\ UNCHANGED <<holder, temps, proc, started, lost, faults>>

-----------------------------------------------------------------------------
Step(p) ==
  \/ ListConnections(p) \/ FindByProviderId(p) \/ FetchCatalog(p) \/ Lock(p) \/ Read(p)
  \/ WriteTemporary(p) \/ Rename(p) \/ Clean(p) \/ Unlock(p)
  \/ Stat(p) \/ WriteStarter(p) \/ Link(p) \/ Unlink(p) \/ Load(p)

Next ==
  \/ \E p \in Procs :
       Step(p) \/ ReadSecret(p) \/ Leave(p) \/ Crash(p) \/ \E op \in Operations : Begin(p, op)
  \/ EditConfig

Spec == Init /\ [][Next]_vars

(* A process runs, and every file-system call and fetch returns; nobody    *)
(* need answer the prompt.                                                 *)
FairSpec == Spec /\ \A p \in Procs : WF_vars(Step(p))

-----------------------------------------------------------------------------
(* Properties. *)

InSection(p) ==
  proc[p].pc \in {"read", "write", "rename", "clean", "unlock"} /\ Locked(p)

(* A process between its lock and its unlock owns the lock directory, so   *)
(* two of them never read and replace the same file together.              *)
HolderInSection == \A p \in Procs : InSection(p) => holder[LockOf(p)] = proc[p].number

(* A lock directory or a temporary file is that of a process still at it,  *)
(* unless its process crashed or could not remove it.                      *)
NothingLeftBehind ==
  /\ \A lock \in Locks : holder[lock] # 0 =>
       \/ holder[lock] \in lost
       \/ \E p \in Procs : InSection(p) /\ LockOf(p) = lock /\ proc[p].number = holder[lock]
  /\ \A n \in temps :
       \/ n \in lost
       \/ \E p \in Procs :
            proc[p].number = n /\ proc[p].pc \in {"rename", "clean", "link", "unlink"}

(* Only an explicit reset replaces a device identity: no failure, crash or *)
(* race of two first calls makes a second one.                             *)
IdentityKept ==
  [][contents.state # Missing /\ contents'.state # contents.state =>
       \E p \in Procs : Rename(p) /\ KindOf(p) = "resetState"]_vars

(* A configuration file is never rewritten, also when the user makes it    *)
(* between the look at the directory and the link.                         *)
ConfigKept == [][contents.config = "edited" => contents'.config # "starter"]_vars

(* The files and the answers are those of operations that take effect one  *)
(* at a time: nothing a process wrote is lost under another's write.       *)
PhaseOf(p) ==
  CASE proc[p].pc = "idle" -> "idle"
    [] proc[p].pc = "done" -> "answered"
    [] OTHER -> IF proc[p].outcome.kind \in {"ok", "refused"} THEN "effective" ELSE "called"
StoreCall(p) ==
  [phase |-> PhaseOf(p), op |-> proc[p].op, number |-> proc[p].number,
   outcome |-> IF PhaseOf(p) = "called" THEN NoOutcome ELSE proc[p].outcome]
Store == INSTANCE LocalStore WITH calls <- [p \in Procs |-> StoreCall(p)]
StoreSpec == Store!Spec

(* Every call is answered unless it waits for a key to be typed: a lock    *)
(* nobody will release is given up on.                                     *)
Answered ==
  \A p \in Procs : proc[p].pc \notin {"idle", "prompt", "done"}
                     ~> proc[p].pc \in {"idle", "prompt", "done"}
=============================================================================

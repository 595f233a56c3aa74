-------------------------------- MODULE Account --------------------------------
(* Accounts and Sync: the AuthService and SyncService of @dictos/core in   *)
(* the clients of several devices, the session and the synchronising       *)
(* database they keep, and the central server, which provisions a database *)
(* for each account.  A step ends at each await.                           *)
EXTENDS Naturals, SequencesExt

CONSTANTS
  Users,         \* email addresses, each with one password
  Devices,
  Browsers,      \* the devices that run the web client
  None, Torn,    \* no session; a session file that was half written
  MaxCalls,      \* bound: calls started
  MaxFaults      \* bound: failures, lost answers, offline probes and kills

ASSUME AccountAssumption ==
  /\ Browsers \subseteq Devices
  /\ None \notin Users /\ Torn \notin Users /\ None # Torn
  /\ None \notin {"find", "insert", "create", "touch", "get", "token", "ok"}
  /\ MaxCalls \in Nat /\ MaxFaults \in Nat

VARIABLES
  accounts,      \* server: the users that have a row
  databases,     \* the users whose database has been created
  requests,      \* what the server does for call i
  calls,         \* what the clients have been asked for
  process,       \* of each device: off, cli, or client (terminal or web)
  session,       \* of each device: whose session is stored
  rows,          \* of each device: the users whose profile its database holds
  remote,        \* of each process: whose database it synchronises with
  cloud,         \* of each user: the profiles in the database of that account
  checkpoints,   \* of each process: the checkpoints running and waiting
  faults,
  muddled        \* devices where calls overlapped, or a connect was skipped (history)

server == <<accounts, databases, requests>>
device == <<session, rows, cloud>>
vars == <<accounts, databases, requests, calls, process, session, rows, remote, cloud,
          checkpoints, faults, muddled>>

Fault == faults < MaxFaults /\ faults' = faults + 1

-----------------------------------------------------------------------------
(* The server. *)

At(i, op, place) ==
  /\ i \in DOMAIN requests
  /\ calls[i].op = op /\ requests[i] = place

ServerGoes(i, place) ==
  /\ requests' = [requests EXCEPT ![i] = place]
  /\ UNCHANGED <<calls, process, session, rows, remote, cloud, checkpoints, muddled>>

ServerFind(i) ==
  /\ At(i, "register", "find")
  /\ ServerGoes(i, IF calls[i].user \in accounts THEN "refused" ELSE "insert")
  /\ UNCHANGED <<accounts, databases, faults>>

(* Mutant: the lookup is trusted, the column is not unique. *)
MutantInsertsAnyway(i) ==
  /\ At(i, "register", "insert")
  /\ accounts' = accounts \cup {calls[i].user}
  /\ ServerGoes(i, "create")
  /\ UNCHANGED <<databases, faults>>

ServerInsert(i) ==
  /\ At(i, "register", "insert")
  /\ accounts' = accounts \cup {calls[i].user}
  /\ ServerGoes(i, IF calls[i].user \in accounts THEN "failed" ELSE "create")
  /\ UNCHANGED <<databases, faults>>

CreateDatabase(i) ==
  /\ At(i, "register", "create")
  /\ databases' = databases \cup {calls[i].user}
  /\ ServerGoes(i, "token")
  /\ UNCHANGED <<accounts, faults>>

(* Unknown address, or a wrong password. *)
ServerVerify(i) ==
  /\ At(i, "login", "find")
  /\ \/ calls[i].user \in accounts /\ ServerGoes(i, "touch")
     \/ ServerGoes(i, "refused")
  /\ UNCHANGED <<accounts, databases, faults>>

UpdateLogin(i) ==
  /\ At(i, "login", "touch")
  /\ ServerGoes(i, "get")
  /\ UNCHANGED <<accounts, databases, faults>>

GetDatabase(i) ==
  /\ At(i, "login", "get")
  /\ ServerGoes(i, IF calls[i].user \in databases THEN "token" ELSE "failed")
  /\ UNCHANGED <<accounts, databases, faults>>

CreateToken(i) ==
  /\ i \in DOMAIN requests /\ requests[i] = "token"
  /\ ServerGoes(i, "ok")
  /\ UNCHANGED <<accounts, databases, faults>>

UnderWay(i) ==
  i \in DOMAIN requests /\ requests[i] \in {"find", "insert", "create", "touch", "get", "token"}

(* A query, or a call of the platform, fails; the database may have been   *)
(* created all the same.                                                   *)
ServerFails(i) ==
  /\ UnderWay(i) /\ Fault
  /\ ServerGoes(i, "failed")
  /\ \/ databases' = databases
     \/ requests[i] = "create" /\ databases' = databases \cup {calls[i].user}
  /\ UNCHANGED accounts

ServerStops ==
  /\ \E i \in DOMAIN requests : UnderWay(i)
  /\ Fault
  /\ requests' = [i \in DOMAIN requests |-> IF UnderWay(i) THEN "gone" ELSE requests[i]]
  /\ UNCHANGED <<accounts, databases, calls, process, session, rows, remote, cloud,
                 checkpoints, muddled>>

-----------------------------------------------------------------------------
(* The clients.  A call goes from place to place; "end" has its result.    *)

Call(i, d, place) ==
  /\ i \in DOMAIN calls
  /\ calls[i].device = d /\ calls[i].place = place /\ calls[i].result = "waiting"
Waiting(i) == calls[i].result = "waiting"

Goes(i, place) == calls' = [calls EXCEPT ![i].place = place]
Ends(i, result) == calls' = [calls EXCEPT ![i].result = result]

SignIns == {"register", "login"}
NewCall(d, op, user, place) ==
  [device |-> d, op |-> op, user |-> user, place |-> place, result |-> "waiting",
   pushed |-> None, pulled |-> None]

(* A call begins while another is under way at d, and one of the two signs  *)
(* in or is the one made at startup.                                       *)
Overlaps(d, call) ==
  \E i \in DOMAIN calls :
    calls[i].device = d /\ Waiting(i) /\ {call.op, calls[i].op} # {"sync"}

Begun(d, call) ==
  /\ Len(calls) < MaxCalls
  /\ calls' = Append(calls, call)
  /\ requests' = Append(requests, IF call.place = "server" THEN "find" ELSE None)
  /\ muddled' = IF Overlaps(d, call) THEN muddled \cup {d} ELSE muddled

Stored ==
  UNCHANGED <<accounts, databases, session, rows, remote, cloud, checkpoints, faults>>

(* The database is locked by the one process that has it open: a command   *)
(* started meanwhile is refused.                                           *)
OpenDatabase(d, kind) ==
  /\ process[d] = "off"
  /\ process' = [process EXCEPT ![d] = kind]

(* The credentials typed, in the order of the two handlers. *)
SignInCalled(d) == \E op \in SignIns, u \in Users : Begun(d, NewCall(d, op, u, "server"))

RunSignIn(d) ==
  /\ d \notin Browsers /\ OpenDatabase(d, "cli")
  /\ SignInCalled(d) /\ Stored

RunLogout(d) ==
  /\ d \notin Browsers /\ OpenDatabase(d, "cli")
  /\ Begun(d, NewCall(d, "logout", None, "read")) /\ Stored

RunSync(d) ==
  /\ d \notin Browsers /\ OpenDatabase(d, "cli")
  /\ Begun(d, NewCall(d, "sync", None, "read")) /\ Stored

(* At startup a client synchronises the account it is signed in to. *)
StartupSync(d) ==
  IF session[d] \in Users
  THEN Begun(d, NewCall(d, "startup", session[d], "connect"))
  ELSE UNCHANGED <<calls, requests, muddled>>

OpenTerminal(d) ==
  /\ d \notin Browsers /\ OpenDatabase(d, "client")
  /\ StartupSync(d) /\ Stored

OpenPage(d) ==
  /\ d \in Browsers /\ OpenDatabase(d, "client")
  /\ StartupSync(d) /\ Stored

(* Return on the auth page, and the key that synchronises: nothing looks   *)
(* at what is under way.                                                   *)
PressReturn(d) ==
  /\ process[d] = "client" /\ d \notin Browsers
  /\ SignInCalled(d) /\ UNCHANGED process /\ Stored

SubmitForm(d) ==
  /\ process[d] = "client" /\ d \in Browsers
  /\ SignInCalled(d) /\ UNCHANGED process /\ Stored

PressSync(d) ==
  /\ process[d] = "client"
  /\ Begun(d, NewCall(d, "sync", None, "sync")) /\ UNCHANGED process /\ Stored

(* The end of a process: what it was doing is gone. *)
Ended(d) ==
  /\ process' = [process EXCEPT ![d] = "off"]
  /\ remote' = [remote EXCEPT ![d] = None]
  /\ checkpoints' = [checkpoints EXCEPT ![d] = [running |-> 0, waiting |-> 0]]
  /\ calls' = [i \in DOMAIN calls |->
                 IF calls[i].device = d /\ Waiting(i) THEN [calls[i] EXCEPT !.result = "lost"]
                 ELSE calls[i]]
  /\ muddled' = muddled \ {d}
  /\ UNCHANGED <<server, session, rows, cloud>>

CommandEnds(d) ==
  /\ process[d] = "cli" /\ checkpoints[d].running = 0
  /\ \A i \in DOMAIN calls : calls[i].device = d => ~Waiting(i)
  /\ Ended(d) /\ UNCHANGED faults

Quit(d) == process[d] = "client" /\ Ended(d) /\ UNCHANGED faults

Kill(d) == process[d] = "cli" /\ Fault /\ Ended(d)

-----------------------------------------------------------------------------
(* Signing in. *)

Unchanged(d) == UNCHANGED <<server, process, cloud, faults, muddled>>

(* Mutant: the session is saved, and then the profile. *)
MutantSessionFirst(d, i) ==
  /\ Call(i, d, "server") /\ requests[i] \in {"ok", "refused", "failed"}
  /\ IF requests[i] = "ok" THEN Goes(i, "session") ELSE Ends(i, "failed")
  /\ UNCHANGED <<session, rows, remote, checkpoints>> /\ Unchanged(d)

AnswerReceived(d, i) ==
  /\ Call(i, d, "server") /\ requests[i] \in {"ok", "refused", "failed"}
  /\ IF requests[i] = "ok" THEN Goes(i, "profile") ELSE Ends(i, "failed")
  /\ UNCHANGED <<session, rows, remote, checkpoints>> /\ Unchanged(d)

(* The connection breaks, before or after the server has had the request.  *)
NetworkFails(d, i) ==
  /\ Call(i, d, "server")
  /\ \/ requests[i] = "gone" /\ UNCHANGED <<requests, faults>>
     \/ Fault /\ UNCHANGED requests
     \/ requests[i] = "find" /\ Fault /\ requests' = [requests EXCEPT ![i] = "gone"]
  /\ Ends(i, "failed")
  /\ UNCHANGED <<accounts, databases, process, session, rows, remote, cloud, checkpoints,
                 muddled>>

SaveProfile(d, i) ==
  /\ Call(i, d, "profile")
  /\ rows' = [rows EXCEPT ![d] = @ \cup {calls[i].user}]
  /\ Goes(i, "session")
  /\ UNCHANGED <<session, remote, checkpoints>> /\ Unchanged(d)

(* The file is emptied, and then written; setItem() does both at once. *)
OpenSession(d, i) ==
  /\ Call(i, d, "session") /\ d \notin Browsers
  /\ session' = [session EXCEPT ![d] = Torn]
  /\ Goes(i, "saving")
  /\ UNCHANGED <<rows, remote, checkpoints>> /\ Unchanged(d)

(* Two that write at once may leave a mixture. *)
SaveSession(d, i) ==
  /\ \/ Call(i, d, "saving")
     \/ Call(i, d, "session") /\ d \in Browsers
  /\ \/ session' = [session EXCEPT ![d] = calls[i].user]
     \/ /\ \E j \in DOMAIN calls \ {i} : Call(j, d, "saving")
        /\ session' = [session EXCEPT ![d] = Torn]
  /\ Goes(i, "connect")
  /\ UNCHANGED <<rows, remote, checkpoints>> /\ Unchanged(d)

(* The profile or the session cannot be saved. *)
SaveFails(d, i) ==
  /\ \E place \in {"profile", "session", "saving"} : Call(i, d, place)
  /\ Fault /\ Ends(i, "failed")
  /\ UNCHANGED <<server, process, session, rows, remote, cloud, checkpoints, muddled>>

-----------------------------------------------------------------------------
(* Synchronising. *)

(* `sync run` takes the session as it is stored. *)
ReadSession(d, i) ==
  /\ Call(i, d, "read")
  /\ CASE calls[i].op = "sync" /\ session[d] \notin Users -> Ends(i, "done")
       [] calls[i].op = "sync" /\ session[d] \in Users ->
            calls' = [calls EXCEPT ![i].place = "connect", ![i].user = session[d]]
       [] calls[i].op = "logout" /\ session[d] = Torn -> Ends(i, "failed")
       [] calls[i].op = "logout" /\ session[d] = None -> Ends(i, "done")
       [] calls[i].op = "logout" /\ session[d] \in Users ->
            IF session[d] \in rows[d] THEN Goes(i, "clear") ELSE Ends(i, "done")
  /\ UNCHANGED <<session, rows, remote, checkpoints>> /\ Unchanged(d)

ClearSession(d, i) ==
  /\ Call(i, d, "clear")
  /\ session' = [session EXCEPT ![d] = None]
  /\ Ends(i, "done")
  /\ UNCHANGED <<rows, remote, checkpoints>> /\ Unchanged(d)

(* The command that synchronises reports a failure; a sign-in does not,    *)
(* and has succeeded.                                                      *)
Failed(i) == Ends(i, IF calls[i].op = "sync" THEN "failed" ELSE "done")

Credentials(d, u) == remote' = [remote EXCEPT ![d] = u]

(* Mutant: a client that is connected stays so. *)
MutantStaysConnected(d, i) ==
  /\ Call(i, d, "connect")
  /\ remote' = [remote EXCEPT ![d] = IF @ = None THEN calls[i].user ELSE @]
  /\ Goes(i, "sync")
  /\ UNCHANGED <<session, rows, checkpoints>> /\ Unchanged(d)

ConnectRemote(d, i) ==
  /\ Call(i, d, "connect")
  /\ Credentials(d, calls[i].user)
  /\ Goes(i, "sync")
  /\ UNCHANGED <<session, rows, checkpoints>> /\ Unchanged(d)

(* The probe finds no network. *)
ConnectOffline(d, i) ==
  /\ Call(i, d, "connect") /\ Fault
  /\ IF calls[i].op = "sync" THEN Ends(i, "failed") ELSE Goes(i, "sync")
  /\ muddled' = muddled \cup {d}
  /\ UNCHANGED <<server, process, session, rows, remote, cloud, checkpoints>>

BeginSync(d, i) ==
  /\ Call(i, d, "sync")
  /\ IF remote[d] = None THEN Failed(i) ELSE Goes(i, "push")
  /\ UNCHANGED <<session, rows, remote, checkpoints>> /\ Unchanged(d)

(* The credentials are asked for at each of the two. *)
Push(d, i) ==
  /\ Call(i, d, "push")
  /\ cloud' = [cloud EXCEPT ![remote[d]] = @ \cup rows[d]]
  /\ calls' = [calls EXCEPT ![i].place = "pull", ![i].pushed = remote[d]]
  /\ UNCHANGED <<server, process, session, rows, remote, checkpoints, faults, muddled>>

(* The checkpoint of the native client waits for the one before; that of   *)
(* the web client does not.                                                *)
StartedAtOnce(c) == [c EXCEPT !.running = @ + 1]

Chained(c) ==
  IF c.running = 0 THEN [c EXCEPT !.running = 1] ELSE [c EXCEPT !.waiting = @ + 1]

Pull(d, i) ==
  /\ Call(i, d, "pull")
  /\ rows' = [rows EXCEPT ![d] = @ \cup cloud[remote[d]]]
  /\ calls' = [calls EXCEPT ![i].pulled = remote[d], ![i].result = "done"]
  /\ checkpoints' = [checkpoints EXCEPT ![d] =
                       IF d \in Browsers THEN StartedAtOnce(@) ELSE Chained(@)]
  /\ UNCHANGED <<server, process, session, remote, cloud, faults, muddled>>

(* The probe finds no network, or the transfer fails. *)
SyncFails(d, i) ==
  /\ \E place \in {"sync", "push", "pull"} : Call(i, d, place)
  /\ Fault /\ Failed(i)
  /\ UNCHANGED <<server, process, session, rows, remote, cloud, checkpoints, muddled>>

Finished(c) ==
  IF c.waiting > 0 THEN [c EXCEPT !.waiting = @ - 1] ELSE [c EXCEPT !.running = @ - 1]

CheckpointEnds(d) ==
  /\ checkpoints[d].running > 0
  /\ checkpoints' = [checkpoints EXCEPT ![d] = Finished(@)]
  /\ UNCHANGED <<server, calls, process, session, rows, remote, cloud, faults, muddled>>

-----------------------------------------------------------------------------
Init ==
  /\ accounts = {} /\ databases = {}
  /\ requests = <<>> /\ calls = <<>>
  /\ process = [d \in Devices |-> "off"]
  /\ session = [d \in Devices |-> None]
  /\ rows = [d \in Devices |-> {}]
  /\ remote = [d \in Devices |-> None]
  /\ cloud = [u \in Users |-> {}]
  /\ checkpoints = [d \in Devices |-> [running |-> 0, waiting |-> 0]]
  /\ faults = 0
  /\ muddled = {}

ServerStep(i) ==
  \/ ServerFind(i) \/ ServerInsert(i) \/ CreateDatabase(i)
  \/ ServerVerify(i) \/ UpdateLogin(i) \/ GetDatabase(i)
  \/ CreateToken(i)

ClientStep(d, i) ==
  \/ AnswerReceived(d, i)
  \/ SaveProfile(d, i) \/ OpenSession(d, i) \/ SaveSession(d, i)
  \/ ReadSession(d, i) \/ ClearSession(d, i)
  \/ ConnectRemote(d, i) \/ BeginSync(d, i) \/ Push(d, i) \/ Pull(d, i)

Failure(d, i) ==
  NetworkFails(d, i) \/ SaveFails(d, i) \/ ConnectOffline(d, i) \/ SyncFails(d, i)

User(d) ==
  \/ RunSignIn(d) \/ RunLogout(d) \/ RunSync(d)
  \/ OpenTerminal(d) \/ OpenPage(d)
  \/ PressReturn(d) \/ SubmitForm(d) \/ PressSync(d)
  \/ Quit(d) \/ Kill(d)

Next ==
  \/ \E i \in DOMAIN requests : ServerStep(i) \/ ServerFails(i)
  \/ ServerStops
  \/ \E d \in Devices :
       \/ User(d) \/ CommandEnds(d) \/ CheckpointEnds(d)
       \/ \E i \in DOMAIN calls : ClientStep(d, i) \/ Failure(d, i)

Spec == Init /\ [][Next]_vars

-----------------------------------------------------------------------------
(* Properties. *)

(* A session on a device stands for all that signing in is to make: a      *)
(* profile on the device, so that status and logout find it, an account,   *)
(* and a database to synchronise with.  The profile is saved before the    *)
(* session and the server answers only when the database is there, so that *)
(* holds wherever a process is killed and however sign-ins overlap.        *)
SignInIsWhole ==
  \A d \in Devices :
    session[d] \in Users => session[d] \in rows[d] \cap accounts \cap databases

(* Of several registrations of one address one at most succeeds, although  *)
(* the server looks for the address in a statement of its own.             *)
RegisteredOnce ==
  \A i, j \in DOMAIN requests :
    calls[i].op = "register" /\ calls[j].op = "register" /\ calls[i].user = calls[j].user
      /\ requests[i] = "ok" /\ requests[j] = "ok" => i = j

(* A sync that went through has pushed to and pulled from one database,    *)
(* that of the account the device is signed in to, unless a sign-in         *)
(* overlapped another call or a connect was skipped as the probe failed    *)
(* (a session file that was not written to its end is nobody's).           *)
SyncOfOneAccount ==
  [][\A d \in Devices, i \in DOMAIN calls :
       Pull(d, i) /\ d \notin muddled =>
         calls[i].pushed = remote[d] /\ session[d] \in {remote[d], Torn}]_vars
=============================================================================

----------------------------- MODULE AccountProofs -----------------------------
(* Theorems about Account, for any users, devices and bounds: a session    *)
(* stands for a whole account, an address is registered once, and what is  *)
(* synchronised is that of the account that is signed in.                  *)
EXTENDS Account, SequenceTheorems, TLAPS

Operations == SignIns \cup {"logout", "sync", "startup"}
Places ==
  {"server", "profile", "session", "saving", "connect", "sync", "push", "pull", "read", "clear"}
Results == {"waiting", "lost", "failed", "done"}
CallRecord ==
  [device : Devices, op : Operations, user : Users \cup {None}, place : Places,
   result : Results, pushed : Users \cup {None}, pulled : Users \cup {None}]
RequestPlaces ==
  {"find", "insert", "create", "touch", "get", "token", "ok", "refused", "failed", "gone", None}

TypeOK ==
  /\ accounts \in SUBSET Users /\ databases \in SUBSET Users
  /\ calls \in Seq(CallRecord)
  /\ requests \in Seq(RequestPlaces) /\ Len(requests) = Len(calls)
  /\ process \in [Devices -> {"off", "cli", "client"}]
  /\ session \in [Devices -> Users \cup {None, Torn}]
  /\ rows \in [Devices -> SUBSET Users]
  /\ remote \in [Devices -> Users \cup {None}]
  /\ cloud \in [Users -> SUBSET Users]
  /\ checkpoints \in [Devices -> [running : Nat, waiting : Nat]]
  /\ faults \in Nat
  /\ muddled \in SUBSET Devices

(* The operations that reach a place, and what they have by then. *)
PlaceOf(i) ==
  /\ calls[i].place \in {"server", "profile", "session", "saving"} => calls[i].op \in SignIns
  /\ calls[i].op \in SignIns \cup {"startup"} \/ calls[i].place = "connect" => calls[i].user \in Users
  /\ calls[i].place = "clear" => calls[i].op = "logout"
  /\ calls[i].place = "read" => calls[i].op \in {"sync", "logout"}
  /\ calls[i].op = "logout" => calls[i].place \in {"read", "clear"}
  /\ Waiting(i) /\ calls[i].place \in {"push", "pull"} => remote[calls[i].device] # None

PlaceInv == TypeOK /\ \A i \in DOMAIN calls : PlaceOf(i)

(* What the server has made by the time it is at a place. *)
MadeFor(i) ==
  /\ requests[i] = "create" => calls[i].op \in SignIns
  /\ calls[i].op \in SignIns =>
       /\ requests[i] \in {"create", "touch", "get", "token", "ok"} => calls[i].user \in accounts
       /\ requests[i] \in {"token", "ok"} => calls[i].user \in databases

(* A registration that has inserted the user. *)
Inserted(i) == calls[i].op = "register" /\ requests[i] \in {"create", "token", "ok"}

ServerInv ==
  /\ \A i \in DOMAIN calls : MadeFor(i)
  /\ \A i, j \in DOMAIN calls :
       Inserted(i) /\ Inserted(j) /\ calls[i].user = calls[j].user => i = j

(* What a sign-in has made by the time it saves the session. *)
SignedIn(i) ==
  /\ calls[i].place \in {"profile", "session", "saving"} =>
       calls[i].user \in accounts \cap databases
  /\ calls[i].place \in {"session", "saving"} => calls[i].user \in rows[calls[i].device]

SessionInv == SignInIsWhole /\ \A i \in DOMAIN calls : SignedIn(i)

(* Who uses a device.  Two calls at once are of a client, and but for two   *)
(* that synchronise they have been taken down as overlapping.              *)
Busy(d, i) == i \in DOMAIN calls /\ calls[i].device = d /\ Waiting(i)

UseOf(d) ==
  /\ process[d] = "off" => remote[d] = None /\ \A i \in DOMAIN calls : ~Busy(d, i)
  /\ \A i, j \in DOMAIN calls : Busy(d, i) /\ Busy(d, j) /\ i # j =>
       /\ process[d] = "client"
       /\ d \in muddled \/ (calls[i].op = "sync" /\ calls[j].op = "sync")
  /\ \A i \in DOMAIN calls : Busy(d, i) =>
       /\ process[d] = "client" =>
            /\ calls[i].op # "logout"
            /\ calls[i].op = "sync" => calls[i].place \in {"sync", "push", "pull"}
       /\ process[d] = "cli" /\ calls[i].place \notin {"sync", "push", "pull"} => remote[d] = None

(* Whose database a device that is not muddled is connected to. *)
ConnectionOf(d) ==
  d \notin muddled =>
    /\ \A i \in DOMAIN calls : Busy(d, i) =>
         /\ calls[i].place = "pull" => calls[i].pushed = remote[d]
         /\ calls[i].place = "connect" => calls[i].user = session[d]
    /\ \/ remote[d] = None \/ session[d] \in {remote[d], Torn}
       \/ \E i \in DOMAIN calls : Busy(d, i) /\ calls[i].place = "connect"

SyncInv == \A d \in Devices : UseOf(d) /\ ConnectionOf(d)

AccountInv == PlaceInv /\ ServerInv /\ SessionInv /\ SyncInv

-----------------------------------------------------------------------------
(* What a step does to the calls. *)

(* Call i is another record, of the same operation on the same device.     *)
Turned(i) ==
  /\ calls' \in Seq(CallRecord) /\ Len(calls') = Len(calls) /\ DOMAIN calls' = DOMAIN calls
  /\ \A j \in DOMAIN calls \ {i} : calls'[j] = calls[j]
  /\ calls'[i].device = calls[i].device /\ calls'[i].op = calls[i].op

LEMMA CallFields ==
  ASSUME NEW c \in CallRecord
  PROVE  /\ c.device \in Devices /\ c.op \in Operations /\ c.user \in Users \cup {None}
         /\ c.place \in Places /\ c.result \in Results
         /\ c.pushed \in Users \cup {None} /\ c.pulled \in Users \cup {None}
BY DEF CallRecord

LEMMA IsTurned ==
  ASSUME TypeOK, NEW i \in DOMAIN calls, NEW c \in CallRecord,
         calls' = [calls EXCEPT ![i] = c], c.device = calls[i].device, c.op = calls[i].op
  PROVE  Turned(i) /\ calls'[i] = c
BY DEF TypeOK, Turned

LEMMA GoesTurns ==
  ASSUME TypeOK, NEW i \in DOMAIN calls, NEW place \in Places, Goes(i, place)
  PROVE  /\ Turned(i)
         /\ calls'[i].place = place /\ calls'[i].result = calls[i].result
         /\ calls'[i].user = calls[i].user /\ calls'[i].pushed = calls[i].pushed
<1> DEFINE c == [calls[i] EXCEPT !.place = place]
<1>1. calls[i] \in CallRecord
  BY DEF TypeOK
<1>2. c \in CallRecord /\ c.device = calls[i].device /\ c.op = calls[i].op
      /\ c.place = place /\ c.result = calls[i].result
      /\ c.user = calls[i].user /\ c.pushed = calls[i].pushed
  BY <1>1 DEF CallRecord
<1>3. calls' = [calls EXCEPT ![i] = c]
  BY DEF Goes
<1> HIDE DEF c
<1> QED BY <1>2, <1>3, IsTurned

LEMMA EndsTurns ==
  ASSUME TypeOK, NEW i \in DOMAIN calls, NEW result \in Results, Ends(i, result)
  PROVE  /\ Turned(i)
         /\ calls'[i].place = calls[i].place /\ calls'[i].result = result
         /\ calls'[i].user = calls[i].user /\ calls'[i].pushed = calls[i].pushed
<1> DEFINE c == [calls[i] EXCEPT !.result = result]
<1>1. calls[i] \in CallRecord
  BY DEF TypeOK
<1>2. c \in CallRecord /\ c.device = calls[i].device /\ c.op = calls[i].op
      /\ c.place = calls[i].place /\ c.result = result
      /\ c.user = calls[i].user /\ c.pushed = calls[i].pushed
  BY <1>1 DEF CallRecord
<1>3. calls' = [calls EXCEPT ![i] = c]
  BY DEF Ends
<1> HIDE DEF c
<1> QED BY <1>2, <1>3, IsTurned

-----------------------------------------------------------------------------
(* A call that begins. *)

LEMMA NewCallFields ==
  ASSUME NEW d \in Devices, NEW op \in Operations, NEW user \in Users \cup {None},
         NEW place \in Places
  PROVE  /\ NewCall(d, op, user, place) \in CallRecord
         /\ NewCall(d, op, user, place).device = d /\ NewCall(d, op, user, place).op = op
         /\ NewCall(d, op, user, place).user = user
         /\ NewCall(d, op, user, place).place = place
         /\ NewCall(d, op, user, place).result = "waiting"
BY DEF NewCall, CallRecord, Results

LEMMA BeginsAtTheEnd ==
  ASSUME TypeOK, NEW d \in Devices, NEW call \in CallRecord, Begun(d, call)
  PROVE  /\ calls' \in Seq(CallRecord) /\ requests' \in Seq(RequestPlaces)
         /\ Len(requests') = Len(calls')
         /\ DOMAIN calls \subseteq DOMAIN calls' /\ Len(calls') = Len(calls) + 1
         /\ DOMAIN calls' = DOMAIN calls \cup {Len(calls')} /\ Len(calls') \notin DOMAIN calls
         /\ \A j \in DOMAIN calls : calls'[j] = calls[j] /\ requests'[j] = requests[j]
         /\ calls'[Len(calls')] = call
         /\ requests'[Len(calls')] = IF call.place = "server" THEN "find" ELSE None
         /\ muddled' = IF Overlaps(d, call) THEN muddled \cup {d} ELSE muddled
<1>1. (IF call.place = "server" THEN "find" ELSE None) \in RequestPlaces
  BY DEF RequestPlaces
<1>2. calls' = Append(calls, call)
      /\ requests' = Append(requests, IF call.place = "server" THEN "find" ELSE None)
      /\ muddled' = IF Overlaps(d, call) THEN muddled \cup {d} ELSE muddled
  BY DEF Begun
<1> QED BY <1>1, <1>2 DEF TypeOK

(* The ways in: a command, a client that starts, a key of a client.        *)
Enters(d, op, user, place) ==
  \/ /\ process[d] = "off" /\ process' = [process EXCEPT ![d] = "cli"]
     /\ \/ op \in SignIns /\ user \in Users /\ place = "server"
        \/ op \in {"sync", "logout"} /\ user = None /\ place = "read"
  \/ /\ process[d] = "off" /\ process' = [process EXCEPT ![d] = "client"]
     /\ op = "startup" /\ user \in Users /\ user = session[d] /\ place = "connect"
  \/ /\ process[d] = "client" /\ process' = process
     /\ \/ op \in SignIns /\ user \in Users /\ place = "server"
        \/ op = "sync" /\ user = None /\ place = "sync"

Opens(d) ==
  /\ process[d] = "off" /\ process' = [process EXCEPT ![d] = "client"]
  /\ UNCHANGED <<calls, requests, muddled>>

Begins(d) ==
  /\ Stored
  /\ \/ Opens(d)
     \/ \E op \in Operations, user \in Users \cup {None}, place \in Places :
          Begun(d, NewCall(d, op, user, place)) /\ Enters(d, op, user, place)

LEMMA UserBegins ==
  ASSUME TypeOK, NEW d \in Devices, User(d)
  PROVE  Begins(d) \/ Quit(d) \/ Kill(d)
<1> DEFINE Starts(op, user, place) ==
             Stored /\ Begun(d, NewCall(d, op, user, place)) /\ Enters(d, op, user, place)
<1>1. ASSUME NEW op \in Operations, NEW user \in Users \cup {None}, NEW place \in Places,
             Starts(op, user, place)
      PROVE  Begins(d)
  BY <1>1 DEF Begins
<1>2. SignIns \subseteq Operations /\ {"sync", "logout", "startup"} \subseteq Operations
      /\ {"server", "read", "connect", "sync"} \subseteq Places
  BY DEF Operations, Places
<1>3. CASE RunSignIn(d)
  <2>1. PICK op \in SignIns, user \in Users : Begun(d, NewCall(d, op, user, "server"))
    BY <1>3 DEF RunSignIn, SignInCalled
  <2>2. Starts(op, user, "server")
    BY <1>3, <2>1 DEF RunSignIn, OpenDatabase, Enters
  <2> QED BY <1>1, <1>2, <2>2
<1>4. CASE RunLogout(d)
  <2>1. Starts("logout", None, "read")
    BY <1>4 DEF RunLogout, OpenDatabase, Enters
  <2> QED BY <1>1, <1>2, <2>1
<1>5. CASE RunSync(d)
  <2>1. Starts("sync", None, "read")
    BY <1>5 DEF RunSync, OpenDatabase, Enters
  <2> QED BY <1>1, <1>2, <2>1
<1>6. CASE OpenTerminal(d) \/ OpenPage(d)
  <2>1. process[d] = "off" /\ process' = [process EXCEPT ![d] = "client"]
        /\ StartupSync(d) /\ Stored
    BY <1>6 DEF OpenTerminal, OpenPage, OpenDatabase
  <2>2. CASE session[d] \in Users
    <3>1. Starts("startup", session[d], "connect")
      BY <2>1, <2>2 DEF StartupSync, Enters
    <3> QED BY <1>1, <1>2, <2>2, <3>1
  <2>3. CASE session[d] \notin Users
    BY <2>1, <2>3 DEF StartupSync, Begins, Opens
  <2> QED BY <2>2, <2>3
<1>7. CASE PressReturn(d) \/ SubmitForm(d)
  <2>1. PICK op \in SignIns, user \in Users : Begun(d, NewCall(d, op, user, "server"))
    BY <1>7 DEF PressReturn, SubmitForm, SignInCalled
  <2>2. Starts(op, user, "server")
    BY <1>7, <2>1 DEF PressReturn, SubmitForm, Enters
  <2> QED BY <1>1, <1>2, <2>2
<1>8. CASE PressSync(d)
  <2>1. Starts("sync", None, "sync")
    BY <1>8 DEF PressSync, Enters
  <2> QED BY <1>1, <1>2, <2>1
<1> QED BY <1>3, <1>4, <1>5, <1>6, <1>7, <1>8 DEF User

-----------------------------------------------------------------------------
(* The end of a process. *)

LEMMA EndsAll ==
  ASSUME TypeOK, NEW d \in Devices, Ended(d)
  PROVE  /\ calls' \in Seq(CallRecord) /\ Len(calls') = Len(calls) /\ DOMAIN calls' = DOMAIN calls
         /\ \A j \in DOMAIN calls :
              /\ calls'[j].device = calls[j].device /\ calls'[j].op = calls[j].op
              /\ calls'[j].user = calls[j].user /\ calls'[j].place = calls[j].place
              /\ calls[j].device # d => calls'[j] = calls[j]
              /\ calls[j].device = d => calls'[j].result # "waiting"
<1> DEFINE lost(j) == [calls[j] EXCEPT !.result = "lost"]
           next(j) == IF calls[j].device = d /\ Waiting(j) THEN lost(j) ELSE calls[j]
<1>1. calls' = [j \in DOMAIN calls |-> next(j)]
  BY DEF Ended
<1>2. ASSUME NEW j \in DOMAIN calls
      PROVE  /\ next(j) \in CallRecord
             /\ next(j).device = calls[j].device /\ next(j).op = calls[j].op
             /\ next(j).user = calls[j].user /\ next(j).place = calls[j].place
             /\ calls[j].device # d => next(j) = calls[j]
             /\ calls[j].device = d => next(j).result # "waiting"
  <2>1. calls[j] \in CallRecord
    BY DEF TypeOK
  <2>2. lost(j) \in CallRecord /\ lost(j).device = calls[j].device /\ lost(j).op = calls[j].op
        /\ lost(j).user = calls[j].user /\ lost(j).place = calls[j].place
        /\ lost(j).result = "lost"
    BY <2>1 DEF CallRecord, Results
  <2> HIDE DEF lost
  <2> QED BY <2>1, <2>2 DEF Waiting
<1> HIDE DEF next
<1>3. DOMAIN calls = 1..Len(calls) /\ Len(calls) \in Nat
  BY DEF TypeOK
<1>4. calls' \in [1..Len(calls) -> CallRecord]
  BY <1>1, <1>2, <1>3
<1>5. calls' \in Seq(CallRecord) /\ Len(calls') = Len(calls)
  BY <1>3, <1>4, SeqDef
<1> QED BY <1>1, <1>2, <1>3, <1>5

-----------------------------------------------------------------------------
(* Nothing but call i of device d, and what that device has, is touched.    *)

Touches(d, i) ==
  /\ Busy(d, i) /\ Turned(i)
  /\ calls[i].op \in SignIns \cup {"startup"} => calls'[i].user = calls[i].user
  /\ accounts' = accounts /\ databases' = databases /\ process' = process
  /\ requests' \in Seq(RequestPlaces) /\ Len(requests') = Len(requests)
  /\ \A j \in DOMAIN calls : requests'[j] = requests[j] \/ requests'[j] = "gone"
  /\ session' \in [Devices -> Users \cup {None, Torn}]
  /\ rows' \in [Devices -> SUBSET Users] /\ rows[d] \subseteq rows'[d]
  /\ remote' \in [Devices -> Users \cup {None}] /\ (remote'[d] = None => remote[d] = None)
  /\ \A e \in Devices \ {d} :
       /\ session'[e] = session[e] /\ rows'[e] = rows[e] /\ remote'[e] = remote[e]
       /\ (e \in muddled') = (e \in muddled)
  /\ cloud' \in [Users -> SUBSET Users]
  /\ checkpoints' \in [Devices -> [running : Nat, waiting : Nat]]
  /\ faults' \in Nat /\ muddled' \in SUBSET Devices

LEMMA TouchesPlace ==
  ASSUME PlaceInv, NEW d \in Devices, NEW i \in DOMAIN calls, Touches(d, i), PlaceOf(i)'
  PROVE  PlaceInv'
<1>1. TypeOK'
  BY DEF PlaceInv, TypeOK, Touches, Turned
<1>2. ASSUME NEW j \in DOMAIN calls \ {i}
      PROVE  PlaceOf(j)'
  <2>1. calls'[j] = calls[j] /\ PlaceOf(j) /\ calls[j].device \in Devices
    BY CallFields DEF PlaceInv, TypeOK, Touches, Turned
  <2>2. remote'[calls[j].device] = None => remote[calls[j].device] = None
    BY <2>1 DEF Touches
  <2> QED BY <2>1, <2>2 DEF PlaceOf, Waiting
<1> QED BY <1>1, <1>2 DEF PlaceInv, Touches, Turned

LEMMA TouchesServer ==
  ASSUME PlaceInv, ServerInv, NEW d \in Devices, NEW i \in DOMAIN calls, Touches(d, i)
  PROVE  ServerInv'
<1>1. ASSUME NEW j \in DOMAIN calls
      PROVE  /\ calls'[j].op = calls[j].op
             /\ calls[j].op \in SignIns => calls'[j].user = calls[j].user
             /\ requests'[j] = requests[j] \/ requests'[j] = "gone"
  BY DEF Touches, Turned
<1>2. DOMAIN calls' = DOMAIN calls
  BY DEF Touches, Turned
<1>3. accounts' = accounts /\ databases' = databases
  BY DEF Touches
<1>4. ASSUME NEW j \in DOMAIN calls
      PROVE  MadeFor(j)'
  BY <1>1, <1>3 DEF ServerInv, MadeFor
<1>5. ASSUME NEW j \in DOMAIN calls, Inserted(j)'
      PROVE  Inserted(j) /\ calls'[j].user = calls[j].user
  BY <1>1, <1>5 DEF Inserted, SignIns
<1> QED BY <1>2, <1>4, <1>5 DEF ServerInv

LEMMA TouchesSession ==
  ASSUME PlaceInv, SessionInv, NEW d \in Devices, NEW i \in DOMAIN calls, Touches(d, i),
         SignedIn(i)',
         session'[d] \in {session[d], None, Torn}
           \/ session'[d] \in rows'[d] \cap accounts \cap databases
  PROVE  SessionInv'
<1>1. accounts' = accounts /\ databases' = databases
  BY DEF Touches
<1>2. ASSUME NEW e \in Devices
      PROVE  rows[e] \subseteq rows'[e]
  BY DEF Touches
<1>3. SignInIsWhole'
  <2> SUFFICES ASSUME NEW e \in Devices, session'[e] \in Users
               PROVE  session'[e] \in rows'[e] \cap accounts \cap databases
    BY <1>1 DEF SignInIsWhole
  <2>1. CASE session'[e] = session[e]
    BY <1>2, <2>1 DEF SessionInv, SignInIsWhole
  <2>2. CASE session'[e] # session[e]
    BY <2>2, AccountAssumption DEF Touches
  <2> QED BY <2>1, <2>2
<1>4. ASSUME NEW j \in DOMAIN calls \ {i}
      PROVE  SignedIn(j)'
  <2>1. calls'[j] = calls[j] /\ SignedIn(j) /\ calls[j].device \in Devices
    BY CallFields DEF PlaceInv, TypeOK, SessionInv, Touches, Turned
  <2> QED BY <1>1, <1>2, <2>1 DEF SignedIn
<1> QED BY <1>3, <1>4 DEF SessionInv, Touches, Turned

(* The calls of another device are as they were. *)
LEMMA TouchesOthers ==
  ASSUME SyncInv, NEW d \in Devices, NEW i \in DOMAIN calls, Touches(d, i),
         NEW e \in Devices \ {d}
  PROVE  UseOf(e)' /\ ConnectionOf(e)'
<1>1. ASSUME NEW j
      PROVE  /\ Busy(e, j)' = Busy(e, j)
             /\ Busy(e, j) => calls'[j] = calls[j]
  BY DEF Busy, Waiting, Touches, Turned
<1>2. /\ process' = process /\ remote'[e] = remote[e] /\ session'[e] = session[e]
      /\ (e \in muddled') = (e \in muddled) /\ DOMAIN calls' = DOMAIN calls
  BY DEF Touches, Turned
<1>3. UseOf(e)'
  BY <1>1, <1>2 DEF SyncInv, UseOf
<1>4. ConnectionOf(e)'
  BY <1>1, <1>2 DEF SyncInv, ConnectionOf
<1> QED BY <1>3, <1>4

LEMMA TouchesAll ==
  ASSUME AccountInv, NEW d \in Devices, NEW i \in DOMAIN calls, Touches(d, i),
         PlaceOf(i)', SignedIn(i)',
         session'[d] \in {session[d], None, Torn}
           \/ session'[d] \in rows'[d] \cap accounts \cap databases,
         UseOf(d)', ConnectionOf(d)'
  PROVE  AccountInv'
<1>1. PlaceInv' /\ ServerInv' /\ SessionInv'
  BY TouchesPlace, TouchesServer, TouchesSession DEF AccountInv
<1>2. SyncInv'
  BY TouchesOthers DEF AccountInv, SyncInv
<1> QED BY <1>1, <1>2 DEF AccountInv

(* Who uses the device, when one of its calls has gone on. *)
LEMMA KeepsUse ==
  ASSUME NEW d \in Devices, NEW i \in DOMAIN calls, UseOf(d), Busy(d, i), Turned(i),
         process' = process, d \in muddled => d \in muddled',
         Waiting(i)' =>
           /\ process[d] = "client" /\ calls[i].op = "sync" =>
                calls'[i].place \in {"sync", "push", "pull"}
           /\ calls[i].place \in {"sync", "push", "pull"} =>
                calls'[i].place \in {"sync", "push", "pull"},
         remote'[d] = remote[d] \/ calls'[i].place = "sync"
  PROVE  UseOf(d)'
<1>1. process[d] # "off"
  BY DEF UseOf
<1>2. ASSUME NEW j, Busy(d, j)'
      PROVE  /\ j \in DOMAIN calls /\ Busy(d, j)
             /\ calls'[j].op = calls[j].op /\ (j # i => calls'[j] = calls[j])
  BY <1>2 DEF Busy, Waiting, Turned
<1>3. ASSUME NEW j \in DOMAIN calls', NEW k \in DOMAIN calls', Busy(d, j)', Busy(d, k)', j # k
      PROVE  /\ process'[d] = "client"
             /\ d \in muddled' \/ (calls'[j].op = "sync" /\ calls'[k].op = "sync")
  BY <1>2, <1>3 DEF UseOf
<1>4. ASSUME NEW j \in DOMAIN calls', Busy(d, j)'
      PROVE  /\ process'[d] = "client" =>
                  /\ calls'[j].op # "logout"
                  /\ calls'[j].op = "sync" => calls'[j].place \in {"sync", "push", "pull"}
             /\ process'[d] = "cli" /\ calls'[j].place \notin {"sync", "push", "pull"} =>
                  remote'[d] = None
  <2>1. Busy(d, j) /\ j \in DOMAIN calls /\ calls'[j].op = calls[j].op
    BY <1>2, <1>4
  <2>2. CASE j = i
    <3>1. Waiting(i)'
      BY <1>4, <2>2 DEF Busy
    <3> QED BY <2>1, <2>2, <3>1 DEF UseOf
  <2>3. CASE j # i
    <3>1. calls'[j] = calls[j] /\ process[d] = "client"
      BY <1>2, <1>4, <2>1, <2>3 DEF UseOf
    <3> QED BY <2>1, <3>1 DEF UseOf
  <2> QED BY <2>2, <2>3
<1>5. process'[d] # "off"
  BY <1>1
<1> QED BY <1>3, <1>4, <1>5 DEF UseOf

(* The connection stays, and call i keeps to it. *)
LEMMA KeepsConnection ==
  ASSUME NEW d \in Devices, NEW i \in DOMAIN calls, ConnectionOf(d), Busy(d, i), Turned(i),
         remote'[d] = remote[d], session'[d] = session[d], d \in muddled => d \in muddled',
         calls[i].place # "connect",
         Waiting(i)' =>
           /\ calls'[i].place = "pull" => calls'[i].pushed = remote[d]
           /\ calls'[i].place = "connect" => calls'[i].user = session[d]
  PROVE  ConnectionOf(d)'
<1> SUFFICES ASSUME d \notin muddled'
             PROVE  ConnectionOf(d)'
  BY DEF ConnectionOf
<1>1. ASSUME NEW j \in DOMAIN calls', Busy(d, j)'
      PROVE  /\ calls'[j].place = "pull" => calls'[j].pushed = remote'[d]
             /\ calls'[j].place = "connect" => calls'[j].user = session'[d]
  <2>1. CASE j = i
    BY <1>1, <2>1 DEF Busy
  <2>2. CASE j # i
    <3>1. calls'[j] = calls[j] /\ j \in DOMAIN calls /\ Busy(d, j)
      BY <1>1, <2>2 DEF Busy, Waiting, Turned
    <3> QED BY <3>1 DEF ConnectionOf
  <2> QED BY <2>1, <2>2
<1>2. \/ remote'[d] = None \/ session'[d] \in {remote'[d], Torn}
      \/ \E j \in DOMAIN calls' : Busy(d, j)' /\ calls'[j].place = "connect"
  <2>1. CASE remote[d] = None \/ session[d] \in {remote[d], Torn}
    BY <2>1
  <2>2. CASE \E j \in DOMAIN calls : Busy(d, j) /\ calls[j].place = "connect"
    <3>1. PICK j \in DOMAIN calls : Busy(d, j) /\ calls[j].place = "connect"
      BY <2>2
    <3>2. j # i
      BY <3>1
    <3>3. j \in DOMAIN calls' /\ Busy(d, j)' /\ calls'[j].place = "connect"
      BY <3>1, <3>2 DEF Busy, Waiting, Turned
    <3> QED BY <3>3
  <2> QED BY <2>1, <2>2 DEF ConnectionOf
<1> QED BY <1>1, <1>2 DEF ConnectionOf

(* A call that is the only one of its device, unless that is muddled. *)
LEMMA Alone ==
  ASSUME NEW d \in Devices, NEW i \in DOMAIN calls, NEW j \in DOMAIN calls,
         UseOf(d), Busy(d, i), Busy(d, j), d \notin muddled,
         calls[i].op # "sync" \/ process[d] # "client"
  PROVE  i = j
BY DEF UseOf

LEMMA ConnectsAlone ==
  ASSUME NEW d \in Devices, NEW i \in DOMAIN calls, UseOf(d), Busy(d, i), Turned(i),
         d \in muddled => d \in muddled', calls[i].op # "sync" \/ process[d] # "client",
         d \notin muddled' /\ Waiting(i)' =>
           /\ calls'[i].place = "pull" => calls'[i].pushed = remote'[d]
           /\ calls'[i].place = "connect" => calls'[i].user = session'[d],
         d \notin muddled' =>
           \/ remote'[d] = None \/ session'[d] \in {remote'[d], Torn}
           \/ Waiting(i)' /\ calls'[i].place = "connect"
  PROVE  ConnectionOf(d)'
<1> SUFFICES ASSUME d \notin muddled'
             PROVE  ConnectionOf(d)'
  BY DEF ConnectionOf
<1>1. ASSUME NEW j \in DOMAIN calls', Busy(d, j)'
      PROVE  j = i /\ Waiting(i)'
  <2>1. j \in DOMAIN calls /\ Busy(d, j)
    BY <1>1 DEF Busy, Waiting, Turned
  <2>2. j = i
    BY <2>1, Alone
  <2> QED BY <1>1, <2>2 DEF Busy
<1>2. Waiting(i)' => i \in DOMAIN calls' /\ Busy(d, i)'
  BY DEF Busy, Waiting, Turned
<1> QED BY <1>1, <1>2 DEF ConnectionOf

-----------------------------------------------------------------------------
(* The steps of a call. *)

LEMMA CallIsBusy ==
  ASSUME PlaceInv, NEW d \in Devices, NEW i, NEW place, Call(i, d, place)
  PROVE  /\ i \in DOMAIN calls /\ Busy(d, i) /\ calls[i] \in CallRecord
         /\ calls[i].place = place /\ calls[i].device = d /\ PlaceOf(i)
BY DEF Call, Busy, Waiting, PlaceInv, TypeOK

(* What stays for the steps that only move their call. *)
LEMMA Frame ==
  ASSUME PlaceInv
  PROVE  /\ requests \in Seq(RequestPlaces)
         /\ session \in [Devices -> Users \cup {None, Torn}]
         /\ rows \in [Devices -> SUBSET Users] /\ remote \in [Devices -> Users \cup {None}]
         /\ cloud \in [Users -> SUBSET Users]
         /\ checkpoints \in [Devices -> [running : Nat, waiting : Nat]]
         /\ faults \in Nat /\ muddled \in SUBSET Devices
BY DEF PlaceInv, TypeOK

LEMMA FaultCounts ==
  ASSUME PlaceInv, Fault
  PROVE  faults' \in Nat
BY Frame DEF Fault

(* A call that goes on or ends, and nothing else. *)
LEMMA OnlyMoves ==
  ASSUME AccountInv, NEW d \in Devices, NEW i \in DOMAIN calls, Busy(d, i), Turned(i),
         calls[i].op \in SignIns \cup {"startup"} => calls'[i].user = calls[i].user,
         UNCHANGED <<accounts, databases, process, session, rows, remote>>,
         requests' \in Seq(RequestPlaces), Len(requests') = Len(requests),
         \A j \in DOMAIN calls : requests'[j] = requests[j] \/ requests'[j] = "gone",
         cloud' \in [Users -> SUBSET Users],
         checkpoints' \in [Devices -> [running : Nat, waiting : Nat]],
         faults' \in Nat, muddled' = muddled,
         PlaceOf(i)', SignedIn(i)', calls[i].place # "connect",
         Waiting(i)' =>
           /\ process[d] = "client" /\ calls[i].op = "sync" =>
                calls'[i].place \in {"sync", "push", "pull"}
           /\ calls[i].place \in {"sync", "push", "pull"} =>
                calls'[i].place \in {"sync", "push", "pull"}
           /\ calls'[i].place = "pull" => calls'[i].pushed = remote[d]
           /\ calls'[i].place = "connect" => calls'[i].user = session[d]
  PROVE  AccountInv'
<1>1. Touches(d, i)
  BY Frame DEF Touches, AccountInv
<1>2. UseOf(d)'
  BY KeepsUse DEF AccountInv, SyncInv
<1>3. ConnectionOf(d)'
  BY KeepsConnection DEF AccountInv, SyncInv
<1>4. session'[d] = session[d]
  OBVIOUS
<1> QED BY <1>1, <1>2, <1>3, <1>4, TouchesAll

LEMMA PlacesAre ==
  /\ {"server", "profile", "session", "saving", "connect", "sync", "push", "pull", "read",
      "clear"} = Places
  /\ {"waiting", "lost", "failed", "done"} = Results
BY DEF Places, Results

LEMMA AnswerStep ==
  ASSUME AccountInv, NEW d \in Devices, NEW i, AnswerReceived(d, i)
  PROVE  AccountInv'
<1>1. /\ i \in DOMAIN calls /\ Busy(d, i) /\ calls[i] \in CallRecord
      /\ calls[i].place = "server" /\ calls[i].device = d /\ PlaceOf(i)
  BY CallIsBusy DEF AnswerReceived, AccountInv
<1>2. TypeOK /\ PlaceInv /\ MadeFor(i)
  BY <1>1 DEF AccountInv, PlaceInv, ServerInv
<1>3. /\ calls[i].op \in SignIns /\ calls[i].user \in Users /\ calls[i].result = "waiting"
  BY <1>1 DEF PlaceOf, Busy, Waiting
<1>4. /\ Turned(i) /\ calls'[i].user = calls[i].user
      /\ \/ calls'[i].place = "profile" /\ requests[i] = "ok"
         \/ calls'[i].place = "server" /\ calls'[i].result = "failed"
  <2>1. CASE requests[i] = "ok" /\ Goes(i, "profile")
    BY <1>1, <1>2, <2>1, GoesTurns, PlacesAre
  <2>2. CASE Ends(i, "failed")
    BY <1>1, <1>2, <2>2, EndsTurns, PlacesAre
  <2> QED BY <2>1, <2>2 DEF AnswerReceived
<1>5. UNCHANGED <<accounts, databases, requests, process, session, rows, remote, cloud,
                  checkpoints, faults, muddled>>
  BY DEF AnswerReceived, Unchanged, server
<1>6. PlaceOf(i)'
  BY <1>3, <1>4 DEF PlaceOf, Turned, SignIns
<1>7. SignedIn(i)'
  BY <1>2, <1>3, <1>4, <1>5 DEF SignedIn, MadeFor
<1>8. Waiting(i)' => calls'[i].place = "profile"
  BY <1>4 DEF Waiting
<1> QED BY <1>1, <1>2, <1>3, <1>4, <1>5, <1>6, <1>7, <1>8, Frame, OnlyMoves DEF SignIns

LEMMA NetworkStep ==
  ASSUME AccountInv, NEW d \in Devices, NEW i, NetworkFails(d, i)
  PROVE  AccountInv'
<1>1. /\ i \in DOMAIN calls /\ Busy(d, i) /\ calls[i] \in CallRecord
      /\ calls[i].place = "server" /\ calls[i].device = d /\ PlaceOf(i)
  BY CallIsBusy DEF NetworkFails, AccountInv
<1>2. TypeOK /\ PlaceInv
  BY DEF AccountInv, PlaceInv
<1>3. /\ Turned(i) /\ calls'[i].user = calls[i].user /\ calls'[i].place = "server"
      /\ calls'[i].result = "failed"
  BY <1>1, <1>2, EndsTurns, PlacesAre DEF NetworkFails
<1>4. UNCHANGED <<accounts, databases, process, session, rows, remote, cloud, checkpoints,
                  muddled>>
  BY DEF NetworkFails
<1>5. faults' \in Nat
  BY <1>2, Frame, FaultCounts DEF NetworkFails
<1>6. /\ requests' \in Seq(RequestPlaces) /\ Len(requests') = Len(requests)
      /\ \A j \in DOMAIN calls : requests'[j] = requests[j] \/ requests'[j] = "gone"
  <2>1. CASE requests' = requests
    BY <1>2, <2>1, Frame
  <2>2. CASE requests' = [requests EXCEPT ![i] = "gone"]
    <3>1. "gone" \in RequestPlaces
      BY DEF RequestPlaces
    <3>2. requests \in Seq(RequestPlaces) /\ DOMAIN calls = 1..Len(requests)
      BY <1>2 DEF TypeOK
    <3> QED BY <1>1, <2>2, <3>1, <3>2
  <2> QED BY <2>1, <2>2 DEF NetworkFails
<1>7. PlaceOf(i)' /\ SignedIn(i)' /\ ~Waiting(i)'
  BY <1>1, <1>3 DEF PlaceOf, SignedIn, Waiting, Turned
<1> QED BY <1>1, <1>2, <1>3, <1>4, <1>5, <1>6, <1>7, Frame, OnlyMoves

LEMMA ProfileStep ==
  ASSUME AccountInv, NEW d \in Devices, NEW i, SaveProfile(d, i)
  PROVE  AccountInv'
<1>1. /\ i \in DOMAIN calls /\ Busy(d, i) /\ calls[i] \in CallRecord
      /\ calls[i].place = "profile" /\ calls[i].device = d /\ PlaceOf(i)
  BY CallIsBusy DEF SaveProfile, AccountInv
<1>2. TypeOK /\ PlaceInv /\ SignedIn(i) /\ UseOf(d) /\ ConnectionOf(d)
  BY <1>1 DEF AccountInv, PlaceInv, SessionInv, SyncInv
<1>3. calls[i].op \in SignIns /\ calls[i].user \in Users /\ calls[i].op # "sync"
  BY <1>1 DEF PlaceOf, SignIns
<1>4. /\ Turned(i) /\ calls'[i].user = calls[i].user /\ calls'[i].place = "session"
  BY <1>1, <1>2, GoesTurns, PlacesAre DEF SaveProfile
<1>5. UNCHANGED <<accounts, databases, requests, process, session, remote, cloud,
                  checkpoints, faults, muddled>>
  BY DEF SaveProfile, Unchanged, server
<1>6. rows' = [rows EXCEPT ![d] = @ \cup {calls[i].user}]
  BY DEF SaveProfile
<1>7. /\ rows' \in [Devices -> SUBSET Users] /\ rows'[d] = rows[d] \cup {calls[i].user}
      /\ \A e \in Devices \ {d} : rows'[e] = rows[e]
  BY <1>2, <1>3, <1>6, Frame
<1>8. Touches(d, i)
  BY <1>1, <1>2, <1>4, <1>5, <1>7, Frame DEF Touches
<1>9. PlaceOf(i)' /\ SignedIn(i)'
  BY <1>1, <1>2, <1>3, <1>4, <1>5, <1>7 DEF PlaceOf, SignedIn, Turned
<1>10. UseOf(d)'
  BY <1>1, <1>2, <1>3, <1>4, <1>5, KeepsUse
<1>11. ConnectionOf(d)'
  BY <1>1, <1>2, <1>4, <1>5, KeepsConnection
<1> QED BY <1>1, <1>5, <1>8, <1>9, <1>10, <1>11, TouchesAll

LEMMA OpenSessionStep ==
  ASSUME AccountInv, NEW d \in Devices, NEW i, OpenSession(d, i)
  PROVE  AccountInv'
<1>1. /\ i \in DOMAIN calls /\ Busy(d, i) /\ calls[i] \in CallRecord
      /\ calls[i].place = "session" /\ calls[i].device = d /\ PlaceOf(i)
  BY CallIsBusy DEF OpenSession, AccountInv
<1>2. TypeOK /\ PlaceInv /\ SignedIn(i) /\ UseOf(d) /\ ConnectionOf(d)
  BY <1>1 DEF AccountInv, PlaceInv, SessionInv, SyncInv
<1>3. calls[i].op \in SignIns /\ calls[i].user \in Users /\ calls[i].op # "sync"
  BY <1>1 DEF PlaceOf, SignIns
<1>4. /\ Turned(i) /\ calls'[i].user = calls[i].user /\ calls'[i].place = "saving"
  BY <1>1, <1>2, GoesTurns, PlacesAre DEF OpenSession
<1>5. UNCHANGED <<accounts, databases, requests, process, rows, remote, cloud,
                  checkpoints, faults, muddled>>
  BY DEF OpenSession, Unchanged, server
<1>6. session' = [session EXCEPT ![d] = Torn]
  BY DEF OpenSession
<1>7. /\ session' \in [Devices -> Users \cup {None, Torn}] /\ session'[d] = Torn
      /\ \A e \in Devices \ {d} : session'[e] = session[e]
  BY <1>2, <1>6, Frame
<1>8. Touches(d, i)
  BY <1>1, <1>2, <1>4, <1>5, <1>7, Frame DEF Touches
<1>9. PlaceOf(i)' /\ SignedIn(i)'
  BY <1>1, <1>2, <1>3, <1>4, <1>5 DEF PlaceOf, SignedIn, Turned
<1>10. UseOf(d)'
  BY <1>1, <1>2, <1>3, <1>4, <1>5, KeepsUse
<1>11. ConnectionOf(d)'
  BY <1>1, <1>2, <1>3, <1>4, <1>5, <1>7, ConnectsAlone
<1> QED BY <1>1, <1>7, <1>8, <1>9, <1>10, <1>11, TouchesAll

LEMMA SaveSessionStep ==
  ASSUME AccountInv, NEW d \in Devices, NEW i, SaveSession(d, i)
  PROVE  AccountInv'
<1>1. /\ i \in DOMAIN calls /\ Busy(d, i) /\ calls[i] \in CallRecord
      /\ calls[i].place \in {"session", "saving"} /\ calls[i].device = d /\ PlaceOf(i)
  BY CallIsBusy DEF SaveSession, AccountInv
<1>2. TypeOK /\ PlaceInv /\ SignedIn(i) /\ UseOf(d) /\ ConnectionOf(d)
  BY <1>1 DEF AccountInv, PlaceInv, SessionInv, SyncInv
<1>3. calls[i].op \in SignIns /\ calls[i].user \in Users /\ calls[i].op # "sync"
  BY <1>1 DEF PlaceOf, SignIns
<1>4. /\ Turned(i) /\ calls'[i].user = calls[i].user /\ calls'[i].place = "connect"
      /\ calls'[i].result = calls[i].result
  BY <1>1, <1>2, GoesTurns, PlacesAre DEF SaveSession
<1>5. UNCHANGED <<accounts, databases, requests, process, rows, remote, cloud,
                  checkpoints, faults, muddled>>
  BY DEF SaveSession, Unchanged, server
<1>6. \/ session' = [session EXCEPT ![d] = calls[i].user]
      \/ session' = [session EXCEPT ![d] = Torn] /\ d \in muddled
  <2> SUFFICES ASSUME session' = [session EXCEPT ![d] = Torn],
                      NEW j \in DOMAIN calls \ {i}, Call(j, d, "saving")
               PROVE  d \in muddled
    BY DEF SaveSession
  <2>1. Busy(d, j)
    BY <1>2, CallIsBusy
  <2> QED BY <1>1, <1>2, <1>3, <2>1, Alone
<1>7. /\ session' \in [Devices -> Users \cup {None, Torn}]
      /\ session'[d] = calls[i].user \/ (session'[d] = Torn /\ d \in muddled)
      /\ \A e \in Devices \ {d} : session'[e] = session[e]
  BY <1>2, <1>3, <1>6, Frame
<1>8. Touches(d, i)
  BY <1>1, <1>2, <1>4, <1>5, <1>7, Frame DEF Touches
<1>9. PlaceOf(i)' /\ SignedIn(i)'
  BY <1>1, <1>2, <1>3, <1>4, <1>5 DEF PlaceOf, SignedIn, Turned, SignIns
<1>10. UseOf(d)'
  BY <1>1, <1>2, <1>3, <1>4, <1>5, KeepsUse
<1>11. Waiting(i)'
  BY <1>1, <1>4 DEF Busy, Waiting
<1>12. ConnectionOf(d)'
  BY <1>1, <1>2, <1>3, <1>4, <1>5, <1>7, <1>11, ConnectsAlone
<1>13. session'[d] = Torn \/ session'[d] \in rows'[d] \cap accounts \cap databases
  BY <1>1, <1>2, <1>5, <1>7 DEF SignedIn
<1> QED BY <1>1, <1>8, <1>9, <1>10, <1>12, <1>13, TouchesAll

LEMMA SaveFailsStep ==
  ASSUME AccountInv, NEW d \in Devices, NEW i, SaveFails(d, i)
  PROVE  AccountInv'
<1>1. /\ i \in DOMAIN calls /\ Busy(d, i) /\ calls[i] \in CallRecord
      /\ calls[i].place \in {"profile", "session", "saving"} /\ calls[i].device = d /\ PlaceOf(i)
  BY CallIsBusy DEF SaveFails, AccountInv
<1>2. TypeOK /\ PlaceInv /\ SignedIn(i)
  BY <1>1 DEF AccountInv, PlaceInv, SessionInv
<1>3. /\ Turned(i) /\ calls'[i].user = calls[i].user /\ calls'[i].place = calls[i].place
      /\ calls'[i].result = "failed"
  BY <1>1, <1>2, EndsTurns, PlacesAre DEF SaveFails
<1>4. UNCHANGED <<accounts, databases, requests, process, session, rows, remote, cloud,
                  checkpoints, muddled>>
  BY DEF SaveFails, server
<1>5. faults' \in Nat
  BY <1>2, FaultCounts DEF SaveFails
<1>6. PlaceOf(i)' /\ SignedIn(i)' /\ ~Waiting(i)'
  BY <1>1, <1>2, <1>3, <1>4 DEF PlaceOf, SignedIn, Waiting, Turned
<1> QED BY <1>1, <1>2, <1>3, <1>4, <1>5, <1>6, Frame, OnlyMoves

LEMMA ReadStep ==
  ASSUME AccountInv, NEW d \in Devices, NEW i, ReadSession(d, i)
  PROVE  AccountInv'
<1>1. /\ i \in DOMAIN calls /\ Busy(d, i) /\ calls[i] \in CallRecord
      /\ calls[i].place = "read" /\ calls[i].device = d /\ PlaceOf(i)
  BY CallIsBusy DEF ReadSession, AccountInv
<1>2. TypeOK /\ PlaceInv /\ SignedIn(i) /\ UseOf(d) /\ ConnectionOf(d)
  BY <1>1 DEF AccountInv, PlaceInv, SessionInv, SyncInv
<1>3. calls[i].op \in {"sync", "logout"}
  BY <1>1 DEF PlaceOf
<1>4. UNCHANGED <<accounts, databases, requests, process, session, rows, remote, cloud,
                  checkpoints, faults, muddled>>
  BY DEF ReadSession, Unchanged, server
<1>5. process[d] = "cli"
  BY <1>1, <1>2, <1>3 DEF UseOf, TypeOK
<1>6. CASE \E result \in {"done", "failed"} : Ends(i, result)
  <2>1. /\ Turned(i) /\ calls'[i].user = calls[i].user /\ calls'[i].place = "read"
        /\ ~Waiting(i)'
    BY <1>1, <1>2, <1>6, EndsTurns, PlacesAre DEF Waiting
  <2>2. PlaceOf(i)' /\ SignedIn(i)'
    BY <1>1, <1>3, <2>1 DEF PlaceOf, SignedIn, Turned, SignIns
  <2> QED BY <1>1, <1>2, <1>4, <2>1, <2>2, Frame, OnlyMoves
<1>7. CASE calls[i].op = "logout" /\ Goes(i, "clear")
  <2>1. /\ Turned(i) /\ calls'[i].user = calls[i].user /\ calls'[i].place = "clear"
        /\ calls'[i].op = "logout"
    BY <1>1, <1>2, <1>7, GoesTurns, PlacesAre DEF Turned
  <2>2. PlaceOf(i)' /\ SignedIn(i)'
    BY <2>1 DEF PlaceOf, SignedIn, SignIns
  <2> QED BY <1>1, <1>2, <1>4, <1>7, <2>1, <2>2, Frame, OnlyMoves
<1>8. CASE /\ calls[i].op = "sync" /\ session[d] \in Users
           /\ calls' = [calls EXCEPT ![i].place = "connect", ![i].user = session[d]]
  <2> DEFINE c == [calls[i] EXCEPT !.place = "connect", !.user = session[d]]
  <2>1. "connect" \in Places
    BY DEF Places
  <2>2. c \in CallRecord /\ c.device = calls[i].device /\ c.op = calls[i].op
        /\ c.place = "connect" /\ c.user = session[d]
    BY <1>1, <1>8, <2>1 DEF CallRecord
  <2>3. calls' = [calls EXCEPT ![i] = c]
    BY <1>8
  <2> HIDE DEF c
  <2>4. Turned(i) /\ calls'[i] = c
    BY <1>1, <1>2, <2>2, <2>3, IsTurned
  <2>5. PlaceOf(i)' /\ SignedIn(i)'
    BY <1>8, <2>2, <2>4 DEF PlaceOf, SignedIn, SignIns
  <2> QED BY <1>1, <1>2, <1>4, <1>5, <1>8, <2>2, <2>4, <2>5, Frame, OnlyMoves DEF SignIns
<1>9. session[d] \in Users \cup {None, Torn}
  BY <1>2, Frame
<1> QED BY <1>3, <1>6, <1>7, <1>8, <1>9 DEF ReadSession

LEMMA ClearStep ==
  ASSUME AccountInv, NEW d \in Devices, NEW i, ClearSession(d, i)
  PROVE  AccountInv'
<1>1. /\ i \in DOMAIN calls /\ Busy(d, i) /\ calls[i] \in CallRecord
      /\ calls[i].place = "clear" /\ calls[i].device = d /\ PlaceOf(i)
  BY CallIsBusy DEF ClearSession, AccountInv
<1>2. TypeOK /\ PlaceInv /\ SignedIn(i) /\ UseOf(d) /\ ConnectionOf(d)
  BY <1>1 DEF AccountInv, PlaceInv, SessionInv, SyncInv
<1>3. calls[i].op = "logout" /\ process[d] = "cli" /\ remote[d] = None
  BY <1>1, <1>2 DEF PlaceOf, UseOf, TypeOK
<1>4. /\ Turned(i) /\ calls'[i].user = calls[i].user /\ calls'[i].place = "clear"
      /\ calls'[i].op = "logout" /\ ~Waiting(i)'
  BY <1>1, <1>2, <1>3, EndsTurns, PlacesAre DEF ClearSession, Turned, Waiting
<1>5. UNCHANGED <<accounts, databases, requests, process, rows, remote, cloud,
                  checkpoints, faults, muddled>>
  BY DEF ClearSession, Unchanged, server
<1>6. session' = [session EXCEPT ![d] = None]
  BY DEF ClearSession
<1>7. /\ session' \in [Devices -> Users \cup {None, Torn}] /\ session'[d] = None
      /\ \A e \in Devices \ {d} : session'[e] = session[e]
  BY <1>2, <1>6, Frame
<1>8. Touches(d, i)
  BY <1>1, <1>2, <1>4, <1>5, <1>7, Frame DEF Touches
<1>9. PlaceOf(i)' /\ SignedIn(i)'
  BY <1>4 DEF PlaceOf, SignedIn, SignIns
<1>10. UseOf(d)'
  BY <1>1, <1>2, <1>4, <1>5, KeepsUse
<1>11. ConnectionOf(d)'
  BY <1>1, <1>2, <1>3, <1>4, <1>5, ConnectsAlone
<1> QED BY <1>1, <1>7, <1>8, <1>9, <1>10, <1>11, TouchesAll

LEMMA ConnectStep ==
  ASSUME AccountInv, NEW d \in Devices, NEW i, ConnectRemote(d, i)
  PROVE  AccountInv'
<1>1. /\ i \in DOMAIN calls /\ Busy(d, i) /\ calls[i] \in CallRecord
      /\ calls[i].place = "connect" /\ calls[i].device = d /\ PlaceOf(i)
  BY CallIsBusy DEF ConnectRemote, AccountInv
<1>2. TypeOK /\ PlaceInv /\ SignedIn(i) /\ UseOf(d) /\ ConnectionOf(d)
  BY <1>1 DEF AccountInv, PlaceInv, SessionInv, SyncInv
<1>3. /\ calls[i].user \in Users /\ calls[i].user # None
      /\ calls[i].op # "logout" /\ (calls[i].op # "sync" \/ process[d] # "client")
  BY <1>1, <1>2, AccountAssumption DEF PlaceOf, UseOf
<1>4. /\ Turned(i) /\ calls'[i].user = calls[i].user /\ calls'[i].place = "sync"
      /\ calls'[i].op = calls[i].op
  BY <1>1, <1>2, GoesTurns, PlacesAre DEF ConnectRemote, Turned
<1>5. UNCHANGED <<accounts, databases, requests, process, session, rows, cloud,
                  checkpoints, faults, muddled>>
  BY DEF ConnectRemote, Unchanged, server
<1>6. remote' = [remote EXCEPT ![d] = calls[i].user]
  BY DEF ConnectRemote, Credentials
<1>7. /\ remote' \in [Devices -> Users \cup {None}] /\ remote'[d] = calls[i].user
      /\ \A e \in Devices \ {d} : remote'[e] = remote[e]
  BY <1>2, <1>3, <1>6, Frame
<1>8. Touches(d, i)
  BY <1>1, <1>2, <1>3, <1>4, <1>5, <1>7, Frame DEF Touches
<1>9. PlaceOf(i)' /\ SignedIn(i)'
  BY <1>1, <1>3, <1>4 DEF PlaceOf, SignedIn, SignIns
<1>10. UseOf(d)'
  BY <1>1, <1>2, <1>4, <1>5, KeepsUse
<1>11. d \notin muddled => calls[i].user = session[d]
  BY <1>1, <1>2 DEF ConnectionOf
<1>12. ConnectionOf(d)'
  BY <1>1, <1>2, <1>3, <1>4, <1>5, <1>7, <1>11, ConnectsAlone
<1> QED BY <1>1, <1>5, <1>8, <1>9, <1>10, <1>12, TouchesAll

LEMMA OfflineStep ==
  ASSUME AccountInv, NEW d \in Devices, NEW i, ConnectOffline(d, i)
  PROVE  AccountInv'
<1>1. /\ i \in DOMAIN calls /\ Busy(d, i) /\ calls[i] \in CallRecord
      /\ calls[i].place = "connect" /\ calls[i].device = d /\ PlaceOf(i)
  BY CallIsBusy DEF ConnectOffline, AccountInv
<1>2. TypeOK /\ PlaceInv /\ SignedIn(i) /\ UseOf(d) /\ ConnectionOf(d)
  BY <1>1 DEF AccountInv, PlaceInv, SessionInv, SyncInv
<1>3. calls[i].user \in Users /\ calls[i].op # "logout"
  BY <1>1 DEF PlaceOf
<1>4. /\ Turned(i) /\ calls'[i].user = calls[i].user /\ calls'[i].op = calls[i].op
      /\ \/ calls'[i].place = "sync"
         \/ calls'[i].place = "connect" /\ ~Waiting(i)'
  <2>1. CASE Ends(i, "failed")
    BY <1>1, <1>2, <2>1, EndsTurns, PlacesAre DEF Turned, Waiting
  <2>2. CASE Goes(i, "sync")
    BY <1>1, <1>2, <2>2, GoesTurns, PlacesAre DEF Turned
  <2> QED BY <2>1, <2>2 DEF ConnectOffline
<1>5. UNCHANGED <<accounts, databases, requests, process, session, rows, remote, cloud,
                  checkpoints>>
  BY DEF ConnectOffline, server
<1>6. muddled' = muddled \cup {d} /\ faults' \in Nat
  BY <1>2, FaultCounts DEF ConnectOffline
<1>7. Touches(d, i)
  BY <1>1, <1>2, <1>4, <1>5, <1>6, Frame DEF Touches
<1>8. PlaceOf(i)' /\ SignedIn(i)'
  BY <1>1, <1>3, <1>4 DEF PlaceOf, SignedIn, SignIns
<1>9. UseOf(d)'
  BY <1>1, <1>2, <1>4, <1>5, <1>6, KeepsUse
<1>10. ConnectionOf(d)'
  BY <1>6 DEF ConnectionOf
<1> QED BY <1>1, <1>5, <1>7, <1>8, <1>9, <1>10, TouchesAll

LEMMA BeginSyncStep ==
  ASSUME AccountInv, NEW d \in Devices, NEW i, BeginSync(d, i)
  PROVE  AccountInv'
<1>1. /\ i \in DOMAIN calls /\ Busy(d, i) /\ calls[i] \in CallRecord
      /\ calls[i].place = "sync" /\ calls[i].device = d /\ PlaceOf(i)
  BY CallIsBusy DEF BeginSync, AccountInv
<1>2. TypeOK /\ PlaceInv
  BY DEF AccountInv, PlaceInv
<1>3. /\ Turned(i) /\ calls'[i].user = calls[i].user /\ calls'[i].op = calls[i].op
      /\ \/ calls'[i].place = "sync" /\ ~Waiting(i)'
         \/ calls'[i].place = "push" /\ remote[d] # None
  <2>1. CASE Failed(i)
    BY <1>1, <1>2, <2>1, EndsTurns, PlacesAre DEF Failed, Turned, Waiting
  <2>2. CASE remote[d] # None /\ Goes(i, "push")
    BY <1>1, <1>2, <2>2, GoesTurns, PlacesAre DEF Turned
  <2> QED BY <2>1, <2>2 DEF BeginSync
<1>4. UNCHANGED <<accounts, databases, requests, process, session, rows, remote, cloud,
                  checkpoints, faults, muddled>>
  BY DEF BeginSync, Unchanged, server
<1>5. PlaceOf(i)' /\ SignedIn(i)'
  BY <1>1, <1>3, <1>4 DEF PlaceOf, SignedIn, Turned, SignIns
<1> QED BY <1>1, <1>2, <1>3, <1>4, <1>5, Frame, OnlyMoves

LEMMA PushStep ==
  ASSUME AccountInv, NEW d \in Devices, NEW i, Push(d, i)
  PROVE  AccountInv'
<1>1. /\ i \in DOMAIN calls /\ Busy(d, i) /\ calls[i] \in CallRecord
      /\ calls[i].place = "push" /\ calls[i].device = d /\ PlaceOf(i) /\ Waiting(i)
  BY CallIsBusy DEF Push, AccountInv, Busy
<1>2. TypeOK /\ PlaceInv
  BY DEF AccountInv, PlaceInv
<1>3. remote[d] \in Users
  BY <1>1, <1>2, Frame DEF PlaceOf
<1> DEFINE c == [calls[i] EXCEPT !.place = "pull", !.pushed = remote[d]]
<1>4. "pull" \in Places
  BY DEF Places
<1>5. /\ c \in CallRecord /\ c.device = calls[i].device /\ c.op = calls[i].op
      /\ c.user = calls[i].user /\ c.place = "pull" /\ c.pushed = remote[d]
  BY <1>1, <1>3, <1>4 DEF CallRecord
<1>6. calls' = [calls EXCEPT ![i] = c]
  BY DEF Push
<1> HIDE DEF c
<1>7. Turned(i) /\ calls'[i] = c
  BY <1>1, <1>2, <1>5, <1>6, IsTurned
<1>8. UNCHANGED <<accounts, databases, requests, process, session, rows, remote, checkpoints,
                  faults, muddled>>
  BY DEF Push, server
<1>9. cloud' \in [Users -> SUBSET Users]
  <2>1. cloud \in [Users -> SUBSET Users] /\ rows[d] \in SUBSET Users
    BY <1>2, Frame
  <2>2. cloud' = [cloud EXCEPT ![remote[d]] = cloud[remote[d]] \cup rows[d]]
    BY DEF Push
  <2> QED BY <1>3, <2>1, <2>2
<1>10. PlaceOf(i)' /\ SignedIn(i)'
  BY <1>1, <1>3, <1>5, <1>7, <1>8, AccountAssumption DEF PlaceOf, SignedIn, SignIns
<1> QED BY <1>1, <1>2, <1>5, <1>7, <1>8, <1>9, <1>10, Frame, OnlyMoves

LEMMA PullStep ==
  ASSUME AccountInv, NEW d \in Devices, NEW i, Pull(d, i)
  PROVE  AccountInv'
<1>1. /\ i \in DOMAIN calls /\ Busy(d, i) /\ calls[i] \in CallRecord
      /\ calls[i].place = "pull" /\ calls[i].device = d /\ PlaceOf(i) /\ Waiting(i)
  BY CallIsBusy DEF Pull, AccountInv, Busy
<1>2. TypeOK /\ PlaceInv /\ SignedIn(i) /\ UseOf(d) /\ ConnectionOf(d)
  BY <1>1 DEF AccountInv, PlaceInv, SessionInv, SyncInv
<1>3. remote[d] \in Users
  BY <1>1, <1>2, Frame DEF PlaceOf
<1> DEFINE c == [calls[i] EXCEPT !.pulled = remote[d], !.result = "done"]
<1>4. "done" \in Results
  BY DEF Results
<1>5. /\ c \in CallRecord /\ c.device = calls[i].device /\ c.op = calls[i].op
      /\ c.user = calls[i].user /\ c.place = "pull" /\ c.result = "done"
  BY <1>1, <1>3, <1>4 DEF CallRecord
<1>6. calls' = [calls EXCEPT ![i] = c]
  BY DEF Pull
<1> HIDE DEF c
<1>7. Turned(i) /\ calls'[i] = c /\ ~Waiting(i)'
  BY <1>1, <1>2, <1>5, <1>6, IsTurned DEF Waiting
<1>8. UNCHANGED <<accounts, databases, requests, process, session, remote, cloud, faults,
                  muddled>>
  BY DEF Pull, server
<1>9. /\ rows' \in [Devices -> SUBSET Users] /\ rows[d] \subseteq rows'[d]
      /\ \A e \in Devices \ {d} : rows'[e] = rows[e]
  <2>1. rows \in [Devices -> SUBSET Users] /\ cloud[remote[d]] \in SUBSET Users
    BY <1>2, <1>3, Frame
  <2>2. rows' = [rows EXCEPT ![d] = rows[d] \cup cloud[remote[d]]]
    BY DEF Pull
  <2> QED BY <2>1, <2>2
<1>10. checkpoints' \in [Devices -> [running : Nat, waiting : Nat]]
  <2> DEFINE next == IF d \in Browsers THEN StartedAtOnce(checkpoints[d])
                     ELSE Chained(checkpoints[d])
  <2>1. checkpoints[d] \in [running : Nat, waiting : Nat]
        /\ checkpoints \in [Devices -> [running : Nat, waiting : Nat]]
    BY <1>2, Frame
  <2>2. next \in [running : Nat, waiting : Nat]
    BY <2>1 DEF StartedAtOnce, Chained
  <2>3. checkpoints' = [checkpoints EXCEPT ![d] = next]
    BY DEF Pull
  <2> HIDE DEF next
  <2> QED BY <2>1, <2>2, <2>3
<1>11. Touches(d, i)
  BY <1>1, <1>2, <1>5, <1>7, <1>8, <1>9, <1>10, Frame DEF Touches
<1>12. PlaceOf(i)' /\ SignedIn(i)'
  BY <1>1, <1>5, <1>7 DEF PlaceOf, SignedIn
<1>13. UseOf(d)'
  BY <1>1, <1>2, <1>7, <1>8, KeepsUse
<1>14. ConnectionOf(d)'
  BY <1>1, <1>2, <1>7, <1>8, KeepsConnection
<1> QED BY <1>1, <1>8, <1>11, <1>12, <1>13, <1>14, TouchesAll

LEMMA SyncFailsStep ==
  ASSUME AccountInv, NEW d \in Devices, NEW i, SyncFails(d, i)
  PROVE  AccountInv'
<1>1. /\ i \in DOMAIN calls /\ Busy(d, i) /\ calls[i] \in CallRecord
      /\ calls[i].place \in {"sync", "push", "pull"} /\ calls[i].device = d /\ PlaceOf(i)
  BY CallIsBusy DEF SyncFails, AccountInv
<1>2. TypeOK /\ PlaceInv
  BY DEF AccountInv, PlaceInv
<1>3. /\ Turned(i) /\ calls'[i].user = calls[i].user /\ calls'[i].place = calls[i].place
      /\ calls'[i].op = calls[i].op /\ ~Waiting(i)'
  <2>1. PICK result \in {"failed", "done"} : Ends(i, result)
    BY DEF SyncFails, Failed
  <2> QED BY <1>1, <1>2, <2>1, EndsTurns, PlacesAre DEF Turned, Waiting
<1>4. UNCHANGED <<accounts, databases, requests, process, session, rows, remote, cloud,
                  checkpoints, muddled>>
  BY DEF SyncFails, server
<1>5. faults' \in Nat
  BY <1>2, FaultCounts DEF SyncFails
<1>6. PlaceOf(i)' /\ SignedIn(i)'
  BY <1>1, <1>3, <1>4 DEF PlaceOf, SignedIn
<1> QED BY <1>1, <1>2, <1>3, <1>4, <1>5, <1>6, Frame, OnlyMoves

-----------------------------------------------------------------------------
(* The steps of the server. *)

LEMMA ServerKeeps ==
  ASSUME AccountInv, ServerInv',
         UNCHANGED <<calls, process, session, rows, remote, muddled>>,
         accounts \subseteq accounts', accounts' \in SUBSET Users,
         databases \subseteq databases', databases' \in SUBSET Users,
         requests' \in Seq(RequestPlaces), Len(requests') = Len(requests),
         cloud' \in [Users -> SUBSET Users],
         checkpoints' \in [Devices -> [running : Nat, waiting : Nat]],
         faults' \in Nat
  PROVE  AccountInv'
<1>1. TypeOK'
  BY DEF AccountInv, PlaceInv, TypeOK
<1>2. PlaceInv'
  BY <1>1 DEF AccountInv, PlaceInv, PlaceOf, Waiting
<1>3. SessionInv'
  BY DEF AccountInv, SessionInv, SignInIsWhole, SignedIn
<1>4. SyncInv'
  BY DEF AccountInv, SyncInv, UseOf, ConnectionOf, Busy, Waiting
<1> QED BY <1>2, <1>3, <1>4 DEF AccountInv

LEMMA ServerMoves ==
  ASSUME AccountInv, NEW i \in DOMAIN requests, NEW place \in RequestPlaces,
         ServerGoes(i, place),
         accounts \subseteq accounts', accounts' \in SUBSET Users,
         databases \subseteq databases', databases' \in SUBSET Users, faults' \in Nat,
         requests'[i] = place => MadeFor(i)',
         place \in {"create", "token", "ok"} /\ calls[i].op = "register" =>
           Inserted(i) \/ calls[i].user \notin accounts
  PROVE  AccountInv'
<1>1. TypeOK /\ PlaceInv /\ ServerInv
  BY DEF AccountInv, PlaceInv
<1>2. requests \in Seq(RequestPlaces) /\ DOMAIN calls = DOMAIN requests
  BY <1>1 DEF TypeOK
<1>3. requests' = [requests EXCEPT ![i] = place]
      /\ UNCHANGED <<calls, process, session, rows, remote, cloud, checkpoints, muddled>>
  BY DEF ServerGoes
<1>4. /\ requests' \in Seq(RequestPlaces) /\ Len(requests') = Len(requests)
      /\ requests'[i] = place
      /\ \A j \in DOMAIN calls \ {i} : requests'[j] = requests[j]
  BY <1>2, <1>3
<1>5. ASSUME NEW j \in DOMAIN calls
      PROVE  MadeFor(j)'
  <2>1. CASE j = i
    BY <1>4, <2>1
  <2>2. CASE j # i
    BY <1>1, <1>3, <1>4, <2>2 DEF ServerInv, MadeFor
  <2> QED BY <2>1, <2>2
<1>6. ASSUME NEW j \in DOMAIN calls \ {i}
      PROVE  /\ Inserted(j)' = Inserted(j)
             /\ Inserted(j) => calls[j].user \in accounts
  BY <1>1, <1>3, <1>4 DEF ServerInv, MadeFor, Inserted, SignIns
<1>7. Inserted(i)' => Inserted(i) \/ calls[i].user \notin accounts
  BY <1>3, <1>4 DEF Inserted
<1>8. ASSUME NEW j \in DOMAIN calls, NEW k \in DOMAIN calls,
             Inserted(j)', Inserted(k)', calls[j].user = calls[k].user
      PROVE  j = k
  BY <1>1, <1>2, <1>6, <1>7, <1>8 DEF ServerInv
<1>9. ServerInv'
  BY <1>3, <1>5, <1>8 DEF ServerInv
<1> QED BY <1>1, <1>3, <1>4, <1>9, Frame, ServerKeeps

LEMMA PlacesOfRequests ==
  {"find", "insert", "create", "touch", "get", "token", "ok", "refused", "failed", "gone"}
    \subseteq RequestPlaces
BY DEF RequestPlaces

LEMMA ServerStepKeeps ==
  ASSUME AccountInv, NEW i \in DOMAIN requests, ServerStep(i)
  PROVE  AccountInv'
<1> DOMAIN calls = DOMAIN requests
  BY DEF AccountInv, PlaceInv, TypeOK
<1>1. /\ PlaceOf(i) /\ MadeFor(i) /\ accounts \in SUBSET Users /\ databases \in SUBSET Users
      /\ faults \in Nat
  BY DEF AccountInv, PlaceInv, ServerInv, TypeOK
<1>2. calls[i].op \in SignIns => calls[i].user \in Users
  BY <1>1 DEF PlaceOf
<1>3. CASE ServerFind(i)
  <2>1. PICK place \in {"refused", "insert"} : ServerGoes(i, place)
    BY <1>3 DEF ServerFind
  <2>2. requests'[i] = place => MadeFor(i)'
    BY DEF MadeFor
  <2> QED BY <1>1, <1>3, <2>1, <2>2, PlacesOfRequests, ServerMoves DEF ServerFind
<1>4. CASE ServerInsert(i)
  <2>1. calls[i].op = "register" /\ calls[i].op \in SignIns /\ calls'[i] = calls[i]
        /\ accounts' = accounts \cup {calls[i].user} /\ databases' = databases
        /\ faults' = faults
    BY <1>4 DEF ServerInsert, At, SignIns, ServerGoes
  <2>2. PICK place \in {"failed", "create"} :
          ServerGoes(i, place) /\ (place = "create" => calls[i].user \notin accounts)
    BY <1>4 DEF ServerInsert
  <2>3. requests'[i] = place => MadeFor(i)'
    BY <2>1 DEF MadeFor
  <2> QED BY <1>1, <1>2, <2>1, <2>2, <2>3, PlacesOfRequests, ServerMoves
<1>5. CASE CreateDatabase(i)
  <2>1. /\ calls[i].op = "register" /\ calls[i].op \in SignIns /\ calls'[i] = calls[i]
        /\ accounts' = accounts /\ databases' = databases \cup {calls[i].user}
        /\ faults' = faults /\ requests[i] = "create" /\ ServerGoes(i, "token")
    BY <1>5 DEF CreateDatabase, At, SignIns, ServerGoes
  <2>2. requests'[i] = "token" => MadeFor(i)'
    BY <1>1, <2>1 DEF MadeFor
  <2>3. Inserted(i)
    BY <2>1 DEF Inserted
  <2> QED BY <1>1, <1>2, <2>1, <2>2, <2>3, PlacesOfRequests, ServerMoves
<1>6. CASE ServerVerify(i) \/ UpdateLogin(i) \/ GetDatabase(i)
  <2>1. /\ calls[i].op = "login" /\ calls[i].op # "register" /\ calls'[i] = calls[i]
        /\ accounts' = accounts /\ databases' = databases /\ faults' = faults
    BY <1>6 DEF ServerVerify, UpdateLogin, GetDatabase, At, ServerGoes
  <2>2. PICK place \in {"touch", "refused", "get", "token", "failed"} :
          /\ ServerGoes(i, place)
          /\ place \in {"touch", "get", "token"} => calls[i].user \in accounts
          /\ place = "token" => calls[i].user \in databases
    BY <1>1, <1>6, <2>1 DEF ServerVerify, UpdateLogin, GetDatabase, At, MadeFor, SignIns
  <2>3. requests'[i] = place => MadeFor(i)'
    BY <2>1, <2>2 DEF MadeFor
  <2> QED BY <1>1, <2>1, <2>2, <2>3, PlacesOfRequests, ServerMoves
<1>7. CASE CreateToken(i)
  <2>1. /\ requests[i] = "token" /\ calls'[i] = calls[i] /\ ServerGoes(i, "ok")
        /\ accounts' = accounts /\ databases' = databases /\ faults' = faults
    BY <1>7 DEF CreateToken, ServerGoes
  <2>2. requests'[i] = "ok" => MadeFor(i)'
    BY <1>1, <2>1 DEF MadeFor
  <2>3. calls[i].op = "register" => Inserted(i)
    BY <2>1 DEF Inserted
  <2> QED BY <1>1, <2>1, <2>2, <2>3, PlacesOfRequests, ServerMoves
<1> QED BY <1>3, <1>4, <1>5, <1>6, <1>7 DEF ServerStep

LEMMA ServerFailsKeeps ==
  ASSUME AccountInv, NEW i \in DOMAIN requests, ServerFails(i)
  PROVE  AccountInv'
<1> DOMAIN calls = DOMAIN requests
  BY DEF AccountInv, PlaceInv, TypeOK
<1>1. /\ PlaceInv /\ PlaceOf(i) /\ MadeFor(i)
      /\ accounts \in SUBSET Users /\ databases \in SUBSET Users
  BY DEF AccountInv, PlaceInv, ServerInv, TypeOK
<1>2. /\ ServerGoes(i, "failed") /\ accounts' = accounts /\ faults' \in Nat
  BY <1>1, FaultCounts DEF ServerFails
<1>3. databases \subseteq databases' /\ databases' \in SUBSET Users
  BY <1>1 DEF ServerFails, MadeFor, PlaceOf
<1>4. requests'[i] = "failed" => MadeFor(i)'
  BY DEF MadeFor
<1> QED BY <1>1, <1>2, <1>3, <1>4, PlacesOfRequests, ServerMoves

LEMMA ServerStopsKeeps ==
  ASSUME AccountInv, ServerStops
  PROVE  AccountInv'
<1>1. /\ PlaceInv /\ TypeOK /\ ServerInv
      /\ accounts \in SUBSET Users /\ databases \in SUBSET Users
  BY DEF AccountInv, PlaceInv, TypeOK
<1>2. /\ UNCHANGED <<accounts, databases, calls, process, session, rows, remote, cloud,
                     checkpoints, muddled>>
      /\ faults' \in Nat
      /\ requests' = [i \in DOMAIN requests |-> IF UnderWay(i) THEN "gone" ELSE requests[i]]
  BY <1>1, FaultCounts DEF ServerStops
<1>3. DOMAIN requests = 1..Len(requests) /\ Len(requests) \in Nat /\ DOMAIN calls = DOMAIN requests
  BY <1>1 DEF TypeOK
<1>4. \A j \in DOMAIN requests : requests[j] \in RequestPlaces
  BY <1>1 DEF TypeOK
<1>5. requests' \in [1..Len(requests) -> RequestPlaces]
  BY <1>2, <1>3, <1>4, PlacesOfRequests
<1>6. requests' \in Seq(RequestPlaces) /\ Len(requests') = Len(requests)
  BY <1>3, <1>5, SeqDef
<1>7. \A j \in DOMAIN calls : requests'[j] = requests[j] \/ requests'[j] = "gone"
  BY <1>2, <1>3
<1>8. ServerInv'
  <2>1. ASSUME NEW j \in DOMAIN calls
        PROVE  MadeFor(j)' /\ (Inserted(j)' => Inserted(j))
    BY <1>1, <1>2, <1>7 DEF ServerInv, MadeFor, Inserted
  <2> QED BY <1>1, <1>2, <2>1 DEF ServerInv
<1> QED BY <1>1, <1>2, <1>6, <1>8, Frame, ServerKeeps

-----------------------------------------------------------------------------
(* Calls that begin, processes that end, and checkpoints. *)

LEMMA CheckpointEndsKeeps ==
  ASSUME AccountInv, NEW d \in Devices, CheckpointEnds(d)
  PROVE  AccountInv'
<1>1. /\ PlaceInv /\ TypeOK /\ ServerInv
      /\ accounts \in SUBSET Users /\ databases \in SUBSET Users
  BY DEF AccountInv, PlaceInv, TypeOK
<1>2. UNCHANGED <<accounts, databases, requests, calls, process, session, rows, remote, cloud,
                  faults, muddled>>
  BY DEF CheckpointEnds, server
<1>3. checkpoints[d] \in [running : Nat, waiting : Nat] /\ checkpoints[d].running > 0
  BY <1>1, Frame DEF CheckpointEnds
<1>4. Finished(checkpoints[d]) \in [running : Nat, waiting : Nat]
  BY <1>3 DEF Finished
<1>5. checkpoints' = [checkpoints EXCEPT ![d] = Finished(checkpoints[d])]
  BY DEF CheckpointEnds
<1>6. checkpoints' \in [Devices -> [running : Nat, waiting : Nat]]
  BY <1>1, <1>4, <1>5, Frame
<1>7. ServerInv'
  BY <1>1, <1>2 DEF ServerInv, MadeFor, Inserted
<1> QED BY <1>1, <1>2, <1>6, <1>7, Frame, ServerKeeps

LEMMA OpensKeeps ==
  ASSUME AccountInv, NEW d \in Devices, Stored, Opens(d)
  PROVE  AccountInv'
<1>1. TypeOK /\ UseOf(d)
  BY DEF AccountInv, PlaceInv, SyncInv
<1>2. UNCHANGED <<accounts, databases, requests, calls, session, rows, remote, cloud,
                  checkpoints, faults, muddled>>
  BY DEF Stored, Opens
<1>3. /\ process' \in [Devices -> {"off", "cli", "client"}] /\ process'[d] = "client"
      /\ \A e \in Devices \ {d} : process'[e] = process[e]
  BY <1>1 DEF Opens, TypeOK
<1>4. PlaceInv'
  BY <1>2, <1>3 DEF AccountInv, PlaceInv, TypeOK, PlaceOf, Waiting
<1>5. ServerInv' /\ SessionInv'
  BY <1>2 DEF AccountInv, ServerInv, MadeFor, Inserted, SessionInv, SignInIsWhole, SignedIn
<1>6. ASSUME NEW e \in Devices
      PROVE  UseOf(e)' /\ ConnectionOf(e)'
  <2>1. UseOf(e) /\ ConnectionOf(e)
    BY DEF AccountInv, SyncInv
  <2>2. \A j : Busy(e, j)' = Busy(e, j)
    BY <1>2 DEF Busy, Waiting
  <2>3. ConnectionOf(e)'
    BY <1>2, <2>1, <2>2 DEF ConnectionOf
  <2>4. CASE e = d
    <3>1. \A j : ~Busy(d, j)
      BY <1>1 DEF UseOf, Opens, Busy
    <3> QED BY <1>3, <2>2, <2>3, <2>4, <3>1 DEF UseOf
  <2>5. CASE e # d
    BY <1>2, <1>3, <2>1, <2>2, <2>3, <2>5 DEF UseOf
  <2> QED BY <2>4, <2>5
<1> QED BY <1>4, <1>5, <1>6 DEF AccountInv, SyncInv

LEMMA BegunKeeps ==
  ASSUME AccountInv, NEW d \in Devices, Stored, NEW op \in Operations,
         NEW user \in Users \cup {None}, NEW place \in Places,
         Begun(d, NewCall(d, op, user, place)), Enters(d, op, user, place)
  PROVE  AccountInv'
<1> DEFINE call == NewCall(d, op, user, place)
<1>1. /\ call \in CallRecord /\ call.device = d /\ call.op = op /\ call.user = user
      /\ call.place = place /\ call.result = "waiting"
  BY NewCallFields
<1>2. TypeOK /\ UseOf(d) /\ ConnectionOf(d)
  BY DEF AccountInv, PlaceInv, SyncInv
<1>3. Begun(d, call)
  OBVIOUS
<1> HIDE DEF call
<1>4. PICK k \in DOMAIN calls' :
        /\ calls' \in Seq(CallRecord) /\ requests' \in Seq(RequestPlaces)
        /\ Len(requests') = Len(calls')
        /\ DOMAIN calls' = DOMAIN calls \cup {k} /\ k \notin DOMAIN calls
        /\ \A j \in DOMAIN calls : calls'[j] = calls[j] /\ requests'[j] = requests[j]
        /\ calls'[k] = call
        /\ requests'[k] = IF place = "server" THEN "find" ELSE None
        /\ muddled' = IF Overlaps(d, call) THEN muddled \cup {d} ELSE muddled
  BY <1>1, <1>2, <1>3, BeginsAtTheEnd
<1>5. UNCHANGED <<accounts, databases, session, rows, remote, cloud, checkpoints, faults>>
  BY DEF Stored
<1>6. /\ process' \in [Devices -> {"off", "cli", "client"}]
      /\ \A e \in Devices \ {d} : process'[e] = process[e]
  BY <1>2 DEF TypeOK, Enters
<1>7. TypeOK'
  BY <1>2, <1>4, <1>5, <1>6 DEF TypeOK
<1>8. PlaceOf(k)' /\ MadeFor(k)' /\ ~Inserted(k)' /\ SignedIn(k)'
  <2>1. PlaceOf(k)'
    BY <1>1, <1>4 DEF PlaceOf, Enters, SignIns
  <2>2. MadeFor(k)' /\ ~Inserted(k)'
    BY <1>1, <1>4, AccountAssumption DEF MadeFor, Inserted
  <2>3. SignedIn(k)'
    BY <1>1, <1>4 DEF SignedIn, Enters, SignIns
  <2> QED BY <2>1, <2>2, <2>3
<1>9. ASSUME NEW j \in DOMAIN calls
      PROVE  PlaceOf(j)' /\ MadeFor(j)' /\ Inserted(j)' = Inserted(j) /\ SignedIn(j)'
  <2>1. PlaceOf(j)'
    BY <1>4, <1>5 DEF AccountInv, PlaceInv, PlaceOf, Waiting
  <2>2. MadeFor(j)' /\ Inserted(j)' = Inserted(j)
    BY <1>4, <1>5 DEF AccountInv, ServerInv, MadeFor, Inserted
  <2>3. SignedIn(j)'
    BY <1>4, <1>5 DEF AccountInv, SessionInv, SignedIn
  <2> QED BY <2>1, <2>2, <2>3
<1>10. PlaceInv'
  BY <1>4, <1>7, <1>8, <1>9 DEF PlaceInv
<1>11. ServerInv'
  BY <1>4, <1>8, <1>9 DEF AccountInv, ServerInv
<1>12. SessionInv'
  <2>1. SignInIsWhole'
    BY <1>5 DEF AccountInv, SessionInv, SignInIsWhole
  <2> QED BY <1>4, <1>8, <1>9, <2>1 DEF SessionInv
<1>13. ASSUME NEW e \in Devices \ {d}
       PROVE  UseOf(e)' /\ ConnectionOf(e)'
  <2>1. UseOf(e) /\ ConnectionOf(e)
    BY DEF AccountInv, SyncInv
  <2>2. \A j : /\ Busy(e, j)' = Busy(e, j)
               /\ Busy(e, j) => calls'[j] = calls[j]
    BY <1>1, <1>4 DEF Busy, Waiting
  <2>3. process'[e] = process[e] /\ (e \in muddled') = (e \in muddled)
    BY <1>4, <1>6
  <2>4. DOMAIN calls \subseteq DOMAIN calls' /\ \A j : Busy(e, j) => j \in DOMAIN calls
    BY <1>4 DEF Busy
  <2>5. UseOf(e)'
    BY <1>5, <2>1, <2>2, <2>3, <2>4 DEF UseOf
  <2>6. ConnectionOf(e)'
    BY <1>5, <2>1, <2>2, <2>3, <2>4 DEF ConnectionOf
  <2> QED BY <2>5, <2>6
<1>14. ASSUME NEW j, Busy(d, j)'
       PROVE  \/ j = k
              \/ j \in DOMAIN calls /\ Busy(d, j) /\ calls'[j] = calls[j]
  BY <1>4, <1>14 DEF Busy, Waiting
<1>15. ASSUME NEW j \in DOMAIN calls, Busy(d, j)
       PROVE  /\ process[d] = "client" /\ process' = process
              /\ d \in muddled' \/ (op = "sync" /\ calls[j].op = "sync")
  <2>1. process[d] # "off"
    BY <1>2, <1>15 DEF UseOf
  <2>2. Overlaps(d, call) \/ (op = "sync" /\ calls[j].op = "sync")
    BY <1>1, <1>15 DEF Overlaps, Busy
  <2> QED BY <1>4, <2>1, <2>2 DEF Enters
<1>16. UseOf(d)'
  <2>1. process'[d] # "off"
    BY <1>2 DEF Enters, TypeOK
  <2>2. ASSUME NEW i \in DOMAIN calls', NEW j \in DOMAIN calls', Busy(d, i)', Busy(d, j)', i # j
        PROVE  /\ process'[d] = "client"
               /\ d \in muddled' \/ (calls'[i].op = "sync" /\ calls'[j].op = "sync")
    <3>1. CASE i # k /\ j # k
      <4>1. Busy(d, i) /\ Busy(d, j) /\ i \in DOMAIN calls /\ j \in DOMAIN calls
            /\ calls'[i] = calls[i] /\ calls'[j] = calls[j]
        BY <1>14, <2>2, <3>1
      <4>2. d \in muddled => d \in muddled'
        BY <1>4
      <4> QED BY <1>2, <1>15, <2>2, <4>1, <4>2 DEF UseOf
    <3>2. CASE i = k
      <4>1. Busy(d, j) /\ j \in DOMAIN calls /\ calls'[j] = calls[j]
        BY <1>14, <2>2, <3>2
      <4> QED BY <1>1, <1>4, <1>15, <3>2, <4>1
    <3>3. CASE j = k
      <4>1. Busy(d, i) /\ i \in DOMAIN calls /\ calls'[i] = calls[i]
        BY <1>14, <2>2, <3>3
      <4> QED BY <1>1, <1>4, <1>15, <3>3, <4>1
    <3> QED BY <3>1, <3>2, <3>3
  <2>3. ASSUME NEW i \in DOMAIN calls', Busy(d, i)'
        PROVE  /\ process'[d] = "client" =>
                    /\ calls'[i].op # "logout"
                    /\ calls'[i].op = "sync" => calls'[i].place \in {"sync", "push", "pull"}
               /\ process'[d] = "cli" /\ calls'[i].place \notin {"sync", "push", "pull"} =>
                    remote'[d] = None
    <3>1. CASE i = k
      <4>1. process[d] = "off" => remote[d] = None
        BY <1>2 DEF UseOf
      <4>2. /\ process'[d] = "client" => op # "logout" /\ (op = "sync" => place = "sync")
            /\ process'[d] = "cli" => process[d] = "off"
        BY <1>2 DEF Enters, SignIns, TypeOK
      <4> QED BY <1>1, <1>4, <1>5, <3>1, <4>1, <4>2
    <3>2. CASE i # k
      <4>1. Busy(d, i) /\ i \in DOMAIN calls /\ calls'[i] = calls[i]
        BY <1>14, <2>3, <3>2
      <4> QED BY <1>2, <1>5, <1>15, <4>1 DEF UseOf
    <3> QED BY <3>1, <3>2
  <2> QED BY <2>1, <2>2, <2>3 DEF UseOf
<1>17. ConnectionOf(d)'
  <2> SUFFICES ASSUME d \notin muddled'
               PROVE  ConnectionOf(d)'
    BY DEF ConnectionOf
  <2>1. d \notin muddled
    BY <1>4
  <2>2. ASSUME NEW i \in DOMAIN calls', Busy(d, i)'
        PROVE  /\ calls'[i].place = "pull" => calls'[i].pushed = remote'[d]
               /\ calls'[i].place = "connect" => calls'[i].user = session'[d]
    <3>1. CASE i = k
      BY <1>1, <1>4, <1>5, <3>1 DEF Enters
    <3>2. CASE i # k
      BY <1>2, <1>5, <1>14, <2>1, <2>2, <3>2 DEF ConnectionOf
    <3> QED BY <3>1, <3>2
  <2>3. \/ remote'[d] = None \/ session'[d] \in {remote'[d], Torn}
        \/ \E i \in DOMAIN calls' : Busy(d, i)' /\ calls'[i].place = "connect"
    <3>1. CASE \E i \in DOMAIN calls : Busy(d, i) /\ calls[i].place = "connect"
      BY <1>4, <3>1 DEF Busy, Waiting
    <3>2. CASE remote[d] = None \/ session[d] \in {remote[d], Torn}
      BY <1>5, <3>2
    <3> QED BY <1>2, <2>1, <3>1, <3>2 DEF ConnectionOf
  <2> QED BY <2>2, <2>3 DEF ConnectionOf
<1> QED BY <1>10, <1>11, <1>12, <1>13, <1>16, <1>17 DEF AccountInv, SyncInv

LEMMA EndedKeeps ==
  ASSUME AccountInv, NEW d \in Devices, Ended(d), faults' \in Nat
  PROVE  AccountInv'
<1>1. TypeOK
  BY DEF AccountInv, PlaceInv
<1>2. /\ calls' \in Seq(CallRecord) /\ Len(calls') = Len(calls) /\ DOMAIN calls' = DOMAIN calls
      /\ \A j \in DOMAIN calls :
           /\ calls'[j].device = calls[j].device /\ calls'[j].op = calls[j].op
           /\ calls'[j].user = calls[j].user /\ calls'[j].place = calls[j].place
           /\ calls[j].device # d => calls'[j] = calls[j]
           /\ calls[j].device = d => calls'[j].result # "waiting"
  BY <1>1, EndsAll
<1>3. UNCHANGED <<accounts, databases, requests, session, rows, cloud>>
  BY DEF Ended, server
<1>4. /\ process' \in [Devices -> {"off", "cli", "client"}]
      /\ remote' \in [Devices -> Users \cup {None}]
      /\ checkpoints' \in [Devices -> [running : Nat, waiting : Nat]]
      /\ muddled' = muddled \ {d} /\ remote'[d] = None
      /\ \A e \in Devices \ {d} : process'[e] = process[e] /\ remote'[e] = remote[e]
  BY <1>1 DEF Ended, TypeOK
<1>5. TypeOK'
  BY <1>1, <1>2, <1>3, <1>4 DEF TypeOK
<1>6. ASSUME NEW j \in DOMAIN calls
      PROVE  PlaceOf(j)' /\ MadeFor(j)' /\ Inserted(j)' = Inserted(j) /\ SignedIn(j)'
  <2>1. PlaceOf(j) /\ MadeFor(j) /\ SignedIn(j) /\ calls[j].device \in Devices
    BY <1>1, CallFields DEF AccountInv, PlaceInv, ServerInv, SessionInv, TypeOK
  <2>2. PlaceOf(j)'
    BY <1>2, <1>4, <2>1 DEF PlaceOf, Waiting
  <2>3. MadeFor(j)' /\ Inserted(j)' = Inserted(j)
    BY <1>2, <1>3, <2>1 DEF MadeFor, Inserted
  <2>4. SignedIn(j)'
    BY <1>2, <1>3, <2>1 DEF SignedIn
  <2> QED BY <2>2, <2>3, <2>4
<1>7. PlaceInv'
  BY <1>2, <1>5, <1>6 DEF PlaceInv
<1>8. ServerInv'
  BY <1>2, <1>6 DEF AccountInv, ServerInv
<1>9. SessionInv'
  <2>1. SignInIsWhole'
    BY <1>3 DEF AccountInv, SessionInv, SignInIsWhole
  <2> QED BY <1>2, <1>6, <2>1 DEF SessionInv
<1>10. ASSUME NEW e \in Devices
       PROVE  UseOf(e)' /\ ConnectionOf(e)'
  <2>1. UseOf(e) /\ ConnectionOf(e)
    BY DEF AccountInv, SyncInv
  <2>2. CASE e = d
    <3>1. \A j : ~Busy(d, j)'
      BY <1>2 DEF Busy, Waiting
    <3> QED BY <1>4, <2>2, <3>1 DEF UseOf, ConnectionOf
  <2>3. CASE e # d
    <3>1. \A j : /\ Busy(e, j)' = Busy(e, j)
                 /\ Busy(e, j) => calls'[j] = calls[j]
      BY <1>2, <2>3 DEF Busy, Waiting
    <3>2. process'[e] = process[e] /\ remote'[e] = remote[e] /\ (e \in muddled') = (e \in muddled)
      BY <1>4, <2>3
    <3>3. UseOf(e)'
      BY <1>2, <2>1, <3>1, <3>2 DEF UseOf
    <3>4. ConnectionOf(e)'
      BY <1>2, <1>3, <2>1, <3>1, <3>2 DEF ConnectionOf
    <3> QED BY <3>3, <3>4
  <2> QED BY <2>2, <2>3
<1> QED BY <1>7, <1>8, <1>9, <1>10 DEF AccountInv, SyncInv

-----------------------------------------------------------------------------
(* The invariant. *)

LEMMA StartsSo ==
  ASSUME Init
  PROVE  AccountInv
<1>1. calls = <<>> /\ requests = <<>> /\ DOMAIN calls = {} /\ Len(requests) = Len(calls)
      /\ calls \in Seq(CallRecord) /\ requests \in Seq(RequestPlaces)
  BY DEF Init
<1>2. checkpoints \in [Devices -> [running : Nat, waiting : Nat]]
  BY DEF Init
<1>3. TypeOK
  BY <1>1, <1>2 DEF Init, TypeOK
<1>4. PlaceInv /\ ServerInv
  BY <1>1, <1>3 DEF PlaceInv, ServerInv
<1>5. SessionInv
  BY <1>1, AccountAssumption DEF Init, SessionInv, SignInIsWhole
<1>6. SyncInv
  BY <1>1 DEF Init, SyncInv, UseOf, ConnectionOf, Busy
<1> QED BY <1>4, <1>5, <1>6 DEF AccountInv

LEMMA UserKeeps ==
  ASSUME AccountInv, NEW d \in Devices, User(d) \/ CommandEnds(d)
  PROVE  AccountInv'
<1>1. TypeOK /\ faults \in Nat
  BY DEF AccountInv, PlaceInv, TypeOK
<1>2. CASE Begins(d)
  <2>1. CASE Stored /\ Opens(d)
    BY <2>1, OpensKeeps
  <2>2. CASE Stored /\ \E op \in Operations, user \in Users \cup {None}, place \in Places :
               Begun(d, NewCall(d, op, user, place)) /\ Enters(d, op, user, place)
    BY <2>2, BegunKeeps
  <2> QED BY <1>2, <2>1, <2>2 DEF Begins
<1>3. CASE Quit(d) \/ Kill(d) \/ CommandEnds(d)
  <2>1. Ended(d) /\ faults' \in Nat
    BY <1>1, <1>3 DEF Quit, Kill, CommandEnds, Fault
  <2> QED BY <2>1, EndedKeeps
<1> QED BY <1>1, <1>2, <1>3, UserBegins

LEMMA CallKeeps ==
  ASSUME AccountInv, NEW d \in Devices, NEW i \in DOMAIN calls,
         ClientStep(d, i) \/ Failure(d, i)
  PROVE  AccountInv'
<1>1. CASE AnswerReceived(d, i)
  BY <1>1, AnswerStep
<1>2. CASE SaveProfile(d, i)
  BY <1>2, ProfileStep
<1>3. CASE OpenSession(d, i)
  BY <1>3, OpenSessionStep
<1>4. CASE SaveSession(d, i)
  BY <1>4, SaveSessionStep
<1>5. CASE ReadSession(d, i)
  BY <1>5, ReadStep
<1>6. CASE ClearSession(d, i)
  BY <1>6, ClearStep
<1>7. CASE ConnectRemote(d, i)
  BY <1>7, ConnectStep
<1>8. CASE BeginSync(d, i)
  BY <1>8, BeginSyncStep
<1>9. CASE Push(d, i)
  BY <1>9, PushStep
<1>10. CASE Pull(d, i)
  BY <1>10, PullStep
<1>11. CASE NetworkFails(d, i)
  BY <1>11, NetworkStep
<1>12. CASE SaveFails(d, i)
  BY <1>12, SaveFailsStep
<1>13. CASE ConnectOffline(d, i)
  BY <1>13, OfflineStep
<1>14. CASE SyncFails(d, i)
  BY <1>14, SyncFailsStep
<1> QED BY <1>1, <1>2, <1>3, <1>4, <1>5, <1>6, <1>7, <1>8, <1>9, <1>10, <1>11, <1>12, <1>13,
           <1>14 DEF ClientStep, Failure

LEMMA NextKeeps ==
  ASSUME AccountInv, [Next]_vars
  PROVE  AccountInv'
<1>1. CASE \E i \in DOMAIN requests : ServerStep(i) \/ ServerFails(i)
  BY <1>1, ServerStepKeeps, ServerFailsKeeps
<1>2. CASE ServerStops
  BY <1>2, ServerStopsKeeps
<1>3. CASE \E d \in Devices : User(d) \/ CommandEnds(d)
  BY <1>3, UserKeeps
<1>4. CASE \E d \in Devices : CheckpointEnds(d)
  BY <1>4, CheckpointEndsKeeps
<1>5. CASE \E d \in Devices, i \in DOMAIN calls : ClientStep(d, i) \/ Failure(d, i)
  BY <1>5, CallKeeps
<1>6. CASE UNCHANGED vars
  <2>1. UNCHANGED <<accounts, databases, requests, calls, process, session, rows, remote, cloud,
                    checkpoints, faults, muddled>>
    BY <1>6 DEF vars
  <2>2. TypeOK' /\ ServerInv'
    BY <2>1 DEF AccountInv, PlaceInv, TypeOK, ServerInv, MadeFor, Inserted
  <2>3. PlaceInv' /\ SessionInv'
    BY <2>1, <2>2 DEF AccountInv, PlaceInv, PlaceOf, Waiting, SessionInv, SignInIsWhole, SignedIn
  <2>4. SyncInv'
    BY <2>1 DEF AccountInv, SyncInv, UseOf, ConnectionOf, Busy, Waiting
  <2> QED BY <2>2, <2>3, <2>4 DEF AccountInv
<1> QED BY <1>1, <1>2, <1>3, <1>4, <1>5, <1>6 DEF Next

LEMMA AlwaysSo == Spec => []AccountInv
<1>1. Init => AccountInv
  BY StartsSo
<1>2. AccountInv /\ [Next]_vars => AccountInv'
  BY NextKeeps
<1> QED BY <1>1, <1>2, PTL DEF Spec

-----------------------------------------------------------------------------
(* The theorems. *)

(* The state of the server, of the clients and of what they store keeps    *)
(* its type, for any users, devices and bounds.                            *)
THEOREM AccountTypeCorrect == Spec => []TypeOK
<1>1. AccountInv => TypeOK
  BY DEF AccountInv, PlaceInv
<1> QED BY <1>1, AlwaysSo, PTL

(* Whoever a stored session names has an account, a database and a profile *)
(* on the device, wherever the processes were killed and the server stopped *)
(* and however many sign-ins ran at once.                                  *)
THEOREM SignInsAreWhole == Spec => []SignInIsWhole
<1>1. AccountInv => SignInIsWhole
  BY DEF AccountInv, SessionInv
<1> QED BY <1>1, AlwaysSo, PTL

(* Of the registrations of one address, by any number of devices, one at   *)
(* most is answered with an account.                                       *)
THEOREM AddressRegisteredOnce == Spec => []RegisteredOnce
<1>1. ASSUME AccountInv
      PROVE  RegisteredOnce
  <2>1. DOMAIN calls = DOMAIN requests /\ ServerInv
    BY <1>1 DEF AccountInv, PlaceInv, TypeOK
  <2> QED BY <2>1 DEF RegisteredOnce, ServerInv, Inserted
<1> QED BY <1>1, AlwaysSo, PTL

(* A sync that goes through on a device that is not muddled has pushed to  *)
(* the database it pulls from, which is that of the account signed in.     *)
THEOREM SyncsOfOneAccount == Spec => SyncOfOneAccount
<1> DEFINE Sound ==
      \A d \in Devices, i \in DOMAIN calls :
        Pull(d, i) /\ d \notin muddled =>
          calls[i].pushed = remote[d] /\ session[d] \in {remote[d], Torn}
<1>1. ASSUME AccountInv
      PROVE  Sound
  <2> SUFFICES ASSUME NEW d \in Devices, NEW i \in DOMAIN calls, Pull(d, i), d \notin muddled
               PROVE  calls[i].pushed = remote[d] /\ session[d] \in {remote[d], Torn}
    OBVIOUS
  <2>1. Busy(d, i) /\ calls[i].place = "pull" /\ PlaceOf(i) /\ UseOf(d) /\ ConnectionOf(d)
        /\ Waiting(i) /\ calls[i].device = d
    BY <1>1, CallIsBusy DEF Pull, AccountInv, SyncInv, Busy
  <2>2. calls[i].pushed = remote[d] /\ remote[d] # None
    BY <2>1 DEF ConnectionOf, PlaceOf
  <2>3. ASSUME NEW j \in DOMAIN calls, Busy(d, j), calls[j].place = "connect"
        PROVE  FALSE
    <3>1. j # i
      BY <2>1, <2>3
    <3>2. process[d] = "client" /\ calls[j].op = "sync"
      BY <2>1, <2>3, <3>1 DEF UseOf
    <3> QED BY <2>1, <2>3, <3>2 DEF UseOf
  <2> QED BY <2>1, <2>2, <2>3 DEF ConnectionOf
<1>2. AccountInv => [Sound]_vars
  BY <1>1
<1> QED BY <1>2, AlwaysSo, PTL DEF SyncOfOneAccount
=============================================================================

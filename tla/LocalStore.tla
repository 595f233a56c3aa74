------------------------------ MODULE LocalStore ------------------------------
(* What the local files promise: every call that is answered took effect   *)
(* at one moment between its start and its answer, or failed.  A failure   *)
(* can hide an effect (FailLate), a crash leaves the effect or nothing.    *)
EXTENDS LocalData

CONSTANTS Procs, MaxCalls

VARIABLES
  contents,   \* what the files hold
  calls,      \* the call of each process
  started     \* how many calls began; the first stands for the past

vars == <<contents, calls, started>>

NoCall == [phase |-> "idle", op |-> None, number |-> 0, outcome |-> NoOutcome]

Init ==
  /\ contents \in FirstContents
  /\ calls = [p \in Procs |-> NoCall]
  /\ started = 1

(* What the files hold after call n of operation op took effect on c. *)
Changed(op, n, c) ==
  CASE op.kind = "getState" /\ c.state = Missing -> [c EXCEPT !.state = n]
    [] op.kind = "resetState" -> [c EXCEPT !.state = n]
    [] op.kind \in {"connect", "reconnect"} /\ ~Refused(op, c) ->
         [c EXCEPT !.providers[op.provider] = n]
    [] op.kind = "disconnect" /\ ~Refused(op, c) ->
         [c EXCEPT !.providers[op.provider] = Missing]
    [] op.kind = "saveCapture" -> [c EXCEPT !.capture = n]
    [] op.kind = "refresh" -> [c EXCEPT !.catalog = n]
    [] op.kind = "bootstrap" /\ c.config = "missing" -> [c EXCEPT !.config = "starter"]
    [] OTHER -> c

(* The identity, the key, or the number of the document written. *)
Outcome(op, n, c) ==
  IF Refused(op, c) THEN RefusedOutcome
  ELSE CASE op.kind = "getState" -> OkOutcome(Changed(op, n, c).state)
         [] op.kind = "findKey" -> OkOutcome(c.providers[op.provider])
         [] op.kind = "bootstrap" -> OkOutcome(Missing)
         [] OTHER -> OkOutcome(n)

Call(p, op) ==
  /\ started < MaxCalls /\ started' = started + 1
  /\ calls[p].phase = "idle"
  /\ calls' = [calls EXCEPT ![p] = [phase |-> "called", op |-> op, number |-> started + 1,
                                    outcome |-> NoOutcome]]
  /\ UNCHANGED contents

Turned(call, phase, outcome) ==
  [phase |-> phase, op |-> call.op, number |-> call.number, outcome |-> outcome]

(* The answer can be given with the effect, or follow it. *)
TakeEffect(p) ==
  /\ calls[p].phase = "called"
  /\ contents' = Changed(calls[p].op, calls[p].number, contents)
  /\ \E phase \in {"effective", "answered"} :
       calls' = [calls EXCEPT
                   ![p] = Turned(@, phase, Outcome(calls[p].op, calls[p].number, contents))]
  /\ UNCHANGED started

Answer(p) ==
  /\ calls[p].phase = "effective"
  /\ calls' = [calls EXCEPT ![p] = Turned(@, "answered", @.outcome)]
  /\ UNCHANGED <<contents, started>>

Fail(p) ==
  /\ calls[p].phase \in {"called", "effective"}
  /\ calls' = [calls EXCEPT ![p] = Turned(@, "answered", FailedOutcome)]
  /\ UNCHANGED <<contents, started>>

(* The caller goes on, or the process crashes. *)
Leave(p) ==
  /\ calls[p].phase # "idle"
  /\ calls' = [calls EXCEPT ![p] = NoCall]
  /\ UNCHANGED <<contents, started>>

(* The user edits or deletes the configuration file. *)
EditConfig ==
  /\ \E config \in {"edited", "missing"} : contents' = [contents EXCEPT !.config = config]
  /\ UNCHANGED <<calls, started>>

Next ==
  \/ \E p \in Procs :
       \/ Leave(p) \/ \E op \in Operations : Call(p, op)
       \/ TakeEffect(p) \/ Answer(p) \/ Fail(p)
  \/ EditConfig

Spec == Init /\ [][Next]_vars
=============================================================================

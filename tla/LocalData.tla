------------------------------ MODULE LocalData ------------------------------
(* The files Dictos keeps outside its database, and what each operation on *)
(* one of them asks for.  A document is named by the call that wrote it:   *)
(* call 1 stands for whatever earlier processes left.  providers.json is   *)
(* one file that holds the key of every Provider.                          *)
EXTENDS Naturals

CONSTANTS Providers, None

ASSUME ProvidersAssumption == None \notin Providers

Missing == 0

Contents ==
  [state : Nat, providers : [Providers -> Nat], capture : Nat, catalog : Nat,
   config : {"missing", "starter", "edited"}]

(* What an earlier process may have left; nothing asks for the capture or  *)
(* the catalog it left.                                                    *)
FirstContents ==
  [state : {0, 1}, providers : [Providers -> {0, 1}], capture : {0}, catalog : {0},
   config : {"missing", "edited"}]

Operations ==
  [kind : {"getState", "resetState", "saveCapture", "refresh", "bootstrap"},
   provider : {None}]
  \cup [kind : {"connect", "reconnect", "disconnect", "findKey"}, provider : Providers]

Outcomes == [kind : {"none", "ok", "refused", "failed"}, value : Nat]
NoOutcome == [kind |-> "none", value |-> Missing]
RefusedOutcome == [kind |-> "refused", value |-> Missing]
FailedOutcome == [kind |-> "failed", value |-> Missing]
OkOutcome(value) == [kind |-> "ok", value |-> value]

(* Connecting takes a Provider without a key; the others take one with it. *)
Refused(op, c) ==
  \/ op.kind = "connect" /\ c.providers[op.provider] # Missing
  \/ op.kind \in {"reconnect", "disconnect"} /\ c.providers[op.provider] = Missing
=============================================================================

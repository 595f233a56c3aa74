-------------------------------- MODULE MCToasts --------------------------------
(* Values for model-checking Toasts. *)
EXTENDS Toasts

Plain == [description |-> Absent, duration |-> Absent]
Full == [description |-> "described", duration |-> "infinite"]
Promise(kind, handlers, options, description) ==
  [kind |-> kind, handlers |-> handlers, options |-> options, description |-> description]

SomeOptions == {Plain, Full}
Both == {"success", "error"}
SomePromises ==
  {Promise("notifier", Both, Plain, "described"), Promise("notifier", Both, Full, Absent),
   Promise("toast", {"success"}, Full, Nothing), Promise("toast", {"error"}, Plain, "described")}
=============================================================================

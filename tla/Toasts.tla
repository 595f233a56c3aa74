--------------------------------- MODULE Toasts ---------------------------------
(* Notifications of the terminal client: the Observer that keeps them       *)
(* (opentui-toast, state.ts), the toaster and the toasts it draws with      *)
(* their timers (toaster.ts, toast.ts), and the operations whose outcome a  *)
(* loading toast turns into (promise() of state.ts and of the notifier).    *)
EXTENDS Naturals, SequencesExt

CONSTANTS
  MaxToasts,     \* bound: ids, given by a caller or counted
  VisibleToasts, \* how many are shown at once; single mode shows one
  Options,       \* what a caller gives: [description, duration], or Absent
  Promises,      \* operations: [kind, handlers, options, description]
  MaxCalls,      \* bound: calls of the API
  MaxHovers      \* bound: times the mouse moves onto a toast

ASSUME ToastsAssumption ==
  /\ VisibleToasts \in Nat \ {0}
  /\ MaxToasts \in Nat /\ MaxCalls \in Nat /\ MaxHovers \in Nat

VARIABLES
  known,         \* Observer.toasts: the last data of each id
  dismissed,     \* Observer.dismissedToasts
  notices,       \* dismissals the subscribers are told of in a later turn
  shown,         \* the toaster's toasts, the oldest first
  operations,    \* what a toast was given a promise of
  present,       \* the toaster is there
  callCount, hovers

toastVars == <<known, dismissed, notices, shown, operations, present, callCount, hovers>>

Ids == 1..MaxToasts
Nothing == "nothing"
Absent == "absent"

(* An id that has not been used is as good as another: the next is taken. *)
Usable == {id \in Ids : id = 1 \/ id - 1 \in DOMAIN known}

ShownIds == {shown[i].id : i \in DOMAIN shown}
PlaceOf(list, id) == CHOOSE i \in DOMAIN list : list[i].id = id
Toast(id) == shown[PlaceOf(shown, id)]
Active(id) == id \in DOMAIN known /\ id \notin dismissed

-----------------------------------------------------------------------------
(* One toast on the screen. *)

Finite(data) == data.duration # "infinite"

(* Mutant: what the loading toast described stays. *)
MutantKeepsDescription(old, data) ==
  IF data.description = Nothing THEN old ELSE data.description

(* The slot for the description is filled, made or removed; without a slot *)
(* for the title, or a new title, the title is left as it is.              *)
DescriptionSlot(old, data) == data.description
TitleSlot(old, data) == IF Nothing \in {old, data.title} THEN old ELSE data.title

NewToast(id, data) ==
  [id |-> id, type |-> data.type, finite |-> Finite(data),
   title |-> data.title, description |-> DescriptionSlot(Nothing, data),
   timer |-> Finite(data) /\ data.type # "loading",
   stray |-> 0, paused |-> FALSE, dismissed |-> FALSE]

(* Mutant: nobody looks at the clock again. *)
MutantNoTimer(t, data) ==
  [t EXCEPT !.type = data.type, !.title = TitleSlot(@, data),
            !.description = DescriptionSlot(@, data)]

(* A loading toast keeps the time it had, and a timer that runs. *)
UpdateToast(t, data) ==
  LET drawn == [t EXCEPT !.type = data.type, !.title = TitleSlot(@, data),
                         !.description = DescriptionSlot(@, data)]
  IN IF data.type = "loading" THEN drawn
     ELSE [drawn EXCEPT !.finite = Finite(data), !.timer = Finite(data)]

Pause(t) ==
  IF t.paused \/ ~t.finite THEN t ELSE [t EXCEPT !.paused = TRUE, !.timer = FALSE]

(* A timer that is running already is forgotten, and runs on. *)
Resume(t) ==
  IF ~t.paused \/ ~t.finite THEN t
  ELSE [t EXCEPT !.paused = FALSE, !.timer = TRUE,
                 !.stray = IF t.timer THEN @ + 1 ELSE @]

(* Timers still running find the toast dismissed and do nothing. *)
Ended(t) == [t EXCEPT !.dismissed = TRUE, !.timer = FALSE, !.stray = 0]

-----------------------------------------------------------------------------
(* The Observer and the toaster.  What a call does to them is computed on  *)
(* w = [dismissed, notices, shown].                                        *)

World == [dismissed |-> dismissed, notices |-> notices, shown |-> shown]
Becomes(w) == dismissed' = w.dismissed /\ notices' = w.notices /\ shown' = w.shown

(* ToastRenderable.dismiss() tells the Observer, which in a later turn     *)
(* tells the toaster: that one changes nothing, the toast is on its way.   *)
DismissEach(w, ids) ==
  LET going == {i \in DOMAIN w.shown : w.shown[i].id \in ids /\ ~w.shown[i].dismissed}
  IN [dismissed |-> w.dismissed \cup {w.shown[i].id : i \in going},
      notices |-> w.notices,
      shown |-> [i \in DOMAIN w.shown |->
                   IF i \in going THEN Ended(w.shown[i]) ELSE w.shown[i]]]

DismissToast(w, id) == DismissEach(w, {id})

(* Mutant: the new toast is not counted. *)
MutantOneTooMany(list) ==
  {list[i].id : i \in {j \in DOMAIN list : j <= Len(list) - VisibleToasts}}

(* The oldest have to go, those that are going already among them. *)
Overflow(list) ==
  {list[i].id : i \in {j \in DOMAIN list : j <= Len(list) + 1 - VisibleToasts}}

AddOrUpdate(w, id, data) ==
  IF id \in {w.shown[j].id : j \in DOMAIN w.shown}
  THEN [w EXCEPT !.shown[PlaceOf(w.shown, id)] = UpdateToast(@, data)]
  ELSE LET room == DismissEach(w, Overflow(w.shown))
       IN [room EXCEPT !.shown = Append(@, NewToast(id, data))]

(* {...toast, ...data}: what the new data leaves out stays. *)
Merge(id, data) ==
  LET old == IF id \in DOMAIN known THEN known[id]
             ELSE [description |-> Nothing, duration |-> "finite"]
  IN [data EXCEPT !.description = IF @ = Absent THEN old.description ELSE @,
                  !.duration = IF @ = Absent THEN old.duration ELSE @]

Create(id, data) ==
  LET merged == Merge(id, data)
      w == [World EXCEPT !.dismissed = @ \ {id}]
  IN /\ known' = [k \in DOMAIN known \cup {id} |-> IF k = id THEN merged ELSE known[k]]
     /\ Becomes(IF present THEN AddOrUpdate(w, id, merged) ELSE w)

Data(type, title, options) ==
  [type |-> type, title |-> title,
   description |-> options.description, duration |-> options.duration]

Called == callCount < MaxCalls /\ callCount' = callCount + 1

(* message(), success(), ...: with an id of their own or a new one.  They   *)
(* differ in style, but for loading(), which begins an operation.          *)
Show(id, options) ==
  /\ Called /\ Create(id, Data("success", "success", options))
  /\ UNCHANGED <<operations, present, hovers>>

(* The subscribers hear of one dismissal in a later turn, of all at once.  *)
Dismiss(id) ==
  /\ Called
  /\ dismissed' = dismissed \cup {id} /\ notices' = Append(notices, id)
  /\ UNCHANGED <<known, shown, operations, present, hovers>>

DismissAll ==
  /\ Called
  /\ Becomes(DismissEach([World EXCEPT !.dismissed = @ \cup DOMAIN known], ShownIds))
  /\ UNCHANGED <<known, operations, present, hovers>>

Told ==
  /\ notices # <<>>
  /\ Becomes(DismissToast([World EXCEPT !.notices = Tail(@)], Head(notices)))
  /\ UNCHANGED <<known, operations, present, callCount, hovers>>

(* The timer of a toast, its close button. *)
Close(id) ==
  /\ id \in ShownIds /\ ~Toast(id).dismissed
  /\ Becomes(DismissToast(World, id))
  /\ UNCHANGED <<known, operations, present, hovers>>

TimerFires(id) ==
  /\ id \in ShownIds /\ (Toast(id).timer \/ Toast(id).stray > 0)
  /\ Close(id) /\ UNCHANGED callCount

CloseButton(id) == Called /\ Close(id)

(* 200 ms after the dismissal. *)
Unmount(id) ==
  /\ id \in ShownIds /\ Toast(id).dismissed
  /\ shown' = RemoveAt(shown, PlaceOf(shown, id))
  /\ UNCHANGED <<known, dismissed, notices, operations, present, callCount, hovers>>

MouseOver(id) ==
  /\ id \in ShownIds /\ ~Toast(id).dismissed /\ hovers < MaxHovers
  /\ hovers' = hovers + 1
  /\ shown' = [shown EXCEPT ![PlaceOf(shown, id)] = Pause(@)]
  /\ UNCHANGED <<known, dismissed, notices, operations, present, callCount>>

MouseOut(id) ==
  /\ id \in ShownIds /\ ~Toast(id).dismissed /\ Toast(id).paused
  /\ shown' = [shown EXCEPT ![PlaceOf(shown, id)] = Resume(@)]
  /\ UNCHANGED <<known, dismissed, notices, operations, present, callCount, hovers>>

Destroy ==
  /\ present /\ Called
  /\ present' = FALSE /\ shown' = <<>>
  /\ UNCHANGED <<known, dismissed, notices, operations, hovers>>

-----------------------------------------------------------------------------
(* Operations.  A caller of toast.promise() need not say what to show when *)
(* it fails or succeeds, and what it says may itself throw.                *)

(* promise() of the notifier, and toast.promise() where it shows a toast    *)
(* while it waits.                                                         *)
Begin(id, promise) ==
  /\ Called
  /\ Create(id, Data("loading", "loading", promise.options))
  /\ operations' = Append(operations, [id |-> id, kind |-> promise.kind,
                                      handlers |-> promise.handlers,
                                      description |-> promise.description])
  /\ UNCHANGED <<present, hovers>>

(* What is done in the end: shown, dismissed, or nothing. *)
Caught(op, broken, mayDismiss) ==
  IF "error" \in op.handlers THEN (IF "error" \in broken THEN Nothing ELSE "error")
  ELSE IF mayDismiss THEN "dismiss" ELSE Nothing

Fulfilled(op, settled, broken) ==
  IF settled = "error"
  THEN IF "error" \in broken THEN Caught(op, broken, FALSE) ELSE "error"
  ELSE IF "success" \notin op.handlers THEN "dismiss"
  ELSE IF "success" \in broken THEN Caught(op, broken, FALSE) ELSE "success"

(* Mutant: an Error that is returned is a value like another. *)
MutantErrorIsValue(op, settled, broken) ==
  CASE op.kind = "notifier" -> IF settled = "rejected" \/ broken # {} THEN Nothing ELSE "success"
    [] op.kind = "toast" /\ settled = "rejected" -> Caught(op, broken, TRUE)
    [] OTHER -> Fulfilled(op, "value", broken)

Outcome(op, settled, broken) ==
  CASE op.kind = "notifier" ->
         IF settled = "rejected" \/ broken # {} THEN Nothing
         ELSE IF settled = "error" THEN "error" ELSE "success"
    [] op.kind = "toast" /\ settled = "rejected" -> Caught(op, broken, TRUE)
    [] OTHER -> Fulfilled(op, settled, broken)

(* The notifier leaves out a description it has not got, promise() removes *)
(* it; promise() has no title without something to show for an Error.      *)
ResultData(op, type) ==
  [type |-> type,
   title |-> IF type = "error" /\ "error" \notin op.handlers THEN Nothing ELSE type,
   description |-> op.description, duration |-> Absent]

Settle(i, settled, broken) ==
  /\ LET op == operations[i]
         outcome == Outcome(op, settled, broken)
     IN CASE outcome = Nothing -> UNCHANGED <<known, dismissed, notices, shown>>
          [] outcome = "dismiss" ->
               /\ dismissed' = dismissed \cup {op.id}
               /\ notices' = Append(notices, op.id)
               /\ UNCHANGED <<known, shown>>
          [] OTHER -> Create(op.id, ResultData(op, outcome))
  /\ operations' = RemoveAt(operations, i)
  /\ UNCHANGED <<present, callCount, hovers>>

-----------------------------------------------------------------------------
ToastInit ==
  /\ known = <<>> /\ dismissed = {} /\ notices = <<>>
  /\ shown = <<>> /\ operations = <<>> /\ present = TRUE
  /\ callCount = 0 /\ hovers = 0

Settles(i) ==
  \E settled \in {"value", "error", "rejected"}, broken \in SUBSET operations[i].handlers :
    Settle(i, settled, broken)

Clock == Told \/ \E id \in Ids : TimerFires(id) \/ Unmount(id)

ToastNext ==
  \/ \E id \in Usable : \/ \E options \in Options : Show(id, options)
                       \/ \E promise \in Promises : Begin(id, promise)
  \/ \E id \in DOMAIN known : Dismiss(id) \/ CloseButton(id) \/ MouseOver(id) \/ MouseOut(id)
  \/ DismissAll \/ Destroy \/ Clock
  \/ \E i \in DOMAIN operations : Settles(i)

ToastSpec == ToastInit /\ [][ToastNext]_toastVars

-----------------------------------------------------------------------------
(* Properties. *)

Fading(id) == id \in ShownIds /\ Toast(id).dismissed
Dismissing(id) == id \in Range(notices)

(* A toast on the screen that is not on its way out is one the Observer    *)
(* has for active, but for a dismissal the toaster has not heard of yet,   *)
(* and shows what the Observer has for it: its type, its description and,  *)
(* where there is one to replace, its title.                               *)
ShowsLatest ==
  \A id \in ShownIds :
    LET t == Toast(id) data == known[id]
    IN /\ Fading(id) \/ Dismissing(id) \/ Active(id)
       /\ t.type = data.type
       /\ t.description = data.description
       /\ Nothing \in {t.title, data.title} \/ t.title = data.title

(* However toasts are dismissed and come back, no more stay on the screen  *)
(* than there is room for.                                                 *)
WithinLimit == Cardinality({id \in ShownIds : ~Toast(id).dismissed}) <= VisibleToasts

(* An operation that comes to an end is told of: its toast turns into what *)
(* came out, an Error into an error, unless it was on its way out at that  *)
(* moment or a callback threw (specs/.archive/006-action-notifications).   *)
Reported(op, type) ==
  \/ Fading(op.id) \/ Dismissing(op.id)
  \/ \E i \in DOMAIN shown' :
       shown'[i].id = op.id /\ shown'[i].type = type /\ ~shown'[i].dismissed

OutcomeReported ==
  [][\A i \in DOMAIN operations :
       operations' = RemoveAt(operations, i) /\ present =>
         /\ Settle(i, "value", {}) /\ "success" \in operations[i].handlers =>
              Reported(operations[i], "success")
         /\ Settle(i, "error", {}) => Reported(operations[i], "error")]_toastVars

(* A toast closes by itself in the end, however often it is updated and    *)
(* hovered over: a timer runs for it, unless it is loading, was meant to   *)
(* stay, or the mouse is on it.                                            *)
ClosesItself ==
  \A i \in DOMAIN shown :
    LET t == shown[i]
    IN t.dismissed \/ ~t.finite \/ t.type = "loading" \/ t.paused \/ t.timer
=============================================================================

-------------------------- MODULE OverlayWorkspace --------------------------
(***************************************************************************)
(* One opening of the screen review overlay: the handlers of               *)
(* apps/overlay/qml/CaptureWorkspace.qml around the draft of OverlayDraft, *)
(* the CLI processes that keep the overlay state file and save to the      *)
(* Dictionary, and the ways the overlay ends.                              *)
(*                                                                         *)
(* Qt runs one handler at a time, so every handler is one action.  A       *)
(* command is a process of its own: it takes effect in a step of its own   *)
(* (StateReadRuns, StateWriteRuns, SaveRuns), and the handler that gets    *)
(* its response is another, at any later time.                             *)
(***************************************************************************)
EXTENDS OverlayDraft

CONSTANTS
  Remembered,     \* the local state the previous opening left on disk
  MaxCommits      \* bound on the times Save is pressed after a commit

VARIABLES
  saving, pendingSave, savedAlready,
  stateDirty, stateTouched, stateWriteFailed, stateWritePending,
  stateTimer,     \* the 350 ms timer runs
  closing,
  expanded,       \* the drawer is open
  exited,         \* the overlay has quit
  forced,         \* it quit although the state could not be saved
  stateRead,      \* the state-read command
  stateWrite,     \* the state-write command
  saveJob,        \* the save command
  disk,           \* the overlay state file
  dictionary      \* number of Saves the Dictionary has committed

saveVars == <<saving, pendingSave, savedAlready, saveJob, dictionary>>
writeVars == <<stateDirty, stateWriteFailed, stateWritePending, stateTimer, stateWrite, disk>>
readVars == <<stateTouched, stateRead>>
exitVars == <<closing, exited, forced>>
sessionVars == <<saveVars, writeVars, readVars, exitVars, expanded>>
vars == <<draftVars, sessionVars>>

LocalState(d) == [instruction |-> d.content.instruction, types |-> d.selectedTypes]

(* A command is idle until started, then running, then has replied. *)
Phases == {"idle", "running", "replied"}
StateJob == [phase: Phases, ok: BOOLEAN, value: LocalStates]
SaveJob == [phase: Phases, ok: BOOLEAN, receipt: Receipt \cup {None}]

Started(value) == [phase |-> "running", ok |-> FALSE, value |-> value]

ASSUME RememberedAssumption == Remembered \in LocalStates
ASSUME StoredIsLocal == StoredStates = LocalStates
ASSUME CommitsAssumption == MaxCommits \in Nat

SessionTypeOK ==
  /\ saving \in BOOLEAN /\ savedAlready \in BOOLEAN
  /\ pendingSave \in Payload \cup {None}
  /\ stateDirty \in BOOLEAN /\ stateTouched \in BOOLEAN
  /\ stateWriteFailed \in BOOLEAN /\ stateWritePending \in BOOLEAN
  /\ stateTimer \in BOOLEAN /\ closing \in BOOLEAN /\ expanded \in BOOLEAN
  /\ exited \in BOOLEAN /\ forced \in BOOLEAN
  /\ stateRead \in StateJob /\ stateWrite \in StateJob /\ saveJob \in SaveJob
  /\ disk \in LocalStates /\ dictionary \in Nat

TypeOK == DraftTypeOK /\ SessionTypeOK

(* Component.onCompleted starts state-read; the drawer may start open. *)
Init ==
  /\ DraftInit
  /\ saving = FALSE /\ pendingSave = None /\ savedAlready = FALSE
  /\ saveJob = [phase |-> "idle", ok |-> FALSE, receipt |-> None]
  /\ dictionary = 0
  /\ stateDirty = FALSE /\ stateWriteFailed = FALSE
  /\ stateWritePending = FALSE /\ stateTimer = FALSE
  /\ stateWrite = [Started(Remembered) EXCEPT !.phase = "idle"]
  /\ disk = Remembered
  /\ stateTouched = FALSE /\ stateRead = Started(Remembered)
  /\ closing = FALSE /\ exited = FALSE /\ forced = FALSE
  /\ expanded \in BOOLEAN

Open == ~exited

-----------------------------------------------------------------------------
(* Flushing the local state, and leaving. *)

(* Mutant: a clean overlay that is closing does not quit. *)
MutantNeverQuits(dirty, pending, job, isClosing) ==
  /\ exited' = exited
  /\ \/ /\ pending \/ ~dirty
        /\ stateDirty' = dirty /\ stateWritePending' = pending /\ stateWrite' = job
     \/ /\ ~pending /\ dirty
        /\ stateDirty' = FALSE /\ stateWritePending' = TRUE
        /\ stateWrite' = Started(LocalState(draft))

(* flushState(), entered with stateDirty = dirty, stateWritePending =      *)
(* pending and the last state-write command in `job`; `isClosing` is the   *)
(* value of `closing` the handler has set.                                 *)
FlushState(dirty, pending, job, isClosing) ==
  \/ /\ pending
     /\ stateDirty' = dirty /\ stateWritePending' = TRUE
     /\ stateWrite' = job /\ exited' = exited
  \/ /\ ~pending /\ ~dirty
     /\ stateDirty' = FALSE /\ stateWritePending' = FALSE
     /\ stateWrite' = job /\ exited' = isClosing
  \/ /\ ~pending /\ dirty
     /\ stateDirty' = FALSE /\ stateWritePending' = TRUE
     /\ stateWrite' = Started(LocalState(draft)) /\ exited' = exited

(* Mutant: leaving does not flush. *)
MutantQuitsAtOnce(explicit) ==
  /\ exited' = TRUE
  /\ UNCHANGED <<closing, forced, stateDirty, stateWritePending, stateTimer, stateWrite>>

RequestExit(explicit) ==
  \/ /\ stateWriteFailed /\ explicit
     /\ exited' = TRUE /\ forced' = TRUE
     /\ UNCHANGED <<closing, stateDirty, stateWritePending, stateTimer, stateWrite>>
  \/ /\ ~(stateWriteFailed /\ explicit)
     /\ closing' = TRUE /\ stateTimer' = FALSE
     /\ FlushState(stateDirty, stateWritePending, stateWrite, TRUE)
     /\ UNCHANGED forced

(* error(): the notification opens a closed drawer, except while saving.   *)
ShowError(isSaving) == expanded' = (expanded \/ ~isSaving)

(* stateDirty = true; stateTimer.restart() *)
ScheduleFlush ==
  /\ stateDirty' = TRUE /\ stateTimer' = TRUE
  /\ UNCHANGED <<stateWriteFailed, stateWritePending, stateWrite, disk>>

OpenDrawer ==
  /\ Open /\ ~saving /\ ~expanded
  /\ expanded' = TRUE
  /\ UNCHANGED <<draftVars, saveVars, writeVars, readVars, exitVars>>

CloseDrawer ==
  /\ Open /\ ~saving /\ expanded
  /\ expanded' = FALSE
  /\ UNCHANGED <<draftVars, saveVars, writeVars, readVars, exitVars>>

(* The Cancel button. *)
Cancel ==
  /\ Open /\ expanded /\ ~saving
  /\ RequestExit(TRUE)
  /\ UNCHANGED <<draftVars, saveVars, stateWriteFailed, disk, readVars, expanded>>

(* back() in the compact review; with the drawer open it is CloseDrawer. *)
Back ==
  /\ Open /\ ~expanded
  /\ RequestExit(TRUE)
  /\ UNCHANGED <<draftVars, saveVars, stateWriteFailed, disk, readVars, expanded>>

StateTimerFires ==
  /\ Open /\ stateTimer
  /\ stateTimer' = FALSE
  /\ FlushState(stateDirty, stateWritePending, stateWrite, closing)
  /\ UNCHANGED <<draftVars, saveVars, stateWriteFailed, disk, readVars, closing, forced,
                 expanded>>

-----------------------------------------------------------------------------
(* The user's handlers.  updateText() is refused while saving and after a  *)
(* save; only the Instruction belongs to the local state.                  *)
UpdateText(field) ==
  /\ Open /\ ~saving /\ ~savedAlready
  /\ field \in {"entry", "captured"} \/ expanded
  /\ IF field = "instruction"
     THEN stateTouched' = TRUE /\ ScheduleFlush
     ELSE UNCHANGED <<stateTouched, writeVars>>
  /\ UNCHANGED <<saveVars, stateRead, exitVars, expanded>>

UserEdits ==
  \/ \E field \in EditFields \cap Fields :
       /\ UpdateText(field)
       /\ (expanded /\ ClearField(field)) \/ \E text \in EditTexts : EditField(field, text)
  \/ /\ "instruction" \in EditFields
     /\ UpdateText("instruction")
     /\ \E text \in EditTexts : PickInstruction(text)
  \/ /\ "card" \in EditFields
     /\ UpdateText("card")
     /\ \E t \in Types : \E i \in DOMAIN draft.content.cards[t] :
          ClearCard(t, i) \/ \E text \in EditTexts : EditCard(t, i, text)

(* These reach the draft without updateText(): nothing stops them while a  *)
(* Save is pending or after it.                                            *)
UserAddsCard(type) == Open /\ expanded /\ AddCard(type) /\ UNCHANGED sessionVars

UserTogglesType(type) ==
  /\ Open /\ expanded /\ ToggleType(type)
  /\ stateTouched' = TRUE /\ ScheduleFlush
  /\ UNCHANGED <<saveVars, stateRead, exitVars, expanded>>

(* onUndo and onRedo schedule a write but do not count as touching the     *)
(* local state.                                                            *)
UserUndoes ==
  /\ Open /\ expanded /\ Undo
  /\ ScheduleFlush
  /\ UNCHANGED <<saveVars, readVars, exitVars, expanded>>

UserRedoes ==
  /\ Open /\ expanded /\ Redo
  /\ ScheduleFlush
  /\ UNCHANGED <<saveVars, readVars, exitVars, expanded>>

(* The picker can still be open when Save is pressed. *)
UserPicksModel(model) == Open /\ expanded /\ PickModel(model) /\ UNCHANGED sessionVars

UserGenerates == Open /\ expanded /\ ~saving /\ Generate /\ UNCHANGED sessionVars
UserSuggests == Open /\ expanded /\ ~saving /\ Suggest /\ UNCHANGED sessionVars
UserChoosesSense(name) ==
  Open /\ expanded /\ ~saving /\ ChooseSuggestion(name) /\ UNCHANGED sessionVars

CanSaveSense ==
  /\ draft.content.entry # Blank /\ draft.content.sense # Blank
  /\ FilledCards(draft.content) # {}

(* Mutant: Save works again after a valid receipt. *)
MutantSavesAgain(kind) ==
  /\ Open /\ expanded /\ ~saving /\ dictionary < MaxCommits
  /\ IF kind = "entry" THEN draft.content.entry # Blank ELSE CanSaveSense
  /\ saving' = TRUE
  /\ pendingSave' = SavePayload(draft, kind)
  /\ saveJob' = [phase |-> "running", ok |-> FALSE, receipt |-> None]
  /\ UNCHANGED <<draftVars, savedAlready, dictionary, writeVars, readVars, exitVars, expanded>>

Save(kind) ==
  /\ Open /\ expanded
  /\ dictionary < MaxCommits
  /\ ~saving /\ ~savedAlready
  /\ IF kind = "entry" THEN draft.content.entry # Blank ELSE CanSaveSense
  /\ saving' = TRUE
  /\ pendingSave' = SavePayload(draft, kind)
  /\ saveJob' = [phase |-> "running", ok |-> FALSE, receipt |-> None]
  /\ UNCHANGED <<draftVars, savedAlready, dictionary, writeVars, readVars, exitVars, expanded>>

-----------------------------------------------------------------------------
(* The CLI processes. *)

(* overlay state read: a whole snapshot, since a write replaces the file   *)
(* by renaming.                                                            *)
StateReadRuns ==
  /\ stateRead.phase = "running"
  /\ \E ok \in BOOLEAN : stateRead' = [phase |-> "replied", ok |-> ok, value |-> disk]
  /\ UNCHANGED <<draftVars, saveVars, writeVars, stateTouched, exitVars, expanded>>

(* overlay state write: the file is replaced or left alone, and a write    *)
(* that did replace it can still be reported as failed.                    *)
StateWriteRuns ==
  /\ stateWrite.phase = "running"
  /\ \E replaced, ok \in BOOLEAN :
       /\ ok => replaced
       /\ disk' = IF replaced THEN stateWrite.value ELSE disk
       /\ stateWrite' = [stateWrite EXCEPT !.phase = "replied", !.ok = ok]
  /\ UNCHANGED <<draftVars, saveVars, stateDirty, stateWriteFailed, stateWritePending,
                 stateTimer, readVars, exitVars, expanded>>

(* overlay save: nothing is saved, or everything is, with its receipt, or  *)
(* with a response that does not show it.                                  *)
SaveRuns ==
  /\ saveJob.phase = "running"
  /\ \E committed, ok \in BOOLEAN, receipt \in {None, ReceiptOf(pendingSave)} :
       /\ ok => committed
       /\ ~ok => receipt = None
       /\ dictionary' = IF committed THEN dictionary + 1 ELSE dictionary
       /\ saveJob' = [phase |-> "replied", ok |-> ok, receipt |-> receipt]
  /\ UNCHANGED <<draftVars, saving, pendingSave, savedAlready, writeVars, readVars, exitVars,
                 expanded>>

-----------------------------------------------------------------------------
(* commandFinished(), by key. *)

StateWriteFinished ==
  LET done == [stateWrite EXCEPT !.phase = "idle"] IN
  /\ Open /\ stateWrite.phase = "replied"
  /\ \/ /\ ~stateWrite.ok
        /\ stateWritePending' = FALSE /\ stateWriteFailed' = TRUE
        /\ closing' = FALSE /\ stateDirty' = TRUE
        /\ stateWrite' = done
        /\ ShowError(saving)
        /\ UNCHANGED exited
     \/ /\ stateWrite.ok
        /\ stateWriteFailed' = FALSE
        /\ FlushState(stateDirty, FALSE, done, closing)
        /\ UNCHANGED <<closing, expanded>>
  /\ UNCHANGED <<draftVars, saveVars, stateTimer, disk, readVars, forced>>

Confirmed ==
  /\ saveJob.ok /\ saveJob.receipt # None
  /\ ValidSaveReceipt(saveJob.receipt, pendingSave)

(* Mutant: a Save that was not confirmed stays pending. *)
MutantStaysSaving ==
  /\ Open /\ saveJob.phase = "replied"
  /\ saving' = ~Confirmed /\ savedAlready' = Confirmed
  /\ saveJob' = [saveJob EXCEPT !.phase = "idle"]
  /\ IF Confirmed THEN RequestExit(FALSE)
     ELSE UNCHANGED <<exitVars, stateDirty, stateWritePending, stateTimer, stateWrite>>
  /\ UNCHANGED <<draftVars, pendingSave, dictionary, stateWriteFailed, disk, readVars,
                 expanded>>

SaveFinished ==
  /\ Open /\ saveJob.phase = "replied"
  /\ saving' = FALSE
  /\ saveJob' = [saveJob EXCEPT !.phase = "idle"]
  /\ \/ /\ Confirmed
        /\ savedAlready' = TRUE
        /\ RequestExit(FALSE)
        /\ UNCHANGED expanded
     \/ /\ ~Confirmed
        /\ ShowError(FALSE)
        /\ UNCHANGED <<savedAlready, exitVars, stateDirty, stateWritePending, stateTimer,
                       stateWrite>>
  /\ UNCHANGED <<draftVars, pendingSave, dictionary, stateWriteFailed, disk, readVars>>

GenerateFinished(request) ==
  /\ Open
  /\ \/ GenerateSucceeds(request) /\ UNCHANGED expanded
     \/ /\ GenerateFails(request)
        /\ IF draft.activeRevision = request.revision THEN ShowError(saving)
           ELSE UNCHANGED expanded
  /\ UNCHANGED <<saveVars, writeVars, readVars, exitVars>>

SuggestFinished(request) ==
  /\ Open
  /\ \/ SuggestSucceeds(request) /\ UNCHANGED expanded
     \/ /\ SuggestFails(request)
        /\ IF draft.generationRevision = request.revision THEN ShowError(saving)
           ELSE UNCHANGED expanded
  /\ UNCHANGED <<saveVars, writeVars, readVars, exitVars>>

(* The remembered state enters the draft unless the user was first. *)
StateReadFinished ==
  /\ Open /\ stateRead.phase = "replied"
  /\ stateRead' = [stateRead EXCEPT !.phase = "idle"]
  /\ IF stateRead.ok THEN UNCHANGED expanded ELSE ShowError(saving)
  /\ IF stateRead.ok /\ ~stateTouched THEN AdoptState(stateRead.value)
     ELSE UNCHANGED draftVars
  /\ UNCHANGED <<saveVars, writeVars, stateTouched, exitVars>>

-----------------------------------------------------------------------------
Leave == OpenDrawer \/ CloseDrawer \/ Cancel \/ Back

Press ==
  \/ \E t \in Types : UserAddsCard(t) \/ UserTogglesType(t)
  \/ UserUndoes \/ UserRedoes
  \/ \E model \in Models : UserPicksModel(model)
  \/ UserGenerates \/ UserSuggests
  \/ \E name \in SenseNames : UserChoosesSense(name)
  \/ \E kind \in Kinds : Save(kind)

Run == StateReadRuns \/ StateWriteRuns \/ SaveRuns

Finish ==
  \/ StateReadFinished \/ StateWriteFinished \/ SaveFinished
  \/ \E request \in generating : GenerateFinished(request)
  \/ \E request \in suggesting : SuggestFinished(request)

Next == Leave \/ UserEdits \/ Press \/ StateTimerFires \/ Run \/ Finish

Spec == Init /\ [][Next]_vars

(* Timers fire, and processes end and are answered; the user need not act. *)
FairSpec ==
  /\ Spec
  /\ WF_vars(StateTimerFires)
  /\ WF_vars(StateReadRuns) /\ WF_vars(StateWriteRuns) /\ WF_vars(SaveRuns)
  /\ WF_vars(StateReadFinished) /\ WF_vars(StateWriteFinished) /\ WF_vars(SaveFinished)

-----------------------------------------------------------------------------
(* Saving. *)

(* After a valid receipt the Dictionary receives nothing more from this    *)
(* review, whatever is pressed, answered late or still in flight.          *)
NothingSavedAfterReceipt == [][savedAlready => dictionary' = dictionary]_vars

(* The receipt of a committed Save is recognised although undo, redo and   *)
(* added cards may have changed the draft since it was pressed.            *)
ReceiptRecognised ==
  [][saving /\ ~saving' /\ saveJob.receipt # None => savedAlready']_vars

(* The one way out while a Save is pending is a Cancel that came before it *)
(* and was still waiting for the state file.                               *)
ExitWhileSavingWasCancel ==
  [][saving /\ saving' /\ exited' /\ ~exited => closing /\ stateWritePending]_vars

(* A Save is settled: a receipt for it is the last word of this review,    *)
(* and until its answer the overlay stays, unless a Cancel came before it. *)
SaveIsSettled == NothingSavedAfterReceipt /\ ExitWhileSavingWasCancel

(* A Save press is answered while the overlay is open.                     *)
SaveAnswered == saving ~> (~saving \/ exited)

-----------------------------------------------------------------------------
(* The local state. *)

(* Leaving after a change of the Instruction or the Types leaves it on     *)
(* disk.                                                                   *)
FlushedOnExit == exited /\ ~forced /\ stateTouched => disk = LocalState(draft)

(* A change that is not on its way to disk is on a timer, behind a pending *)
(* write, or was reported as failed.                                       *)
DirtyIsScheduled ==
  stateDirty /\ ~exited => stateTimer \/ stateWritePending \/ stateWriteFailed

(* An overlay that is closing waits for a write, and for nothing else.     *)
ClosingIsFlushing == closing /\ ~exited => stateWritePending

(* From some time on no change starts the timer again. *)
ChangesEnd == <>[][stateTimer' => stateTimer]_vars

(* Cancel and a saved review end: when the user stops changing the local   *)
(* state, the overlay quits or reports that it could not be written.       *)
ClosingSettles == ChangesEnd => (closing ~> (exited \/ stateWriteFailed))
=============================================================================

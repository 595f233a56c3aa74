----------------------------- MODULE OverlayDraft -----------------------------
(***************************************************************************)
(* The draft of one overlay opening as apps/overlay/qml/CaptureWorkspace   *)
(* drives it: edits, undo and redo, the Model picker, and the suggest and  *)
(* generate commands whose replies arrive at any later time, in any order, *)
(* or fail.  Whether a handler may run at all while the review is being    *)
(* saved or has ended is the business of OverlayWorkspace.                 *)
(***************************************************************************)
EXTENDS DraftState

CONSTANTS
  Models,         \* selectable Models
  InitialModel,   \* the configured Default Model, or None
  StoredStates,   \* local states the overlay state file can hold
  EditTexts,      \* texts the user types and Providers generate
  EditFields,     \* fields the user edits
  SenseNames,     \* names of suggested and generated Senses
  MaxRevision,    \* bound on generationRevision
  MaxCards        \* bound on cards of one Type

VARIABLES
  draft, selectedModel, suggestions,
  generationLoading, loadingGenerationRevision,
  suggestionLoading, loadingSuggestionRevision,
  generating,     \* generate commands in flight
  suggesting      \* suggest commands in flight

generationVars == <<generationLoading, loadingGenerationRevision, generating>>
suggestionVars == <<suggestionLoading, loadingSuggestionRevision, suggesting>>
draftVars == <<draft, selectedModel, suggestions, generationVars, suggestionVars>>

(* The remembered local state: the Instruction and the checked Types. *)
LocalStates == [instruction: Texts, types: SUBSET Types]

(* The inputs a generate or suggest command is started with. *)
RequestInputs == [entry: Texts, captured: Texts, instruction: Texts,
                  sense: Texts, types: SUBSET Types, model: Models]
Request == [revision: Nat, inputs: RequestInputs]

RequestOf(d, model) ==
  [entry |-> d.content.entry, captured |-> d.content.captured,
   instruction |-> d.content.instruction, sense |-> d.content.sense,
   types |-> d.selectedTypes, model |-> model]

ASSUME ModelsAssumption == InitialModel \in Models \cup {None} /\ None \notin Models
ASSUME StoredAssumption == StoredStates \subseteq LocalStates
ASSUME InputsAssumption ==
  /\ EditTexts \subseteq Texts
  /\ EditFields \subseteq Fields \cup {"card"}
  /\ SenseNames \subseteq Texts \ {Blank}
ASSUME BoundsAssumption == MaxRevision \in Nat /\ MaxCards \in Nat

DraftTypeOK ==
  /\ draft \in Draft
  /\ selectedModel \in Models \cup {None}
  /\ suggestions \in SUBSET SenseNames
  /\ generationLoading \in BOOLEAN /\ suggestionLoading \in BOOLEAN
  /\ loadingGenerationRevision \in Nat \cup {None}
  /\ loadingSuggestionRevision \in Nat \cup {None}
  /\ generating \in SUBSET Request /\ suggesting \in SUBSET Request

(* Component.onCompleted: a configured Model counts as a first choice. *)
DraftInit ==
  /\ draft = (IF InitialModel = None THEN NewDraft ELSE ModelChanged(NewDraft))
  /\ selectedModel = InitialModel
  /\ suggestions = {}
  /\ generationLoading = FALSE /\ loadingGenerationRevision = None
  /\ suggestionLoading = FALSE /\ loadingSuggestionRevision = None
  /\ generating = {} /\ suggesting = {}

-----------------------------------------------------------------------------
(* Editing. *)

RevisionLeft == draft.generationRevision < MaxRevision

DraftBecomes(next) ==
  /\ draft' = next
  /\ UNCHANGED <<selectedModel, suggestions, generationVars, suggestionVars>>

Change(content, remember) ==
  RevisionLeft /\ DraftBecomes(ChangeText(draft, content, remember))

(* Typing is not an undo action of its own; clearing a field and picking   *)
(* a saved Instruction are.                                                *)
EditField(field, text) == Change(WithText(draft.content, field, text), FALSE)
ClearField(field) == Change(WithText(draft.content, field, Blank), TRUE)
PickInstruction(text) == Change(WithText(draft.content, "instruction", text), TRUE)
EditCard(type, i, text) == Change(WithCardText(draft.content, type, i, text), FALSE)
ClearCard(type, i) == Change(WithCardText(draft.content, type, i, Blank), TRUE)

AddCard(type) ==
  /\ RevisionLeft /\ Len(draft.content.cards[type]) < MaxCards
  /\ DraftBecomes(CardAdded(draft, type))

ToggleType(type) == RevisionLeft /\ DraftBecomes(TypeToggled(draft, type))

Undo == RevisionLeft /\ DraftBecomes(UndoDraft(draft))
Redo == RevisionLeft /\ DraftBecomes(RedoDraft(draft))

(* The state-read command's answer, taken without a new revision. *)
AdoptState(value) ==
  DraftBecomes([draft EXCEPT !.content.instruction = value.instruction,
                             !.selectedTypes = value.types])

(* choosePopup() for the Model picker, and onSelectedModelChanged. *)
PickModel(model) ==
  /\ RevisionLeft
  /\ model # selectedModel
  /\ selectedModel' = model
  /\ draft' = ModelChanged(draft)
  /\ generationLoading' = FALSE /\ loadingGenerationRevision' = None
  /\ suggestionLoading' = FALSE /\ loadingSuggestionRevision' = None
  /\ UNCHANGED <<suggestions, generating, suggesting>>

-----------------------------------------------------------------------------
(* Requests. *)

CanGenerate(d) ==
  d.content.entry # Blank /\ selectedModel # None /\ d.selectedTypes # {}

(* generate() once the draft `d` has the request's revision. *)
SendGenerate(d) ==
  /\ generationLoading' = TRUE
  /\ loadingGenerationRevision' = d.activeRevision
  /\ generating' = generating \cup
       {[revision |-> d.activeRevision, inputs |-> RequestOf(d, selectedModel)]}

Generate ==
  /\ RevisionLeft
  /\ CanGenerate(draft) /\ ~generationLoading
  /\ draft' = BeginGeneration(draft)
  /\ SendGenerate(BeginGeneration(draft))
  /\ UNCHANGED <<selectedModel, suggestions, suggestionVars>>

(* chooseSense(): the switch happens even when nothing can be generated.   *)
ChooseSuggestion(name) ==
  /\ RevisionLeft
  /\ name \in suggestions
  /\ selectedModel # None /\ draft.selectedTypes # {}
  /\ draft' = ChooseSense(draft, name)
  /\ IF CanGenerate(ChooseSense(draft, name))
     THEN SendGenerate(ChooseSense(draft, name))
     ELSE UNCHANGED generationVars
  /\ UNCHANGED <<selectedModel, suggestions, suggestionVars>>

Suggest ==
  /\ draft.content.entry # Blank /\ selectedModel # None
  /\ ~suggestionLoading
  /\ suggestionLoading' = TRUE
  /\ loadingSuggestionRevision' = draft.generationRevision
  /\ suggesting' = suggesting \cup
       {[revision |-> draft.generationRevision, inputs |-> RequestOf(draft, selectedModel)]}
  /\ UNCHANGED <<draft, selectedModel, suggestions, generationVars>>

-----------------------------------------------------------------------------
(* Replies. *)

(* Mutant: a reply that is no longer for the draft does not end the wait. *)
MutantStillLoading(request) ==
  /\ request \in generating
  /\ generating' = generating \ {request}
  /\ generationLoading' = (generationLoading /\ request.revision # draft.activeRevision)
  /\ UNCHANGED <<selectedModel, suggestions, loadingGenerationRevision, suggestionVars>>

GenerateReplied(request) ==
  /\ request \in generating
  /\ generating' = generating \ {request}
  /\ generationLoading' =
       (generationLoading /\ request.revision # loadingGenerationRevision)
  /\ UNCHANGED <<selectedModel, suggestions, loadingGenerationRevision, suggestionVars>>

(* A result has a text for every requested Type, and keeps a named Sense.  *)
GenerateSucceeds(request) ==
  \E sense \in SenseNames : \E texts \in [request.inputs.types -> EditTexts \ {Blank}] :
    /\ request.inputs.sense # Blank => sense = request.inputs.sense
    /\ GenerateReplied(request)
    /\ draft' = ReceiveGeneration(draft, request.revision, [sense |-> sense, texts |-> texts])

GenerateFails(request) == GenerateReplied(request) /\ UNCHANGED draft

SuggestReplied(request) ==
  /\ request \in suggesting
  /\ suggesting' = suggesting \ {request}
  /\ suggestionLoading' =
       (suggestionLoading /\ request.revision # loadingSuggestionRevision)
  /\ UNCHANGED <<draft, selectedModel, loadingSuggestionRevision, generationVars>>

SuggestSucceeds(request) ==
  /\ SuggestReplied(request)
  /\ IF request.revision = draft.generationRevision
     THEN suggestions' \in SUBSET SenseNames
     ELSE UNCHANGED suggestions

SuggestFails(request) == SuggestReplied(request) /\ UNCHANGED suggestions

-----------------------------------------------------------------------------
DraftEdit ==
  \/ \E field \in EditFields \cap Fields :
       ClearField(field) \/ \E text \in EditTexts : EditField(field, text)
  \/ "instruction" \in EditFields /\ \E text \in EditTexts : PickInstruction(text)
  \/ /\ "card" \in EditFields
     /\ \E t \in Types : \E i \in DOMAIN draft.content.cards[t] :
          ClearCard(t, i) \/ \E text \in EditTexts : EditCard(t, i, text)
  \/ \E t \in Types : AddCard(t) \/ ToggleType(t)
  \/ \E model \in Models : PickModel(model)

GenerateAnswered(request) == GenerateSucceeds(request) \/ GenerateFails(request)
SuggestAnswered(request) == SuggestSucceeds(request) \/ SuggestFails(request)

DraftReply ==
  \/ \E request \in generating : GenerateAnswered(request)
  \/ \E request \in suggesting : SuggestAnswered(request)

DraftNext ==
  \/ DraftEdit \/ Undo \/ Redo \/ \E value \in StoredStates : AdoptState(value)
  \/ Generate \/ Suggest \/ \E name \in SenseNames : ChooseSuggestion(name)
  \/ DraftReply

DraftSpec == DraftInit /\ [][DraftNext]_draftVars

(* The processes of the commands end and are answered: whatever else       *)
(* happens, some answer comes as long as one is waited for.  The user need *)
(* not act.                                                                *)
FairDraftSpec ==
  /\ DraftSpec
  /\ WF_draftVars(\E request \in generating : GenerateAnswered(request))
  /\ WF_draftVars(\E request \in suggesting : SuggestAnswered(request))

-----------------------------------------------------------------------------
(* A reply may only enter the draft on behalf of the newest undo action,   *)
(* so undoing once takes the generated text back out.                      *)
ActiveRequestOnTop ==
  draft.activeRevision # None =>
    /\ draft.undo # <<>>
    /\ Top(draft.undo).requestRevision = draft.activeRevision

(* Redo after undo shows the draft that undo left, or that draft with the  *)
(* result of the same action, when its request was for these inputs.       *)
RedoInvertsUndo ==
  LET undone == UndoDraft(draft)
      redone == RedoDraft(undone)
      action == Top(undone.redo)
  IN draft.undo # <<>> =>
       \/ redone.content = draft.content
       \/ /\ GenerationMatches(draft, action)
          /\ redone.content = ApplyGenerated(draft.content, action.generated)

(* "Undo restores the prior Sense and drafts": undoing what a redo did     *)
(* gives back the Sense and the cards the redo was pressed on.             *)
UndoInvertsRedo ==
  LET back == UndoDraft(RedoDraft(draft)) IN
  draft.redo # <<>> =>
    /\ back.content.sense = draft.content.sense
    /\ back.content.cards = draft.content.cards

(* A reply changes the draft, or the suggestions, only while the Entry,    *)
(* the captured Description and the Model, and for a generation the        *)
(* Instruction, Sense and checked Types as well, are those its command was *)
(* started with, however long it took.                                     *)
ReplyFitsDraft ==
  [][/\ \A request \in generating \ generating' :
          draft'.content # draft.content =>
            RequestOf(draft, selectedModel) = request.inputs
     /\ \A request \in suggesting \ suggesting' :
          suggestions' # suggestions =>
            /\ request.inputs.entry = draft.content.entry
            /\ request.inputs.captured = draft.content.captured
            /\ request.inputs.model = selectedModel]_draftVars

(* A generate reply replaces no text that is in a card when it arrives.    *)
ReplyKeepsText ==
  [][generating \ generating' # {} =>
       \A t \in Types : \A i \in DOMAIN draft.content.cards[t] :
         draft.content.cards[t][i].text # Blank =>
           draft'.content.cards[t][i] = draft.content.cards[t][i]]_draftVars

(* A button that waits for a reply waits for one that is still to come.    *)
LoadingIsAwaited ==
  /\ generationLoading =>
       \E request \in generating : request.revision = loadingGenerationRevision
  /\ suggestionLoading =>
       \E request \in suggesting : request.revision = loadingSuggestionRevision

(* What is waited for is there: both of the above, which depend on each    *)
(* command being remembered until it is answered.                          *)
RequestsInStep == ActiveRequestOnTop /\ LoadingIsAwaited

(* The Generate button becomes usable again, whatever was undone or edited *)
(* before the answer.                                                      *)
LoadingEnds == generationLoading ~> ~generationLoading
=============================================================================

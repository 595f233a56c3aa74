----------------------------- MODULE DraftState -----------------------------
(***************************************************************************)
(* The pure functions of apps/overlay/qml/state.js: the draft of one       *)
(* Overlay review, its undo and redo history, and the generation requests  *)
(* that history remembers.                                                 *)
(*                                                                         *)
(* A draft is a record.  The fields snapshot() copies are grouped in       *)
(* `content`.  The array of Description cards is kept sorted by Type in    *)
(* the code and a card is only ever looked up within its Type, so it is a  *)
(* function from Type to the sequence of that Type's cards.  A text is     *)
(* Blank exactly when text.trim() is empty.                                *)
(***************************************************************************)
EXTENDS Integers, Sequences, FiniteSets

CONSTANTS
  Types,        \* Description Types: definition, translation, example, misc
  DefaultTypes, \* the Types checked in a new draft: {definition}
  Texts,        \* texts a field can hold
  Blank,        \* the empty text
  None          \* null

ASSUME TypesAssumption == DefaultTypes \subseteq Types
ASSUME BlankAssumption == Blank \in Texts
ASSUME NoneAssumption == None \notin Nat

Fields == {"entry", "captured", "instruction", "sense"}

Card == [text: Texts, edited: BOOLEAN]
Content == [entry: Texts, captured: Texts, instruction: Texts, sense: Texts,
            cards: [Types -> Seq(Card)]]
Inputs == [entry: Texts, captured: Texts, instruction: Texts, sense: Texts,
           cards: [Types -> Seq(Texts)], types: SUBSET Types, modelRevision: Nat]

(* A result: the Sense it is for and one text for each requested Type. *)
Result(types) == [sense: Texts \ {Blank}, texts: [types -> Texts \ {Blank}]]
Results == UNION {Result(types) : types \in SUBSET Types}

Action == [before: Content, after: Content, requestRevision: Nat \cup {None},
           requestInputs: Inputs \cup {None}, generated: Results \cup {None},
           resultApplied: BOOLEAN, afterHasGenerated: BOOLEAN]

Draft == [content: Content, selectedTypes: SUBSET Types,
          generationRevision: Nat, modelRevision: Nat,
          activeRevision: Nat \cup {None}, undo: Seq(Action), redo: Seq(Action)]

EmptyCard == [text |-> Blank, edited |-> FALSE]

NewDraft ==
  [content |-> [entry |-> Blank, captured |-> Blank, instruction |-> Blank,
                sense |-> Blank, cards |-> [t \in Types |-> <<EmptyCard>>]],
   selectedTypes |-> DefaultTypes,
   generationRevision |-> 0, modelRevision |-> 0, activeRevision |-> None,
   undo |-> <<>>, redo |-> <<>>]

Snapshot(d) == d.content
Restore(d, saved) == [d EXCEPT !.content = saved]

(* What a generation request depends on. *)
GenerationInputs(d) ==
  [entry |-> d.content.entry, captured |-> d.content.captured,
   instruction |-> d.content.instruction, sense |-> d.content.sense,
   cards |-> [t \in Types |->
     [i \in DOMAIN d.content.cards[t] |-> d.content.cards[t][i].text]],
   types |-> d.selectedTypes, modelRevision |-> d.modelRevision]

(* Blank cards are no inputs: only the other cards' texts and their order  *)
(* are compared.                                                           *)
NonBlank(texts) == SelectSeq(texts, LAMBDA text : text # Blank)
Compared(inputs) ==
  [inputs EXCEPT !.cards = [t \in Types |-> NonBlank(inputs.cards[t])]]

(* Mutant: any inputs will do. *)
MutantMatchesAnything(d, action) == action.requestInputs # None

GenerationMatches(d, action) ==
  /\ action.requestInputs # None
  /\ Compared(GenerationInputs(d)) = Compared(action.requestInputs)

(* Mutant: an edit goes on waiting for the reply. *)
MutantKeepsWaiting(d) == [d EXCEPT !.generationRevision = @ + 1]

(* Every edit moves the draft to a new revision and gives up the request   *)
(* whose reply it was waiting for.                                         *)
Invalidated(d) ==
  [d EXCEPT !.generationRevision = @ + 1, !.activeRevision = None]

ModelChanged(d) == [Invalidated(d) EXCEPT !.modelRevision = @ + 1]

(* CaptureWorkspace.toggleType's part of the draft. *)
TypeToggled(d, type) ==
  [Invalidated(d) EXCEPT
     !.selectedTypes = IF type \in @ THEN @ \ {type} ELSE @ \cup {type}]

-----------------------------------------------------------------------------
(* Actions that send a generation request. *)

RequestAction(before, d) ==
  [before |-> before, after |-> Snapshot(d),
   requestRevision |-> d.generationRevision,
   requestInputs |-> GenerationInputs(d), generated |-> None,
   resultApplied |-> FALSE, afterHasGenerated |-> FALSE]

(* The draft after `content` was prepared for a request: the new revision  *)
(* is the request's and its action is on top of the undo stack.            *)
Requested(d, content) ==
  LET next == [d EXCEPT !.content = content,
                        !.generationRevision = @ + 1,
                        !.activeRevision = d.generationRevision + 1,
                        !.redo = <<>>]
  IN [next EXCEPT !.undo = Append(@, RequestAction(Snapshot(d), next))]

(* Choosing a Sense clears what a previous Sense generated, never an edit. *)
ChooseSense(d, name) ==
  Requested(d, [d.content EXCEPT
    !.sense = name,
    !.cards = [t \in Types |->
      [i \in DOMAIN @[t] |->
         IF @[t][i].edited THEN @[t][i] ELSE [@[t][i] EXCEPT !.text = Blank]]]])

(* Generate clears every card of the checked Types. *)
BeginGeneration(d) ==
  Requested(d, [d.content EXCEPT
    !.cards = [t \in Types |->
      IF t \in d.selectedTypes THEN [i \in DOMAIN @[t] |-> EmptyCard] ELSE @[t]]])

-----------------------------------------------------------------------------
(* Results. *)

(* Mutant: a generated text goes to the first card, blank or not. *)
MutantAnySlots(cards) == DOMAIN cards

BlankSlots(cards) == {i \in DOMAIN cards : cards[i].text = Blank}
FirstOf(indices) == CHOOSE i \in indices : \A j \in indices : i <= j

(* A generated text goes to the first blank card of its Type, or to a new  *)
(* card after them.                                                        *)
Fill(cards, text) ==
  LET card == [text |-> text, edited |-> FALSE]
  IN IF BlankSlots(cards) = {}
     THEN Append(cards, card)
     ELSE [cards EXCEPT ![FirstOf(BlankSlots(cards))] = card]

ApplyGenerated(content, result) ==
  [content EXCEPT
     !.sense = result.sense,
     !.cards = [t \in Types |->
       IF t \in DOMAIN result.texts THEN Fill(@[t], result.texts[t]) ELSE @[t]]]

(* The action that sent request `revision`, looked for in undo and then in *)
(* redo.                                                                   *)
Requesters(d, revision) ==
  {i \in DOMAIN (d.undo \o d.redo) : (d.undo \o d.redo)[i].requestRevision = revision}

SetAction(d, i, action) ==
  IF i <= Len(d.undo)
  THEN [d EXCEPT !.undo[i] = action]
  ELSE [d EXCEPT !.redo[i - Len(d.undo)] = action]

(* A result is kept with its action; it enters the draft only when its     *)
(* request is the active one and the draft still has the request's inputs. *)
ReceiveGeneration(d, revision, result) ==
  IF Requesters(d, revision) = {} THEN d
  ELSE LET i == FirstOf(Requesters(d, revision))
           action == [(d.undo \o d.redo)[i] EXCEPT !.generated = result]
           content == ApplyGenerated(d.content, result)
       IN IF d.activeRevision = revision /\ GenerationMatches(d, action)
          THEN SetAction([d EXCEPT !.content = content, !.activeRevision = None], i,
                         [action EXCEPT !.after = content,
                                        !.afterHasGenerated = TRUE,
                                        !.resultApplied = TRUE])
          ELSE SetAction(d, i, action)

-----------------------------------------------------------------------------
(* History. *)

Top(stack) == stack[Len(stack)]
Pop(stack) == SubSeq(stack, 1, Len(stack) - 1)

(* Mutant: what was typed after the action is not remembered. *)
MutantForgetsAfter(d, action) == action

(* The popped action remembers the draft it leaves, unless its own result  *)
(* is known to be in `after` and was not shown.                            *)
Undone(d, action) ==
  IF ~action.afterHasGenerated \/ action.resultApplied
  THEN [action EXCEPT !.after = Snapshot(d), !.afterHasGenerated = action.resultApplied]
  ELSE action

UndoDraft(d) ==
  IF d.undo = <<>> THEN d
  ELSE LET action == Undone(d, Top(d.undo))
       IN [Invalidated(Restore(d, action.before)) EXCEPT
             !.undo = Pop(@), !.redo = Append(@, action)]

(* Redo shows a result that arrived meanwhile, or waits for it again, when *)
(* the restored draft has the request's inputs.                            *)
RedoDraft(d) ==
  IF d.redo = <<>> THEN d
  ELSE LET action == Top(d.redo)
           restored == Restore(d, action.after)
           matches == GenerationMatches(restored, action)
           reuse == action.generated # None /\ ~action.afterHasGenerated /\ matches
           content == IF reuse THEN ApplyGenerated(action.after, action.generated)
                      ELSE action.after
           shown == action.afterHasGenerated \/ reuse
       IN [Restore(d, content) EXCEPT
             !.generationRevision = @ + 1,
             !.activeRevision = IF action.generated = None /\ matches
                                THEN action.requestRevision ELSE None,
             !.redo = Pop(@),
             !.undo = Append(@, [action EXCEPT !.after = content,
                                               !.afterHasGenerated = shown,
                                               !.resultApplied = shown])]

-----------------------------------------------------------------------------
(* Edits.  changeText() is given the new content; an edit that is          *)
(* remembered becomes an undo action without a request.                    *)

EditAction(before, after) ==
  [before |-> before, after |-> after, requestRevision |-> None,
   requestInputs |-> None, generated |-> None,
   resultApplied |-> FALSE, afterHasGenerated |-> FALSE]

ChangeText(d, content, remember) ==
  [Invalidated(d) EXCEPT
     !.content = content,
     !.redo = <<>>,
     !.undo = IF remember THEN Append(@, EditAction(Snapshot(d), content)) ELSE @]

WithText(content, field, text) == [content EXCEPT ![field] = text]
WithCardText(content, type, i, text) ==
  [content EXCEPT !.cards[type][i] = [text |-> text, edited |-> TRUE]]

(* The "+ Type" buttons: a new empty card, outside the history. *)
CardAdded(d, type) == [d EXCEPT !.content.cards[type] = Append(@, EmptyCard)]

-----------------------------------------------------------------------------
(* Saving. *)

Kinds == {"entry", "sense", "sense-all"}

FilledCards(content) ==
  UNION {{<<t, i>> : i \in {j \in DOMAIN content.cards[t] :
                             content.cards[t][j].text # Blank}} : t \in Types}

(* What a Save submits besides the Entry: whether it has a captured        *)
(* Description, and its typed Descriptions.                                *)
Payload == [kind: Kinds, captured: BOOLEAN, descriptions: SUBSET (Types \X Nat)]

SavePayload(d, kind) ==
  [kind |-> kind, captured |-> d.content.captured # Blank,
   descriptions |-> IF kind = "entry" THEN {} ELSE FilledCards(d.content)]

(* A receipt has the Sense's ID, the captured Description's ID and one ID  *)
(* for each typed Description that was saved.                              *)
Receipt == [sense: BOOLEAN, captured: BOOLEAN, descriptions: SUBSET (Types \X Nat)]

ReceiptOf(payload) ==
  [sense |-> payload.kind # "entry",
   captured |-> payload.captured /\ payload.kind # "sense",
   descriptions |-> payload.descriptions]

(* Mutant: every Save is taken to save a Sense. *)
MutantNeedsSense(receipt, payload) ==
  /\ receipt.captured = (payload.captured /\ payload.kind # "sense")
  /\ receipt.sense
  /\ Cardinality(receipt.descriptions) = Cardinality(payload.descriptions)

ValidSaveReceipt(receipt, payload) ==
  /\ receipt.captured = (payload.captured /\ payload.kind # "sense")
  /\ receipt.sense = (payload.kind # "entry")
  /\ Cardinality(receipt.descriptions) = Cardinality(payload.descriptions)
=============================================================================

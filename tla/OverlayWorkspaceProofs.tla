------------------------ MODULE OverlayWorkspaceProofs ------------------------
(* Theorems about OverlayDraft, and about OverlayWorkspace which extends   *)
(* it, for every value of their constants.                                 *)
EXTENDS OverlayWorkspace, SequenceTheorems, WellFoundedInduction, TLAPS

-----------------------------------------------------------------------------
(* The draft and its requests. *)

(* FirstOf finds an element of every non-empty set of naturals. *)
LEMMA FirstOfMember ==
  ASSUME NEW indices \in SUBSET Nat, indices # {}
  PROVE  FirstOf(indices) \in indices
<1> DEFINE R == OpToRel(<, Nat)
<1>1. IsWellFoundedOn(R, Nat)
  BY NatLessThanWellFounded
<1>2. PICK x \in indices : \A y \in indices : ~ (<<y, x>> \in R)
  <2> HIDE DEF R
  <2> QED BY <1>1, WFMin, Zenon
<1>3. ASSUME NEW y \in indices PROVE x <= y
  <2>1. <<y, x>> \notin R
    BY <1>2
  <2>2. R = {ss \in Nat \X Nat : ss[1] < ss[2]}
    BY DEF OpToRel
  <2>3. <<y, x>> \in R <=> y < x
    BY <2>2
  <2>4. x \in Nat /\ y \in Nat /\ ~(y < x)
    BY <2>1, <2>3
  <2> HIDE DEF R
  <2> QED BY <2>4
<1> QED
  BY <1>3 DEF FirstOf

(* The fields of a content have the types the handlers assign. *)
LEMMA ContentFields ==
  ASSUME NEW c \in Content
  PROVE  /\ c.entry \in Texts /\ c.captured \in Texts
         /\ c.instruction \in Texts /\ c.sense \in Texts
         /\ c.cards \in [Types -> Seq(Card)]
BY DEF Content

(* The fields of a draft have the types the handlers assign. *)
LEMMA DraftFields ==
  ASSUME NEW d \in Draft
  PROVE  /\ d.content \in Content /\ d.selectedTypes \in SUBSET Types
         /\ d.generationRevision \in Nat /\ d.modelRevision \in Nat
         /\ d.activeRevision \in Nat \cup {None}
         /\ d.undo \in Seq(Action) /\ d.redo \in Seq(Action)
BY DEF Draft

(* A blank card is a card. *)
LEMMA EmptyCardType == EmptyCard \in Card
BY BlankAssumption DEF EmptyCard, Card

(* newOverlayState() returns a draft. *)
LEMMA NewDraftType == NewDraft \in Draft
<1>1. <<EmptyCard>> \in Seq(Card)
  BY EmptyCardType
<1>2. NewDraft.content \in Content
  BY <1>1, BlankAssumption, SMTT(20) DEF NewDraft, Content
<1> QED
  BY <1>2, TypesAssumption DEF NewDraft, Draft

(* modelChanged() returns a draft. *)
LEMMA ModelChangedType ==
  ASSUME NEW d \in Draft
  PROVE  ModelChanged(d) \in Draft /\ Invalidated(d) \in Draft
<1>1. d.generationRevision + 1 \in Nat /\ d.modelRevision + 1 \in Nat
  BY DraftFields
<1>2. Invalidated(d) \in Draft /\ Invalidated(d).modelRevision = d.modelRevision
  BY <1>1 DEF Invalidated, Draft
<1> QED
  BY <1>1, <1>2 DEF ModelChanged, Draft

(* Switching a Type on or off gives a draft. *)
LEMMA TypeToggledType ==
  ASSUME NEW d \in Draft, NEW type \in Types
  PROVE  TypeToggled(d, type) \in Draft
<1> DEFINE checked == Invalidated(d).selectedTypes
<1>1. Invalidated(d) \in Draft
  BY ModelChangedType
<1>2. (IF type \in checked THEN checked \ {type} ELSE checked \cup {type}) \in SUBSET Types
  BY <1>1, DraftFields
<1> QED
  BY <1>1, <1>2 DEF TypeToggled, Draft

(* generationInputs() returns the inputs of a request. *)
LEMMA GenerationInputsType ==
  ASSUME NEW d \in Draft
  PROVE  GenerationInputs(d) \in Inputs
<1> DEFINE texts == [t \in Types |->
      [i \in DOMAIN d.content.cards[t] |-> d.content.cards[t][i].text]]
<1>1. ASSUME NEW t \in Types PROVE texts[t] \in Seq(Texts)
  <2>1. d.content.cards[t] \in Seq(Card)
    BY DraftFields, ContentFields
  <2>2. ASSUME NEW i \in 1..Len(d.content.cards[t])
        PROVE  d.content.cards[t][i].text \in Texts
    <3>1. d.content.cards[t][i] \in Card
      BY <2>1, ElementOfSeq
    <3> QED BY <3>1 DEF Card
  <2>3. texts[t] = [i \in 1..Len(d.content.cards[t]) |-> d.content.cards[t][i].text]
    BY <2>1
  <2> QED BY <2>1, <2>2, <2>3, IsASeq
<1>2. texts \in [Types -> Seq(Texts)]
  BY <1>1
<1> QED
  BY <1>2, DraftFields, ContentFields DEF GenerationInputs, Inputs

(* An edit is an action of the history. *)
LEMMA EditActionType ==
  ASSUME NEW before \in Content, NEW after \in Content
  PROVE  EditAction(before, after) \in Action
BY DEF EditAction, Action

(* changeText() returns a draft. *)
LEMMA ChangeTextType ==
  ASSUME NEW d \in Draft, NEW content \in Content, NEW remember \in BOOLEAN
  PROVE  ChangeText(d, content, remember) \in Draft
<1>1. EditAction(Snapshot(d), content) \in Action
  BY EditActionType, DraftFields DEF Snapshot
<1>2. Append(d.undo, EditAction(Snapshot(d), content)) \in Seq(Action)
  BY <1>1, DraftFields, AppendProperties
<1>3. Invalidated(d) \in Draft /\ Invalidated(d).undo = d.undo
  BY ModelChangedType DEF Invalidated, Draft
<1>4. <<>> \in Seq(Action) /\ d.undo \in Seq(Action)
  BY DraftFields
<1> QED
  BY <1>2, <1>3, <1>4 DEF ChangeText, Draft

(* Making a request the active one gives a draft. *)
LEMMA RequestedType ==
  ASSUME NEW d \in Draft, NEW content \in Content
  PROVE  Requested(d, content) \in Draft
<1> DEFINE next == [d EXCEPT !.content = content,
                        !.generationRevision = @ + 1,
                        !.activeRevision = d.generationRevision + 1,
                        !.redo = <<>>]
<1>0. d.generationRevision + 1 \in Nat /\ <<>> \in Seq(Action)
  BY DraftFields
<1>1. next \in Draft
  BY <1>0 DEF Draft
<1>2. RequestAction(Snapshot(d), next) \in Action
  BY <1>1, DraftFields, GenerationInputsType DEF RequestAction, Action, Snapshot
<1>3. Append(next.undo, RequestAction(Snapshot(d), next)) \in Seq(Action)
  BY <1>1, <1>2, DraftFields, AppendProperties
<1> QED
  BY <1>1, <1>3 DEF Requested, Draft

-----------------------------------------------------------------------------
(* Results and history. *)

LEMMA FillType ==
  ASSUME NEW cards \in Seq(Card), NEW text \in Texts
  PROVE  Fill(cards, text) \in Seq(Card)
<1> DEFINE card == [text |-> text, edited |-> FALSE]
<1>1. card \in Card
  BY DEF Card
<1>2. Append(cards, card) \in Seq(Card)
  BY <1>1, AppendProperties
<1>3. ASSUME NEW i PROVE [cards EXCEPT ![i] = card] \in Seq(Card)
  <2>1. CASE i \in 1..Len(cards)
    BY <1>1, <2>1, ExceptSeq
  <2>2. CASE i \notin 1..Len(cards)
    <3>1. [cards EXCEPT ![i] = card] = cards
      BY <2>2
    <3> QED BY <3>1
  <2> QED BY <2>1, <2>2
<1> QED
  BY <1>2, <1>3 DEF Fill

(* applyGenerated() returns a content. *)
LEMMA ApplyGeneratedType ==
  ASSUME NEW content \in Content, NEW result \in Results
  PROVE  ApplyGenerated(content, result) \in Content
<1> DEFINE cards == [t \in Types |->
      IF t \in DOMAIN result.texts THEN Fill(content.cards[t], result.texts[t])
      ELSE content.cards[t]]
<1>1. PICK types \in SUBSET Types : result \in Result(types)
  BY DEF Results
<1>2. result.sense \in Texts /\ result.texts \in [types -> Texts \ {Blank}]
  BY <1>1 DEF Result
<1>3. ASSUME NEW t \in Types PROVE cards[t] \in Seq(Card)
  <2>1. content.cards[t] \in Seq(Card)
    BY ContentFields
  <2>2. t \in DOMAIN result.texts => result.texts[t] \in Texts
    BY <1>2
  <2> QED BY <2>1, <2>2, FillType
<1>4. cards \in [Types -> Seq(Card)]
  BY <1>3
<1> HIDE DEF cards
<1>5. [content EXCEPT !.sense = result.sense, !.cards = cards] \in Content
  BY <1>2, <1>4 DEF Content
<1> QED
  BY <1>5 DEF ApplyGenerated, cards

(* The fields of an action have the types undo() and redo() rely on. *)
LEMMA ActionFields ==
  ASSUME NEW action \in Action
  PROVE  /\ action.before \in Content /\ action.after \in Content
         /\ action.requestRevision \in Nat \cup {None}
         /\ action.requestInputs \in Inputs \cup {None}
         /\ action.generated \in Results \cup {None}
         /\ action.resultApplied \in BOOLEAN /\ action.afterHasGenerated \in BOOLEAN
BY DEF Action

(* Pop drops the last element of a stack and keeps the others. *)
LEMMA TopPopType ==
  ASSUME NEW S, NEW stack \in Seq(S), stack # <<>>
  PROVE  /\ Top(stack) \in S /\ Pop(stack) \in Seq(S)
         /\ Len(Pop(stack)) = Len(stack) - 1
         /\ \A i \in 1..Len(stack) - 1 : Pop(stack)[i] = stack[i]
<1>1. Len(stack) \in Nat /\ Len(stack) > 0
  BY EmptySeq
<1>2. Len(stack) \in 1..Len(stack) /\ Len(stack) - 1 \in 0..Len(stack) /\ 1 \in 1..Len(stack) + 1
  BY <1>1
<1>3. Top(stack) \in S
  BY <1>2, ElementOfSeq DEF Top
<1>4. SubSeq(stack, 1, Len(stack) - 1) \in Seq(S)
  BY <1>1
<1>5. \A i \in 1..Len(stack) - 1 : SubSeq(stack, 1, Len(stack) - 1)[i] = stack[i]
  OBVIOUS
<1>6. Len(SubSeq(stack, 1, Len(stack) - 1)) = Len(stack) - 1
  <2> DEFINE n == Len(stack) - 1
  <2>1. n \in Nat /\ n <= Len(stack)
    BY <1>1
  <2> HIDE DEF n
  <2>2. Len(SubSeq(stack, 1, n)) = n
    BY <2>1
  <2> QED BY <2>1, <2>2 DEF n
<1> QED
  BY <1>3, <1>4, <1>5, <1>6 DEF Pop

(* Restoring an earlier content gives a draft. *)
LEMMA RestoreType ==
  ASSUME NEW d \in Draft, NEW content \in Content
  PROVE  Restore(d, content) \in Draft
BY DEF Restore, Draft

(* An undone action is still an action. *)
LEMMA UndoneType ==
  ASSUME NEW d \in Draft, NEW action \in Action
  PROVE  Undone(d, action) \in Action
BY DraftFields, ActionFields DEF Undone, Snapshot, Action

(* undo() returns a draft. *)
LEMMA UndoDraftType ==
  ASSUME NEW d \in Draft
  PROVE  UndoDraft(d) \in Draft
<1>1. CASE d.undo = <<>>
  BY <1>1 DEF UndoDraft
<1>2. CASE d.undo # <<>>
  <2> DEFINE action == Undone(d, Top(d.undo))
             base == Invalidated(Restore(d, action.before))
  <2>1. action \in Action /\ Pop(d.undo) \in Seq(Action)
    BY <1>2, DraftFields, TopPopType, UndoneType
  <2>2. base \in Draft /\ base.undo = d.undo /\ base.redo = d.redo
    <3>1. Restore(d, action.before) \in Draft
      BY <2>1, ActionFields, RestoreType
    <3>2. base \in Draft
      BY <3>1, ModelChangedType
    <3> QED BY <3>1, <3>2 DEF Restore, Invalidated, Draft
  <2>3. Append(d.redo, action) \in Seq(Action)
    BY <2>1, DraftFields, AppendProperties
  <2> HIDE DEF action, base
  <2>4. [base EXCEPT !.undo = Pop(@), !.redo = Append(@, action)] \in Draft
    BY <2>1, <2>2, <2>3 DEF Draft
  <2> QED BY <1>2, <2>4 DEF UndoDraft, action, base
<1> QED BY <1>1, <1>2

(* redo() returns a draft. *)
LEMMA RedoDraftType ==
  ASSUME NEW d \in Draft
  PROVE  RedoDraft(d) \in Draft
<1>1. CASE d.redo = <<>>
  BY <1>1 DEF RedoDraft
<1>2. CASE d.redo # <<>>
  <2> DEFINE action == Top(d.redo)
             restored == Restore(d, action.after)
             matches == GenerationMatches(restored, action)
             reuse == action.generated # None /\ ~action.afterHasGenerated /\ matches
             content == IF reuse THEN ApplyGenerated(action.after, action.generated)
                        ELSE action.after
             shown == action.afterHasGenerated \/ reuse
             active == IF action.generated = None /\ matches
                       THEN action.requestRevision ELSE None
             next == [action EXCEPT !.after = content, !.afterHasGenerated = shown,
                                    !.resultApplied = shown]
  <2>1. action \in Action /\ Pop(d.redo) \in Seq(Action)
    BY <1>2, DraftFields, TopPopType
  <2>2. content \in Content
    BY <2>1, ActionFields, ApplyGeneratedType
  <2>3. shown \in BOOLEAN
    BY <2>1, ActionFields
  <2>4. active \in Nat \cup {None}
    BY <2>1, ActionFields
  <2>5. next \in Action
    <3> HIDE DEF content, shown
    <3> QED BY <2>1, <2>2, <2>3 DEF Action
  <2>6. Append(d.undo, next) \in Seq(Action)
    BY <2>5, DraftFields, AppendProperties
  <2> DEFINE shows == Restore(d, content)
  <2>7. /\ shows \in Draft /\ shows.undo = d.undo /\ shows.redo = d.redo
        /\ shows.generationRevision = d.generationRevision
    BY <2>2, RestoreType DEF Restore, Draft
  <2>8. d.generationRevision + 1 \in Nat
    BY DraftFields
  <2> HIDE DEF next, active, shows
  <2>9. [shows EXCEPT !.generationRevision = @ + 1, !.activeRevision = active,
                      !.redo = Pop(@), !.undo = Append(@, next)] \in Draft
    BY <2>1, <2>4, <2>6, <2>7, <2>8 DEF Draft
  <2> QED BY <1>2, <2>9 DEF RedoDraft, next, active, shows
<1> QED BY <1>1, <1>2

(* The indices of two histories side by side. *)
LEMMA ConcatDomain ==
  ASSUME NEW S, NEW s1 \in Seq(S), NEW s2 \in Seq(S)
  PROVE  DOMAIN (s1 \o s2) = 1..Len(s1) + Len(s2)
OBVIOUS

(* An index past the first history is one of the second. *)
LEMMA Shifted ==
  ASSUME NEW m \in Nat, NEW n \in Nat, NEW i \in 1..m + n, ~ (i <= m)
  PROVE  i - m \in 1..n
OBVIOUS

(* Replacing one action of the histories gives a draft. *)
LEMMA SetActionType ==
  ASSUME NEW d \in Draft, NEW i \in DOMAIN (d.undo \o d.redo), NEW action \in Action
  PROVE  SetAction(d, i, action) \in Draft
<1>0. /\ d.undo \in Seq(Action) /\ d.redo \in Seq(Action)
      /\ Len(d.undo) \in Nat /\ Len(d.redo) \in Nat
  BY DraftFields
<1>1. i \in 1..Len(d.undo) + Len(d.redo)
  BY <1>0, ConcatDomain
<1>2. CASE i <= Len(d.undo)
  <2>1. i \in 1..Len(d.undo)
    BY <1>0, <1>1, <1>2
  <2>2. [d.undo EXCEPT ![i] = action] \in Seq(Action)
    BY <1>0, <2>1, ExceptSeq
  <2> QED BY <1>2, <2>2 DEF SetAction, Draft
<1>3. CASE ~ (i <= Len(d.undo))
  <2>1. i - Len(d.undo) \in 1..Len(d.redo)
    BY <1>0, <1>1, <1>3, Shifted
  <2>2. [d.redo EXCEPT ![i - Len(d.undo)] = action] \in Seq(Action)
    BY <1>0, <2>1, ExceptSeq
  <2> QED BY <1>3, <2>2 DEF SetAction, Draft
<1> QED BY <1>2, <1>3

(* receiveGeneration() returns a draft. *)
LEMMA ReceiveGenerationType ==
  ASSUME NEW d \in Draft, NEW revision, NEW result \in Results
  PROVE  ReceiveGeneration(d, revision, result) \in Draft
<1> DEFINE requesters == Requesters(d, revision)
           i == FirstOf(requesters)
           found == (d.undo \o d.redo)[i]
           action == [found EXCEPT !.generated = result]
           content == ApplyGenerated(d.content, result)
           shown == [action EXCEPT !.after = content, !.afterHasGenerated = TRUE,
                                   !.resultApplied = TRUE]
           base == [d EXCEPT !.content = content, !.activeRevision = None]
<1>1. CASE requesters = {}
  BY <1>1 DEF ReceiveGeneration
<1>2. CASE requesters # {}
  <2>1. /\ d.undo \o d.redo \in Seq(Action)
        /\ DOMAIN (d.undo \o d.redo) = 1..Len(d.undo \o d.redo)
    BY DraftFields, ConcatProperties, LenProperties
  <2>2. requesters \in SUBSET Nat
    <3>1. \A j \in 1..Len(d.undo \o d.redo) : j \in Nat
      BY <2>1
    <3>2. requesters \subseteq DOMAIN (d.undo \o d.redo)
      BY DEF Requesters
    <3> QED BY <2>1, <3>1, <3>2
  <2>3. i \in DOMAIN (d.undo \o d.redo)
    BY <1>2, <2>2, FirstOfMember DEF Requesters
  <2>4. found \in Action
    BY <2>1, <2>3, ElementOfSeq
  <2>5. content \in Content
    BY DraftFields, ApplyGeneratedType
  <2> HIDE DEF i, content, requesters
  <2>6. action \in Action
    BY <2>4 DEF Action
  <2>7. shown \in Action
    BY <2>5, <2>6 DEF Action
  <2>8. base \in Draft /\ base.undo = d.undo /\ base.redo = d.redo
    BY <2>5 DEF Draft
  <2> HIDE DEF found, action, shown, base
  <2>9. SetAction(base, i, shown) \in Draft /\ SetAction(d, i, action) \in Draft
    BY <2>3, <2>6, <2>7, <2>8, SetActionType
  <2> QED
    BY <1>2, <2>9 DEF ReceiveGeneration, requesters, i, found, action, content, shown, base
<1> QED BY <1>1, <1>2

-----------------------------------------------------------------------------
(* The request a draft waits for is the one on top of its undo stack.      *)

ActiveOnTop(d) ==
  d.activeRevision # None =>
    d.undo # <<>> /\ Top(d.undo).requestRevision = d.activeRevision

(* Without an active request there is nothing to find on top. *)
LEMMA InactiveOnTop ==
  ASSUME NEW d \in Draft, d.activeRevision = None
  PROVE  ActiveOnTop(d)
BY DEF ActiveOnTop

(* What was pushed last is on top. *)
LEMMA TopAppend ==
  ASSUME NEW S, NEW stack \in Seq(S), NEW e \in S
  PROVE  Append(stack, e) # <<>> /\ Top(Append(stack, e)) = e
BY AppendProperties DEF Top

(* An edit ends the active request. *)
LEMMA EditOnTop ==
  ASSUME NEW d \in Draft, NEW content \in Content, NEW remember \in BOOLEAN
  PROVE  ActiveOnTop(ChangeText(d, content, remember))
<1>1. Invalidated(d) \in Draft /\ Invalidated(d).activeRevision = None
  BY ModelChangedType DEF Invalidated, Draft
<1>2. ChangeText(d, content, remember).activeRevision = None
  BY <1>1 DEF ChangeText, Draft
<1> QED BY <1>2, ChangeTextType, InactiveOnTop

(* Choosing Types or a Model ends the active request. *)
LEMMA ToggleOnTop ==
  ASSUME NEW d \in Draft, NEW type \in Types
  PROVE  ActiveOnTop(TypeToggled(d, type)) /\ ActiveOnTop(ModelChanged(d))
<1>1. Invalidated(d) \in Draft /\ Invalidated(d).activeRevision = None
  BY ModelChangedType DEF Invalidated, Draft
<1>2. TypeToggled(d, type).activeRevision = None /\ ModelChanged(d).activeRevision = None
  BY <1>1 DEF TypeToggled, ModelChanged, Draft
<1> QED BY <1>2, TypeToggledType, ModelChangedType, InactiveOnTop

(* The action of a request made active is pushed with it. *)
LEMMA RequestedOnTop ==
  ASSUME NEW d \in Draft, NEW content \in Content
  PROVE  /\ ActiveOnTop(Requested(d, content))
         /\ Requested(d, content).activeRevision = d.generationRevision + 1
         /\ Requested(d, content).generationRevision = d.generationRevision + 1
         /\ Requested(d, content).content = content
         /\ Requested(d, content).selectedTypes = d.selectedTypes
         /\ Requested(d, content).redo = <<>>
<1> DEFINE next == [d EXCEPT !.content = content,
                        !.generationRevision = @ + 1,
                        !.activeRevision = d.generationRevision + 1,
                        !.redo = <<>>]
           action == RequestAction(Snapshot(d), next)
<1>0. d.generationRevision + 1 \in Nat /\ <<>> \in Seq(Action)
  BY DraftFields
<1>1. /\ next \in Draft /\ next.undo = d.undo /\ next.redo = <<>>
      /\ next.activeRevision = d.generationRevision + 1
      /\ next.generationRevision = d.generationRevision + 1
      /\ next.content = content /\ next.selectedTypes = d.selectedTypes
  BY <1>0 DEF Draft
<1>2. action \in Action
  BY <1>1, DraftFields, GenerationInputsType DEF RequestAction, Action, Snapshot
<1>3. action.requestRevision = d.generationRevision + 1
  BY <1>1 DEF RequestAction
<1> HIDE DEF next, action
<1>4. Append(d.undo, action) \in Seq(Action)
  BY <1>2, DraftFields, AppendProperties
<1>5. Requested(d, content) = [next EXCEPT !.undo = Append(@, action)]
  BY DEF Requested, next, action
<1>6. /\ Requested(d, content).undo = Append(d.undo, action)
      /\ Requested(d, content).activeRevision = d.generationRevision + 1
      /\ Requested(d, content).generationRevision = d.generationRevision + 1
      /\ Requested(d, content).content = content
      /\ Requested(d, content).selectedTypes = d.selectedTypes
      /\ Requested(d, content).redo = <<>>
  BY <1>1, <1>5 DEF Draft
<1>7. Append(d.undo, action) # <<>> /\ Top(Append(d.undo, action)) = action
  BY <1>2, DraftFields, TopAppend
<1> QED BY <1>3, <1>6, <1>7 DEF ActiveOnTop

(* undo() leaves the active request on top, or none. *)
LEMMA UndoOnTop ==
  ASSUME NEW d \in Draft, ActiveOnTop(d)
  PROVE  ActiveOnTop(UndoDraft(d))
<1>1. CASE d.undo = <<>>
  BY <1>1 DEF UndoDraft
<1>2. CASE d.undo # <<>>
  <2> DEFINE action == Undone(d, Top(d.undo))
             base == Invalidated(Restore(d, action.before))
  <2>1. action \in Action
    BY <1>2, DraftFields, TopPopType, UndoneType
  <2>2. Restore(d, action.before) \in Draft
    BY <2>1, ActionFields, RestoreType
  <2>3. base \in Draft /\ base.activeRevision = None
    BY <2>2, ModelChangedType DEF Invalidated, Draft
  <2> HIDE DEF action, base
  <2>4. UndoDraft(d) = [base EXCEPT !.undo = Pop(@), !.redo = Append(@, action)]
    BY <1>2 DEF UndoDraft, action, base
  <2>5. UndoDraft(d).activeRevision = None
    BY <2>3, <2>4 DEF Draft
  <2> QED BY <2>5 DEF ActiveOnTop
<1> QED BY <1>1, <1>2

(* redo() leaves the active request on top, or none. *)
LEMMA RedoOnTop ==
  ASSUME NEW d \in Draft, ActiveOnTop(d)
  PROVE  ActiveOnTop(RedoDraft(d))
<1>1. CASE d.redo = <<>>
  BY <1>1 DEF RedoDraft
<1>2. CASE d.redo # <<>>
  <2> DEFINE action == Top(d.redo)
             restored == Restore(d, action.after)
             matches == GenerationMatches(restored, action)
             reuse == action.generated # None /\ ~action.afterHasGenerated /\ matches
             content == IF reuse THEN ApplyGenerated(action.after, action.generated)
                        ELSE action.after
             shown == action.afterHasGenerated \/ reuse
             active == IF action.generated = None /\ matches
                       THEN action.requestRevision ELSE None
             next == [action EXCEPT !.after = content, !.afterHasGenerated = shown,
                                    !.resultApplied = shown]
             shows == Restore(d, content)
  <2>1. action \in Action
    BY <1>2, DraftFields, TopPopType
  <2>2. content \in Content /\ shown \in BOOLEAN
    BY <2>1, ActionFields, ApplyGeneratedType
  <2>3. next \in Action /\ next.requestRevision = action.requestRevision
    <3> HIDE DEF content, shown, action
    <3> QED BY <2>1, <2>2 DEF Action
  <2>4. shows \in Draft /\ shows.undo = d.undo
    BY <2>2, RestoreType DEF Restore, Draft
  <2>5. Append(d.undo, next) # <<>> /\ Top(Append(d.undo, next)) = next
    BY <2>3, DraftFields, TopAppend
  <2>6. active # None => active = action.requestRevision
    OBVIOUS
  <2> HIDE DEF next, active, shows, action
  <2>7. RedoDraft(d) =
          [shows EXCEPT !.generationRevision = @ + 1, !.activeRevision = active,
                        !.redo = Pop(@), !.undo = Append(@, next)]
    BY <1>2 DEF RedoDraft, next, active, shows, action
  <2>8. RedoDraft(d).activeRevision = active /\ RedoDraft(d).undo = Append(d.undo, next)
    BY <2>4, <2>7 DEF Draft
  <2> QED BY <2>3, <2>5, <2>6, <2>8 DEF ActiveOnTop
<1> QED BY <1>1, <1>2

(* A result changes no request's revision, so the top stays the top.       *)
LEMMA SetActionOnTop ==
  ASSUME NEW d \in Draft, NEW i \in DOMAIN (d.undo \o d.redo), NEW action \in Action,
         action.requestRevision = (d.undo \o d.redo)[i].requestRevision,
         ActiveOnTop(d)
  PROVE  ActiveOnTop(SetAction(d, i, action))
<1> DEFINE next == SetAction(d, i, action)
<1>0. d.undo \in Seq(Action) /\ d.redo \in Seq(Action) /\ Len(d.undo) \in Nat
  BY DraftFields
<1>1. CASE i <= Len(d.undo)
  <2>1. i \in 1..Len(d.undo) /\ (d.undo \o d.redo)[i] = d.undo[i]
    <3>1. i \in 1..Len(d.undo) + Len(d.redo)
      BY <1>0, ConcatDomain
    <3> QED BY <1>0, <1>1, <3>1
  <2>2. next.undo = [d.undo EXCEPT ![i] = action] /\ next.activeRevision = d.activeRevision
    BY <1>1 DEF SetAction, Draft
  <2>3. /\ [d.undo EXCEPT ![i] = action] \in Seq(Action)
        /\ Len([d.undo EXCEPT ![i] = action]) = Len(d.undo)
        /\ \A j \in 1..Len(d.undo) :
             [d.undo EXCEPT ![i] = action][j] = IF j = i THEN action ELSE d.undo[j]
    BY <1>0, <2>1, ExceptSeq
  <2> DEFINE stack == [d.undo EXCEPT ![i] = action]
  <2> HIDE DEF stack
  <2>4. d.undo # <<>> => stack # <<>> /\ Len(d.undo) \in 1..Len(d.undo)
    BY <1>0, <2>3, EmptySeq DEF stack
  <2>5. d.undo # <<>> => Top(stack).requestRevision = Top(d.undo).requestRevision
    BY <2>1, <2>3, <2>4 DEF Top, stack
  <2> QED BY <2>2, <2>4, <2>5 DEF ActiveOnTop, stack
<1>2. CASE ~ (i <= Len(d.undo))
  <2>1. next.undo = d.undo /\ next.activeRevision = d.activeRevision
    BY <1>2 DEF SetAction, Draft
  <2> QED BY <2>1 DEF ActiveOnTop
<1> QED BY <1>1, <1>2

(* A result leaves the active request on top. *)
LEMMA ReceiveOnTop ==
  ASSUME NEW d \in Draft, NEW revision, NEW result \in Results, ActiveOnTop(d)
  PROVE  ActiveOnTop(ReceiveGeneration(d, revision, result))
<1> DEFINE requesters == Requesters(d, revision)
           i == FirstOf(requesters)
           found == (d.undo \o d.redo)[i]
           action == [found EXCEPT !.generated = result]
           content == ApplyGenerated(d.content, result)
           shown == [action EXCEPT !.after = content, !.afterHasGenerated = TRUE,
                                   !.resultApplied = TRUE]
           base == [d EXCEPT !.content = content, !.activeRevision = None]
<1>1. CASE requesters = {}
  BY <1>1 DEF ReceiveGeneration
<1>2. CASE requesters # {}
  <2>1. /\ d.undo \o d.redo \in Seq(Action)
        /\ DOMAIN (d.undo \o d.redo) = 1..Len(d.undo \o d.redo)
    BY DraftFields, ConcatProperties, LenProperties
  <2>2. requesters \in SUBSET Nat
    <3>1. \A j \in 1..Len(d.undo \o d.redo) : j \in Nat
      BY <2>1
    <3>2. requesters \subseteq DOMAIN (d.undo \o d.redo)
      BY DEF Requesters
    <3> QED BY <2>1, <3>1, <3>2
  <2>3. i \in DOMAIN (d.undo \o d.redo)
    BY <1>2, <2>2, FirstOfMember DEF Requesters
  <2>4. found \in Action
    BY <2>1, <2>3, ElementOfSeq
  <2>5. content \in Content
    BY DraftFields, ApplyGeneratedType
  <2> HIDE DEF i, content, requesters
  <2>6. action \in Action /\ action.requestRevision = found.requestRevision
    BY <2>4 DEF Action
  <2>7. shown \in Action /\ shown.requestRevision = found.requestRevision
    BY <2>5, <2>6 DEF Action
  <2>8. base \in Draft /\ base.undo = d.undo /\ base.redo = d.redo /\ ActiveOnTop(base)
    BY <2>5 DEF Draft, ActiveOnTop
  <2>9. found = (d.undo \o d.redo)[i]
    OBVIOUS
  <2> HIDE DEF found, action, shown, base
  <2>10. ActiveOnTop(SetAction(base, i, shown)) /\ ActiveOnTop(SetAction(d, i, action))
    BY <2>3, <2>6, <2>7, <2>8, <2>9, SetActionOnTop
  <2> QED
    BY <1>2, <2>10 DEF ReceiveGeneration, requesters, i, found, action, content, shown, base
<1> QED BY <1>1, <1>2

-----------------------------------------------------------------------------
(* The state machine. *)

LEMMA CardAddedType ==
  ASSUME NEW d \in Draft, NEW type \in Types
  PROVE  /\ CardAdded(d, type) \in Draft
         /\ ActiveOnTop(d) => ActiveOnTop(CardAdded(d, type))
<1> DEFINE cards == [d.content.cards EXCEPT ![type] = Append(@, EmptyCard)]
           content == [d.content EXCEPT !.cards = cards]
<1>1. d.content \in Content /\ d.content.cards \in [Types -> Seq(Card)]
  BY DraftFields, ContentFields
<1>2. Append(d.content.cards[type], EmptyCard) \in Seq(Card)
  BY <1>1, EmptyCardType, AppendProperties
<1>3. cards \in [Types -> Seq(Card)]
  BY <1>1, <1>2
<1>4. CardAdded(d, type) = [d EXCEPT !.content = content]
  BY <1>1 DEF CardAdded, Draft, Content
<1> HIDE DEF cards
<1>5. content \in Content
  BY <1>1, <1>3 DEF Content
<1> HIDE DEF content
<1> QED BY <1>4, <1>5 DEF Draft, ActiveOnTop

(* Changing a field gives a content. *)
LEMMA WithTextType ==
  ASSUME NEW content \in Content, NEW text \in Texts
  PROVE  \A field \in Fields : WithText(content, field, text) \in Content
BY DEF WithText, Content, Fields

(* Changing a card's text gives a content. *)
LEMMA WithCardTextType ==
  ASSUME NEW content \in Content, NEW text \in Texts, NEW type \in Types,
         NEW i \in DOMAIN content.cards[type]
  PROVE  WithCardText(content, type, i, text) \in Content
<1> DEFINE card == [text |-> text, edited |-> TRUE]
           stack == [content.cards[type] EXCEPT ![i] = card]
           cards == [content.cards EXCEPT ![type] = stack]
<1>1. content.cards \in [Types -> Seq(Card)] /\ card \in Card
  BY ContentFields DEF Card
<1>2. content.cards[type] \in Seq(Card) /\ i \in 1..Len(content.cards[type])
  BY <1>1
<1>3. stack \in Seq(Card)
  BY <1>1, <1>2, ExceptSeq
<1>4. cards \in [Types -> Seq(Card)]
  <2> HIDE DEF stack
  <2> QED BY <1>1, <1>3
<1>5. WithCardText(content, type, i, text) = [content EXCEPT !.cards = cards]
  BY <1>1 DEF WithCardText, Content
<1> HIDE DEF cards
<1> QED BY <1>4, <1>5 DEF Content

(* A local state read from disk gives a draft. *)
LEMMA AdoptedType ==
  ASSUME NEW d \in Draft, NEW value \in LocalStates
  PROVE  LET next == [d EXCEPT !.content.instruction = value.instruction,
                               !.selectedTypes = value.types]
         IN next \in Draft /\ (ActiveOnTop(d) => ActiveOnTop(next))
<1> DEFINE content == [d.content EXCEPT !.instruction = value.instruction]
           next == [d EXCEPT !.content = content, !.selectedTypes = value.types]
<1>1. value.instruction \in Texts /\ value.types \in SUBSET Types
  BY DEF LocalStates
<1>2. content \in Content
  BY <1>1, DraftFields DEF Content
<1>3. [d EXCEPT !.content.instruction = value.instruction, !.selectedTypes = value.types] = next
  BY DraftFields DEF Draft, Content
<1> HIDE DEF content
<1> QED BY <1>1, <1>2, <1>3 DEF Draft, ActiveOnTop
DraftInv == DraftTypeOK /\ ActiveRequestOnTop /\ LoadingIsAwaited

(* The invariant a run checks is ActiveOnTop of the draft. *)
LEMMA ActiveRequestIsActiveOnTop == ActiveRequestOnTop <=> ActiveOnTop(draft)
BY DEF ActiveRequestOnTop, ActiveOnTop

(* The inductive invariant holds of a new review. *)
LEMMA DraftInvInit == DraftInit => DraftInv
<1> SUFFICES ASSUME DraftInit PROVE DraftInv
  OBVIOUS
<1>1. draft \in Draft
  BY NewDraftType, ModelChangedType DEF DraftInit
<1>2. draft.activeRevision = None
  <2>1. NewDraft.activeRevision = None
    BY DEF NewDraft
  <2>2. ModelChanged(NewDraft).activeRevision = None
    <3>1. Invalidated(NewDraft) \in Draft /\ Invalidated(NewDraft).activeRevision = None
      BY NewDraftType, ModelChangedType DEF Invalidated, Draft
    <3> QED BY <3>1 DEF ModelChanged, Draft
  <2> QED BY <2>1, <2>2 DEF DraftInit
<1> QED
  BY <1>1, <1>2, ModelsAssumption
     DEF DraftInit, DraftInv, DraftTypeOK, ActiveRequestOnTop, LoadingIsAwaited

(* A change of the draft alone keeps the inductive invariant. *)
LEMMA DraftBecomesInv ==
  ASSUME DraftInv, NEW next \in Draft, ActiveOnTop(next), DraftBecomes(next)
  PROVE  DraftInv'
<1>1. ActiveOnTop(draft)'
  BY DEF DraftBecomes, ActiveOnTop
<1>2. DraftTypeOK' /\ LoadingIsAwaited'
  BY DEF DraftBecomes, DraftInv, DraftTypeOK, LoadingIsAwaited, generationVars, suggestionVars
<1> QED
  BY <1>1, <1>2 DEF DraftInv, ActiveRequestOnTop, ActiveOnTop

(* changeText() keeps the inductive invariant. *)
LEMMA ChangeInv ==
  ASSUME DraftInv, NEW content \in Content, NEW remember \in BOOLEAN, Change(content, remember)
  PROVE  DraftInv'
<1>1. draft \in Draft
  BY DEF DraftInv, DraftTypeOK
<1>2. ChangeText(draft, content, remember) \in Draft
  BY <1>1, ChangeTextType
<1>3. ActiveOnTop(ChangeText(draft, content, remember))
  BY <1>1, EditOnTop
<1> QED BY <1>2, <1>3, DraftBecomesInv DEF Change

(* Every edit of the user's keeps the inductive invariant. *)
LEMMA EditInv ==
  ASSUME DraftInv, DraftEdit
  PROVE  DraftInv'
<1>1. draft \in Draft /\ draft.content \in Content /\ ActiveOnTop(draft)
  BY DraftFields, ActiveRequestIsActiveOnTop DEF DraftInv, DraftTypeOK
<1>2. EditTexts \subseteq Texts /\ Blank \in Texts
  BY InputsAssumption, BlankAssumption
<1>3. ASSUME NEW field \in EditFields \cap Fields, ClearField(field)
      PROVE  DraftInv'
  BY <1>1, <1>2, <1>3, WithTextType, ChangeInv DEF ClearField
<1>4. ASSUME NEW field \in EditFields \cap Fields, NEW text \in EditTexts,
             EditField(field, text)
      PROVE  DraftInv'
  BY <1>1, <1>2, <1>4, WithTextType, ChangeInv DEF EditField
<1>5. ASSUME NEW text \in EditTexts, PickInstruction(text)
      PROVE  DraftInv'
  <2>1. "instruction" \in Fields
    BY DEF Fields
  <2> QED BY <1>1, <1>2, <1>5, <2>1, WithTextType, ChangeInv DEF PickInstruction
<1>6. ASSUME NEW t \in Types, NEW i \in DOMAIN draft.content.cards[t], ClearCard(t, i)
      PROVE  DraftInv'
  BY <1>1, <1>2, <1>6, WithCardTextType, ChangeInv DEF ClearCard
<1>7. ASSUME NEW t \in Types, NEW i \in DOMAIN draft.content.cards[t],
             NEW text \in EditTexts, EditCard(t, i, text)
      PROVE  DraftInv'
  BY <1>1, <1>2, <1>7, WithCardTextType, ChangeInv DEF EditCard
<1>8. ASSUME NEW t \in Types, AddCard(t)
      PROVE  DraftInv'
  BY <1>1, <1>8, CardAddedType, DraftBecomesInv DEF AddCard
<1>9. ASSUME NEW t \in Types, ToggleType(t)
      PROVE  DraftInv'
  BY <1>1, <1>9, TypeToggledType, ToggleOnTop, DraftBecomesInv DEF ToggleType
<1>10. ASSUME NEW model \in Models, PickModel(model)
       PROVE  DraftInv'
  <2>1. ModelChanged(draft) \in Draft /\ ActiveOnTop(ModelChanged(draft))
    <3>1. Invalidated(draft) \in Draft /\ Invalidated(draft).activeRevision = None
      BY <1>1, ModelChangedType DEF Invalidated, Draft
    <3>2. ModelChanged(draft).activeRevision = None
      BY <3>1 DEF ModelChanged, Draft
    <3> QED BY <1>1, <3>2, ModelChangedType, InactiveOnTop
  <2>2. DraftTypeOK' /\ LoadingIsAwaited'
    BY <1>10, <2>1 DEF PickModel, DraftInv, DraftTypeOK, LoadingIsAwaited
  <2>3. ActiveRequestOnTop'
    BY <1>10, <2>1 DEF PickModel, ActiveRequestOnTop, ActiveOnTop
  <2> QED BY <2>2, <2>3 DEF DraftInv
<1> QED
  BY <1>3, <1>4, <1>5, <1>6, <1>7, <1>8, <1>9, <1>10 DEF DraftEdit
(* Generate and ChooseSense prepare the content and request. *)
LEMMA RequestContents ==
  ASSUME NEW d \in Draft, NEW name \in Texts
  PROVE  /\ \E content \in Content : BeginGeneration(d) = Requested(d, content)
         /\ \E content \in Content : ChooseSense(d, name) = Requested(d, content)
<1>1. d.content \in Content /\ d.content.cards \in [Types -> Seq(Card)]
  BY DraftFields, ContentFields
<1> DEFINE emptied == [t \in Types |->
      IF t \in d.selectedTypes THEN [i \in DOMAIN d.content.cards[t] |-> EmptyCard]
      ELSE d.content.cards[t]]
           cleared == [t \in Types |-> [i \in DOMAIN d.content.cards[t] |->
      IF d.content.cards[t][i].edited THEN d.content.cards[t][i]
      ELSE [d.content.cards[t][i] EXCEPT !.text = Blank]]]
<1>2. ASSUME NEW t \in Types PROVE emptied[t] \in Seq(Card) /\ cleared[t] \in Seq(Card)
  <2>1. d.content.cards[t] \in Seq(Card) /\ Len(d.content.cards[t]) \in Nat
    BY <1>1
  <2> DEFINE n == Len(d.content.cards[t])
             Cleared(i) == IF d.content.cards[t][i].edited THEN d.content.cards[t][i]
                           ELSE [d.content.cards[t][i] EXCEPT !.text = Blank]
  <2>2. DOMAIN d.content.cards[t] = 1..n
    BY <2>1
  <2>3. ASSUME NEW i \in 1..n PROVE Cleared(i) \in Card
    <3>1. d.content.cards[t][i] \in Card
      BY <2>1, ElementOfSeq
    <3> QED BY <3>1, BlankAssumption DEF Card
  <2>4. [i \in 1..n |-> EmptyCard] \in Seq(Card)
    BY <2>1, EmptyCardType
  <2>5. [i \in 1..n |-> Cleared(i)] \in Seq(Card)
    <3> HIDE DEF Cleared
    <3> QED BY <2>1, <2>3
  <2> QED BY <2>1, <2>2, <2>4, <2>5
<1>3. emptied \in [Types -> Seq(Card)] /\ cleared \in [Types -> Seq(Card)]
  BY <1>2
<1>4. BeginGeneration(d) = Requested(d, [d.content EXCEPT !.cards = emptied])
  BY <1>1 DEF BeginGeneration, Content
<1>5. ChooseSense(d, name) = Requested(d, [d.content EXCEPT !.sense = name, !.cards = cleared])
  BY <1>1 DEF ChooseSense, Content
<1> HIDE DEF emptied, cleared
<1>6. /\ [d.content EXCEPT !.cards = emptied] \in Content
      /\ [d.content EXCEPT !.sense = name, !.cards = cleared] \in Content
  BY <1>1, <1>3 DEF Content
<1> QED BY <1>4, <1>5, <1>6

(* What generate sends is a request. *)
LEMMA RequestOfType ==
  ASSUME NEW d \in Draft, NEW model \in Models
  PROVE  RequestOf(d, model) \in RequestInputs
BY DraftFields, ContentFields DEF RequestOf, RequestInputs

(* Sending a request makes it the one whose reply is awaited. *)
LEMMA SendInv ==
  ASSUME DraftInv, NEW content \in Content, selectedModel \in Models,
         draft' = Requested(draft, content), SendGenerate(Requested(draft, content)),
         UNCHANGED <<selectedModel, suggestions, suggestionVars>>
  PROVE  DraftInv'
<1> DEFINE next == Requested(draft, content)
           request == [revision |-> next.activeRevision,
                       inputs |-> RequestOf(next, selectedModel)]
<1>1. draft \in Draft /\ draft.generationRevision + 1 \in Nat
  BY DraftFields DEF DraftInv, DraftTypeOK
<1>2. next \in Draft /\ ActiveOnTop(next) /\ next.activeRevision \in Nat
  BY <1>1, RequestedType, RequestedOnTop
<1>3. request \in Request
  BY <1>2, RequestOfType DEF Request
<1>4. /\ draft' = next /\ generationLoading' = TRUE
      /\ loadingGenerationRevision' = next.activeRevision
      /\ generating' = generating \cup {request}
      /\ request.revision = next.activeRevision
  BY DEF SendGenerate
<1> HIDE DEF next, request
<1>5. DraftTypeOK'
  BY <1>2, <1>3, <1>4 DEF DraftInv, DraftTypeOK, suggestionVars
<1>6. LoadingIsAwaited'
  BY <1>4 DEF DraftInv, LoadingIsAwaited, suggestionVars
<1>7. ActiveRequestOnTop'
  BY <1>2, <1>4 DEF ActiveRequestOnTop, ActiveOnTop
<1> QED BY <1>5, <1>6, <1>7 DEF DraftInv

(* Generate, Suggest and choosing a Sense keep the inductive invariant. *)
LEMMA RequestInv ==
  ASSUME DraftInv,
         Generate \/ Suggest \/ \E name \in SenseNames : ChooseSuggestion(name)
  PROVE  DraftInv'
<1>1. draft \in Draft /\ selectedModel \in Models \cup {None}
  BY DEF DraftInv, DraftTypeOK
<1>2. CASE Generate
  <2>1. PICK content \in Content : BeginGeneration(draft) = Requested(draft, content)
    BY <1>1, BlankAssumption, RequestContents
  <2>2. selectedModel \in Models
    BY <1>1, <1>2 DEF Generate, CanGenerate
  <2> QED BY <1>2, <2>1, <2>2, SendInv DEF Generate
<1>3. CASE Suggest
  <2> DEFINE request == [revision |-> draft.generationRevision,
                         inputs |-> RequestOf(draft, selectedModel)]
  <2>1. request \in Request
    BY <1>1, <1>3, DraftFields, RequestOfType DEF Request, Suggest
  <2>2. /\ suggesting' = suggesting \cup {request}
        /\ request.revision = draft.generationRevision
        /\ draft.generationRevision \in Nat
    BY <1>1, <1>3, DraftFields DEF Suggest
  <2> HIDE DEF request
  <2> QED
    BY <1>3, <2>1, <2>2
       DEF Suggest, DraftInv, DraftTypeOK, ActiveRequestOnTop, LoadingIsAwaited, generationVars
<1>4. ASSUME NEW name \in SenseNames, ChooseSuggestion(name)
      PROVE  DraftInv'
  <2>1. PICK content \in Content : ChooseSense(draft, name) = Requested(draft, content)
    BY <1>1, InputsAssumption, RequestContents
  <2>2. selectedModel \in Models
    BY <1>1, <1>4 DEF ChooseSuggestion
  <2>3. CASE CanGenerate(ChooseSense(draft, name))
    BY <1>4, <2>1, <2>2, <2>3, SendInv DEF ChooseSuggestion
  <2>4. CASE ~CanGenerate(ChooseSense(draft, name))
    <3>1. Requested(draft, content) \in Draft /\ ActiveOnTop(Requested(draft, content))
      BY <1>1, RequestedType, RequestedOnTop
    <3>2. DraftBecomes(Requested(draft, content))
      BY <1>4, <2>1, <2>4 DEF ChooseSuggestion, DraftBecomes
    <3> QED BY <3>1, <3>2, DraftBecomesInv
  <2> QED BY <2>3, <2>4
<1> QED BY <1>2, <1>3, <1>4

(* A reply keeps the inductive invariant. *)
LEMMA ReplyInv ==
  ASSUME DraftInv, DraftReply
  PROVE  DraftInv'
<1>1. draft \in Draft /\ ActiveOnTop(draft)
  BY ActiveRequestIsActiveOnTop DEF DraftInv, DraftTypeOK
<1>2. ASSUME NEW request \in generating, GenerateReplied(request),
             draft' \in Draft, ActiveOnTop(draft)'
      PROVE  DraftInv'
  <2>1. DraftTypeOK'
    BY <1>2 DEF GenerateReplied, DraftInv, DraftTypeOK, suggestionVars
  <2>2. LoadingIsAwaited'
    BY <1>2 DEF GenerateReplied, DraftInv, LoadingIsAwaited, suggestionVars
  <2> QED BY <1>2, <2>1, <2>2 DEF DraftInv, ActiveRequestOnTop, ActiveOnTop
<1>3. ASSUME NEW request \in generating, GenerateSucceeds(request)
      PROVE  DraftInv'
  <2>1. PICK sense \in SenseNames, texts \in [request.inputs.types -> EditTexts \ {Blank}] :
          /\ GenerateReplied(request)
          /\ draft' = ReceiveGeneration(draft, request.revision,
                                        [sense |-> sense, texts |-> texts])
    BY <1>3 DEF GenerateSucceeds
  <2>2. request.inputs.types \in SUBSET Types
    BY <1>3 DEF DraftInv, DraftTypeOK, Request, RequestInputs
  <2>3. texts \in [request.inputs.types -> Texts \ {Blank}] /\ sense \in Texts \ {Blank}
    BY InputsAssumption
  <2>4. [sense |-> sense, texts |-> texts] \in Results
    BY <2>2, <2>3 DEF Results, Result
  <2>5. draft' \in Draft
    BY <1>1, <2>1, <2>4, ReceiveGenerationType
  <2>6. ActiveOnTop(ReceiveGeneration(draft, request.revision, [sense |-> sense, texts |-> texts]))
    BY <1>1, <2>4, ReceiveOnTop
  <2>7. ActiveOnTop(draft)'
    BY <2>1, <2>6 DEF ActiveOnTop
  <2> QED BY <1>2, <2>1, <2>5, <2>7
<1>4. ASSUME NEW request \in generating, GenerateFails(request)
      PROVE  DraftInv'
  BY <1>1, <1>2, <1>4 DEF GenerateFails, ActiveOnTop
<1>5. ASSUME NEW request \in suggesting, SuggestAnswered(request)
      PROVE  DraftInv'
  <2>1. SuggestReplied(request) /\ (suggestions' \in SUBSET SenseNames)
    BY <1>5 DEF SuggestAnswered, SuggestSucceeds, SuggestFails, DraftInv, DraftTypeOK
  <2>2. DraftTypeOK' /\ ActiveRequestOnTop'
    BY <2>1 DEF SuggestReplied, DraftInv, DraftTypeOK, ActiveRequestOnTop, generationVars
  <2>3. LoadingIsAwaited'
    BY <2>1 DEF SuggestReplied, DraftInv, LoadingIsAwaited, generationVars
  <2> QED BY <2>2, <2>3 DEF DraftInv
<1> QED BY <1>3, <1>4, <1>5 DEF DraftReply, GenerateAnswered

(* Every step keeps the inductive invariant. *)
LEMMA DraftInvNext == DraftInv /\ [DraftNext]_draftVars => DraftInv'
<1> SUFFICES ASSUME DraftInv, [DraftNext]_draftVars PROVE DraftInv'
  OBVIOUS
<1>1. draft \in Draft /\ ActiveOnTop(draft)
  BY ActiveRequestIsActiveOnTop DEF DraftInv, DraftTypeOK
<1>2. CASE DraftEdit
  BY <1>2, EditInv
<1>3. CASE Undo
  BY <1>1, <1>3, UndoDraftType, UndoOnTop, DraftBecomesInv DEF Undo
<1>4. CASE Redo
  BY <1>1, <1>4, RedoDraftType, RedoOnTop, DraftBecomesInv DEF Redo
<1>5. ASSUME NEW value \in StoredStates, AdoptState(value)
      PROVE  DraftInv'
  BY <1>1, <1>5, StoredAssumption, AdoptedType, DraftBecomesInv DEF AdoptState
<1>6. CASE Generate \/ Suggest \/ \E name \in SenseNames : ChooseSuggestion(name)
  BY <1>6, RequestInv
<1>7. CASE DraftReply
  BY <1>7, ReplyInv
<1>8. CASE UNCHANGED draftVars
  BY <1>8 DEF draftVars, generationVars, suggestionVars, DraftInv, DraftTypeOK,
              ActiveRequestOnTop, LoadingIsAwaited
<1> QED
  BY <1>2, <1>3, <1>4, <1>5, <1>6, <1>7, <1>8 DEF DraftNext

(* The inductive invariant holds throughout a review. *)
LEMMA DraftInvariant == DraftSpec => []DraftInv
<1>1. DraftInit => DraftInv
  BY DraftInvInit
<1>2. DraftInv /\ [DraftNext]_draftVars => DraftInv'
  BY DraftInvNext
<1> QED
  BY <1>1, <1>2, PTL DEF DraftSpec

(* Every state the draft and its requests reach has the types the handlers *)
(* rely on: a history of well-formed actions, requests with a Model.       *)
THEOREM DraftTypeCorrect == DraftSpec => []DraftTypeOK
<1>1. DraftInv => DraftTypeOK
  BY DEF DraftInv
<1> QED BY <1>1, DraftInvariant, PTL

(* The request whose reply may enter the draft is that of the newest undo  *)
(* action: state.js keeps activeRevision and undoStack in step.            *)
THEOREM ActiveRequestCorrect == DraftSpec => []ActiveRequestOnTop
<1>1. DraftInv => ActiveRequestOnTop
  BY DEF DraftInv
<1> QED BY <1>1, DraftInvariant, PTL

(* generationLoading and suggestionLoading are only set while the command  *)
(* that clears them is still to answer.                                    *)
THEOREM LoadingCorrect == DraftSpec => []LoadingIsAwaited
<1>1. DraftInv => LoadingIsAwaited
  BY DEF DraftInv
<1> QED BY <1>1, DraftInvariant, PTL

(* Both together: whatever is waited for was asked for by the draft as it  *)
(* is, and is still to come.                                               *)
THEOREM RequestsStayInStep == DraftSpec => []RequestsInStep
<1>1. DraftInv => RequestsInStep
  BY DEF DraftInv, RequestsInStep
<1> QED BY <1>1, DraftInvariant, PTL

-----------------------------------------------------------------------------
(* The history and the commands in flight.  An action remembers what its   *)
(* request was sent with until the reply comes, however often it is undone *)
(* and redone meanwhile; revisions are never used twice.                   *)

Elements(s) == {s[i] : i \in DOMAIN s}
Actions(d) == Elements(d.undo) \cup Elements(d.redo)

(* A result that is in `after` is shown, and the other way round.          *)
Agrees(action) == action.afterHasGenerated = action.resultApplied
Agreeing(d) == \A action \in Actions(d) : Agrees(action)

Asked(action, request, d, model) ==
  action.requestRevision = request.revision =>
    /\ action.requestInputs \in Inputs
    /\ action.requestInputs.entry = request.inputs.entry
    /\ action.requestInputs.captured = request.inputs.captured
    /\ action.requestInputs.instruction = request.inputs.instruction
    /\ action.requestInputs.sense = request.inputs.sense
    /\ action.requestInputs.types = request.inputs.types
    /\ action.requestInputs.modelRevision <= d.modelRevision
    /\ action.requestInputs.modelRevision = d.modelRevision => request.inputs.model = model

Suggests(request, d, model) ==
  /\ request.revision <= d.generationRevision
  /\ request.revision = d.generationRevision =>
       /\ request.inputs.entry = d.content.entry
       /\ request.inputs.captured = d.content.captured
       /\ request.inputs.model = model

HistoryInv ==
  /\ \A action \in Actions(draft) :
       /\ Agrees(action)
       /\ action.requestRevision # None => action.requestRevision <= draft.generationRevision
       /\ \A request \in generating : Asked(action, request, draft, selectedModel)
  /\ \A request \in generating : request.revision <= draft.generationRevision
  /\ \A request \in suggesting : Suggests(request, draft, selectedModel)

(* What every operation does to the history: an action of the new draft is *)
(* an edit, or of a new request, or one there was.                         *)
Descends(action, other) ==
  /\ action.requestRevision = other.requestRevision
  /\ action.requestInputs = other.requestInputs

Inherits(next, d) ==
  \A action \in Actions(next) :
    /\ Agrees(action)
    /\ \/ action.requestRevision = None
       \/ /\ action.requestRevision > d.generationRevision
          /\ action.requestRevision <= next.generationRevision
       \/ \E other \in Actions(d) : Descends(action, other)

Grows(next, d) ==
  /\ d.generationRevision <= next.generationRevision
  /\ d.generationRevision = next.generationRevision =>
       next.content.entry = d.content.entry /\ next.content.captured = d.content.captured
  /\ Inherits(next, d)

LEMMA AppendElements ==
  ASSUME NEW S, NEW s \in Seq(S), NEW e
  PROVE  Elements(Append(s, e)) = Elements(s) \cup {e}
<1>1. DOMAIN Append(s, e) = 1..(Len(s) + 1) /\ DOMAIN s = 1..Len(s) /\ Len(s) \in Nat
  OBVIOUS
<1>2. Append(s, e)[Len(s) + 1] = e /\ \A i \in 1..Len(s) : Append(s, e)[i] = s[i]
  OBVIOUS
<1> QED BY <1>1, <1>2 DEF Elements

LEMMA PopElements ==
  ASSUME NEW S, NEW s \in Seq(S), s # <<>>
  PROVE  Elements(Pop(s)) \subseteq Elements(s) /\ Top(s) \in Elements(s)
<1>1. /\ Pop(s) \in Seq(S) /\ Len(Pop(s)) = Len(s) - 1 /\ Len(s) \in Nat /\ Len(s) > 0
      /\ \A i \in 1..Len(s) - 1 : Pop(s)[i] = s[i]
  BY TopPopType, EmptySeq, LenProperties
<1>2. DOMAIN Pop(s) = 1..(Len(s) - 1) /\ DOMAIN s = 1..Len(s)
  BY <1>1
<1>3. ASSUME NEW i \in DOMAIN Pop(s) PROVE Pop(s)[i] \in Elements(s)
  BY <1>1, <1>2 DEF Elements
<1>4. Elements(Pop(s)) \subseteq Elements(s)
  BY <1>3 DEF Elements
<1> QED BY <1>1, <1>2, <1>4 DEF Elements, Top

LEMMA ExceptElements ==
  ASSUME NEW s, NEW i, NEW e
  PROVE  Elements([s EXCEPT ![i] = e]) \subseteq Elements(s) \cup {e}
BY DEF Elements

(* Where undo and redo lead, when the history agrees. *)
LEMMA UndoGrows ==
  ASSUME NEW d \in Draft, Agreeing(d)
  PROVE  Grows(UndoDraft(d), d) /\ UndoDraft(d).modelRevision = d.modelRevision
<1>1. CASE d.undo = <<>>
  <2>1. UndoDraft(d) = d
    BY <1>1 DEF UndoDraft
  <2> QED BY <2>1, DraftFields DEF Grows, Inherits, Descends, Agreeing
<1>2. CASE d.undo # <<>>
  <2> DEFINE top == Top(d.undo)
             action == Undone(d, top)
             base == Invalidated(Restore(d, action.before))
  <2>1. top \in Action /\ top \in Actions(d) /\ Agrees(top)
    BY <1>2, DraftFields, TopPopType, PopElements DEF Actions, Agreeing
  <2>2. /\ action \in Action /\ Agrees(action) /\ Descends(action, top)
    <3> HIDE DEF top
    <3>1. action \in Action
      BY <2>1, UndoneType
    <3>2. Agrees(action) /\ Descends(action, top)
      BY <2>1 DEF Agrees, Descends, Undone, Action
    <3> QED BY <3>1, <3>2
  <2>3. Restore(d, action.before) \in Draft
    BY <2>2, ActionFields, RestoreType
  <2>4. /\ base \in Draft /\ base.undo = d.undo /\ base.redo = d.redo
        /\ base.generationRevision = d.generationRevision + 1
        /\ base.modelRevision = d.modelRevision
    BY <2>3, ModelChangedType DEF Invalidated, Restore, Draft
  <2> HIDE DEF action, base, top
  <2>5. UndoDraft(d) = [base EXCEPT !.undo = Pop(@), !.redo = Append(@, action)]
    BY <1>2 DEF UndoDraft, action, base, top
  <2>6. /\ UndoDraft(d).undo = Pop(d.undo) /\ UndoDraft(d).redo = Append(d.redo, action)
        /\ UndoDraft(d).generationRevision = d.generationRevision + 1
        /\ UndoDraft(d).modelRevision = d.modelRevision
    BY <2>4, <2>5 DEF Draft
  <2>7. Actions(UndoDraft(d)) \subseteq Actions(d) \cup {action}
    BY <1>2, <2>6, DraftFields, PopElements, AppendElements DEF Actions
  <2>8. Inherits(UndoDraft(d), d)
    BY <2>1, <2>2, <2>7 DEF Inherits, Agreeing, Descends
  <2> QED BY <2>6, <2>8, DraftFields DEF Grows
<1> QED BY <1>1, <1>2

LEMMA RedoGrows ==
  ASSUME NEW d \in Draft, Agreeing(d)
  PROVE  Grows(RedoDraft(d), d) /\ RedoDraft(d).modelRevision = d.modelRevision
<1>1. CASE d.redo = <<>>
  <2>1. RedoDraft(d) = d
    BY <1>1 DEF RedoDraft
  <2> QED BY <2>1, DraftFields DEF Grows, Inherits, Descends, Agreeing
<1>2. CASE d.redo # <<>>
  <2> DEFINE action == Top(d.redo)
             restored == Restore(d, action.after)
             matches == GenerationMatches(restored, action)
             reuse == action.generated # None /\ ~action.afterHasGenerated /\ matches
             content == IF reuse THEN ApplyGenerated(action.after, action.generated)
                        ELSE action.after
             shown == action.afterHasGenerated \/ reuse
             active == IF action.generated = None /\ matches
                       THEN action.requestRevision ELSE None
             next == [action EXCEPT !.after = content, !.afterHasGenerated = shown,
                                    !.resultApplied = shown]
             shows == Restore(d, content)
  <2>1. action \in Action /\ action \in Actions(d)
    BY <1>2, DraftFields, TopPopType, PopElements DEF Actions
  <2>2. content \in Content /\ shown \in BOOLEAN
    BY <2>1, ActionFields, ApplyGeneratedType
  <2>3. next \in Action /\ Descends(next, action) /\ Agrees(next)
    <3> HIDE DEF content, shown, action
    <3> QED BY <2>1, <2>2 DEF Action, Descends, Agrees
  <2>4. /\ shows \in Draft /\ shows.undo = d.undo /\ shows.redo = d.redo
        /\ shows.generationRevision = d.generationRevision
        /\ shows.modelRevision = d.modelRevision
    BY <2>2, RestoreType DEF Restore, Draft
  <2> HIDE DEF next, active, shows, action
  <2>5. RedoDraft(d) =
          [shows EXCEPT !.generationRevision = @ + 1, !.activeRevision = active,
                        !.redo = Pop(@), !.undo = Append(@, next)]
    BY <1>2 DEF RedoDraft, next, active, shows, action
  <2>6. /\ RedoDraft(d).undo = Append(d.undo, next) /\ RedoDraft(d).redo = Pop(d.redo)
        /\ RedoDraft(d).generationRevision = d.generationRevision + 1
        /\ RedoDraft(d).modelRevision = d.modelRevision
    BY <2>4, <2>5 DEF Draft
  <2>7. Actions(RedoDraft(d)) \subseteq Actions(d) \cup {next}
    BY <1>2, <2>6, DraftFields, PopElements, AppendElements DEF Actions
  <2>8. Inherits(RedoDraft(d), d)
    BY <2>1, <2>3, <2>7 DEF Inherits, Agreeing, Descends
  <2> QED BY <2>6, <2>8, DraftFields DEF Grows
<1> QED BY <1>1, <1>2

(* An operation that leaves the history alone. *)
LEMMA LeavesHistory ==
  ASSUME NEW d \in Draft, Agreeing(d), NEW next, next.undo = d.undo, next.redo = d.redo,
         d.generationRevision <= next.generationRevision,
         \/ d.generationRevision < next.generationRevision
         \/ next.content.entry = d.content.entry /\ next.content.captured = d.content.captured
  PROVE  Grows(next, d)
<1>1. Actions(next) = Actions(d)
  BY DEF Actions
<1>2. Inherits(next, d)
  BY <1>1 DEF Inherits, Agreeing, Descends
<1>3. d.generationRevision = next.generationRevision =>
        next.content.entry = d.content.entry /\ next.content.captured = d.content.captured
  <2> HAVE d.generationRevision = next.generationRevision
  <2>1. ~(d.generationRevision < next.generationRevision)
    BY DraftFields
  <2> QED BY <2>1
<1> QED BY <1>2, <1>3 DEF Grows

LEMMA EditGrows ==
  ASSUME NEW d \in Draft, Agreeing(d), NEW content \in Content, NEW remember \in BOOLEAN
  PROVE  /\ Grows(ChangeText(d, content, remember), d)
         /\ ChangeText(d, content, remember).modelRevision = d.modelRevision
<1> DEFINE action == EditAction(Snapshot(d), content)
           next == ChangeText(d, content, remember)
<1>1. action \in Action /\ Agrees(action) /\ action.requestRevision = None
  <2>1. action \in Action
    BY DraftFields, EditActionType DEF Snapshot
  <2> QED BY <2>1 DEF EditAction, Agrees
<1> HIDE DEF action
<1>2. /\ Invalidated(d) \in Draft /\ Invalidated(d).undo = d.undo /\ Invalidated(d).redo = d.redo
      /\ Invalidated(d).generationRevision = d.generationRevision + 1
      /\ Invalidated(d).modelRevision = d.modelRevision
  BY ModelChangedType DEF Invalidated, Draft
<1>3. next = [Invalidated(d) EXCEPT !.content = content, !.redo = <<>>,
                !.undo = IF remember THEN Append(@, action) ELSE @]
  BY DEF ChangeText, action
<1>4. /\ next.undo = IF remember THEN Append(d.undo, action) ELSE d.undo
      /\ next.redo = <<>>
      /\ next.generationRevision = d.generationRevision + 1
      /\ next.modelRevision = d.modelRevision
  <2> HIDE DEF next
  <2> QED BY <1>2, <1>3 DEF Draft
<1> HIDE DEF next
<1>5. Elements(<<>>) = {}
  BY DEF Elements
<1>6. Actions(next) \subseteq Actions(d) \cup {action}
  BY <1>4, <1>5, DraftFields, AppendElements DEF Actions
<1>7. Inherits(next, d)
  BY <1>1, <1>6 DEF Inherits, Agreeing, Descends
<1> QED BY <1>4, <1>7, DraftFields DEF Grows, next

LEMMA RequestGrows ==
  ASSUME NEW d \in Draft, Agreeing(d), NEW content \in Content
  PROVE  LET next == Requested(d, content) IN
         /\ Grows(next, d) /\ next.modelRevision = d.modelRevision
         /\ next.generationRevision = d.generationRevision + 1
         /\ next.activeRevision = d.generationRevision + 1
         /\ \E action \in Action :
              /\ Actions(next) \subseteq Actions(d) \cup {action}
              /\ Agrees(action) /\ action.requestRevision = d.generationRevision + 1
              /\ action.requestInputs = GenerationInputs(next)
<1> DEFINE base == [d EXCEPT !.content = content,
                        !.generationRevision = @ + 1,
                        !.activeRevision = d.generationRevision + 1,
                        !.redo = <<>>]
           action == RequestAction(Snapshot(d), base)
           next == Requested(d, content)
<1>0. d.generationRevision + 1 \in Nat /\ <<>> \in Seq(Action)
  BY DraftFields
<1>1. /\ base \in Draft /\ base.undo = d.undo /\ base.redo = <<>>
      /\ base.activeRevision = d.generationRevision + 1
      /\ base.generationRevision = d.generationRevision + 1
      /\ base.modelRevision = d.modelRevision
      /\ base.content = content /\ base.selectedTypes = d.selectedTypes
  BY <1>0 DEF Draft
<1>2. action \in Action /\ Agrees(action)
      /\ action.requestRevision = d.generationRevision + 1
      /\ action.requestInputs = GenerationInputs(base)
  <2> HIDE DEF base
  <2>1. GenerationInputs(base) \in Inputs /\ Snapshot(d) \in Content /\ Snapshot(base) \in Content
    BY <1>1, GenerationInputsType, DraftFields DEF Snapshot
  <2> QED BY <1>0, <1>1, <2>1 DEF RequestAction, Action, Agrees
<1> HIDE DEF base, action
<1>3. next = [base EXCEPT !.undo = Append(@, action)]
  BY DEF Requested, base, action
<1> HIDE DEF next
<1>4. /\ next.undo = Append(d.undo, action) /\ next.redo = <<>>
      /\ next.generationRevision = d.generationRevision + 1
      /\ next.activeRevision = d.generationRevision + 1
      /\ next.modelRevision = d.modelRevision
      /\ next.content = base.content /\ next.selectedTypes = base.selectedTypes
      /\ next.modelRevision = base.modelRevision
  BY <1>1, <1>3 DEF Draft
<1>5. action.requestInputs = GenerationInputs(next)
  BY <1>2, <1>4 DEF GenerationInputs
<1>6. Elements(<<>>) = {}
  BY DEF Elements
<1>7. Actions(next) \subseteq Actions(d) \cup {action}
  BY <1>4, <1>6, DraftFields, AppendElements DEF Actions
<1>8. Inherits(next, d)
  BY <1>0, <1>2, <1>4, <1>7, DraftFields DEF Inherits, Agreeing, Descends
<1>9. Grows(next, d)
  BY <1>4, <1>8, DraftFields DEF Grows
<1> QED BY <1>2, <1>4, <1>5, <1>7, <1>9 DEF next

(* Where an action is found: in one of the histories. *)
LEMMA InHistory ==
  ASSUME NEW d \in Draft, NEW i \in DOMAIN (d.undo \o d.redo)
  PROVE  (d.undo \o d.redo)[i] \in Actions(d)
<1>1. d.undo \in Seq(Action) /\ d.redo \in Seq(Action) /\ Len(d.undo) \in Nat /\ Len(d.redo) \in Nat
  BY DraftFields, LenProperties
<1>2. i \in 1..Len(d.undo) + Len(d.redo)
  BY <1>1, ConcatDomain
<1>3. CASE i <= Len(d.undo)
  BY <1>1, <1>2, <1>3 DEF Actions, Elements
<1>4. CASE ~(i <= Len(d.undo))
  <2>1. i - Len(d.undo) \in 1..Len(d.redo)
    BY <1>1, <1>2, <1>4, Shifted
  <2>2. (d.undo \o d.redo)[i] = d.redo[i - Len(d.undo)]
    BY <1>1, <1>2, <1>4
  <2> QED BY <1>1, <2>1, <2>2 DEF Actions, Elements
<1> QED BY <1>3, <1>4

(* A result is put in the Sense and the cards. *)
LEMMA ApplyKeepsTyped ==
  ASSUME NEW content \in Content, NEW result
  PROVE  /\ ApplyGenerated(content, result).entry = content.entry
         /\ ApplyGenerated(content, result).captured = content.captured
BY DEF ApplyGenerated, Content

(* Replacing an action by one that remembers the same. *)
LEMMA SetActionGrows ==
  ASSUME NEW d \in Draft, NEW base \in Draft, Agreeing(d),
         base.undo = d.undo, base.redo = d.redo,
         base.generationRevision = d.generationRevision,
         base.content.entry = d.content.entry, base.content.captured = d.content.captured,
         NEW i \in DOMAIN (d.undo \o d.redo), NEW action, Agrees(action),
         Descends(action, (d.undo \o d.redo)[i])
  PROVE  /\ Grows(SetAction(base, i, action), d)
         /\ SetAction(base, i, action).modelRevision = base.modelRevision
         /\ SetAction(base, i, action).content = base.content
<1> DEFINE next == SetAction(base, i, action)
<1>1. d.undo \in Seq(Action) /\ d.redo \in Seq(Action) /\ Len(d.undo) \in Nat /\ Len(d.redo) \in Nat
  BY DraftFields, LenProperties
<1>2. i \in 1..Len(d.undo) + Len(d.redo)
  BY SMT, ZenonT(60), <1>1, ConcatDomain
<1>3. (d.undo \o d.redo)[i] \in Actions(d)
  BY InHistory
<1>4. /\ Actions(next) \subseteq Actions(d) \cup {action}
      /\ next.generationRevision = d.generationRevision
      /\ next.content = base.content /\ next.modelRevision = base.modelRevision
  <2>1. CASE i <= Len(d.undo)
    <3>1. /\ next.undo = [d.undo EXCEPT ![i] = action] /\ next.redo = d.redo
          /\ next.generationRevision = d.generationRevision
          /\ next.content = base.content /\ next.modelRevision = base.modelRevision
      BY <2>1 DEF SetAction, Draft
    <3> HIDE DEF next
    <3> QED BY <3>1, ExceptElements DEF Actions
  <2>2. CASE ~(i <= Len(d.undo))
    <3>1. /\ next.undo = d.undo /\ next.redo = [d.redo EXCEPT ![i - Len(d.undo)] = action]
          /\ next.generationRevision = d.generationRevision
          /\ next.content = base.content /\ next.modelRevision = base.modelRevision
      BY <2>2 DEF SetAction, Draft
    <3> HIDE DEF next
    <3>2. PICK j : j = i - Len(d.undo)
      OBVIOUS
    <3>3. Elements(next.redo) \subseteq Elements(d.redo) \cup {action}
      BY <3>1, <3>2, ExceptElements
    <3> QED BY <3>1, <3>3 DEF Actions
  <2> QED BY <2>1, <2>2
<1>5. Inherits(next, d)
  BY <1>3, <1>4 DEF Inherits, Agreeing, Descends
<1> QED BY <1>4, <1>5, DraftFields DEF Grows

(* What a result does: nothing to what is typed, and it enters the draft   *)
(* only for the active request and its inputs.                             *)
LEMMA ReceiveGrows ==
  ASSUME NEW d \in Draft, NEW revision, NEW result \in Results, Agreeing(d)
  PROVE  LET next == ReceiveGeneration(d, revision, result) IN
         /\ Grows(next, d) /\ next.modelRevision = d.modelRevision
         /\ \/ next.content = d.content
            \/ /\ next.content = ApplyGenerated(d.content, result)
               /\ \E action \in Actions(d) :
                    action.requestRevision = revision /\ GenerationMatches(d, action)
<1> DEFINE requesters == Requesters(d, revision)
           i == FirstOf(requesters)
           found == (d.undo \o d.redo)[i]
           action == [found EXCEPT !.generated = result]
           content == ApplyGenerated(d.content, result)
           shown == [action EXCEPT !.after = content, !.afterHasGenerated = TRUE,
                                   !.resultApplied = TRUE]
           base == [d EXCEPT !.content = content, !.activeRevision = None]
           next == ReceiveGeneration(d, revision, result)
<1>1. CASE requesters = {}
  <2>1. next = d
    BY <1>1 DEF ReceiveGeneration
  <2>2. Grows(d, d)
    BY DraftFields, LeavesHistory
  <2> QED BY <2>1, <2>2
<1>2. CASE requesters # {}
  <2>1. /\ d.undo \o d.redo \in Seq(Action)
        /\ DOMAIN (d.undo \o d.redo) = 1..Len(d.undo \o d.redo)
    BY DraftFields, ConcatProperties, LenProperties
  <2>2. requesters \in SUBSET Nat
    <3>1. \A j \in 1..Len(d.undo \o d.redo) : j \in Nat
      BY <2>1
    <3>2. requesters \subseteq DOMAIN (d.undo \o d.redo)
      BY DEF Requesters
    <3> QED BY <2>1, <3>1, <3>2
  <2>3. i \in requesters
    BY <1>2, <2>2, FirstOfMember
  <2>4. i \in DOMAIN (d.undo \o d.redo) /\ found.requestRevision = revision
    BY <2>3 DEF Requesters
  <2>5. found \in Action /\ found \in Actions(d) /\ Agrees(found)
    <3>1. found \in Action
      BY <2>1, <2>4, ElementOfSeq
    <3>2. (d.undo \o d.redo)[i] \in Actions(d)
      <4> HIDE DEF i
      <4> QED BY <2>4, InHistory
    <3> QED BY <3>1, <3>2 DEF Agreeing
  <2>6. /\ content \in Content /\ content.entry = d.content.entry
        /\ content.captured = d.content.captured
    <3>1. d.content \in Content
      BY DraftFields
    <3> QED BY <3>1, ApplyGeneratedType, ApplyKeepsTyped
  <2> HIDE DEF i, content, requesters
  <2>7. action \in Action /\ Agrees(action) /\ Descends(action, found)
    BY <2>5 DEF Action, Agrees, Descends
  <2>8. shown \in Action /\ Agrees(shown) /\ Descends(shown, found)
    BY <2>6, <2>7 DEF Action, Agrees, Descends
  <2>9. /\ base \in Draft /\ base.undo = d.undo /\ base.redo = d.redo
        /\ base.generationRevision = d.generationRevision
        /\ base.modelRevision = d.modelRevision /\ base.content = content
    BY <2>6 DEF Draft
  <2>10. GenerationMatches(d, action) <=> GenerationMatches(d, found)
    BY <2>7 DEF GenerationMatches, Descends
  <2>11. found = (d.undo \o d.redo)[i]
    OBVIOUS
  <2> HIDE DEF found, action, shown, base
  <2>12. /\ Grows(SetAction(base, i, shown), d)
         /\ SetAction(base, i, shown).modelRevision = d.modelRevision
         /\ SetAction(base, i, shown).content = content
    BY <2>4, <2>6, <2>8, <2>9, <2>11, SetActionGrows
  <2>13. /\ Grows(SetAction(d, i, action), d)
         /\ SetAction(d, i, action).modelRevision = d.modelRevision
         /\ SetAction(d, i, action).content = d.content
    BY <2>4, <2>7, <2>11, SetActionGrows
  <2>14. next = IF d.activeRevision = revision /\ GenerationMatches(d, action)
                THEN SetAction(base, i, shown) ELSE SetAction(d, i, action)
    BY <1>2 DEF ReceiveGeneration, requesters, i, found, action, content, shown, base
  <2> HIDE DEF next
  <2>15. CASE d.activeRevision = revision /\ GenerationMatches(d, action)
    <3>1. next = SetAction(base, i, shown)
      BY <2>14, <2>15
    <3>2. \E a \in Actions(d) : a.requestRevision = revision /\ GenerationMatches(d, a)
      BY <2>4, <2>5, <2>10, <2>15
    <3> QED BY <2>12, <3>1, <3>2 DEF next, content
  <2>16. CASE ~(d.activeRevision = revision /\ GenerationMatches(d, action))
    <3>1. next = SetAction(d, i, action)
      BY <2>14, <2>16
    <3> QED BY <2>13, <3>1 DEF next
  <2> QED BY <2>15, <2>16
<1> QED BY <1>1, <1>2

(* What is in flight stays in step with a history that grows.              *)
LEMMA GrowsOver ==
  ASSUME DraftInv, DraftTypeOK', HistoryInv, Grows(draft', draft),
         \/ selectedModel' = selectedModel /\ draft'.modelRevision = draft.modelRevision
         \/ /\ draft.modelRevision < draft'.modelRevision
            /\ draft.generationRevision < draft'.generationRevision
  PROVE  /\ \A action \in Actions(draft') :
              /\ Agrees(action)
              /\ action.requestRevision # None => action.requestRevision <= draft'.generationRevision
              /\ \A request \in generating : Asked(action, request, draft', selectedModel')
         /\ \A request \in generating : request.revision <= draft'.generationRevision
         /\ \A request \in suggesting : Suggests(request, draft', selectedModel')
<1>1. /\ draft \in Draft /\ draft' \in Draft
      /\ generating \in SUBSET Request /\ suggesting \in SUBSET Request
  BY DEF DraftInv, DraftTypeOK
<1>2. /\ draft.generationRevision \in Nat /\ draft'.generationRevision \in Nat
      /\ draft.modelRevision \in Nat /\ draft'.modelRevision \in Nat
      /\ draft.generationRevision <= draft'.generationRevision
  BY <1>1, DraftFields DEF Grows
<1>3. \A request \in generating \cup suggesting : request.revision \in Nat
  BY <1>1 DEF Request
<1>4. ASSUME NEW action \in Actions(draft), NEW request \in generating
      PROVE  Asked(action, request, draft, selectedModel)'
  <2>1. Asked(action, request, draft, selectedModel)
    BY <1>4 DEF HistoryInv
  <2>2. CASE action.requestRevision # request.revision
    BY <2>2 DEF Asked
  <2>3. CASE action.requestRevision = request.revision
    <3>1. action \in Action
      <4>1. draft.undo \in Seq(Action) /\ draft.redo \in Seq(Action)
        BY <1>1, DraftFields
      <4> QED BY <4>1, ElementOfSeq, LenProperties DEF Actions, Elements
    <3>2. action.requestInputs \in Inputs
      BY <2>1, <2>3, <3>1, ActionFields DEF Asked
    <3>3. action.requestInputs.modelRevision \in Nat
      BY <3>2 DEF Inputs
    <3> QED BY <1>2, <2>1, <2>3, <3>3 DEF Asked
  <2> QED BY <2>2, <2>3
<1>5. ASSUME NEW action \in Actions(draft')
      PROVE  /\ Agrees(action)
             /\ action.requestRevision # None => action.requestRevision <= draft'.generationRevision
             /\ \A request \in generating : Asked(action, request, draft', selectedModel')
  <2>1. CASE action.requestRevision = None
    BY <1>3, <1>5, <2>1, NoneAssumption DEF Grows, Inherits, Asked
  <2>2. CASE /\ action.requestRevision > draft.generationRevision
             /\ action.requestRevision <= draft'.generationRevision
    <3>1. \A request \in generating : request.revision <= draft.generationRevision
      BY DEF HistoryInv
    <3>2. action.requestRevision \in Nat \cup {None}
      <4>1. draft'.undo \in Seq(Action) /\ draft'.redo \in Seq(Action)
        BY <1>1, DraftFields
      <4>2. action \in Action
        BY <4>1, ElementOfSeq, LenProperties DEF Actions, Elements
      <4> QED BY <4>2, ActionFields
    <3>3. \A request \in generating : action.requestRevision # request.revision
      BY <1>2, <1>3, <2>2, <3>1, NoneAssumption
    <3> QED BY <1>5, <2>2, <3>3 DEF Grows, Inherits, Asked
  <2>3. ASSUME NEW other \in Actions(draft), Descends(action, other)
        PROVE  /\ action.requestRevision # None =>
                    action.requestRevision <= draft'.generationRevision
               /\ \A request \in generating : Asked(action, request, draft', selectedModel')
    <3>1. /\ other.requestRevision # None => other.requestRevision <= draft.generationRevision
          /\ \A request \in generating : Asked(other, request, draft', selectedModel')
      BY <1>4 DEF HistoryInv
    <3>2. other.requestRevision \in Nat \cup {None}
      <4>1. draft.undo \in Seq(Action) /\ draft.redo \in Seq(Action)
        BY <1>1, DraftFields
      <4>2. other \in Action
        BY <4>1, ElementOfSeq, LenProperties DEF Actions, Elements
      <4> QED BY <4>2, ActionFields
    <3> QED BY <1>2, <2>3, <3>1, <3>2 DEF Descends, Asked
  <2> QED BY <1>5, <2>1, <2>2, <2>3 DEF Grows, Inherits
<1>6. ASSUME NEW request \in suggesting
      PROVE  Suggests(request, draft', selectedModel')
  <2>1. Suggests(request, draft, selectedModel) /\ request.revision \in Nat
    BY <1>3, <1>6 DEF HistoryInv
  <2> QED BY <1>2, <2>1 DEF Suggests, Grows
<1>7. \A request \in generating : request.revision <= draft'.generationRevision
  BY <1>2, <1>3 DEF HistoryInv
<1> QED BY <1>5, <1>6, <1>7

LEMMA HistoryGrows ==
  ASSUME DraftInv, DraftTypeOK', HistoryInv, Grows(draft', draft),
         generating' \subseteq generating, suggesting' \subseteq suggesting,
         \/ selectedModel' = selectedModel /\ draft'.modelRevision = draft.modelRevision
         \/ /\ draft.modelRevision < draft'.modelRevision
            /\ draft.generationRevision < draft'.generationRevision
  PROVE  HistoryInv'
BY GrowsOver DEF HistoryInv

LEMMA BecomesHistory ==
  ASSUME DraftInv, DraftInv', HistoryInv, NEW next, DraftBecomes(next),
         Grows(next, draft), next.modelRevision = draft.modelRevision
  PROVE  HistoryInv'
<1>1. /\ draft' = next /\ selectedModel' = selectedModel
      /\ generating' = generating /\ suggesting' = suggesting
  BY DEF DraftBecomes, generationVars, suggestionVars
<1> QED BY <1>1, HistoryGrows DEF DraftInv

LEMMA HistoryInit == DraftInit => HistoryInv
<1> SUFFICES ASSUME DraftInit PROVE HistoryInv
  OBVIOUS
<1>1. draft.undo = <<>> /\ draft.redo = <<>>
  <2>1. /\ NewDraft \in Draft /\ NewDraft.undo = <<>> /\ NewDraft.redo = <<>>
    BY NewDraftType DEF NewDraft
  <2>2. /\ Invalidated(NewDraft) \in Draft
        /\ Invalidated(NewDraft).undo = <<>> /\ Invalidated(NewDraft).redo = <<>>
    BY <2>1, ModelChangedType DEF Invalidated, Draft
  <2>3. ModelChanged(NewDraft).undo = <<>> /\ ModelChanged(NewDraft).redo = <<>>
    BY <2>2 DEF ModelChanged, Draft
  <2> QED BY <2>1, <2>3 DEF DraftInit
<1>2. Elements(<<>>) = {}
  BY DEF Elements
<1> QED BY <1>1, <1>2 DEF HistoryInv, Actions, DraftInit

LEMMA HistoryAgrees == HistoryInv => Agreeing(draft)
BY DEF HistoryInv, Agreeing

LEMMA ChangeHistory ==
  ASSUME DraftInv, HistoryInv, NEW content \in Content, NEW remember \in BOOLEAN,
         Change(content, remember)
  PROVE  HistoryInv'
<1>1. draft \in Draft /\ Agreeing(draft)
  BY HistoryAgrees DEF DraftInv, DraftTypeOK
<1>2. DraftInv'
  BY ChangeInv
<1> QED BY <1>1, <1>2, EditGrows, BecomesHistory DEF Change

LEMMA EditHistory ==
  ASSUME DraftInv, HistoryInv, DraftEdit
  PROVE  HistoryInv'
<1>0. DraftInv'
  BY EditInv
<1>1. /\ draft \in Draft /\ draft.content \in Content /\ Agreeing(draft)
      /\ draft.generationRevision \in Nat /\ draft.modelRevision \in Nat
  BY DraftFields, HistoryAgrees DEF DraftInv, DraftTypeOK
<1>2. EditTexts \subseteq Texts /\ Blank \in Texts /\ "instruction" \in Fields
  BY InputsAssumption, BlankAssumption DEF Fields
<1>3. /\ Invalidated(draft) \in Draft
      /\ Invalidated(draft).undo = draft.undo /\ Invalidated(draft).redo = draft.redo
      /\ Invalidated(draft).generationRevision = draft.generationRevision + 1
      /\ Invalidated(draft).modelRevision = draft.modelRevision
  BY <1>1, ModelChangedType DEF Invalidated, Draft
<1>4. ASSUME NEW field \in EditFields \cap Fields,
             ClearField(field) \/ \E text \in EditTexts : EditField(field, text)
      PROVE  HistoryInv'
  BY <1>1, <1>2, <1>4, WithTextType, ChangeHistory DEF ClearField, EditField
<1>5. ASSUME NEW text \in EditTexts, PickInstruction(text)
      PROVE  HistoryInv'
  BY <1>1, <1>2, <1>5, WithTextType, ChangeHistory DEF PickInstruction
<1>6. ASSUME NEW t \in Types, NEW i \in DOMAIN draft.content.cards[t],
             ClearCard(t, i) \/ \E text \in EditTexts : EditCard(t, i, text)
      PROVE  HistoryInv'
  BY <1>1, <1>2, <1>6, WithCardTextType, ChangeHistory DEF ClearCard, EditCard
<1>7. ASSUME NEW t \in Types, AddCard(t)
      PROVE  HistoryInv'
  <2>1. /\ CardAdded(draft, t).undo = draft.undo /\ CardAdded(draft, t).redo = draft.redo
        /\ CardAdded(draft, t).generationRevision = draft.generationRevision
        /\ CardAdded(draft, t).modelRevision = draft.modelRevision
        /\ CardAdded(draft, t).content.entry = draft.content.entry
        /\ CardAdded(draft, t).content.captured = draft.content.captured
    BY <1>1 DEF CardAdded, Draft, Content
  <2>2. Grows(CardAdded(draft, t), draft)
    BY <1>1, <2>1, LeavesHistory
  <2> QED BY <1>0, <1>7, <2>1, <2>2, BecomesHistory DEF AddCard
<1>8. ASSUME NEW t \in Types, ToggleType(t)
      PROVE  HistoryInv'
  <2>1. /\ TypeToggled(draft, t).undo = draft.undo /\ TypeToggled(draft, t).redo = draft.redo
        /\ TypeToggled(draft, t).generationRevision = draft.generationRevision + 1
        /\ TypeToggled(draft, t).modelRevision = draft.modelRevision
    BY <1>3 DEF TypeToggled, Draft
  <2>2. Grows(TypeToggled(draft, t), draft)
    BY <1>1, <2>1, LeavesHistory
  <2> QED BY <1>0, <1>8, <2>1, <2>2, BecomesHistory DEF ToggleType
<1>9. ASSUME NEW model \in Models, PickModel(model)
      PROVE  HistoryInv'
  <2>1. /\ ModelChanged(draft).undo = draft.undo /\ ModelChanged(draft).redo = draft.redo
        /\ ModelChanged(draft).generationRevision = draft.generationRevision + 1
        /\ ModelChanged(draft).modelRevision = draft.modelRevision + 1
    BY <1>3 DEF ModelChanged, Draft
  <2>2. Grows(ModelChanged(draft), draft)
    BY <1>1, <2>1, LeavesHistory
  <2>3. /\ draft' = ModelChanged(draft) /\ generating' = generating /\ suggesting' = suggesting
    BY <1>9 DEF PickModel
  <2> QED BY <1>0, <1>1, <2>1, <2>2, <2>3, HistoryGrows DEF DraftInv
<1> QED BY <1>4, <1>5, <1>6, <1>7, <1>8, <1>9 DEF DraftEdit

(* The command that is sent was asked by the action on top, and by no      *)
(* other.                                                                  *)
LEMMA SendHistory ==
  ASSUME DraftInv, HistoryInv, NEW content \in Content, selectedModel \in Models,
         draft' = Requested(draft, content), SendGenerate(Requested(draft, content)),
         UNCHANGED <<selectedModel, suggestions, suggestionVars>>
  PROVE  HistoryInv'
<1>0. DraftInv'
  BY SendInv
<1>1. /\ draft \in Draft /\ draft' \in Draft /\ Agreeing(draft)
      /\ draft.generationRevision \in Nat /\ draft'.modelRevision \in Nat
  BY <1>0, HistoryAgrees, DraftFields DEF DraftInv, DraftTypeOK
<1>2. PICK action \in Action :
        /\ Actions(draft') \subseteq Actions(draft) \cup {action}
        /\ Agrees(action) /\ action.requestRevision = draft.generationRevision + 1
        /\ action.requestInputs = GenerationInputs(draft')
  BY <1>1, RequestGrows
<1>3. /\ Grows(draft', draft) /\ draft'.modelRevision = draft.modelRevision
      /\ draft'.generationRevision = draft.generationRevision + 1
      /\ draft'.activeRevision = draft.generationRevision + 1
  BY <1>1, RequestGrows
<1>4. PICK request : request = [revision |-> draft.generationRevision + 1,
                                inputs |-> RequestOf(draft', selectedModel)]
  OBVIOUS
<1>5. /\ generating' = generating \cup {request}
      /\ suggesting' = suggesting /\ selectedModel' = selectedModel
  BY <1>3, <1>4 DEF SendGenerate, suggestionVars
<1>6. /\ \A other \in Actions(draft') :
           /\ Agrees(other)
           /\ other.requestRevision # None => other.requestRevision <= draft'.generationRevision
           /\ \A r \in generating : Asked(other, r, draft', selectedModel')
      /\ \A r \in generating : r.revision <= draft'.generationRevision
      /\ \A r \in suggesting : Suggests(r, draft', selectedModel')
  BY <1>0, <1>3, <1>5, GrowsOver DEF DraftInv
<1>7. Asked(action, request, draft', selectedModel')
  <2>1. /\ action.requestInputs \in Inputs
        /\ GenerationInputs(draft').modelRevision = draft'.modelRevision
    <3>1. GenerationInputs(draft') \in Inputs
      BY <1>1, GenerationInputsType
    <3> QED BY <1>2, <3>1 DEF GenerationInputs
  <2> QED BY <1>1, <1>2, <1>4, <1>5, <2>1 DEF Asked, GenerationInputs, RequestOf
<1>8. ASSUME NEW other \in Actions(draft)
      PROVE  Asked(other, request, draft', selectedModel')
  <2>1. other.requestRevision # None => other.requestRevision <= draft.generationRevision
    BY DEF HistoryInv
  <2>2. other.requestRevision \in Nat \cup {None}
    <3>1. draft.undo \in Seq(Action) /\ draft.redo \in Seq(Action)
      BY <1>1, DraftFields
    <3>2. other \in Action
      BY <3>1, ElementOfSeq, LenProperties DEF Actions, Elements
    <3> QED BY <3>2, ActionFields
  <2>3. other.requestRevision # request.revision
    BY <1>1, <1>4, <2>1, <2>2, NoneAssumption
  <2> QED BY <2>3 DEF Asked
<1>9. request.revision <= draft'.generationRevision
  BY <1>1, <1>3, <1>4
<1> QED BY <1>2, <1>5, <1>6, <1>7, <1>8, <1>9 DEF HistoryInv

LEMMA RequestHistory ==
  ASSUME DraftInv, HistoryInv,
         Generate \/ Suggest \/ \E name \in SenseNames : ChooseSuggestion(name)
  PROVE  HistoryInv'
<1>0. DraftInv'
  BY RequestInv
<1>1. draft \in Draft /\ selectedModel \in Models \cup {None} /\ Agreeing(draft)
  BY HistoryAgrees DEF DraftInv, DraftTypeOK
<1>2. CASE Generate
  <2>1. PICK content \in Content : BeginGeneration(draft) = Requested(draft, content)
    BY <1>1, BlankAssumption, RequestContents
  <2>2. selectedModel \in Models
    BY <1>1, <1>2 DEF Generate, CanGenerate
  <2> QED BY <1>2, <2>1, <2>2, SendHistory DEF Generate
<1>3. CASE Suggest
  <2>1. PICK request : request = [revision |-> draft.generationRevision,
                                  inputs |-> RequestOf(draft, selectedModel)]
    OBVIOUS
  <2>2. /\ suggesting' = suggesting \cup {request} /\ generating' = generating
        /\ draft' = draft /\ selectedModel' = selectedModel
    BY <1>3, <2>1 DEF Suggest, generationVars
  <2>3. Suggests(request, draft, selectedModel)
    BY <1>1, <2>1, DraftFields DEF Suggests, RequestOf
  <2> QED BY <2>2, <2>3 DEF HistoryInv
<1>4. ASSUME NEW name \in SenseNames, ChooseSuggestion(name)
      PROVE  HistoryInv'
  <2>1. PICK content \in Content : ChooseSense(draft, name) = Requested(draft, content)
    BY <1>1, InputsAssumption, RequestContents
  <2>2. selectedModel \in Models
    BY <1>1, <1>4 DEF ChooseSuggestion
  <2>3. CASE CanGenerate(ChooseSense(draft, name))
    BY <1>4, <2>1, <2>2, <2>3, SendHistory DEF ChooseSuggestion
  <2>4. CASE ~CanGenerate(ChooseSense(draft, name))
    <3>1. /\ Grows(Requested(draft, content), draft)
          /\ Requested(draft, content).modelRevision = draft.modelRevision
      BY <1>1, RequestGrows
    <3>2. DraftBecomes(Requested(draft, content))
      BY <1>4, <2>1, <2>4 DEF ChooseSuggestion, DraftBecomes
    <3> QED BY <1>0, <3>1, <3>2, BecomesHistory
  <2> QED BY <2>3, <2>4
<1> QED BY <1>2, <1>3, <1>4

(* A reply changes the draft as ReceiveGrows says. *)
LEMMA ReplyReceives ==
  ASSUME DraftInv, HistoryInv, NEW request \in generating, GenerateSucceeds(request)
  PROVE  /\ GenerateReplied(request)
         /\ \E result \in Results : draft' = ReceiveGeneration(draft, request.revision, result)
<1>1. PICK sense \in SenseNames, texts \in [request.inputs.types -> EditTexts \ {Blank}] :
        /\ GenerateReplied(request)
        /\ draft' = ReceiveGeneration(draft, request.revision,
                                      [sense |-> sense, texts |-> texts])
  BY DEF GenerateSucceeds
<1>2. request.inputs.types \in SUBSET Types
  BY DEF DraftInv, DraftTypeOK, Request, RequestInputs
<1>3. texts \in [request.inputs.types -> Texts \ {Blank}] /\ sense \in Texts \ {Blank}
  BY InputsAssumption
<1>4. [sense |-> sense, texts |-> texts] \in Results
  BY <1>2, <1>3 DEF Results, Result
<1> QED BY <1>1, <1>4

LEMMA ReplyHistory ==
  ASSUME DraftInv, HistoryInv, DraftReply
  PROVE  HistoryInv'
<1>0. DraftInv'
  BY ReplyInv
<1>1. draft \in Draft /\ Agreeing(draft)
  BY HistoryAgrees DEF DraftInv, DraftTypeOK
<1>2. ASSUME NEW request \in generating, GenerateSucceeds(request)
      PROVE  HistoryInv'
  <2>1. PICK result \in Results : draft' = ReceiveGeneration(draft, request.revision, result)
    BY <1>2, ReplyReceives
  <2>2. Grows(draft', draft) /\ draft'.modelRevision = draft.modelRevision
    BY <1>1, <2>1, ReceiveGrows
  <2>3. /\ generating' \subseteq generating /\ suggesting' = suggesting
        /\ selectedModel' = selectedModel
    BY <1>2, ReplyReceives DEF GenerateReplied, suggestionVars
  <2> QED BY <1>0, <2>2, <2>3, HistoryGrows DEF DraftInv
<1>3. ASSUME NEW request \in generating, GenerateFails(request)
      PROVE  HistoryInv'
  <2>1. /\ generating' \subseteq generating /\ suggesting' = suggesting
        /\ selectedModel' = selectedModel /\ draft' = draft
    BY <1>3 DEF GenerateFails, GenerateReplied, suggestionVars
  <2> QED BY <2>1 DEF HistoryInv
<1>4. ASSUME NEW request \in suggesting, SuggestAnswered(request)
      PROVE  HistoryInv'
  <2>1. /\ generating' = generating /\ suggesting' \subseteq suggesting
        /\ selectedModel' = selectedModel /\ draft' = draft
    BY <1>4 DEF SuggestAnswered, SuggestSucceeds, SuggestFails, SuggestReplied, generationVars
  <2> QED BY <2>1 DEF HistoryInv
<1> QED BY <1>2, <1>3, <1>4 DEF DraftReply, GenerateAnswered

LEMMA HistoryNext == DraftInv /\ HistoryInv /\ [DraftNext]_draftVars => HistoryInv'
<1> SUFFICES ASSUME DraftInv, HistoryInv, [DraftNext]_draftVars PROVE HistoryInv'
  OBVIOUS
<1>0. DraftInv'
  BY DraftInvNext
<1>1. draft \in Draft /\ Agreeing(draft)
  BY HistoryAgrees DEF DraftInv, DraftTypeOK
<1>2. CASE Undo
  BY <1>0, <1>1, <1>2, UndoGrows, BecomesHistory DEF Undo
<1>3. CASE Redo
  BY <1>0, <1>1, <1>3, RedoGrows, BecomesHistory DEF Redo
<1>4. ASSUME NEW value \in StoredStates, AdoptState(value)
      PROVE  HistoryInv'
  <2> DEFINE next == [draft EXCEPT !.content.instruction = value.instruction,
                                   !.selectedTypes = value.types]
  <2>1. /\ next.undo = draft.undo /\ next.redo = draft.redo
        /\ next.generationRevision = draft.generationRevision
        /\ next.modelRevision = draft.modelRevision
        /\ next.content.entry = draft.content.entry
        /\ next.content.captured = draft.content.captured
    BY <1>1, DraftFields DEF Draft, Content
  <2>2. Grows(next, draft)
    <3> HIDE DEF next
    <3> QED BY <1>1, <2>1, DraftFields, LeavesHistory
  <2>3. DraftBecomes(next)
    BY <1>4 DEF AdoptState
  <2> HIDE DEF next
  <2> QED BY <1>0, <2>1, <2>2, <2>3, BecomesHistory
<1>5. CASE UNCHANGED draftVars
  BY <1>5 DEF draftVars, generationVars, suggestionVars, HistoryInv
<1> QED
  BY <1>2, <1>3, <1>4, <1>5, EditHistory, RequestHistory, ReplyHistory DEF DraftNext

LEMMA HistoryInvariant == DraftSpec => []HistoryInv
<1>1. DraftInit => HistoryInv
  BY HistoryInit
<1>2. DraftInv /\ HistoryInv /\ [DraftNext]_draftVars => HistoryInv'
  BY HistoryNext
<1> QED BY <1>1, <1>2, DraftInvariant, PTL DEF DraftSpec

-----------------------------------------------------------------------------
(* Redo after undo. *)

(* Undo puts the action on the redo stack with the content it left. *)
LEMMA UndoShape ==
  ASSUME NEW d \in Draft, Agreeing(d), d.undo # <<>>
  PROVE  LET undone == UndoDraft(d) IN
         /\ undone \in Draft /\ undone.redo # <<>>
         /\ Top(undone.redo).after = d.content
         /\ undone.selectedTypes = d.selectedTypes
         /\ undone.modelRevision = d.modelRevision
<1> DEFINE top == Top(d.undo)
           action == Undone(d, top)
           base == Invalidated(Restore(d, action.before))
           undone == UndoDraft(d)
<1>1. top \in Action /\ Agrees(top)
  BY DraftFields, TopPopType, PopElements DEF Actions, Agreeing
<1>2. action \in Action /\ action.after = d.content
  <2> HIDE DEF top
  <2>1. action \in Action
    BY <1>1, UndoneType
  <2>2. action.after = d.content
    BY <1>1 DEF Agrees, Undone, Action, Snapshot
  <2> QED BY <2>1, <2>2
<1>3. /\ base \in Draft /\ base.redo = d.redo
      /\ base.selectedTypes = d.selectedTypes /\ base.modelRevision = d.modelRevision
  <2>1. Restore(d, action.before) \in Draft
    BY <1>2, ActionFields, RestoreType
  <2> QED BY <2>1, ModelChangedType DEF Invalidated, Restore, Draft
<1> HIDE DEF action, base, top
<1>4. undone = [base EXCEPT !.undo = Pop(@), !.redo = Append(@, action)]
  BY DEF UndoDraft, action, base, top
<1> HIDE DEF undone
<1>5. /\ undone.redo = Append(d.redo, action)
      /\ undone.selectedTypes = d.selectedTypes /\ undone.modelRevision = d.modelRevision
  BY <1>3, <1>4 DEF Draft
<1>6. d.redo \in Seq(Action)
  BY DraftFields
<1>7. undone.redo # <<>> /\ Top(undone.redo) = action
  <2>1. Append(d.redo, action) # <<>> /\ Top(Append(d.redo, action)) = action
    BY <1>2, <1>6, TopAppend
  <2> QED BY <1>5, <2>1
<1>8. undone \in Draft
  BY UndoDraftType DEF undone
<1> QED BY <1>2, <1>5, <1>7, <1>8 DEF undone

(* What redo shows: the content the action was left with, or that content  *)
(* with the action's own result when it was asked with these inputs.       *)
LEMMA RedoShows ==
  ASSUME NEW d \in Draft, d.redo # <<>>
  PROVE  LET action == Top(d.redo)
             matches == GenerationMatches(Restore(d, action.after), action)
         IN \/ RedoDraft(d).content = action.after
            \/ /\ matches
               /\ RedoDraft(d).content = ApplyGenerated(action.after, action.generated)
<1> DEFINE action == Top(d.redo)
           matches == GenerationMatches(Restore(d, action.after), action)
           reuse == action.generated # None /\ ~action.afterHasGenerated /\ matches
           content == IF reuse THEN ApplyGenerated(action.after, action.generated)
                      ELSE action.after
           shown == action.afterHasGenerated \/ reuse
           active == IF action.generated = None /\ matches
                     THEN action.requestRevision ELSE None
           next == [action EXCEPT !.after = content, !.afterHasGenerated = shown,
                                  !.resultApplied = shown]
           shows == Restore(d, content)
<1>1. action \in Action
  BY DraftFields, TopPopType
<1>2. content \in Content
  BY <1>1, ActionFields, ApplyGeneratedType
<1>3. shows \in Draft /\ shows.content = content
  BY <1>2, RestoreType DEF Restore, Draft
<1> HIDE DEF next, active, shows, action
<1>4. RedoDraft(d) =
        [shows EXCEPT !.generationRevision = @ + 1, !.activeRevision = active,
                      !.redo = Pop(@), !.undo = Append(@, next)]
  BY DEF RedoDraft, next, active, shows, action
<1>5. RedoDraft(d).content = content
  BY <1>3, <1>4 DEF Draft
<1>6. CASE reuse
  BY <1>5, <1>6 DEF action
<1>7. CASE ~reuse
  BY <1>5, <1>7 DEF action
<1> QED BY <1>6, <1>7

(* Redo after undo shows the draft that undo left, or that draft with the  *)
(* result of the same action when its request was for these inputs: no     *)
(* action whose stored draft has a result is left without it shown, so     *)
(* undo() always has the draft it leaves remembered.                       *)
THEOREM RedoAlwaysInverts == DraftSpec => []RedoInvertsUndo
<1>1. ASSUME DraftInv, HistoryInv
      PROVE  RedoInvertsUndo
  <2> DEFINE undone == UndoDraft(draft)
             action == Top(undone.redo)
  <2> SUFFICES ASSUME draft.undo # <<>>
               PROVE  \/ RedoDraft(undone).content = draft.content
                      \/ /\ GenerationMatches(draft, action)
                         /\ RedoDraft(undone).content =
                              ApplyGenerated(draft.content, action.generated)
    BY DEF RedoInvertsUndo
  <2>1. draft \in Draft /\ Agreeing(draft)
    BY <1>1, HistoryAgrees DEF DraftInv, DraftTypeOK
  <2>2. /\ undone \in Draft /\ undone.redo # <<>> /\ action.after = draft.content
        /\ undone.selectedTypes = draft.selectedTypes
        /\ undone.modelRevision = draft.modelRevision
    BY <2>1, UndoShape
  <2> HIDE DEF undone
  <2>3. \/ RedoDraft(undone).content = action.after
        \/ /\ GenerationMatches(Restore(undone, action.after), action)
           /\ RedoDraft(undone).content = ApplyGenerated(action.after, action.generated)
    BY <2>2, RedoShows
  <2>4. GenerationInputs(Restore(undone, draft.content)) = GenerationInputs(draft)
    <3>1. /\ Restore(undone, draft.content).content = draft.content
          /\ Restore(undone, draft.content).selectedTypes = draft.selectedTypes
          /\ Restore(undone, draft.content).modelRevision = draft.modelRevision
      BY <2>2 DEF Restore, Draft
    <3> QED BY <3>1 DEF GenerationInputs
  <2> HIDE DEF action
  <2> QED BY <2>2, <2>3, <2>4 DEF GenerationMatches, action
<1> QED BY <1>1, DraftInvariant, HistoryInvariant, PTL

-----------------------------------------------------------------------------
(* What a reply may do. *)

(* Only its own answer ends a command. *)
LEMMA OnlyAnswersEnd ==
  ASSUME DraftNext
  PROVE  /\ \/ generating \subseteq generating'
            \/ \E request \in generating : GenerateAnswered(request)
         /\ \/ suggesting \subseteq suggesting'
            \/ \E request \in suggesting : SuggestAnswered(request)
<1>1. ASSUME NEW d, SendGenerate(d) PROVE generating \subseteq generating'
  BY <1>1 DEF SendGenerate
<1>2. CASE DraftEdit
  BY <1>2 DEF DraftEdit, ClearField, EditField, PickInstruction, ClearCard, EditCard,
     AddCard, ToggleType, PickModel, Change, DraftBecomes, generationVars, suggestionVars
<1>3. CASE Undo \/ Redo
  BY <1>3 DEF Undo, Redo, DraftBecomes, generationVars, suggestionVars
<1>4. ASSUME NEW value \in StoredStates, AdoptState(value)
      PROVE  generating \subseteq generating' /\ suggesting \subseteq suggesting'
  BY <1>4 DEF AdoptState, DraftBecomes, generationVars, suggestionVars
<1>5. CASE Generate
  BY <1>1, <1>5 DEF Generate, suggestionVars
<1>6. CASE Suggest
  BY <1>6 DEF Suggest, generationVars
<1>7. ASSUME NEW name \in SenseNames, ChooseSuggestion(name)
      PROVE  generating \subseteq generating' /\ suggesting \subseteq suggesting'
  BY <1>1, <1>7 DEF ChooseSuggestion, generationVars, suggestionVars
<1>8. ASSUME NEW request \in generating, GenerateAnswered(request)
      PROVE  suggesting \subseteq suggesting'
  BY <1>8 DEF GenerateAnswered, GenerateSucceeds, GenerateFails, GenerateReplied, suggestionVars
<1>9. ASSUME NEW request \in suggesting, SuggestAnswered(request)
      PROVE  generating \subseteq generating'
  BY <1>9 DEF SuggestAnswered, SuggestSucceeds, SuggestFails, SuggestReplied, generationVars
<1> QED
  BY <1>2, <1>3, <1>4, <1>5, <1>6, <1>7, <1>8, <1>9 DEF DraftNext, DraftReply

(* Inputs that compare equal differ in blank cards only. *)
LEMMA ComparedFields ==
  ASSUME NEW a \in Inputs, NEW b \in Inputs, Compared(a) = Compared(b)
  PROVE  /\ a.entry = b.entry /\ a.captured = b.captured
         /\ a.instruction = b.instruction /\ a.sense = b.sense
         /\ a.types = b.types /\ a.modelRevision = b.modelRevision
<1>1. ASSUME NEW c \in Inputs
      PROVE  /\ Compared(c).entry = c.entry /\ Compared(c).captured = c.captured
             /\ Compared(c).instruction = c.instruction /\ Compared(c).sense = c.sense
             /\ Compared(c).types = c.types /\ Compared(c).modelRevision = c.modelRevision
  BY DEF Compared, Inputs
<1> QED BY <1>1

(* A draft that matches an action is the one the action's request was for. *)
LEMMA MatchesRequest ==
  ASSUME NEW d \in Draft, NEW model \in Models \cup {None}, NEW request \in Request,
         NEW action, action.requestRevision = request.revision,
         Asked(action, request, d, model), GenerationMatches(d, action)
  PROVE  RequestOf(d, model) = request.inputs
<1>1. action.requestInputs \in Inputs /\ GenerationInputs(d) \in Inputs
  BY GenerationInputsType DEF Asked
<1>2. PICK asked \in Inputs : asked = action.requestInputs
  BY <1>1
<1>3. PICK now \in Inputs : now = GenerationInputs(d)
  BY <1>1
<1>4. /\ now.entry = asked.entry /\ now.captured = asked.captured
      /\ now.instruction = asked.instruction /\ now.sense = asked.sense
      /\ now.types = asked.types /\ now.modelRevision = asked.modelRevision
  BY <1>2, <1>3, ComparedFields DEF GenerationMatches
<1>5. /\ now.entry = d.content.entry /\ now.captured = d.content.captured
      /\ now.instruction = d.content.instruction /\ now.sense = d.content.sense
      /\ now.types = d.selectedTypes /\ now.modelRevision = d.modelRevision
  BY <1>3 DEF GenerationInputs
<1>6. /\ d.content.entry = request.inputs.entry
      /\ d.content.captured = request.inputs.captured
      /\ d.content.instruction = request.inputs.instruction
      /\ d.content.sense = request.inputs.sense
      /\ d.selectedTypes = request.inputs.types
      /\ model = request.inputs.model
  BY <1>2, <1>4, <1>5 DEF Asked
<1>7. request.inputs \in RequestInputs
  BY DEF Request
<1>8. PICK inputs \in RequestInputs : inputs = request.inputs
  BY <1>7
<1> QED BY <1>6, <1>8 DEF RequestOf, RequestInputs

(* What a step may do while a generate command is answered. *)
LEMMA AnswerFits ==
  ASSUME DraftInv, HistoryInv, DraftNext, NEW request \in generating \ generating'
  PROVE  \/ draft'.content = draft.content
         \/ /\ RequestOf(draft, selectedModel) = request.inputs
            /\ \E result \in Results : draft'.content = ApplyGenerated(draft.content, result)
<1>1. /\ draft \in Draft /\ Agreeing(draft) /\ selectedModel \in Models \cup {None}
      /\ request \in Request
  BY HistoryAgrees DEF DraftInv, DraftTypeOK
<1>2. GenerateAnswered(request)
  <2>1. PICK other \in generating : GenerateAnswered(other)
    BY OnlyAnswersEnd
  <2>2. generating' = generating \ {other}
    BY <2>1 DEF GenerateAnswered, GenerateSucceeds, GenerateFails, GenerateReplied
  <2> QED BY <2>1, <2>2
<1>3. CASE GenerateFails(request)
  BY <1>3 DEF GenerateFails
<1>4. CASE GenerateSucceeds(request)
  <2>1. PICK result \in Results : draft' = ReceiveGeneration(draft, request.revision, result)
    BY <1>4, ReplyReceives
  <2>2. \/ draft'.content = draft.content
        \/ /\ draft'.content = ApplyGenerated(draft.content, result)
           /\ \E action \in Actions(draft) :
                action.requestRevision = request.revision /\ GenerationMatches(draft, action)
    BY <1>1, <2>1, ReceiveGrows
  <2>3. ASSUME NEW action \in Actions(draft), action.requestRevision = request.revision,
               GenerationMatches(draft, action)
        PROVE  RequestOf(draft, selectedModel) = request.inputs
    <3>1. Asked(action, request, draft, selectedModel)
      BY DEF HistoryInv
    <3> QED BY <1>1, <2>3, <3>1, MatchesRequest
  <2> QED BY <2>2, <2>3
<1> QED BY <1>2, <1>3, <1>4 DEF GenerateAnswered

(* A late reply, however the draft was edited, undone and redone           *)
(* meanwhile, changes it only while it is the draft the command was        *)
(* started with.                                                           *)
THEOREM RepliesFitDraft == DraftSpec => ReplyFitsDraft
<1>1. ASSUME DraftInv, HistoryInv, [DraftNext]_draftVars
      PROVE  [/\ \A request \in generating \ generating' :
                   draft'.content # draft.content =>
                     RequestOf(draft, selectedModel) = request.inputs
              /\ \A request \in suggesting \ suggesting' :
                   suggestions' # suggestions =>
                     /\ request.inputs.entry = draft.content.entry
                     /\ request.inputs.captured = draft.content.captured
                     /\ request.inputs.model = selectedModel]_draftVars
  <2> SUFFICES ASSUME DraftNext
               PROVE  /\ \A request \in generating \ generating' :
                           draft'.content # draft.content =>
                             RequestOf(draft, selectedModel) = request.inputs
                      /\ \A request \in suggesting \ suggesting' :
                           suggestions' # suggestions =>
                             /\ request.inputs.entry = draft.content.entry
                             /\ request.inputs.captured = draft.content.captured
                             /\ request.inputs.model = selectedModel
    BY <1>1
  <2>1. ASSUME NEW request \in suggesting \ suggesting', suggestions' # suggestions
        PROVE  /\ request.inputs.entry = draft.content.entry
               /\ request.inputs.captured = draft.content.captured
               /\ request.inputs.model = selectedModel
    <3>1. PICK other \in suggesting : SuggestAnswered(other)
      BY <2>1, OnlyAnswersEnd
    <3>2. suggesting' = suggesting \ {other}
      BY <3>1 DEF SuggestAnswered, SuggestSucceeds, SuggestFails, SuggestReplied
    <3>3. other = request /\ SuggestSucceeds(request)
      BY <2>1, <3>1, <3>2 DEF SuggestAnswered, SuggestFails
    <3>4. request.revision = draft.generationRevision
      BY <2>1, <3>3 DEF SuggestSucceeds
    <3>5. Suggests(request, draft, selectedModel)
      BY <1>1, <2>1 DEF HistoryInv
    <3> QED BY <3>4, <3>5 DEF Suggests
  <2>2. ASSUME NEW request \in generating \ generating', draft'.content # draft.content
        PROVE  RequestOf(draft, selectedModel) = request.inputs
    BY <1>1, <2>2, AnswerFits
  <2> QED BY <2>1, <2>2
<1> QED BY <1>1, DraftInvariant, HistoryInvariant, PTL DEF DraftSpec, ReplyFitsDraft

(* A generated text is put in a blank card or in a new one. *)
LEMMA FillKeeps ==
  ASSUME NEW cards \in Seq(Card), NEW text, NEW i \in DOMAIN cards, cards[i].text # Blank
  PROVE  Fill(cards, text)[i] = cards[i]
<1> DEFINE card == [text |-> text, edited |-> FALSE]
           blank == BlankSlots(cards)
<1>1. DOMAIN cards = 1..Len(cards) /\ Len(cards) \in Nat
  BY LenProperties
<1>2. CASE blank = {}
  <2>1. Fill(cards, text) = Append(cards, card)
    BY <1>2 DEF Fill
  <2> HIDE DEF card
  <2> QED BY <1>1, <2>1
<1>3. CASE blank # {}
  <2>1. blank \in SUBSET Nat
    BY <1>1 DEF BlankSlots
  <2>2. FirstOf(blank) \in blank
    BY <1>3, <2>1, FirstOfMember
  <2>3. i # FirstOf(blank)
    BY <2>2 DEF BlankSlots
  <2>4. Fill(cards, text) = [cards EXCEPT ![FirstOf(blank)] = card]
    BY <1>3 DEF Fill
  <2> HIDE DEF blank, card
  <2> QED BY <2>3, <2>4
<1> QED BY <1>2, <1>3

(* Whatever the result and the draft it arrives at, no text in a card is   *)
(* replaced by it.                                                         *)
THEOREM RepliesKeepText == DraftSpec => ReplyKeepsText
<1>1. ASSUME DraftInv, HistoryInv, [DraftNext]_draftVars
      PROVE  [generating \ generating' # {} =>
                \A t \in Types : \A i \in DOMAIN draft.content.cards[t] :
                  draft.content.cards[t][i].text # Blank =>
                    draft'.content.cards[t][i] = draft.content.cards[t][i]]_draftVars
  <2> SUFFICES ASSUME DraftNext, NEW request \in generating \ generating',
                      NEW t \in Types, NEW i \in DOMAIN draft.content.cards[t],
                      draft.content.cards[t][i].text # Blank
               PROVE  draft'.content.cards[t][i] = draft.content.cards[t][i]
    BY <1>1
  <2>1. CASE draft'.content = draft.content
    BY <2>1
  <2>2. ASSUME NEW result \in Results, draft'.content = ApplyGenerated(draft.content, result)
        PROVE  draft'.content.cards[t][i] = draft.content.cards[t][i]
    <3>1. draft.content \in Content /\ draft.content.cards[t] \in Seq(Card)
      BY <1>1, DraftFields, ContentFields DEF DraftInv, DraftTypeOK
    <3>2. draft'.content.cards[t] =
            IF t \in DOMAIN result.texts THEN Fill(draft.content.cards[t], result.texts[t])
            ELSE draft.content.cards[t]
      BY <2>2, <3>1 DEF ApplyGenerated, Content
    <3> QED BY <3>1, <3>2, FillKeeps
  <2> QED BY <1>1, <2>1, <2>2, AnswerFits
<1> QED BY <1>1, DraftInvariant, HistoryInvariant, PTL DEF DraftSpec, ReplyKeepsText

-----------------------------------------------------------------------------
(* Saving, flushing and leaving. *)

(* No handler changes the draft but as OverlayDraft allows it.             *)
LEMMA StepDrivesDraft ==
  ASSUME SessionTypeOK, [Next]_vars
  PROVE  [DraftNext]_draftVars
<1> USE DEF vars
<1>1. CASE Leave
  BY <1>1 DEF Leave, OpenDrawer, CloseDrawer, Cancel, Back
<1>2. CASE UserEdits
  <2>1. DraftEdit
    BY <1>2 DEF UserEdits, DraftEdit
  <2> QED BY <2>1 DEF DraftNext
<1>3. CASE Press
  <2>1. ASSUME NEW t \in Types, UserAddsCard(t) \/ UserTogglesType(t)
        PROVE  DraftNext
    BY <2>1 DEF UserAddsCard, UserTogglesType, DraftNext, DraftEdit
  <2>2. ASSUME NEW model \in Models, UserPicksModel(model)
        PROVE  DraftNext
    BY <2>2 DEF UserPicksModel, DraftNext, DraftEdit
  <2>3. ASSUME NEW name \in SenseNames, UserChoosesSense(name)
        PROVE  DraftNext
    BY <2>3 DEF UserChoosesSense, DraftNext
  <2>4. CASE UserUndoes \/ UserRedoes \/ UserGenerates \/ UserSuggests
    BY <2>4 DEF UserUndoes, UserRedoes, UserGenerates, UserSuggests, DraftNext
  <2>5. ASSUME NEW kind \in Kinds, Save(kind)
        PROVE  UNCHANGED draftVars
    BY <2>5 DEF Save
  <2> QED BY <1>3, <2>1, <2>2, <2>3, <2>4, <2>5 DEF Press
<1>4. CASE StateTimerFires
  BY <1>4 DEF StateTimerFires
<1>5. CASE Run
  BY <1>5 DEF Run, StateReadRuns, StateWriteRuns, SaveRuns
<1>6. CASE Finish
  <2>1. CASE StateReadFinished
    <3>1. stateRead.value \in StoredStates
      BY StoredIsLocal DEF SessionTypeOK, StateJob
    <3> QED BY <2>1, <3>1 DEF StateReadFinished, DraftNext
  <2>2. CASE StateWriteFinished \/ SaveFinished
    BY <2>2 DEF StateWriteFinished, SaveFinished
  <2>3. ASSUME NEW request \in generating, GenerateFinished(request)
        PROVE  DraftNext
    BY <2>3 DEF GenerateFinished, GenerateAnswered, DraftReply, DraftNext
  <2>4. ASSUME NEW request \in suggesting, SuggestFinished(request)
        PROVE  DraftNext
    BY <2>4 DEF SuggestFinished, SuggestAnswered, DraftReply, DraftNext
  <2> QED BY <1>6, <2>1, <2>2, <2>3, <2>4 DEF Finish
<1>7. CASE UNCHANGED vars
  BY <1>7
<1> QED BY <1>1, <1>2, <1>3, <1>4, <1>5, <1>6, <1>7 DEF Next
-----------------------------------------------------------------------------
(* Saving. *)

(* A pending Save has its command in flight or answered, was pressed on an *)
(* open drawer before any confirmed Save, and a receipt is that of the     *)
(* payload the Save was pressed with.                                      *)
SaveInv ==
  /\ saving <=> saveJob.phase # "idle"
  /\ saving => ~savedAlready /\ expanded /\ pendingSave \in Payload
  /\ saveJob.phase = "replied" /\ saveJob.receipt # None =>
       saveJob.ok /\ saveJob.receipt = ReceiptOf(pendingSave)

(* Only a press of Save, its process and its reply touch the Save. *)
LEMMA SaveStable ==
  ASSUME [Next]_vars
  PROVE  \/ \E kind \in Kinds : Save(kind)
         \/ SaveRuns
         \/ SaveFinished
         \/ UNCHANGED saveVars /\ (saving /\ expanded => expanded')
<1>1. CASE Leave
  BY <1>1 DEF Leave, OpenDrawer, CloseDrawer, Cancel, Back
<1>2. CASE UserEdits
  BY <1>2 DEF UserEdits, UpdateText
<1>3. CASE Press
  BY <1>3 DEF Press, UserAddsCard, UserTogglesType, UserUndoes, UserRedoes, UserPicksModel,
              UserGenerates, UserSuggests, UserChoosesSense, sessionVars
<1>4. CASE StateTimerFires
  BY <1>4 DEF StateTimerFires
<1>5. CASE Run
  BY <1>5 DEF Run, StateReadRuns, StateWriteRuns
<1>6. CASE Finish
  <2>1. CASE StateReadFinished \/ StateWriteFinished \/ SaveFinished
    BY <2>1 DEF StateReadFinished, StateWriteFinished, ShowError
  <2>2. ASSUME NEW request \in generating, GenerateFinished(request)
        PROVE  UNCHANGED saveVars /\ (saving /\ expanded => expanded')
    BY <2>2 DEF GenerateFinished, ShowError
  <2>3. ASSUME NEW request \in suggesting, SuggestFinished(request)
        PROVE  UNCHANGED saveVars /\ (saving /\ expanded => expanded')
    BY <2>3 DEF SuggestFinished, ShowError
  <2> QED BY <1>6, <2>1, <2>2, <2>3 DEF Finish
<1>7. CASE UNCHANGED vars
  BY <1>7 DEF vars, sessionVars
<1> QED BY <1>1, <1>2, <1>3, <1>4, <1>5, <1>6, <1>7 DEF Next

(* No Save is pending when the overlay opens. *)
LEMMA SaveInvInit == Init => SaveInv
BY DEF Init, SaveInv

(* What Save sends is a payload of the kind it was pressed for. *)
LEMMA SavePayloadType ==
  ASSUME NEW d \in Draft, NEW kind \in Kinds
  PROVE  SavePayload(d, kind) \in Payload
<1>1. FilledCards(d.content) \in SUBSET (Types \X Nat)
  <2>1. ASSUME NEW t \in Types, NEW i \in DOMAIN d.content.cards[t]
        PROVE  i \in Nat
    <3>1. d.content.cards[t] \in Seq(Card)
      BY DraftFields, ContentFields
    <3> QED BY <3>1
  <2>2. ASSUME NEW x \in FilledCards(d.content)
        PROVE  x \in Types \X Nat
    <3>1. PICK t \in Types :
            x \in {<<t, i>> : i \in {j \in DOMAIN d.content.cards[t] :
                                    d.content.cards[t][j].text # Blank}}
      BY <2>2 DEF FilledCards
    <3>2. PICK i \in DOMAIN d.content.cards[t] : x = <<t, i>>
      BY <3>1
    <3> QED BY <2>1, <3>2
  <2> QED BY <2>2
<1> QED
  BY <1>1 DEF SavePayload, Payload

(* Every step keeps the Save command and the flags around it in step. *)
LEMMA SaveInvNext ==
  ASSUME DraftInv, SessionTypeOK, SaveInv, [Next]_vars
  PROVE  SaveInv'
<1>1. ASSUME NEW kind \in Kinds, Save(kind)
      PROVE  SaveInv'
  <2>1. SavePayload(draft, kind) \in Payload
    BY SavePayloadType DEF DraftInv, DraftTypeOK
  <2> QED BY <1>1, <2>1 DEF Save, SaveInv
<1>2. CASE SaveRuns
  BY <1>2 DEF SaveRuns, SaveInv
<1>3. CASE SaveFinished
  BY <1>3 DEF SaveFinished, SaveInv, SessionTypeOK, SaveJob
<1>4. CASE UNCHANGED saveVars /\ (saving /\ expanded => expanded')
  BY <1>4 DEF saveVars, SaveInv
<1> QED BY <1>1, <1>2, <1>3, <1>4, SaveStable

-----------------------------------------------------------------------------
(* The local state on its way to disk. *)

(* The flags of the state-write command: a change waits for the timer, the *)
(* pending write or the user; a closing overlay waits for the write.       *)
WriteInv ==
  /\ stateWritePending <=> stateWrite.phase # "idle"
  /\ DirtyIsScheduled
  /\ ClosingIsFlushing
  /\ exited /\ ~forced => ~stateDirty /\ ~stateWritePending

(* The steps that touch a state-write, the timer or leaving. *)
LEMMA WriteStable ==
  ASSUME [Next]_vars
  PROVE  \/ Cancel \/ Back \/ StateTimerFires \/ StateWriteRuns \/ StateWriteFinished
         \/ SaveFinished
         \/ Open /\ ScheduleFlush /\ UNCHANGED exitVars
         \/ UNCHANGED <<writeVars, exitVars>>
<1>1. CASE Leave
  BY <1>1 DEF Leave, OpenDrawer, CloseDrawer
<1>2. CASE UserEdits
  BY <1>2 DEF UserEdits, UpdateText
<1>3. CASE Press
  BY <1>3 DEF Press, UserAddsCard, UserTogglesType, UserUndoes, UserRedoes, UserPicksModel,
              UserGenerates, UserSuggests, UserChoosesSense, Save, sessionVars
<1>4. CASE StateTimerFires
  BY <1>4
<1>5. CASE Run
  BY <1>5 DEF Run, StateReadRuns, SaveRuns
<1>6. CASE Finish
  <2>1. CASE StateReadFinished \/ StateWriteFinished \/ SaveFinished
    BY <2>1 DEF StateReadFinished
  <2>2. ASSUME NEW request \in generating, GenerateFinished(request)
        PROVE  UNCHANGED <<writeVars, exitVars>>
    BY <2>2 DEF GenerateFinished
  <2>3. ASSUME NEW request \in suggesting, SuggestFinished(request)
        PROVE  UNCHANGED <<writeVars, exitVars>>
    BY <2>3 DEF SuggestFinished
  <2> QED BY <1>6, <2>1, <2>2, <2>3 DEF Finish
<1>7. CASE UNCHANGED vars
  BY <1>7 DEF vars, sessionVars
<1> QED BY <1>1, <1>2, <1>3, <1>4, <1>5, <1>6, <1>7 DEF Next

(* Nothing is dirty and nothing is closing when the overlay opens. *)
LEMMA WriteInvInit == Init => WriteInv
BY DEF Init, WriteInv, DirtyIsScheduled, ClosingIsFlushing, Started

(* requestExit() starts the flush it then waits for. *)
LEMMA RequestExitInv ==
  ASSUME SessionTypeOK, WriteInv, Open, NEW explicit \in BOOLEAN, RequestExit(explicit),
         UNCHANGED <<stateWriteFailed, disk>>
  PROVE  WriteInv'
BY DEF RequestExit, FlushState, Started, WriteInv, DirtyIsScheduled, ClosingIsFlushing, Open,
       SessionTypeOK

(* Every step keeps what is dirty scheduled and a closing overlay flushing. *)
LEMMA WriteInvNext ==
  ASSUME SessionTypeOK, WriteInv, [Next]_vars
  PROVE  WriteInv'
<1>1. CASE Cancel \/ Back
  BY <1>1, RequestExitInv DEF Cancel, Back
<1>2. CASE SaveFinished
  <2>1. CASE Confirmed
    <3>1. Open /\ RequestExit(FALSE) /\ UNCHANGED <<stateWriteFailed, disk>>
      BY <1>2, <2>1 DEF SaveFinished
    <3> QED BY <3>1, RequestExitInv
  <2>2. CASE ~Confirmed
    <3>1. UNCHANGED <<exitVars, stateDirty, stateWritePending, stateTimer, stateWrite,
                      stateWriteFailed>>
      BY <1>2, <2>2 DEF SaveFinished
    <3> QED BY <3>1 DEF exitVars, WriteInv, DirtyIsScheduled, ClosingIsFlushing
  <2> QED BY <2>1, <2>2
<1>3. CASE StateTimerFires
  BY <1>3 DEF StateTimerFires, FlushState, Started, WriteInv, DirtyIsScheduled,
              ClosingIsFlushing, Open, SessionTypeOK
<1>4. CASE StateWriteRuns
  <2>1. /\ stateWrite'.phase = "replied" /\ stateWrite.phase = "running"
        /\ UNCHANGED <<stateDirty, stateWriteFailed, stateWritePending, stateTimer, exitVars>>
    BY <1>4 DEF StateWriteRuns, SessionTypeOK, StateJob
  <2> QED BY <2>1 DEF exitVars, WriteInv, DirtyIsScheduled, ClosingIsFlushing
<1>5. CASE StateWriteFinished
  <2> DEFINE done == [stateWrite EXCEPT !.phase = "idle"]
  <2>1. /\ Open /\ stateWrite.phase # "idle" /\ done.phase = "idle"
        /\ UNCHANGED <<stateTimer, forced>>
    BY <1>5 DEF StateWriteFinished, SessionTypeOK, StateJob
  <2>2. CASE ~stateWrite.ok
    <3>1. /\ stateWritePending' = FALSE /\ stateWriteFailed' = TRUE
          /\ closing' = FALSE /\ stateDirty' = TRUE /\ stateWrite' = done
          /\ UNCHANGED exited
      BY <1>5, <2>2 DEF StateWriteFinished
    <3> HIDE DEF done
    <3> QED BY <2>1, <3>1 DEF WriteInv, DirtyIsScheduled, ClosingIsFlushing, Open
  <2>3. CASE stateWrite.ok
    <3>1. /\ FlushState(stateDirty, FALSE, done, closing)
          /\ UNCHANGED closing
      BY <1>5, <2>3 DEF StateWriteFinished
    <3> HIDE DEF done
    <3>2. /\ stateDirty' = FALSE
          /\ \/ /\ stateWritePending' = FALSE /\ stateWrite' = done /\ exited' = closing
             \/ /\ stateWritePending' = TRUE /\ stateWrite'.phase = "running"
                /\ exited' = exited
      BY <3>1 DEF FlushState, Started
    <3> QED BY <2>1, <3>1, <3>2 DEF WriteInv, DirtyIsScheduled, ClosingIsFlushing, Open
  <2> QED BY <2>2, <2>3
<1>6. CASE Open /\ ScheduleFlush /\ UNCHANGED exitVars
  BY <1>6 DEF ScheduleFlush, exitVars, WriteInv, DirtyIsScheduled, ClosingIsFlushing, Open
<1>7. CASE UNCHANGED <<writeVars, exitVars>>
  BY <1>7 DEF writeVars, exitVars, WriteInv, DirtyIsScheduled, ClosingIsFlushing
<1> QED BY <1>1, <1>2, <1>3, <1>4, <1>5, <1>6, <1>7, WriteStable
-----------------------------------------------------------------------------
(* The types of a session.  The local state of a draft can be given to a   *)
(* state-write.                                                            *)
LEMMA StartedType ==
  ASSUME NEW d \in Draft
  PROVE  LocalState(d) \in LocalStates /\ Started(LocalState(d)) \in StateJob
<1>1. LocalState(d) \in LocalStates
  BY DraftFields, ContentFields DEF LocalState, LocalStates
<1> QED BY <1>1 DEF Started, StateJob, Phases

SaveTypeOK ==
  /\ saving \in BOOLEAN /\ savedAlready \in BOOLEAN
  /\ pendingSave \in Payload \cup {None}
  /\ saveJob \in SaveJob /\ dictionary \in Nat

WriteTypeOK ==
  /\ stateDirty \in BOOLEAN /\ stateWriteFailed \in BOOLEAN
  /\ stateWritePending \in BOOLEAN /\ stateTimer \in BOOLEAN /\ closing \in BOOLEAN
  /\ exited \in BOOLEAN /\ forced \in BOOLEAN
  /\ stateWrite \in StateJob /\ disk \in LocalStates

ReadTypeOK == stateTouched \in BOOLEAN /\ expanded \in BOOLEAN /\ stateRead \in StateJob

(* The type invariant of a session, by the part each handler touches. *)
LEMMA SessionTypeParts == SessionTypeOK <=> SaveTypeOK /\ WriteTypeOK /\ ReadTypeOK
BY DEF SessionTypeOK, SaveTypeOK, WriteTypeOK, ReadTypeOK

(* Every step keeps the Save's types. *)
LEMMA SaveTypeNext ==
  ASSUME DraftInv, SaveTypeOK, SaveInv, [Next]_vars
  PROVE  SaveTypeOK'
<1>1. ASSUME NEW kind \in Kinds, Save(kind)
      PROVE  SaveTypeOK'
  <2>1. SavePayload(draft, kind) \in Payload
    BY SavePayloadType DEF DraftInv, DraftTypeOK
  <2>2. [phase |-> "running", ok |-> FALSE, receipt |-> None] \in SaveJob
    BY DEF SaveJob, Phases
  <2>3. /\ saving' = TRUE /\ pendingSave' \in Payload
        /\ saveJob' \in SaveJob /\ UNCHANGED <<savedAlready, dictionary>>
    BY <1>1, <2>1, <2>2 DEF Save
  <2> QED BY <2>3 DEF SaveTypeOK
<1>2. CASE SaveRuns
  <2>1. pendingSave \in Payload
    BY <1>2 DEF SaveRuns, SaveInv
  <2>2. ReceiptOf(pendingSave) \in Receipt
    BY <2>1 DEF ReceiptOf, Receipt, Payload
  <2>3. dictionary' \in Nat /\ UNCHANGED <<saving, pendingSave, savedAlready>>
    BY <1>2 DEF SaveRuns, SaveTypeOK
  <2>4. saveJob' \in SaveJob
    BY <1>2, <2>2 DEF SaveRuns, SaveJob, Phases
  <2> QED BY <2>3, <2>4 DEF SaveTypeOK
<1>3. CASE SaveFinished
  <2>1. [saveJob EXCEPT !.phase = "idle"] \in SaveJob
    BY DEF SaveTypeOK, SaveJob, Phases
  <2> QED BY <1>3, <2>1 DEF SaveFinished, SaveTypeOK
<1>4. CASE UNCHANGED saveVars
  BY <1>4 DEF saveVars, SaveTypeOK
<1> QED BY <1>1, <1>2, <1>3, <1>4, SaveStable

(* flushState() keeps the types of what it assigns. *)
LEMMA FlushType ==
  ASSUME DraftInv, WriteTypeOK, NEW dirty \in BOOLEAN, NEW pending \in BOOLEAN,
         NEW job \in StateJob, NEW isClosing \in BOOLEAN,
         FlushState(dirty, pending, job, isClosing)
  PROVE  /\ stateDirty' \in BOOLEAN /\ stateWritePending' \in BOOLEAN
         /\ stateWrite' \in StateJob /\ exited' \in BOOLEAN
<1>1. Started(LocalState(draft)) \in StateJob
  BY StartedType DEF DraftInv, DraftTypeOK
<1> QED BY <1>1 DEF FlushState, WriteTypeOK

(* requestExit() keeps the types of writing and leaving. *)
LEMMA ExitType ==
  ASSUME DraftInv, WriteTypeOK, NEW explicit \in BOOLEAN, RequestExit(explicit),
         UNCHANGED <<stateWriteFailed, disk>>
  PROVE  WriteTypeOK'
<1>1. CASE stateWriteFailed /\ explicit
  BY <1>1 DEF RequestExit, WriteTypeOK
<1>2. CASE ~(stateWriteFailed /\ explicit)
  <2>1. /\ FlushState(stateDirty, stateWritePending, stateWrite, TRUE)
        /\ closing' = TRUE /\ stateTimer' = FALSE /\ UNCHANGED forced
    BY <1>2 DEF RequestExit
  <2>2. /\ stateDirty' \in BOOLEAN /\ stateWritePending' \in BOOLEAN
        /\ stateWrite' \in StateJob /\ exited' \in BOOLEAN
    BY <2>1, FlushType DEF WriteTypeOK
  <2> QED BY <2>1, <2>2 DEF WriteTypeOK
<1> QED BY <1>1, <1>2

(* Every step keeps the types of writing and leaving. *)
LEMMA WriteTypeNext ==
  ASSUME DraftInv, WriteTypeOK, [Next]_vars
  PROVE  WriteTypeOK'
<1>1. CASE Cancel \/ Back
  BY <1>1, ExitType DEF Cancel, Back
<1>2. CASE SaveFinished
  <2>1. RequestExit(FALSE) \/ UNCHANGED <<exitVars, stateDirty, stateWritePending, stateTimer,
                                          stateWrite>>
    BY <1>2 DEF SaveFinished
  <2>2. UNCHANGED <<stateWriteFailed, disk>>
    BY <1>2 DEF SaveFinished
  <2> QED BY <2>1, <2>2, ExitType DEF WriteTypeOK, exitVars
<1>3. CASE StateTimerFires
  <2>1. /\ FlushState(stateDirty, stateWritePending, stateWrite, closing)
        /\ stateTimer' = FALSE /\ UNCHANGED <<stateWriteFailed, disk, closing, forced>>
    BY <1>3 DEF StateTimerFires
  <2> QED BY <2>1, FlushType DEF WriteTypeOK
<1>4. CASE StateWriteRuns
  <2>1. PICK ok \in BOOLEAN, replaced \in BOOLEAN :
          /\ disk' = IF replaced THEN stateWrite.value ELSE disk
          /\ stateWrite' = [stateWrite EXCEPT !.phase = "replied", !.ok = ok]
    BY <1>4 DEF StateWriteRuns
  <2>2. stateWrite.value \in LocalStates
    BY DEF WriteTypeOK, StateJob
  <2>3. stateWrite' \in StateJob
    BY <2>1 DEF WriteTypeOK, StateJob, Phases
  <2> QED BY <1>4, <2>1, <2>2, <2>3 DEF StateWriteRuns, WriteTypeOK, exitVars
<1>5. CASE StateWriteFinished
  <2> DEFINE done == [stateWrite EXCEPT !.phase = "idle"]
  <2>1. done \in StateJob
    BY DEF WriteTypeOK, StateJob, Phases
  <2>2. UNCHANGED <<stateTimer, disk, forced>>
    BY <1>5 DEF StateWriteFinished
  <2>3. \/ /\ stateWritePending' = FALSE /\ stateWriteFailed' = TRUE
           /\ closing' = FALSE /\ stateDirty' = TRUE /\ stateWrite' = done
           /\ UNCHANGED exited
        \/ /\ stateWriteFailed' = FALSE /\ UNCHANGED closing
           /\ FlushState(stateDirty, FALSE, done, closing)
    BY <1>5 DEF StateWriteFinished
  <2> HIDE DEF done
  <2> QED BY <2>1, <2>2, <2>3, FlushType DEF WriteTypeOK
<1>6. CASE ScheduleFlush /\ UNCHANGED exitVars
  BY <1>6 DEF ScheduleFlush, exitVars, WriteTypeOK
<1>7. CASE UNCHANGED <<writeVars, exitVars>>
  BY <1>7 DEF writeVars, exitVars, WriteTypeOK
<1> QED BY <1>1, <1>2, <1>3, <1>4, <1>5, <1>6, <1>7, WriteStable

(* Every step keeps the types of the state-read and of the drawer. *)
LEMMA ReadTypeNext ==
  ASSUME WriteTypeOK, ReadTypeOK, [Next]_vars
  PROVE  ReadTypeOK'
<1>1. CASE Leave
  BY <1>1 DEF Leave, OpenDrawer, CloseDrawer, Cancel, Back, readVars, ReadTypeOK
<1>2. CASE UserEdits
  <2>1. PICK field : UpdateText(field)
    BY <1>2 DEF UserEdits
  <2> QED BY <2>1 DEF UpdateText, ReadTypeOK
<1>3. CASE Press
  BY <1>3 DEF Press, UserAddsCard, UserTogglesType, UserUndoes, UserRedoes, UserPicksModel,
              UserGenerates, UserSuggests, UserChoosesSense, Save, sessionVars, readVars,
              ReadTypeOK
<1>4. CASE StateTimerFires
  BY <1>4 DEF StateTimerFires, readVars, ReadTypeOK
<1>5. CASE Run
  <2>1. CASE StateReadRuns
    <3>1. PICK ok \in BOOLEAN : stateRead' = [phase |-> "replied", ok |-> ok, value |-> disk]
      BY <2>1 DEF StateReadRuns
    <3>2. stateRead' \in StateJob
      BY <3>1 DEF WriteTypeOK, StateJob, Phases
    <3> QED BY <2>1, <3>2 DEF StateReadRuns, ReadTypeOK
  <2>2. CASE StateWriteRuns \/ SaveRuns
    BY <2>2 DEF StateWriteRuns, SaveRuns, readVars, ReadTypeOK
  <2> QED BY <1>5, <2>1, <2>2 DEF Run
<1>6. CASE Finish
  <2>1. CASE StateReadFinished
    <3>1. [stateRead EXCEPT !.phase = "idle"] \in StateJob
      BY DEF ReadTypeOK, StateJob, Phases
    <3> QED BY <2>1, <3>1 DEF StateReadFinished, ShowError, ReadTypeOK
  <2>2. CASE StateWriteFinished \/ SaveFinished
    BY <2>2 DEF StateWriteFinished, SaveFinished, ShowError, readVars, ReadTypeOK
  <2>3. ASSUME NEW request \in generating, GenerateFinished(request)
        PROVE  ReadTypeOK'
    BY <2>3 DEF GenerateFinished, ShowError, readVars, ReadTypeOK
  <2>4. ASSUME NEW request \in suggesting, SuggestFinished(request)
        PROVE  ReadTypeOK'
    BY <2>4 DEF SuggestFinished, ShowError, readVars, ReadTypeOK
  <2> QED BY <1>6, <2>1, <2>2, <2>3, <2>4 DEF Finish
<1>7. CASE UNCHANGED vars
  BY <1>7 DEF vars, sessionVars, readVars, ReadTypeOK
<1> QED BY <1>1, <1>2, <1>3, <1>4, <1>5, <1>6, <1>7 DEF Next

(* A session opens well-typed. *)
LEMMA SessionTypeInit == Init => SessionTypeOK
<1>1. Started(Remembered) \in StateJob
  BY RememberedAssumption DEF StateJob, Started, Phases
<1>2. [Started(Remembered) EXCEPT !.phase = "idle"] \in StateJob
  BY <1>1 DEF StateJob, Phases
<1>3. [phase |-> "idle", ok |-> FALSE, receipt |-> None] \in SaveJob
  BY DEF SaveJob, Phases
<1>4. Init => SaveTypeOK
  <2> SUFFICES ASSUME Init PROVE SaveTypeOK
    OBVIOUS
  <2>1. dictionary \in Nat
    BY DEF Init
  <2>2. saving = FALSE /\ savedAlready = FALSE /\ pendingSave = None
    BY DEF Init
  <2>3. saveJob \in SaveJob
    BY <1>3 DEF Init
  <2> QED BY <2>1, <2>2, <2>3 DEF SaveTypeOK
<1>5. Init => WriteTypeOK
  BY <1>2, RememberedAssumption DEF Init, WriteTypeOK
<1>6. Init => ReadTypeOK
  BY <1>1 DEF Init, ReadTypeOK
<1> QED BY <1>4, <1>5, <1>6, SessionTypeParts

-----------------------------------------------------------------------------
(* The invariant of a session, and what follows from it. *)

SessionInv == DraftInv /\ SessionTypeOK /\ SaveInv /\ WriteInv

(* The inductive invariant holds when the overlay opens. *)
LEMMA SessionInvInit == Init => SessionInv
<1> SUFFICES ASSUME Init PROVE SessionInv
  OBVIOUS
<1>1. DraftInv
  BY DraftInvInit DEF Init
<1> QED BY <1>1, SessionTypeInit, SaveInvInit, WriteInvInit DEF SessionInv

(* Every step keeps the inductive invariant. *)
LEMMA SessionInvNext == SessionInv /\ [Next]_vars => SessionInv'
<1> SUFFICES ASSUME SessionInv, [Next]_vars PROVE SessionInv'
  OBVIOUS
<1>1. DraftInv'
  BY StepDrivesDraft, DraftInvNext DEF SessionInv
<1>2. SessionTypeOK'
  BY SessionTypeParts, SaveTypeNext, WriteTypeNext, ReadTypeNext
     DEF SessionInv, SessionTypeOK, SaveTypeOK, WriteTypeOK, ReadTypeOK
<1>3. SaveInv' /\ WriteInv'
  BY SaveInvNext, WriteInvNext DEF SessionInv
<1> QED BY <1>1, <1>2, <1>3 DEF SessionInv

(* The inductive invariant holds throughout a session. *)
LEMMA SessionInvariant == Spec => []SessionInv
BY SessionInvInit, SessionInvNext, PTL DEF Spec

(* Every session state has the types the handlers rely on. *)
THEOREM TypeCorrect == Spec => []TypeOK
<1>1. SessionInv => TypeOK
  BY DEF SessionInv, TypeOK, DraftInv
<1> QED BY <1>1, SessionInvariant, PTL

(* No change of the Instruction or the Types is left without something     *)
(* that will write it or tell the user: flushState and commandFinished.    *)
THEOREM DirtyCorrect == Spec => []DirtyIsScheduled
<1>1. SessionInv => DirtyIsScheduled
  BY DEF SessionInv, WriteInv
<1> QED BY <1>1, SessionInvariant, PTL

(* An overlay that is closing has a state-write command it waits for.      *)
THEOREM ClosingCorrect == Spec => []ClosingIsFlushing
<1>1. SessionInv => ClosingIsFlushing
  BY DEF SessionInv, WriteInv
<1> QED BY <1>1, SessionInvariant, PTL

(* After a valid receipt nothing more of this review reaches the           *)
(* Dictionary: savedAlready is only set once no Save is in flight.         *)
THEOREM NothingMoreSaved == Spec => NothingSavedAfterReceipt
<1>1. SessionInv /\ [Next]_vars => [savedAlready => dictionary' = dictionary]_vars
  <2> SUFFICES ASSUME SessionInv, [Next]_vars, savedAlready PROVE dictionary' = dictionary
    OBVIOUS
  <2>1. ~saving /\ saveJob.phase = "idle"
    BY DEF SessionInv, SaveInv
  <2>2. ~SaveRuns
    BY <2>1 DEF SaveRuns
  <2>3. ASSUME NEW kind \in Kinds, Save(kind) PROVE dictionary' = dictionary
    BY <2>3 DEF Save
  <2>4. CASE SaveFinished
    BY <2>4 DEF SaveFinished
  <2>5. CASE UNCHANGED saveVars
    BY <2>5 DEF saveVars
  <2> QED BY <2>2, <2>3, <2>4, <2>5, SaveStable
<1> QED BY <1>1, SessionInvariant, PTL DEF Spec, NothingSavedAfterReceipt

(* The receipt of a committed Save is recognised, whatever undo, redo,     *)
(* replies and added cards made of the draft since Save was pressed.       *)
THEOREM ReceiptsRecognised == Spec => ReceiptRecognised
<1>1. SessionInv /\ [Next]_vars =>
        [saving /\ ~saving' /\ saveJob.receipt # None => savedAlready']_vars
  <2> SUFFICES ASSUME SessionInv, [Next]_vars, saving, ~saving', saveJob.receipt # None
               PROVE  savedAlready'
    OBVIOUS
  <2>1. SaveFinished
    <3>1. \A kind \in Kinds : ~Save(kind)
      BY DEF Save
    <3>2. ~SaveRuns
      BY DEF SaveRuns
    <3>3. ~UNCHANGED saveVars
      BY DEF saveVars
    <3> QED BY <3>1, <3>2, <3>3, SaveStable
  <2>2. /\ saveJob.phase = "replied"
        /\ saveJob.ok /\ saveJob.receipt = ReceiptOf(pendingSave)
    BY <2>1 DEF SaveFinished, SessionInv, SaveInv
  <2>3. ValidSaveReceipt(saveJob.receipt, pendingSave)
    BY <2>2 DEF ValidSaveReceipt, ReceiptOf
  <2>4. Confirmed
    BY <2>2, <2>3 DEF Confirmed
  <2> QED BY <2>1, <2>4 DEF SaveFinished
<1> QED BY <1>1, SessionInvariant, PTL DEF Spec, ReceiptRecognised

(* The overlay never quits under a pending Save, but for a Cancel that was *)
(* pressed before it and still waited for the state file.                  *)
THEOREM OnlyCancelLeavesSave == Spec => ExitWhileSavingWasCancel
<1>1. SessionInv /\ [Next]_vars =>
        [saving /\ saving' /\ exited' /\ ~exited => closing /\ stateWritePending]_vars
  <2> SUFFICES ASSUME SessionInv, [Next]_vars, saving, saving', exited', ~exited
               PROVE  closing /\ stateWritePending
    OBVIOUS
  <2>1. expanded
    BY DEF SessionInv, SaveInv
  <2>2. CASE Cancel \/ Back
    BY <2>1, <2>2 DEF Cancel, Back
  <2>3. CASE StateTimerFires
    <3>1. FlushState(stateDirty, stateWritePending, stateWrite, closing)
      BY <2>3 DEF StateTimerFires
    <3>2. closing
      BY <3>1 DEF FlushState
    <3> QED BY <3>2 DEF SessionInv, WriteInv, ClosingIsFlushing
  <2>4. CASE StateWriteFinished
    <3>1. closing /\ stateWrite.phase = "replied"
      BY <2>4 DEF StateWriteFinished, FlushState
    <3> QED BY <3>1 DEF SessionInv, WriteInv
  <2>5. CASE SaveFinished
    BY <2>5 DEF SaveFinished
  <2>6. CASE StateWriteRuns \/ (Open /\ ScheduleFlush /\ UNCHANGED exitVars)
             \/ UNCHANGED <<writeVars, exitVars>>
    BY <2>6 DEF StateWriteRuns, exitVars
  <2> QED BY <2>2, <2>3, <2>4, <2>5, <2>6, WriteStable
<1> QED BY <1>1, SessionInvariant, PTL DEF Spec, ExitWhileSavingWasCancel

(* Both: save() and its answer, requestExit() and flushState() keep one    *)
(* review to one confirmed Save that is not walked away from.              *)
THEOREM SavesAreSettled == Spec => SaveIsSettled
BY NothingMoreSaved, OnlyCancelLeavesSave DEF SaveIsSettled
-----------------------------------------------------------------------------
(* The local state on disk. *)

(* Once the user has touched the local state, what is not dirty is on disk *)
(* or is what the pending write writes.                                    *)
DiskInv ==
  /\ stateTouched /\ ~stateDirty /\ ~stateWritePending => disk = LocalState(draft)
  /\ stateTouched /\ ~stateDirty /\ stateWritePending => stateWrite.value = LocalState(draft)
  /\ stateWrite.phase = "replied" /\ stateWrite.ok => disk = stateWrite.value

(* changeText() leaves the local state alone when the Instruction is. *)
LEMMA ChangeKeepsState ==
  ASSUME NEW d \in Draft, NEW content \in Content, NEW remember \in BOOLEAN,
         content.instruction = d.content.instruction
  PROVE  LocalState(ChangeText(d, content, remember)) = LocalState(d)
<1>1. Invalidated(d) \in Draft /\ Invalidated(d).selectedTypes = d.selectedTypes
  BY ModelChangedType DEF Invalidated, Draft
<1>2. /\ ChangeText(d, content, remember).content = content
      /\ ChangeText(d, content, remember).selectedTypes = d.selectedTypes
  BY <1>1 DEF ChangeText, Draft
<1> QED BY <1>2 DEF LocalState

(* receiveGeneration() changes neither the Instruction nor the Types. *)
LEMMA ReceiveKeepsState ==
  ASSUME NEW d \in Draft, NEW revision, NEW result
  PROVE  LocalState(ReceiveGeneration(d, revision, result)) = LocalState(d)
<1> DEFINE i == FirstOf(Requesters(d, revision))
           action == [(d.undo \o d.redo)[i] EXCEPT !.generated = result]
           content == ApplyGenerated(d.content, result)
           shown == [action EXCEPT !.after = content, !.afterHasGenerated = TRUE,
                                   !.resultApplied = TRUE]
           base == [d EXCEPT !.content = content, !.activeRevision = None]
<1>1. content.instruction = d.content.instruction
  BY DraftFields DEF ApplyGenerated, Content
<1> HIDE DEF content
<1>2. /\ base.content = content /\ base.selectedTypes = d.selectedTypes
      /\ DOMAIN base = DOMAIN d /\ {"undo", "redo"} \subseteq DOMAIN d
      /\ "content" \in DOMAIN d /\ "selectedTypes" \in DOMAIN d
  BY DEF Draft
<1> HIDE DEF base, action, shown, i
<1>3. /\ SetAction(base, i, shown).content = content
      /\ SetAction(base, i, shown).selectedTypes = d.selectedTypes
      /\ SetAction(d, i, action).content = d.content
      /\ SetAction(d, i, action).selectedTypes = d.selectedTypes
  BY <1>2 DEF SetAction
<1>4. \/ ReceiveGeneration(d, revision, result) = d
      \/ ReceiveGeneration(d, revision, result) = SetAction(base, i, shown)
      \/ ReceiveGeneration(d, revision, result) = SetAction(d, i, action)
  BY DEF ReceiveGeneration, i, action, content, shown, base
<1> QED BY <1>1, <1>3, <1>4 DEF LocalState

(* beginGeneration() and chooseSense() change neither the Instruction nor the Types. *)
LEMMA RequestKeepsState ==
  ASSUME NEW d \in Draft, NEW name \in Texts
  PROVE  /\ LocalState(BeginGeneration(d)) = LocalState(d)
         /\ LocalState(ChooseSense(d, name)) = LocalState(d)
<1> DEFINE Kept(content) ==
      LocalState(Requested(d, content)) =
        [instruction |-> content.instruction, types |-> d.selectedTypes]
<1>1. d.content \in Content
  BY DraftFields
<1>2. ASSUME NEW content PROVE Kept(content)
  <2> DEFINE next == [d EXCEPT !.content = content, !.generationRevision = @ + 1,
                               !.activeRevision = d.generationRevision + 1, !.redo = <<>>]
  <2>1. next.content = content /\ next.selectedTypes = d.selectedTypes
        /\ "undo" \in DOMAIN next /\ "content" \in DOMAIN next
        /\ "selectedTypes" \in DOMAIN next
    BY DEF Draft
  <2>2. Requested(d, content) =
          [next EXCEPT !.undo = Append(@, RequestAction(Snapshot(d), next))]
    BY DEF Requested
  <2> HIDE DEF next
  <2>3. /\ Requested(d, content).content = content
        /\ Requested(d, content).selectedTypes = d.selectedTypes
    BY <2>1, <2>2
  <2> QED BY <2>3 DEF LocalState
<1> HIDE DEF Kept
<1> DEFINE emptied == [d.content EXCEPT !.cards = [t \in Types |->
      IF t \in d.selectedTypes THEN [i \in DOMAIN @[t] |-> EmptyCard] ELSE @[t]]]
           cleared == [d.content EXCEPT !.sense = name, !.cards = [t \in Types |->
      [i \in DOMAIN @[t] |->
         IF @[t][i].edited THEN @[t][i] ELSE [@[t][i] EXCEPT !.text = Blank]]]]
<1>3. BeginGeneration(d) = Requested(d, emptied) /\ ChooseSense(d, name) = Requested(d, cleared)
  BY DEF BeginGeneration, ChooseSense
<1>4. /\ emptied.instruction = d.content.instruction
      /\ cleared.instruction = d.content.instruction
  BY <1>1 DEF Content
<1> HIDE DEF emptied, cleared
<1> QED BY <1>2, <1>3, <1>4 DEF LocalState, Kept

(* Editing a field other than the Instruction keeps the local state. *)
LEMMA EditKeepsState ==
  ASSUME DraftInv,
         NEW field \in EditFields \cap Fields, field # "instruction",
         ClearField(field) \/ \E text \in EditTexts : EditField(field, text)
  PROVE  LocalState(draft)' = LocalState(draft)
<1>1. /\ draft \in Draft /\ draft.content \in Content
      /\ EditTexts \subseteq Texts /\ Blank \in Texts
  BY DraftFields, InputsAssumption, BlankAssumption DEF DraftInv, DraftTypeOK
<1>2. ASSUME NEW new \in Texts
      PROVE  /\ WithText(draft.content, field, new) \in Content
             /\ WithText(draft.content, field, new).instruction = draft.content.instruction
  BY <1>1, WithTextType DEF WithText, Content
<1>3. ASSUME NEW new \in Texts, NEW remember \in BOOLEAN,
             Change(WithText(draft.content, field, new), remember)
      PROVE  LocalState(draft)' = LocalState(draft)
  <2>1. draft' = ChangeText(draft, WithText(draft.content, field, new), remember)
    BY <1>3 DEF Change, DraftBecomes
  <2>2. LocalState(ChangeText(draft, WithText(draft.content, field, new), remember))
          = LocalState(draft)
    BY <1>1, <1>2, ChangeKeepsState
  <2> QED BY <2>1, <2>2 DEF LocalState
<1> QED BY <1>1, <1>3 DEF ClearField, EditField

(* Editing a card keeps the local state. *)
LEMMA CardKeepsState ==
  ASSUME DraftInv,
         NEW t \in Types, NEW i \in DOMAIN draft.content.cards[t],
         ClearCard(t, i) \/ \E text \in EditTexts : EditCard(t, i, text)
  PROVE  LocalState(draft)' = LocalState(draft)
<1>1. /\ draft \in Draft /\ draft.content \in Content
      /\ EditTexts \subseteq Texts /\ Blank \in Texts
  BY DraftFields, InputsAssumption, BlankAssumption DEF DraftInv, DraftTypeOK
<1>2. ASSUME NEW new \in Texts
      PROVE  /\ WithCardText(draft.content, t, i, new) \in Content
             /\ WithCardText(draft.content, t, i, new).instruction = draft.content.instruction
  BY <1>1, WithCardTextType DEF WithCardText, Content
<1>3. ASSUME NEW new \in Texts, NEW remember \in BOOLEAN,
             Change(WithCardText(draft.content, t, i, new), remember)
      PROVE  LocalState(draft)' = LocalState(draft)
  <2>1. draft' = ChangeText(draft, WithCardText(draft.content, t, i, new), remember)
    BY <1>3 DEF Change, DraftBecomes
  <2>2. LocalState(ChangeText(draft, WithCardText(draft.content, t, i, new), remember))
          = LocalState(draft)
    BY <1>1, <1>2, ChangeKeepsState
  <2> QED BY <2>1, <2>2 DEF LocalState
<1> QED BY <1>1, <1>3 DEF ClearCard, EditCard

(* Picking a Model keeps the local state. *)
LEMMA PickKeepsState ==
  ASSUME DraftInv, NEW model \in Models, PickModel(model)
  PROVE  LocalState(draft)' = LocalState(draft)
<1>1. draft \in Draft /\ draft' = ModelChanged(draft)
  BY DEF PickModel, DraftInv, DraftTypeOK
<1>2. /\ ModelChanged(draft).content = draft.content
      /\ ModelChanged(draft).selectedTypes = draft.selectedTypes
  BY <1>1 DEF ModelChanged, Invalidated, Draft
<1> QED BY <1>1, <1>2 DEF LocalState

(* Adding a card keeps the local state. *)
LEMMA AddKeepsState ==
  ASSUME DraftInv, NEW t \in Types, AddCard(t)
  PROVE  LocalState(draft)' = LocalState(draft)
<1>1. draft \in Draft /\ draft.content \in Content /\ draft' = CardAdded(draft, t)
  BY DraftFields DEF AddCard, DraftBecomes, DraftInv, DraftTypeOK
<1>2. /\ CardAdded(draft, t).content.instruction = draft.content.instruction
      /\ CardAdded(draft, t).selectedTypes = draft.selectedTypes
  BY <1>1 DEF CardAdded, Draft, Content
<1> QED BY <1>1, <1>2 DEF LocalState

(* A step that schedules no write keeps the local state of a draft whose   *)
(* user has touched it, and all that is known of the disk.                 *)
StateKept ==
  /\ UNCHANGED writeVars
  /\ stateTouched' => stateTouched /\ LocalState(draft)' = LocalState(draft)

(* A step that schedules no write keeps the local state of a touched draft. *)
LEMMA StateStable ==
  ASSUME DraftInv, [Next]_vars
  PROVE  \/ Cancel \/ Back \/ StateTimerFires \/ StateWriteRuns \/ StateWriteFinished
         \/ SaveFinished \/ ScheduleFlush \/ StateKept
<1>1. ASSUME UNCHANGED <<draft, stateTouched, writeVars>>
      PROVE  StateKept
  BY <1>1 DEF StateKept, LocalState
<1>2. CASE Leave
  BY <1>1, <1>2 DEF Leave, OpenDrawer, CloseDrawer, draftVars, readVars
<1>3. CASE UserEdits
  <2>1. ASSUME NEW field \in EditFields \cap Fields, UpdateText(field),
               ClearField(field) \/ \E text \in EditTexts : EditField(field, text)
        PROVE  ScheduleFlush \/ StateKept
    <3>1. CASE field = "instruction"
      BY <2>1, <3>1 DEF UpdateText
    <3>2. CASE field # "instruction"
      <4>1. UNCHANGED <<stateTouched, writeVars>>
        BY <2>1, <3>2 DEF UpdateText
      <4>2. LocalState(draft)' = LocalState(draft)
        <5>1. /\ field # "instruction"
              /\ ClearField(field) \/ \E text \in EditTexts : EditField(field, text)
          BY <2>1, <3>2
        <5> QED BY <5>1, EditKeepsState
      <4> QED BY <4>1, <4>2 DEF StateKept
    <3> QED BY <3>1, <3>2
  <2>2. ASSUME UpdateText("instruction")
        PROVE  ScheduleFlush
    BY <2>2 DEF UpdateText
  <2>3. ASSUME UpdateText("card"),
               NEW t \in Types, NEW i \in DOMAIN draft.content.cards[t],
               ClearCard(t, i) \/ \E text \in EditTexts : EditCard(t, i, text)
        PROVE  StateKept
    <3>1. UNCHANGED <<stateTouched, writeVars>>
      BY <2>3 DEF UpdateText
    <3>2. LocalState(draft)' = LocalState(draft)
      BY <2>3, CardKeepsState
    <3> QED BY <3>1, <3>2 DEF StateKept
  <2> QED BY <1>3, <2>1, <2>2, <2>3 DEF UserEdits
<1>4. CASE Press
  <2>1. ASSUME NEW t \in Types, UserAddsCard(t)
        PROVE  StateKept
    <3>1. AddCard(t) /\ UNCHANGED sessionVars
      BY <2>1 DEF UserAddsCard
    <3> QED BY <3>1, AddKeepsState DEF StateKept, sessionVars, readVars
  <2>2. ASSUME NEW t \in Types, UserTogglesType(t)
        PROVE  ScheduleFlush
    BY <2>2 DEF UserTogglesType
  <2>3. CASE UserUndoes \/ UserRedoes
    BY <2>3 DEF UserUndoes, UserRedoes
  <2>4. ASSUME NEW model \in Models, UserPicksModel(model)
        PROVE  StateKept
    <3>1. PickModel(model) /\ UNCHANGED sessionVars
      BY <2>4 DEF UserPicksModel
    <3> QED BY <3>1, PickKeepsState DEF StateKept, sessionVars, readVars
  <2>5. CASE UserGenerates
    <3>1. draft' = BeginGeneration(draft) /\ UNCHANGED sessionVars
      BY <2>5 DEF UserGenerates, Generate
    <3>2. LocalState(BeginGeneration(draft)) = LocalState(draft)
      BY RequestKeepsState, BlankAssumption DEF DraftInv, DraftTypeOK
    <3>3. LocalState(draft)' = LocalState(draft)
      BY <3>1, <3>2 DEF LocalState
    <3> QED BY <3>1, <3>3 DEF StateKept, sessionVars, readVars
  <2>6. CASE UserSuggests
    BY <1>1, <2>6 DEF UserSuggests, Suggest, sessionVars, readVars
  <2>7. ASSUME NEW name \in SenseNames, UserChoosesSense(name)
        PROVE  StateKept
    <3>1. draft' = ChooseSense(draft, name) /\ UNCHANGED sessionVars
      BY <2>7 DEF UserChoosesSense, ChooseSuggestion
    <3>2. LocalState(ChooseSense(draft, name)) = LocalState(draft)
      BY RequestKeepsState, InputsAssumption DEF DraftInv, DraftTypeOK
    <3>3. LocalState(draft)' = LocalState(draft)
      BY <3>1, <3>2 DEF LocalState
    <3> QED BY <3>1, <3>3 DEF StateKept, sessionVars, readVars
  <2>8. ASSUME NEW kind \in Kinds, Save(kind)
        PROVE  StateKept
    BY <1>1, <2>8 DEF Save, draftVars, readVars
  <2> QED BY <1>4, <2>1, <2>2, <2>3, <2>4, <2>5, <2>6, <2>7, <2>8 DEF Press
<1>5. CASE StateTimerFires
  BY <1>5
<1>6. CASE Run
  BY <1>1, <1>6 DEF Run, StateReadRuns, SaveRuns, draftVars, readVars
<1>7. CASE Finish
  <2>1. CASE StateReadFinished
    <3>1. stateTouched' = stateTouched /\ UNCHANGED writeVars
      BY <2>1 DEF StateReadFinished
    <3>2. stateTouched => draft' = draft
      BY <2>1 DEF StateReadFinished, draftVars
    <3> QED BY <3>1, <3>2 DEF StateKept, LocalState
  <2>2. ASSUME NEW request \in generating, GenerateFinished(request)
        PROVE  StateKept
    <3>1. UNCHANGED <<stateTouched, writeVars>>
      BY <2>2 DEF GenerateFinished, readVars
    <3>2. CASE GenerateSucceeds(request)
      <4>1. PICK result : draft' = ReceiveGeneration(draft, request.revision, result)
        BY <3>2 DEF GenerateSucceeds
      <4>2. LocalState(ReceiveGeneration(draft, request.revision, result)) = LocalState(draft)
        BY ReceiveKeepsState DEF DraftInv, DraftTypeOK
      <4>3. LocalState(draft)' = LocalState(draft)
        BY <4>1, <4>2 DEF LocalState
      <4> QED BY <3>1, <4>3 DEF StateKept
    <3>3. CASE GenerateFails(request)
      BY <1>1, <3>1, <3>3 DEF GenerateFails
    <3> QED BY <2>2, <3>2, <3>3 DEF GenerateFinished
  <2>3. ASSUME NEW request \in suggesting, SuggestFinished(request)
        PROVE  StateKept
    BY <1>1, <2>3 DEF SuggestFinished, SuggestSucceeds, SuggestFails, SuggestReplied, readVars
  <2> QED BY <1>7, <2>1, <2>2, <2>3 DEF Finish
<1>8. CASE UNCHANGED vars
  BY <1>1, <1>8 DEF vars, draftVars, sessionVars, readVars
<1> QED BY <1>2, <1>3, <1>4, <1>5, <1>6, <1>7, <1>8 DEF Next

(* flushState() leaves the local state on disk or in the write it starts. *)
LEMMA FlushDisk ==
  ASSUME NEW dirty \in BOOLEAN, NEW pending \in BOOLEAN, NEW job, NEW isClosing,
         FlushState(dirty, pending, job, isClosing),
         UNCHANGED <<draft, stateTouched, disk>>,
         stateTouched /\ ~dirty /\ ~pending => disk = LocalState(draft),
         stateTouched /\ ~dirty /\ pending => job.value = LocalState(draft),
         job.phase = "replied" /\ job.ok => disk = job.value
  PROVE  DiskInv'
<1>1. LocalState(draft)' = LocalState(draft)
  BY DEF LocalState
<1>2. CASE stateWrite' = job /\ stateDirty' = dirty /\ stateWritePending' = pending
  BY <1>1, <1>2 DEF DiskInv
<1>3. CASE stateWrite' = Started(LocalState(draft)) /\ stateWritePending' = TRUE
  <2>1. stateWrite'.value = LocalState(draft) /\ stateWrite'.phase = "running"
    BY <1>3 DEF Started
  <2> QED BY <1>1, <1>3, <2>1 DEF DiskInv
<1> QED BY <1>2, <1>3 DEF FlushState

(* requestExit() leaves the local state on disk or on its way there. *)
LEMMA ExitDisk ==
  ASSUME SessionTypeOK, DiskInv, NEW explicit \in BOOLEAN, RequestExit(explicit),
         UNCHANGED <<draft, stateTouched, disk>>
  PROVE  DiskInv'
<1>1. CASE stateWriteFailed /\ explicit
  BY <1>1 DEF RequestExit, DiskInv, LocalState
<1>2. CASE ~(stateWriteFailed /\ explicit)
  <2>1. FlushState(stateDirty, stateWritePending, stateWrite, TRUE)
    BY <1>2 DEF RequestExit
  <2> QED BY <2>1, FlushDisk DEF SessionTypeOK, DiskInv
<1> QED BY <1>1, <1>2

(* Every step keeps a touched local state on disk, dirty or on its way. *)
LEMMA DiskInvNext ==
  ASSUME SessionInv, DiskInv, [Next]_vars
  PROVE  DiskInv'
<1>1. CASE Cancel \/ Back
  <2>1. RequestExit(TRUE) /\ UNCHANGED <<draft, stateTouched, disk>>
    BY <1>1 DEF Cancel, Back, draftVars, readVars
  <2> QED BY <2>1, ExitDisk DEF SessionInv
<1>2. CASE SaveFinished
  <2>1. UNCHANGED <<draft, stateTouched, disk>>
    BY <1>2 DEF SaveFinished, draftVars, readVars
  <2>2. CASE RequestExit(FALSE)
    BY <2>1, <2>2, ExitDisk DEF SessionInv
  <2>3. CASE UNCHANGED <<stateDirty, stateWritePending, stateWrite>>
    BY <2>1, <2>3 DEF DiskInv, LocalState
  <2> QED BY <1>2, <2>2, <2>3 DEF SaveFinished
<1>3. CASE StateTimerFires
  <2>1. /\ FlushState(stateDirty, stateWritePending, stateWrite, closing)
        /\ UNCHANGED <<draft, stateTouched, disk>>
    BY <1>3 DEF StateTimerFires, draftVars, readVars
  <2> QED BY <2>1, FlushDisk DEF SessionInv, SessionTypeOK, DiskInv
<1>4. CASE StateWriteRuns
  <2>1. PICK replaced \in BOOLEAN, ok \in BOOLEAN :
          /\ ok => replaced
          /\ disk' = IF replaced THEN stateWrite.value ELSE disk
          /\ stateWrite' = [stateWrite EXCEPT !.phase = "replied", !.ok = ok]
    BY <1>4 DEF StateWriteRuns
  <2>2. stateWrite'.value = stateWrite.value /\ stateWrite'.ok = ok
    BY <2>1 DEF SessionInv, SessionTypeOK, StateJob
  <2>3. stateWritePending
    BY <1>4 DEF StateWriteRuns, SessionInv, WriteInv
  <2>4. UNCHANGED <<draft, stateTouched, stateDirty, stateWritePending>>
    BY <1>4 DEF StateWriteRuns, draftVars, readVars
  <2> QED BY <2>1, <2>2, <2>3, <2>4 DEF DiskInv, LocalState
<1>5. CASE StateWriteFinished
  <2> DEFINE done == [stateWrite EXCEPT !.phase = "idle"]
  <2>1. UNCHANGED <<draft, stateTouched, disk>>
    BY <1>5 DEF StateWriteFinished, draftVars, readVars
  <2>2. /\ done.phase = "idle" /\ done.value = stateWrite.value
        /\ stateWrite.phase = "replied" /\ stateWritePending
    BY <1>5 DEF StateWriteFinished, SessionInv, SessionTypeOK, StateJob, WriteInv
  <2>3. CASE ~stateWrite.ok
    <3>1. stateDirty' = TRUE /\ stateWrite' = done
      BY <1>5, <2>3 DEF StateWriteFinished
    <3> HIDE DEF done
    <3> QED BY <2>2, <3>1 DEF DiskInv
  <2>4. CASE stateWrite.ok
    <3>1. FlushState(stateDirty, FALSE, done, closing)
      BY <1>5, <2>4 DEF StateWriteFinished
    <3> HIDE DEF done
    <3>2. stateTouched /\ ~stateDirty => disk = LocalState(draft)
      BY <2>2, <2>4 DEF DiskInv
    <3>3. stateDirty \in BOOLEAN
      BY DEF SessionInv, SessionTypeOK
    <3> QED BY <2>1, <2>2, <3>1, <3>2, <3>3, FlushDisk
  <2> QED BY <2>3, <2>4
<1>6. CASE ScheduleFlush
  BY <1>6 DEF ScheduleFlush, DiskInv
<1>7. CASE StateKept
  BY <1>7 DEF StateKept, writeVars, DiskInv
<1> QED BY <1>1, <1>2, <1>3, <1>4, <1>5, <1>6, <1>7, StateStable DEF SessionInv

(* A local state nobody has touched needs no write. *)
LEMMA DiskInvInit == Init => DiskInv
BY DEF Init, DiskInv, Started

(* An overlay that was not forced to quit leaves on disk the Instruction   *)
(* and the Types on screen, if the user has touched them: flushState()     *)
(* quits only with nothing dirty and nothing pending.                      *)
THEOREM ExitFlushes == Spec => []FlushedOnExit
<1>1. SessionInv /\ DiskInv => FlushedOnExit
  BY DEF SessionInv, WriteInv, DiskInv, FlushedOnExit
<1>2. SessionInv /\ DiskInv /\ [Next]_vars => DiskInv'
  BY DiskInvNext
<1> QED BY <1>1, <1>2, DiskInvInit, SessionInvariant, PTL DEF Spec
=============================================================================

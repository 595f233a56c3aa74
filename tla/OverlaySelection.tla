---------------------------- MODULE OverlaySelection ----------------------------
(* The mouse, the keyboard and the OCR answers in CaptureWorkspace.qml:    *)
(* what of the recognized text is selected for which field.                *)
EXTENDS RecognizedText

CONSTANTS
  Places,        \* where the mouse may be
  Left, Width,   \* where on the screen the image is painted, and how wide
  Scale,         \* pixels of the image to a place on the screen
  Still,         \* a release nearer than this to its press is a click
  MinCrop,       \* a crop of fewer pixels is not asked for
  FullAnswers,   \* what OCR of the whole image may find
  CropAnswers,   \* what OCR of a crop may find
  Typed,         \* a text the user may type
  MaxPresses,    \* bound: presses but the second ones of double-clicks
  MaxJobs,       \* bound: OCR requests
  MaxEdits       \* bound: edits, undos and moves of a handle

ASSUME SelectionAssumption ==
  /\ Places \subseteq Int /\ Near \in Nat /\ Left \in Int /\ Scale \in Nat \ {0}
  /\ FullAnswers \cup CropAnswers \subseteq Seq(Words)

VARIABLES
  image,         \* loading, ready or error
  jobs,          \* the OCR requests: [kind, done, words], and those answered before each
  fullWords, retryWords, usingRetry, ocrLoading,
  draft,         \* each field's text, and its selection in which words
  activeField,
  drag,          \* the press the mouse is in
  completedClick, suppressRelease,
  clicked,       \* what there was at the last press, for the next to be its double
  presses, edits \* the counts the bounds are about

ocr == <<image, jobs, fullWords, retryWords, ocrLoading>>
mouse == <<activeField, drag, completedClick, suppressRelease, clicked, presses>>
vars == <<ocr, usingRetry, draft, mouse, edits>>

Fields == {"entry", "description"}
Nowhere == -1
words == IF usingRetry THEN retryWords ELSE fullWords

(* A place on the screen, in pixels of the image. *)
pixelAt(x) ==
  IF image = "ready" /\ x \in Left..(Left + Width - 1) THEN (x - Left) * Scale ELSE Nowhere

Distance(a, b) == IF a < b THEN b - a ELSE a - b

NoDrag == [down |-> FALSE]
NoClick == [field |-> "none", beforeText |-> <<>>]
NotClicked ==
  [field |-> "none", at |-> Nowhere, alt |-> FALSE, texts |-> <<>>, clean |-> FALSE]

(* What follows a press that is not simply a click. *)
Unclean(is) == clicked' = IF is THEN [clicked EXCEPT !.clean = FALSE, !.texts = <<>>] ELSE clicked

Init ==
  /\ image = "loading" /\ jobs = <<>>
  /\ fullWords = <<>> /\ retryWords = <<>> /\ usingRetry = FALSE /\ ocrLoading = TRUE
  /\ draft = [f \in Fields |-> [text |-> <<>>, selection |-> NoRange, sourceWords |-> <<>>]]
  /\ activeField = "entry" /\ drag = NoDrag
  /\ completedClick = NoClick /\ suppressRelease = FALSE /\ clicked = NotClicked
  /\ presses = 0 /\ edits = 0

-----------------------------------------------------------------------------
(* OCR. *)

Pending(i) == ~jobs[i].done

ocrRequested(kind) ==
  jobs' = Append(jobs, [kind |-> kind, done |-> FALSE, words |-> <<>>,
                        after |-> {i \in DOMAIN jobs : ~Pending(i)}])

ImageReady ==
  /\ image = "loading" /\ image' = "ready"
  /\ ocrRequested("full")
  /\ UNCHANGED <<fullWords, retryWords, ocrLoading, usingRetry, draft, mouse, edits>>

ImageFails ==
  /\ image = "loading" /\ image' = "error"
  /\ UNCHANGED <<jobs, fullWords, retryWords, ocrLoading, usingRetry, draft, mouse, edits>>

(* Answers come in any order. *)
Finish(i, found, full, retry, using) ==
  /\ Pending(i)
  /\ jobs' = [jobs EXCEPT ![i] = [@ EXCEPT !.done = TRUE, !.words = found]]
  /\ ocrLoading' = FALSE
  /\ fullWords' = full /\ retryWords' = retry /\ usingRetry' = using
  /\ UNCHANGED <<image, draft, mouse, edits>>

(* Mutant: a crop without text takes the words of the last away. *)
MutantEmptyReplaces(i, ok, found) ==
  IF jobs[i].kind = "full"
  THEN Finish(i, found, IF ok THEN found ELSE fullWords, retryWords, usingRetry)
  ELSE Finish(i, found, fullWords, found, found # <<>>)

ocrFinished(i, ok, found) ==
  IF jobs[i].kind = "full"
  THEN Finish(i, found, IF ok THEN found ELSE fullWords, retryWords, usingRetry)
  ELSE IF ok /\ found # <<>> THEN Finish(i, found, fullWords, found, TRUE)
  ELSE Finish(i, found, fullWords, retryWords, usingRetry)

Answer ==
  \E i \in DOMAIN jobs :
    \/ ocrFinished(i, FALSE, <<>>)
    \/ \E found \in IF jobs[i].kind = "full" THEN FullAnswers ELSE CropAnswers :
         ocrFinished(i, TRUE, found)

Toggle ==
  /\ retryWords # <<>> /\ ~drag.down
  /\ usingRetry' = ~usingRetry
  /\ UNCHANGED <<ocr, draft, mouse, edits>>

-----------------------------------------------------------------------------
(* The mouse.  Only one button is down at a time. *)

(* Mutant: the words that are shown are kept with the range. *)
MutantsetSelection(range, source) ==
  draft' = IF range = NoRange THEN draft
           ELSE [draft EXCEPT ![activeField] =
                   [text |-> textForSelection(source, range), selection |-> range,
                    sourceWords |-> words]]

setSelection(range, source) ==
  draft' = IF range = NoRange THEN draft
           ELSE [draft EXCEPT ![activeField] =
                   [text |-> textForSelection(source, range), selection |-> range,
                    sourceWords |-> source]]

PressAt(field, x, precise, alt) ==
  LET p == pixelAt(x) IN
  /\ ~drag.down
  /\ activeField' = field
  /\ drag' = [down |-> TRUE, anchor |-> p, focus |-> p, words |-> words,
              pressLocal |-> x, at |-> x,
              cropping |-> p # Nowhere /\ alt, selecting |-> p # Nowhere /\ ~alt,
              before |-> draft[field].text, precise |-> precise /\ ~alt,
              range |-> IF p # Nowhere /\ ~alt THEN rangeAt(words, p, p, precise) ELSE NoRange]

Press(field, x, precise, alt) ==
  /\ presses < MaxPresses /\ presses' = presses + 1
  /\ PressAt(field, x, precise, alt)
  /\ suppressRelease' = FALSE
  /\ clicked' = [field |-> field, at |-> x, alt |-> alt, clean |-> TRUE,
                 texts |-> [f \in Fields |-> draft[f].text]]
  /\ UNCHANGED <<ocr, usingRetry, draft, completedClick, edits>>

SecondPress(field, x, alt, text) ==
  /\ clicked.field = field /\ clicked.at = x
  /\ PressAt(field, x, FALSE, alt)
  /\ suppressRelease' = TRUE
  /\ draft' = [draft EXCEPT ![field] = [text |-> text, selection |-> NoRange, sourceWords |-> <<>>]]
  /\ completedClick' = NoClick
  /\ clicked' = NotClicked
  /\ UNCHANGED <<ocr, usingRetry, presses, edits>>

(* Mutant: the text is not put back. *)
MutantOnlyClears(field, x, alt) == SecondPress(field, x, alt, draft[field].text)

(* A press soon after another is pressed and doubleClicked at once; the    *)
(* range of that press is not used.                                        *)
DoubleClick(field, x, alt) ==
  SecondPress(field, x, alt, IF completedClick.field = field THEN completedClick.beforeText
                             ELSE draft[field].text)

Moved(x) ==
  LET p == pixelAt(x) IN
  /\ drag.down /\ x # drag.at
  /\ drag' = IF p = Nowhere \/ drag.anchor = Nowhere THEN [drag EXCEPT !.at = x]
             ELSE [drag EXCEPT !.at = x, !.focus = p,
                               !.range = IF drag.selecting
                                         THEN rangeAt(drag.words, drag.anchor, p, drag.precise)
                                         ELSE @]
  /\ UNCHANGED <<ocr, usingRetry, draft, activeField, completedClick, suppressRelease,
                 clicked, presses, edits>>

IsStill == Distance(drag.at, drag.pressLocal) < Still

Crops == ~suppressRelease /\ drag.cropping /\ Distance(drag.anchor, drag.focus) >= MinCrop

Released ==
  /\ drag.down /\ drag' = NoDrag
  /\ suppressRelease' = FALSE
  /\ IF suppressRelease \/ drag.cropping THEN UNCHANGED <<draft, completedClick>>
     ELSE /\ setSelection(drag.range, drag.words)
          /\ completedClick' = IF drag.range # NoRange /\ IsStill
                               THEN [field |-> activeField, beforeText |-> drag.before] ELSE NoClick
  /\ IF Crops
     THEN /\ Len(jobs) < MaxJobs
          /\ ocrRequested("crop") /\ ocrLoading' = TRUE
     ELSE UNCHANGED <<jobs, ocrLoading>>
  /\ Unclean(~IsStill)
  /\ UNCHANGED <<image, fullWords, retryWords, usingRetry, activeField, presses, edits>>

(* Something else takes the mouse away. *)
Canceled ==
  /\ drag.down /\ drag' = NoDrag
  /\ Unclean(TRUE)
  /\ UNCHANGED <<ocr, usingRetry, draft, activeField, completedClick, suppressRelease,
                 presses, edits>>

Change == edits < MaxEdits /\ edits' = edits + 1

HandleMoved(side, x) ==
  LET field == draft[activeField] IN
  /\ ~drag.down /\ field.selection # NoRange /\ pixelAt(x) # Nowhere /\ Change
  /\ setSelection(moveHandle(field.sourceWords, field.selection, side, pixelAt(x)),
                  field.sourceWords)
  /\ clicked' = NotClicked
  /\ UNCHANGED <<ocr, usingRetry, activeField, drag, completedClick, suppressRelease, presses>>

-----------------------------------------------------------------------------
(* The keyboard. *)

SwitchColumn(field) ==
  /\ activeField # field /\ activeField' = field
  /\ Unclean(drag.down)
  /\ UNCHANGED <<ocr, usingRetry, draft, drag, completedClick, suppressRelease, presses, edits>>

TextEdited(field) ==
  /\ Change
  /\ draft' = [draft EXCEPT ![field].text = Typed]
  /\ Unclean(TRUE)
  /\ UNCHANGED <<ocr, usingRetry, activeField, drag, completedClick, suppressRelease, presses>>

(* The texts of another time, here none, without their selections. *)
Undone ==
  /\ Change
  /\ draft' = [f \in Fields |-> [draft[f] EXCEPT !.text = <<>>]]
  /\ Unclean(TRUE)
  /\ UNCHANGED <<ocr, usingRetry, activeField, drag, completedClick, suppressRelease, presses>>

Next ==
  \/ ImageReady \/ ImageFails \/ Answer \/ Toggle
  \/ \E field \in Fields, x \in Places, alt \in BOOLEAN :
       \/ \E precise \in BOOLEAN : Press(field, x, precise, alt)
       \/ DoubleClick(field, x, alt)
  \/ \E x \in Places : Moved(x) \/ \E side \in {"start", "end"} : HandleMoved(side, x)
  \/ Released \/ Canceled
  \/ \E field \in Fields : SwitchColumn(field) \/ TextEdited(field)
  \/ Undone

Spec == Init /\ [][Next]_vars

-----------------------------------------------------------------------------
(* Properties. *)

(* Where the handles of a word can be drawn; in a source in reading order  *)
(* those of a word come before those of the next.                          *)
Handles(word) ==
  LET symbols == usableSymbols(word) IN
  IF Usable(word) THEN {Edge(symbols, offset) : offset \in 0..Len(symbols)}
                  ELSE {word.left, word.right}

InReadingOrder(source) ==
  \A v, w \in DOMAIN source :
    /\ source[v].left <= source[v].right
    /\ v < w => \A a \in Handles(source[v]), b \in Handles(source[w]) : a <= b

Offsets(word) == 0..(IF Usable(word) THEN Len(usableSymbols(word)) ELSE 1)

EndsFit(source, range) ==
  /\ {range.start.word, range.end.word} \subseteq DOMAIN source
  /\ Before(range.start, range.end)
  /\ range.start.offset \in Offsets(source[range.start.word])
  /\ range.end.offset \in Offsets(source[range.end.word])

HandlesInOrder(source, range) ==
  InReadingOrder(source) =>
    handleBox(source, range, "start") <= handleBox(source, range, "end")

Fits(source, range) ==
  range # NoRange => EndsFit(source, range) /\ HandlesInOrder(source, range)

(* A selection, kept or being made, is a part of the words it was made in, *)
(* in their order, whatever OCR has answered since, whichever result is    *)
(* shown and whichever handle was moved across the other: what is drawn of *)
(* it can be found, the handle of its start before that of its end.        *)
RangeFitsSource ==
  /\ \A f \in Fields : Fits(draft[f].sourceWords, draft[f].selection)
  /\ drag.down => Fits(drag.words, drag.range)

(* All that can be selected, and which of it is nearest to a place. *)
AllBoxes(source) == highlightBoxes(source, [WholeWords(source, 1, Len(source)) EXCEPT !.whole = FALSE])
BoxAt(source, x) == FirstLeast([i \in DOMAIN AllBoxes(source) |-> distanceToBox(AllBoxes(source)[i], x)])

(* Words next to each other, the boxes of each reaching from its left end  *)
(* to its right and not further.                                           *)
BoxesOf(word) == IF Usable(word) THEN usableSymbols(word) ELSE <<word>>

IsFilled(word) ==
  LET boxes == BoxesOf(word) IN
  /\ word.left <= word.right
  /\ \A i \in DOMAIN boxes : word.left <= boxes[i].left /\ boxes[i].right <= word.right
  /\ \E i \in DOMAIN boxes : boxes[i].left = word.left
  /\ \E i \in DOMAIN boxes : boxes[i].right = word.right

SideBySide(source) ==
  \A v, w \in DOMAIN source :
    IsFilled(source[v]) /\ (v < w => source[v].right <= source[w].left)

(* A precise drag selects what lies between its two ends, the symbols (or  *)
(* the words without) nearest to both included, in whichever direction it  *)
(* went.  This is said of words side by side: a drag looks for the nearest *)
(* word first, and where symbols leave a part of their word empty or reach *)
(* into the next, the symbol nearest of all may be in another.             *)
DragSelectsBetween ==
  drag.down /\ drag.precise /\ drag.range # NoRange /\ SideBySide(drag.words) =>
    LET a == BoxAt(drag.words, drag.anchor)
        b == BoxAt(drag.words, drag.focus)
    IN highlightBoxes(drag.words, drag.range) =
         SubSeq(AllBoxes(drag.words), IF a < b THEN a ELSE b, IF a < b THEN b ELSE a)

(* The crops in which words were found.  `found` are those of one of them, *)
(* and of none that had been answered when another of them was asked for.  *)
UsableCrops == {i \in DOMAIN jobs : jobs[i].kind = "crop" /\ jobs[i].words # <<>>}

AreLastUsable(found) ==
  \/ UsableCrops = {} /\ found = <<>>
  \/ \E i \in UsableCrops :
       found = jobs[i].words /\ \A j \in UsableCrops : i \notin jobs[j].after

(* `Recognizing text` is only on the screen while some answer is to come   *)
(* (an image that cannot be loaded keeps it there), and whichever requests *)
(* overlap, the words kept of the crops are those of the last that had     *)
(* any: not of one that was answered before a later one was asked for, and *)
(* neither a failure nor a crop without text nor the answer of the whole   *)
(* image takes them away.                                                  *)
LastUsableCropKept ==
  /\ ocrLoading /\ image = "ready" => \E i \in DOMAIN jobs : Pending(i)
  /\ usingRetry => retryWords # <<>>
  /\ AreLastUsable(retryWords)

(* A double-click clears the selection of its field and leaves both texts  *)
(* as they were at its first press, provided that press was a click (with  *)
(* no Alt, not moved, not taken away) and nobody typed or went to the      *)
(* other field in between.                                                 *)
DoubleClickRestores ==
  [][~suppressRelease /\ suppressRelease' /\ clicked.clean /\ ~clicked.alt =>
       /\ draft'[clicked.field].selection = NoRange
       /\ \A f \in Fields : draft'[f].text = clicked.texts[f]]_vars
=============================================================================

--------------------------- MODULE DictionaryBrowser ---------------------------
(* The Dictionary page of the terminal client: the headless store and      *)
(* hooks of @dictos/react, the keys that call them, and what the effects   *)
(* load after every render.  A handler, the render it causes and the       *)
(* effects of that render are one step.  Loads and writes are answered     *)
(* later, and nothing in the code orders the answers.                      *)
EXTENDS Naturals, SequencesExt

CONSTANTS
  Root,
  FolderIds, EntryIds, DescriptionIds,   \* sequences: the order rows are listed in
  FirstPlaces,       \* the Folder each first Folder and Entry is in
  FirstOwners,       \* the Entry each first Description belongs to
  None,
  Gone, Lost,        \* the owner of a Description deleted by itself, or with its Entry:
                     \* its ID is not used again
  Views,             \* mounted components that call useDictionary()
  MaxLoads,          \* bound: loads in flight when a key is pressed
  MaxWrites,         \* bound: writes submitted, and loads that fail
  MaxDepth           \* bound: Folders in the path

Folders == ToSet(FolderIds)
Entries == ToSet(EntryIds)
Items == Folders \cup Entries
Descriptions == ToSet(DescriptionIds)
Deleted == {Gone, Lost}

ASSUME BrowserAssumption ==
  /\ Views \in Nat \ {0}
  /\ \A bound \in {MaxLoads, MaxWrites, MaxDepth} : bound \in Nat
  /\ \A ids \in {FolderIds, EntryIds, DescriptionIds} : ids \in Seq(ToSet(ids))
  /\ Items \cap Descriptions = {}
  /\ None \notin Items \cup Deleted /\ Lost \notin Entries

VARIABLES
  db,        \* where each row is, and the revision of its text
  store,     \* useDictionaryStore
  mounted,   \* the page is shown
  loads,     \* loads in flight: of each kind, in the order they were asked
  calls,     \* writes in flight
  writes,
  subject,   \* what the open prompt was opened for, or None (history)
  mishaps    \* what went wrong on the way (history)

vars == <<db, store, mounted, loads, calls, writes, subject, mishaps>>

-----------------------------------------------------------------------------
(* Rows of the Dictionary. *)

Row(d, id) == [id |-> id, text |-> d.text[id]]

(* The n-th of some positions. *)
Nth(positions, n) == CHOOSE k \in positions : Cardinality({j \in positions : j <= k}) = n

RowsOf(d, ids, parents, parent) ==
  LET held == {k \in DOMAIN ids : parents[ids[k]] = parent}
  IN [n \in 1..Cardinality(held) |-> Row(d, ids[Nth(held, n)])]

ItemsIn(d, folder) ==
  RowsOf(d, FolderIds, d.place, folder) \o RowsOf(d, EntryIds, d.place, folder)
DescriptionsOf(d, entry) == RowsOf(d, DescriptionIds, d.owner, entry)

NoRow == [id |-> None, text |-> 0]
At(rows, index) == IF index < Len(rows) THEN rows[index + 1] ELSE NoRow

-----------------------------------------------------------------------------
(* The store. *)

EmptyPreview == [id |-> None, rows |-> <<>>]

InitialStore ==
  [items |-> <<>>, descriptions |-> <<>>, preview |-> EmptyPreview, pane |-> "tree",
   interaction |-> "idle", entry |-> None, path |-> <<>>, treeCursor |-> 0,
   descriptionCursor |-> 0]

TreeItem(s) == At(s.items, s.treeCursor)
DescriptionItem(s) == At(s.descriptions, s.descriptionCursor)
CurrentFolder(s) == Last(s.path)

(* What the prompt that is open in s will act on. *)
Subject(s) ==
  CASE s.interaction = "idle" -> None
    [] s.interaction = "createInput" /\ s.pane = "tree" ->
         IF s.path = <<>> THEN None ELSE CurrentFolder(s)
    [] s.interaction = "createInput" /\ s.pane = "description" -> s.entry
    [] s.interaction # "createInput" /\ s.pane = "tree" -> TreeItem(s).id
    [] s.interaction # "createInput" /\ s.pane = "description" -> DescriptionItem(s).id

-----------------------------------------------------------------------------
(* After a render.  fresh names what the render brought that an effect     *)
(* depends on: "mount", "path", "tree" and "description" (the refresh      *)
(* triggers), "items" (a list that was answered).                          *)

Kinds == {"root", "items", "preview", "descriptions"}
NewLoad(of, cursor) ==
  [of |-> of, cursor |-> cursor, read |-> FALSE, rows |-> <<>>, passed |-> FALSE]

RootRuns(s, fresh) == "mount" \in fresh /\ s.path = <<>>

(* Mutant: the refresh trigger is not among the dependencies. *)
MutantIgnoresTrigger(s, fresh) == s.path # <<>> /\ fresh \cap {"mount", "path"} # {}

ItemsRun(s, fresh) == s.path # <<>> /\ fresh \cap {"mount", "path", "tree"} # {}

PreviewRuns(s, fresh) ==
  \/ fresh \cap {"mount", "items", "description"} # {}
  \/ s.entry # store.entry
  \/ s.treeCursor # store.treeCursor

ClampedCursor(s, fresh) ==
  IF fresh \cap {"mount", "items"} = {} \/ s.treeCursor < Len(s.items) THEN s.treeCursor
  ELSE IF s.items = <<>> THEN 0 ELSE Len(s.items) - 1

DescriptionsRun(s, fresh) ==
  fresh \cap {"mount", "description"} # {} \/ s.entry # store.entry

(* The preview is emptied at the cursor of the render; when the cursor is  *)
(* then clamped the effect runs once more.                                 *)
AfterEffects(s, fresh) ==
  [s EXCEPT
     !.treeCursor = ClampedCursor(s, fresh),
     !.preview =
        IF PreviewRuns(s, fresh) /\ (s.entry # None \/ TreeItem(s) = NoRow)
        THEN EmptyPreview ELSE @,
     !.descriptions = IF DescriptionsRun(s, fresh) THEN <<>> ELSE @]

PreviewLoads(s, fresh) ==
  LET clamped == [s EXCEPT !.treeCursor = ClampedCursor(s, fresh)]
  IN IF /\ PreviewRuns(s, fresh) \/ clamped # s
        /\ s.entry = None
        /\ TreeItem(clamped) # NoRow
     THEN <<NewLoad(TreeItem(clamped).id, clamped.treeCursor)>>
     ELSE <<>>

LoadsAsked(s, fresh) ==
  [root |-> IF RootRuns(s, fresh) THEN <<NewLoad(Root, 0)>> ELSE <<>>,
   items |-> IF ItemsRun(s, fresh) THEN <<NewLoad(CurrentFolder(s), 0)>> ELSE <<>>,
   preview |-> PreviewLoads(s, fresh),
   descriptions |-> IF DescriptionsRun(s, fresh) /\ s.entry # None
                    THEN <<NewLoad(s.entry, 0)>> ELSE <<>>]

(* The confirmation that has lost its item cancels itself when rendered. *)
ConfirmRendered(s) ==
  IF s.interaction = "deleteConfirm" /\ Subject(s) = None
  THEN [s EXCEPT !.interaction = "idle"] ELSE s

(* Every view asks for the load that an effect asks for, if it does. *)
ByEachView(asked) == [n \in 1..(Views * Len(asked)) |-> asked[1]]

(* The store becomes s; rest is what is still in flight of the loads asked *)
(* before.  Only a page that is shown renders.                             *)
Rerender(s, fresh, rest) ==
  \E new \in {s} :
    /\ store' = ConfirmRendered(AfterEffects(ConfirmRendered(new), fresh))
    /\ LET asked == LoadsAsked(new, fresh)
       IN loads' = [kind \in Kinds |-> rest[kind] \o ByEachView(asked[kind])]
    /\ subject' = IF store'.interaction = "idle" \/ "answer" \in fresh THEN None
                  ELSE IF store'.interaction # store.interaction THEN Subject(store')
                  ELSE subject

Render(s, fresh, rest) ==
  IF mounted THEN Rerender(s, fresh, rest)
  ELSE store' = s /\ loads' = rest /\ subject' = None

-----------------------------------------------------------------------------
(* Keys.  A key calls its handler with the store as it is. *)

FewLoads == FoldFunction(LAMBDA queue, sum : Len(queue) + sum, 0, loads) <= MaxLoads
CanPress == mounted /\ FewLoads
Idle == store.interaction = "idle"

Pressed(s, fresh) ==
  /\ CanPress
  /\ Render(s, fresh, loads)
  /\ UNCHANGED <<db, mounted, calls, writes, mishaps>>

Moved(cursor, length, direction) ==
  CASE length = 0 -> 0
    [] length # 0 /\ direction = "down" -> IF cursor < length - 1 THEN cursor + 1 ELSE 0
    [] length # 0 /\ direction = "up" -> IF cursor = 0 THEN length - 1 ELSE cursor - 1

MovedStore(direction) ==
  IF store.pane = "tree"
  THEN [store EXCEPT !.treeCursor = Moved(@, Len(store.items), direction)]
  ELSE [store EXCEPT !.descriptionCursor = Moved(@, Len(store.descriptions), direction)]

(* Mutant: the cursor moves while a prompt is open. *)
MutantMovesAnyway(direction) == Pressed(MovedStore(direction), {})

MoveCursor(direction) == Idle /\ Pressed(MovedStore(direction), {})

NavigateInto(folder) ==
  /\ Len(store.path) < MaxDepth
  /\ Pressed([store EXCEPT !.path = Append(@, folder), !.treeCursor = 0, !.entry = None,
                           !.pane = "tree"], {"path"})

NavigateUp ==
  Pressed([store EXCEPT !.path = SubSeq(@, 1, Len(@) - 1), !.treeCursor = 0, !.entry = None,
                        !.pane = "tree"], {"path"})

OpenEntry(entry) ==
  Pressed([store EXCEPT !.entry = entry, !.pane = "description", !.descriptionCursor = 0,
                        !.treeCursor = SelectInSeq(store.items, LAMBDA row : row.id = entry) - 1],
          {})

CloseEntry ==
  Pressed([store EXCEPT !.pane = "tree", !.entry = None, !.interaction = "idle",
                        !.descriptionCursor = 0], {})

NavigateIn ==
  /\ Idle /\ store.pane = "tree"
  /\ \/ TreeItem(store).id \in Folders /\ NavigateInto(TreeItem(store).id)
     \/ TreeItem(store).id \in Entries /\ OpenEntry(TreeItem(store).id)

NavigateOut ==
  /\ Idle
  /\ \/ store.pane = "description" /\ CloseEntry
     \/ store.pane = "tree" /\ Len(store.path) > 1 /\ NavigateUp

(* requestCreate() asks for no idle page: the key is heard while the user  *)
(* types.                                                                  *)
RequestCreate == Pressed([store EXCEPT !.interaction = "createInput"], {})

Requested(interaction) ==
  /\ Idle /\ Subject([store EXCEPT !.interaction = interaction]) # None
  /\ Pressed([store EXCEPT !.interaction = interaction], {})

RequestTreeRename == store.pane = "tree" /\ Requested("renameInput")
RequestTreeDelete == store.pane = "tree" /\ Requested("deleteConfirm")
RequestDescriptionRename == store.pane = "description" /\ Requested("renameInput")
RequestDescriptionDelete == store.pane = "description" /\ Requested("deleteConfirm")

CancelAction == ~Idle /\ Pressed([store EXCEPT !.interaction = "idle"], {})

(* The fields of the prompts, which their submits need. *)
TreeFieldShown(interaction) ==
  /\ mounted /\ store.pane = "tree" /\ store.interaction = interaction
  /\ interaction = "renameInput" => TreeItem(store) # NoRow

DescriptionFieldShown(interaction) ==
  /\ mounted /\ store.pane = "description" /\ store.interaction = interaction
  /\ TreeItem(store).id \in Entries
  /\ interaction = "renameInput" => DescriptionItem(store) # NoRow

(* Blank text closes the prompt. *)
SubmitBlankTreeCreate ==
  TreeFieldShown("createInput") /\ Pressed([store EXCEPT !.interaction = "idle"], {})
SubmitBlankTreeRename ==
  TreeFieldShown("renameInput") /\ Pressed([store EXCEPT !.interaction = "idle"], {})
SubmitBlankDescriptionCreate ==
  DescriptionFieldShown("createInput") /\ Pressed([store EXCEPT !.interaction = "idle"], {})
SubmitBlankDescriptionRename ==
  DescriptionFieldShown("renameInput") /\ Pressed([store EXCEPT !.interaction = "idle"], {})

SubmitBlank ==
  \/ SubmitBlankTreeCreate \/ SubmitBlankTreeRename
  \/ SubmitBlankDescriptionCreate \/ SubmitBlankDescriptionRename

Submitted(op, target) ==
  /\ FewLoads
  /\ writes < MaxWrites /\ target # None
  /\ writes' = writes + 1
  /\ calls' = Append(calls, [op |-> op, target |-> target, state |-> "asked"])
  /\ UNCHANGED <<db, store, mounted, loads, subject, mishaps>>

SubmitTreeCreate ==
  /\ TreeFieldShown("createInput") /\ store.path # <<>>
  /\ \E op \in {"createFolder", "createEntry"} : Submitted(op, CurrentFolder(store))

SubmitTreeRename ==
  TreeFieldShown("renameInput") /\ Submitted("renameItem", TreeItem(store).id)

ConfirmTreeDelete ==
  /\ mounted /\ store.pane = "tree" /\ store.interaction = "deleteConfirm"
  /\ Submitted("deleteItem", TreeItem(store).id)

SubmitDescriptionCreate ==
  DescriptionFieldShown("createInput") /\ Submitted("createDescription", store.entry)

SubmitDescriptionRename ==
  /\ DescriptionFieldShown("renameInput")
  /\ Submitted("updateDescription", DescriptionItem(store).id)

ConfirmDescriptionDelete ==
  /\ mounted /\ store.pane = "description" /\ store.interaction = "deleteConfirm"
  /\ Submitted("deleteDescription", DescriptionItem(store).id)

(* The pages of the client: another one is shown, or this one again. *)
LeavePage ==
  /\ mounted /\ mounted' = FALSE
  /\ UNCHANGED <<db, store, loads, calls, writes, subject, mishaps>>

EnterPage ==
  /\ ~mounted /\ mounted' = TRUE /\ FewLoads
  /\ Rerender(store, {"mount", "answer"}, loads)
  /\ UNCHANGED <<db, calls, writes, mishaps>>

-----------------------------------------------------------------------------
(* Loads. *)

RowsRead(kind, of) ==
  CASE kind = "root" -> <<>>
    [] kind = "items" -> ItemsIn(db, of)
    [] kind = "descriptions" -> DescriptionsOf(db, of)
    [] kind = "preview" -> IF of \in Folders THEN ItemsIn(db, of) ELSE DescriptionsOf(db, of)

(* A load reads its rows at any time before it is answered.  When is seen  *)
(* only if a write comes between, so that a step of its own is needed only *)
(* while one is under way.                                                 *)
Read(kind, i) ==
  /\ ~loads[kind][i].read
  /\ \E j \in DOMAIN calls : calls[j].state = "asked"
  /\ loads' = [loads EXCEPT ![kind][i].read = TRUE,
                            ![kind][i].rows = RowsRead(kind, loads[kind][i].of)]
  /\ UNCHANGED <<db, store, mounted, calls, writes, subject, mishaps>>

Answer(kind, i) ==
  IF loads[kind][i].read THEN loads[kind][i].rows ELSE RowsRead(kind, loads[kind][i].of)

(* What is in flight once load i is answered: it has passed the earlier    *)
(* ones of its kind.                                                       *)
Without(kind, i) ==
  [loads EXCEPT ![kind] =
     RemoveAt([j \in DOMAIN @ |-> IF j < i THEN [@[j] EXCEPT !.passed = TRUE] ELSE @[j]], i)]

Applied(kind, i, s, fresh) ==
  /\ Render(s, fresh, Without(kind, i))
  /\ mishaps' = mishaps \cup (IF loads[kind][i].passed THEN {"overtaken"} ELSE {})
  /\ UNCHANGED <<db, mounted, calls, writes>>

Dropped(kind, i) ==
  /\ loads' = Without(kind, i)
  /\ UNCHANGED <<db, store, mounted, calls, writes, subject, mishaps>>

RootAnswered(i) == Applied("root", i, [store EXCEPT !.path = <<Root>>], {"path", "answer"})

ItemsAnswered(i) ==
  Applied("items", i, [store EXCEPT !.items = Answer("items", i)], {"items", "answer"})

(* The item at the cursor the load was asked for is still the same one. *)
PreviewWanted(load) == At(store.items, load.cursor).id = load.of

PreviewAnswered(i) ==
  LET load == loads["preview"][i]
  IN IF PreviewWanted(load)
     THEN Applied("preview", i,
                  [store EXCEPT !.preview = [id |-> load.of, rows |-> Answer("preview", i)]], {})
     ELSE Dropped("preview", i)

(* Mutant: no look at which Entry is open by now. *)
MutantAnyEntry(load) == TRUE

DescriptionsWanted(load) == store.entry = load.of

DescriptionsAnswered(i) ==
  IF DescriptionsWanted(loads["descriptions"][i])
  THEN Applied("descriptions", i,
               [store EXCEPT !.descriptions = Answer("descriptions", i)], {"answer"})
  ELSE Dropped("descriptions", i)

(* A load that fails is logged, and nothing else. *)
LoadFails(kind, i) ==
  /\ ~loads[kind][i].read
  /\ writes < MaxWrites /\ writes' = writes + 1
  /\ loads' = [loads EXCEPT ![kind] = RemoveAt(@, i)]
  /\ mishaps' = mishaps \cup {"failed"}
  /\ UNCHANGED <<db, store, mounted, calls, subject>>

-----------------------------------------------------------------------------
(* Writes. *)

Present(d, id) == id = Root \/ d.place[id] # None

(* The Folders above each Folder and Entry. *)
Above(d) ==
  LET above[id \in Items] ==
        {d.place[id]} \cup IF d.place[id] \in Folders THEN above[d.place[id]] ELSE {}
  IN above

(* Names and texts that are taken are given back as they are. *)
WithItem(d, ids, folder) ==
  {[d EXCEPT !.place[id] = folder] :
     id \in {id \in ToSet(ids) : /\ d.place[id] = None
                                 /\ \A other \in ToSet(ids) :
                                      d.place[other] = None =>
                                        SelectInSeq(ids, LAMBDA x : x = id)
                                          <= SelectInSeq(ids, LAMBDA x : x = other)}}
  \cup {d}

WithoutItem(d, item) ==
  LET gone == {item} \cup {id \in Items : item \in Above(d)[id]}
  IN [d EXCEPT !.place = [id \in Items |-> IF id \in gone THEN None ELSE @[id]],
               !.owner = [id \in Descriptions |-> IF @[id] \in gone THEN Lost ELSE @[id]]]

(* What the services can make of the rows; nothing when the row is gone.   *)
Outcomes(d, call) ==
  CASE call.op = "createFolder" ->
         IF Present(d, call.target) THEN WithItem(d, FolderIds, call.target) ELSE {}
    [] call.op = "createEntry" ->
         IF Present(d, call.target) THEN WithItem(d, EntryIds, call.target) ELSE {}
    [] call.op = "renameItem" ->
         IF Present(d, call.target) THEN {[d EXCEPT !.text[call.target] = @ + 1]} ELSE {}
    [] call.op = "deleteItem" ->
         IF Present(d, call.target) THEN {WithoutItem(d, call.target)} ELSE {}
    [] call.op = "createDescription" ->
         IF Present(d, call.target)
         THEN {[d EXCEPT !.owner[id] = call.target] : id \in {id \in Descriptions : d.owner[id] = None}}
         ELSE {}
    [] call.op = "updateDescription" ->
         IF d.owner[call.target] \in Entries THEN {[d EXCEPT !.text[call.target] = @ + 1]} ELSE {}
    [] call.op = "deleteDescription" ->
         IF d.owner[call.target] \in Entries THEN {[d EXCEPT !.owner[call.target] = Gone]} ELSE {}

Perform(i) ==
  /\ i \in DOMAIN calls /\ calls[i].state = "asked"
  /\ \/ /\ db' \in Outcomes(db, calls[i])
        /\ calls' = [calls EXCEPT ![i].state = "done"]
     \/ /\ calls' = [calls EXCEPT ![i].state = "failed"]
        /\ UNCHANGED db
  /\ UNCHANGED <<store, mounted, loads, writes, subject, mishaps>>

TreeOps == {"createFolder", "createEntry", "renameItem", "deleteItem"}

(* The continuation of a write, whatever the user has done since. *)
Continued(i, s, fresh) ==
  /\ Render(s, fresh, loads)
  /\ calls' = RemoveAt(calls, i)
  /\ UNCHANGED <<db, mounted, writes, mishaps>>

(* finishAction() of the tree actions, and of the Description actions. *)
FinishTree(i) ==
  /\ i \in DOMAIN calls /\ calls[i].state = "done" /\ calls[i].op \in TreeOps
  /\ Continued(i, [store EXCEPT !.pane = "tree", !.interaction = "idle"], {"tree"})

FinishDescription(i) ==
  /\ i \in DOMAIN calls /\ calls[i].state = "done" /\ calls[i].op \notin TreeOps
  /\ Continued(i, [store EXCEPT !.pane = "description", !.interaction = "idle"], {"description"})

(* A failed write is notified; only a failed delete closes its prompt. *)
FinishFailed(i) ==
  /\ i \in DOMAIN calls /\ calls[i].state = "failed"
  /\ Continued(i, IF calls[i].op \in {"deleteItem", "deleteDescription"}
                  THEN [store EXCEPT !.interaction = "idle"] ELSE store, {})

-----------------------------------------------------------------------------
Init ==
  /\ db = [place |-> [id \in Items |-> IF id \in DOMAIN FirstPlaces THEN FirstPlaces[id] ELSE None],
           owner |-> [id \in Descriptions |->
                        IF id \in DOMAIN FirstOwners THEN FirstOwners[id] ELSE None],
           text |-> [id \in Items \cup Descriptions |-> 0]]
  /\ store = InitialStore
  /\ mounted = FALSE
  /\ loads = [kind \in Kinds |-> <<>>]
  /\ calls = <<>>
  /\ writes = 0
  /\ subject = None
  /\ mishaps = {}

Key ==
  \/ \E direction \in {"up", "down"} : MoveCursor(direction)
  \/ NavigateIn \/ NavigateOut \/ CancelAction
  \/ RequestCreate \/ RequestTreeRename \/ RequestTreeDelete
  \/ RequestDescriptionRename \/ RequestDescriptionDelete
  \/ SubmitBlank \/ SubmitTreeCreate \/ SubmitTreeRename \/ ConfirmTreeDelete
  \/ SubmitDescriptionCreate \/ SubmitDescriptionRename \/ ConfirmDescriptionDelete
  \/ LeavePage \/ EnterPage

AnswerLoad(kind, i) ==
  /\ i \in DOMAIN loads[kind]
  /\ \/ kind = "root" /\ RootAnswered(i)
     \/ kind = "items" /\ ItemsAnswered(i)
     \/ kind = "preview" /\ PreviewAnswered(i)
     \/ kind = "descriptions" /\ DescriptionsAnswered(i)

FinishCall(i) == FinishTree(i) \/ FinishDescription(i) \/ FinishFailed(i)

Next ==
  \/ Key
  \/ \E kind \in Kinds : \E i \in DOMAIN loads[kind] :
       Read(kind, i) \/ AnswerLoad(kind, i) \/ LoadFails(kind, i)
  \/ \E i \in DOMAIN calls : Perform(i) \/ FinishCall(i)

Spec == Init /\ [][Next]_vars

-----------------------------------------------------------------------------
(* Properties. *)

(* The Descriptions that are listed belong to the Entry that is open,      *)
(* whatever was asked for Entries opened before (the guard after the await *)
(* in the last effect of useDictionary).                                   *)
DescriptionsOfOpenEntry ==
  \A i \in DOMAIN store.descriptions :
    store.entry # None /\ db.owner[store.descriptions[i].id] \in {store.entry} \cup Deleted

AtRest ==
  /\ mounted /\ calls = <<>> /\ \A kind \in Kinds : loads[kind] = <<>>
  /\ mishaps = {}

(* What is listed went with its Entry (deleteEntry answered late).  The     *)
(* Entry stays open, and made again with its name it is not loaded again.  *)
ListsLost == \E i \in DOMAIN store.descriptions : db.owner[store.descriptions[i].id] = Lost

(* Once everything in flight has been answered in order, the page shows    *)
(* what the Dictionary holds: the items of the Folder it is in, the        *)
(* Descriptions of the open Entry, or the preview of the item at the       *)
(* cursor.  No write, navigation or change of page is without its reload.  *)
ShownAtRest ==
  AtRest =>
    /\ store.path # <<>> /\ store.items = ItemsIn(db, CurrentFolder(store))
    /\ store.entry = None => store.descriptions = <<>>
    /\ store.entry # None /\ ~ListsLost =>
         store.descriptions = DescriptionsOf(db, store.entry)
    /\ store.entry = None =>
         store.preview =
           IF TreeItem(store) = NoRow THEN EmptyPreview
           ELSE [id |-> TreeItem(store).id,
                 rows |-> RowsRead("preview", TreeItem(store).id)]

(* An open prompt goes on being about the Folder, Entry, item or           *)
(* Description it was opened for, until an answer replaces the list: keys  *)
(* that move or navigate are not heard meanwhile, although the target is   *)
(* looked up only when the prompt is submitted.                            *)
SubjectKept == subject # None => Subject(store) = subject
=============================================================================

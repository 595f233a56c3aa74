# Dictos in TLA+

A specification of Dictos, an offline-first personal dictionary: a Bun and
TypeScript monorepo (`apps/`, `packages/`) with a Quickshell/QML overlay that
turns a screenshot into dictionary records. The modules model the parts that
hold state and that several actors touch at once. TLC checks them on small
instances, and TLAPS proves the most important results for every value of the
constants. `PROJECT.json` lists the components, the runs, the source lines of
every definition, the hazards, the findings and the theorems.

## 1. The system

| Component | State | Operations | What makes it correct |
|---|---|---|---|
| Overlay draft, `apps/overlay/qml/state.js` | texts, cards, undo and redo stacks, the active generation | edit, generate, choose a Sense, receive, undo, redo, payload, receipt | a reply lands in the history entry that asked for it and in no other draft; undo and redo are inverse; a reply overwrites no text |
| Overlay workspace, `CaptureWorkspace.qml`, `CommandJob.qml`, `CliCommandRunner.qml` | flags `saving`, `closing`, `stateDirty`, `stateTouched`, `stateWritePending`..., the pending Save, commands in flight | one handler per key, button, timer and command response | one confirmed Save is the last; the local state is on disk when the overlay ends; the overlay always gets out |
| Overlay state file, `fs-overlay-capture-state-repository.ts` | `state.json` | read, replace | a replace happens or not; its failure is reported |
| Dictionary tables, `db-core/schema.ts` | Folders, Entries, Senses, Descriptions, Activity | SQL statements, foreign keys | every row is reachable; a Sense only groups Descriptions of its Entry |
| Dictionary repositories and services, `db-core/repositories`, `core/services` | the transaction of the one connection | create, rename, move, delete, assign, generate, reviewed Save | transactions are whole; Activity counts the Entry writes |
| Processes on the database, `bun-turso-client.ts`, CLI commands, clients | the file lock, operations in flight | open, run, close, die | nothing half done survives |
| Local files, `packages/fs-storage`: local state, provider connections, model catalog, capture preferences, configuration starter | a JSON file each, lock directories, temporary files | read, change, replace, publish | no update is lost; a failed change is not made; the lock is released; an edited configuration is never replaced |
| Session and authentication, `auth-service.ts`, server `auth.service.ts` | session file, profile on the device, user rows, provisioned database | register, log in, log out, status | a session means a profile, an account and a database; an address is registered once |
| Sync, `sync-service.ts`, `bun-turso-client.ts` | credentials, pending checkpoints | connect, push, pull, checkpoint, disconnect, close | what is pushed and pulled belongs to the account that is signed in |
| React browser, `packages/react/src/modules/dictionary` | path, items, cursors, preview, open Entry, prompt | navigate, load, create, rename, delete | what is shown at rest is what the Dictionary holds; a prompt stays about the item it was opened for |
| OCR companion, `launch.sh`, `ocr-server.cpp`, `ocr-client.ts` | session directory, socket, screenshot, recogniser | launch, full and crop OCR, clean up | an answer is for its own region; nothing is left behind |
| Overlay selection, `selection.js` and the mouse handlers of `CaptureWorkspace.qml` | recognised words, drag, selection of each field | press, drag, double-click, handles, crop, toggle | a selection is read in the words it was made in |
| Model catalog and generation, `ai-sdk`, `model-catalog-service.ts`, generation services | catalog cache, one request to a Provider | refresh, list, suggest, generate, retry | there is always a usable catalog; an accepted answer is what was asked for |
| Toasts, `opentui-toast`, the notifier | toasts, timers, dismissals under way | show, update, promise, dismiss, hover | what is shown is the latest; an outcome is reported; a toast closes |
| Instructions, `errore`, loggers | little or none | | see `PROJECT.json` |

How they interact: the overlay is one QML process. Each button starts a CLI
process (`dictos overlay ...`) through `CliCommandRunner`; the process answers
with one JSON line and the answer is handed to `commandFinished` with the
revision it was started with. The CLI process opens the local database, which
is locked while it is open, runs one operation and ends. The terminal and web
clients keep the database open and run the same services on one connection, so
their operations interleave at every `await`. Undo, edits, timers and answers
reach the QML process in any order. `launch.sh` keeps the OCR helper beside the
overlay for one session, and each OCR request is a process of its own that asks
the helper over a socket. Generation asks a Provider whose Model the catalog
has; signing in asks the central server, which asks the database platform.

What is hard: late and reordered answers, operations that overlap on one
connection or one device, a failure or a kill between two statements or two
services, latches that an answer has to release, timers that are replaced while
they run, and leaving while something is still in flight.

## 2. Plan

| Order | Module | About | State |
|---|---|---|---|
| 1 | `DraftState`, `OverlayDraft` | the draft and its replies | done, proved |
| 2 | `OverlayWorkspace` | saving, flushing and leaving, composed with 1 | done, proved |
| 3 | `DictionaryTables`, `Dictionary` | operations on the database, statement by statement | done, proved |
| 4 | `LocalData`, `LocalStore`, `LocalFiles` | lock directory, temporary file, rename, link, crash; an abstract store whose operations take effect one at a time, and the files shown to implement it | done, proved |
| 5 | `DictionaryBrowser` | the React store: loads that answer late, the target of an action | done, proved |
| 6 | `Account` | sign-in and sync over devices, server and platform | done, proved |
| 7 | `OcrSession` | launcher, helper and requests | done, proved |
| 8 | `RecognizedText`, `OverlaySelection` | `selection.js`, composed with mouse and OCR answers | done, proved |
| 9 | `ModelCatalog`, `Generation` | the catalog and one request to a Provider | done, proved |
| 10 | `Toasts` | store, renderables and timers of the notifications | done, proved |

Nothing of the plan is left. Every safety property of a passing run has a theorem
(section 6); liveness is model-checked.

## 3. Modules

**`DraftState`** is `state.js` without its variables: a draft is a record, and
each function of the file is an operator from draft to draft (`ChangeText`,
`BeginGeneration`, `ChooseSense`, `ReceiveGeneration`, `UndoDraft`,
`RedoDraft`, `SavePayload`, `ValidSaveReceipt`). Cards are kept per Type, in
order, because the code sorts them by Type; card keys are left out, as a card
is found by its Type and place. Texts are model values, one of which is
`Blank`. `generationRevision` and `modelRevision` are the code's counters.
`generationMatches` compares inputs, of which only the non-blank card texts
count (`Compared`).

**`OverlayDraft`** adds what QML keeps around the draft: the selected Model, the
suggestions, the two loading flags with their revisions, and the commands in
flight as two sets, `generating` and `suggesting`. A command carries the
revision it was started with and the inputs it was sent; it stays in the set
until it is answered, in any order. `EditField`, `ClearField`, `EditCard`,
`ClearCard`, `AddCard`, `ToggleType`, `Undo`, `Redo`, `AdoptState`, `PickModel`,
`Generate`, `Suggest`, `ChooseSuggestion`, `GenerateAnswered`, `SuggestAnswered`
are the handlers.

**`OverlayWorkspace`** extends it with the handlers that save, flush and leave.
A command other than the two of the draft is a job with three phases: started,
run (`StateReadRuns`, `StateWriteRuns`, `SaveRuns`: here the file or the
Dictionary changes), answered. A state-write and a Save can fail before or
after they take effect, and a Save can come back without a receipt.
`FlushState` and `RequestExit` are `flushState()` and `requestExit()`, used by
each handler that calls them, in the handler's own step.

**`DictionaryTables`** is the schema: a database is a record of tables, and each
SQL statement an operator with what the foreign keys cascade. Folder and Entry
IDs are UUIDv5 hashes of what a row was created from, so they are modelled by
the path and by the pair of text and Folder, and keep their value when the row
is renamed. Senses and Descriptions get fresh numbers.

**`Dictionary`** runs operations on it. A slot holds a task: the operation, the
step it is at, and what it has read. Every `await` ends a step, so two tasks of
a client interleave between statements. The record of a task stands for where a method is
and for its local variables, and has no lines of its own in the map. `owner` is the task whose transaction
is open and `begun` the tables before it; a `BEGIN` while one is open fails, and
a statement of another task runs inside it. `Durable` is what a crash leaves.
`Fail` lets any statement fail once, `Crash` kills the process anywhere. What an
operation does with an error follows each repository: `withEntryWriteTransaction`
rolls back, `SqliteFolderRepository.delete` returns the error and so commits,
reads and single writes answer with it.

**`LocalData`** names what the files outside the database hold and what each
operation on them asks for. A document stands for the number of the call that
wrote it, so an identity or a key of this call is told apart from every other
one; `providers` keeps one number per Provider because the whole file is
replaced and a lost update would show in the entry of another Provider.

**`LocalFiles`** runs processes on them: a process is one CLI call, and one
file-system call of it is one step. `ListConnections`, `ReadSecret` and
`FindByProviderId` are what happens before the lock; `Lock`, `Read`,
`WriteTemporary`, `Rename`, `Clean` and `Unlock` are `withLock()` and
`writeAtomically()`, which `fs-local-state-repository.ts` and
`fs-provider-connection-repository.ts` both have, and whose inner part the two
files without a lock use as well (`AfterFile` says which); `Stat`,
`WriteStarter`, `Link`, `Unlink` and `Load` publish and read the configuration.
Each of them can fail, `Crash` ends a process anywhere, and `EditConfig` is the
user with an editor. `lost` is history: the calls that crashed or could not
remove what they had made. One of the three configuration files is modelled, as
they share no state. The queue by which one instance orders its own changes is
left out, since a process makes one; the session file, which is written in
place, is part of `Account`.

**`LocalStore`** is what they promise: a call takes effect at one moment
(`TakeEffect`) or fails, a failure can hide an effect (the unlock of a written
file fails), and a crash leaves the effect or nothing. `LocalFiles` implements
it: a rename, a read that answers, a link or a stat is the effect, everything
else a stutter, an answer, or a failure (`StoreCall`).

**`DictionaryBrowser`** is the Dictionary page of the terminal client. `store` is
the zustand store; a key (`MoveCursor`, `NavigateInto`, `OpenEntry`,
`RequestTreeRename`, `SubmitTreeCreate`, ...) changes it, and `Render` is the
render that follows with the effects whose dependencies it changed: they clamp
the cursor, clear the preview and ask for loads. A load reads its rows at some
time (`Read`) and is answered at some later time (`ItemsAnswered`,
`PreviewAnswered`, `DescriptionsAnswered`), in any order; a write is performed
(`Perform`) and its continuation runs (`FinishTree`, `FinishDescription`,
`FinishFailed`) whatever the user has done since. Two histories serve the
properties: `subject`, what an open prompt was opened for, and `mishaps`, what
went wrong on the way (a load that failed, answers that overtook each other).
Two queries of one list are read as one. The ID of a Description that was deleted
is not used again (`schema.ts:25-30`; its owner is `Gone`, or `Lost` when it went with
its Entry); those of Folders and Entries follow from their names and can be. The web client has handlers of its own
over the same store, but the repository calls it broken and unmaintained
(`docs/modules/dictionary-management/contracts.md:72`), so the keys are those of
the terminal client.

**`Account`** is authentication and sync. A call goes from place to place on its
device (`AnswerReceived`, `SaveProfile`, `OpenSession`, `SaveSession`,
`ConnectRemote`, `BeginSync`, `Push`, `Pull`), and the server works on its
request beside it (`ServerFind`, `ServerInsert`, `CreateDatabase`,
`ServerVerify`, `UpdateLogin`, `GetDatabase`, `CreateToken`): each `await` ends a
step. A laptop runs a command or a terminal client, one process at a time
because the database is locked; a browser runs the web client, whose session is
written in one call. The session file of a laptop is emptied and then written.
Faults: a query or a call of the platform fails, with or without effect; the
server stops; the network breaks before or after the request arrived; a probe
finds no network; the profile or the session cannot be saved; a command is
killed anywhere. `muddled` is history: the devices where calls overlapped or
where a probe that failed made a connect be skipped.

**`OcrSession`** is one opening of the overlay. `Launch` is `launch.sh` from the
bootstrap to Quickshell, `Cleanup` its trap (signal the helper, wait, remove the
files, remove the directory), `Helper` the helper from its signal handlers over
loading, binding and serving to its end, and a job is one `ocr-client` process.
`helper.region` is the rectangle the shared recogniser has been given. `Backlog`
is how many connections may wait beside one. Faults: a step of the launcher
fails, a signal comes, the helper crashes, a client is slow, vanishes or runs
into its deadline. A SIGKILL of the launcher itself leaves the session behind,
as it would with any program that cleans up in a trap, and is left out. A signal
between the `mktemp` and the trap leaves an empty directory, and a second
signal during the cleanup ends it half way (`launcher = "killed"`).

**`RecognizedText`** is `selection.js` on one line of text: `hit`, `boundary`,
`normalized`, `rangeAt`, `moveHandle`, `textForSelection` and `highlightBoxes` as
operators on words, their boxes and symbols. **`OverlaySelection`** composes it
with the handlers of `CaptureWorkspace.qml` that use it: presses of both buttons
with their modifiers, moves, releases, double-clicks, handles, edits, undo, the
toggle between the whole image and the crop, and the OCR answers, in any order.
A command of this module carries no revision, because in the code it has none. Its
`after` is history: the requests that were answered when it was asked for. A place of
the mouse is in pixels of the screen and is scaled to the image (`pixelAt`).

**`Toasts`** is `state.ts` (`known`, `dismissed`, dismissals told in a later
turn), `toaster.ts` (the list that is shown and its limit) and `toast.ts` (one
timer, paused by the mouse, and the 200 ms between dismissal and removal), with
the promises of `toast.promise()` and of the notifier of the terminal client as
`operations`. `stray` counts timers that were forgotten while they ran.

**`ModelCatalog`** holds the checks of a catalog as operators on one:
`normalize` and `fromUpstream` of the adapter, `isCacheFile` of the store,
`get`, `configuredModels` and `requireEligibleModel` of the service. A Model is
a record of what the checks look at; its text has one of four forms, of which the
adapter takes one (`safeText`, up to 200 characters) and the store two (`isSafeText`).
A connection is there or not: `Connect` and `Disconnect` are the one step of
`LocalFiles` that changes the file. **`Generation`** runs them: `lister` is
`models [--refresh]` with its deadline (`Fetched`, `FetchFails`, `TimedOut`,
`FetchedLate`, `Replace`, `Listed`), and `ask` one suggestion, draft or Description
from the check of its arguments over the catalog and the connection to the
Provider, its retries, and the checks of its answer in the adapter and again in
the service (`parseSenses`, `suggestSenses`, ...).

**`MC...`** modules give the constants their values. **`OverlayWorkspaceProofs`
(which also has those about `OverlayDraft`), `LocalFilesProofs`,
`GenerationProofs`, `AccountProofs`, `DictionaryProofs`, `OcrSessionProofs`,
`OverlaySelectionProofs`, `TerminalProofs` (about `Toasts` and `DictionaryBrowser`)** hold the proofs. Definitions named `Mutant...` are bugs
a developer might have made; each property is broken by one of them.

## 4. Runs

| Run | Bounds | Shows |
|---|---|---|
| `DraftRequests` | one Type, two cards, one text and blank, no Model at first, 5 revisions, edits of the Entry, the Instruction and cards | histories, replies and loading flags: `RequestsInStep`, `RedoInvertsUndo`, `ReplyFitsDraft`, `ReplyKeepsText`, and under fairness `LoadingEnds` |
| `DraftRedoLosesResult` | one Type, 8 revisions | violation of `UndoInvertsRedo` |
| `WorkspaceSave` | no Model, edits of Entry, Instruction and a card, 2 revisions, 2 presses of Save after a commit | saving, flushing and leaving: `FlushedOnExit`, `SaveIsSettled`, and under fairness `SaveAnswered`, `ClosingSettles` |
| `WorkspaceRequests` | one Model, two cards, one text and blank, 3 revisions | `ReceiptRecognised` |
| `DictionaryProcesses` | 2 slots, 3 operations, 1 failing statement, 3 databases, 2 typed Descriptions | `DescriptionsFitSenses`, `NothingLeftOpen`, `SaveCounted`, `CommandAtomic` |
| `LocalFiles` | 2 processes, 2 Providers, 2 calls after what the past left, 1 more try at a lock, 1 failing call or crash | `NothingLeftBehind`, the refinement `StoreSpec`, and under fairness `Answered` |
| `DictionaryBrowser` | 2 Folders, 2 Entries, 2 Descriptions, of each one there and one to be made, 1 load in flight when a key is pressed, 1 write or failing load, paths of 2 | `DescriptionsOfOpenEntry`, `ShownAtRest`, `SubjectKept` |
| `Accounts` | 2 accounts, a laptop and a browser, 2 calls, 2 faults | `SignInIsWhole`, `RegisteredOnce`, `SyncOfOneAccount` |
| `OcrSessions` | 2 languages, 2 requests for the image, a crop, a place outside it or nothing sensible, 1 waiting connection, 2 faults | `AnswerIsOwn`, `CleanedUp`, and under fairness `CleanupEnds` |
| `OcrSelection` | a line of two words, one without symbols, a crop of one word, 4 places of the mouse at a scale of 2, 2 presses with their double-clicks, the image and 2 crops, for each of them two kinds of words, none or a failure, 1 edit, undo or handle | `RangeFitsSource`, `DragSelectsBetween`, `LastUsableCropKept`, `DoubleClickRestores` |
| `Toasts` | 3 toasts of which 2 are shown, 3 calls, 1 hover, promises of both kinds with and without handlers | `ShowsLatest`, `WithinLimit`, `ClosesItself`, `OutcomeReported` |
| `Generations` | 2 Providers, 11 cache files, 13 answers of models.dev, 2 retries, a limit of 2 Senses, answers of up to 3 Senses or 2 Descriptions | `CatalogSurvives`, `RefreshWorks`, `FailureNamesLast`, `AnswerKeepsPromise`, `FailedRefreshKeepsCache` |

Why the bounds are enough. A revision is spent by every edit, undo, redo and
Generate; a reply and a Sense choice interact with at most two history entries,
and choosing a Model and an Entry, a generation, its undo and redo take five.
With two cards of a Type a reply has one it fills and one it leaves alone; the
Type is toggled between a request and its reply.
The flags of the workspace are booleans, and each command is started at most
once before it is answered, so two revisions and two Saves after a commit reach
every combination. In `Dictionary` the invariants relate two rows, and two
overlapping tasks are enough for a check of one to be outdated by a statement
of the other; a third operation comes after a failure or a restart. The
databases a run starts from have a Folder in a Folder with an Entry; an Entry
that was changed under its ID; a Sense with one Description in it and one out.

A lost update on a file takes two overlapping calls, and a lock left behind one
crash and a second call; two Providers tell an update of one from a rewrite of
the other. In the browser, a key pressed while a load is in flight asks for more,
so that answers overtake each other although the bound is one; a write changes
the rows between two reads. Two calls on an account are what it takes for
sign-ins to overlap or to follow each other, with another account or the same
one, and two faults for the repeated call to fail as well. Two requests share
the recogniser and the queue of the helper. Two presses are a click and what is
made of it, or two drags of which the second finds the first's selection. Two
crops and the image, with two layouts to tell the words of the crops apart, are a usable
crop and another that is usable too, fails or has no words, asked for before or after
the first is answered; what is kept relates two crops at a time. With three
toasts of two places one has to go, and three calls update, dismiss and bring
back the same one. Where theorems exist (section 6) they hold for any bounds.

The bounds are `MaxRevision`, `MaxCards`, `MaxCommits`, `MaxDepth`,
`MaxReviewed`, `MaxStarts`, `MaxFailures`, `MaxCalls`, `MaxAttempts` (the code
gives up on a lock after a number of tries), `MaxFaults`, `MaxLoads`,
`MaxWrites`, `MaxJobs`, `MaxPresses`, `MaxEdits`, `MaxToasts` and `MaxHovers`;
each is a guard of the action it bounds. `MaxRetries`, `SenseLimit`,
`VisibleToasts` and `Backlog` are limits of the code, smaller. `SlotSymmetry` is
sound: the slots of `Dictionary` are interchangeable, and its run checks no
liveness.

Deadlock is only checked in the `Dictionary` run. The others stop when a program
ends (the overlay, a session, a command) or a bound is used up.

**Fairness.** Weak fairness for the 350 ms timer, for each CLI process (it
runs, and its answer is delivered; `CommandJob` answers also when the process
exits without a line), for the steps of a process on the local files (a
file-system call and a fetch return), for the launcher, its cleanup and the OCR
helper (each of their waits has an end), and nothing for the user, who need not
act nor type the key a process asks for, nor for a client of the helper, which
may vanish, nor for a Provider, which need not answer. `ClosingSettles`
assumes that the user at some time stops changing the Instruction and the Types
(`ChangesEnd`): the QML accepts changes while closing, and each of them makes
another write.

## 5. Where code and documentation part

One divergence has a run, with the quotes under `findings` in `PROJECT.json`:
undo after redo does not always restore the generated Sense and Descriptions
(`DraftRedoLosesResult`, a counterexample of 8 revisions).

Others were met while modelling. The models do what the code does, and the
properties are stated so that they hold all the same.

Overlay:

- The overlay can quit with a Save unanswered: Save pressed while a Cancel waits
  for its state-write (`CaptureWorkspace.qml:215`; `docs/system-overview.md:17`
  has it closed by the receipt). `SaveIsSettled` says, and is proved to say, that
  there is no other way.
- The remembered Instruction is overwritten with a blank one when a Type is
  toggled, or undo pressed, before the state file has been read
  (`CaptureWorkspace.qml:237`; `apps/overlay/README.md:104`).
- When the screenshot cannot be loaded, `Recognizing text` stays
  (`CaptureWorkspace.qml:53`, `:582`). Of two crops
  that are waited for at once the one that is answered last is kept, which may be the
  older, and the first answer ends the notice.
- A double-click takes back what was typed, in either field, between its two presses
  (`clean` in `DoubleClickRestores`). One whose first press held Alt brings back the
  text from before an older click, as that press leaves `completedClick` as it was
  (`CaptureWorkspace.qml:630`; `apps/overlay/README.md:78` has the field retain the text
  it had before the double-click), hence `~clicked.alt` there.

Dictionary:

- A Folder delete whose DELETE fails commits what it had deleted
  (`sqlite-folder-repository.ts:250`; `entry-write.ts:94` rolls back), and one
  that is confirmed twice rejects instead of returning an error
  (`sqlite-folder-repository.ts:182`; `docs/system-overview.md:27`).
- A statement without a transaction that runs while another operation of the client has
  one open is undone with it, although it was answered.
- `createEntry` and `createFolder` answer with the renamed row when the ID of
  the name they were given is taken (only a reviewed Save insists on the text),
  and `renameFolder` accepts names with slashes.
- In the browser, answers that overtake each other are applied: until the next
  load the items of another Folder are listed (`mishaps` in `ShownAtRest`). The
  continuation of a late write closes whatever prompt is open
  (`use-tree-actions.ts:36`).
- A delete that is answered late leaves its Entry open when it was opened
  meanwhile: `finishAction` never clears `activeEntryId`. Made again with its name
  the Entry has its ID back, and the page goes on listing the Descriptions that were
  deleted with the first (`ListsLost`, excepted in `ShownAtRest`; it takes two
  writes).

Accounts:

- `logout` leaves the rows of the account, its profile with the others, in the
  local database, and the next account that synchronises on the device pushes
  them to its own.
- `connect()` is not looked at: after a probe that found no network, or with
  two sign-ins at once, a sync goes on with the credentials of another account
  (`muddled` in `SyncOfOneAccount`). The web client does not chain its
  checkpoints.
- A registration that fails after the user was inserted leaves an address that
  is taken and has no database; login then fails too.

Toasts: a result that comes in the 200 ms a toast fades is never shown, a
callback that throws leaves a loading toast for good (both excepted in
`OutcomeReported`). The web client hands `syncService.sync()` to a toast library
that knows only rejections (`nav-bottom-bar.tsx:15`), so that an Error that is
returned is told as a success; that library is not modelled.

## 6. Proofs

`OverlayWorkspaceProofs`, the draft. Assumptions: those of the modules (default Types are
Types, `Blank` is a text, what is enumerated is typed). Each operator of
`DraftState` is shown once to map a draft to a draft and to keep the active
request on top (`ActiveOnTop`). The inductive invariant is
`DraftInv == DraftTypeOK /\ ActiveRequestOnTop /\ LoadingIsAwaited`; the type is
needed for every function application, and the other two do not need each
other. From it: `DraftTypeCorrect` and `RequestsStayInStep`.

Undo and late replies need to know what the history remembers. `HistoryInv` says:
the flags of an action agree with what it stored (`Agrees`), no revision is used
again, an action keeps the inputs its request was sent with (`Asked`), and a
command for suggestions that has the revision of the draft has its Entry, captured
Description and Model (`Suggests`). Each operator is shown once to make only
actions that are edits, new requests, or there already (`Inherits`), so the
parts about requests in flight survive every edit, undo and redo. It gives
`RedoAlwaysInverts` and `RepliesFitDraft`; `RepliesKeepText` is about
`ApplyGenerated` alone. Assumption: `None` is no revision (`NoneAssumption`).

`OverlayWorkspaceProofs`, the workspace. Each of its steps is a step of `OverlayDraft` or
leaves the draft alone, because the handlers are composed of its actions (`StepDrivesDraft`),
so `DraftInv` holds for the workspace as well. Its own inductive
invariant is `SessionInv`, with two parts:

- `SaveInv`: `saving` exactly while the save job is not idle, the drawer is open
  meanwhile, and a receipt in an answer is the receipt of `pendingSave`. It is
  what makes `ReceiptRecognised` and `SaveIsSettled` provable (`SavesAreSettled`,
  `ReceiptsRecognised`): they speak of an answer given many steps after the Save
  was pressed.
- `WriteInv`: a state-write is pending exactly while its job is not idle,
  `DirtyIsScheduled`, `ClosingIsFlushing`, and an overlay that ended without
  being forced to has nothing dirty or pending.

`FlushedOnExit` needs `DiskInv` besides: where the latest change is (in the
draft, in the write under way, or on disk). It is inductive relative to
`SessionInv`.

`LocalFilesProofs`. The invariant is
`LockInv == TypeOK /\ PlaceInv /\ HolderInSection /\ NothingLeftBehind`:
`PlaceInv` says which operations reach which place and that two calls have
different numbers, without which a lock could not be told from another's. Its
proof first shows that every step of a process moves that process alone along
the places of its operation (`StepMoves`), then what it does to the locks
(`StepLocks`) and to the temporary files (`StepTemps`). From it:
`LocalTypeCorrect`, `MutualExclusion`, `LeftBehindIsLost`.

There too, `StoreInv` adds what the outcome is at each place and
`StillSeen`: what a process read under its lock is still what the file holds when
it replaces it. That is inductive by mutual exclusion, and gives `IdentityIsKept`;
with it each step maps to one of `LocalStore`, which is the theorem `Implements`.
`ConfigIsKept` follows from the link alone. Assumptions: the bounds are
numbers, `None` is no Provider.

`GenerationProofs`. Assumptions: the bundled catalog is a catalog with a Model
(`BundleAssumption`), and models.dev keeps the Models of a Provider under their
IDs (`UpstreamAssumption`). `Normal` says what `normalize` returns: invalid, or a
catalog of every Provider, with a Model, that the adapter accepts and so the store does too
(`SoundIsStoring`), though not the other way round.
What was normalised and stored reads back as it was (`ReadsBack`), so `CatalogInv`,
which has what the lister found and what was refreshed last, is inductive; it
gives `CatalogSurvivesAnyFile`, `RefreshAlwaysWorks` and, since only `Replace`
writes, `FailedRefreshWritesNothing`, for any Providers, files and answers.

The request to a Provider has an invariant of its own. `AskInv` says what is known
when it is at a place: up to the call, that its failures so far were worth a retry and
not more than the limit (`Trying`); when it failed, that the reason is that of
the last failure (`NamesLast`); when it is done, what the result satisfies (`Promised`),
which is shown once for the checks of each kind of answer. It gives
`FailureReasonIsLast` and `AnswersKeepPromise`. Assumptions: the limits are numbers
(`LimitsAssumption`), what is asked for has a kind and a Sense with a name
(`AsksAssumption`), and answers that fit the schema are lists of Senses
(`ValuesAssumption`).

`AccountProofs`. Assumption: `AccountAssumption` (nobody is called None or Torn,
and None is no place of a request). `AccountInv` has four parts. `PlaceInv`
says which operations reach a place; `ServerInv` what the server has made by the
time a request is at a place, and that two requests that inserted an address are
one; `SessionInv` the same of a sign-in on its device; `SyncInv` who uses a
device: two calls at once are of a client and, but for two that synchronise, the
device is `muddled`, so a call that connects on one that is not is alone, and
what is stored as the session when it connects is still stored when it has.
`SignInsAreWhole` and `AddressRegisteredOnce` are parts of it; `SyncsOfOneAccount`
follows as `Pull` happens only where it holds.

`DictionaryProofs`. Assumptions: `DatabasesAssumption` (the tables a run starts
from satisfy the foreign keys and fit), `NewestIdAssumption` (they have a newest
ID), `SlotsAssumption` and `BoundsAssumption`. That Senses fit cannot be seen from the statements,
as the foreign keys of a Description name its Entry and its Sense separately and
the service compares them some statements earlier. So `DictionaryInv` has, besides
`TablesInv`, the conjunct that makes the comparison hold when it is used: in a
client, where operations overlap, an update is told to write the Entry a
Description has, in the open transaction and without it (`ClientInv`); a command
is alone, and what it has read is still so (`CommandInv`). `OwnerInv` says that
`owner` is exactly the task inside its transaction, from which `NothingStaysOpen`
follows. Each statement is shown once to lead from related tables to related
tables (`Follows`). `SavesAreCounted` needs `CountInv` besides: how far the open
transaction is ahead of the disk. A statement of another task that falls into it
inserts no Entry and leaves the count (`Elsewhere`, `Leaves`), since only Entry
writes do and a second `BEGIN` fails.

`CommandsAreAtomic` has an invariant of its own. A command has one task, so at
each place of its transaction `AtomicInv` can say exactly what has been done to
`begun`: the rows inserted so far and those still in the queue (`Saving`,
`Generating`, `Deleting`). Rows have IDs the command did not choose, so new ones
are counted by their fresh IDs (`Gained`, `NewIds`). Only `Commit` changes what is
on disk, and the place before it is reached with the whole operation done
(`SavedWhole`, `GeneratesRows`, `DeletesSense`).

`OcrSessionProofs`. Assumption: no region has the name of an outcome
(`RegionsAssumption`). `OcrInv` is the type and two parts. `SessionInv`: the launcher
removes files only once the helper, which makes one of them, has ended, and
what is left shrinks with each place; it gives `NothingIsLeft`. `WordsInv` follows
words along their way: what the helper found and is about to write is of the
request it read, what is on the wire or was answered is of the request of that
connection; `AnswersAreOwn` is its last step. The type has to say that the client
the helper serves is a request, as connections are numbered by arrival.

`OverlaySelectionProofs`. Assumption: `SelectionAssumption` (the mouse and the image are at
numbers, the scale is a positive one, OCR finds words whose boxes are integers, as the helper writes them, and how
far a place may be from the word it hits is a natural number). Four invariants, one
for each theorem:

- `RangeInv`: each selection, kept or being made, is a range of the words kept with
  it (`IsRange`). The functions of `selection.js` are shown once to make ranges of
  ranges: a place hits one of the words (`HitIs`), a boundary is at an offset of its
  word (`BoundaryIs`, by `FirstLeastIsThere`), and ordering two ends gives a range
  (`NormalizedIs`). The symbols of a word start one after another
  (`SymbolsInOrder`), so the handles of one word are in order (`EdgesInOrder`); between two
  words they are if the words are (`InReadingOrder`, which every layout of the run
  satisfies and OCR does not promise: symbols may reach out of their word).
- `JobsInv`: the words kept are those of a crop that is in the `after` of no crop with
  words (`AreLastUsable`), however requests overlap. It needs that an `after` holds only
  answered requests: a crop that is answered now is then in none of them, so its words
  are the last usable ones; one without words or a failure adds no usable crop.
- `ClickInv`: while the last press was simply a click, its texts are those there
  are until it is released, and those a double-click brings from then on. It needs
  `RangeInv` for the shape of what it speaks of.

- `DragIsMade`: a range that is being made is the one `rangeAt` gives for the places of
  its drag, in the words kept with it. It needs `RangeInv` for the shape of a drag.

`DragSelectsBetween` follows from `DragIsMade` by what `selection.js` computes, for any
number of words and symbols. It says so of words that are `SideBySide`: the boxes of each
word reach from its left to its right end, and no word begins before the one
before it has ended. Both layouts of the run are such, so the run checks it of every drag.
Without it the claim is false: a drag looks for the nearest word first (`hit`), and where
symbols leave a part of their word empty or reach into the next word, the nearest symbol
of that word is not the nearest of all. The argument has three parts (`RangeIsBetween`
puts them together):

- Concatenation. `AllBoxes` and `highlightBoxes` are concatenations (`FlattenSeq`) of what
  each word has, of which the library proves nothing, and its induction cannot be used
  here. `AllFrom` says instead that a set of numbers with 1, and with each number also
  the next, has them all; it rests on the least element of a set (`LeastOf`). With it,
  `Joins` are the partial concatenations, which exist (`JoinsExists`), are what `FlattenSeq`
  computes (`FlattenIs`) and cannot be others (`JoinsOnly`). Parts of sequences, from
  within one to within a later one, make a part of the whole (`FlattenCut`), and so
  the boxes of a range are a part of all boxes (`HighlightIs`).
- Distance. The nearest box of the nearest word is the nearest of all (`NearestBeats`), so
  that its place among all boxes is `BoxAt` (`BoxAtIs`); and the nearest box does not
  move left when the place moves right (`NearestMoves`), so the two ends are in the
  order of the places.
- Direction. The two ends give the boundaries before the one box and after the other
  (`BoundaryIsAt`), which `normalized` leaves in order (`NormalizedIsRange`), once for
  a drag to the right and once for one to the left.

`TerminalProofs`, toasts. No assumption but the bounds. `Good` says of a world (dismissals,
notices, toasts shown) and of what the Observer knows: no two toasts have one id;
each shows the data of its id (`Drawn`), has a timer if it should (`Closes`), and
is on its way out or will hear of it if it was dismissed (`Heard`); and no more
stay than fit. Since a call dismisses some toasts and then adds one, `Good` takes the set
of ids that are dismissed next and need not hear: each operation on the world is shown
to lead from good to good (`DismissGood`, `AddGood`, `ToastChanges`), and
each action is a composition of these. `RoomForOne` counts: the toasts that stay after the
overflow was dismissed are mapped one to one to the last places of the list. With
that, `LatestIsShown`, `LimitIsKept` and `TimersRun` are parts of the invariant, and
`OutcomesAreTold` follows from what `AddGood` says of the toast it was given.

`TerminalProofs`, Dictionary page. Assumption: `BrowserAssumption` (the lists of IDs are
sequences, IDs of Descriptions are none of Folders and Entries, `None` is no ID, and
the owner of a deleted Description is not `None`).
`SubjectInv` is `SubjectKept` for a record with the fields of the store: every step
answers, closes the prompt, opens one or leaves all that the prompt is about
(`LeavesPrompt`), and the effects of a render then leave it too (`AfterEffectsIs`).
For `ListedBelongToEntry`, `ListedInv` says the same of rows that are not shown yet:
those a load has read belong to the Entry it was asked for, so that the guard after
the await is enough. A write moves no Description from one Entry to another
(`OwnersMove`), and opening or closing an Entry clears the list in the same render.
That a query returns rows of its Entry (`DescriptionsOfIs`) needs that there is an n-th of
n positions (`NthIs`), by counting.

`PageShowsDictionary` needs to say, while answers are still out, what will have been
shown when they are in. `RestInv` says it: while nothing went wrong (no mishap), the
items, the Descriptions and the preview each are settled (`ItemsSettled`,
`DescriptionsSettled`, `PreviewSettled`): either the last load in flight of that kind
asks for what is open now and, if it was read, has read the rows there are now; or none
is in flight and those rows are shown; or one that counts was passed by another, and the
order is not the one asked for. Two things suspend it: a write that is performed
and not yet continued (`Done`), since the refresh comes with its continuation, and for
the preview a load of items, which moves the cursor. With nothing in flight what
remains of `RestInv` is `ShownAtRest`. `PageInv` is the types it needs, and
`ListedInv` is used of the rows that a load of Descriptions has read. `PageRests`, the two
together, is inductive relative to `ListedInv`. Its lemmas: what each effect of a
render leaves to be settled (`RenderRests`, from `Rests`, once for all actions that
render); what is left of a queue when a load is answered that passed none
(`AnswerLeaves`); and which rows a write touches (`OutcomesTouch`: Folders and
Entries, or Descriptions), so that the lists it does not touch read the same
(`ItemsInSame`, `AreOfKept`).

Only model-checked: `UndoInvertsRedo` (which does not hold, section 5), and liveness
(`LoadingEnds`, `SaveAnswered`, `ClosingSettles`, `Answered`, `CleanupEnds`). The prover
has no support for fairness and ENABLED. Its library cannot instantiate induction over
data either: where a proof needs it, of numbers and of concatenations, it
is replaced by the least element of a set (`LeastOf`, `AllFrom`).

## 7. Not modelled

What a valid state or configuration file looks like (an invalid one is a read
that fails) and how the layers of the configuration merge; the rectangles of
pixels on two axes that selection and crops are (one line is modelled), and how
Tesseract recognises; keyboard navigation and focus of the overlay; prompts and
the packages of the Providers; validation and wording of texts; how toasts look
and where they stand; the context menu and the selection of several items in the
browser store, which no client calls; passwords, hashes and tokens beyond right
and wrong; instructions and timestamps in the database; the merge of rows in a
sync, which is inside the Turso engine (a move on one device and an assignment on
another can leave a Description in a Sense of another Entry, which
`DescriptionsFitSenses` only excludes for one device); and the components that
`PROJECT.json` lists as not modelled: instructions, whose operations are one
statement each on a table of their own, and errors and logging, which have no
state.

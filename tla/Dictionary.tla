------------------------------ MODULE Dictionary ------------------------------
(***************************************************************************)
(* Processes on the local Dictionary database.  The file is locked by the  *)
(* process that has it open: a CLI command, which runs one operation and   *)
(* ends, or an interactive client, whose operations overlap on its single  *)
(* connection.                                                             *)
(*                                                                         *)
(* An operation is a task that runs statement by statement, each statement *)
(* one action; two tasks interleave at every await.  The connection has at *)
(* most one transaction: a BEGIN inside it fails, and a statement of       *)
(* another task that runs while it is open becomes part of it.  A          *)
(* statement can fail, and the process can be killed anywhere.             *)
(***************************************************************************)
EXTENDS DictionaryTables

CONSTANTS
  Slots,          \* tasks that can overlap in a client
  Databases,      \* databases a process can find
  NewNames,       \* names that Folders are created with and renamed to
  MaxDepth,       \* bound on the depth of Folders
  MaxReviewed,    \* bound on typed Descriptions of a reviewed Save
  MaxStarts,      \* bound on operations
  MaxFailures     \* bound on statements that fail

VARIABLES
  process,        \* "none", "command" or "client"
  db,             \* the tables the connection sees
  owner,          \* the task whose transaction is open, or None
  begun,          \* the tables when it was opened
  tasks,          \* the operation of each slot
  lastId,         \* the newest Sense or Description ID
  starts, failures

vars == <<process, db, owner, begun, tasks, lastId, starts, failures>>

Ids(base) == DOMAIN base.senses \cup DOMAIN base.descriptions
NewestId(base) == CHOOSE n \in Ids(base) \cup {0} : \A i \in Ids(base) : i <= n

ASSUME SlotsAssumption == None \notin Slots
ASSUME NewestIdAssumption ==
  \A base \in Databases : \E n \in Ids(base) \cup {0} : \A i \in Ids(base) : i <= n
ASSUME DatabasesAssumption ==
  \A base \in Databases : IsDatabase(base) /\ ReferencesHold(base) /\ SensesFit(base)
ASSUME NewNamesAssumption == NewNames \subseteq Names \cup {RootName}
ASSUME BoundsAssumption ==
  {MaxDepth, MaxReviewed, MaxStarts, MaxFailures} \subseteq Nat

(* What is on disk: an open transaction is not. *)
Durable == IF owner = None THEN db ELSE begun

-----------------------------------------------------------------------------
(* Operations.  Their arguments are rows on screen when they are started.  *)

FolderOps ==
  [kind: {"createFolder"}, parent: {f \in DOMAIN db.folders : Len(f) < MaxDepth},
   name: NewNames \ {RootName}]
  \cup [kind: {"renameFolder"}, folder: DOMAIN db.folders, name: NewNames]
  \cup [kind: {"deleteFolder"}, folder: DOMAIN db.folders]

EntryOps ==
  [kind: {"createEntry"}, text: Words, folder: DOMAIN db.folders]
  \cup [kind: {"updateEntry"}, entry: DOMAIN db.entries, text: Words]
  \cup [kind: {"deleteEntry"}, entry: DOMAIN db.entries]

(* A client updates a Description where it is. *)
DescriptionOps ==
  [kind: {"createDescription"}, entry: DOMAIN db.entries]
  \cup {[kind |-> "updateDescription", description |-> d,
         entry |-> db.descriptions[d].entry] : d \in DOMAIN db.descriptions}
  \cup [kind: {"deleteDescription"}, description: DOMAIN db.descriptions]

ClientOps == FolderOps \cup EntryOps \cup DescriptionOps

(* A reviewed Save of an Entry, or of a Sense with typed Descriptions;     *)
(* `captured` when there is captured text to save.                         *)
SaveOps ==
  [kind: {"save"}, text: Words, sense: {FALSE}, captured: BOOLEAN, reviewed: {0}]
  \cup [kind: {"save"}, text: Words, sense: {TRUE}, captured: BOOLEAN,
        reviewed: 1..MaxReviewed]

(* The CLI also has the other commands, and any Entry to move to. *)
CommandOps ==
  ClientOps \cup SaveOps
  \cup [kind: {"updateDescription"}, description: DOMAIN db.descriptions,
        entry: DOMAIN db.entries]
  \cup [kind: {"createSense"}, entry: DOMAIN db.entries]
  \cup [kind: {"deleteSense"}, sense: DOMAIN db.senses, cascade: BOOLEAN]
  \cup [kind: {"assignToSense"}, description: DOMAIN db.descriptions,
        sense: DOMAIN db.senses]
  \cup [kind: {"detachFromSense"}, description: DOMAIN db.descriptions]
  \cup [kind: {"generate"}, description: DOMAIN db.descriptions, reviewed: 1..MaxReviewed]

(* The operations that run in a transaction. *)
EntryWrites == {"createEntry", "save"}
Transactions == EntryWrites \cup {"deleteFolder", "deleteSense", "generate"}

FirstStep(kind) ==
  CASE kind = "generate" -> "propose"
    [] kind \in {"updateDescription", "assignToSense", "detachFromSense"} -> "find"
    [] kind \in Transactions \ {"generate"} -> "begin"
    [] OTHER -> "run"

Idle ==
  [op |-> None, at |-> "idle", outcome |-> "ok", queue |-> <<>>, doomed |-> <<>>,
   entry |-> None, sense |-> None]

NewTask(op) == [Idle EXCEPT !.op = op, !.at = FirstStep(op.kind)]

Steps == {"idle", "run", "find", "findSense", "propose", "begin", "select", "children",
          "drop", "root", "insert", "existing", "sense", "assign", "captured", "reviewed",
          "activity", "cascade", "delete", "commit", "rollback", "done"}

(* "thrown": the caller gets an exception instead of an error value.       *)
Outcomes == {"ok", "error", "thrown"}

TypeOK ==
  /\ process \in {"none", "command", "client"}
  /\ IsDatabase(db)
  /\ owner \in Slots \cup {None}
  /\ owner = None <=> begun = None
  /\ owner # None => IsDatabase(begun)
  /\ \A s \in Slots :
       /\ tasks[s].at \in Steps /\ tasks[s].outcome \in Outcomes
       /\ tasks[s].queue \in Seq(FolderId) /\ tasks[s].doomed \in Seq(FolderId)
       /\ tasks[s].entry \in EntryId \cup {None} /\ tasks[s].sense \in Nat \cup {None}
  /\ lastId \in Nat /\ starts \in 0..MaxStarts /\ failures \in 0..MaxFailures

Init ==
  /\ process = "none"
  /\ db \in Databases
  /\ owner = None /\ begun = None
  /\ tasks = [s \in Slots |-> Idle]
  /\ lastId = NewestId(db)
  /\ starts = 0 /\ failures = 0

-----------------------------------------------------------------------------
(* Processes. *)

(* Opening the database creates the Root Folder. *)
Open(kind) ==
  /\ process = "none"
  /\ process' = kind
  /\ db' = WithRoot(db)
  /\ UNCHANGED <<owner, begun, tasks, lastId, starts, failures>>

AllIdle == \A s \in Slots : tasks[s] = Idle

Start(s) ==
  /\ starts < MaxStarts /\ starts' = starts + 1
  /\ tasks[s] = Idle
  /\ \/ process = "client" /\ \E op \in ClientOps : tasks' = [tasks EXCEPT ![s] = NewTask(op)]
     \/ /\ process = "command" /\ AllIdle
        /\ \E op \in CommandOps : tasks' = [tasks EXCEPT ![s] = NewTask(op)]
  /\ UNCHANGED <<process, db, owner, begun, lastId, failures>>

(* The caller takes the answer; a command's process ends with it. *)
Finish(s) ==
  /\ tasks[s].at = "done"
  /\ tasks' = [tasks EXCEPT ![s] = Idle]
  /\ process' = IF process = "command" THEN "none" ELSE process
  /\ UNCHANGED <<db, owner, begun, lastId, starts, failures>>

Close ==
  /\ process # "none" /\ AllIdle
  /\ process' = "none"
  /\ UNCHANGED <<db, owner, begun, tasks, lastId, starts, failures>>

Crash ==
  /\ process # "none" /\ ~AllIdle
  /\ process' = "none" /\ db' = Durable
  /\ owner' = None /\ begun' = None
  /\ tasks' = [s \in Slots |-> Idle]
  /\ UNCHANGED <<lastId, starts, failures>>

-----------------------------------------------------------------------------
(* Statements.  Each one is of a task at that step of its operation. *)

At(s, step, kinds) ==
  /\ tasks[s].at = step /\ tasks[s].op.kind \in kinds
  /\ UNCHANGED <<process, starts, failures>>

GoTo(s, step) == tasks' = [tasks EXCEPT ![s].at = step]
Answer(s, outcome) == tasks' = [tasks EXCEPT ![s].at = "done", ![s].outcome = outcome]

(* An operation without a transaction answers with its statement. *)
Writes(s, tables) == Answer(s, "ok") /\ db' = tables
Refused(s) == Answer(s, "error") /\ UNCHANGED db

(* Mutant: returning an error leaves the transaction as it is. *)
MutantNoRollback(s) == Answer(s, "error")

(* An error the operation returns: what comes back from a transaction is   *)
(* committed, but withEntryWriteTransaction turns it into an exception.    *)
Aborts(s) ==
  tasks' = [tasks EXCEPT
    ![s].at = IF tasks[s].op.kind \in EntryWrites THEN "rollback" ELSE "commit",
    ![s].outcome = "error"]

NoTransaction == UNCHANGED <<owner, begun>>

(* FolderService and SqliteFolderRepository. *)

CreateFolder(s) ==
  LET op == tasks[s].op
      id == FolderIdFor(op.parent, op.name) IN
  /\ At(s, "run", {"createFolder"}) /\ NoTransaction /\ UNCHANGED lastId
  /\ \/ id \in DOMAIN db.folders /\ GoTo(s, "existing") /\ UNCHANGED db
     \/ /\ id \notin DOMAIN db.folders /\ op.parent \in DOMAIN db.folders
        /\ Writes(s, WithFolder(db, op.parent, op.name))
     \/ id \notin DOMAIN db.folders /\ op.parent \notin DOMAIN db.folders /\ Refused(s)

FindExistingFolder(s) ==
  LET op == tasks[s].op IN
  /\ At(s, "existing", {"createFolder"}) /\ NoTransaction /\ UNCHANGED lastId
  /\ IF FolderIdFor(op.parent, op.name) \in DOMAIN db.folders
     THEN Writes(s, db) ELSE Refused(s)

RenameFolder(s) ==
  LET op == tasks[s].op IN
  /\ At(s, "run", {"renameFolder"}) /\ NoTransaction /\ UNCHANGED lastId
  /\ IF op.folder \in DOMAIN db.folders /\ (op.folder = Root => op.name = RootName)
     THEN Writes(s, [db EXCEPT !.folders[op.folder].name = op.name]) ELSE Refused(s)

SelectFolder(s) ==
  LET folder == tasks[s].op.folder IN
  /\ At(s, "select", {"deleteFolder"}) /\ NoTransaction /\ UNCHANGED <<db, lastId>>
  /\ IF folder \in DOMAIN db.folders /\ folder # Root
     THEN tasks' = [tasks EXCEPT ![s].at = "children", ![s].queue = <<folder>>]
     ELSE Aborts(s)

(* The rows of a SELECT come in any order. *)
Orders(ids) == {order \in [1..Cardinality(ids) -> ids] :
                  \A i, j \in DOMAIN order : order[i] = order[j] => i = j}

(* One round of the search: what was found last is deleted first. *)
SelectChildren(s) ==
  LET task == tasks[s] IN
  /\ At(s, "children", {"deleteFolder"}) /\ NoTransaction /\ UNCHANGED <<db, lastId>>
  /\ \E order \in Orders(Children(db, Head(task.queue))) :
       LET queue == Tail(task.queue) \o order IN
       tasks' = [tasks EXCEPT
         ![s].queue = queue,
         ![s].doomed = <<Head(task.queue)>> \o @,
         ![s].at = IF queue = <<>> THEN "drop" ELSE "children"]

DropFolder(s) ==
  LET doomed == tasks[s].doomed IN
  /\ At(s, "drop", {"deleteFolder"}) /\ NoTransaction /\ UNCHANGED lastId
  /\ IF CanDropFolder(db, Head(doomed))
     THEN /\ db' = WithoutFolders(db, {Head(doomed)})
          /\ tasks' = [tasks EXCEPT ![s].doomed = Tail(doomed),
                         ![s].at = IF Len(doomed) = 1 THEN "commit" ELSE "drop"]
     ELSE Aborts(s) /\ UNCHANGED db

(* EntryService and SqliteEntryRepository. *)

UpdateEntry(s) ==
  LET op == tasks[s].op IN
  /\ At(s, "run", {"updateEntry"}) /\ NoTransaction /\ UNCHANGED lastId
  /\ IF op.entry \in DOMAIN db.entries
     THEN Writes(s, [db EXCEPT !.entries[op.entry].text = op.text]) ELSE Refused(s)

DeleteEntry(s) ==
  LET op == tasks[s].op IN
  /\ At(s, "run", {"deleteEntry"}) /\ NoTransaction /\ UNCHANGED lastId
  /\ IF op.entry \in DOMAIN db.entries
     THEN Writes(s, WithoutEntries(db, {op.entry})) ELSE Refused(s)

FolderOf(op) == IF op.kind = "save" THEN Root ELSE op.folder

(* A reviewed Save goes on with what it has to insert. *)
AfterEntry(op) ==
  IF op.kind = "createEntry" THEN "activity"
  ELSE IF op.sense THEN "sense" ELSE IF op.captured THEN "captured" ELSE "activity"

(* insertOrReuseEntry. *)
InsertEntry(s) ==
  LET op == tasks[s].op
      id == EntryIdFor(op.text, FolderOf(op)) IN
  /\ At(s, "insert", {"createEntry", "save"}) /\ NoTransaction /\ UNCHANGED lastId
  /\ \/ id \in DOMAIN db.entries /\ GoTo(s, "existing") /\ UNCHANGED db
     \/ /\ id \notin DOMAIN db.entries /\ FolderOf(op) \in DOMAIN db.folders
        /\ db' = WithEntry(db, op.text, FolderOf(op))
        /\ tasks' = [tasks EXCEPT ![s].entry = id, ![s].at = AfterEntry(op)]
     \/ /\ id \notin DOMAIN db.entries /\ FolderOf(op) \notin DOMAIN db.folders
        /\ Aborts(s) /\ UNCHANGED db

(* Mutant: a reviewed Save takes an Entry that was changed. *)
MutantReusesChanged(s) ==
  LET op == tasks[s].op
      id == EntryIdFor(op.text, FolderOf(op)) IN
  /\ At(s, "existing", {"createEntry", "save"}) /\ NoTransaction /\ UNCHANGED <<db, lastId>>
  /\ IF id \in DOMAIN db.entries
     THEN tasks' = [tasks EXCEPT ![s].entry = id, ![s].at = AfterEntry(op)]
     ELSE Aborts(s)

(* Only a reviewed Save insists that the Entry still has the text. *)
ReuseEntry(s) ==
  LET op == tasks[s].op
      id == EntryIdFor(op.text, FolderOf(op)) IN
  /\ At(s, "existing", {"createEntry", "save"}) /\ NoTransaction /\ UNCHANGED <<db, lastId>>
  /\ IF /\ id \in DOMAIN db.entries
        /\ op.kind = "save" => db.entries[id] = [text |-> op.text, folder |-> Root]
     THEN tasks' = [tasks EXCEPT ![s].entry = id, ![s].at = AfterEntry(op)]
     ELSE Aborts(s)

IncrementActivity(s) ==
  /\ At(s, "activity", {"createEntry", "save"}) /\ NoTransaction /\ UNCHANGED lastId
  /\ db' = WithActivity(db)
  /\ GoTo(s, "commit")

(* SqliteScreenEntrySaveRepository.commit. *)

SelectRoot(s) ==
  /\ At(s, "root", {"save"}) /\ NoTransaction /\ UNCHANGED <<db, lastId>>
  /\ IF RootIsRoot(db) THEN GoTo(s, "insert") ELSE Aborts(s)

AfterSense(op) ==
  IF op.kind = "generate" THEN "assign" ELSE IF op.captured THEN "captured" ELSE "reviewed"

InsertSense(s) ==
  /\ At(s, "sense", {"save", "generate"}) /\ NoTransaction
  /\ lastId' = lastId + 1
  /\ db' = WithSense(db, lastId', tasks[s].entry)
  /\ tasks' = [tasks EXCEPT ![s].sense = lastId', ![s].at = AfterSense(tasks[s].op)]

InsertCaptured(s) ==
  /\ At(s, "captured", {"save"}) /\ NoTransaction
  /\ lastId' = lastId + 1
  /\ db' = WithDescription(db, lastId', tasks[s].entry, tasks[s].sense)
  /\ GoTo(s, IF tasks[s].op.sense THEN "reviewed" ELSE "activity")

InsertReviewed(s) ==
  LET ids == lastId + 1..lastId + tasks[s].op.reviewed IN
  /\ At(s, "reviewed", {"save", "generate"}) /\ NoTransaction
  /\ lastId' = lastId + tasks[s].op.reviewed
  /\ db' = WithDescriptions(db, ids, tasks[s].entry, tasks[s].sense)
  /\ GoTo(s, IF tasks[s].op.kind = "save" THEN "activity" ELSE "commit")

(* DescriptionService, SenseService and their repositories. *)

CreateDescription(s) ==
  LET op == tasks[s].op IN
  /\ At(s, "run", {"createDescription"}) /\ NoTransaction
  /\ IF op.entry \in DOMAIN db.entries
     THEN lastId' = lastId + 1 /\ Writes(s, WithDescription(db, lastId', op.entry, None))
     ELSE UNCHANGED lastId /\ Refused(s)

DeleteDescription(s) ==
  LET op == tasks[s].op IN
  /\ At(s, "run", {"deleteDescription"}) /\ NoTransaction /\ UNCHANGED lastId
  /\ IF op.description \in DOMAIN db.descriptions
     THEN Writes(s, [db EXCEPT !.descriptions = Drop(@, {op.description})]) ELSE Refused(s)

(* Mutant: a Description that is assigned to a Sense can be moved. *)
MutantMovesAssigned(s) ==
  LET op == tasks[s].op IN
  /\ At(s, "find", {"updateDescription", "assignToSense", "detachFromSense"})
  /\ NoTransaction /\ UNCHANGED <<db, lastId>>
  /\ IF op.description \in DOMAIN db.descriptions
     THEN tasks' = [tasks EXCEPT
            ![s].entry = db.descriptions[op.description].entry,
            ![s].at = IF op.kind = "assignToSense" THEN "findSense" ELSE "run"]
     ELSE Answer(s, "error")

(* The row is read, and its Entry is what assignToSense will compare.      *)
FindDescription(s) ==
  LET op == tasks[s].op IN
  /\ At(s, "find", {"updateDescription", "assignToSense", "detachFromSense"})
  /\ NoTransaction /\ UNCHANGED <<db, lastId>>
  /\ IF /\ op.description \in DOMAIN db.descriptions
        /\ op.kind = "updateDescription" =>
             \/ op.entry = db.descriptions[op.description].entry
             \/ db.descriptions[op.description].sense = None
     THEN tasks' = [tasks EXCEPT
            ![s].entry = db.descriptions[op.description].entry,
            ![s].at = IF op.kind = "assignToSense" THEN "findSense" ELSE "run"]
     ELSE Answer(s, "error")

FindSense(s) ==
  LET op == tasks[s].op IN
  /\ At(s, "findSense", {"assignToSense"}) /\ NoTransaction /\ UNCHANGED <<db, lastId>>
  /\ IF op.sense \in DOMAIN db.senses /\ db.senses[op.sense].entry = tasks[s].entry
     THEN GoTo(s, "run") ELSE Answer(s, "error")

UpdateDescription(s) ==
  LET op == tasks[s].op IN
  /\ At(s, "run", {"updateDescription"}) /\ NoTransaction /\ UNCHANGED lastId
  /\ IF op.description \in DOMAIN db.descriptions /\ op.entry \in DOMAIN db.entries
     THEN Writes(s, [db EXCEPT !.descriptions[op.description].entry = op.entry])
     ELSE Refused(s)

(* assignSense, for assignToSense and detachFromSense. *)
AssignSense(s) ==
  LET op == tasks[s].op
      sense == IF op.kind = "assignToSense" THEN op.sense ELSE None IN
  /\ At(s, "run", {"assignToSense", "detachFromSense"}) /\ NoTransaction /\ UNCHANGED lastId
  /\ IF /\ op.description \in DOMAIN db.descriptions
        /\ sense \in DOMAIN db.senses \cup {None}
     THEN Writes(s, [db EXCEPT !.descriptions[op.description].sense = sense])
     ELSE Refused(s)

CreateSense(s) ==
  LET op == tasks[s].op IN
  /\ At(s, "run", {"createSense"}) /\ NoTransaction
  /\ IF op.entry \in DOMAIN db.entries
     THEN lastId' = lastId + 1 /\ Writes(s, WithSense(db, lastId', op.entry))
     ELSE UNCHANGED lastId /\ Refused(s)

SelectSense(s) ==
  LET op == tasks[s].op IN
  /\ At(s, "select", {"deleteSense"}) /\ NoTransaction /\ UNCHANGED <<db, lastId>>
  /\ IF op.sense \in DOMAIN db.senses
     THEN GoTo(s, IF op.cascade THEN "cascade" ELSE "delete") ELSE Aborts(s)

CascadeToDescriptions(s) ==
  LET sense == tasks[s].op.sense IN
  /\ At(s, "cascade", {"deleteSense"}) /\ NoTransaction /\ UNCHANGED lastId
  /\ db' = [db EXCEPT !.descriptions =
              Drop(@, {d \in DOMAIN @ : @[d].sense = sense})]
  /\ GoTo(s, "delete")

DeleteSense(s) ==
  LET sense == tasks[s].op.sense IN
  /\ At(s, "delete", {"deleteSense"}) /\ NoTransaction /\ UNCHANGED lastId
  /\ db' = WithoutSenses(db, {sense})
  /\ GoTo(s, "commit")

(* DescriptionGenerationService: the proposal remembers the Entry and the  *)
(* Sense of its source, and the Provider or the user may turn it down.     *)
Propose(s) ==
  LET op == tasks[s].op
      source == db.descriptions[op.description] IN
  /\ At(s, "propose", {"generate"}) /\ NoTransaction /\ UNCHANGED <<db, lastId>>
  /\ \/ Answer(s, "error")
     \/ /\ op.description \in DOMAIN db.descriptions
        /\ tasks' = [tasks EXCEPT ![s].entry = source.entry, ![s].sense = source.sense,
                                  ![s].at = "begin"]

(* SqliteDescriptionGenerationRepository.commitProposal: the source must   *)
(* be as it was.                                                           *)
SelectSource(s) ==
  LET op == tasks[s].op
      fits == /\ op.description \in DOMAIN db.descriptions
              /\ db.descriptions[op.description] =
                   [entry |-> tasks[s].entry, sense |-> tasks[s].sense] IN
  /\ At(s, "select", {"generate"}) /\ NoTransaction /\ UNCHANGED <<db, lastId>>
  /\ IF fits THEN GoTo(s, IF tasks[s].sense = None THEN "sense" ELSE "reviewed")
     ELSE Aborts(s)

AssignSource(s) ==
  /\ At(s, "assign", {"generate"}) /\ NoTransaction /\ UNCHANGED lastId
  /\ db' = [db EXCEPT !.descriptions[tasks[s].op.description].sense = tasks[s].sense]
  /\ GoTo(s, "reviewed")

-----------------------------------------------------------------------------
(* Transactions. *)

AfterBegin(kind) ==
  CASE kind = "createEntry" -> "insert"
    [] kind = "save" -> "root"
    [] OTHER -> "select"

(* Only a Folder delete does not catch that its BEGIN fails. *)
NotBegun(s) ==
  Answer(s, IF tasks[s].op.kind = "deleteFolder" THEN "thrown" ELSE "error")

Begin(s) ==
  /\ At(s, "begin", Transactions) /\ UNCHANGED <<db, lastId>>
  /\ \/ owner = None /\ owner' = s /\ begun' = db /\ GoTo(s, AfterBegin(tasks[s].op.kind))
     \/ owner # None /\ NoTransaction /\ NotBegun(s)

Commit(s) ==
  /\ At(s, "commit", Transactions) /\ UNCHANGED <<db, lastId>>
  /\ owner' = None /\ begun' = None
  /\ Answer(s, tasks[s].outcome)

(* Mutant: a transaction that failed is committed. *)
MutantCommitsAnyway(s) ==
  /\ At(s, "rollback", Transactions) /\ UNCHANGED <<db, lastId>>
  /\ owner' = None /\ begun' = None
  /\ Answer(s, tasks[s].outcome)

Rollback(s) ==
  /\ At(s, "rollback", Transactions) /\ UNCHANGED lastId
  /\ owner' = None /\ begun' = None
  /\ db' = begun
  /\ Answer(s, tasks[s].outcome)

(* A statement fails: the disk is full, or it cannot be written.  A Folder *)
(* delete returns the error, so that what it had deleted is committed.     *)
Fail(s) ==
  LET task == tasks[s]
      kind == task.op.kind IN
  /\ task.at \notin {"idle", "propose", "rollback", "done"}
  /\ failures < MaxFailures /\ failures' = failures + 1
  /\ UNCHANGED <<process, db, owner, begun, lastId, starts>>
  /\ \/ task.at = "begin" /\ NotBegun(s)
     \/ /\ task.at = "commit"
        /\ tasks' = [tasks EXCEPT ![s].at = "rollback",
                       ![s].outcome = IF kind = "deleteFolder" THEN "thrown" ELSE "error"]
     \/ /\ task.at \notin {"begin", "commit"} /\ kind \in Transactions
        /\ tasks' = [tasks EXCEPT ![s].at = IF kind = "deleteFolder" THEN "commit" ELSE "rollback",
                                  ![s].outcome = "error"]
     \/ kind \notin Transactions /\ Answer(s, "error")

-----------------------------------------------------------------------------
FolderStatement(s) ==
  \/ CreateFolder(s) \/ FindExistingFolder(s) \/ RenameFolder(s)
  \/ SelectFolder(s) \/ SelectChildren(s) \/ DropFolder(s)

EntryStatement(s) ==
  \/ UpdateEntry(s) \/ DeleteEntry(s)
  \/ InsertEntry(s) \/ ReuseEntry(s) \/ IncrementActivity(s)

SenseStatement(s) ==
  \/ CreateDescription(s) \/ DeleteDescription(s)
  \/ FindDescription(s) \/ FindSense(s) \/ UpdateDescription(s) \/ AssignSense(s)
  \/ CreateSense(s) \/ SelectSense(s) \/ CascadeToDescriptions(s) \/ DeleteSense(s)

ReviewedStatement(s) ==
  \/ SelectRoot(s) \/ InsertSense(s) \/ InsertCaptured(s) \/ InsertReviewed(s)
  \/ Propose(s) \/ SelectSource(s) \/ AssignSource(s)

TransactionStatement(s) == Begin(s) \/ Commit(s) \/ Rollback(s)

Statement(s) ==
  \/ FolderStatement(s) \/ EntryStatement(s) \/ SenseStatement(s)
  \/ ReviewedStatement(s) \/ TransactionStatement(s)

Next ==
  \/ \E kind \in {"command", "client"} : Open(kind)
  \/ Close \/ Crash
  \/ \E s \in Slots : Start(s) \/ Statement(s) \/ Fail(s) \/ Finish(s)

Spec == Init /\ [][Next]_vars

-----------------------------------------------------------------------------
(* The Description-Sense relation survives every order of assignments,     *)
(* moves, Saves, generations and deletes: a Sense only groups Descriptions *)
(* of its own Entry, although each service reads before it writes.         *)
DescriptionsFitSenses == SensesFit(db) /\ SensesFit(Durable)

(* When no operation runs there is no transaction left open, in which all  *)
(* later writes would be lost.                                             *)
NothingLeftOpen == AllIdle => owner = None

Saved(s) ==
  /\ tasks[s].at = "commit" /\ tasks[s].op.kind \in EntryWrites
  /\ tasks'[s].at = "done" /\ tasks'[s].outcome = "ok"

(* "Each Save includes one Activity increment in the same transaction":    *)
(* the count on disk is incremented by the commit of each Entry write that *)
(* is reported as a success, and Entries appear on disk in no other step.  *)
SaveCounted ==
  [][LET new == DOMAIN Durable'.entries \ DOMAIN Durable.entries IN
     /\ \/ /\ \E s \in Slots : Saved(s) /\ new \subseteq {tasks[s].entry}
           /\ Durable'.activity = Durable.activity + 1
        \/ /\ ~\E s \in Slots : Saved(s)
           /\ new = {} /\ Durable'.activity = Durable.activity]_vars

Added(before, after) == DOMAIN after \ DOMAIN before
Kept(before, after) == \A i \in DOMAIN before \cap DOMAIN after : after[i] = before[i]

(* A reviewed Save adds everything it was asked to save, once.             *)
WholeSave(op, before, after) ==
  LET senses == Added(before.senses, after.senses)
      added == Added(before.descriptions, after.descriptions)
      entry == EntryIdFor(op.text, Root) IN
  /\ after.folders = before.folders
  /\ after.entries = WithEntry(before, op.text, Root).entries
  /\ after.entries[entry].text = op.text
  /\ Cardinality(senses) = IF op.sense THEN 1 ELSE 0
  /\ \A s \in senses : after.senses[s].entry = entry
  /\ Cardinality(added) = op.reviewed + IF op.captured THEN 1 ELSE 0
  /\ \A d \in added :
       /\ after.descriptions[d].entry = entry
       /\ after.descriptions[d].sense \in IF op.sense THEN senses ELSE {None}
  /\ Kept(before.descriptions, after.descriptions) /\ Kept(before.senses, after.senses)
  /\ after.activity = before.activity + 1

(* A generation puts its source and what it generated under one Sense: the *)
(* source's own, or a new one.                                             *)
WholeGeneration(op, before, after) ==
  LET source == after.descriptions[op.description]
      added == Added(before.descriptions, after.descriptions)
      senses == Added(before.senses, after.senses) IN
  /\ source.entry = before.descriptions[op.description].entry
  /\ IF before.descriptions[op.description].sense = None
     THEN senses = {source.sense}
     ELSE senses = {} /\ source = before.descriptions[op.description]
  /\ Cardinality(added) = op.reviewed
  /\ \A d \in added : after.descriptions[d] = source
  /\ after.folders = before.folders /\ after.entries = before.entries
  /\ after.activity = before.activity

(* Deleting a Sense detaches or deletes its Descriptions, and only those.  *)
WholeSenseDelete(op, before, after) ==
  LET own == {d \in DOMAIN before.descriptions : before.descriptions[d].sense = op.sense} IN
  /\ DOMAIN after.senses = DOMAIN before.senses \ {op.sense}
  /\ DOMAIN after.descriptions =
       IF op.cascade THEN DOMAIN before.descriptions \ own ELSE DOMAIN before.descriptions
  /\ \A d \in DOMAIN after.descriptions :
       /\ after.descriptions[d].entry = before.descriptions[d].entry
       /\ after.descriptions[d].sense =
            IF d \in own THEN None ELSE before.descriptions[d].sense

(* A command is killed, fails or succeeds at any statement, and the disk   *)
(* has all of its reviewed Save, its generated Descriptions or its Sense   *)
(* delete, or nothing.                                                     *)
CommandAtomic ==
  [][process = "command" /\ Durable' # Durable =>
       \A s \in Slots :
         LET op == tasks[s].op IN
         tasks[s] # Idle =>
           /\ op.kind = "save" => WholeSave(op, Durable, Durable')
           /\ op.kind = "generate" => WholeGeneration(op, Durable, Durable')
           /\ op.kind = "deleteSense" => WholeSenseDelete(op, Durable, Durable')]_vars
=============================================================================

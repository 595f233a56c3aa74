--------------------------- MODULE DictionaryTables ---------------------------
(***************************************************************************)
(* The tables of the local Dictionary database (packages/db-core schema.ts *)
(* and the statements of its repositories) as a record of functions from   *)
(* row ID to row, and each SQL statement as an operator on that record.    *)
(*                                                                         *)
(* Folder and Entry IDs are hashes of what the row was created from, so    *)
(* they are modelled by just that: a Folder ID is the path of names from   *)
(* the Root Folder, an Entry ID the pair of its text and Folder.  Senses   *)
(* and Descriptions have fresh IDs.  Texts of Senses and Descriptions,     *)
(* Types, privacy and timestamps are left out.                             *)
(***************************************************************************)
EXTENDS Integers, Sequences, FiniteSets

CONSTANTS
  Names,       \* names of Folders below the Root Folder
  Words,       \* texts of Entries
  RootName,    \* "/"
  None         \* null

ASSUME RootNameAssumption == RootName \notin Names

FolderId == Seq(Names)
EntryId == Words \X FolderId

Folder == [name: Names \cup {RootName}, parent: FolderId \cup {None}]
Entry == [text: Words, folder: FolderId]
Sense == [entry: EntryId]
Description == [entry: EntryId, sense: Nat \cup {None}]

(* A table has rows under some of the IDs. *)
IsTable(table, ids, rows) ==
  /\ table = [i \in DOMAIN table |-> table[i]]
  /\ DOMAIN table \subseteq ids /\ \A i \in DOMAIN table : table[i] \in rows

IsDatabase(db) ==
  /\ db = [folders |-> db.folders, entries |-> db.entries, senses |-> db.senses,
           descriptions |-> db.descriptions, activity |-> db.activity]
  /\ IsTable(db.folders, FolderId, Folder) /\ IsTable(db.entries, EntryId, Entry)
  /\ IsTable(db.senses, Nat, Sense) /\ IsTable(db.descriptions, Nat, Description)
  /\ db.activity \in Nat

Root == <<>>
FolderIdFor(parent, name) == Append(parent, name)
EntryIdFor(text, folder) == <<text, folder>>

Put(table, id, row) == [i \in DOMAIN table \cup {id} |-> IF i = id THEN row ELSE table[i]]
Drop(table, ids) == [i \in DOMAIN table \ ids |-> table[i]]

-----------------------------------------------------------------------------
(* Deletes, with what the foreign keys take along. *)

(* descriptions.sense_id is set to null. *)
WithoutSenses(db, ids) ==
  [db EXCEPT
     !.senses = Drop(@, ids),
     !.descriptions = [d \in DOMAIN @ |->
       IF @[d].sense \in ids THEN [@[d] EXCEPT !.sense = None] ELSE @[d]]]

(* senses and descriptions of a deleted Entry are deleted. *)
WithoutEntries(db, ids) ==
  LET rest == WithoutSenses(db, {s \in DOMAIN db.senses : db.senses[s].entry \in ids})
  IN [rest EXCEPT
        !.entries = Drop(@, ids),
        !.descriptions = Drop(@, {d \in DOMAIN @ : @[d].entry \in ids})]

EntriesIn(db, folders) == {e \in DOMAIN db.entries : db.entries[e].folder \in folders}

(* entries of a deleted Folder are deleted. *)
WithoutFolders(db, ids) ==
  [WithoutEntries(db, EntriesIn(db, ids)) EXCEPT !.folders = Drop(@, ids)]

Children(db, folder) == {f \in DOMAIN db.folders : db.folders[f].parent = folder}

(* Deleting a Folder that still has Folders in it violates a foreign key.  *)
CanDropFolder(db, folder) == Children(db, folder) = {}

-----------------------------------------------------------------------------
(* Inserts. *)

RootFolder == [name |-> RootName, parent |-> None]

WithRoot(db) ==
  IF Root \in DOMAIN db.folders THEN db
  ELSE [db EXCEPT !.folders = Put(@, Root, RootFolder)]

WithFolder(db, parent, name) ==
  [db EXCEPT !.folders = Put(@, FolderIdFor(parent, name), [name |-> name, parent |-> parent])]

(* INSERT ... ON CONFLICT DO NOTHING: an Entry keeps the text it was       *)
(* changed to.                                                             *)
WithEntry(db, text, folder) ==
  LET id == EntryIdFor(text, folder) IN
  IF id \in DOMAIN db.entries THEN db
  ELSE [db EXCEPT !.entries = Put(@, id, [text |-> text, folder |-> folder])]

WithSense(db, id, entry) == [db EXCEPT !.senses = Put(@, id, [entry |-> entry])]

WithDescription(db, id, entry, sense) ==
  [db EXCEPT !.descriptions = Put(@, id, [entry |-> entry, sense |-> sense])]

WithDescriptions(db, ids, entry, sense) ==
  [db EXCEPT !.descriptions =
     [d \in DOMAIN @ \cup ids |->
        IF d \in ids THEN [entry |-> entry, sense |-> sense] ELSE @[d]]]

(* The count of this device and day. *)
WithActivity(db) == [db EXCEPT !.activity = @ + 1]

-----------------------------------------------------------------------------
(* Every reference is to a row, as the foreign keys enforce, and Folders   *)
(* and Entries are where their IDs say.                                    *)
ReferencesHold(db) ==
  /\ \A f \in DOMAIN db.folders :
       db.folders[f].parent # None =>
         /\ db.folders[f].parent \in DOMAIN db.folders
         /\ \E name \in Names : f = FolderIdFor(db.folders[f].parent, name)
  /\ \A e \in DOMAIN db.entries :
       db.entries[e].folder \in DOMAIN db.folders /\ db.entries[e].folder = e[2]
  /\ \A s \in DOMAIN db.senses : db.senses[s].entry \in DOMAIN db.entries
  /\ \A d \in DOMAIN db.descriptions :
       /\ db.descriptions[d].entry \in DOMAIN db.entries
       /\ db.descriptions[d].sense \in DOMAIN db.senses \cup {None}

(* A Description's Sense interprets the Description's own Entry. *)
SensesFit(db) ==
  \A d \in DOMAIN db.descriptions :
    LET sense == db.descriptions[d].sense IN
    sense # None => db.senses[sense].entry = db.descriptions[d].entry

RootIsRoot(db) == Root \in DOMAIN db.folders /\ db.folders[Root] = RootFolder
=============================================================================

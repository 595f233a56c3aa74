---------------------------- MODULE DictionaryProofs ----------------------------
(* Theorems about Dictionary, for any databases, number of tasks and       *)
(* bounds: Descriptions fit their Senses, no transaction is left open,      *)
(* Saves are counted, and the writes of commands are whole.                *)
EXTENDS Dictionary, FiniteSetTheorems, TLAPS

-----------------------------------------------------------------------------
(* Databases. *)

IsRecord(base) ==
  base = [folders |-> base.folders, entries |-> base.entries, senses |-> base.senses,
          descriptions |-> base.descriptions, activity |-> base.activity]

(* The relation between Descriptions and Senses, in the tables it is in.   *)
Related(base) ==
  /\ IsRecord(base)
  /\ \A d \in DOMAIN base.descriptions :
       /\ base.descriptions[d] =
            [entry |-> base.descriptions[d].entry, sense |-> base.descriptions[d].sense]
       /\ base.descriptions[d].sense \in DOMAIN base.senses \cup {None}
  /\ SensesFit(base)

(* No ID is newer than n. *)
Known(base, n) ==
  DOMAIN base.senses \subseteq 0..n /\ DOMAIN base.descriptions \subseteq 0..n

SameEntries(before, after) ==
  \A d \in DOMAIN before.descriptions \cap DOMAIN after.descriptions :
    after.descriptions[d].entry = before.descriptions[d].entry

-----------------------------------------------------------------------------
(* Tasks. *)

ClientKinds ==
  {"createFolder", "renameFolder", "deleteFolder", "createEntry", "updateEntry", "deleteEntry",
   "createDescription", "updateDescription", "deleteDescription"}
Kinds ==
  ClientKinds \cup {"save", "createSense", "deleteSense", "assignToSense", "detachFromSense",
                    "generate"}

IsTask(t) ==
  t = [op |-> t.op, at |-> t.at, outcome |-> t.outcome, queue |-> t.queue,
       doomed |-> t.doomed, entry |-> t.entry, sense |-> t.sense]

Active(s) == tasks[s].at # "idle"
Kind(s) == tasks[s].op.kind
Target(s) == tasks[s].op.description

(* Task s has begun its transaction, and not ended it. *)
Inside(s) ==
  Active(s) /\ Kind(s) \in Transactions /\ tasks[s].at \notin {"propose", "begin", "done"}

TaskInv ==
  /\ DOMAIN tasks = Slots
  /\ \A s \in Slots :
       /\ IsTask(tasks[s])
       /\ Active(s) => Kind(s) \in Kinds
       /\ Active(s) /\ Kind(s) \in {"save", "generate"} => tasks[s].op.reviewed \in Nat

OwnerInv ==
  /\ owner \in Slots \cup {None}
  /\ \A s \in Slots : owner = s <=> Inside(s)

ProcessInv ==
  /\ process \in {"none", "command", "client"}
  /\ process = "none" => \A s \in Slots : ~Active(s)
  /\ process = "command" => \A r, s \in Slots : Active(r) /\ Active(s) => r = s
  /\ process = "client" => \A s \in Slots : Active(s) => Kind(s) \in ClientKinds

TablesInv ==
  /\ lastId \in Nat
  /\ Related(db) /\ Known(db, lastId)
  /\ owner # None => Related(begun) /\ Known(begun, lastId)

(* In a client a Description stays with its Entry: what an update of it is *)
(* told to write is what is there, in the transaction or without it.       *)
UpdatesInPlace(s, base) ==
  Active(s) /\ Kind(s) = "updateDescription" =>
    /\ Target(s) \in 0..lastId
    /\ Target(s) \in DOMAIN base.descriptions =>
         base.descriptions[Target(s)].entry = tasks[s].op.entry

ClientInv ==
  process = "client" =>
    /\ \A s \in Slots : UpdatesInPlace(s, db)
    /\ owner # None => SameEntries(begun, db) /\ \A s \in Slots : UpdatesInPlace(s, begun)

(* What a command has read or inserted is still so. *)
OfEntry(s) ==
  /\ Target(s) \in DOMAIN db.descriptions
  /\ db.descriptions[Target(s)].entry = tasks[s].entry
InSense(sense, entry) == sense \in DOMAIN db.senses /\ db.senses[sense].entry = entry

ReadInv(s) ==
  LET task == tasks[s] IN
  /\ Kind(s) = "updateDescription" /\ task.at = "run" /\ Target(s) \in DOMAIN db.descriptions =>
       \/ task.op.entry = db.descriptions[Target(s)].entry
       \/ db.descriptions[Target(s)].sense = None
  /\ Kind(s) = "assignToSense" /\ task.at \in {"findSense", "run"} =>
       OfEntry(s)
  /\ Kind(s) = "assignToSense" /\ task.at = "run" => InSense(task.op.sense, task.entry)
  /\ Kind(s) = "save" /\ task.at \in {"begin", "root", "insert", "existing"} => task.sense = None
  /\ Kind(s) = "save" /\ task.at \in {"captured", "reviewed"} =>
       task.sense = None \/ InSense(task.sense, task.entry)
  /\ Kind(s) = "generate" /\ task.at \in {"sense", "assign"} => OfEntry(s)
  /\ Kind(s) = "generate" /\ task.at \in {"assign", "reviewed"} =>
       InSense(task.sense, task.entry)

CommandInv == process = "command" => \A s \in Slots : Active(s) => ReadInv(s)

DictionaryInv ==
  TaskInv /\ OwnerInv /\ ProcessInv /\ TablesInv /\ ClientInv /\ CommandInv

-----------------------------------------------------------------------------
(* What the statements do to the tables. *)

(* The tables after a statement, when n was the newest ID before it and m   *)
(* is after it.                                                            *)
Follows(base, after, n, m) ==
  /\ Related(after)
  /\ DOMAIN after.senses \subseteq DOMAIN base.senses \cup (n + 1)..m
  /\ DOMAIN after.descriptions \subseteq DOMAIN base.descriptions \cup (n + 1)..m

LEMMA FollowsItself ==
  ASSUME NEW base, Related(base), NEW n, NEW m
  PROVE  Follows(base, base, n, m) /\ SameEntries(base, base)
BY DEF Follows, SameEntries

LEMMA OtherTables ==
  ASSUME NEW base, Related(base), NEW n, NEW m, NEW x
  PROVE  /\ Follows(base, [base EXCEPT !.folders = x], n, m)
         /\ SameEntries(base, [base EXCEPT !.folders = x])
         /\ Follows(base, [base EXCEPT !.entries = x], n, m)
         /\ SameEntries(base, [base EXCEPT !.entries = x])
         /\ Follows(base, [base EXCEPT !.activity = x], n, m)
         /\ SameEntries(base, [base EXCEPT !.activity = x])
<1>1. ASSUME NEW after, IsRecord(after), after.senses = base.senses,
             after.descriptions = base.descriptions
      PROVE  Follows(base, after, n, m) /\ SameEntries(base, after)
  BY <1>1 DEF Related, Follows, SameEntries, SensesFit
<1>2. IsRecord(base)
  BY DEF Related
<1> DEFINE f == [base EXCEPT !.folders = x]
           e == [base EXCEPT !.entries = x]
           a == [base EXCEPT !.activity = x]
<1>3. IsRecord(f) /\ f.senses = base.senses /\ f.descriptions = base.descriptions
  BY <1>2 DEF IsRecord
<1>4. IsRecord(e) /\ e.senses = base.senses /\ e.descriptions = base.descriptions
  BY <1>2 DEF IsRecord
<1>5. IsRecord(a) /\ a.senses = base.senses /\ a.descriptions = base.descriptions
  BY <1>2 DEF IsRecord
<1> HIDE DEF f, e, a
<1>6. Follows(base, f, n, m) /\ SameEntries(base, f)
  BY <1>1, <1>3
<1>7. Follows(base, e, n, m) /\ SameEntries(base, e)
  BY <1>1, <1>4
<1>8. Follows(base, a, n, m) /\ SameEntries(base, a)
  BY <1>1, <1>5
<1> USE DEF f, e, a
<1> QED BY <1>6, <1>7, <1>8

IsRow(r) == r = [entry |-> r.entry, sense |-> r.sense]

LEMMA DetachedRow ==
  ASSUME NEW r, IsRow(r), NEW x
  PROVE  /\ IsRow([r EXCEPT !.sense = x])
         /\ [r EXCEPT !.sense = x].entry = r.entry /\ [r EXCEPT !.sense = x].sense = x
BY DEF IsRow

LEMMA MovedRow ==
  ASSUME NEW r, IsRow(r), NEW x
  PROVE  /\ IsRow([r EXCEPT !.entry = x])
         /\ [r EXCEPT !.entry = x].sense = r.sense /\ [r EXCEPT !.entry = x].entry = x
BY DEF IsRow

(* Descriptions go, are detached from a Sense, or both; Senses go that no   *)
(* Description is in any more.                                             *)
LEMMA Shrinks ==
  ASSUME NEW base, Related(base), NEW n, NEW m, NEW after, IsRecord(after),
         DOMAIN after.senses \subseteq DOMAIN base.senses,
         \A i \in DOMAIN after.senses : after.senses[i] = base.senses[i],
         DOMAIN after.descriptions \subseteq DOMAIN base.descriptions,
         \A d \in DOMAIN after.descriptions :
           /\ after.descriptions[d] =
                [entry |-> after.descriptions[d].entry, sense |-> after.descriptions[d].sense]
           /\ after.descriptions[d].entry = base.descriptions[d].entry
           /\ \/ after.descriptions[d].sense = None
              \/ /\ after.descriptions[d].sense = base.descriptions[d].sense
                 /\ after.descriptions[d].sense \in DOMAIN after.senses \cup {None}
  PROVE  Follows(base, after, n, m) /\ SameEntries(base, after)
<1>1. ASSUME NEW d \in DOMAIN after.descriptions, after.descriptions[d].sense # None
      PROVE  after.senses[after.descriptions[d].sense].entry = after.descriptions[d].entry
  <2> DEFINE sense == base.descriptions[d].sense
  <2>1. after.descriptions[d].sense = sense /\ sense \in DOMAIN after.senses
    BY <1>1
  <2>2. base.senses[sense].entry = base.descriptions[d].entry
    BY <1>1, <2>1 DEF Related, SensesFit
  <2> QED BY SMT, ZenonT(60), <2>1, <2>2
<1> QED BY <1>1 DEF Related, Follows, SameEntries, SensesFit

LEMMA DropsDescriptions ==
  ASSUME NEW base, Related(base), NEW n, NEW m, NEW ids
  PROVE  LET after == [base EXCEPT !.descriptions = Drop(base.descriptions, ids)] IN
         Follows(base, after, n, m) /\ SameEntries(base, after)
<1> DEFINE after == [base EXCEPT !.descriptions = Drop(base.descriptions, ids)]
<1>1. IsRecord(after) /\ after.senses = base.senses
      /\ after.descriptions = Drop(base.descriptions, ids)
  BY DEF Related, IsRecord
<1> HIDE DEF after
<1>2. /\ DOMAIN after.descriptions \subseteq DOMAIN base.descriptions
      /\ \A d \in DOMAIN after.descriptions : after.descriptions[d] = base.descriptions[d]
  BY <1>1 DEF Drop
<1>3. Follows(base, after, n, m) /\ SameEntries(base, after)
  BY <1>1, <1>2, Shrinks DEF Related
<1> QED BY <1>3 DEF after

LEMMA DropsSenses ==
  ASSUME NEW base, Related(base), NEW n, NEW m, NEW ids
  PROVE  /\ Follows(base, WithoutSenses(base, ids), n, m)
         /\ SameEntries(base, WithoutSenses(base, ids))
         /\ DOMAIN WithoutSenses(base, ids).descriptions = DOMAIN base.descriptions
         /\ DOMAIN WithoutSenses(base, ids).senses = DOMAIN base.senses \ ids
<1> DEFINE after == WithoutSenses(base, ids)
           row(d) == IF base.descriptions[d].sense \in ids
                     THEN [base.descriptions[d] EXCEPT !.sense = None]
                     ELSE base.descriptions[d]
           less == [base EXCEPT !.senses = Drop(base.senses, ids)]
           table == [d \in DOMAIN base.descriptions |-> row(d)]
<1>a. after = [base EXCEPT !.senses = Drop(base.senses, ids), !.descriptions = table]
  BY Zenon DEF WithoutSenses
<1>b. after = [less EXCEPT !.descriptions = table]
  BY <1>a DEF Related, IsRecord
<1>c. IsRecord(less) /\ less.senses = Drop(base.senses, ids)
  BY DEF Related, IsRecord
<1> HIDE DEF less
<1>1. IsRecord(after) /\ after.senses = Drop(base.senses, ids)
      /\ after.descriptions = [d \in DOMAIN base.descriptions |-> row(d)]
  <2> HIDE DEF after
  <2> QED BY <1>b, <1>c DEF IsRecord
<1>2. ASSUME NEW d \in DOMAIN base.descriptions
      PROVE  /\ row(d) = [entry |-> row(d).entry, sense |-> row(d).sense]
             /\ row(d).entry = base.descriptions[d].entry
             /\ \/ row(d).sense = None
                \/ /\ row(d).sense = base.descriptions[d].sense
                   /\ row(d).sense \in (DOMAIN base.senses \ ids) \cup {None}
  <2>1. /\ IsRow(base.descriptions[d])
        /\ base.descriptions[d].sense \in DOMAIN base.senses \cup {None}
    BY DEF Related, IsRow
  <2> QED BY <2>1, DetachedRow DEF IsRow
<1> HIDE DEF after, row
<1>3. DOMAIN after.senses = DOMAIN base.senses \ ids
      /\ \A i \in DOMAIN after.senses : after.senses[i] = base.senses[i]
  BY <1>1 DEF Drop
<1>4. DOMAIN after.descriptions = DOMAIN base.descriptions
      /\ \A d \in DOMAIN base.descriptions : after.descriptions[d] = row(d)
  BY <1>1
<1>5. Follows(base, after, n, m) /\ SameEntries(base, after)
  BY SMT, ZenonT(60), <1>1, <1>2, <1>3, <1>4, Shrinks
<1> QED BY <1>3, <1>4, <1>5 DEF after

LEMMA DropsEntries ==
  ASSUME NEW base, Related(base), NEW n, NEW m, NEW ids
  PROVE  /\ Follows(base, WithoutEntries(base, ids), n, m)
         /\ SameEntries(base, WithoutEntries(base, ids))
<1>1. PICK rest :
        /\ rest = WithoutSenses(base, {s \in DOMAIN base.senses : base.senses[s].entry \in ids})
        /\ Follows(base, rest, n, m) /\ SameEntries(base, rest)
        /\ DOMAIN rest.descriptions = DOMAIN base.descriptions
        /\ DOMAIN rest.senses \subseteq DOMAIN base.senses
  <2>1. PICK senses : senses = {s \in DOMAIN base.senses : base.senses[s].entry \in ids}
    OBVIOUS
  <2>2. /\ Follows(base, WithoutSenses(base, senses), n, m)
        /\ SameEntries(base, WithoutSenses(base, senses))
        /\ DOMAIN WithoutSenses(base, senses).descriptions = DOMAIN base.descriptions
        /\ DOMAIN WithoutSenses(base, senses).senses = DOMAIN base.senses \ senses
    BY DropsSenses
  <2> QED BY <2>1, <2>2
<1> DEFINE gone == {d \in DOMAIN rest.descriptions : rest.descriptions[d].entry \in ids}
           table == Drop(rest.descriptions, gone)
           entries == Drop(rest.entries, ids)
           less == [rest EXCEPT !.entries = entries]
           after == [less EXCEPT !.descriptions = table]
<1>2. WithoutEntries(base, ids) = [rest EXCEPT !.entries = entries, !.descriptions = table]
  BY <1>1, Zenon DEF WithoutEntries
<1>3. Related(rest)
  BY <1>1 DEF Follows
<1>4. WithoutEntries(base, ids) = after
  BY <1>2, <1>3 DEF Related, IsRecord
<1> HIDE DEF entries
<1>5. Follows(rest, less, n, m) /\ less.senses = rest.senses
      /\ less.descriptions = rest.descriptions
  BY <1>3, OtherTables DEF Related, IsRecord
<1>6. after = [less EXCEPT !.descriptions = Drop(less.descriptions, gone)]
  BY <1>5
<1> HIDE DEF less, after, gone, table
<1>7. Follows(less, after, n, m) /\ SameEntries(less, after)
  BY <1>5, <1>6, DropsDescriptions DEF Follows
<1>8. DOMAIN after.descriptions \subseteq DOMAIN less.descriptions
      /\ after.senses = less.senses
  BY <1>5, <1>6 DEF Follows, Related, IsRecord, Drop
<1>9. Follows(base, after, n, m)
  BY <1>1, <1>5, <1>7, <1>8 DEF Follows
<1>10. SameEntries(base, after)
  BY <1>1, <1>5, <1>7, <1>8 DEF SameEntries
<1> QED BY <1>4, <1>9, <1>10

LEMMA DropsFolders ==
  ASSUME NEW base, Related(base), NEW n, NEW m, NEW ids
  PROVE  /\ Follows(base, WithoutFolders(base, ids), n, m)
         /\ SameEntries(base, WithoutFolders(base, ids))
<1> DEFINE rest == WithoutEntries(base, EntriesIn(base, ids))
           after == [rest EXCEPT !.folders = Drop(rest.folders, ids)]
<1>1. Follows(base, rest, n, m) /\ SameEntries(base, rest)
  BY DropsEntries
<1>2. WithoutFolders(base, ids) = after
  BY DEF WithoutFolders
<1> HIDE DEF rest
<1>3. Related(after) /\ after.senses = rest.senses /\ after.descriptions = rest.descriptions
  <2>1. Related(rest)
    BY <1>1 DEF Follows
  <2>2. after.senses = rest.senses /\ after.descriptions = rest.descriptions
    BY <2>1 DEF Related, IsRecord
  <2> QED BY <2>1, <2>2, OtherTables DEF Follows
<1> HIDE DEF after
<1> QED BY <1>1, <1>2, <1>3 DEF Follows, SameEntries

(* A Sense of a new ID. *)
LEMMA AddsSense ==
  ASSUME NEW base, Related(base), NEW n \in Nat, NEW m \in Nat, Known(base, n),
         NEW id \in (n + 1)..m, NEW entry
  PROVE  LET after == WithSense(base, id, entry) IN
         /\ Follows(base, after, n, m) /\ SameEntries(base, after)
         /\ after.descriptions = base.descriptions
         /\ id \in DOMAIN after.senses /\ after.senses[id].entry = entry
<1> DEFINE after == WithSense(base, id, entry)
<1>1. IsRecord(after) /\ after.senses = Put(base.senses, id, [entry |-> entry])
      /\ after.descriptions = base.descriptions
  BY DEF WithSense, Related, IsRecord
<1> HIDE DEF after
<1>2. id \notin DOMAIN base.senses
  BY DEF Known
<1>3. /\ DOMAIN after.senses = DOMAIN base.senses \cup {id}
      /\ after.senses[id].entry = entry
      /\ \A i \in DOMAIN base.senses : after.senses[i] = base.senses[i]
  BY <1>1, <1>2 DEF Put
<1>4. SensesFit(after)
  BY SMT, ZenonT(60), <1>1, <1>3 DEF SensesFit, Related
<1>5. Related(after)
  BY <1>1, <1>3, <1>4 DEF Related
<1>6. Follows(base, after, n, m) /\ SameEntries(base, after)
  BY <1>1, <1>3, <1>5 DEF Follows, SameEntries
<1> USE DEF after
<1> QED BY <1>1, <1>3, <1>6

(* Descriptions of new IDs, of one Entry and in one Sense of it or in none. *)
Fits(base, entry, sense) ==
  sense = None \/ (sense \in DOMAIN base.senses /\ base.senses[sense].entry = entry)

Grown(base, after, ids, entry, sense) ==
  /\ IsRecord(after) /\ after.senses = base.senses
  /\ DOMAIN after.descriptions = DOMAIN base.descriptions \cup ids
  /\ \A d \in ids : after.descriptions[d] = [entry |-> entry, sense |-> sense]
  /\ \A d \in DOMAIN base.descriptions : after.descriptions[d] = base.descriptions[d]

LEMMA Grows ==
  ASSUME NEW base, Related(base), NEW n \in Nat, NEW m \in Nat, Known(base, n),
         NEW ids \in SUBSET ((n + 1)..m), NEW entry, NEW sense, Fits(base, entry, sense),
         NEW after, Grown(base, after, ids, entry, sense)
  PROVE  Follows(base, after, n, m) /\ SameEntries(base, after)
<1> USE DEF Fits, Grown
<1>1. ASSUME NEW d \in DOMAIN after.descriptions
      PROVE  /\ IsRow(after.descriptions[d])
             /\ \/ after.descriptions[d].sense = None
                \/ /\ after.descriptions[d].sense \in DOMAIN after.senses
                   /\ after.senses[after.descriptions[d].sense].entry = after.descriptions[d].entry
  <2>1. CASE d \in ids
    BY <2>1 DEF IsRow
  <2>2. CASE d \in DOMAIN base.descriptions
    <3> DEFINE r == base.descriptions[d]
    <3>1. IsRow(r) /\ r.sense \in DOMAIN base.senses \cup {None}
      BY <2>2 DEF Related, IsRow
    <3>2. r.sense # None => base.senses[r.sense].entry = r.entry
      BY <2>2 DEF Related, SensesFit
    <3>3. after.descriptions[d] = r
      BY <2>2
    <3> HIDE DEF r
    <3> QED BY <3>1, <3>2, <3>3
  <2> QED BY <2>1, <2>2
<1>2. Related(after)
  BY <1>1 DEF Related, SensesFit, IsRow
<1> QED BY <1>2 DEF Follows, SameEntries

LEMMA AddsDescriptions ==
  ASSUME NEW base, Related(base), NEW n \in Nat, NEW m \in Nat, Known(base, n),
         NEW ids \in SUBSET ((n + 1)..m), NEW entry, NEW sense, Fits(base, entry, sense)
  PROVE  /\ Follows(base, WithDescriptions(base, ids, entry, sense), n, m)
         /\ SameEntries(base, WithDescriptions(base, ids, entry, sense))
<1>1. PICK after : after = WithDescriptions(base, ids, entry, sense)
  OBVIOUS
<1> DEFINE table == [d \in DOMAIN base.descriptions \cup ids |->
                       IF d \in ids THEN [entry |-> entry, sense |-> sense]
                       ELSE base.descriptions[d]]
<1>2. after = [base EXCEPT !.descriptions = table]
  BY <1>1, Zenon DEF WithDescriptions
<1>3. IsRecord(after) /\ after.senses = base.senses /\ after.descriptions = table
  <2> HIDE DEF table
  <2> QED BY <1>2 DEF Related, IsRecord
<1>4. /\ DOMAIN after.descriptions = DOMAIN base.descriptions \cup ids
      /\ \A d \in ids : after.descriptions[d] = [entry |-> entry, sense |-> sense]
      /\ \A d \in DOMAIN base.descriptions : after.descriptions[d] = base.descriptions[d]
  BY <1>3 DEF Known
<1> HIDE DEF table
<1>5. Grown(base, after, ids, entry, sense)
  BY <1>3, <1>4 DEF Grown
<1>6. Follows(base, after, n, m) /\ SameEntries(base, after)
  BY <1>5, Grows
<1> QED BY <1>1, <1>6

LEMMA AddsDescription ==
  ASSUME NEW base, Related(base), NEW n \in Nat, NEW m \in Nat, Known(base, n),
         NEW id \in (n + 1)..m, NEW entry, NEW sense, Fits(base, entry, sense)
  PROVE  /\ Follows(base, WithDescription(base, id, entry, sense), n, m)
         /\ SameEntries(base, WithDescription(base, id, entry, sense))
         /\ WithDescription(base, id, entry, sense).senses = base.senses
<1>1. PICK after : after = WithDescription(base, id, entry, sense)
  OBVIOUS
<1> DEFINE table == Put(base.descriptions, id, [entry |-> entry, sense |-> sense])
<1>2. after = [base EXCEPT !.descriptions = table]
  BY <1>1, Zenon DEF WithDescription
<1>3. IsRecord(after) /\ after.senses = base.senses /\ after.descriptions = table
  <2> HIDE DEF table
  <2> QED BY <1>2 DEF Related, IsRecord
<1>4. /\ DOMAIN after.descriptions = DOMAIN base.descriptions \cup {id}
      /\ \A d \in {id} : after.descriptions[d] = [entry |-> entry, sense |-> sense]
      /\ \A d \in DOMAIN base.descriptions : after.descriptions[d] = base.descriptions[d]
  BY <1>3 DEF Known, Put
<1> HIDE DEF table
<1>5. Grown(base, after, {id}, entry, sense) /\ {id} \in SUBSET ((n + 1)..m)
  BY <1>3, <1>4 DEF Grown
<1>6. Follows(base, after, n, m) /\ SameEntries(base, after)
  BY <1>5, Grows
<1> QED BY <1>1, <1>3, <1>6

(* One Description is changed. *)
Rewrites(base, after, d, row) ==
  after = [base EXCEPT !.descriptions = [base.descriptions EXCEPT ![d] = row]]

LEMMA Changes ==
  ASSUME NEW base, Related(base), NEW n, NEW m, NEW d \in DOMAIN base.descriptions,
         NEW row, IsRow(row),
         Fits(base, row.entry, row.sense),
         NEW after, Rewrites(base, after, d, row)
  PROVE  /\ Follows(base, after, n, m)
         /\ row.entry = base.descriptions[d].entry => SameEntries(base, after)
         /\ after.senses = base.senses /\ DOMAIN after.descriptions = DOMAIN base.descriptions
         /\ after.descriptions[d] = row
<1> DEFINE table == [base.descriptions EXCEPT ![d] = row]
<1>a. after = [base EXCEPT !.descriptions = table]
  BY DEF Rewrites
<1>1. IsRecord(after) /\ after.senses = base.senses /\ after.descriptions = table
  <2> HIDE DEF table
  <2> QED BY <1>a DEF Related, IsRecord
<1>2. /\ DOMAIN after.descriptions = DOMAIN base.descriptions
      /\ after.descriptions[d] = row
      /\ \A e \in DOMAIN base.descriptions \ {d} : after.descriptions[e] = base.descriptions[e]
  BY <1>1
<1> HIDE DEF table
<1>3. ASSUME NEW e \in DOMAIN after.descriptions
      PROVE  /\ IsRow(after.descriptions[e])
             /\ \/ after.descriptions[e].sense = None
                \/ /\ after.descriptions[e].sense \in DOMAIN after.senses
                   /\ after.senses[after.descriptions[e].sense].entry = after.descriptions[e].entry
  <2>1. CASE e = d
    BY <1>1, <1>2, <2>1 DEF Fits
  <2>2. CASE e # d
    <3> DEFINE r == base.descriptions[e]
    <3>1. IsRow(r) /\ r.sense \in DOMAIN base.senses \cup {None}
      BY <1>2 DEF Related, IsRow
    <3>2. r.sense # None => base.senses[r.sense].entry = r.entry
      BY <1>2 DEF Related, SensesFit
    <3>3. after.descriptions[e] = r
      BY <1>2, <2>2
    <3> HIDE DEF r
    <3> QED BY <1>1, <3>1, <3>2, <3>3
  <2> QED BY <2>1, <2>2
<1>4. Related(after)
  BY <1>1, <1>3 DEF Related, SensesFit, IsRow
<1>5. Follows(base, after, n, m)
  BY <1>1, <1>2, <1>4 DEF Follows
<1>6. row.entry = base.descriptions[d].entry => SameEntries(base, after)
  BY <1>2 DEF SameEntries
<1> QED BY <1>1, <1>2, <1>5, <1>6

Regroups(base, after, d, sense) == after = [base EXCEPT !.descriptions[d].sense = sense]

LEMMA Assigns ==
  ASSUME NEW base, Related(base), NEW n, NEW m, NEW d \in DOMAIN base.descriptions, NEW sense,
         Fits(base, base.descriptions[d].entry, sense),
         NEW after, Regroups(base, after, d, sense)
  PROVE  /\ Follows(base, after, n, m) /\ SameEntries(base, after)
         /\ after.senses = base.senses /\ DOMAIN after.descriptions = DOMAIN base.descriptions
         /\ after.descriptions[d].entry = base.descriptions[d].entry
<1>1. PICK row : row = [base.descriptions[d] EXCEPT !.sense = sense]
  OBVIOUS
<1>2. IsRow(row) /\ row.entry = base.descriptions[d].entry /\ row.sense = sense
  BY <1>1, DetachedRow DEF Related, IsRow
<1>3. Rewrites(base, after, d, row)
  BY <1>1 DEF Regroups, Rewrites
<1>4. Fits(base, row.entry, row.sense)
  BY <1>2
<1> QED BY <1>2, <1>3, <1>4, Changes

LEMMA MovesDescription ==
  ASSUME NEW base, Related(base), NEW n, NEW m, NEW d \in DOMAIN base.descriptions, NEW entry,
         entry = base.descriptions[d].entry \/ base.descriptions[d].sense = None,
         NEW after, after = [base EXCEPT !.descriptions[d].entry = entry]
  PROVE  /\ Follows(base, after, n, m)
         /\ entry = base.descriptions[d].entry => SameEntries(base, after)
<1>1. PICK row : row = [base.descriptions[d] EXCEPT !.entry = entry]
  OBVIOUS
<1>2. IsRow(row) /\ row.entry = entry /\ row.sense = base.descriptions[d].sense
  BY <1>1, MovedRow DEF Related, IsRow
<1>3. Rewrites(base, after, d, row)
  BY <1>1 DEF Rewrites
<1>4. Fits(base, row.entry, row.sense)
  BY <1>2 DEF Related, SensesFit, Fits
<1> QED BY <1>2, <1>3, <1>4, Changes

-----------------------------------------------------------------------------
(* What a statement does to its task. *)

LEMMA SetsAt ==
  ASSUME NEW t, IsTask(t), NEW x, NEW u, u = [t EXCEPT !.at = x]
  PROVE  /\ IsTask(u) /\ u.op = t.op /\ u.at = x /\ u.entry = t.entry /\ u.sense = t.sense
         /\ u.outcome = t.outcome
BY DEF IsTask

LEMMA SetsOutcome ==
  ASSUME NEW t, IsTask(t), NEW x, NEW u, u = [t EXCEPT !.outcome = x]
  PROVE  /\ IsTask(u) /\ u.op = t.op /\ u.at = t.at /\ u.entry = t.entry /\ u.sense = t.sense
         /\ u.outcome = x
BY DEF IsTask

LEMMA SetsQueue ==
  ASSUME NEW t, IsTask(t), NEW x, NEW u, u = [t EXCEPT !.queue = x]
  PROVE  /\ IsTask(u) /\ u.op = t.op /\ u.at = t.at /\ u.entry = t.entry /\ u.sense = t.sense
         /\ u.outcome = t.outcome
BY DEF IsTask

LEMMA SetsDoomed ==
  ASSUME NEW t, IsTask(t), NEW x, NEW u, u = [t EXCEPT !.doomed = x]
  PROVE  /\ IsTask(u) /\ u.op = t.op /\ u.at = t.at /\ u.entry = t.entry /\ u.sense = t.sense
         /\ u.outcome = t.outcome
BY DEF IsTask

LEMMA SetsEntry ==
  ASSUME NEW t, IsTask(t), NEW x, NEW u, u = [t EXCEPT !.entry = x]
  PROVE  /\ IsTask(u) /\ u.op = t.op /\ u.at = t.at /\ u.entry = x /\ u.sense = t.sense
         /\ u.outcome = t.outcome
BY DEF IsTask

LEMMA SetsSense ==
  ASSUME NEW t, IsTask(t), NEW x, NEW u, u = [t EXCEPT !.sense = x]
  PROVE  /\ IsTask(u) /\ u.op = t.op /\ u.at = t.at /\ u.entry = t.entry /\ u.sense = x
         /\ u.outcome = t.outcome
BY DEF IsTask

(* Task s goes on, with the same operation. *)
Moves(s) ==
  /\ Active(s) /\ DOMAIN tasks' = Slots
  /\ \A r \in Slots \ {s} : tasks'[r] = tasks[r]
  /\ IsTask(tasks'[s]) /\ tasks'[s].op = tasks[s].op /\ tasks'[s].at # "idle"

LEMMA IsMoved ==
  ASSUME TaskInv, NEW s \in Slots, Active(s), NEW t, IsTask(t), t.op = tasks[s].op,
         t.at # "idle", tasks' = [tasks EXCEPT ![s] = t]
  PROVE  Moves(s) /\ tasks'[s] = t
BY DEF TaskInv, Moves

LEMMA GoesTo ==
  ASSUME TaskInv, NEW s \in Slots, Active(s), NEW step, step # "idle", GoTo(s, step)
  PROVE  /\ Moves(s) /\ tasks'[s].at = step
         /\ tasks'[s].entry = tasks[s].entry /\ tasks'[s].sense = tasks[s].sense
         /\ tasks'[s].outcome = tasks[s].outcome
<1>1. PICK t : t = [tasks[s] EXCEPT !.at = step]
  OBVIOUS
<1>2. IsTask(t) /\ t.op = tasks[s].op /\ t.at = step
      /\ t.entry = tasks[s].entry /\ t.sense = tasks[s].sense /\ t.outcome = tasks[s].outcome
  BY <1>1, SetsAt DEF TaskInv
<1>3. tasks' = [tasks EXCEPT ![s] = t]
  BY <1>1 DEF GoTo
<1> QED BY <1>2, <1>3, IsMoved

LEMMA Ends ==
  ASSUME TaskInv, NEW s \in Slots, Active(s), NEW step, step # "idle", NEW outcome,
         tasks' = [tasks EXCEPT ![s].at = step, ![s].outcome = outcome]
  PROVE  Moves(s) /\ tasks'[s].at = step /\ tasks'[s].outcome = outcome
<1>1. PICK t : t = [tasks[s] EXCEPT !.at = step]
  OBVIOUS
<1>2. PICK u : u = [t EXCEPT !.outcome = outcome]
  OBVIOUS
<1>3. IsTask(t) /\ t.op = tasks[s].op /\ t.at = step
  BY <1>1, SetsAt DEF TaskInv
<1>4. IsTask(u) /\ u.op = tasks[s].op /\ u.at = step /\ u.outcome = outcome
  BY <1>2, <1>3, SetsOutcome
<1>5. tasks' = [tasks EXCEPT ![s] = [tasks[s] EXCEPT !.at = step, !.outcome = outcome]]
  OBVIOUS
<1>6. tasks' = [tasks EXCEPT ![s] = u]
  BY <1>1, <1>2, <1>5
<1> QED BY <1>4, <1>6, IsMoved

LEMMA Answers ==
  ASSUME TaskInv, NEW s \in Slots, Active(s), NEW outcome, Answer(s, outcome)
  PROVE  Moves(s) /\ tasks'[s].at = "done" /\ tasks'[s].outcome = outcome
BY Ends DEF Answer

LEMMA IsAborted ==
  ASSUME TaskInv, NEW s \in Slots, Active(s), Aborts(s)
  PROVE  Moves(s) /\ tasks'[s].at \in {"rollback", "commit"}
<1>1. PICK step \in {"rollback", "commit"} :
        tasks' = [tasks EXCEPT ![s].at = step, ![s].outcome = "error"]
  BY DEF Aborts
<1> QED BY <1>1, Ends

(* The task has read or inserted a row, and goes on. *)
Reads(s, step, entry) == tasks' = [tasks EXCEPT ![s].entry = entry, ![s].at = step]

LEMMA TakesEntry ==
  ASSUME TaskInv, NEW s \in Slots, Active(s), NEW step, step # "idle", NEW entry,
         Reads(s, step, entry)
  PROVE  /\ Moves(s) /\ tasks'[s].at = step
         /\ tasks'[s].entry = entry /\ tasks'[s].sense = tasks[s].sense
         /\ tasks'[s].outcome = tasks[s].outcome
<1>1. PICK t : t = [tasks[s] EXCEPT !.entry = entry]
  OBVIOUS
<1>2. PICK u : u = [t EXCEPT !.at = step]
  OBVIOUS
<1>3. IsTask(t) /\ t.op = tasks[s].op /\ t.entry = entry /\ t.sense = tasks[s].sense
      /\ t.outcome = tasks[s].outcome
  BY <1>1, SetsEntry DEF TaskInv
<1>4. IsTask(u) /\ u.op = tasks[s].op /\ u.at = step /\ u.entry = entry
      /\ u.sense = tasks[s].sense /\ u.outcome = tasks[s].outcome
  BY <1>2, <1>3, SetsAt
<1>5. tasks' = [tasks EXCEPT ![s] = [tasks[s] EXCEPT !.entry = entry, !.at = step]]
  BY DEF Reads
<1>6. tasks' = [tasks EXCEPT ![s] = u]
  BY <1>1, <1>2, <1>5
<1> QED BY <1>4, <1>6, IsMoved

TakesNew(s, step) == tasks' = [tasks EXCEPT ![s].sense = lastId', ![s].at = step]

LEMMA TakesSense ==
  ASSUME TaskInv, NEW s \in Slots, Active(s), NEW step, step # "idle", TakesNew(s, step)
  PROVE  /\ Moves(s) /\ tasks'[s].at = step
         /\ tasks'[s].entry = tasks[s].entry /\ tasks'[s].sense = lastId'
         /\ tasks'[s].outcome = tasks[s].outcome
<1>0. PICK sense : sense = lastId'
  OBVIOUS
<1>1. PICK t : t = [tasks[s] EXCEPT !.sense = sense]
  OBVIOUS
<1>2. PICK u : u = [t EXCEPT !.at = step]
  OBVIOUS
<1>3. IsTask(t) /\ t.op = tasks[s].op /\ t.entry = tasks[s].entry /\ t.sense = sense
      /\ t.outcome = tasks[s].outcome
  BY <1>1, SetsSense DEF TaskInv
<1>4. IsTask(u) /\ u.op = tasks[s].op /\ u.at = step /\ u.entry = tasks[s].entry
      /\ u.sense = sense /\ u.outcome = tasks[s].outcome
  BY <1>2, <1>3, SetsAt
<1>5. tasks' = [tasks EXCEPT ![s] = [tasks[s] EXCEPT !.sense = sense, !.at = step]]
  BY <1>0 DEF TakesNew
<1>6. tasks' = [tasks EXCEPT ![s] = u]
  BY <1>1, <1>2, <1>5
<1> QED BY <1>0, <1>4, <1>6, IsMoved

(* A generation remembers what its source is. *)
LEMMA TakesSource ==
  ASSUME TaskInv, NEW s \in Slots, Active(s), NEW step, step # "idle", NEW entry, NEW sense,
         tasks' = [tasks EXCEPT ![s].entry = entry, ![s].sense = sense, ![s].at = step]
  PROVE  Moves(s) /\ tasks'[s].at = step
<1>1. PICK t : t = [tasks[s] EXCEPT !.entry = entry]
  OBVIOUS
<1>2. PICK u : u = [t EXCEPT !.sense = sense]
  OBVIOUS
<1>3. PICK v : v = [u EXCEPT !.at = step]
  OBVIOUS
<1>4. IsTask(t) /\ t.op = tasks[s].op
  BY <1>1, SetsEntry DEF TaskInv
<1>5. IsTask(u) /\ u.op = tasks[s].op
  BY <1>2, <1>4, SetsSense
<1>6. IsTask(v) /\ v.op = tasks[s].op /\ v.at = step
  BY <1>3, <1>5, SetsAt
<1>7. tasks' = [tasks EXCEPT
        ![s] = [tasks[s] EXCEPT !.entry = entry, !.sense = sense, !.at = step]]
  OBVIOUS
<1>8. [tasks[s] EXCEPT !.entry = entry, !.sense = sense, !.at = step] = v
  BY <1>1, <1>2, <1>3
<1>9. tasks' = [tasks EXCEPT ![s] = v]
  BY <1>7, <1>8
<1> QED BY <1>6, <1>9, IsMoved

(* A Folder delete goes on with its search, and with its deletes. *)
LEMMA Queues ==
  ASSUME TaskInv, NEW s \in Slots, Active(s), NEW step, step # "idle", NEW queue,
         tasks' = [tasks EXCEPT ![s].at = step, ![s].queue = queue]
  PROVE  Moves(s) /\ tasks'[s].at = step
<1>1. PICK t : t = [tasks[s] EXCEPT !.at = step]
  OBVIOUS
<1>2. PICK u : u = [t EXCEPT !.queue = queue]
  OBVIOUS
<1>3. IsTask(t) /\ t.op = tasks[s].op /\ t.at = step
  BY <1>1, SetsAt DEF TaskInv
<1>4. IsTask(u) /\ u.op = tasks[s].op /\ u.at = step
  BY <1>2, <1>3, SetsQueue
<1>5. tasks' = [tasks EXCEPT ![s] = [tasks[s] EXCEPT !.at = step, !.queue = queue]]
  OBVIOUS
<1>6. tasks' = [tasks EXCEPT ![s] = u]
  BY <1>1, <1>2, <1>5
<1> QED BY <1>4, <1>6, IsMoved

LEMMA Dooms ==
  ASSUME TaskInv, NEW s \in Slots, Active(s), NEW step, step # "idle", NEW queue, NEW doomed,
         tasks' = [tasks EXCEPT ![s].queue = queue, ![s].doomed = doomed, ![s].at = step]
  PROVE  Moves(s) /\ tasks'[s].at = step
<1>1. PICK t : t = [tasks[s] EXCEPT !.queue = queue]
  OBVIOUS
<1>2. PICK u : u = [t EXCEPT !.doomed = doomed]
  OBVIOUS
<1>3. PICK v : v = [u EXCEPT !.at = step]
  OBVIOUS
<1>4. IsTask(t) /\ t.op = tasks[s].op
  BY <1>1, SetsQueue DEF TaskInv
<1>5. IsTask(u) /\ u.op = tasks[s].op
  BY <1>2, <1>4, SetsDoomed
<1>6. IsTask(v) /\ v.op = tasks[s].op /\ v.at = step
  BY <1>3, <1>5, SetsAt
<1>7. tasks' = [tasks EXCEPT
        ![s] = [tasks[s] EXCEPT !.queue = queue, !.doomed = doomed, !.at = step]]
  OBVIOUS
<1>8. [tasks[s] EXCEPT !.queue = queue, !.doomed = doomed, !.at = step] = v
  BY <1>1, <1>2, <1>3
<1>9. tasks' = [tasks EXCEPT ![s] = v]
  BY <1>7, <1>8
<1> QED BY <1>6, <1>9, IsMoved

LEMMA Undooms ==
  ASSUME TaskInv, NEW s \in Slots, Active(s), NEW step, step # "idle", NEW doomed,
         tasks' = [tasks EXCEPT ![s].doomed = doomed, ![s].at = step]
  PROVE  Moves(s) /\ tasks'[s].at = step
<1>1. PICK t : t = [tasks[s] EXCEPT !.doomed = doomed]
  OBVIOUS
<1>2. PICK u : u = [t EXCEPT !.at = step]
  OBVIOUS
<1>3. IsTask(t) /\ t.op = tasks[s].op
  BY <1>1, SetsDoomed DEF TaskInv
<1>4. IsTask(u) /\ u.op = tasks[s].op /\ u.at = step
  BY <1>2, <1>3, SetsAt
<1>5. tasks' = [tasks EXCEPT ![s] = [tasks[s] EXCEPT !.doomed = doomed, !.at = step]]
  OBVIOUS
<1>6. tasks' = [tasks EXCEPT ![s] = u]
  BY <1>1, <1>2, <1>5
<1> QED BY <1>4, <1>6, IsMoved

-----------------------------------------------------------------------------
(* What a statement leaves as it is. *)

Keeps ==
  /\ lastId' \in Nat /\ lastId <= lastId'
  /\ Follows(db, db', lastId, lastId')
  /\ process = "client" => SameEntries(db, db')

LEMMA NothingWritten ==
  ASSUME TablesInv, UNCHANGED <<db, lastId>>
  PROVE  Keeps
BY FollowsItself DEF TablesInv, Keeps

LEMMA KeepsTables ==
  ASSUME TablesInv, Keeps, UNCHANGED <<owner, begun>>
  PROVE  TablesInv'
<1>1. Known(db, lastId)'
  BY DEF TablesInv, Keeps, Follows, Known
<1>2. owner # None => Known(begun, lastId)'
  BY DEF TablesInv, Keeps, Known
<1> QED BY <1>1, <1>2 DEF TablesInv, Keeps, Follows

LEMMA KeepsClients ==
  ASSUME TaskInv, TablesInv, ClientInv, NEW s \in Slots, Moves(s), Keeps,
         UNCHANGED <<process, owner, begun>>
  PROVE  ClientInv'
<1> SUFFICES ASSUME process = "client"
             PROVE  /\ \A r \in Slots : UpdatesInPlace(r, db)'
                    /\ owner # None => /\ SameEntries(begun, db)'
                                       /\ \A r \in Slots : UpdatesInPlace(r, begun)'
  BY DEF ClientInv
<1>1. ASSUME NEW r \in Slots, Active(r)', Kind(r)' = "updateDescription"
      PROVE  /\ Active(r) /\ Kind(r) = "updateDescription"
             /\ tasks'[r].op = tasks[r].op
             /\ Target(r) \in 0..lastId /\ Target(r)' = Target(r)
             /\ Target(r) \in DOMAIN db.descriptions =>
                  db.descriptions[Target(r)].entry = tasks[r].op.entry
             /\ owner # None /\ Target(r) \in DOMAIN begun.descriptions =>
                  begun.descriptions[Target(r)].entry = tasks[r].op.entry
  <2>1. Active(r) /\ tasks'[r].op = tasks[r].op
    BY <1>1 DEF Moves, Active
  <2>2. Kind(r) = "updateDescription" /\ Target(r)' = Target(r)
    BY <1>1, <2>1 DEF Kind, Target
  <2> QED BY <2>1, <2>2 DEF ClientInv, UpdatesInPlace
<1>2. lastId \in Nat /\ lastId' \in Nat /\ lastId <= lastId'
      /\ DOMAIN db'.descriptions \subseteq DOMAIN db.descriptions \cup (lastId + 1)..lastId'
      /\ SameEntries(db, db')
  BY DEF TablesInv, Keeps, Follows
<1>3. ASSUME NEW r \in Slots
      PROVE  UpdatesInPlace(r, db)' /\ (owner # None => UpdatesInPlace(r, begun)')
  BY <1>1, <1>2 DEF UpdatesInPlace, SameEntries
<1>4. ASSUME owner # None
      PROVE  SameEntries(begun, db)'
  <2>1. SameEntries(begun, db) /\ DOMAIN begun.descriptions \subseteq 0..lastId
    BY <1>4 DEF ClientInv, TablesInv, Known
  <2> QED BY <1>2, <2>1 DEF SameEntries
<1> QED BY <1>3, <1>4

(* A task that goes on, and what it writes; in a command it is the only one. *)
LEMMA StatementKeeps ==
  ASSUME DictionaryInv, NEW s \in Slots, Moves(s), Keeps,
         UNCHANGED <<process, owner, begun>>, Inside(s)' <=> Inside(s),
         process = "command" => ReadInv(s)'
  PROVE  DictionaryInv'
<1>1. TaskInv'
  BY DEF DictionaryInv, TaskInv, Moves, Active, Kind
<1>2. ASSUME NEW r \in Slots
      PROVE  /\ Active(r)' <=> Active(r)
             /\ Inside(r)' <=> Inside(r)
             /\ Active(r) => Kind(r)' = Kind(r)
  BY DEF Moves, Active, Inside, Kind
<1>3. OwnerInv'
  BY <1>2 DEF DictionaryInv, OwnerInv
<1>4. ProcessInv'
  BY <1>2 DEF DictionaryInv, ProcessInv
<1>5. TablesInv' /\ ClientInv'
  BY KeepsTables, KeepsClients DEF DictionaryInv
<1>6. CommandInv'
  <2> SUFFICES ASSUME process = "command", NEW r \in Slots, Active(r)'
               PROVE  ReadInv(r)'
    BY DEF CommandInv
  <2>1. r = s
    BY <1>2 DEF DictionaryInv, ProcessInv, Moves
  <2> QED BY <2>1
<1> QED BY <1>1, <1>3, <1>4, <1>5, <1>6 DEF DictionaryInv

LEMMA Written ==
  ASSUME TablesInv, lastId' = lastId, Follows(db, db', lastId, lastId), SameEntries(db, db')
  PROVE  Keeps
BY DEF TablesInv, Keeps

(* The steps at which a task counts on what it has read or inserted. *)
ReadSteps ==
  {"run", "findSense", "begin", "root", "insert", "existing", "sense", "assign", "captured",
   "reviewed"}
Readers == {"updateDescription", "assignToSense", "save", "generate"}
OutsideSteps == {"propose", "begin", "done"}

LEMMA GoesOn ==
  ASSUME DictionaryInv, NEW s \in Slots, Moves(s), Keeps, UNCHANGED <<process, owner, begun>>,
         Kind(s) \in Transactions =>
           (tasks[s].at \in OutsideSteps <=> tasks'[s].at \in OutsideSteps),
         process = "command" => ReadInv(s)'
  PROVE  DictionaryInv' /\ Moves(s)
<1>1. Active(s) /\ Active(s)' /\ Kind(s)' = Kind(s)
  BY DEF Moves, Active, Kind
<1>2. Inside(s)' <=> Inside(s)
  BY <1>1 DEF Inside, OutsideSteps
<1> QED BY <1>2, StatementKeeps

LEMMA ReadsNothing ==
  ASSUME NEW s \in Slots, Moves(s), Kind(s) \notin Readers \/ tasks'[s].at \notin ReadSteps
  PROVE  ReadInv(s)'
BY DEF ReadInv, Moves, Kind, Readers, ReadSteps

LEMMA GoesOnQuietly ==
  ASSUME DictionaryInv, NEW s \in Slots, Moves(s), Keeps, UNCHANGED <<process, owner, begun>>,
         Kind(s) \in Transactions =>
           tasks[s].at \notin OutsideSteps /\ tasks'[s].at \notin OutsideSteps,
         Kind(s) \notin Readers \/ tasks'[s].at \notin ReadSteps
  PROVE  DictionaryInv' /\ Moves(s)
BY GoesOn, ReadsNothing

(* A statement of an operation that has no transaction. *)
LEMMA StatementAnswers ==
  ASSUME DictionaryInv, NEW s \in Slots, Active(s), Kind(s) \notin Transactions, Keeps,
         UNCHANGED <<process, owner, begun>>, NEW outcome, Answer(s, outcome)
  PROVE  DictionaryInv' /\ Moves(s)
<1>1. Moves(s) /\ tasks'[s].at = "done"
  BY Answers DEF DictionaryInv
<1> QED BY <1>1, GoesOnQuietly DEF ReadSteps

LEMMA StatementRefused ==
  ASSUME DictionaryInv, NEW s \in Slots, Active(s), Kind(s) \notin Transactions,
         UNCHANGED <<process, owner, begun, lastId>>, Refused(s)
  PROVE  DictionaryInv' /\ Moves(s)
<1>1. Keeps
  BY NothingWritten DEF DictionaryInv, Refused
<1> QED BY <1>1, StatementAnswers DEF Refused

LEMMA StatementWrites ==
  ASSUME DictionaryInv, NEW s \in Slots, Active(s), Kind(s) \notin Transactions,
         UNCHANGED <<process, owner, begun, lastId>>, NEW tables, Writes(s, tables),
         Follows(db, tables, lastId, lastId), SameEntries(db, tables)
  PROVE  DictionaryInv' /\ Moves(s)
<1>1. Keeps
  BY Written DEF DictionaryInv, Writes
<1> QED BY <1>1, StatementAnswers DEF Writes

(* A statement of a transaction that is aborted. *)
LEMMA StatementAborts ==
  ASSUME DictionaryInv, NEW s \in Slots, Active(s), Kind(s) \in Transactions,
         tasks[s].at \notin OutsideSteps,
         UNCHANGED <<process, db, owner, begun, lastId>>, Aborts(s)
  PROVE  DictionaryInv' /\ Moves(s)
<1>1. Keeps
  BY NothingWritten DEF DictionaryInv
<1>2. Moves(s) /\ tasks'[s].at \in {"rollback", "commit"}
  BY IsAborted DEF DictionaryInv
<1> QED BY <1>1, <1>2, GoesOnQuietly DEF OutsideSteps, ReadSteps

LEMMA IsAt ==
  ASSUME NEW s, NEW step, NEW kinds, At(s, step, kinds), step # "idle"
  PROVE  Active(s) /\ tasks[s].at = step /\ Kind(s) \in kinds /\ UNCHANGED process
BY DEF At, Active, Kind

-----------------------------------------------------------------------------
(* Folders. *)

LEMMA KeptByFolders ==
  ASSUME DictionaryInv, NEW s \in Slots, FolderStatement(s)
  PROVE  DictionaryInv' /\ Moves(s)
<1>a. Related(db) /\ TablesInv /\ TaskInv
  BY DEF DictionaryInv, TablesInv
<1> USE DEF NoTransaction
<1>1. CASE CreateFolder(s)
  <2>1. At(s, "run", {"createFolder"}) /\ UNCHANGED <<process, owner, begun, lastId>>
    BY <1>1, IsAt DEF CreateFolder
  <2>2. Active(s) /\ Kind(s) \notin Transactions /\ Kind(s) \notin Readers
    BY <2>1, IsAt DEF Transactions, EntryWrites, Readers
  <2>3. CASE GoTo(s, "existing") /\ UNCHANGED db
    <3>1. Moves(s)
      BY <1>a, <2>2, <2>3, GoesTo
    <3>2. Keeps
      BY <1>a, <2>1, <2>3, NothingWritten
    <3> QED BY <2>1, <2>2, <3>1, <3>2, GoesOnQuietly
  <2>4. CASE Writes(s, WithFolder(db, tasks[s].op.parent, tasks[s].op.name))
    <3>1. PICK folders : WithFolder(db, tasks[s].op.parent, tasks[s].op.name)
                           = [db EXCEPT !.folders = folders]
      BY DEF WithFolder
    <3>2. /\ Follows(db, [db EXCEPT !.folders = folders], lastId, lastId)
          /\ SameEntries(db, [db EXCEPT !.folders = folders])
      BY <1>a, OtherTables
    <3> QED BY <2>1, <2>2, <2>4, <3>1, <3>2, StatementWrites
  <2>5. CASE Refused(s)
    BY <2>1, <2>2, <2>5, StatementRefused
  <2> QED BY <1>1, <2>3, <2>4, <2>5 DEF CreateFolder
<1>2. CASE FindExistingFolder(s)
  <2>1. At(s, "existing", {"createFolder"}) /\ UNCHANGED <<process, owner, begun, lastId>>
    BY <1>2, IsAt DEF FindExistingFolder
  <2>2. Active(s) /\ Kind(s) \notin Transactions
    BY <2>1, IsAt DEF Transactions, EntryWrites
  <2>3. CASE Writes(s, db)
    <3>1. Follows(db, db, lastId, lastId) /\ SameEntries(db, db)
      BY <1>a, FollowsItself
    <3> QED BY <2>1, <2>2, <2>3, <3>1, StatementWrites
  <2>4. CASE Refused(s)
    BY <2>1, <2>2, <2>4, StatementRefused
  <2> QED BY <1>2, <2>3, <2>4 DEF FindExistingFolder
<1>3. CASE RenameFolder(s)
  <2>1. At(s, "run", {"renameFolder"}) /\ UNCHANGED <<process, owner, begun, lastId>>
    BY <1>3, IsAt DEF RenameFolder
  <2>2. Active(s) /\ Kind(s) \notin Transactions
    BY <2>1, IsAt DEF Transactions, EntryWrites
  <2>3. PICK folders :
          folders = [db.folders EXCEPT ![tasks[s].op.folder].name = tasks[s].op.name]
    OBVIOUS
  <2>4. CASE Writes(s, [db EXCEPT !.folders[tasks[s].op.folder].name = tasks[s].op.name])
    <3>1. Writes(s, [db EXCEPT !.folders = folders])
      BY <2>3, <2>4
    <3>2. /\ Follows(db, [db EXCEPT !.folders = folders], lastId, lastId)
          /\ SameEntries(db, [db EXCEPT !.folders = folders])
      BY <1>a, OtherTables
    <3> QED BY <2>1, <2>2, <3>1, <3>2, StatementWrites
  <2>5. CASE Refused(s)
    BY <2>1, <2>2, <2>5, StatementRefused
  <2> QED BY <1>3, <2>4, <2>5 DEF RenameFolder
<1>4. CASE SelectFolder(s)
  <2>1. At(s, "select", {"deleteFolder"}) /\ UNCHANGED <<process, db, owner, begun, lastId>>
    BY <1>4, IsAt DEF SelectFolder
  <2>2. Active(s) /\ Kind(s) \in Transactions /\ Kind(s) \notin Readers
        /\ tasks[s].at \notin OutsideSteps
    BY <2>1, IsAt DEF Transactions, EntryWrites, OutsideSteps, Readers
  <2>3. CASE Aborts(s)
    BY <2>1, <2>2, <2>3, StatementAborts
  <2>4. CASE tasks' = [tasks EXCEPT ![s].at = "children", ![s].queue = <<tasks[s].op.folder>>]
    <3>1. Keeps
      BY <1>a, <2>1, NothingWritten
    <3>2. Moves(s) /\ tasks'[s].at = "children"
      BY <1>a, <2>2, <2>4, Queues
    <3> QED BY <2>1, <2>2, <3>1, <3>2, GoesOnQuietly DEF OutsideSteps
  <2> QED BY <1>4, <2>3, <2>4 DEF SelectFolder
<1>5. CASE SelectChildren(s)
  <2>1. At(s, "children", {"deleteFolder"}) /\ UNCHANGED <<process, db, owner, begun, lastId>>
    BY <1>5, IsAt DEF SelectChildren
  <2>2. Active(s) /\ Kind(s) \in Transactions /\ Kind(s) \notin Readers
        /\ tasks[s].at \notin OutsideSteps
    BY <2>1, IsAt DEF Transactions, EntryWrites, OutsideSteps, Readers
  <2>3. PICK order :
          tasks' = [tasks EXCEPT
            ![s].queue = Tail(tasks[s].queue) \o order,
            ![s].doomed = <<Head(tasks[s].queue)>> \o @,
            ![s].at = IF Tail(tasks[s].queue) \o order = <<>> THEN "drop" ELSE "children"]
    BY Zenon, <1>5 DEF SelectChildren
  <2>4. PICK doomed : doomed = <<Head(tasks[s].queue)>> \o tasks[s].doomed
    OBVIOUS
  <2>5. PICK queue : queue = Tail(tasks[s].queue) \o order
    OBVIOUS
  <2>6. PICK step : /\ step = IF queue = <<>> THEN "drop" ELSE "children"
                    /\ step \in {"drop", "children"}
    OBVIOUS
  <2>7. tasks' = [tasks EXCEPT ![s].queue = queue, ![s].doomed = doomed, ![s].at = step]
    BY Zenon, <2>3, <2>4, <2>5, <2>6
  <2>8. Moves(s) /\ tasks'[s].at = step
    BY <1>a, <2>2, <2>6, <2>7, Dooms
  <2>9. Keeps
    BY <1>a, <2>1, NothingWritten
  <2> QED BY <2>1, <2>2, <2>6, <2>8, <2>9, GoesOnQuietly DEF OutsideSteps
<1>6. CASE DropFolder(s)
  <2>1. At(s, "drop", {"deleteFolder"}) /\ UNCHANGED <<process, owner, begun, lastId>>
    BY <1>6, IsAt DEF DropFolder
  <2>2. Active(s) /\ Kind(s) \in Transactions /\ Kind(s) \notin Readers
        /\ tasks[s].at \notin OutsideSteps
    BY <2>1, IsAt DEF Transactions, EntryWrites, OutsideSteps, Readers
  <2>3. CASE Aborts(s) /\ UNCHANGED db
    BY <2>1, <2>2, <2>3, StatementAborts
  <2>4. ASSUME db' = WithoutFolders(db, {Head(tasks[s].doomed)}),
               NEW step \in {"drop", "commit"}, NEW doomed,
               tasks' = [tasks EXCEPT ![s].doomed = doomed, ![s].at = step]
        PROVE  DictionaryInv' /\ Moves(s)
    <3>1. Keeps
      BY <1>a, <2>1, <2>4, DropsFolders, Written
    <3>2. Moves(s) /\ tasks'[s].at = step
      BY <1>a, <2>2, <2>4, Undooms
    <3> QED BY <2>1, <2>2, <3>1, <3>2, GoesOnQuietly DEF OutsideSteps
  <2> QED BY <1>6, <2>3, <2>4 DEF DropFolder
<1> QED BY <1>1, <1>2, <1>3, <1>4, <1>5, <1>6 DEF FolderStatement

-----------------------------------------------------------------------------
(* Entries, and the reviewed Save. *)

(* As long as a Save has no Sense there is nothing it counts on. *)
LEMMA SaveReads ==
  ASSUME NEW s \in Slots, Moves(s), Kind(s) \in EntryWrites, tasks'[s].sense = None
  PROVE  ReadInv(s)'
BY DEF ReadInv, Moves, Kind, EntryWrites

LEMMA KeptByEntryWrites ==
  ASSUME DictionaryInv, NEW s \in Slots, InsertEntry(s) \/ ReuseEntry(s)
  PROVE  DictionaryInv' /\ Moves(s)
<1>a. Related(db) /\ TablesInv /\ TaskInv
  BY DEF DictionaryInv, TablesInv
<1> USE DEF NoTransaction
<1>1. At(s, "insert", {"createEntry", "save"}) \/ At(s, "existing", {"createEntry", "save"})
  BY DEF InsertEntry, ReuseEntry
<1>2. UNCHANGED <<process, owner, begun, lastId>>
  BY IsAt DEF InsertEntry, ReuseEntry
<1>3. Active(s) /\ Kind(s) \in EntryWrites /\ Kind(s) \in Transactions
      /\ tasks[s].at \in {"insert", "existing"} /\ tasks[s].at \notin OutsideSteps
  BY <1>1, IsAt DEF Transactions, EntryWrites, OutsideSteps
<1>4. process = "command" => ReadInv(s)
  BY <1>3 DEF DictionaryInv, CommandInv
<1>5. process = "command" /\ Kind(s) = "save" => tasks[s].sense = None
  BY <1>3, <1>4 DEF ReadInv
<1>6. ASSUME Keeps, Moves(s), tasks'[s].at \notin OutsideSteps,
             tasks'[s].sense = tasks[s].sense
      PROVE  DictionaryInv' /\ Moves(s)
  <2>1. CASE Kind(s) = "save"
    BY <1>2, <1>3, <1>5, <1>6, <2>1, SaveReads, GoesOn
  <2>2. CASE Kind(s) = "createEntry"
    BY <1>2, <1>3, <1>6, <2>2, GoesOnQuietly DEF Readers
  <2> QED BY <1>3, <2>1, <2>2 DEF EntryWrites
<1>7. CASE GoTo(s, "existing") /\ UNCHANGED db
  <2>1. Moves(s) /\ tasks'[s].at = "existing" /\ tasks'[s].sense = tasks[s].sense
    BY <1>a, <1>3, <1>7, GoesTo
  <2>2. Keeps
    BY <1>a, <1>2, <1>7, NothingWritten
  <2> QED BY <1>6, <2>1, <2>2 DEF OutsideSteps
<1>8. ASSUME NEW entry, tasks' = [tasks EXCEPT ![s].entry = entry, ![s].at = AfterEntry(tasks[s].op)],
             Keeps
      PROVE  DictionaryInv' /\ Moves(s)
  <2>1. PICK step \in {"activity", "sense", "captured"} : step = AfterEntry(tasks[s].op)
    BY DEF AfterEntry
  <2>2. Reads(s, step, entry)
    BY <1>8, <2>1 DEF Reads
  <2>3. Moves(s) /\ tasks'[s].at = step /\ tasks'[s].sense = tasks[s].sense
    BY <1>a, <1>3, <2>2, TakesEntry
  <2> QED BY <1>6, <1>8, <2>3 DEF OutsideSteps
<1>9. CASE Aborts(s) /\ UNCHANGED db
  BY <1>2, <1>3, <1>9, StatementAborts
<1>10. CASE InsertEntry(s)
  <2>1. CASE /\ EntryIdFor(tasks[s].op.text, FolderOf(tasks[s].op)) \notin DOMAIN db.entries
             /\ db' = WithEntry(db, tasks[s].op.text, FolderOf(tasks[s].op))
             /\ tasks' = [tasks EXCEPT
                  ![s].entry = EntryIdFor(tasks[s].op.text, FolderOf(tasks[s].op)),
                  ![s].at = AfterEntry(tasks[s].op)]
    <3>1. PICK entries : db' = [db EXCEPT !.entries = entries]
      BY <2>1 DEF WithEntry
    <3>2. Keeps
      BY <1>a, <1>2, <3>1, OtherTables, Written
    <3> QED BY <1>8, <2>1, <3>2
  <2> QED BY <1>7, <1>9, <1>10, <2>1 DEF InsertEntry
<1>11. CASE ReuseEntry(s)
  <2>1. UNCHANGED db /\ Keeps
    BY <1>a, <1>2, <1>11, NothingWritten DEF ReuseEntry
  <2> QED BY <1>8, <1>9, <1>11, <2>1 DEF ReuseEntry
<1> QED BY <1>10, <1>11

LEMMA KeptByEntries ==
  ASSUME DictionaryInv, NEW s \in Slots, EntryStatement(s)
  PROVE  DictionaryInv' /\ Moves(s)
<1>a. Related(db) /\ TablesInv /\ TaskInv
  BY DEF DictionaryInv, TablesInv
<1> USE DEF NoTransaction
<1>1. CASE UpdateEntry(s)
  <2>1. At(s, "run", {"updateEntry"}) /\ UNCHANGED <<process, owner, begun, lastId>>
    BY <1>1, IsAt DEF UpdateEntry
  <2>2. Active(s) /\ Kind(s) \notin Transactions
    BY <2>1, IsAt DEF Transactions, EntryWrites
  <2>3. PICK entries :
          entries = [db.entries EXCEPT ![tasks[s].op.entry].text = tasks[s].op.text]
    OBVIOUS
  <2>4. CASE Writes(s, [db EXCEPT !.entries[tasks[s].op.entry].text = tasks[s].op.text])
    <3>1. Writes(s, [db EXCEPT !.entries = entries])
      BY <2>3, <2>4
    <3>2. /\ Follows(db, [db EXCEPT !.entries = entries], lastId, lastId)
          /\ SameEntries(db, [db EXCEPT !.entries = entries])
      BY <1>a, OtherTables
    <3> QED BY <2>1, <2>2, <3>1, <3>2, StatementWrites
  <2>5. CASE Refused(s)
    BY <2>1, <2>2, <2>5, StatementRefused
  <2> QED BY <1>1, <2>4, <2>5 DEF UpdateEntry
<1>2. CASE DeleteEntry(s)
  <2>1. At(s, "run", {"deleteEntry"}) /\ UNCHANGED <<process, owner, begun, lastId>>
    BY <1>2, IsAt DEF DeleteEntry
  <2>2. Active(s) /\ Kind(s) \notin Transactions
    BY <2>1, IsAt DEF Transactions, EntryWrites
  <2>3. CASE Writes(s, WithoutEntries(db, {tasks[s].op.entry}))
    BY <1>a, <2>1, <2>2, <2>3, DropsEntries, StatementWrites
  <2>4. CASE Refused(s)
    BY <2>1, <2>2, <2>4, StatementRefused
  <2> QED BY <1>2, <2>3, <2>4 DEF DeleteEntry
<1>3. CASE InsertEntry(s) \/ ReuseEntry(s)
  BY <1>3, KeptByEntryWrites
<1>4. CASE IncrementActivity(s)
  <2>1. At(s, "activity", {"createEntry", "save"}) /\ UNCHANGED <<process, owner, begun, lastId>>
    BY <1>4, IsAt DEF IncrementActivity
  <2>2. Active(s) /\ Kind(s) \in Transactions /\ tasks[s].at \notin OutsideSteps
    BY <2>1, IsAt DEF Transactions, EntryWrites, OutsideSteps
  <2>3. PICK activity : db' = [db EXCEPT !.activity = activity]
    BY <1>4 DEF IncrementActivity, WithActivity
  <2>4. Keeps
    BY <1>a, <2>1, <2>3, OtherTables, Written
  <2>5. Moves(s) /\ tasks'[s].at = "commit"
    BY <1>4, <1>a, <2>2, GoesTo DEF IncrementActivity
  <2> QED BY <2>1, <2>2, <2>4, <2>5, GoesOnQuietly DEF OutsideSteps, ReadSteps
<1> QED BY <1>1, <1>2, <1>3, <1>4 DEF EntryStatement

-----------------------------------------------------------------------------
(* Descriptions, Senses, and generation. *)

LEMMA OnlyInCommands ==
  ASSUME DictionaryInv, NEW s \in Slots, Active(s), Kind(s) \notin ClientKinds
  PROVE  process = "command" /\ ReadInv(s)
BY DEF DictionaryInv, ProcessInv, CommandInv

LEMMA KeptByDescriptions ==
  ASSUME DictionaryInv, NEW s \in Slots,
         CreateDescription(s) \/ DeleteDescription(s) \/ CreateSense(s)
  PROVE  DictionaryInv' /\ Moves(s)
<1>a. Related(db) /\ Known(db, lastId) /\ lastId \in Nat /\ TablesInv /\ TaskInv
  BY DEF DictionaryInv, TablesInv
<1> USE DEF NoTransaction
<1>1. At(s, "run", {"createDescription", "deleteDescription", "createSense"})
  BY DEF CreateDescription, DeleteDescription, CreateSense, At
<1>2. UNCHANGED <<process, owner, begun>> /\ Active(s) /\ Kind(s) \notin Transactions
  BY <1>1, IsAt DEF CreateDescription, DeleteDescription, CreateSense, Transactions, EntryWrites
<1>3. CASE UNCHANGED lastId /\ Refused(s)
  BY <1>2, <1>3, StatementRefused
<1>4. ASSUME lastId' = lastId + 1, NEW tables, Writes(s, tables),
             Follows(db, tables, lastId, lastId'), SameEntries(db, tables)
      PROVE  DictionaryInv' /\ Moves(s)
  <2>1. Keeps
    BY <1>a, <1>4 DEF Keeps, Writes
  <2> QED BY <1>2, <1>4, <2>1, StatementAnswers DEF Writes
<1>5. CASE CreateDescription(s)
  <2>1. CASE lastId' = lastId + 1
             /\ Writes(s, WithDescription(db, lastId', tasks[s].op.entry, None))
    <3>1. Fits(db, tasks[s].op.entry, None)
      BY DEF Fits
    <3>2. lastId' \in Nat /\ lastId' \in (lastId + 1)..lastId'
      BY <1>a, <2>1
    <3>3. PICK tables : tables = WithDescription(db, lastId', tasks[s].op.entry, None)
      OBVIOUS
    <3>4. Follows(db, tables, lastId, lastId') /\ SameEntries(db, tables)
      BY <1>a, <3>1, <3>2, <3>3, AddsDescription
    <3> QED BY <1>4, <2>1, <3>3, <3>4
  <2> QED BY <1>3, <1>5, <2>1 DEF CreateDescription
<1>6. CASE CreateSense(s)
  <2>1. CASE lastId' = lastId + 1 /\ Writes(s, WithSense(db, lastId', tasks[s].op.entry))
    <3>2. lastId' \in Nat /\ lastId' \in (lastId + 1)..lastId'
      BY <1>a, <2>1
    <3>3. PICK tables : tables = WithSense(db, lastId', tasks[s].op.entry)
      OBVIOUS
    <3>4. Follows(db, tables, lastId, lastId') /\ SameEntries(db, tables)
      BY <1>a, <3>2, <3>3, AddsSense
    <3> QED BY <1>4, <2>1, <3>3, <3>4
  <2> QED BY <1>3, <1>6, <2>1 DEF CreateSense
<1>7. CASE DeleteDescription(s)
  <2>1. UNCHANGED lastId
    BY <1>7 DEF DeleteDescription
  <2>2. PICK tables :
          tables = [db EXCEPT !.descriptions = Drop(db.descriptions, {tasks[s].op.description})]
    OBVIOUS
  <2>3. Follows(db, tables, lastId, lastId) /\ SameEntries(db, tables)
    BY <1>a, <2>2, DropsDescriptions
  <2>4. CASE Writes(s, tables)
    BY <1>2, <2>1, <2>3, <2>4, StatementWrites
  <2> QED BY <1>3, <1>7, <2>1, <2>2, <2>4 DEF DeleteDescription
<1> QED BY <1>5, <1>6, <1>7

(* What is read before a Description is moved or assigned.  *)
LEMMA KeptByFinds ==
  ASSUME DictionaryInv, NEW s \in Slots, FindDescription(s) \/ FindSense(s)
  PROVE  DictionaryInv' /\ Moves(s)
<1>a. Related(db) /\ TablesInv /\ TaskInv
  BY DEF DictionaryInv, TablesInv
<1> USE DEF NoTransaction
<1>1. \/ At(s, "find", {"updateDescription", "assignToSense", "detachFromSense"})
      \/ At(s, "findSense", {"assignToSense"})
  BY DEF FindDescription, FindSense
<1>2. UNCHANGED <<process, db, owner, begun, lastId>> /\ Active(s) /\ Kind(s) \notin Transactions
  BY <1>1, IsAt DEF FindDescription, FindSense, Transactions, EntryWrites
<1>3. Keeps
  BY <1>a, <1>2, NothingWritten
<1>4. ASSUME NEW outcome, Answer(s, outcome)
      PROVE  DictionaryInv' /\ Moves(s)
  BY <1>2, <1>3, <1>4, StatementAnswers
<1>5. CASE FindDescription(s)
  <2>1. Kind(s) \in {"updateDescription", "assignToSense", "detachFromSense"}
    BY <1>5, IsAt DEF FindDescription
  <2>2. PICK step \in {"findSense", "run"} :
          step = IF Kind(s) = "assignToSense" THEN "findSense" ELSE "run"
    OBVIOUS
  <2>3. CASE /\ Target(s) \in DOMAIN db.descriptions
             /\ Kind(s) = "updateDescription" =>
                  \/ tasks[s].op.entry = db.descriptions[Target(s)].entry
                  \/ db.descriptions[Target(s)].sense = None
             /\ tasks' = [tasks EXCEPT ![s].entry = db.descriptions[Target(s)].entry,
                                       ![s].at = step]
    <3>a. Reads(s, step, db.descriptions[Target(s)].entry)
      BY <2>3 DEF Reads
    <3>1. Moves(s) /\ tasks'[s].at = step /\ tasks'[s].entry = db.descriptions[Target(s)].entry
      BY <1>a, <1>2, <3>a, TakesEntry
    <3>2. Kind(s)' = Kind(s) /\ Target(s)' = Target(s) /\ tasks'[s].op = tasks[s].op
      BY <3>1 DEF Moves, Kind, Target
    <3>3. OfEntry(s)'
      BY <1>2, <2>3, <3>1, <3>2 DEF OfEntry
    <3>4. ReadInv(s)'
      BY <1>2, <2>1, <2>2, <2>3, <3>1, <3>2, <3>3 DEF ReadInv
    <3> QED BY <1>2, <1>3, <3>1, <3>4, GoesOn
  <2> QED BY <1>4, <1>5, <2>2, <2>3 DEF FindDescription, Target, Kind
<1>6. CASE FindSense(s)
  <2>1. Kind(s) = "assignToSense" /\ tasks[s].at = "findSense"
    BY <1>6, IsAt DEF FindSense
  <2>2. CASE InSense(tasks[s].op.sense, tasks[s].entry) /\ GoTo(s, "run")
    <3>1. Moves(s) /\ tasks'[s].at = "run" /\ tasks'[s].entry = tasks[s].entry
      BY <1>a, <1>2, <2>2, GoesTo
    <3>2. Kind(s)' = Kind(s) /\ Target(s)' = Target(s) /\ tasks'[s].op = tasks[s].op
      BY <3>1 DEF Moves, Kind, Target
    <3>3. OfEntry(s)
      BY <1>2, <2>1, OnlyInCommands DEF ReadInv, ClientKinds
    <3>4. ReadInv(s)'
      BY <1>2, <2>1, <2>2, <3>1, <3>2, <3>3 DEF ReadInv, OfEntry, InSense
    <3> QED BY <1>2, <1>3, <3>1, <3>4, GoesOn
  <2> QED BY <1>4, <1>6, <2>2 DEF FindSense, InSense
<1> QED BY <1>5, <1>6

LEMMA KeptByMoves ==
  ASSUME DictionaryInv, NEW s \in Slots, UpdateDescription(s) \/ AssignSense(s)
  PROVE  DictionaryInv' /\ Moves(s)
<1>a. Related(db) /\ lastId \in Nat /\ TablesInv /\ TaskInv
  BY DEF DictionaryInv, TablesInv
<1> USE DEF NoTransaction
<1>1. At(s, "run", {"updateDescription", "assignToSense", "detachFromSense"})
  BY DEF UpdateDescription, AssignSense, At
<1>2. UNCHANGED <<process, owner, begun, lastId>> /\ Active(s) /\ Kind(s) \notin Transactions
      /\ tasks[s].at = "run"
  BY <1>1, IsAt DEF UpdateDescription, AssignSense, Transactions, EntryWrites
<1>3. CASE Refused(s)
  BY <1>2, <1>3, StatementRefused
<1>4. CASE UpdateDescription(s)
  <2>1. Kind(s) = "updateDescription"
    BY <1>4, IsAt DEF UpdateDescription
  <2>2. CASE /\ Target(s) \in DOMAIN db.descriptions
             /\ Writes(s, [db EXCEPT !.descriptions[Target(s)].entry = tasks[s].op.entry])
    <3>1. PICK tables : tables = [db EXCEPT !.descriptions[Target(s)].entry = tasks[s].op.entry]
      OBVIOUS
    <3>2. \/ tasks[s].op.entry = db.descriptions[Target(s)].entry
          \/ process = "command" /\ db.descriptions[Target(s)].sense = None
      <4>1. CASE process = "client"
        BY <1>2, <2>1, <2>2, <4>1 DEF DictionaryInv, ClientInv, UpdatesInPlace
      <4>2. CASE process = "command"
        BY <1>2, <2>1, <2>2, <4>2 DEF DictionaryInv, CommandInv, ReadInv
      <4> QED BY <1>2, <4>1, <4>2 DEF DictionaryInv, ProcessInv
    <3>3. /\ Follows(db, tables, lastId, lastId)
          /\ tasks[s].op.entry = db.descriptions[Target(s)].entry => SameEntries(db, tables)
      BY <1>a, <2>2, <3>1, <3>2, MovesDescription
    <3>4. Keeps
      BY <1>a, <1>2, <2>2, <3>1, <3>2, <3>3 DEF Keeps, Writes
    <3> QED BY <1>2, <2>2, <3>4, StatementAnswers DEF Writes
  <2> QED BY <1>3, <1>4, <2>2 DEF UpdateDescription, Target
<1>5. CASE AssignSense(s)
  <2>1. Kind(s) \in {"assignToSense", "detachFromSense"}
    BY <1>5, IsAt DEF AssignSense
  <2>2. PICK sense : sense = IF Kind(s) = "assignToSense" THEN tasks[s].op.sense ELSE None
    OBVIOUS
  <2>3. CASE /\ Target(s) \in DOMAIN db.descriptions
             /\ Writes(s, [db EXCEPT !.descriptions[Target(s)].sense = sense])
    <3>1. PICK tables : tables = [db EXCEPT !.descriptions[Target(s)].sense = sense]
      OBVIOUS
    <3>a. Regroups(db, tables, Target(s), sense)
      BY <3>1 DEF Regroups
    <3>2. Fits(db, db.descriptions[Target(s)].entry, sense)
      <4>1. CASE Kind(s) = "assignToSense"
        BY <1>2, <2>2, <4>1, OnlyInCommands DEF ReadInv, OfEntry, InSense, Fits, ClientKinds
      <4>2. CASE Kind(s) = "detachFromSense"
        BY <2>2, <4>2 DEF Fits
      <4> QED BY <2>1, <4>1, <4>2
    <3>3. Follows(db, tables, lastId, lastId) /\ SameEntries(db, tables)
      BY <1>a, <2>3, <3>2, <3>a, Assigns
    <3> QED BY <1>2, <2>3, <3>1, <3>3, StatementWrites
  <2> QED BY <1>3, <1>5, <2>2, <2>3 DEF AssignSense, Target, Kind
<1> QED BY <1>4, <1>5

LEMMA KeptBySenseDelete ==
  ASSUME DictionaryInv, NEW s \in Slots,
         SelectSense(s) \/ CascadeToDescriptions(s) \/ DeleteSense(s)
  PROVE  DictionaryInv' /\ Moves(s)
<1>a. Related(db) /\ TablesInv /\ TaskInv
  BY DEF DictionaryInv, TablesInv
<1> USE DEF NoTransaction
<1>1. \/ At(s, "select", {"deleteSense"}) \/ At(s, "cascade", {"deleteSense"})
      \/ At(s, "delete", {"deleteSense"})
  BY DEF SelectSense, CascadeToDescriptions, DeleteSense
<1>2. Active(s) /\ Kind(s) \in Transactions /\ Kind(s) \notin Readers
      /\ tasks[s].at \notin OutsideSteps /\ UNCHANGED <<process, owner, begun, lastId>>
  BY <1>1, IsAt DEF SelectSense, CascadeToDescriptions, DeleteSense, Transactions, EntryWrites,
                    OutsideSteps, Readers
<1>3. ASSUME Keeps, NEW step \in {"cascade", "delete", "commit"}, GoTo(s, step)
      PROVE  DictionaryInv' /\ Moves(s)
  <2>1. Moves(s) /\ tasks'[s].at = step
    BY <1>a, <1>2, <1>3, GoesTo
  <2> QED BY <1>2, <1>3, <2>1, GoesOnQuietly DEF OutsideSteps
<1>4. CASE SelectSense(s)
  <2>1. UNCHANGED db /\ Keeps
    BY <1>a, <1>2, <1>4, NothingWritten DEF SelectSense
  <2>2. CASE Aborts(s)
    BY <1>2, <2>1, <2>2, StatementAborts
  <2>3. CASE GoTo(s, "cascade") \/ GoTo(s, "delete")
    BY <1>3, <2>1, <2>3
  <2> QED BY <1>4, <2>2, <2>3 DEF SelectSense
<1>5. CASE CascadeToDescriptions(s)
  <2>1. PICK ids : db' = [db EXCEPT !.descriptions = Drop(db.descriptions, ids)]
    BY <1>5 DEF CascadeToDescriptions
  <2>2. Follows(db, db', lastId, lastId) /\ SameEntries(db, db')
    BY <1>a, <2>1, DropsDescriptions
  <2>3. Keeps
    BY <1>a, <1>2, <2>2, Written
  <2> QED BY <1>3, <1>5, <2>3 DEF CascadeToDescriptions
<1>6. CASE DeleteSense(s)
  <2>1. Keeps
    BY <1>a, <1>2, <1>6, DropsSenses, Written DEF DeleteSense
  <2> QED BY <1>3, <1>6, <2>1 DEF DeleteSense
<1> QED BY <1>4, <1>5, <1>6

LEMMA KeptBySenses ==
  ASSUME DictionaryInv, NEW s \in Slots, SenseStatement(s)
  PROVE  DictionaryInv' /\ Moves(s)
BY KeptByDescriptions, KeptByFinds, KeptByMoves, KeptBySenseDelete DEF SenseStatement

(* The statements of a reviewed Save and of a generation. *)
LEMMA KeptBySave ==
  ASSUME DictionaryInv, NEW s \in Slots, SelectRoot(s) \/ InsertCaptured(s)
  PROVE  DictionaryInv' /\ Moves(s)
<1>a. Related(db) /\ Known(db, lastId) /\ lastId \in Nat /\ TablesInv /\ TaskInv
  BY DEF DictionaryInv, TablesInv
<1> USE DEF NoTransaction
<1>1. At(s, "root", {"save"}) \/ At(s, "captured", {"save"})
  BY DEF SelectRoot, InsertCaptured
<1>2. Active(s) /\ Kind(s) = "save" /\ tasks[s].at \notin OutsideSteps
      /\ UNCHANGED <<process, owner, begun>>
  BY <1>1, IsAt DEF SelectRoot, InsertCaptured, OutsideSteps
<1>3. process = "command" /\ ReadInv(s)
  BY <1>2, OnlyInCommands DEF ClientKinds
<1>4. CASE SelectRoot(s)
  <2>1. UNCHANGED <<db, lastId>> /\ Keeps
    BY <1>a, <1>4, NothingWritten DEF SelectRoot
  <2>2. CASE Aborts(s)
    BY <1>2, <2>1, <2>2, StatementAborts DEF Transactions, EntryWrites
  <2>3. CASE GoTo(s, "insert")
    <3>1. Moves(s) /\ tasks'[s].at = "insert" /\ tasks'[s].sense = tasks[s].sense
      BY <1>a, <1>2, <2>3, GoesTo
    <3>2. tasks[s].sense = None
      BY <1>2, <1>3, <1>4, IsAt DEF ReadInv, SelectRoot
    <3>3. ReadInv(s)'
      BY <1>2, <3>1, <3>2, SaveReads DEF EntryWrites
    <3> QED BY <1>2, <2>1, <3>1, <3>3, GoesOn DEF OutsideSteps
  <2> QED BY <1>4, <2>2, <2>3 DEF SelectRoot
<1>5. CASE InsertCaptured(s)
  <2>1. lastId' = lastId + 1 /\ lastId' \in Nat /\ lastId' \in (lastId + 1)..lastId'
    BY <1>a, <1>5 DEF InsertCaptured
  <2>2. tasks[s].sense = None \/ InSense(tasks[s].sense, tasks[s].entry)
    BY <1>2, <1>3, <1>5, IsAt DEF ReadInv, InsertCaptured
  <2>3. PICK entry, sense : entry = tasks[s].entry /\ sense = tasks[s].sense
    OBVIOUS
  <2>4. Fits(db, entry, sense)
    BY <2>2, <2>3 DEF Fits, InSense
  <2>5. db' = WithDescription(db, lastId', entry, sense)
    BY <1>5, <2>3 DEF InsertCaptured
  <2>6. Follows(db, db', lastId, lastId') /\ SameEntries(db, db') /\ db'.senses = db.senses
    BY <1>a, <2>1, <2>4, <2>5, AddsDescription
  <2>7. Keeps
    BY <1>a, <2>1, <2>6 DEF Keeps
  <2>8. PICK step \in {"reviewed", "activity"} : GoTo(s, step)
    BY <1>5 DEF InsertCaptured
  <2>9. Moves(s) /\ tasks'[s].at = step
        /\ tasks'[s].entry = tasks[s].entry /\ tasks'[s].sense = tasks[s].sense
    BY <1>a, <1>2, <2>8, GoesTo
  <2>10. tasks'[s].sense = None \/ InSense(tasks[s].sense, tasks[s].entry)'
    BY <2>2, <2>6, <2>9 DEF InSense
  <2>11. ReadInv(s)'
    BY <1>2, <2>9, <2>10 DEF ReadInv, Moves, Kind
  <2> QED BY <1>2, <2>7, <2>9, <2>11, GoesOn DEF OutsideSteps
<1> QED BY <1>4, <1>5

LEMMA KeptByInsertSense ==
  ASSUME DictionaryInv, NEW s \in Slots, InsertSense(s)
  PROVE  DictionaryInv' /\ Moves(s)
<1>a. Related(db) /\ Known(db, lastId) /\ lastId \in Nat /\ TablesInv /\ TaskInv
  BY DEF DictionaryInv, TablesInv
<1>1. At(s, "sense", {"save", "generate"})
  BY DEF InsertSense
<1>2. Active(s) /\ Kind(s) \in {"save", "generate"} /\ tasks[s].at = "sense"
      /\ UNCHANGED <<process, owner, begun>>
  BY <1>1, IsAt DEF InsertSense, NoTransaction
<1>3. process = "command" /\ ReadInv(s)
  BY <1>2, OnlyInCommands DEF ClientKinds
<1>4. lastId' = lastId + 1 /\ lastId' \in Nat /\ lastId' \in (lastId + 1)..lastId'
  BY <1>a DEF InsertSense
<1>5. PICK entry : entry = tasks[s].entry
  OBVIOUS
<1>6. db' = WithSense(db, lastId', entry)
  BY <1>5 DEF InsertSense
<1>7. /\ Follows(db, db', lastId, lastId') /\ SameEntries(db, db')
      /\ db'.descriptions = db.descriptions /\ InSense(lastId, entry)'
  BY <1>a, <1>4, <1>5, <1>6, AddsSense DEF InSense
<1>8. Keeps
  BY <1>a, <1>4, <1>7 DEF Keeps
<1>9. PICK step : step = AfterSense(tasks[s].op)
  OBVIOUS
<1>10. step \in {"assign", "captured", "reviewed"} /\ (Kind(s) = "save" => step # "assign")
       /\ (Kind(s) = "generate" => step = "assign")
  BY <1>2, <1>9 DEF AfterSense, Kind
<1>11. TakesNew(s, step)
  BY <1>9 DEF InsertSense, TakesNew
<1>12. Moves(s) /\ tasks'[s].at = step /\ tasks'[s].entry = entry /\ tasks'[s].sense = lastId'
  BY <1>a, <1>2, <1>5, <1>10, <1>11, TakesSense
<1>13. InSense(tasks[s].sense, tasks[s].entry)'
  BY <1>7, <1>12 DEF InSense
<1>14. Kind(s)' = Kind(s) /\ Target(s)' = Target(s)
  BY <1>12 DEF Moves, Kind, Target
<1>15. Kind(s) = "generate" => OfEntry(s)'
  BY <1>2, <1>3, <1>5, <1>7, <1>12, <1>14 DEF ReadInv, OfEntry
<1>16. ReadInv(s)'
  BY <1>2, <1>10, <1>12, <1>13, <1>14, <1>15 DEF ReadInv
<1> QED BY <1>2, <1>8, <1>10, <1>12, <1>16, GoesOn DEF OutsideSteps

LEMMA KeptByInsertReviewed ==
  ASSUME DictionaryInv, NEW s \in Slots, InsertReviewed(s)
  PROVE  DictionaryInv' /\ Moves(s)
<1>a. Related(db) /\ Known(db, lastId) /\ lastId \in Nat /\ TablesInv /\ TaskInv
  BY DEF DictionaryInv, TablesInv
<1>1. At(s, "reviewed", {"save", "generate"})
  BY DEF InsertReviewed
<1>2. Active(s) /\ Kind(s) \in {"save", "generate"} /\ tasks[s].at = "reviewed"
      /\ UNCHANGED <<process, owner, begun>>
  BY <1>1, IsAt DEF InsertReviewed, NoTransaction
<1>3. process = "command" /\ ReadInv(s)
  BY <1>2, OnlyInCommands DEF ClientKinds
<1>4. PICK count \in Nat : count = tasks[s].op.reviewed
  BY <1>a, <1>2 DEF TaskInv
<1>5. lastId' = lastId + count /\ lastId' \in Nat
  BY <1>a, <1>4 DEF InsertReviewed
<1>6. PICK entry, sense, ids :
        entry = tasks[s].entry /\ sense = tasks[s].sense /\ ids = (lastId + 1)..lastId'
  OBVIOUS
<1>7. Fits(db, entry, sense)
  BY <1>2, <1>3, <1>6 DEF ReadInv, Fits, InSense
<1>8. ids \in SUBSET ((lastId + 1)..lastId')
  BY <1>6
<1>9. db' = WithDescriptions(db, ids, entry, sense)
  BY <1>4, <1>5, <1>6 DEF InsertReviewed
<1>10. Follows(db, db', lastId, lastId') /\ SameEntries(db, db')
  BY <1>a, <1>5, <1>7, <1>8, <1>9, AddsDescriptions
<1>11. Keeps
  BY <1>a, <1>5, <1>10 DEF Keeps
<1>12. PICK step \in {"activity", "commit"} : GoTo(s, step)
  BY DEF InsertReviewed
<1>13. Moves(s) /\ tasks'[s].at = step
  BY <1>a, <1>2, <1>12, GoesTo
<1> QED BY <1>2, <1>11, <1>13, GoesOnQuietly DEF OutsideSteps, ReadSteps

LEMMA KeptByGeneration ==
  ASSUME DictionaryInv, NEW s \in Slots, Propose(s) \/ SelectSource(s) \/ AssignSource(s)
  PROVE  DictionaryInv' /\ Moves(s)
<1>a. Related(db) /\ lastId \in Nat /\ TablesInv /\ TaskInv
  BY DEF DictionaryInv, TablesInv
<1> USE DEF NoTransaction
<1>1. At(s, "propose", {"generate"}) \/ At(s, "select", {"generate"}) \/ At(s, "assign", {"generate"})
  BY DEF Propose, SelectSource, AssignSource
<1>b. UNCHANGED <<owner, begun, lastId>>
  BY DEF Propose, SelectSource, AssignSource
<1>2. Active(s) /\ Kind(s) = "generate" /\ UNCHANGED <<process, owner, begun, lastId>>
  BY <1>1, <1>b, IsAt
<1>3. process = "command" /\ ReadInv(s)
  BY <1>2, OnlyInCommands DEF ClientKinds
<1>4. CASE Propose(s)
  <2>1. tasks[s].at \in OutsideSteps /\ UNCHANGED db /\ Keeps
    BY <1>a, <1>2, <1>4, IsAt, NothingWritten DEF Propose, OutsideSteps
  <2>2. ASSUME Moves(s), tasks'[s].at \in {"begin", "done"}
        PROVE  DictionaryInv' /\ Moves(s)
    <3>1. ReadInv(s)'
      BY <1>2, <2>2 DEF ReadInv, Moves, Kind
    <3> QED BY <1>2, <2>1, <2>2, <3>1, GoesOn DEF OutsideSteps
  <2>3. CASE Answer(s, "error")
    BY <1>a, <1>2, <2>2, <2>3, Answers
  <2>4. ASSUME NEW entry, NEW sense,
               tasks' = [tasks EXCEPT ![s].entry = entry, ![s].sense = sense, ![s].at = "begin"]
        PROVE  DictionaryInv' /\ Moves(s)
    BY <1>a, <1>2, <2>2, <2>4, TakesSource
  <2> QED BY <1>4, <2>3, <2>4 DEF Propose
<1>5. CASE SelectSource(s)
  <2>1. tasks[s].at \notin OutsideSteps /\ UNCHANGED db /\ Keeps
    BY <1>a, <1>2, <1>5, IsAt, NothingWritten DEF SelectSource, OutsideSteps
  <2>2. CASE Aborts(s)
    BY <1>2, <2>1, <2>2, StatementAborts DEF Transactions
  <2>3. CASE /\ Target(s) \in DOMAIN db.descriptions
             /\ db.descriptions[Target(s)] = [entry |-> tasks[s].entry, sense |-> tasks[s].sense]
             /\ GoTo(s, IF tasks[s].sense = None THEN "sense" ELSE "reviewed")
    <3>1. PICK step \in {"sense", "reviewed"} :
            step = IF tasks[s].sense = None THEN "sense" ELSE "reviewed"
      OBVIOUS
    <3>2. GoTo(s, step)
      BY <2>3, <3>1
    <3>3. Moves(s) /\ tasks'[s].at = step
          /\ tasks'[s].entry = tasks[s].entry /\ tasks'[s].sense = tasks[s].sense
      BY <1>a, <1>2, <3>2, GoesTo
    <3>4. db.descriptions[Target(s)].entry = tasks[s].entry
          /\ db.descriptions[Target(s)].sense = tasks[s].sense
      BY <2>3
    <3>5. tasks[s].sense = None \/ InSense(tasks[s].sense, tasks[s].entry)
      BY <1>a, <2>3, <3>4 DEF Related, SensesFit, InSense
    <3>6. Kind(s)' = Kind(s) /\ Target(s)' = Target(s)
      BY <3>3 DEF Moves, Kind, Target
    <3>7. OfEntry(s)' /\ (step = "reviewed" => InSense(tasks[s].sense, tasks[s].entry)')
      BY <2>1, <2>3, <3>1, <3>3, <3>4, <3>5, <3>6 DEF OfEntry, InSense
    <3>8. ReadInv(s)'
      BY <1>2, <3>1, <3>3, <3>6, <3>7 DEF ReadInv
    <3> QED BY <1>2, <2>1, <3>1, <3>3, <3>8, GoesOn DEF OutsideSteps
  <2> QED BY <1>5, <2>2, <2>3 DEF SelectSource, Target
<1>6. CASE AssignSource(s)
  <2>1. tasks[s].at = "assign" /\ GoTo(s, "reviewed")
    BY <1>6, IsAt DEF AssignSource
  <2>2. OfEntry(s) /\ InSense(tasks[s].sense, tasks[s].entry)
    BY <1>2, <1>3, <2>1 DEF ReadInv
  <2>3. PICK sense : sense = tasks[s].sense
    OBVIOUS
  <2>4. Regroups(db, db', Target(s), sense)
    BY <1>6, <2>3 DEF AssignSource, Target, Regroups
  <2>5. Target(s) \in DOMAIN db.descriptions /\ Fits(db, db.descriptions[Target(s)].entry, sense)
    BY <2>2, <2>3 DEF OfEntry, InSense, Fits
  <2>6. Follows(db, db', lastId, lastId) /\ SameEntries(db, db') /\ db'.senses = db.senses
    BY <1>a, <2>4, <2>5, Assigns
  <2>7. Keeps
    BY <1>a, <1>2, <2>6, Written
  <2>8. Moves(s) /\ tasks'[s].at = "reviewed"
        /\ tasks'[s].entry = tasks[s].entry /\ tasks'[s].sense = tasks[s].sense
    BY <1>a, <1>2, <2>1, GoesTo
  <2>9. InSense(tasks[s].sense, tasks[s].entry)'
    BY <2>2, <2>6, <2>8 DEF InSense
  <2>10. ReadInv(s)'
    BY <1>2, <2>8, <2>9 DEF ReadInv, Moves, Kind
  <2> QED BY <1>2, <2>1, <2>7, <2>8, <2>10, GoesOn DEF OutsideSteps
<1> QED BY <1>4, <1>5, <1>6

LEMMA KeptByReviews ==
  ASSUME DictionaryInv, NEW s \in Slots, ReviewedStatement(s)
  PROVE  DictionaryInv' /\ Moves(s)
BY KeptBySave, KeptByInsertSense, KeptByInsertReviewed, KeptByGeneration DEF ReviewedStatement

-----------------------------------------------------------------------------
(* Transactions. *)

LEMMA TaskMoves ==
  ASSUME DictionaryInv, NEW s \in Slots, Moves(s), UNCHANGED process
  PROVE  /\ TaskInv' /\ ProcessInv'
         /\ \A r \in Slots \ {s} : Inside(r)' <=> Inside(r)
         /\ (process = "command" => ReadInv(s)') => CommandInv'
<1>1. TaskInv'
  BY DEF DictionaryInv, TaskInv, Moves, Active, Kind
<1>2. ASSUME NEW r \in Slots
      PROVE  (Active(r)' <=> Active(r)) /\ (Active(r) => Kind(r)' = Kind(r))
  BY DEF Moves, Active, Kind
<1>3. ProcessInv'
  BY <1>2 DEF DictionaryInv, ProcessInv
<1>4. \A r \in Slots \ {s} : Inside(r)' <=> Inside(r)
  BY DEF Moves, Inside, Active, Kind
<1>5. (process = "command" => ReadInv(s)') => CommandInv'
  <2> SUFFICES ASSUME process = "command", ReadInv(s)', NEW r \in Slots, Active(r)'
               PROVE  ReadInv(r)'
    BY DEF CommandInv
  <2>1. r = s
    BY <1>2 DEF DictionaryInv, ProcessInv, Moves
  <2> QED BY <2>1
<1> QED BY <1>1, <1>3, <1>4, <1>5

(* Updates are not disturbed when the tables become those of `base`.       *)
LEMMA UpdatesStay ==
  ASSUME NEW s \in Slots, Moves(s), UNCHANGED lastId, NEW base, NEW r \in Slots,
         UpdatesInPlace(r, base)
  PROVE  /\ db' = base => UpdatesInPlace(r, db)'
         /\ begun' = base => UpdatesInPlace(r, begun)'
<1>1. tasks'[r].op = tasks[r].op /\ (Active(r)' => Active(r))
  BY DEF Moves, Active
<1> QED BY <1>1 DEF UpdatesInPlace, Kind, Target

LEMMA KeptByTransactions ==
  ASSUME DictionaryInv, NEW s \in Slots, TransactionStatement(s)
  PROVE  DictionaryInv' /\ Moves(s)
<1>a. TablesInv /\ TaskInv /\ OwnerInv
  BY DEF DictionaryInv
<1>1. CASE Begin(s)
  <2>1. At(s, "begin", Transactions) /\ UNCHANGED <<process, db, lastId>>
    BY <1>1, IsAt DEF Begin
  <2>2. Active(s) /\ Kind(s) \in Transactions /\ tasks[s].at = "begin"
    BY <2>1, IsAt
  <2>3. CASE NoTransaction /\ NotBegun(s)
    <3>1. Moves(s) /\ tasks'[s].at = "done"
      BY <1>a, <2>2, <2>3, Answers DEF NotBegun
    <3>2. ReadInv(s)'
      BY <3>1, ReadsNothing DEF ReadSteps
    <3>3. Keeps
      BY <1>a, <2>1, NothingWritten
    <3> QED BY <2>1, <2>2, <2>3, <3>1, <3>2, <3>3, GoesOn DEF OutsideSteps, NoTransaction
  <2>4. CASE owner = None /\ owner' = s /\ begun' = db /\ GoTo(s, AfterBegin(Kind(s)))
    <3>1. PICK step \in {"insert", "root", "select"} :
            step = AfterBegin(Kind(s)) /\ (Kind(s) = "save" <=> step = "root")
                                       /\ (Kind(s) = "createEntry" <=> step = "insert")
      BY DEF AfterBegin
    <3>2. Moves(s) /\ tasks'[s].at = step /\ tasks'[s].sense = tasks[s].sense
      BY <1>a, <2>2, <2>4, <3>1, GoesTo
    <3>3. Kind(s)' = Kind(s) /\ Inside(s)'
      BY <2>2, <3>1, <3>2 DEF Moves, Kind, Inside, Active
    <3>4. OwnerInv'
      BY <2>4, <3>2, <3>3, TaskMoves, <1>a, <2>1, SlotsAssumption DEF OwnerInv
    <3>5. TablesInv'
      BY <1>a, <2>1, <2>4 DEF TablesInv
    <3>6. ClientInv'
      <4>1. process = "client" => \A r \in Slots : UpdatesInPlace(r, db)
        BY DEF DictionaryInv, ClientInv
      <4>2. SameEntries(begun, db)'
        BY <2>1, <2>4 DEF SameEntries
      <4>3. process = "client" => \A r \in Slots : UpdatesInPlace(r, db)' /\ UpdatesInPlace(r, begun)'
        BY <2>1, <2>4, <3>2, <4>1, UpdatesStay
      <4> QED BY <2>1, <4>2, <4>3 DEF ClientInv
    <3>7. process = "command" => ReadInv(s)'
      <4>1. process = "command" /\ Kind(s) = "save" => tasks'[s].sense = None
        BY <2>2, <3>2 DEF DictionaryInv, CommandInv, ReadInv
      <4> QED BY <3>1, <3>2, <3>3, <4>1 DEF ReadInv
    <3> QED BY <2>1, <3>2, <3>4, <3>5, <3>6, <3>7, TaskMoves DEF DictionaryInv
  <2> QED BY <1>1, <2>3, <2>4 DEF Begin, Kind
<1>2. CASE Commit(s) \/ Rollback(s)
  <2>1. At(s, "commit", Transactions) \/ At(s, "rollback", Transactions)
    BY <1>2 DEF Commit, Rollback
  <2>2. Active(s) /\ Kind(s) \in Transactions /\ tasks[s].at \in {"commit", "rollback"}
        /\ UNCHANGED <<process, lastId>>
    BY <1>2, <2>1, IsAt DEF Commit, Rollback
  <2>3. owner' = None /\ (db' = db \/ db' = begun) /\ Answer(s, tasks[s].outcome)
    BY <1>2 DEF Commit, Rollback
  <2>4. Moves(s) /\ tasks'[s].at = "done"
    BY <1>a, <2>2, <2>3, Answers
  <2>5. owner = s /\ owner # None /\ \A r \in Slots \ {s} : ~Inside(r)
    BY <1>a, <2>2, SlotsAssumption DEF OwnerInv, Inside
  <2>6. ~Inside(s)'
    BY <2>4 DEF Inside
  <2>7. OwnerInv'
    BY <2>2, <2>3, <2>4, <2>5, <2>6, TaskMoves, SlotsAssumption DEF OwnerInv
  <2>8. TablesInv'
    BY <1>a, <2>2, <2>3, <2>5 DEF TablesInv
  <2>9. ClientInv'
    <3>1. process = "client" =>
            \A r \in Slots : UpdatesInPlace(r, db) /\ UpdatesInPlace(r, begun)
      BY <2>5 DEF DictionaryInv, ClientInv
    <3>2. process = "client" => \A r \in Slots : UpdatesInPlace(r, db)'
      BY <2>2, <2>3, <2>4, <3>1, UpdatesStay
    <3> QED BY <2>2, <2>3, <3>2 DEF ClientInv
  <2>10. ReadInv(s)'
    BY <2>4, ReadsNothing DEF ReadSteps
  <2> QED BY <2>2, <2>4, <2>7, <2>8, <2>9, <2>10, TaskMoves DEF DictionaryInv
<1> QED BY <1>1, <1>2 DEF TransactionStatement

LEMMA KeptByFailures ==
  ASSUME DictionaryInv, NEW s \in Slots, Fail(s)
  PROVE  DictionaryInv' /\ Moves(s)
<1>a. TablesInv /\ TaskInv
  BY DEF DictionaryInv
<1>1. Active(s) /\ UNCHANGED <<process, db, owner, begun, lastId>>
      /\ tasks[s].at \notin {"propose", "done"}
  BY DEF Fail, Active
<1>2. Keeps
  BY <1>a, <1>1, NothingWritten
<1>3. ASSUME Moves(s), tasks'[s].at \in {"done", "commit", "rollback"},
             Kind(s) \in Transactions => (tasks'[s].at = "done" <=> tasks[s].at = "begin")
      PROVE  DictionaryInv' /\ Moves(s)
  <2>1. ReadInv(s)'
    BY <1>3, ReadsNothing DEF ReadSteps
  <2> QED BY <1>1, <1>2, <1>3, <2>1, GoesOn DEF OutsideSteps
<1>4. CASE tasks[s].at = "begin" /\ NotBegun(s)
  BY <1>a, <1>1, <1>3, <1>4, Answers DEF NotBegun
<1>5. CASE Kind(s) \notin Transactions /\ Answer(s, "error")
  BY <1>a, <1>1, <1>3, <1>5, Answers
<1>6. ASSUME tasks[s].at # "begin", NEW step \in {"commit", "rollback"}, NEW outcome,
             tasks' = [tasks EXCEPT ![s].at = step, ![s].outcome = outcome]
      PROVE  DictionaryInv' /\ Moves(s)
  BY <1>a, <1>1, <1>3, <1>6, Ends
<1> QED BY <1>4, <1>5, <1>6 DEF Fail, Kind

-----------------------------------------------------------------------------
(* Processes. *)

LEMMA NobodyActive ==
  ASSUME DictionaryInv, \A s \in Slots : ~Active(s)
  PROVE  owner = None
BY DEF DictionaryInv, OwnerInv, Inside

LEMMA Quiet ==
  ASSUME TaskInv', (\A s \in Slots : ~Active(s))', (owner = None)',
         (process \in {"none", "command", "client"})', TablesInv'
  PROVE  DictionaryInv'
BY SlotsAssumption
   DEF DictionaryInv, OwnerInv, Inside, ProcessInv, ClientInv, CommandInv, UpdatesInPlace

LEMMA IsIdle ==
  IsTask(Idle) /\ Idle.at = "idle" /\ Idle.sense = None /\ Idle.outcome = "ok"
BY DEF Idle, IsTask

LEMMA KeptByProcesses ==
  ASSUME DictionaryInv, (\E kind \in {"command", "client"} : Open(kind)) \/ Close \/ Crash
  PROVE  DictionaryInv'
<1>a. Related(db) /\ TablesInv /\ TaskInv
  BY DEF DictionaryInv, TablesInv
<1>1. ASSUME NEW kind \in {"command", "client"}, Open(kind)
      PROVE  DictionaryInv'
  <2>1. \A s \in Slots : ~Active(s)
    BY <1>1 DEF Open, DictionaryInv, ProcessInv
  <2>2. owner = None /\ UNCHANGED <<owner, begun, lastId, tasks>>
    BY <1>1, <2>1, NobodyActive DEF Open
  <2>3. Follows(db, db', lastId, lastId) /\ SameEntries(db, db')
    <3>1. CASE db' = db
      BY <1>a, <3>1, FollowsItself
    <3>2. ASSUME NEW folders, db' = [db EXCEPT !.folders = folders]
          PROVE  Follows(db, db', lastId, lastId) /\ SameEntries(db, db')
      BY <1>a, <3>2, OtherTables
    <3> QED BY <1>1, <3>1, <3>2 DEF Open, WithRoot
  <2>4. TablesInv'
    BY <1>a, <2>2, <2>3, Written, KeepsTables
  <2>5. TaskInv' /\ (\A s \in Slots : ~Active(s))'
    BY <1>a, <2>1, <2>2 DEF TaskInv, Active, Kind
  <2>6. (process \in {"none", "command", "client"})' /\ (owner = None)'
    BY <1>1, <2>2 DEF Open
  <2> QED BY <2>4, <2>5, <2>6, Quiet
<1>2. CASE Close
  <2>1. \A s \in Slots : ~Active(s)
    BY <1>2, IsIdle DEF Close, AllIdle, Active
  <2>2. owner = None /\ UNCHANGED <<db, owner, begun, lastId, tasks>> /\ process' = "none"
    BY <1>2, <2>1, NobodyActive DEF Close
  <2>3. TaskInv' /\ (\A s \in Slots : ~Active(s))' /\ TablesInv'
    BY <1>a, <2>1, <2>2 DEF TaskInv, Active, Kind, TablesInv
  <2> QED BY <2>2, <2>3, Quiet
<1>3. CASE Crash
  <2>1. process' = "none" /\ owner' = None /\ UNCHANGED lastId
        /\ tasks' = [s \in Slots |-> Idle] /\ db' = Durable
    BY <1>3 DEF Crash
  <2>2. TaskInv' /\ (\A s \in Slots : ~Active(s))'
    BY <2>1, IsIdle DEF TaskInv, Active, Kind
  <2>3. TablesInv'
    BY <1>a, <2>1 DEF TablesInv, Durable
  <2> QED BY <2>1, <2>2, <2>3, Quiet
<1> QED BY <1>1, <1>2, <1>3

LEMMA KeptByFinish ==
  ASSUME DictionaryInv, NEW s \in Slots, Finish(s)
  PROVE  DictionaryInv'
<1>1. /\ Active(s) /\ tasks[s].at = "done" /\ tasks' = [tasks EXCEPT ![s] = Idle]
      /\ UNCHANGED <<db, owner, begun, lastId>>
      /\ process' = IF process = "command" THEN "none" ELSE process
  BY DEF Finish, Active
<1>2. /\ TaskInv' /\ ~Active(s)' /\ ~Inside(s)' /\ ~Inside(s)
      /\ \A r \in Slots \ {s} : tasks'[r] = tasks[r]
  BY <1>1, IsIdle DEF DictionaryInv, TaskInv, Active, Kind, Inside
<1>3. ASSUME NEW r \in Slots
      PROVE  (Active(r)' => Active(r) /\ tasks'[r] = tasks[r]) /\ (Inside(r)' <=> Inside(r))
  BY <1>2 DEF Active, Inside, Kind
<1>4. OwnerInv'
  BY <1>1, <1>3 DEF DictionaryInv, OwnerInv
<1>5. ProcessInv'
  BY <1>1, <1>2, <1>3 DEF DictionaryInv, ProcessInv, Kind
<1>6. TablesInv'
  BY <1>1 DEF DictionaryInv, TablesInv
<1>7. ASSUME NEW r \in Slots
      PROVE  /\ UpdatesInPlace(r, db) => UpdatesInPlace(r, db)'
             /\ UpdatesInPlace(r, begun) => UpdatesInPlace(r, begun)'
  BY <1>1, <1>3 DEF UpdatesInPlace, Kind, Target
<1>8. ClientInv' /\ CommandInv'
  BY <1>1, <1>7 DEF DictionaryInv, ClientInv, CommandInv, SameEntries
<1> QED BY <1>2, <1>4, <1>5, <1>6, <1>8 DEF DictionaryInv

-----------------------------------------------------------------------------
(* The operation that starts. *)

LEMMA ClientOperation ==
  ASSUME NEW op \in ClientOps
  PROVE  /\ op.kind \in ClientKinds
         /\ op.kind = "updateDescription" =>
              /\ op.description \in DOMAIN db.descriptions
              /\ op.entry = db.descriptions[op.description].entry
BY DEF ClientOps, FolderOps, EntryOps, DescriptionOps, ClientKinds

LEMMA SaveOperation ==
  ASSUME NEW op \in SaveOps
  PROVE  op.kind = "save" /\ op.reviewed \in Nat
<1>1. MaxReviewed \in Nat
  BY BoundsAssumption
<1>2. op.kind = "save" /\ op.reviewed \in {0} \cup 1..MaxReviewed
  BY DEF SaveOps
<1> QED BY <1>1, <1>2

LEMMA CommandOperation ==
  ASSUME NEW op \in CommandOps
  PROVE  op.kind \in Kinds /\ (op.kind \in {"save", "generate"} => op.reviewed \in Nat)
<1>1. MaxReviewed \in Nat
  BY BoundsAssumption
<1>2. CASE op \in ClientOps
  BY <1>2, ClientOperation DEF Kinds, ClientKinds
<1>3. CASE op \in SaveOps
  BY <1>3, SaveOperation DEF Kinds
<1> QED BY <1>1, <1>2, <1>3 DEF CommandOps, Kinds, ClientKinds

LEMMA NewTaskIs ==
  ASSUME NEW op, op.kind \in Kinds, NEW t, t = NewTask(op)
  PROVE  /\ IsTask(t) /\ t.op = op /\ t.sense = None /\ t.outcome = "ok"
         /\ t.at \in {"propose", "find", "begin", "run"}
         /\ op.kind \in Transactions => t.at \in {"propose", "begin"}
         /\ op.kind = "save" => t.at = "begin"
         /\ op.kind = "generate" => t.at = "propose"
         /\ op.kind \in {"updateDescription", "assignToSense"} => t.at = "find"
<1>1. PICK u : u = [Idle EXCEPT !.op = op]
  OBVIOUS
<1>2. PICK step : step = FirstStep(op.kind)
  OBVIOUS
<1>3. IsTask(u) /\ u.op = op /\ u.sense = None /\ u.outcome = "ok"
  BY <1>1, IsIdle DEF IsTask
<1>4. t = [u EXCEPT !.at = step]
  <2>1. t = [Idle EXCEPT !.op = op, !.at = step]
    BY <1>2, Zenon DEF NewTask
  <2> QED BY <1>1, <2>1
<1>5. IsTask(t) /\ t.op = op /\ t.sense = None /\ t.at = step /\ t.outcome = "ok"
  BY <1>3, <1>4, SetsAt
<1>6. /\ step \in {"propose", "find", "begin", "run"}
      /\ op.kind \in Transactions => step \in {"propose", "begin"}
      /\ op.kind = "save" => step = "begin"
      /\ op.kind = "generate" => step = "propose"
      /\ op.kind \in {"updateDescription", "assignToSense"} => step = "find"
  BY <1>2 DEF FirstStep, Transactions, EntryWrites
<1> QED BY <1>5, <1>6

LEMMA KeptByStart ==
  ASSUME DictionaryInv, NEW s \in Slots, Start(s)
  PROVE  DictionaryInv'
<1>a. Related(db) /\ Known(db, lastId) /\ lastId \in Nat /\ TablesInv /\ TaskInv /\ OwnerInv
  BY DEF DictionaryInv, TablesInv
<1>1. UNCHANGED <<process, db, owner, begun, lastId>> /\ tasks[s] = Idle
  BY DEF Start
<1>2. PICK op :
        /\ tasks' = [tasks EXCEPT ![s] = NewTask(op)]
        /\ \/ process = "client" /\ op \in ClientOps
           \/ process = "command" /\ AllIdle /\ op \in CommandOps
  BY DEF Start
<1>3. op.kind \in Kinds /\ (op.kind \in {"save", "generate"} => op.reviewed \in Nat)
  BY <1>2, ClientOperation, CommandOperation DEF Kinds, ClientKinds
<1>4. PICK t : t = NewTask(op)
  OBVIOUS
<1>5. /\ IsTask(t) /\ t.op = op /\ t.sense = None
      /\ t.at \in {"propose", "find", "begin", "run"}
      /\ op.kind \in Transactions => t.at \in {"propose", "begin"}
      /\ op.kind = "save" => t.at = "begin"
      /\ op.kind = "generate" => t.at = "propose"
      /\ op.kind \in {"updateDescription", "assignToSense"} => t.at = "find"
  BY <1>3, <1>4, NewTaskIs
<1>6. tasks'[s] = t /\ DOMAIN tasks' = Slots /\ \A r \in Slots \ {s} : tasks'[r] = tasks[r]
  BY <1>a, <1>2, <1>4 DEF TaskInv
<1>7. ~Active(s) /\ Active(s)' /\ Kind(s)' = op.kind
  BY <1>1, <1>5, <1>6, IsIdle DEF Active, Kind
<1>8. TaskInv'
  BY <1>a, <1>3, <1>5, <1>6 DEF TaskInv, Active, Kind
<1>9. ASSUME NEW r \in Slots
      PROVE  Inside(r)' <=> Inside(r)
  BY <1>5, <1>6, <1>7 DEF Inside, Active, Kind
<1>10. OwnerInv'
  BY <1>1, <1>9 DEF OwnerInv, DictionaryInv
<1>11. process = "command" => \A r \in Slots : ~Active(r)
  <2>1. SUFFICES ASSUME process = "command"
                 PROVE  \A r \in Slots : tasks[r] = Idle
    BY IsIdle DEF Active
  <2> QED BY <1>2, <2>1 DEF AllIdle
<1>12. ASSUME NEW r \in Slots \ {s}
       PROVE  (Active(r)' <=> Active(r)) /\ Kind(r)' = Kind(r)
  BY <1>6 DEF Active, Kind
<1>13. process = "client" => op.kind \in ClientKinds
  BY <1>2, ClientOperation
<1>14. ProcessInv'
  BY <1>1, <1>2, <1>7, <1>11, <1>12, <1>13 DEF DictionaryInv, ProcessInv
<1>15. TablesInv'
  BY <1>a, <1>1 DEF TablesInv
<1>16. ClientInv'
  <2> SUFFICES ASSUME process = "client"
               PROVE  /\ \A r \in Slots : UpdatesInPlace(r, db)'
                      /\ owner # None => /\ SameEntries(begun, db)'
                                         /\ \A r \in Slots : UpdatesInPlace(r, begun)'
    BY <1>1 DEF ClientInv
  <2>1. owner # None => SameEntries(begun, db)
    BY DEF DictionaryInv, ClientInv
  <2>2. ASSUME NEW r \in Slots \ {s}
        PROVE  UpdatesInPlace(r, db)' /\ (owner # None => UpdatesInPlace(r, begun)')
    <3>1. UpdatesInPlace(r, db) /\ (owner # None => UpdatesInPlace(r, begun))
      BY DEF DictionaryInv, ClientInv
    <3> QED BY <1>1, <1>6, <3>1 DEF UpdatesInPlace, Active, Kind, Target
  <2>3. ASSUME op.kind = "updateDescription"
        PROVE  /\ op.description \in DOMAIN db.descriptions
               /\ op.entry = db.descriptions[op.description].entry
    BY <1>2, <2>3, ClientOperation
  <2>4. Target(s)' = op.description /\ tasks'[s].op = op
    BY <1>5, <1>6 DEF Target
  <2>5. op.kind = "updateDescription" => op.description \in 0..lastId
    BY <1>a, <2>3 DEF Known
  <2>6. UpdatesInPlace(s, db)'
    BY <1>1, <1>7, <2>3, <2>4, <2>5 DEF UpdatesInPlace
  <2>7. owner # None => UpdatesInPlace(s, begun)'
    BY <1>1, <1>7, <2>1, <2>3, <2>4, <2>5 DEF UpdatesInPlace, SameEntries
  <2> QED BY <1>1, <2>1, <2>2, <2>6, <2>7 DEF SameEntries
<1>17. ReadInv(s)'
  BY <1>5, <1>6, <1>7 DEF ReadInv
<1>18. CommandInv'
  BY <1>1, <1>11, <1>12, <1>17 DEF CommandInv
<1> QED BY <1>8, <1>10, <1>14, <1>15, <1>16, <1>18 DEF DictionaryInv

-----------------------------------------------------------------------------
(* The theorems. *)

LEMMA DatabaseRelated ==
  ASSUME NEW base, IsDatabase(base), ReferencesHold(base), SensesFit(base)
  PROVE  Related(base)
<1>1. ASSUME NEW d \in DOMAIN base.descriptions
      PROVE  base.descriptions[d] =
               [entry |-> base.descriptions[d].entry, sense |-> base.descriptions[d].sense]
  BY DEF IsDatabase, IsTable, Description
<1> QED BY <1>1 DEF Related, IsRecord, IsDatabase, ReferencesHold

LEMMA NewestIdIs ==
  ASSUME NEW base \in Databases
  PROVE  NewestId(base) \in Nat /\ Known(base, NewestId(base))
<1>1. Ids(base) \subseteq Nat
  BY DatabasesAssumption DEF Ids, IsDatabase, IsTable
<1>2. \E n \in Ids(base) \cup {0} : \A i \in Ids(base) : i <= n
  BY NewestIdAssumption
<1>3. NewestId(base) \in Ids(base) \cup {0} /\ \A i \in Ids(base) : i <= NewestId(base)
  BY <1>2 DEF NewestId
<1> QED BY <1>1, <1>3 DEF Known, Ids

LEMMA Initially ==
  ASSUME Init
  PROVE  DictionaryInv
<1>1. Related(db)
  BY DatabasesAssumption, DatabaseRelated DEF Init
<1>2. lastId \in Nat /\ Known(db, lastId)
  BY NewestIdIs DEF Init
<1>3. TablesInv
  BY <1>1, <1>2 DEF TablesInv, Init
<1>4. TaskInv /\ \A s \in Slots : ~Active(s)
  BY IsIdle DEF TaskInv, Active, Init
<1>5. OwnerInv /\ ProcessInv
  BY <1>4, SlotsAssumption DEF OwnerInv, Inside, ProcessInv, Init
<1>6. ClientInv /\ CommandInv
  BY DEF ClientInv, CommandInv, Init
<1> QED BY <1>3, <1>4, <1>5, <1>6 DEF DictionaryInv

LEMMA DictionaryStep ==
  ASSUME DictionaryInv, [Next]_vars
  PROVE  DictionaryInv'
<1>1. CASE (\E kind \in {"command", "client"} : Open(kind)) \/ Close \/ Crash
  BY <1>1, KeptByProcesses
<1>2. ASSUME NEW s \in Slots, Start(s) \/ Fail(s) \/ Finish(s)
      PROVE  DictionaryInv'
  BY <1>2, KeptByStart, KeptByFailures, KeptByFinish
<1>3. ASSUME NEW s \in Slots, Statement(s)
      PROVE  DictionaryInv'
  BY <1>3, KeptByFolders, KeptByEntries, KeptBySenses, KeptByReviews, KeptByTransactions
     DEF Statement
<1>4. CASE UNCHANGED vars
  BY SMT, ZenonT(60), <1>4 DEF vars, DictionaryInv, TaskInv, OwnerInv, ProcessInv, TablesInv, ClientInv, CommandInv,
              UpdatesInPlace, ReadInv, OfEntry, InSense, Inside, Active, Kind, Target
<1> QED BY <1>1, <1>2, <1>3, <1>4 DEF Next

(* What processes, tasks and transactions know of the tables stays true,   *)
(* whichever operations overlap, fail or are killed.                       *)
THEOREM DictionaryInvariant == Spec => []DictionaryInv
<1>1. Init => DictionaryInv
  BY Initially
<1>2. DictionaryInv /\ [Next]_vars => DictionaryInv'
  BY DictionaryStep
<1> QED BY <1>1, <1>2, PTL DEF Spec

(* A Sense only groups Descriptions of its own Entry, in the tables the    *)
(* processes see and on disk, for any tables and number of operations:     *)
(* DescriptionService and SenseService check before they write, and no     *)
(* operation that a client overlaps with can come in between to spoil it.  *)
THEOREM DescriptionsFit == Spec => []DescriptionsFitSenses
<1>1. DictionaryInv => DescriptionsFitSenses
  BY DEF DictionaryInv, TablesInv, Related, DescriptionsFitSenses, Durable
<1> QED BY <1>1, DictionaryInvariant, PTL

(* withEntryWriteTransaction and the transactions of the repositories end  *)
(* in COMMIT or ROLLBACK on every path: none is open when nothing runs.    *)
THEOREM NothingStaysOpen == Spec => []NothingLeftOpen
<1>1. ASSUME DictionaryInv, AllIdle
      PROVE  owner = None
  <2>1. \A s \in Slots : ~Active(s)
    BY <1>1, IsIdle DEF AllIdle, Active
  <2> QED BY <1>1, <2>1, NobodyActive
<1>2. DictionaryInv => NothingLeftOpen
  BY <1>1 DEF NothingLeftOpen
<1> QED BY <1>2, DictionaryInvariant, PTL

-----------------------------------------------------------------------------
(* Counting: how far the transaction that is open has got from the tables   *)
(* on disk.  An Entry write has inserted its Entry, and then counted it.    *)

Inserted == {"sense", "captured", "reviewed", "activity", "commit"}
NewEntries(s) ==
  IF Kind(s) \in EntryWrites /\ tasks[s].at \in Inserted THEN {tasks[s].entry} ELSE {}
Counted(s) == Kind(s) \in EntryWrites /\ tasks[s].at = "commit"

(* Only a write that is rolled back has failed. *)
OutcomeInv(s) ==
  Active(s) /\ Kind(s) \in EntryWrites /\ tasks[s].at \notin {"rollback", "done"} =>
    tasks[s].outcome = "ok"

Ahead(s) ==
  tasks[s].at # "rollback" =>
    /\ DOMAIN db.entries \subseteq DOMAIN begun.entries \cup NewEntries(s)
    /\ db.activity = IF Counted(s) THEN begun.activity + 1 ELSE begun.activity

CountInv == (\A s \in Slots : OutcomeInv(s)) /\ (owner # None => Ahead(owner))

Leaves(before, after) ==
  DOMAIN after.entries \subseteq DOMAIN before.entries /\ after.activity = before.activity

(* What SaveCounted says of a step. *)
Counts ==
  LET new == DOMAIN Durable'.entries \ DOMAIN Durable.entries IN
  /\ \/ /\ \E s \in Slots : Saved(s) /\ new \subseteq {tasks[s].entry}
        /\ Durable'.activity = Durable.activity + 1
     \/ /\ ~\E s \in Slots : Saved(s)
        /\ new = {} /\ Durable'.activity = Durable.activity

LEMMA CountsNothing ==
  ASSUME \A s \in Slots : ~Saved(s), Leaves(Durable, Durable')
  PROVE  Counts
BY DEF Counts, Leaves

(* A statement of task s that inserts and counts nothing. *)
LEMMA KeepsCount ==
  ASSUME DictionaryInv, CountInv, NEW s \in Slots, Moves(s), UNCHANGED <<owner, begun>>,
         Leaves(db, db') \/ owner = s,
         ~Saved(s),
         Inside(s) => tasks'[s].at = "rollback" \/ Ahead(s)',
         OutcomeInv(s)'
  PROVE  CountInv' /\ Counts
<1>1. ASSUME NEW r \in Slots \ {s}
      PROVE  tasks'[r] = tasks[r] /\ OutcomeInv(r)' /\ ~Saved(r)
  BY <1>1 DEF CountInv, Moves, OutcomeInv, Active, Kind, Saved
<1>3. Counts
  <2>1. CASE owner = None
    <3>1. Leaves(Durable, Durable')
      BY <2>1, SlotsAssumption DEF Durable
    <3> QED BY <1>1, <3>1, CountsNothing
  <2>2. CASE owner # None
    <3>1. Leaves(Durable, Durable')
      BY <2>2 DEF Durable, Leaves
    <3> QED BY <1>1, <3>1, CountsNothing
  <2> QED BY <2>1, <2>2
<1>4. owner # None => Ahead(owner)'
  <2>1. CASE owner = s
    BY <2>1 DEF DictionaryInv, OwnerInv, Ahead
  <2>2. CASE owner # s /\ owner # None
    <3>1. PICK r \in Slots \ {s} : owner = r
      BY <2>2 DEF DictionaryInv, OwnerInv
    <3>2. Ahead(r) /\ tasks'[r] = tasks[r] /\ Leaves(db, db')
      BY <1>1, <2>2, <3>1 DEF CountInv
    <3>3. Ahead(r)'
      BY <3>2 DEF Ahead, Leaves, NewEntries, Counted, Kind
    <3> QED BY <3>1, <3>3
  <2> QED BY <2>1, <2>2
<1> QED BY <1>1, <1>3, <1>4 DEF CountInv

(* A statement of an operation that is no Entry write. *)
LEMMA KeepsCountOfOthers ==
  ASSUME DictionaryInv, CountInv, NEW s \in Slots, Moves(s), UNCHANGED <<owner, begun>>,
         Leaves(db, db'), tasks[s].at \notin {"commit", "rollback"}, Kind(s) \notin EntryWrites
  PROVE  CountInv' /\ Counts
<1>1. Kind(s)' = Kind(s) /\ OutcomeInv(s)'
  BY DEF Moves, Kind, OutcomeInv
<1>2. Inside(s) => Ahead(s)
  BY SlotsAssumption DEF DictionaryInv, OwnerInv, CountInv
<1>3. Inside(s) => Ahead(s)'
  BY <1>1, <1>2 DEF Ahead, NewEntries, Counted, Leaves
<1>4. ~Saved(s)
  BY DEF Saved
<1> QED BY <1>1, <1>3, <1>4, KeepsCount

SetsRows(base, after, x) ==
  \/ after = base \/ after = [base EXCEPT !.folders = x]
  \/ after = [base EXCEPT !.senses = x] \/ after = [base EXCEPT !.descriptions = x]
  \/ after = [base EXCEPT !.entries = x] /\ DOMAIN x \subseteq DOMAIN base.entries

LEMMA LeavesRows ==
  ASSUME NEW base, IsRecord(base), NEW x, NEW after, SetsRows(base, after, x)
  PROVE  Leaves(base, after)
<1>1. after.entries = base.entries \/ DOMAIN after.entries \subseteq DOMAIN base.entries
  BY DEF IsRecord, SetsRows
<1>2. after.activity = base.activity
  BY DEF IsRecord, SetsRows
<1> QED BY <1>1, <1>2 DEF Leaves

LEMMA SensesLeave ==
  ASSUME NEW base, Related(base), NEW ids
  PROVE  Leaves(base, WithoutSenses(base, ids)) /\ Related(WithoutSenses(base, ids))
<1> DEFINE table == [d \in DOMAIN base.descriptions |->
                       IF base.descriptions[d].sense \in ids
                       THEN [base.descriptions[d] EXCEPT !.sense = None]
                       ELSE base.descriptions[d]]
<1>1. PICK senses, rows : senses = Drop(base.senses, ids) /\ rows = table
  OBVIOUS
<1>2. WithoutSenses(base, ids) = [base EXCEPT !.senses = senses, !.descriptions = rows]
  <2>1. WithoutSenses(base, ids)
          = [base EXCEPT !.senses = Drop(base.senses, ids), !.descriptions = table]
    BY Zenon DEF WithoutSenses
  <2> QED BY <1>1, <2>1
<1>3. Leaves(base, WithoutSenses(base, ids))
  BY <1>2 DEF Related, IsRecord, Leaves
<1>4. Related(WithoutSenses(base, ids))
  BY DropsSenses DEF Follows
<1> QED BY <1>3, <1>4

LEMMA EntriesLeave ==
  ASSUME NEW base, Related(base), NEW ids
  PROVE  Leaves(base, WithoutEntries(base, ids)) /\ Related(WithoutEntries(base, ids))
<1>1. PICK rest :
        /\ rest = WithoutSenses(base, {s \in DOMAIN base.senses : base.senses[s].entry \in ids})
        /\ Leaves(base, rest) /\ Related(rest)
  <2>1. PICK senses : senses = {s \in DOMAIN base.senses : base.senses[s].entry \in ids}
    OBVIOUS
  <2>2. Leaves(base, WithoutSenses(base, senses)) /\ Related(WithoutSenses(base, senses))
    BY SensesLeave
  <2> QED BY <2>1, <2>2
<1>2. PICK entries, rows : /\ entries = Drop(rest.entries, ids)
                           /\ rows = Drop(rest.descriptions,
                                {d \in DOMAIN rest.descriptions : rest.descriptions[d].entry \in ids})
  OBVIOUS
<1>3. WithoutEntries(base, ids) = [rest EXCEPT !.entries = entries, !.descriptions = rows]
  <2>1. WithoutEntries(base, ids)
          = [rest EXCEPT
               !.entries = Drop(rest.entries, ids),
               !.descriptions = Drop(rest.descriptions,
                 {d \in DOMAIN rest.descriptions : rest.descriptions[d].entry \in ids})]
    BY <1>1, Zenon DEF WithoutEntries
  <2> QED BY <1>2, <2>1
<1>4. PICK after : after = [rest EXCEPT !.entries = entries, !.descriptions = rows]
  OBVIOUS
<1>5. after.entries = entries /\ after.activity = rest.activity
  BY <1>1, <1>4 DEF Related, IsRecord
<1>6. DOMAIN entries \subseteq DOMAIN rest.entries
  BY <1>2 DEF Drop
<1>7. Leaves(base, after)
  BY <1>1, <1>5, <1>6 DEF Leaves
<1>8. Related(WithoutEntries(base, ids))
  BY DropsEntries DEF Follows
<1> QED BY <1>3, <1>4, <1>7, <1>8

LEMMA FoldersLeave ==
  ASSUME NEW base, Related(base), NEW ids
  PROVE  Leaves(base, WithoutFolders(base, ids))
<1>1. PICK rest : rest = WithoutEntries(base, EntriesIn(base, ids))
                  /\ Leaves(base, rest) /\ Related(rest)
  BY EntriesLeave
<1>2. PICK folders : folders = Drop(rest.folders, ids)
  OBVIOUS
<1>3. WithoutFolders(base, ids) = [rest EXCEPT !.folders = folders]
  BY <1>1, <1>2 DEF WithoutFolders
<1>a. SetsRows(rest, WithoutFolders(base, ids), folders)
  BY <1>3 DEF SetsRows
<1>4. Leaves(rest, WithoutFolders(base, ids))
  BY <1>1, <1>a, LeavesRows DEF Related
<1> QED BY <1>1, <1>4 DEF Leaves

(* Where a statement of an operation that is no Entry write happens. *)
Elsewhere(s) ==
  /\ tasks[s].at \notin {"commit", "rollback"} /\ Kind(s) \notin EntryWrites
  /\ UNCHANGED <<owner, begun>>

LEMMA AtElsewhere ==
  ASSUME NEW s, NEW step, step \notin {"idle", "commit", "rollback"}, NEW kinds,
         kinds \cap EntryWrites = {}, At(s, step, kinds), NoTransaction
  PROVE  Elsewhere(s)
BY IsAt DEF Elsewhere, NoTransaction

LEMMA FoldersElsewhere ==
  ASSUME DictionaryInv, NEW s \in Slots, FolderStatement(s)
  PROVE  Elsewhere(s) /\ Leaves(db, db')
<1>a. Related(db) /\ IsRecord(db)
  BY DEF DictionaryInv, TablesInv, Related
<1>b. Leaves(db, db)
  BY DEF Leaves
<1> USE DEF EntryWrites
<1>1. CASE CreateFolder(s)
  <2>1. Elsewhere(s)
    BY <1>1, AtElsewhere DEF CreateFolder
  <2>2. PICK folders : WithFolder(db, tasks[s].op.parent, tasks[s].op.name)
                         = [db EXCEPT !.folders = folders]
    BY DEF WithFolder
  <2>3. SetsRows(db, db', folders)
    BY <1>1, <2>2 DEF CreateFolder, Writes, Refused, SetsRows
  <2> QED BY <1>a, <2>1, <2>3, LeavesRows
<1>2. CASE FindExistingFolder(s) \/ SelectFolder(s) \/ SelectChildren(s)
  <2>1. Elsewhere(s)
    BY <1>2, AtElsewhere DEF FindExistingFolder, SelectFolder, SelectChildren
  <2>2. db' = db
    BY <1>2 DEF FindExistingFolder, SelectFolder, SelectChildren, Writes, Refused
  <2> QED BY <1>b, <2>1, <2>2
<1>3. CASE RenameFolder(s)
  <2>1. Elsewhere(s)
    BY <1>3, AtElsewhere DEF RenameFolder
  <2>2. PICK folders : folders = [db.folders EXCEPT ![tasks[s].op.folder].name = tasks[s].op.name]
    OBVIOUS
  <2>3. SetsRows(db, db', folders)
    BY <1>3, <2>2 DEF RenameFolder, Writes, Refused, SetsRows
  <2> QED BY <1>a, <2>1, <2>3, LeavesRows
<1>4. CASE DropFolder(s)
  <2>1. Elsewhere(s)
    BY <1>4, AtElsewhere DEF DropFolder
  <2>2. db' = db \/ db' = WithoutFolders(db, {Head(tasks[s].doomed)})
    BY <1>4 DEF DropFolder
  <2> QED BY <1>a, <1>b, <2>1, <2>2, FoldersLeave
<1> QED BY <1>1, <1>2, <1>3, <1>4 DEF FolderStatement

LEMMA EntriesElsewhere ==
  ASSUME DictionaryInv, NEW s \in Slots, UpdateEntry(s) \/ DeleteEntry(s)
  PROVE  Elsewhere(s) /\ Leaves(db, db')
<1>a. Related(db) /\ IsRecord(db)
  BY DEF DictionaryInv, TablesInv, Related
<1>b. Leaves(db, db)
  BY DEF Leaves
<1>c. Elsewhere(s)
  BY AtElsewhere DEF UpdateEntry, DeleteEntry, EntryWrites
<1>1. CASE UpdateEntry(s)
  <2>1. PICK entries : entries = [db.entries EXCEPT ![tasks[s].op.entry].text = tasks[s].op.text]
    OBVIOUS
  <2>2. DOMAIN entries = DOMAIN db.entries
    BY <2>1
  <2>3. SetsRows(db, db', entries)
    BY <1>1, <2>1, <2>2 DEF UpdateEntry, Writes, Refused, SetsRows
  <2> QED BY <1>a, <1>c, <2>3, LeavesRows
<1>2. CASE DeleteEntry(s)
  <2>1. db' = db \/ db' = WithoutEntries(db, {tasks[s].op.entry})
    BY <1>2 DEF DeleteEntry, Writes, Refused
  <2> QED BY <1>a, <1>b, <1>c, <2>1, EntriesLeave
<1> QED BY <1>1, <1>2

LEMMA SensesElsewhere ==
  ASSUME DictionaryInv, NEW s \in Slots, SenseStatement(s)
  PROVE  Elsewhere(s) /\ Leaves(db, db')
<1>a. Related(db) /\ IsRecord(db)
  BY DEF DictionaryInv, TablesInv, Related
<1>b. Leaves(db, db)
  BY DEF Leaves
<1> USE DEF EntryWrites
<1>1. CASE CreateDescription(s)
  <2>1. Elsewhere(s)
    BY <1>1, AtElsewhere DEF CreateDescription
  <2>2. PICK rows : WithDescription(db, lastId', tasks[s].op.entry, None)
                      = [db EXCEPT !.descriptions = rows]
    BY DEF WithDescription
  <2>3. SetsRows(db, db', rows)
    BY <1>1, <2>2 DEF CreateDescription, Writes, Refused, SetsRows
  <2> QED BY <1>a, <2>1, <2>3, LeavesRows
<1>2. CASE DeleteDescription(s) \/ CascadeToDescriptions(s)
  <2>1. Elsewhere(s)
    BY <1>2, AtElsewhere DEF DeleteDescription, CascadeToDescriptions
  <2>2. PICK ids : db' = db \/ db' = [db EXCEPT !.descriptions = Drop(db.descriptions, ids)]
    BY <1>2 DEF DeleteDescription, CascadeToDescriptions, Writes, Refused
  <2>3. SetsRows(db, db', Drop(db.descriptions, ids))
    BY <2>2 DEF SetsRows
  <2> QED BY <1>a, <2>1, <2>3, LeavesRows
<1>3. CASE FindDescription(s) \/ FindSense(s) \/ SelectSense(s)
  <2>1. Elsewhere(s)
    BY <1>3, AtElsewhere DEF FindDescription, FindSense, SelectSense
  <2>2. db' = db
    BY <1>3 DEF FindDescription, FindSense, SelectSense
  <2> QED BY <1>b, <2>1, <2>2
<1>4. CASE UpdateDescription(s)
  <2>1. Elsewhere(s)
    BY <1>4, AtElsewhere DEF UpdateDescription
  <2>2. PICK rows : rows = [db.descriptions EXCEPT ![tasks[s].op.description].entry = tasks[s].op.entry]
    OBVIOUS
  <2>3. SetsRows(db, db', rows)
    BY <1>4, <2>2 DEF UpdateDescription, Writes, Refused, SetsRows
  <2> QED BY <1>a, <2>1, <2>3, LeavesRows
<1>5. CASE AssignSense(s)
  <2>1. Elsewhere(s)
    BY <1>5, AtElsewhere DEF AssignSense
  <2>2. PICK sense : sense = IF Kind(s) = "assignToSense" THEN tasks[s].op.sense ELSE None
    OBVIOUS
  <2>3. PICK rows : rows = [db.descriptions EXCEPT ![tasks[s].op.description].sense = sense]
    OBVIOUS
  <2>4. SetsRows(db, db', rows)
    BY <1>5, <2>2, <2>3 DEF AssignSense, Writes, Refused, Kind, SetsRows
  <2> QED BY <1>a, <2>1, <2>4, LeavesRows
<1>6. CASE CreateSense(s)
  <2>1. Elsewhere(s)
    BY <1>6, AtElsewhere DEF CreateSense
  <2>2. PICK rows : WithSense(db, lastId', tasks[s].op.entry) = [db EXCEPT !.senses = rows]
    BY DEF WithSense
  <2>3. SetsRows(db, db', rows)
    BY <1>6, <2>2 DEF CreateSense, Writes, Refused, SetsRows
  <2> QED BY <1>a, <2>1, <2>3, LeavesRows
<1>7. CASE DeleteSense(s)
  <2>1. Elsewhere(s)
    BY <1>7, AtElsewhere DEF DeleteSense
  <2>2. db' = WithoutSenses(db, {tasks[s].op.sense})
    BY <1>7 DEF DeleteSense
  <2> QED BY <1>a, <2>1, <2>2, SensesLeave
<1> QED BY <1>1, <1>2, <1>3, <1>4, <1>5, <1>6, <1>7 DEF SenseStatement

LEMMA GenerationElsewhere ==
  ASSUME DictionaryInv, NEW s \in Slots, Propose(s) \/ SelectSource(s) \/ AssignSource(s)
  PROVE  Elsewhere(s) /\ Leaves(db, db')
<1>a. IsRecord(db)
  BY DEF DictionaryInv, TablesInv, Related
<1>b. Leaves(db, db)
  BY DEF Leaves
<1>1. Elsewhere(s)
  BY AtElsewhere DEF Propose, SelectSource, AssignSource, EntryWrites
<1>2. PICK rows : rows = [db.descriptions EXCEPT ![tasks[s].op.description].sense = tasks[s].sense]
  OBVIOUS
<1>3. SetsRows(db, db', rows)
  BY <1>2 DEF Propose, SelectSource, AssignSource, SetsRows
<1> QED BY <1>a, <1>1, <1>3, LeavesRows

(* A statement of a reviewed Save or of a generation that inserts no Entry. *)
LEMMA ReviewedLeaves ==
  ASSUME DictionaryInv, NEW s \in Slots,
         SelectRoot(s) \/ InsertSense(s) \/ InsertCaptured(s) \/ InsertReviewed(s)
  PROVE  Leaves(db, db')
<1>a. IsRecord(db)
  BY DEF DictionaryInv, TablesInv, Related
<1>b. Leaves(db, db)
  BY DEF Leaves
<1>1. CASE SelectRoot(s)
  BY <1>b, <1>1 DEF SelectRoot
<1>2. CASE InsertSense(s)
  <2>1. PICK rows : SetsRows(db, db', rows)
    BY <1>2 DEF InsertSense, WithSense, SetsRows
  <2> QED BY <1>a, <2>1, LeavesRows
<1>3. CASE InsertCaptured(s)
  <2>1. PICK rows : SetsRows(db, db', rows)
    BY <1>3 DEF InsertCaptured, WithDescription, SetsRows
  <2> QED BY <1>a, <2>1, LeavesRows
<1>4. CASE InsertReviewed(s)
  <2>1. PICK rows : SetsRows(db, db', rows)
    BY <1>4 DEF InsertReviewed, WithDescriptions, SetsRows
  <2> QED BY <1>a, <2>1, LeavesRows
<1> QED BY <1>1, <1>2, <1>3, <1>4

(* A statement of an Entry write. *)
LEMMA WriteKeepsCount ==
  ASSUME DictionaryInv, CountInv, NEW s \in Slots, Moves(s), UNCHANGED <<owner, begun>>,
         Kind(s) \in EntryWrites, tasks[s].at \notin {"propose", "begin", "commit", "rollback", "done"},
         \/ tasks'[s].at = "rollback"
         \/ tasks'[s].outcome = tasks[s].outcome /\ (Ahead(s) => Ahead(s)')
  PROVE  CountInv' /\ Counts
<1>1. Active(s) /\ ~Saved(s)
  BY DEF Moves, Saved
<1>2. Inside(s)
  BY <1>1 DEF Inside, Transactions
<1>3. owner = s /\ owner # None /\ Ahead(s) /\ tasks[s].outcome = "ok"
  BY <1>1, <1>2, SlotsAssumption DEF DictionaryInv, OwnerInv, CountInv, OutcomeInv
<1>4. OutcomeInv(s)'
  BY <1>3 DEF OutcomeInv
<1> QED BY <1>1, <1>3, <1>4, KeepsCount

LEMMA AbortedWrite ==
  ASSUME TaskInv, NEW s \in Slots, Active(s), Kind(s) \in EntryWrites, Aborts(s)
  PROVE  tasks'[s].at = "rollback"
<1>1. tasks' = [tasks EXCEPT ![s].at = "rollback", ![s].outcome = "error"]
  BY DEF Aborts, Kind
<1> QED BY <1>1, Ends

LEMMA InsertsCount ==
  ASSUME DictionaryInv, CountInv, NEW s \in Slots, InsertEntry(s) \/ ReuseEntry(s)
  PROVE  CountInv' /\ Counts
<1>a. TaskInv /\ IsRecord(db) /\ Moves(s)
  BY KeptByEntryWrites DEF DictionaryInv, TablesInv, Related
<1> USE DEF NoTransaction
<1>1. At(s, "insert", {"createEntry", "save"}) \/ At(s, "existing", {"createEntry", "save"})
  BY DEF InsertEntry, ReuseEntry
<1>2. UNCHANGED <<owner, begun>>
  BY DEF InsertEntry, ReuseEntry
<1>3. Active(s) /\ Kind(s) \in EntryWrites /\ tasks[s].at \in {"insert", "existing"}
  BY <1>1, IsAt DEF EntryWrites
<1>b. Kind(s)' = Kind(s)
  BY <1>a DEF Moves, Kind
<1>4. CASE Aborts(s)
  BY <1>a, <1>2, <1>3, <1>4, AbortedWrite, WriteKeepsCount
<1>5. CASE GoTo(s, "existing") /\ UNCHANGED db
  <2>1. tasks'[s].at = "existing" /\ tasks'[s].outcome = tasks[s].outcome
    BY <1>a, <1>3, <1>5, GoesTo
  <2>2. Ahead(s) => Ahead(s)'
    BY <1>2, <1>3, <1>5, <2>1 DEF Ahead, NewEntries, Counted, Inserted
  <2> QED BY <1>a, <1>2, <1>3, <2>1, <2>2, WriteKeepsCount
<1>6. ASSUME NEW entry, DOMAIN db'.entries \subseteq DOMAIN db.entries \cup {entry},
             db'.activity = db.activity,
             tasks' = [tasks EXCEPT ![s].entry = entry, ![s].at = AfterEntry(tasks[s].op)]
      PROVE  CountInv' /\ Counts
  <2>1. PICK step \in {"activity", "sense", "captured"} : step = AfterEntry(tasks[s].op)
    BY DEF AfterEntry
  <2>2. Reads(s, step, entry)
    BY <1>6, <2>1 DEF Reads
  <2>3. tasks'[s].at = step /\ tasks'[s].entry = entry /\ tasks'[s].outcome = tasks[s].outcome
    BY <1>a, <1>3, <2>2, TakesEntry
  <2>4. Ahead(s) => Ahead(s)'
    BY <1>2, <1>3, <1>b, <1>6, <2>3 DEF Ahead, NewEntries, Counted, Inserted
  <2> QED BY <1>a, <1>2, <1>3, <2>3, <2>4, WriteKeepsCount
<1>7. CASE InsertEntry(s)
  <2>1. PICK entry : entry = EntryIdFor(tasks[s].op.text, FolderOf(tasks[s].op))
    OBVIOUS
  <2>2. CASE /\ entry \notin DOMAIN db.entries
             /\ db' = WithEntry(db, tasks[s].op.text, FolderOf(tasks[s].op))
             /\ tasks' = [tasks EXCEPT ![s].entry = entry, ![s].at = AfterEntry(tasks[s].op)]
    <3>1. PICK entries : entries = Put(db.entries, entry,
                           [text |-> tasks[s].op.text, folder |-> FolderOf(tasks[s].op)])
      OBVIOUS
    <3>2. db' = [db EXCEPT !.entries = entries]
      BY <2>1, <2>2, <3>1 DEF WithEntry
    <3>3. db'.entries = entries /\ db'.activity = db.activity
      BY <1>a, <3>2 DEF IsRecord
    <3>4. DOMAIN entries = DOMAIN db.entries \cup {entry}
      BY <3>1 DEF Put
    <3> QED BY <1>6, <2>2, <3>3, <3>4
  <2> QED BY <1>4, <1>5, <1>7, <2>1, <2>2 DEF InsertEntry
<1>8. CASE ReuseEntry(s)
  <2>1. UNCHANGED db
    BY <1>8 DEF ReuseEntry
  <2> QED BY <1>4, <1>6, <1>8, <2>1 DEF ReuseEntry
<1> QED BY <1>7, <1>8

LEMMA ActivityCounts ==
  ASSUME DictionaryInv, CountInv, NEW s \in Slots, IncrementActivity(s)
  PROVE  CountInv' /\ Counts
<1>a. TaskInv /\ IsRecord(db) /\ Moves(s)
  BY KeptByEntries DEF DictionaryInv, TablesInv, Related, EntryStatement
<1>1. Active(s) /\ Kind(s) \in EntryWrites /\ tasks[s].at = "activity"
      /\ UNCHANGED <<owner, begun>>
  BY IsAt DEF IncrementActivity, EntryWrites, NoTransaction
<1>2. tasks'[s].at = "commit" /\ tasks'[s].outcome = tasks[s].outcome
      /\ tasks'[s].entry = tasks[s].entry /\ Kind(s)' = Kind(s)
  BY <1>a, <1>1, GoesTo DEF IncrementActivity, Moves, Kind
<1>3. db'.entries = db.entries /\ db'.activity = db.activity + 1
  BY <1>a DEF IncrementActivity, WithActivity, IsRecord
<1>4. Ahead(s) => Ahead(s)'
  BY <1>1, <1>2, <1>3 DEF Ahead, NewEntries, Counted, Inserted
<1> QED BY <1>a, <1>1, <1>2, <1>4, WriteKeepsCount

(* The other statements of a reviewed Save, and those of a generation.      *)
LEMMA ReviewsCount ==
  ASSUME DictionaryInv, CountInv, NEW s \in Slots, ReviewedStatement(s)
  PROVE  CountInv' /\ Counts
<1>a. TaskInv /\ Moves(s)
  BY KeptByReviews DEF DictionaryInv
<1>1. CASE Propose(s) \/ SelectSource(s) \/ AssignSource(s)
  BY <1>a, <1>1, GenerationElsewhere, KeepsCountOfOthers DEF Elsewhere
<1>2. CASE SelectRoot(s) \/ InsertSense(s) \/ InsertCaptured(s) \/ InsertReviewed(s)
  <2>1. UNCHANGED <<owner, begun>> /\ Leaves(db, db')
    BY <1>2, ReviewedLeaves DEF SelectRoot, InsertSense, InsertCaptured, InsertReviewed, NoTransaction
  <2>2. Active(s) /\ Kind(s) \in {"save", "generate"}
        /\ tasks[s].at \in {"root", "sense", "captured", "reviewed"}
    BY <1>2, IsAt DEF SelectRoot, InsertSense, InsertCaptured, InsertReviewed
  <2>3. CASE Kind(s) = "generate"
    BY <1>a, <2>1, <2>2, <2>3, KeepsCountOfOthers DEF EntryWrites
  <2>4. CASE Kind(s) = "save"
    <3>1. Kind(s) \in EntryWrites /\ Kind(s)' = Kind(s)
      BY <1>a, <2>4 DEF EntryWrites, Moves, Kind
    <3>2. CASE Aborts(s)
      BY <1>a, <2>1, <2>2, <3>1, <3>2, AbortedWrite, WriteKeepsCount
    <3>3. ASSUME tasks'[s].outcome = tasks[s].outcome, tasks'[s].entry = tasks[s].entry,
                 \/ tasks[s].at = "root" /\ tasks'[s].at = "insert"
                 \/ tasks[s].at # "root" /\ tasks'[s].at \in {"captured", "reviewed", "activity"}
          PROVE  CountInv' /\ Counts
      <4>1. Ahead(s) => Ahead(s)'
        BY <2>1, <2>2, <3>1, <3>3 DEF Ahead, NewEntries, Counted, Inserted, Leaves
      <4> QED BY <1>a, <2>1, <2>2, <3>1, <3>3, <4>1, WriteKeepsCount
    <3>4. ASSUME NEW step \in {"insert", "captured", "reviewed", "activity"}, GoTo(s, step),
                 tasks[s].at = "root" <=> step = "insert"
          PROVE  CountInv' /\ Counts
      <4>1. /\ tasks'[s].at = step /\ tasks'[s].entry = tasks[s].entry
            /\ tasks'[s].outcome = tasks[s].outcome
        BY <1>a, <2>2, <3>4, GoesTo
      <4> QED BY <3>3, <3>4, <4>1
    <3>5. CASE SelectRoot(s)
      <4>1. tasks[s].at = "root"
        BY <3>5, IsAt DEF SelectRoot
      <4> QED BY <3>2, <3>4, <3>5, <4>1 DEF SelectRoot
    <3>6. CASE InsertSense(s)
      <4>1. tasks[s].at = "sense"
        BY <3>6, IsAt DEF InsertSense
      <4>2. PICK step \in {"captured", "reviewed"} : step = AfterSense(tasks[s].op)
        BY <2>4 DEF AfterSense, Kind
      <4>3. TakesNew(s, step)
        BY <3>6, <4>2 DEF InsertSense, TakesNew
      <4>4. /\ tasks'[s].at = step /\ tasks'[s].entry = tasks[s].entry
            /\ tasks'[s].outcome = tasks[s].outcome
        BY <1>a, <2>2, <4>3, TakesSense
      <4> QED BY <3>3, <4>1, <4>4
    <3>7. CASE InsertCaptured(s)
      <4>1. tasks[s].at = "captured"
        BY <3>7, IsAt DEF InsertCaptured
      <4> QED BY <3>4, <3>7, <4>1 DEF InsertCaptured
    <3>8. CASE InsertReviewed(s)
      <4>1. tasks[s].at = "reviewed" /\ GoTo(s, "activity")
        BY <2>4, <3>8, IsAt DEF InsertReviewed, Kind
      <4> QED BY <3>4, <4>1
    <3> QED BY <1>2, <3>5, <3>6, <3>7, <3>8
  <2> QED BY <2>2, <2>3, <2>4
<1> QED BY <1>1, <1>2 DEF ReviewedStatement

LEMMA TransactionsCount ==
  ASSUME DictionaryInv, CountInv, NEW s \in Slots, TransactionStatement(s)
  PROVE  CountInv' /\ Counts
<1>a. TaskInv /\ OwnerInv /\ Moves(s) /\ Kind(s)' = Kind(s)
  BY KeptByTransactions DEF DictionaryInv, Moves, Kind
<1>b. ASSUME NEW r \in Slots \ {s}
      PROVE  tasks'[r] = tasks[r] /\ OutcomeInv(r)' /\ ~Saved(r)
  BY <1>a, <1>b DEF CountInv, Moves, OutcomeInv, Active, Kind, Saved
<1>1. CASE Begin(s)
  <2>1. Active(s) /\ tasks[s].at = "begin" /\ UNCHANGED db
    BY <1>1, IsAt DEF Begin
  <2>2. ~Saved(s)
    BY <2>1 DEF Saved
  <2>3. CASE NoTransaction /\ NotBegun(s)
    <3>1. tasks'[s].at = "done"
      BY <1>a, <2>1, <2>3, Answers DEF NotBegun
    <3>2. Leaves(db, db') /\ ~Inside(s) /\ OutcomeInv(s)'
      BY <2>1, <3>1 DEF Leaves, Inside, OutcomeInv
    <3> QED BY <1>a, <2>2, <2>3, <3>2, KeepsCount DEF NoTransaction
  <2>4. CASE owner = None /\ owner' = s /\ begun' = db /\ GoTo(s, AfterBegin(Kind(s)))
    <3>1. PICK step \in {"insert", "root", "select"} : step = AfterBegin(Kind(s))
      BY DEF AfterBegin
    <3>2. tasks'[s].at = step /\ tasks'[s].outcome = tasks[s].outcome
      BY <1>a, <2>1, <2>4, <3>1, GoesTo
    <3>3. OutcomeInv(s)'
      BY <1>a, <2>1, <3>2 DEF CountInv, OutcomeInv
    <3>4. Ahead(s)'
      BY <2>1, <2>4, <3>1, <3>2 DEF Ahead, NewEntries, Counted, Inserted
    <3>5. Leaves(Durable, Durable')
      BY <2>4, SlotsAssumption DEF Durable, Leaves
    <3>6. Counts
      BY <1>b, <2>2, <3>5, CountsNothing
    <3> QED BY <1>b, <2>4, <3>3, <3>4, <3>6 DEF CountInv
  <2> QED BY <1>1, <2>3, <2>4 DEF Begin, Kind
<1>2. CASE Commit(s) \/ Rollback(s)
  <2>1. At(s, "commit", Transactions) \/ At(s, "rollback", Transactions)
    BY <1>2 DEF Commit, Rollback
  <2>2. Active(s) /\ Kind(s) \in Transactions /\ tasks[s].at \in {"commit", "rollback"}
    BY <2>1, IsAt
  <2>3. owner' = None /\ Answer(s, tasks[s].outcome)
    BY <1>2 DEF Commit, Rollback
  <2>4. tasks'[s].at = "done" /\ tasks'[s].outcome = tasks[s].outcome
    BY <1>a, <2>2, <2>3, Answers
  <2>5. owner = s /\ owner # None /\ Ahead(s)
    BY <1>a, <2>2, SlotsAssumption DEF OwnerInv, Inside, CountInv
  <2>6. CountInv'
    BY <1>b, <2>3, <2>4 DEF CountInv, OutcomeInv
  <2>7. Durable = begun /\ Durable' = db'
    BY <2>3, <2>5 DEF Durable
  <2>8. CASE Rollback(s)
    <3>1. db' = begun /\ ~Saved(s)
      BY <2>8, IsAt DEF Rollback, Saved
    <3> QED BY <1>b, <2>6, <2>7, <3>1, CountsNothing DEF Leaves
  <2>9. CASE Commit(s)
    <3>1. db' = db /\ tasks[s].at = "commit"
      BY <2>9, IsAt DEF Commit
    <3>2. CASE Kind(s) \in EntryWrites
      <4>1. Saved(s)
        BY <2>2, <2>4, <3>1, <3>2 DEF Saved, CountInv, OutcomeInv, Kind
      <4>2. /\ DOMAIN db.entries \ DOMAIN begun.entries \subseteq {tasks[s].entry}
            /\ db.activity = begun.activity + 1
        BY <2>5, <3>1, <3>2 DEF Ahead, NewEntries, Counted, Inserted
      <4> QED BY <2>6, <2>7, <3>1, <4>1, <4>2 DEF Counts
    <3>3. CASE Kind(s) \notin EntryWrites
      <4>1. ~Saved(s)
        BY <3>3 DEF Saved, Kind
      <4>2. Leaves(begun, db)
        BY <2>5, <3>1, <3>3 DEF Ahead, NewEntries, Counted, Leaves
      <4> QED BY <1>b, <2>6, <2>7, <3>1, <4>1, <4>2, CountsNothing
    <3> QED BY <3>2, <3>3
  <2> QED BY <1>2, <2>8, <2>9
<1> QED BY <1>1, <1>2 DEF TransactionStatement

LEMMA FailuresCount ==
  ASSUME DictionaryInv, CountInv, NEW s \in Slots, Fail(s)
  PROVE  CountInv' /\ Counts
<1>a. TaskInv /\ Moves(s) /\ Kind(s)' = Kind(s) /\ (Inside(s) => Ahead(s))
  BY KeptByFailures, SlotsAssumption DEF DictionaryInv, Moves, Kind, OwnerInv, CountInv
<1>b. Active(s) /\ UNCHANGED <<db, owner, begun>> /\ Leaves(db, db')
      /\ tasks[s].at \notin {"rollback", "done"}
  BY DEF Fail, Active, Leaves
<1>1. ASSUME tasks'[s].at \in {"done", "commit", "rollback"},
             Kind(s) \in EntryWrites => tasks'[s].at # "commit",
             Inside(s) => tasks'[s].at # "done"
      PROVE  CountInv' /\ Counts
  <2>1. ~Saved(s) /\ OutcomeInv(s)'
    BY <1>a, <1>b, <1>1 DEF Saved, OutcomeInv, Inside, Transactions, Kind
  <2>2. Inside(s) => tasks'[s].at = "rollback" \/ Ahead(s)'
    BY <1>a, <1>b, <1>1 DEF Ahead, NewEntries, Counted
  <2> QED BY <1>a, <1>b, <2>1, <2>2, KeepsCount
<1>2. CASE tasks[s].at = "begin" /\ NotBegun(s)
  BY <1>a, <1>b, <1>1, <1>2, Answers DEF NotBegun, Inside
<1>3. CASE Kind(s) \notin Transactions /\ Answer(s, "error")
  BY <1>a, <1>b, <1>1, <1>3, Answers DEF Inside
<1>4. ASSUME NEW step \in {"commit", "rollback"}, NEW outcome,
             tasks' = [tasks EXCEPT ![s].at = step, ![s].outcome = outcome],
             Kind(s) \in EntryWrites => step = "rollback"
      PROVE  CountInv' /\ Counts
  <2>1. tasks'[s].at = step
    BY <1>a, <1>b, <1>4, Ends
  <2> QED BY <1>1, <1>4, <2>1
<1>5. CASE /\ tasks[s].at = "commit"
           /\ tasks' = [tasks EXCEPT ![s].at = "rollback",
                ![s].outcome = IF Kind(s) = "deleteFolder" THEN "thrown" ELSE "error"]
  BY <1>4, <1>5
<1>6. CASE tasks' = [tasks EXCEPT
                ![s].at = IF Kind(s) = "deleteFolder" THEN "commit" ELSE "rollback",
                ![s].outcome = "error"]
  BY <1>4, <1>6 DEF EntryWrites
<1> QED BY <1>2, <1>3, <1>5, <1>6 DEF Fail, Kind

LEMMA ProcessesCount ==
  ASSUME DictionaryInv, CountInv, (\E kind \in {"command", "client"} : Open(kind)) \/ Close \/ Crash
  PROVE  CountInv' /\ Counts
<1>a. IsRecord(db)
  BY DEF DictionaryInv, TablesInv, Related
<1>1. ASSUME NEW kind \in {"command", "client"}, Open(kind)
      PROVE  CountInv' /\ Counts
  <2>1. owner = None /\ UNCHANGED <<owner, tasks>>
    BY <1>1, NobodyActive DEF Open, DictionaryInv, ProcessInv
  <2>2. PICK folders : WithRoot(db) = db \/ WithRoot(db) = [db EXCEPT !.folders = folders]
    BY DEF WithRoot
  <2>3. SetsRows(db, db', folders)
    BY <1>1, <2>2 DEF Open, SetsRows
  <2>4. Leaves(Durable, Durable')
    BY <1>a, <2>1, <2>3, LeavesRows DEF Durable
  <2>5. CountInv' /\ \A s \in Slots : ~Saved(s)
    BY <2>1 DEF CountInv, OutcomeInv, Active, Kind, Saved
  <2> QED BY <2>4, <2>5, CountsNothing
<1>2. CASE Close
  <2>1. UNCHANGED <<db, owner, begun, tasks>>
    BY <1>2 DEF Close
  <2>2. CountInv' /\ \A s \in Slots : ~Saved(s)
    BY <2>1 DEF CountInv, OutcomeInv, Ahead, NewEntries, Counted, Active, Kind, Saved
  <2> QED BY <2>1, <2>2, CountsNothing DEF Durable, Leaves
<1>3. CASE Crash
  <2>1. owner' = None /\ db' = Durable /\ tasks' = [s \in Slots |-> Idle]
    BY <1>3 DEF Crash
  <2>2. CountInv' /\ \A s \in Slots : ~Saved(s)
    BY <2>1, IsIdle DEF CountInv, OutcomeInv, Active, Saved
  <2> QED BY <2>1, <2>2, CountsNothing DEF Durable, Leaves
<1> QED BY <1>1, <1>2, <1>3

(* A task that has just started or has been answered. *)
LEMMA TasksCount ==
  ASSUME DictionaryInv, CountInv, NEW s \in Slots, Start(s) \/ Finish(s)
  PROVE  CountInv' /\ Counts
<1>1. UNCHANGED <<db, owner, begun>> /\ ~Inside(s)
  BY IsIdle DEF Start, Finish, Inside, Active
<1>2. PICK t : tasks' = [tasks EXCEPT ![s] = t] /\ t.at # "done"
               /\ (t.at # "idle" => t.outcome = "ok")
  <2>1. CASE Start(s)
    <3>1. PICK op : tasks' = [tasks EXCEPT ![s] = NewTask(op)]
                    /\ (op \in ClientOps \/ op \in CommandOps)
      BY <2>1 DEF Start
    <3>2. op.kind \in Kinds
      BY <3>1, ClientOperation, CommandOperation DEF Kinds, ClientKinds
    <3>3. PICK t : t = NewTask(op)
      OBVIOUS
    <3>4. t.at # "done" /\ t.outcome = "ok"
      BY <3>2, <3>3, NewTaskIs
    <3> QED BY <3>1, <3>3, <3>4
  <2>2. CASE Finish(s)
    BY <2>2, IsIdle DEF Finish
  <2> QED BY <2>1, <2>2
<1>3. tasks'[s] = t /\ \A r \in Slots \ {s} : tasks'[r] = tasks[r]
  BY <1>2 DEF DictionaryInv, TaskInv
<1>4. \A r \in Slots : ~Saved(r) /\ OutcomeInv(r)'
  BY <1>2, <1>3 DEF Saved, OutcomeInv, CountInv, Active, Kind
<1>5. owner # None => Ahead(owner)'
  <2> SUFFICES ASSUME owner # None
               PROVE  Ahead(owner)'
    OBVIOUS
  <2>1. owner \in Slots \ {s} /\ Ahead(owner)
    BY <1>1 DEF DictionaryInv, OwnerInv, CountInv
  <2>2. PICK r \in Slots \ {s} : owner = r
    BY <2>1
  <2>3. Ahead(r)'
    BY <1>1, <1>3, <2>1, <2>2 DEF Ahead, NewEntries, Counted, Kind
  <2> QED BY <1>1, <2>2, <2>3
<1> QED BY <1>1, <1>4, <1>5, CountsNothing DEF CountInv, Durable, Leaves

LEMMA CountStep ==
  ASSUME DictionaryInv, CountInv, Next
  PROVE  CountInv' /\ Counts
<1>1. CASE (\E kind \in {"command", "client"} : Open(kind)) \/ Close \/ Crash
  BY <1>1, ProcessesCount
<1>2. ASSUME NEW s \in Slots, Start(s) \/ Fail(s) \/ Finish(s)
      PROVE  CountInv' /\ Counts
  BY <1>2, TasksCount, FailuresCount
<1>3. ASSUME NEW s \in Slots, FolderStatement(s)
      PROVE  CountInv' /\ Counts
  BY <1>3, KeptByFolders, FoldersElsewhere, KeepsCountOfOthers DEF Elsewhere
<1>4. ASSUME NEW s \in Slots, EntryStatement(s)
      PROVE  CountInv' /\ Counts
  <2>1. CASE UpdateEntry(s) \/ DeleteEntry(s)
    BY <1>4, <2>1, KeptByEntries, EntriesElsewhere, KeepsCountOfOthers DEF Elsewhere
  <2>2. CASE InsertEntry(s) \/ ReuseEntry(s) \/ IncrementActivity(s)
    BY <2>2, InsertsCount, ActivityCounts
  <2> QED BY <1>4, <2>1, <2>2 DEF EntryStatement
<1>5. ASSUME NEW s \in Slots, SenseStatement(s)
      PROVE  CountInv' /\ Counts
  BY <1>5, KeptBySenses, SensesElsewhere, KeepsCountOfOthers DEF Elsewhere
<1>6. ASSUME NEW s \in Slots, ReviewedStatement(s) \/ TransactionStatement(s)
      PROVE  CountInv' /\ Counts
  BY <1>6, ReviewsCount, TransactionsCount
<1> QED BY <1>1, <1>2, <1>3, <1>4, <1>5, <1>6 DEF Next, Statement

(* "Each Save includes one Activity increment in the same transaction": on  *)
(* disk, the count goes up by one with each Entry write that is reported as *)
(* a success, and no Entry appears without it, whatever other tasks of the  *)
(* connection write in between and wherever a statement fails.             *)
THEOREM SavesAreCounted == Spec => SaveCounted
<1>1. Init => CountInv
  BY IsIdle DEF Init, CountInv, OutcomeInv, Active
<1>2. DictionaryInv /\ CountInv /\ [Next]_vars => CountInv'
  <2>1. CASE UNCHANGED vars
    BY <2>1 DEF vars, CountInv, OutcomeInv, Ahead, NewEntries, Counted, Active, Kind
  <2> QED BY <2>1, CountStep
<1>3. DictionaryInv /\ CountInv /\ Next => Counts
  BY CountStep
<1>4. Spec => [][Counts]_vars
  BY <1>1, <1>2, <1>3, DictionaryInvariant, PTL DEF Spec
<1> QED BY <1>4 DEF SaveCounted, Counts

-----------------------------------------------------------------------------
(* Commands are atomic: how far the transaction that is open has got, for  *)
(* each of the operations that must be whole.                              *)

(* n rows were added that are all like `row`. *)
Gained(before, after, row, n) ==
  /\ IsFiniteSet(Added(before, after)) /\ Cardinality(Added(before, after)) = n
  /\ \A i \in Added(before, after) : after[i] = row
  /\ Kept(before, after)

LEMMA GainsNothing ==
  ASSUME NEW table, NEW row
  PROVE  Gained(table, table, row, 0)
BY FS_EmptySet DEF Gained, Added, Kept

LEMMA GainsRows ==
  ASSUME NEW before, NEW after, NEW row, NEW n \in Nat, Gained(before, after, row, n),
         NEW ids, IsFiniteSet(ids), ids \cap DOMAIN before = {}, ids \cap DOMAIN after = {},
         NEW table, DOMAIN table = DOMAIN after \cup ids,
         \A i \in ids : table[i] = row, \A i \in DOMAIN after : table[i] = after[i]
  PROVE  /\ Gained(before, table, row, n + Cardinality(ids))
         /\ Added(before, table) = Added(before, after) \cup ids
<1>1. Added(before, table) = Added(before, after) \cup ids
  BY DEF Added
<1>2. Added(before, after) \cap ids = {}
  BY DEF Added
<1>3. /\ IsFiniteSet(Added(before, after) \cup ids)
      /\ Cardinality(Added(before, after) \cup ids) =
           Cardinality(Added(before, after)) + Cardinality(ids)
             - Cardinality(Added(before, after) \cap ids)
  BY FS_Union DEF Gained
<1>4. Cardinality(ids) \in Nat /\ Cardinality(Added(before, after) \cap ids) = 0
  BY <1>2, FS_CardinalityType, FS_EmptySet
<1>5. Cardinality(Added(before, table)) = n + Cardinality(ids)
  BY <1>1, <1>3, <1>4 DEF Gained
<1>6. \A i \in Added(before, table) : table[i] = row
  BY <1>1 DEF Gained, Added
<1>7. Kept(before, table)
  BY DEF Gained, Kept
<1> QED BY <1>1, <1>3, <1>5, <1>6, <1>7 DEF Gained

-----------------------------------------------------------------------------
(* A reviewed Save. *)

IsSave(op) ==
  /\ op.kind = "save" /\ op.sense \in BOOLEAN /\ op.captured \in BOOLEAN
  /\ op.reviewed \in Nat /\ (~op.sense => op.reviewed = 0)

CapturedOf(op) == IF op.captured THEN 1 ELSE 0

HasEntry(op, entry, base, after) ==
  /\ entry = EntryIdFor(op.text, Root)
  /\ after.folders = base.folders
  /\ after.entries = WithEntry(base, op.text, Root).entries
  /\ after.entries[entry].text = op.text

(* The Sense that was inserted, or none. *)
HasSense(op, at, entry, sense, base, after) ==
  IF op.sense /\ at # "sense"
  THEN /\ Gained(base.senses, after.senses, [entry |-> entry], 1)
       /\ Added(base.senses, after.senses) = {sense}
  ELSE after.senses = base.senses /\ sense = None

HasDescriptions(entry, sense, base, after, n) ==
  Gained(base.descriptions, after.descriptions, [entry |-> entry, sense |-> sense], n)

(* What a Save has done when it is at a place. *)
Saving(op, at, entry, sense, base, after) ==
  /\ at \in {"root", "insert", "existing"} => after = base /\ sense = None
  /\ at \in Inserted =>
       /\ HasEntry(op, entry, base, after)
       /\ HasSense(op, at, entry, sense, base, after)
       /\ after.activity = IF at = "commit" THEN base.activity + 1 ELSE base.activity
       /\ at = "sense" => op.sense /\ after.descriptions = base.descriptions
       /\ at = "captured" => op.captured /\ after.descriptions = base.descriptions
       /\ at = "reviewed" => op.sense /\ HasDescriptions(entry, sense, base, after, CapturedOf(op))
       /\ at \in {"activity", "commit"} =>
            HasDescriptions(entry, sense, base, after, op.reviewed + CapturedOf(op))

LEMMA SavesEntry ==
  ASSUME NEW op, IsSave(op), NEW base, IsRecord(base), NEW after, NEW entry,
         entry = EntryIdFor(op.text, Root),
         \/ entry \notin DOMAIN base.entries /\ after = WithEntry(base, op.text, Root)
         \/ /\ entry \in DOMAIN base.entries /\ after = base
            /\ base.entries[entry] = [text |-> op.text, folder |-> Root]
  PROVE  Saving(op, AfterEntry(op), entry, None, base, after)
<1>1. PICK step : step = AfterEntry(op)
  OBVIOUS
<1>2. /\ step \in {"sense", "captured", "activity"}
      /\ step = "sense" <=> op.sense
      /\ step = "captured" => op.captured
      /\ step = "activity" => op.reviewed = 0 /\ CapturedOf(op) = 0
  BY <1>1 DEF AfterEntry, IsSave, CapturedOf
<1>3. /\ after.folders = base.folders /\ after.senses = base.senses
      /\ after.descriptions = base.descriptions /\ after.activity = base.activity
      /\ after.entries = WithEntry(base, op.text, Root).entries
      /\ after.entries[entry].text = op.text
  <2>1. CASE entry \in DOMAIN base.entries
    BY <2>1 DEF WithEntry
  <2>2. CASE entry \notin DOMAIN base.entries
    <3>1. PICK entries : entries = Put(base.entries, entry, [text |-> op.text, folder |-> Root])
      OBVIOUS
    <3>2. after = [base EXCEPT !.entries = entries] /\ after = WithEntry(base, op.text, Root)
      BY <2>2, <3>1 DEF WithEntry
    <3>3. entries[entry].text = op.text
      BY <3>1 DEF Put
    <3> QED BY <3>2, <3>3 DEF IsRecord
  <2> QED BY <2>1, <2>2
<1>4. HasDescriptions(entry, None, base, after, 0)
  BY <1>3, GainsNothing DEF HasDescriptions
<1>5. op.reviewed = 0 /\ CapturedOf(op) = 0 => op.reviewed + CapturedOf(op) = 0
  OBVIOUS
<1>6. Saving(op, step, entry, None, base, after)
  BY <1>2, <1>3, <1>4, <1>5 DEF Saving, HasEntry, HasSense, Inserted
<1> QED BY <1>1, <1>6

LEMMA SavesSense ==
  ASSUME NEW op, IsSave(op), NEW base, NEW after, IsRecord(after), NEW entry, NEW sense,
         Saving(op, "sense", entry, sense, base, after),
         NEW id, id \notin DOMAIN base.senses, NEW new, new = WithSense(after, id, entry)
  PROVE  Saving(op, AfterSense(op), entry, id, base, new)
<1>1. PICK step : step = AfterSense(op)
  OBVIOUS
<1>2. /\ step \in {"captured", "reviewed"}
      /\ step = "captured" => op.captured
      /\ step = "reviewed" => CapturedOf(op) = 0
  BY <1>1 DEF AfterSense, IsSave, CapturedOf
<1>3. /\ HasEntry(op, entry, base, after) /\ after.senses = base.senses
      /\ after.activity = base.activity /\ op.sense
      /\ after.descriptions = base.descriptions
  BY DEF Saving, HasSense, Inserted
<1>4. PICK senses : senses = Put(after.senses, id, [entry |-> entry])
  OBVIOUS
<1>5. new = [after EXCEPT !.senses = senses]
  BY <1>4 DEF WithSense
<1>6. /\ new.folders = after.folders /\ new.entries = after.entries /\ new.senses = senses
      /\ new.descriptions = after.descriptions /\ new.activity = after.activity
  BY <1>5 DEF IsRecord
<1>7. /\ Gained(base.senses, senses, [entry |-> entry], 1)
      /\ Added(base.senses, senses) = {id}
  <2>1. IsFiniteSet({id}) /\ Cardinality({id}) = 1
    BY FS_Singleton
  <2>2. PICK row : row = [entry |-> entry]
    OBVIOUS
  <2>3. Gained(base.senses, base.senses, row, 0)
    BY GainsNothing
  <2>4. /\ DOMAIN senses = DOMAIN base.senses \cup {id} /\ senses[id] = row
        /\ \A i \in DOMAIN base.senses : senses[i] = base.senses[i]
    BY <1>3, <1>4, <2>2 DEF Put
  <2>5. /\ Gained(base.senses, senses, row, 0 + Cardinality({id}))
        /\ Added(base.senses, senses) = Added(base.senses, base.senses) \cup {id}
    BY <2>1, <2>3, <2>4, GainsRows
  <2>6. Added(base.senses, base.senses) = {}
    BY DEF Added
  <2> QED BY <2>1, <2>2, <2>5, <2>6
<1>8. HasDescriptions(entry, id, base, new, 0)
  BY <1>3, <1>6, GainsNothing DEF HasDescriptions
<1>9. Saving(op, step, entry, id, base, new)
  BY <1>2, <1>3, <1>6, <1>7, <1>8 DEF Saving, HasEntry, HasSense, Inserted
<1> QED BY <1>1, <1>9

(* Descriptions are inserted. *)
LEMMA SavesDescriptions ==
  ASSUME NEW base, NEW after, IsRecord(after), NEW entry, NEW sense, NEW n \in Nat,
         HasDescriptions(entry, sense, base, after, n),
         NEW ids, IsFiniteSet(ids), ids \cap DOMAIN base.descriptions = {},
         ids \cap DOMAIN after.descriptions = {},
         NEW new, new = WithDescriptions(after, ids, entry, sense)
  PROVE  /\ HasDescriptions(entry, sense, base, new, n + Cardinality(ids))
         /\ new.folders = after.folders /\ new.entries = after.entries
         /\ new.senses = after.senses /\ new.activity = after.activity
<1>1. PICK row : row = [entry |-> entry, sense |-> sense]
  OBVIOUS
<1>2. PICK table : table = [d \in DOMAIN after.descriptions \cup ids |->
                              IF d \in ids THEN row ELSE after.descriptions[d]]
  OBVIOUS
<1>3. new = [after EXCEPT !.descriptions = table]
  BY <1>1, <1>2 DEF WithDescriptions
<1>4. /\ new.folders = after.folders /\ new.entries = after.entries
      /\ new.senses = after.senses /\ new.activity = after.activity
      /\ new.descriptions = table
  BY <1>3 DEF IsRecord
<1>5. /\ DOMAIN table = DOMAIN after.descriptions \cup ids
      /\ \A d \in ids : table[d] = row
      /\ \A d \in DOMAIN after.descriptions : table[d] = after.descriptions[d]
  BY <1>2
<1>6. Gained(base.descriptions, after.descriptions, row, n)
  BY <1>1 DEF HasDescriptions
<1>7. Gained(base.descriptions, table, row, n + Cardinality(ids))
  BY <1>5, <1>6, GainsRows
<1> QED BY <1>1, <1>4, <1>7 DEF HasDescriptions

LEMMA OneDescription ==
  ASSUME NEW base, NEW id, NEW entry, NEW sense
  PROVE  WithDescription(base, id, entry, sense) = WithDescriptions(base, {id}, entry, sense)
<1>1. Put(base.descriptions, id, [entry |-> entry, sense |-> sense]) =
        [d \in DOMAIN base.descriptions \cup {id} |->
           IF d \in {id} THEN [entry |-> entry, sense |-> sense] ELSE base.descriptions[d]]
  BY DEF Put
<1> QED BY <1>1 DEF WithDescription, WithDescriptions

LEMMA SavesCaptured ==
  ASSUME NEW op, IsSave(op), NEW base, NEW after, IsRecord(after), NEW entry, NEW sense,
         Saving(op, "captured", entry, sense, base, after),
         NEW id, id \notin DOMAIN base.descriptions,
         NEW new, new = WithDescription(after, id, entry, sense)
  PROVE  Saving(op, IF op.sense THEN "reviewed" ELSE "activity", entry, sense, base, new)
<1>1. PICK step : step = IF op.sense THEN "reviewed" ELSE "activity"
  OBVIOUS
<1>2. /\ HasEntry(op, entry, base, after)
      /\ HasSense(op, "captured", entry, sense, base, after)
      /\ after.activity = base.activity /\ op.captured
      /\ after.descriptions = base.descriptions
  BY DEF Saving, Inserted
<1>3. new = WithDescriptions(after, {id}, entry, sense)
  BY OneDescription
<1>4. IsFiniteSet({id}) /\ Cardinality({id}) = 1
  BY FS_Singleton
<1>5. HasDescriptions(entry, sense, base, after, 0)
  BY <1>2, GainsNothing DEF HasDescriptions
<1>a. 0 \in Nat /\ {id} \cap DOMAIN base.descriptions = {} /\ {id} \cap DOMAIN after.descriptions = {}
  BY <1>2
<1>6. /\ HasDescriptions(entry, sense, base, new, 0 + Cardinality({id}))
      /\ new.folders = after.folders /\ new.entries = after.entries
      /\ new.senses = after.senses /\ new.activity = after.activity
  BY <1>3, <1>4, <1>5, <1>a, SavesDescriptions
<1>7. HasDescriptions(entry, sense, base, new, 1) /\ CapturedOf(op) = 1
  BY <1>2, <1>4, <1>6 DEF CapturedOf
<1>8. step \in {"reviewed", "activity"} /\ (step = "reviewed" <=> op.sense)
      /\ (step = "activity" => op.reviewed + CapturedOf(op) = 1)
  BY <1>1, <1>7 DEF IsSave
<1>9. Saving(op, step, entry, sense, base, new)
  BY <1>2, <1>6, <1>7, <1>8 DEF Saving, HasEntry, HasSense, Inserted
<1> QED BY <1>1, <1>9

LEMMA SavesReviewed ==
  ASSUME NEW op, IsSave(op), NEW base, NEW after, IsRecord(after), NEW entry, NEW sense,
         Saving(op, "reviewed", entry, sense, base, after),
         NEW ids, IsFiniteSet(ids), Cardinality(ids) = op.reviewed,
         ids \cap DOMAIN base.descriptions = {}, ids \cap DOMAIN after.descriptions = {},
         NEW new, new = WithDescriptions(after, ids, entry, sense)
  PROVE  Saving(op, "activity", entry, sense, base, new)
<1>1. /\ HasEntry(op, entry, base, after)
      /\ HasSense(op, "reviewed", entry, sense, base, after)
      /\ after.activity = base.activity /\ op.sense
      /\ HasDescriptions(entry, sense, base, after, CapturedOf(op))
  BY DEF Saving, Inserted
<1>2. CapturedOf(op) \in Nat
  BY DEF CapturedOf
<1>3. /\ HasDescriptions(entry, sense, base, new, CapturedOf(op) + Cardinality(ids))
      /\ new.folders = after.folders /\ new.entries = after.entries
      /\ new.senses = after.senses /\ new.activity = after.activity
  BY <1>1, <1>2, SavesDescriptions
<1>4. CapturedOf(op) + Cardinality(ids) = op.reviewed + CapturedOf(op)
  BY <1>2 DEF IsSave
<1> QED BY <1>1, <1>3, <1>4 DEF Saving, HasEntry, HasSense, Inserted

LEMMA SavesActivity ==
  ASSUME NEW op, NEW base, NEW after, IsRecord(after), NEW entry, NEW sense,
         Saving(op, "activity", entry, sense, base, after),
         NEW new, new = WithActivity(after)
  PROVE  Saving(op, "commit", entry, sense, base, new)
<1>1. /\ HasEntry(op, entry, base, after)
      /\ HasSense(op, "activity", entry, sense, base, after)
      /\ after.activity = base.activity
      /\ HasDescriptions(entry, sense, base, after, op.reviewed + CapturedOf(op))
  BY DEF Saving, Inserted
<1>2. /\ new.folders = after.folders /\ new.entries = after.entries
      /\ new.senses = after.senses /\ new.descriptions = after.descriptions
      /\ new.activity = after.activity + 1
  BY DEF WithActivity, IsRecord
<1> QED BY <1>1, <1>2 DEF Saving, HasEntry, HasSense, HasDescriptions, Inserted

LEMMA SavedWhole ==
  ASSUME NEW op, IsSave(op), NEW base, NEW after, NEW entry, NEW sense,
         Saving(op, "commit", entry, sense, base, after)
  PROVE  WholeSave(op, base, after)
<1>1. PICK senses, added : /\ senses = Added(base.senses, after.senses)
                           /\ added = Added(base.descriptions, after.descriptions)
  OBVIOUS
<1>2. /\ HasEntry(op, entry, base, after)
      /\ HasSense(op, "commit", entry, sense, base, after)
      /\ after.activity = base.activity + 1
      /\ HasDescriptions(entry, sense, base, after, op.reviewed + CapturedOf(op))
  BY DEF Saving, Inserted
<1>3. /\ Cardinality(added) = op.reviewed + CapturedOf(op)
      /\ \A d \in added : /\ after.descriptions[d].entry = entry
                          /\ after.descriptions[d].sense = sense
      /\ Kept(base.descriptions, after.descriptions)
  BY <1>1, <1>2 DEF HasDescriptions, Gained
<1>4. /\ Cardinality(senses) = IF op.sense THEN 1 ELSE 0
      /\ \A i \in senses : after.senses[i].entry = entry
      /\ Kept(base.senses, after.senses)
      /\ sense \in IF op.sense THEN senses ELSE {None}
  <2>1. CASE op.sense
    BY <1>1, <1>2, <2>1 DEF HasSense, Gained
  <2>2. CASE ~op.sense
    <3>1. after.senses = base.senses /\ sense = None
      BY <1>2, <2>2 DEF HasSense
    <3>2. senses = {} /\ Kept(base.senses, after.senses)
      BY <1>1, <3>1 DEF Added, Kept
    <3> QED BY <2>2, <3>1, <3>2, FS_EmptySet
  <2> QED BY <2>1, <2>2
<1> QED BY <1>1, <1>2, <1>3, <1>4 DEF WholeSave, HasEntry, CapturedOf

-----------------------------------------------------------------------------
(* A generation. *)

(* Its source is as the proposal remembers it. *)
HasSource(op, entry, sense, base) ==
  /\ op.description \in DOMAIN base.descriptions
  /\ base.descriptions[op.description] = [entry |-> entry, sense |-> sense]

SameRest(base, after) ==
  after.folders = base.folders /\ after.entries = base.entries /\ after.activity = base.activity

(* The source is in the Sense of the generation, its own or the new one.   *)
Grouped(op, entry, sense, base, after) ==
  /\ op.description \in DOMAIN base.descriptions
  /\ DOMAIN after.descriptions = DOMAIN base.descriptions
  /\ HasSource(op, entry, sense, after)
  /\ base.descriptions[op.description].entry = entry
  /\ IF base.descriptions[op.description].sense = None
     THEN Added(base.senses, after.senses) = {sense}
     ELSE Added(base.senses, after.senses) = {} /\ HasSource(op, entry, sense, base)

(* What a generation has done when it is at a place. *)
Generating(op, at, entry, sense, base, after) ==
  /\ at \in {"select", "sense"} => after = base
  /\ at \in {"sense", "assign"} => HasSource(op, entry, None, base)
  /\ at = "assign" => /\ SameRest(base, after) /\ after.descriptions = base.descriptions
                      /\ Added(base.senses, after.senses) = {sense}
  /\ at = "reviewed" => SameRest(base, after) /\ Grouped(op, entry, sense, base, after)
  /\ at = "commit" => after = base \/ WholeGeneration(op, base, after)

LEMMA GeneratesSense ==
  ASSUME NEW op, NEW base, IsRecord(base), NEW entry, NEW sense,
         Generating(op, "sense", entry, sense, base, base),
         NEW id, id \notin DOMAIN base.senses, NEW new, new = WithSense(base, id, entry)
  PROVE  Generating(op, "assign", entry, id, base, new)
<1>1. PICK senses : senses = Put(base.senses, id, [entry |-> entry])
  OBVIOUS
<1>2. new = [base EXCEPT !.senses = senses]
  BY <1>1 DEF WithSense
<1>3. SameRest(base, new) /\ new.descriptions = base.descriptions /\ new.senses = senses
  BY <1>2 DEF IsRecord, SameRest
<1>4. Added(base.senses, senses) = {id}
  BY <1>1 DEF Put, Added
<1> QED BY <1>3, <1>4 DEF Generating

LEMMA GeneratesGroup ==
  ASSUME NEW op, NEW base, NEW after, IsRecord(after), NEW entry, NEW sense,
         Generating(op, "assign", entry, sense, base, after),
         NEW new, new = [after EXCEPT !.descriptions[op.description].sense = sense]
  PROVE  Generating(op, "reviewed", entry, sense, base, new)
<1>1. PICK d : d = op.description
  OBVIOUS
<1>2. /\ SameRest(base, after) /\ after.descriptions = base.descriptions
      /\ Added(base.senses, after.senses) = {sense}
      /\ d \in DOMAIN base.descriptions
      /\ base.descriptions[d] = [entry |-> entry, sense |-> None]
  BY <1>1 DEF Generating, HasSource
<1>3. PICK row : row = [base.descriptions[d] EXCEPT !.sense = sense]
  OBVIOUS
<1>4. row = [entry |-> entry, sense |-> sense]
  BY <1>2, <1>3
<1>5. PICK rows : rows = [after.descriptions EXCEPT ![d] = row]
  OBVIOUS
<1>6. rows = [after.descriptions EXCEPT ![d].sense = sense]
  BY <1>2, <1>3, <1>5
<1>7. new = [after EXCEPT !.descriptions = rows]
  BY <1>1, <1>6
<1>8. SameRest(base, new) /\ new.descriptions = rows /\ new.senses = after.senses
  BY <1>2, <1>7 DEF IsRecord, SameRest
<1>9. DOMAIN rows = DOMAIN base.descriptions /\ rows[d] = [entry |-> entry, sense |-> sense]
  BY <1>2, <1>4, <1>5
<1>10. base.descriptions[d].entry = entry /\ base.descriptions[d].sense = None
  BY <1>2
<1> QED BY <1>1, <1>2, <1>8, <1>9, <1>10 DEF Generating, Grouped, HasSource

LEMMA GeneratesRows ==
  ASSUME NEW op, NEW base, NEW after, IsRecord(after), NEW entry, NEW sense,
         Generating(op, "reviewed", entry, sense, base, after),
         NEW ids, Cardinality(ids) = op.reviewed, ids \cap DOMAIN after.descriptions = {},
         NEW new, new = WithDescriptions(after, ids, entry, sense)
  PROVE  WholeGeneration(op, base, new)
<1>1. PICK d : d = op.description
  OBVIOUS
<1>2. PICK row : row = [entry |-> entry, sense |-> sense]
  OBVIOUS
<1>3. PICK rows : rows = [i \in DOMAIN after.descriptions \cup ids |->
                            IF i \in ids THEN row ELSE after.descriptions[i]]
  OBVIOUS
<1>4. new = [after EXCEPT !.descriptions = rows]
  BY <1>2, <1>3 DEF WithDescriptions
<1>5. SameRest(base, after) /\ Grouped(op, entry, sense, base, after)
  BY DEF Generating
<1>6. SameRest(base, new) /\ new.descriptions = rows /\ new.senses = after.senses
  BY <1>4, <1>5 DEF IsRecord, SameRest
<1>7. d \in DOMAIN after.descriptions /\ after.descriptions[d] = row
  BY <1>1, <1>2, <1>5 DEF Grouped, HasSource
<1>8. rows[d] = row
  BY <1>3, <1>7
<1>9. Added(base.descriptions, rows) = ids
  BY <1>3, <1>5 DEF Added, Grouped
<1>10. \A i \in ids : rows[i] = row
  BY <1>3
<1>11. row.entry = entry /\ row.sense = sense
  BY <1>2
<1>12. /\ base.descriptions[d].entry = entry
       /\ IF base.descriptions[d].sense = None
          THEN Added(base.senses, after.senses) = {sense}
          ELSE Added(base.senses, after.senses) = {} /\ base.descriptions[d] = row
  BY <1>1, <1>2, <1>5 DEF Grouped, HasSource
<1> QED BY <1>1, <1>6, <1>8, <1>9, <1>10, <1>11, <1>12 DEF WholeGeneration, SameRest

-----------------------------------------------------------------------------
(* Deleting a Sense. *)

Own(op, base) ==
  {d \in DOMAIN base.descriptions : base.descriptions[d].sense = op.sense}
Cascaded(op, base) == [base EXCEPT !.descriptions = Drop(base.descriptions, Own(op, base))]

(* What a Sense delete has done when it is at a place. *)
Deleting(op, at, base, after) ==
  /\ at \in {"select", "cascade"} => after = base
  /\ at = "cascade" => op.cascade
  /\ at = "delete" => after = IF op.cascade THEN Cascaded(op, base) ELSE base
  /\ at = "commit" => after = base \/ WholeSenseDelete(op, base, after)

LEMMA Detaches ==
  ASSUME NEW base, Related(base), NEW ids, NEW new, new = WithoutSenses(base, ids)
  PROVE  /\ DOMAIN new.senses = DOMAIN base.senses \ ids
         /\ DOMAIN new.descriptions = DOMAIN base.descriptions
         /\ \A d \in DOMAIN base.descriptions :
              /\ new.descriptions[d].entry = base.descriptions[d].entry
              /\ new.descriptions[d].sense =
                   IF base.descriptions[d].sense \in ids THEN None
                   ELSE base.descriptions[d].sense
<1> DEFINE row(d) == IF base.descriptions[d].sense \in ids
                     THEN [base.descriptions[d] EXCEPT !.sense = None]
                     ELSE base.descriptions[d]
<1>1. PICK table : table = [d \in DOMAIN base.descriptions |-> row(d)]
  OBVIOUS
<1>2. new = [base EXCEPT !.senses = Drop(base.senses, ids), !.descriptions = table]
  BY <1>1, Zenon DEF WithoutSenses
<1>3. PICK senses : senses = Drop(base.senses, ids)
  OBVIOUS
<1>4. new.senses = senses /\ new.descriptions = table
  BY <1>2, <1>3 DEF Related, IsRecord
<1>5. ASSUME NEW d \in DOMAIN base.descriptions
      PROVE  /\ row(d).entry = base.descriptions[d].entry
             /\ row(d).sense = IF base.descriptions[d].sense \in ids THEN None
                               ELSE base.descriptions[d].sense
  <2>1. IsRow(base.descriptions[d])
    BY DEF Related, IsRow
  <2> QED BY <2>1, DetachedRow
<1> HIDE DEF row
<1>6. DOMAIN table = DOMAIN base.descriptions
      /\ \A d \in DOMAIN base.descriptions : table[d] = row(d)
  BY <1>1
<1>7. DOMAIN senses = DOMAIN base.senses \ ids
  BY <1>3 DEF Drop
<1> QED BY <1>4, <1>5, <1>6, <1>7

LEMMA DeletesSense ==
  ASSUME NEW op, NEW base, IsRecord(base), NEW after, Related(after),
         Deleting(op, "delete", base, after),
         NEW new, new = WithoutSenses(after, {op.sense})
  PROVE  WholeSenseDelete(op, base, new)
<1>1. PICK own : own = Own(op, base)
  OBVIOUS
<1>2. /\ after.senses = base.senses
      /\ DOMAIN after.descriptions = IF op.cascade THEN DOMAIN base.descriptions \ own
                                     ELSE DOMAIN base.descriptions
      /\ \A d \in DOMAIN after.descriptions : after.descriptions[d] = base.descriptions[d]
  <2>1. CASE op.cascade
    <3>1. PICK rows : rows = Drop(base.descriptions, own)
      OBVIOUS
    <3>2. after = [base EXCEPT !.descriptions = rows]
      BY <1>1, <2>1, <3>1 DEF Deleting, Cascaded
    <3>3. after.senses = base.senses /\ after.descriptions = rows
      BY <3>2 DEF IsRecord
    <3>4. DOMAIN rows = DOMAIN base.descriptions \ own
          /\ \A d \in DOMAIN rows : rows[d] = base.descriptions[d]
      BY <3>1 DEF Drop
    <3> QED BY <2>1, <3>3, <3>4
  <2>2. CASE ~op.cascade
    BY <2>2 DEF Deleting
  <2> QED BY <2>1, <2>2
<1>3. PICK ids : ids = {op.sense}
  OBVIOUS
<1>4. /\ DOMAIN new.senses = DOMAIN after.senses \ ids
      /\ DOMAIN new.descriptions = DOMAIN after.descriptions
      /\ \A d \in DOMAIN after.descriptions :
           /\ new.descriptions[d].entry = after.descriptions[d].entry
           /\ new.descriptions[d].sense =
                IF after.descriptions[d].sense \in ids THEN None
                ELSE after.descriptions[d].sense
  BY <1>3, Detaches
<1>5. /\ DOMAIN new.senses = DOMAIN base.senses \ {op.sense}
      /\ DOMAIN new.descriptions = IF op.cascade THEN DOMAIN base.descriptions \ own
                                   ELSE DOMAIN base.descriptions
      /\ \A d \in DOMAIN new.descriptions :
           /\ new.descriptions[d].entry = base.descriptions[d].entry
           /\ new.descriptions[d].sense =
                IF base.descriptions[d].sense = op.sense THEN None
                ELSE base.descriptions[d].sense
  BY <1>2, <1>3, <1>4
<1>6. /\ own = {d \in DOMAIN base.descriptions : base.descriptions[d].sense = op.sense}
      /\ \A d \in DOMAIN new.descriptions :
           d \in own <=> base.descriptions[d].sense = op.sense
  BY <1>1, <1>5 DEF Own
<1>7. \A d \in DOMAIN new.descriptions :
        /\ new.descriptions[d].entry = base.descriptions[d].entry
        /\ new.descriptions[d].sense = IF d \in own THEN None ELSE base.descriptions[d].sense
  BY <1>5, <1>6
<1> QED BY <1>5, <1>6, <1>7 DEF WholeSenseDelete

-----------------------------------------------------------------------------
(* The transaction of a command. *)

AtomicKinds == {"save", "generate", "deleteSense"}

Progress(s) ==
  LET task == tasks[s] IN
  /\ Kind(s) = "save" =>
       Saving(task.op, task.at, task.entry, task.sense, begun, db)
  /\ Kind(s) = "generate" =>
       Generating(task.op, task.at, task.entry, task.sense, begun, db)
  /\ Kind(s) = "deleteSense" => Deleting(task.op, task.at, begun, db)

AtomicInv ==
  /\ \A s \in Slots : ~Active(s) => tasks[s] = Idle
  /\ \A s \in Slots : Active(s) /\ Kind(s) = "save" => IsSave(tasks[s].op)
  /\ process = "command" =>
       \A s \in Slots : Inside(s) /\ tasks[s].at # "rollback" => Progress(s)

IsWhole(op, before, after) ==
  /\ op.kind = "save" => WholeSave(op, before, after)
  /\ op.kind = "generate" => WholeGeneration(op, before, after)
  /\ op.kind = "deleteSense" => WholeSenseDelete(op, before, after)

(* What CommandAtomic says of a step. *)
Atomically ==
  process = "command" /\ Durable' # Durable =>
    \A s \in Slots : tasks[s] # Idle => IsWhole(tasks[s].op, Durable, Durable')

(* A command has one task, whose step this is. *)
LEMMA TaskAlone ==
  ASSUME DictionaryInv, AtomicInv, NEW s \in Slots, Moves(s), UNCHANGED process,
         process = "command" => (Inside(s)' /\ tasks'[s].at # "rollback" => Progress(s)'),
         process = "command" /\ Durable' # Durable => IsWhole(tasks[s].op, Durable, Durable')
  PROVE  AtomicInv' /\ Atomically
<1>1. ASSUME NEW r \in Slots \ {s}
      PROVE  /\ tasks'[r] = tasks[r] /\ (Active(r)' <=> Active(r)) /\ Kind(r)' = Kind(r)
             /\ process = "command" => ~Active(r)
  BY <1>1 DEF Moves, Active, Kind, DictionaryInv, ProcessInv
<1>2. Active(s) /\ Active(s)' /\ Kind(s)' = Kind(s) /\ tasks'[s].op = tasks[s].op
  BY DEF Moves, Active, Kind
<1>3. \A r \in Slots : ~Active(r)' => tasks'[r] = Idle
  BY <1>1, <1>2 DEF AtomicInv
<1>4. \A r \in Slots : Active(r)' /\ Kind(r)' = "save" => IsSave(tasks'[r].op)
  BY <1>1, <1>2 DEF AtomicInv
<1>5. process' = "command" =>
        \A r \in Slots : Inside(r)' /\ tasks'[r].at # "rollback" => Progress(r)'
  <2> SUFFICES ASSUME process' = "command", NEW r \in Slots, Inside(r)',
                      tasks'[r].at # "rollback"
               PROVE  Progress(r)'
    OBVIOUS
  <2>1. r = s
    BY <1>1 DEF Inside
  <2> QED BY <2>1
<1>6. AtomicInv'
  BY <1>3, <1>4, <1>5 DEF AtomicInv
<1>7. Atomically
  <2> SUFFICES ASSUME process = "command", Durable' # Durable, NEW r \in Slots, tasks[r] # Idle
               PROVE  IsWhole(tasks[r].op, Durable, Durable')
    BY DEF Atomically
  <2>1. r = s
    BY <1>1 DEF AtomicInv
  <2> QED BY <2>1
<1> QED BY <1>6, <1>7

(* An operation of another kind. *)
LEMMA OtherKinds ==
  ASSUME DictionaryInv, AtomicInv, NEW s \in Slots, Moves(s), UNCHANGED process,
         Kind(s) \notin AtomicKinds
  PROVE  AtomicInv' /\ Atomically
<1>1. Kind(s)' = Kind(s)
  BY DEF Moves, Kind
<1>2. Progress(s)'
  BY <1>1 DEF Progress, AtomicKinds
<1>3. IsWhole(tasks[s].op, Durable, Durable')
  BY DEF IsWhole, AtomicKinds, Kind
<1> QED BY <1>2, <1>3, TaskAlone

(* What an open transaction of such an operation stands on. *)
LEMMA InTransaction ==
  ASSUME DictionaryInv, AtomicInv, NEW s \in Slots, Active(s), Kind(s) \in AtomicKinds,
         tasks[s].at \notin OutsideSteps
  PROVE  /\ TaskInv /\ process = "command" /\ ReadInv(s)
         /\ owner = s /\ owner # None /\ lastId \in Nat
         /\ Related(db) /\ Known(db, lastId) /\ Related(begun) /\ Known(begun, lastId)
         /\ Kind(s) = "save" => IsSave(tasks[s].op)
         /\ tasks[s].at # "rollback" => Progress(s)
<1>1. process = "command" /\ ReadInv(s)
  BY OnlyInCommands DEF AtomicKinds, ClientKinds
<1>2. Inside(s)
  BY DEF Inside, AtomicKinds, Transactions, EntryWrites, OutsideSteps
<1>3. owner = s /\ owner # None
  BY <1>2, SlotsAssumption DEF DictionaryInv, OwnerInv
<1>4. /\ lastId \in Nat
      /\ Related(db) /\ Known(db, lastId) /\ Related(begun) /\ Known(begun, lastId)
  BY <1>3 DEF DictionaryInv, TablesInv
<1> QED BY <1>1, <1>2, <1>3, <1>4 DEF AtomicInv, DictionaryInv

(* A statement of its transaction. *)
LEMMA GoesFurther ==
  ASSUME DictionaryInv, AtomicInv, NEW s \in Slots, Moves(s),
         UNCHANGED <<process, owner, begun>>, Kind(s) \in AtomicKinds,
         tasks[s].at \notin OutsideSteps, tasks'[s].at = "rollback" \/ Progress(s)'
  PROVE  AtomicInv' /\ Atomically
<1>1. owner = s /\ owner # None
  BY InTransaction DEF Moves
<1>2. Durable' = Durable
  BY <1>1 DEF Durable
<1> QED BY <1>2, TaskAlone

LEMMA SaveIsAt ==
  ASSUME NEW s \in Slots, Moves(s), Kind(s) = "save", UNCHANGED begun,
         NEW at, NEW entry, NEW sense,
         tasks'[s].at = at, tasks'[s].entry = entry, tasks'[s].sense = sense,
         Saving(tasks[s].op, at, entry, sense, begun, db')
  PROVE  Progress(s)'
<1>1. Kind(s)' = "save" /\ tasks'[s].op = tasks[s].op
  BY DEF Moves, Kind
<1> QED BY <1>1 DEF Progress

LEMMA GenerationIsAt ==
  ASSUME NEW s \in Slots, Moves(s), Kind(s) = "generate", UNCHANGED begun,
         NEW at, NEW entry, NEW sense,
         tasks'[s].at = at, tasks'[s].entry = entry, tasks'[s].sense = sense,
         Generating(tasks[s].op, at, entry, sense, begun, db')
  PROVE  Progress(s)'
<1>1. Kind(s)' = "generate" /\ tasks'[s].op = tasks[s].op
  BY DEF Moves, Kind
<1> QED BY <1>1 DEF Progress

LEMMA DeleteIsAt ==
  ASSUME NEW s \in Slots, Moves(s), Kind(s) = "deleteSense", UNCHANGED begun,
         NEW at, tasks'[s].at = at, Deleting(tasks[s].op, at, begun, db')
  PROVE  Progress(s)'
<1>1. Kind(s)' = "deleteSense" /\ tasks'[s].op = tasks[s].op
  BY DEF Moves, Kind
<1> QED BY <1>1 DEF Progress

LEMMA SaveInsertsEntry ==
  ASSUME DictionaryInv, AtomicInv, NEW s \in Slots, Kind(s) = "save",
         InsertEntry(s) \/ ReuseEntry(s)
  PROVE  AtomicInv' /\ Atomically
<1>1. At(s, "insert", {"createEntry", "save"}) \/ At(s, "existing", {"createEntry", "save"})
  BY DEF InsertEntry, ReuseEntry
<1>2. /\ Active(s) /\ Kind(s) \in AtomicKinds /\ tasks[s].at \in {"insert", "existing"}
      /\ tasks[s].at \notin OutsideSteps /\ UNCHANGED process
  BY <1>1, IsAt DEF AtomicKinds, OutsideSteps
<1>3. UNCHANGED <<process, owner, begun>>
  BY <1>2 DEF InsertEntry, ReuseEntry, NoTransaction
<1>4. TaskInv /\ Related(begun) /\ IsSave(tasks[s].op) /\ Progress(s)
  BY <1>2, InTransaction
<1>5. Saving(tasks[s].op, tasks[s].at, tasks[s].entry, tasks[s].sense, begun, db)
  BY <1>4 DEF Progress
<1>6. db = begun /\ tasks[s].sense = None
  BY <1>2, <1>5 DEF Saving
<1>7. Moves(s)
  BY KeptByEntryWrites
<1>8. PICK op, entry : op = tasks[s].op /\ entry = EntryIdFor(op.text, Root)
  OBVIOUS
<1>9. FolderOf(op) = Root
  BY <1>8 DEF FolderOf, Kind
<1>10. CASE Aborts(s)
  BY <1>2, <1>3, <1>4, <1>7, <1>10, AbortedWrite, GoesFurther DEF EntryWrites
<1>11. CASE GoTo(s, "existing") /\ UNCHANGED db
  <2>1. tasks'[s].at = "existing" /\ tasks'[s].entry = tasks[s].entry
        /\ tasks'[s].sense = tasks[s].sense
    BY <1>2, <1>4, <1>11, GoesTo
  <2>2. Saving(tasks[s].op, "existing", tasks[s].entry, tasks[s].sense, begun, db')
    BY <1>6, <1>11 DEF Saving, Inserted
  <2>3. Progress(s)'
    BY <1>3, <1>7, <2>1, <2>2, SaveIsAt
  <2> QED BY <1>2, <1>3, <1>7, <2>3, GoesFurther
<1>12. ASSUME \/ entry \notin DOMAIN begun.entries /\ db' = WithEntry(begun, op.text, Root)
              \/ /\ entry \in DOMAIN begun.entries /\ db' = begun
                 /\ begun.entries[entry] = [text |-> op.text, folder |-> Root],
              tasks' = [tasks EXCEPT ![s].entry = entry, ![s].at = AfterEntry(op)]
       PROVE  AtomicInv' /\ Atomically
  <2>1. Saving(op, AfterEntry(op), entry, None, begun, db')
    BY <1>4, <1>8, <1>12, SavesEntry DEF Related
  <2>2. PICK step \in {"activity", "sense", "captured"} : step = AfterEntry(op)
    BY DEF AfterEntry
  <2>3. Reads(s, step, entry)
    BY <1>12, <2>2 DEF Reads
  <2>4. tasks'[s].at = step /\ tasks'[s].entry = entry /\ tasks'[s].sense = None
    BY <1>2, <1>4, <1>6, <2>3, TakesEntry
  <2>5. Progress(s)'
    BY <1>3, <1>7, <1>8, <2>1, <2>2, <2>4, SaveIsAt
  <2> QED BY <1>2, <1>3, <1>7, <2>5, GoesFurther
<1>13. CASE InsertEntry(s)
  BY <1>6, <1>8, <1>9, <1>10, <1>11, <1>12, <1>13 DEF InsertEntry
<1>14. CASE ReuseEntry(s)
  <2>1. CASE Aborts(s)
    BY <1>10, <2>1
  <2>2. CASE ~Aborts(s)
    <3>1. /\ entry \in DOMAIN db.entries /\ db' = db
          /\ db.entries[entry] = [text |-> op.text, folder |-> Root]
          /\ tasks' = [tasks EXCEPT ![s].entry = entry, ![s].at = AfterEntry(op)]
      BY <1>8, <1>9, <1>14, <2>2 DEF ReuseEntry, Kind
    <3> QED BY <1>6, <1>12, <3>1
  <2> QED BY <2>1, <2>2
<1> QED BY <1>13, <1>14

(* The statements of a Save that go on to a place and change neither what  *)
(* it has read nor inserted.                                               *)
LEMMA SaveGoesOn ==
  ASSUME DictionaryInv, AtomicInv, NEW s \in Slots, Active(s), Kind(s) = "save",
         tasks[s].at \notin OutsideSteps, UNCHANGED <<process, owner, begun>>,
         NEW step, step # "idle", GoTo(s, step),
         Saving(tasks[s].op, step, tasks[s].entry, tasks[s].sense, begun, db')
  PROVE  AtomicInv' /\ Atomically
<1>1. Kind(s) \in AtomicKinds /\ TaskInv
  BY DEF AtomicKinds, DictionaryInv
<1>2. /\ Moves(s) /\ tasks'[s].at = step /\ tasks'[s].entry = tasks[s].entry
      /\ tasks'[s].sense = tasks[s].sense
  BY <1>1, GoesTo
<1>3. Progress(s)'
  BY <1>2, SaveIsAt
<1> QED BY <1>1, <1>2, <1>3, GoesFurther

LEMMA SaveIncrements ==
  ASSUME DictionaryInv, AtomicInv, NEW s \in Slots, Kind(s) = "save",
         IncrementActivity(s) \/ SelectRoot(s)
  PROVE  AtomicInv' /\ Atomically
<1>1. At(s, "activity", {"createEntry", "save"}) \/ At(s, "root", {"save"})
  BY DEF IncrementActivity, SelectRoot
<1>2. /\ Active(s) /\ Kind(s) \in AtomicKinds /\ tasks[s].at \in {"activity", "root"}
      /\ tasks[s].at \notin OutsideSteps /\ UNCHANGED process
  BY <1>1, IsAt DEF AtomicKinds, OutsideSteps
<1>3. UNCHANGED <<process, owner, begun>>
  BY <1>2 DEF IncrementActivity, SelectRoot, NoTransaction
<1>4. TaskInv /\ Related(db) /\ Progress(s)
  BY <1>2, InTransaction
<1>5. Saving(tasks[s].op, tasks[s].at, tasks[s].entry, tasks[s].sense, begun, db)
  BY <1>4 DEF Progress
<1>6. CASE IncrementActivity(s)
  <2>1. tasks[s].at = "activity" /\ db' = WithActivity(db) /\ GoTo(s, "commit")
    BY <1>6, IsAt DEF IncrementActivity
  <2>2. Saving(tasks[s].op, "commit", tasks[s].entry, tasks[s].sense, begun, db')
    BY <1>4, <1>5, <2>1, SavesActivity DEF Related
  <2> QED BY <1>2, <1>3, <2>1, <2>2, SaveGoesOn
<1>7. CASE SelectRoot(s)
  <2>1. tasks[s].at = "root" /\ db' = db
    BY <1>7, IsAt DEF SelectRoot
  <2>2. db = begun /\ tasks[s].sense = None
    BY <1>5, <2>1 DEF Saving
  <2>3. Saving(tasks[s].op, "insert", tasks[s].entry, tasks[s].sense, begun, db')
    BY <2>1, <2>2 DEF Saving, Inserted
  <2>4. CASE GoTo(s, "insert")
    BY <1>2, <1>3, <2>3, <2>4, SaveGoesOn
  <2>5. CASE Aborts(s)
    <3>1. Moves(s)
      BY <1>7, KeptBySave
    <3> QED BY <1>2, <1>3, <1>4, <2>5, <3>1, AbortedWrite, GoesFurther DEF EntryWrites
  <2> QED BY <1>7, <2>4, <2>5 DEF SelectRoot
<1> QED BY <1>6, <1>7

(* The IDs of new rows. *)
LEMMA NewIds ==
  ASSUME NEW n \in Nat, NEW count \in Nat
  PROVE  IsFiniteSet((n + 1)..(n + count)) /\ Cardinality((n + 1)..(n + count)) = count
<1>1. n + 1 \in Int /\ n + count \in Int
  OBVIOUS
<1>2. PICK a, b : a = n + 1 /\ b = n + count
  OBVIOUS
<1>3. IsFiniteSet(a..b) /\ Cardinality(a..b) = IF a > b THEN 0 ELSE b - a + 1
  BY <1>1, <1>2, FS_Interval
<1>4. (IF a > b THEN 0 ELSE b - a + 1) = count
  BY <1>2
<1> QED BY <1>2, <1>3, <1>4

LEMMA SaveInsertsRows ==
  ASSUME DictionaryInv, AtomicInv, NEW s \in Slots, Kind(s) = "save",
         InsertSense(s) \/ InsertCaptured(s) \/ InsertReviewed(s)
  PROVE  AtomicInv' /\ Atomically
<1>1. \/ At(s, "sense", {"save", "generate"}) \/ At(s, "captured", {"save"})
      \/ At(s, "reviewed", {"save", "generate"})
  BY DEF InsertSense, InsertCaptured, InsertReviewed
<1>2. /\ Active(s) /\ Kind(s) \in AtomicKinds
      /\ tasks[s].at \in {"sense", "captured", "reviewed"}
      /\ tasks[s].at \notin OutsideSteps /\ UNCHANGED process
  BY <1>1, IsAt DEF AtomicKinds, OutsideSteps
<1>3. UNCHANGED <<process, owner, begun>>
  BY <1>2 DEF InsertSense, InsertCaptured, InsertReviewed, NoTransaction
<1>4. /\ TaskInv /\ Related(db) /\ IsSave(tasks[s].op) /\ Progress(s)
      /\ lastId \in Nat /\ Known(db, lastId) /\ Known(begun, lastId)
  BY <1>2, InTransaction
<1>5. Saving(tasks[s].op, tasks[s].at, tasks[s].entry, tasks[s].sense, begun, db)
  BY <1>4 DEF Progress
<1>6. PICK op, entry, sense : op = tasks[s].op /\ entry = tasks[s].entry /\ sense = tasks[s].sense
  OBVIOUS
<1>7. CASE InsertSense(s)
  <2>1. tasks[s].at = "sense" /\ Moves(s)
    BY <1>7, IsAt, KeptByInsertSense DEF InsertSense
  <2>2. PICK id : id = lastId' /\ id = lastId + 1
    BY <1>7 DEF InsertSense
  <2>3. id \notin DOMAIN begun.senses
    BY <1>4, <2>2 DEF Known
  <2>4. PICK step : step = AfterSense(op)
    OBVIOUS
  <2>5. db' = WithSense(db, id, entry) /\ TakesNew(s, step)
    BY <1>6, <1>7, <2>2, <2>4 DEF InsertSense, TakesNew
  <2>6. Saving(op, AfterSense(op), entry, id, begun, db')
    <3>1. Saving(op, "sense", entry, sense, begun, db) /\ IsSave(op) /\ IsRecord(db)
      BY <1>4, <1>5, <1>6, <2>1 DEF Related
    <3>2. PICK after, new : after = db /\ new = db'
      OBVIOUS
    <3>3. Saving(op, "sense", entry, sense, begun, after) /\ IsRecord(after)
          /\ new = WithSense(after, id, entry)
      BY <2>5, <3>1, <3>2
    <3>4. Saving(op, AfterSense(op), entry, id, begun, new)
      BY <2>3, <3>1, <3>3, SavesSense
    <3> QED BY <3>2, <3>4
  <2>7. step # "idle"
    BY <2>4 DEF AfterSense
  <2>8. tasks'[s].at = step /\ tasks'[s].entry = entry /\ tasks'[s].sense = id
    BY <1>2, <1>4, <1>6, <2>2, <2>5, <2>7, TakesSense
  <2>9. Progress(s)'
    BY <1>3, <1>6, <2>1, <2>4, <2>6, <2>8, SaveIsAt
  <2> QED BY <1>2, <1>3, <2>1, <2>9, GoesFurther
<1>8. CASE InsertCaptured(s)
  <2>1. tasks[s].at = "captured"
    BY <1>8, IsAt DEF InsertCaptured
  <2>2. PICK id : id = lastId' /\ id = lastId + 1
    BY <1>8 DEF InsertCaptured
  <2>3. id \notin DOMAIN begun.descriptions
    BY <1>4, <2>2 DEF Known
  <2>4. PICK step : step = IF op.sense THEN "reviewed" ELSE "activity"
    OBVIOUS
  <2>5. db' = WithDescription(db, id, entry, sense) /\ GoTo(s, step) /\ step # "idle"
    BY <1>6, <1>8, <2>2, <2>4 DEF InsertCaptured
  <2>6. Saving(op, IF op.sense THEN "reviewed" ELSE "activity", entry, sense, begun, db')
    BY <1>4, <1>5, <1>6, <2>1, <2>3, <2>5, SavesCaptured DEF Related
  <2>7. Saving(op, step, entry, sense, begun, db')
    BY <2>4, <2>6
  <2> QED BY <1>2, <1>3, <1>6, <2>5, <2>7, SaveGoesOn
<1>9. CASE InsertReviewed(s)
  <2>1. tasks[s].at = "reviewed" /\ GoTo(s, "activity")
    BY <1>9, IsAt DEF InsertReviewed, Kind
  <2>2. PICK count \in Nat : count = op.reviewed
    BY <1>4, <1>6 DEF IsSave
  <2>3. PICK ids : ids = (lastId + 1)..(lastId + count)
    OBVIOUS
  <2>4. db' = WithDescriptions(db, ids, entry, sense)
    BY <1>6, <1>9, <2>2, <2>3 DEF InsertReviewed
  <2>5. IsFiniteSet(ids) /\ Cardinality(ids) = op.reviewed
    BY <1>4, <2>2, <2>3, NewIds
  <2>6. ids \cap DOMAIN begun.descriptions = {} /\ ids \cap DOMAIN db.descriptions = {}
    BY <1>4, <2>2, <2>3 DEF Known
  <2>7. Saving(op, "activity", entry, sense, begun, db')
    BY <1>4, <1>5, <1>6, <2>1, <2>4, <2>5, <2>6, SavesReviewed DEF Related
  <2> QED BY <1>2, <1>3, <1>6, <2>1, <2>7, SaveGoesOn
<1> QED BY <1>7, <1>8, <1>9

LEMMA GenerationMoves ==
  ASSUME DictionaryInv, AtomicInv, NEW s \in Slots, Kind(s) = "generate",
         Propose(s) \/ SelectSource(s) \/ AssignSource(s)
  PROVE  AtomicInv' /\ Atomically
<1>a. Moves(s) /\ TaskInv
  BY KeptByGeneration DEF DictionaryInv
<1>1. At(s, "propose", {"generate"}) \/ At(s, "select", {"generate"}) \/ At(s, "assign", {"generate"})
  BY DEF Propose, SelectSource, AssignSource
<1>2. Active(s) /\ Kind(s) \in AtomicKinds /\ UNCHANGED process
  BY <1>1, IsAt DEF AtomicKinds
<1>3. UNCHANGED <<process, owner, begun>>
  BY <1>2 DEF Propose, SelectSource, AssignSource, NoTransaction
<1>4. CASE Propose(s)
  <2>1. db' = db
    BY <1>4 DEF Propose
  <2>2. Durable' = Durable
    BY <1>3, <2>1 DEF Durable
  <2>3. tasks'[s].at \in {"begin", "done"}
    <3>1. CASE Answer(s, "error")
      BY <1>a, <1>2, <3>1, Answers
    <3>2. ASSUME NEW entry, NEW sense,
                 tasks' = [tasks EXCEPT ![s].entry = entry, ![s].sense = sense, ![s].at = "begin"]
          PROVE  tasks'[s].at = "begin"
      BY <1>a, <1>2, <3>2, TakesSource
    <3> QED BY <1>4, <3>1, <3>2 DEF Propose
  <2>4. ~Inside(s)'
    BY <2>3 DEF Inside
  <2> QED BY <1>a, <1>2, <2>2, <2>4, TaskAlone
<1>5. CASE SelectSource(s) \/ AssignSource(s)
  <2>1. tasks[s].at \in {"select", "assign"} /\ tasks[s].at \notin OutsideSteps
    BY <1>5, IsAt DEF SelectSource, AssignSource, OutsideSteps
  <2>2. Related(db) /\ IsRecord(db) /\ Progress(s)
    BY <1>2, <2>1, InTransaction DEF Related
  <2>3. PICK op, entry, sense :
          op = tasks[s].op /\ entry = tasks[s].entry /\ sense = tasks[s].sense
    OBVIOUS
  <2>4. Generating(op, tasks[s].at, entry, sense, begun, db)
    BY <2>2, <2>3 DEF Progress
  <2>5. ASSUME NEW step, step # "idle", GoTo(s, step),
               Generating(op, step, entry, sense, begun, db')
        PROVE  AtomicInv' /\ Atomically
    <3>1. tasks'[s].at = step /\ tasks'[s].entry = entry /\ tasks'[s].sense = sense
      BY <1>a, <1>2, <2>3, <2>5, GoesTo
    <3>2. Progress(s)'
      BY <1>a, <1>3, <2>3, <2>5, <3>1, GenerationIsAt
    <3> QED BY <1>a, <1>2, <1>3, <2>1, <3>2, GoesFurther
  <2>6. CASE SelectSource(s)
    <3>1. db' = db /\ tasks[s].at = "select"
      BY <2>6, IsAt DEF SelectSource
    <3>2. db = begun
      BY <2>4, <3>1 DEF Generating
    <3>3. CASE Aborts(s)
      <4>1. tasks'[s].at \in {"rollback", "commit"}
        BY <1>a, <1>2, <3>3, IsAborted
      <4>2. CASE tasks'[s].at = "rollback"
        BY <1>a, <1>2, <1>3, <2>1, <4>2, GoesFurther
      <4>3. CASE tasks'[s].at = "commit"
        <5>1. PICK e, x : e = tasks'[s].entry /\ x = tasks'[s].sense
          OBVIOUS
        <5>2. Generating(op, "commit", e, x, begun, db')
          BY <3>1, <3>2 DEF Generating
        <5>3. Progress(s)'
          BY <1>a, <1>3, <2>3, <4>3, <5>1, <5>2, GenerationIsAt
        <5> QED BY <1>a, <1>2, <1>3, <2>1, <5>3, GoesFurther
      <4> QED BY <4>1, <4>2, <4>3
    <3>4. CASE /\ op.description \in DOMAIN db.descriptions
               /\ db.descriptions[op.description] = [entry |-> entry, sense |-> sense]
               /\ GoTo(s, IF sense = None THEN "sense" ELSE "reviewed")
      <4>1. HasSource(op, entry, sense, begun)
        BY <3>2, <3>4 DEF HasSource
      <4>2. CASE sense = None
        <5>1. Generating(op, "sense", entry, sense, begun, db')
          BY <3>1, <3>2, <4>1, <4>2 DEF Generating
        <5> QED BY <2>5, <3>4, <4>2, <5>1
      <4>3. CASE sense # None
        <5>1. Added(begun.senses, db'.senses) = {} /\ SameRest(begun, db')
          BY <3>1, <3>2 DEF Added, SameRest
        <5>2. begun.descriptions[op.description].entry = entry
              /\ begun.descriptions[op.description].sense = sense
          BY <4>1 DEF HasSource
        <5>3. Grouped(op, entry, sense, begun, db')
          BY <3>1, <3>2, <4>1, <4>3, <5>1, <5>2 DEF Grouped, HasSource
        <5>4. Generating(op, "reviewed", entry, sense, begun, db')
          BY <5>1, <5>3 DEF Generating
        <5> QED BY <2>5, <3>4, <4>3, <5>4
      <4> QED BY <4>2, <4>3
    <3> QED BY <2>3, <2>6, <3>3, <3>4 DEF SelectSource
  <2>7. CASE AssignSource(s)
    <3>1. tasks[s].at = "assign" /\ GoTo(s, "reviewed")
      BY <2>7, IsAt DEF AssignSource
    <3>2. db' = [db EXCEPT !.descriptions[op.description].sense = sense]
      BY <2>3, <2>7 DEF AssignSource
    <3>3. Generating(op, "reviewed", entry, sense, begun, db')
      BY <2>2, <2>4, <3>1, <3>2, GeneratesGroup
    <3> QED BY <2>5, <3>1, <3>3
  <2> QED BY <1>5, <2>6, <2>7
<1> QED BY <1>4, <1>5

LEMMA GenerationInserts ==
  ASSUME DictionaryInv, AtomicInv, NEW s \in Slots, Kind(s) = "generate",
         InsertSense(s) \/ InsertReviewed(s)
  PROVE  AtomicInv' /\ Atomically
<1>1. At(s, "sense", {"save", "generate"}) \/ At(s, "reviewed", {"save", "generate"})
  BY DEF InsertSense, InsertReviewed
<1>2. /\ Active(s) /\ Kind(s) \in AtomicKinds /\ tasks[s].at \in {"sense", "reviewed"}
      /\ tasks[s].at \notin OutsideSteps /\ UNCHANGED process
  BY <1>1, IsAt DEF AtomicKinds, OutsideSteps
<1>3. UNCHANGED <<process, owner, begun>>
  BY <1>2 DEF InsertSense, InsertReviewed, NoTransaction
<1>4. /\ TaskInv /\ IsRecord(db) /\ IsRecord(begun) /\ Progress(s)
      /\ lastId \in Nat /\ Known(db, lastId) /\ Known(begun, lastId)
  BY <1>2, InTransaction DEF Related
<1>5. PICK op, entry, sense : op = tasks[s].op /\ entry = tasks[s].entry /\ sense = tasks[s].sense
  OBVIOUS
<1>6. Generating(op, tasks[s].at, entry, sense, begun, db)
  BY <1>4, <1>5 DEF Progress
<1>7. CASE InsertSense(s)
  <2>1. tasks[s].at = "sense" /\ Moves(s)
    BY <1>7, IsAt, KeptByInsertSense DEF InsertSense
  <2>2. db = begun
    BY <1>6, <2>1 DEF Generating
  <2>3. PICK id : id = lastId' /\ id = lastId + 1
    BY <1>7 DEF InsertSense
  <2>4. id \notin DOMAIN begun.senses
    BY <1>4, <2>3 DEF Known
  <2>5. AfterSense(op) = "assign"
    BY <1>5 DEF AfterSense, Kind
  <2>6. db' = WithSense(begun, id, entry) /\ TakesNew(s, "assign")
    BY <1>5, <1>7, <2>2, <2>3, <2>5 DEF InsertSense, TakesNew
  <2>7. Generating(op, "assign", entry, id, begun, db')
    BY <1>4, <1>6, <2>1, <2>2, <2>4, <2>6, GeneratesSense
  <2>8. tasks'[s].at = "assign" /\ tasks'[s].entry = entry /\ tasks'[s].sense = id
    BY <1>2, <1>4, <1>5, <2>3, <2>6, TakesSense
  <2>9. Progress(s)'
    BY <1>3, <1>5, <2>1, <2>7, <2>8, GenerationIsAt
  <2> QED BY <1>2, <1>3, <2>1, <2>9, GoesFurther
<1>8. CASE InsertReviewed(s)
  <2>1. tasks[s].at = "reviewed" /\ Moves(s) /\ GoTo(s, "commit")
    BY <1>8, IsAt, KeptByInsertReviewed DEF InsertReviewed, Kind
  <2>2. PICK count \in Nat : count = op.reviewed
    BY <1>2, <1>4, <1>5 DEF TaskInv
  <2>3. PICK ids : ids = (lastId + 1)..(lastId + count)
    OBVIOUS
  <2>4. db' = WithDescriptions(db, ids, entry, sense)
    BY <1>5, <1>8, <2>2, <2>3 DEF InsertReviewed
  <2>5. Cardinality(ids) = op.reviewed
    BY <1>4, <2>2, <2>3, NewIds
  <2>6. ids \cap DOMAIN db.descriptions = {}
    BY <1>4, <2>2, <2>3 DEF Known
  <2>7. WholeGeneration(op, begun, db')
    BY <1>4, <1>6, <2>1, <2>4, <2>5, <2>6, GeneratesRows
  <2>8. Generating(op, "commit", entry, sense, begun, db')
    BY <2>7 DEF Generating
  <2>9. tasks'[s].at = "commit" /\ tasks'[s].entry = entry /\ tasks'[s].sense = sense
    BY <1>2, <1>4, <1>5, <2>1, GoesTo
  <2>10. Progress(s)'
    BY <1>3, <1>5, <2>1, <2>8, <2>9, GenerationIsAt
  <2> QED BY <1>2, <1>3, <2>1, <2>10, GoesFurther
<1> QED BY <1>7, <1>8

LEMMA DeletesOwnSense ==
  ASSUME DictionaryInv, AtomicInv, NEW s \in Slots,
         SelectSense(s) \/ CascadeToDescriptions(s) \/ DeleteSense(s)
  PROVE  AtomicInv' /\ Atomically
<1>a. Moves(s) /\ TaskInv
  BY KeptBySenseDelete DEF DictionaryInv
<1>1. \/ At(s, "select", {"deleteSense"}) \/ At(s, "cascade", {"deleteSense"})
      \/ At(s, "delete", {"deleteSense"})
  BY DEF SelectSense, CascadeToDescriptions, DeleteSense
<1>2. /\ Active(s) /\ Kind(s) = "deleteSense" /\ Kind(s) \in AtomicKinds
      /\ tasks[s].at \in {"select", "cascade", "delete"}
      /\ tasks[s].at \notin OutsideSteps /\ UNCHANGED process
  BY <1>1, IsAt DEF AtomicKinds, OutsideSteps
<1>3. UNCHANGED <<process, owner, begun>>
  BY <1>2 DEF SelectSense, CascadeToDescriptions, DeleteSense, NoTransaction
<1>4. Related(db) /\ IsRecord(begun) /\ Progress(s)
  BY <1>2, InTransaction DEF Related
<1>5. PICK op : op = tasks[s].op
  OBVIOUS
<1>6. Deleting(op, tasks[s].at, begun, db)
  BY <1>2, <1>4, <1>5 DEF Progress
<1>7. ASSUME Deleting(op, tasks'[s].at, begun, db')
      PROVE  AtomicInv' /\ Atomically
  <2>1. PICK at : at = tasks'[s].at
    OBVIOUS
  <2>2. Progress(s)'
    BY <1>a, <1>2, <1>3, <1>5, <1>7, <2>1, DeleteIsAt
  <2> QED BY <1>a, <1>2, <1>3, <2>2, GoesFurther
<1>8. CASE SelectSense(s)
  <2>1. tasks[s].at = "select" /\ db' = db
    BY <1>8, IsAt DEF SelectSense
  <2>2. db' = begun
    BY <1>6, <2>1 DEF Deleting
  <2>3. CASE Aborts(s)
    <3>1. tasks'[s].at \in {"rollback", "commit"}
      BY <1>a, <1>2, <2>3, IsAborted
    <3> QED BY <1>7, <2>2, <3>1 DEF Deleting
  <2>4. CASE GoTo(s, IF op.cascade THEN "cascade" ELSE "delete")
    <3>1. PICK step \in {"cascade", "delete"} : step = IF op.cascade THEN "cascade" ELSE "delete"
      OBVIOUS
    <3>2. tasks'[s].at = step
      BY <1>a, <1>2, <2>4, <3>1, GoesTo
    <3> QED BY <1>7, <2>2, <3>1, <3>2 DEF Deleting
  <2> QED BY <1>5, <1>8, <2>3, <2>4 DEF SelectSense
<1>9. CASE CascadeToDescriptions(s)
  <2>1. tasks[s].at = "cascade" /\ GoTo(s, "delete")
    BY <1>9, IsAt DEF CascadeToDescriptions
  <2>2. db = begun /\ op.cascade
    BY <1>6, <2>1 DEF Deleting
  <2>3. db' = [db EXCEPT !.descriptions =
                 Drop(@, {d \in DOMAIN @ : @[d].sense = op.sense})]
    BY <1>5, <1>9 DEF CascadeToDescriptions
  <2>4. db' = Cascaded(op, begun)
    BY <2>2, <2>3 DEF Cascaded, Own
  <2>5. tasks'[s].at = "delete"
    BY <1>a, <1>2, <2>1, GoesTo
  <2> QED BY <1>7, <2>2, <2>4, <2>5 DEF Deleting
<1>10. CASE DeleteSense(s)
  <2>1. tasks[s].at = "delete" /\ GoTo(s, "commit")
    BY <1>10, IsAt DEF DeleteSense
  <2>2. db' = WithoutSenses(db, {op.sense})
    BY <1>5, <1>10 DEF DeleteSense
  <2>3. WholeSenseDelete(op, begun, db')
    BY <1>4, <1>6, <2>1, <2>2, DeletesSense
  <2>4. tasks'[s].at = "commit"
    BY <1>a, <1>2, <2>1, GoesTo
  <2> QED BY <1>7, <2>3, <2>4 DEF Deleting
<1> QED BY <1>8, <1>9, <1>10

-----------------------------------------------------------------------------
(* Where a transaction begins and ends. *)

LEMMA BeginsAtomically ==
  ASSUME DictionaryInv, AtomicInv, NEW s \in Slots, Begin(s)
  PROVE  AtomicInv' /\ Atomically
<1>a. Moves(s) /\ TaskInv
  BY KeptByTransactions DEF DictionaryInv, TransactionStatement
<1>1. Active(s) /\ tasks[s].at = "begin" /\ UNCHANGED process /\ db' = db
  BY IsAt DEF Begin
<1>2. CASE NoTransaction /\ NotBegun(s)
  <2>1. tasks'[s].at = "done"
    BY <1>a, <1>1, <1>2, Answers DEF NotBegun
  <2>2. Durable' = Durable /\ ~Inside(s)'
    BY <1>1, <1>2, <2>1 DEF Durable, NoTransaction, Inside
  <2> QED BY <1>a, <1>1, <2>2, TaskAlone
<1>3. CASE owner = None /\ owner' = s /\ begun' = db /\ GoTo(s, AfterBegin(Kind(s)))
  <2>1. PICK step \in {"insert", "root", "select"} :
          step = AfterBegin(Kind(s)) /\ (Kind(s) = "save" => step = "root")
                                     /\ (Kind(s) \in {"generate", "deleteSense"} => step = "select")
    BY DEF AfterBegin
  <2>2. tasks'[s].at = step /\ tasks'[s].sense = tasks[s].sense /\ Kind(s)' = Kind(s)
    BY <1>a, <1>1, <1>3, <2>1, GoesTo DEF Moves, Kind
  <2>3. Durable' = Durable
    BY <1>1, <1>3, SlotsAssumption DEF Durable
  <2>4. process = "command" /\ Kind(s) = "save" => tasks'[s].sense = None
    BY <1>1, <2>2 DEF DictionaryInv, CommandInv, ReadInv
  <2>5. PICK op, entry, sense :
          op = tasks'[s].op /\ entry = tasks'[s].entry /\ sense = tasks'[s].sense
    OBVIOUS
  <2>6. process = "command" /\ Kind(s) = "save" => Saving(op, "root", entry, sense, begun', db')
    BY <1>1, <1>3, <2>4, <2>5 DEF Saving, Inserted
  <2>7. Generating(op, "select", entry, sense, begun', db') /\ Deleting(op, "select", begun', db')
    BY <1>1, <1>3 DEF Generating, Deleting
  <2>8. process = "command" => Progress(s)'
    BY <2>1, <2>2, <2>5, <2>6, <2>7 DEF Progress
  <2> QED BY <1>a, <1>1, <2>3, <2>8, TaskAlone
<1> QED BY <1>2, <1>3 DEF Begin, Kind

LEMMA EndsAtomically ==
  ASSUME DictionaryInv, AtomicInv, NEW s \in Slots, Commit(s) \/ Rollback(s)
  PROVE  AtomicInv' /\ Atomically
<1>a. Moves(s) /\ TaskInv
  BY KeptByTransactions DEF DictionaryInv, TransactionStatement
<1>1. At(s, "commit", Transactions) \/ At(s, "rollback", Transactions)
  BY DEF Commit, Rollback
<1>2. /\ Active(s) /\ Kind(s) \in Transactions /\ tasks[s].at \in {"commit", "rollback"}
      /\ UNCHANGED process
  BY <1>1, IsAt
<1>3. owner' = None /\ Answer(s, tasks[s].outcome)
  BY DEF Commit, Rollback
<1>4. tasks'[s].at = "done"
  BY <1>a, <1>2, <1>3, Answers
<1>5. ~Inside(s)'
  BY <1>4 DEF Inside
<1>6. owner = s /\ owner # None /\ Inside(s)
  BY <1>2, SlotsAssumption DEF DictionaryInv, OwnerInv, Inside
<1>7. Durable = begun /\ Durable' = db'
  BY <1>3, <1>6 DEF Durable
<1>8. CASE Rollback(s)
  <2>1. Durable' = Durable
    BY <1>7, <1>8 DEF Rollback
  <2> QED BY <1>a, <1>2, <1>5, <2>1, TaskAlone
<1>9. CASE Commit(s)
  <2>1. tasks[s].at = "commit" /\ db' = db
    BY <1>9, IsAt DEF Commit
  <2>2. process = "command" => Progress(s)
    BY <1>6, <2>1 DEF AtomicInv
  <2>3. PICK op, entry, sense :
          op = tasks[s].op /\ entry = tasks[s].entry /\ sense = tasks[s].sense
    OBVIOUS
  <2>4. process = "command" /\ Kind(s) = "save" => WholeSave(op, begun, db)
    BY <1>2, <2>1, <2>2, <2>3, SavedWhole DEF Progress, AtomicInv
  <2>5. process = "command" /\ Kind(s) = "generate" => db = begun \/ WholeGeneration(op, begun, db)
    BY <2>1, <2>2, <2>3 DEF Progress, Generating
  <2>6. process = "command" /\ Kind(s) = "deleteSense" => db = begun \/ WholeSenseDelete(op, begun, db)
    BY <2>1, <2>2, <2>3 DEF Progress, Deleting
  <2>7. process = "command" /\ db # begun => IsWhole(op, begun, db)
    BY <2>3, <2>4, <2>5, <2>6 DEF IsWhole, Kind
  <2> QED BY <1>a, <1>2, <1>5, <1>7, <2>1, <2>3, <2>7, TaskAlone
<1> QED BY <1>8, <1>9

LEMMA FailsAtomically ==
  ASSUME DictionaryInv, AtomicInv, NEW s \in Slots, Fail(s)
  PROVE  AtomicInv' /\ Atomically
<1>a. Moves(s) /\ TaskInv
  BY KeptByFailures DEF DictionaryInv
<1>1. Active(s) /\ UNCHANGED <<process, db, owner, begun>>
  BY DEF Fail, Active
<1>2. Durable' = Durable
  BY <1>1 DEF Durable
<1>3. CASE Kind(s) \notin AtomicKinds
  BY <1>a, <1>1, <1>3, OtherKinds
<1>4. CASE Kind(s) \in AtomicKinds
  <2>1. tasks'[s].at \in {"done", "rollback"}
    <3>1. CASE NotBegun(s)
      BY <1>a, <1>1, <3>1, Answers DEF NotBegun
    <3>2. ASSUME NEW outcome, tasks' = [tasks EXCEPT ![s].at = "rollback", ![s].outcome = outcome]
          PROVE  tasks'[s].at = "rollback"
      BY <1>a, <1>1, <3>2, Ends
    <3>3. Kind(s) \in Transactions /\ Kind(s) # "deleteFolder"
      BY <1>4 DEF AtomicKinds, Transactions, EntryWrites
    <3>4. CASE tasks' = [tasks EXCEPT ![s].at = "rollback",
                  ![s].outcome = IF Kind(s) = "deleteFolder" THEN "thrown" ELSE "error"]
      BY <3>2, <3>4
    <3>5. CASE tasks' = [tasks EXCEPT
                  ![s].at = IF Kind(s) = "deleteFolder" THEN "commit" ELSE "rollback",
                  ![s].outcome = "error"]
      BY <3>2, <3>3, <3>5
    <3> QED BY <3>1, <3>3, <3>4, <3>5 DEF Fail, Kind
  <2>2. Inside(s)' => tasks'[s].at = "rollback"
    BY <2>1 DEF Inside
  <2> QED BY <1>a, <1>1, <1>2, <2>2, TaskAlone
<1> QED BY <1>3, <1>4

-----------------------------------------------------------------------------
(* Tasks and processes that start and end write nothing. *)

LEMMA SaveIsSave ==
  ASSUME NEW op, op \in ClientOps \/ op \in CommandOps, op.kind = "save"
  PROVE  IsSave(op)
<1>1. MaxReviewed \in Nat
  BY BoundsAssumption
<1>2. op \notin ClientOps
  BY ClientOperation DEF ClientKinds
<1>3. op \in SaveOps
  BY <1>2 DEF CommandOps
<1>4. CASE op \in [kind: {"save"}, text: Words, sense: {FALSE}, captured: BOOLEAN, reviewed: {0}]
  <2>1. op.sense \in {FALSE}
    BY <1>4
  <2>2. op.captured \in BOOLEAN
    BY <1>4
  <2>3. op.reviewed \in {0}
    BY <1>4
  <2>4. op.reviewed = 0 /\ op.reviewed \in Nat
    BY <2>3
  <2>5. op.sense \in BOOLEAN
    BY <2>1
  <2> QED BY <2>2, <2>4, <2>5 DEF IsSave
<1>5. CASE op \in [kind: {"save"}, text: Words, sense: {TRUE}, captured: BOOLEAN,
                   reviewed: 1..MaxReviewed]
  <2>1. op.sense \in {TRUE}
    BY <1>5
  <2>2. op.captured \in BOOLEAN
    BY <1>5
  <2>3. op.reviewed \in 1..MaxReviewed
    BY <1>5
  <2>4. op.reviewed \in Nat
    BY <1>1, <2>3
  <2> QED BY <2>1, <2>2, <2>4 DEF IsSave
<1> QED BY <1>3, <1>4, <1>5 DEF SaveOps

LEMMA StartsAtomically ==
  ASSUME DictionaryInv, AtomicInv, NEW s \in Slots, Start(s)
  PROVE  AtomicInv' /\ Atomically
<1>1. UNCHANGED <<process, db, owner, begun>>
  BY DEF Start
<1>2. PICK op : /\ tasks' = [tasks EXCEPT ![s] = NewTask(op)]
                /\ op \in ClientOps \/ op \in CommandOps
                /\ process = "command" => AllIdle
  <2>1. CASE process = "client" /\ \E op \in ClientOps : tasks' = [tasks EXCEPT ![s] = NewTask(op)]
    BY <2>1
  <2>2. CASE /\ process = "command" /\ AllIdle
             /\ \E op \in CommandOps : tasks' = [tasks EXCEPT ![s] = NewTask(op)]
    BY <2>2
  <2> QED BY <2>1, <2>2 DEF Start
<1>3. op.kind \in Kinds
  BY <1>2, ClientOperation, CommandOperation DEF Kinds, ClientKinds
<1>4. PICK t : t = NewTask(op)
  OBVIOUS
<1>5. /\ t.op = op /\ t.at \in {"propose", "find", "begin", "run"}
      /\ op.kind \in Transactions => t.at \in {"propose", "begin"}
  BY <1>3, <1>4, NewTaskIs
<1>6. tasks'[s] = t /\ \A r \in Slots \ {s} : tasks'[r] = tasks[r]
  BY <1>2, <1>4 DEF DictionaryInv, TaskInv
<1>7. \A r \in Slots : ~Active(r)' => tasks'[r] = Idle
  BY <1>5, <1>6 DEF AtomicInv, Active
<1>8. \A r \in Slots : Active(r)' /\ Kind(r)' = "save" => IsSave(tasks'[r].op)
  <2>1. op.kind = "save" => IsSave(op)
    BY <1>2, SaveIsSave
  <2> QED BY <1>5, <1>6, <2>1 DEF AtomicInv, Active, Kind
<1>9. process' = "command" => \A r \in Slots : ~Inside(r)'
  <2> SUFFICES ASSUME process' = "command", NEW r \in Slots, Inside(r)'
               PROVE  FALSE
    OBVIOUS
  <2>1. CASE r = s
    BY <1>5, <1>6, <2>1 DEF Inside, Kind
  <2>2. CASE r # s
    <3>1. tasks'[r] = Idle
      BY <1>1, <1>2, <1>6, <2>2 DEF AllIdle
    <3> QED BY <3>1, IsIdle DEF Inside, Active
  <2> QED BY <2>1, <2>2
<1>10. Atomically
  BY <1>1 DEF Atomically, Durable
<1> QED BY <1>7, <1>8, <1>9, <1>10 DEF AtomicInv

(* The process ends, or it is a client. *)
LEMMA FinishesAtomically ==
  ASSUME DictionaryInv, AtomicInv, NEW s \in Slots, Finish(s)
  PROVE  AtomicInv' /\ Atomically
<1>1. UNCHANGED <<db, owner, begun>> /\ process' # "command"
  BY DEF Finish
<1>2. tasks'[s] = Idle /\ \A r \in Slots \ {s} : tasks'[r] = tasks[r]
  BY DEF Finish, DictionaryInv, TaskInv
<1>3. \A r \in Slots : ~Active(r)' => tasks'[r] = Idle
  BY <1>2 DEF AtomicInv, Active
<1>4. \A r \in Slots : Active(r)' /\ Kind(r)' = "save" => IsSave(tasks'[r].op)
  BY <1>2, IsIdle DEF AtomicInv, Active, Kind
<1>5. Atomically
  BY <1>1 DEF Atomically, Durable
<1> QED BY <1>1, <1>3, <1>4, <1>5 DEF AtomicInv

LEMMA ProcessesAreAtomic ==
  ASSUME DictionaryInv, AtomicInv, (\E kind \in {"command", "client"} : Open(kind)) \/ Close \/ Crash
  PROVE  AtomicInv' /\ Atomically
<1>1. ASSUME NEW kind, Open(kind)
      PROVE  AtomicInv' /\ Atomically
  <2>1. process = "none" /\ tasks' = tasks
    BY <1>1 DEF Open
  <2>2. \A s \in Slots : ~Active(s)
    BY <2>1 DEF DictionaryInv, ProcessInv
  <2>3. \A s \in Slots : ~Active(s)' /\ tasks'[s] = Idle
    BY <2>1, <2>2 DEF AtomicInv, Active
  <2> QED BY <2>1, <2>3 DEF AtomicInv, Atomically, Inside
<1>2. CASE Close
  <2>1. UNCHANGED <<db, owner, begun, tasks>> /\ process' = "none"
    BY <1>2 DEF Close
  <2>2. AtomicInv'
    BY <2>1 DEF AtomicInv, Active, Kind
  <2> QED BY <2>1, <2>2 DEF Atomically, Durable
<1>3. CASE Crash
  <2>1. /\ process' = "none" /\ owner' = None /\ db' = Durable
        /\ \A s \in Slots : tasks'[s] = Idle
    BY <1>3 DEF Crash
  <2>2. AtomicInv'
    BY <2>1, IsIdle DEF AtomicInv, Active
  <2> QED BY <2>1, <2>2 DEF Atomically, Durable
<1> QED BY <1>1, <1>2, <1>3

LEMMA AtomicStep ==
  ASSUME DictionaryInv, AtomicInv, Next
  PROVE  AtomicInv' /\ Atomically
<1>1. CASE (\E kind \in {"command", "client"} : Open(kind)) \/ Close \/ Crash
  BY <1>1, ProcessesAreAtomic
<1>2. ASSUME NEW s \in Slots, Start(s) \/ Fail(s) \/ Finish(s)
      PROVE  AtomicInv' /\ Atomically
  BY <1>2, StartsAtomically, FailsAtomically, FinishesAtomically
<1>3. ASSUME NEW s \in Slots, FolderStatement(s) \/ EntryStatement(s) \/ SenseStatement(s)
      PROVE  AtomicInv' /\ Atomically
  <2>1. Moves(s)
    BY <1>3, KeptByFolders, KeptByEntries, KeptBySenses
  <2>2. UNCHANGED process
    BY <1>3 DEF FolderStatement, CreateFolder, FindExistingFolder, RenameFolder, SelectFolder,
                SelectChildren, DropFolder, EntryStatement, UpdateEntry, DeleteEntry, InsertEntry,
                ReuseEntry, IncrementActivity, SenseStatement, CreateDescription, DeleteDescription,
                FindDescription, FindSense, UpdateDescription, AssignSense, CreateSense, SelectSense,
                CascadeToDescriptions, DeleteSense, At
  <2>3. CASE Kind(s) \notin AtomicKinds
    BY <2>1, <2>2, <2>3, OtherKinds
  <2>4. CASE SelectSense(s) \/ CascadeToDescriptions(s) \/ DeleteSense(s)
    BY <2>4, DeletesOwnSense
  <2>5. CASE /\ InsertEntry(s) \/ ReuseEntry(s) \/ IncrementActivity(s)
             /\ Kind(s) \in AtomicKinds
    <3>1. Kind(s) \in {"createEntry", "save"}
      BY <2>5 DEF InsertEntry, ReuseEntry, IncrementActivity, At, Kind
    <3>2. Kind(s) = "save"
      BY <2>5, <3>1 DEF AtomicKinds
    <3> QED BY <2>5, <3>2, SaveInsertsEntry, SaveIncrements
  <2>6. ASSUME ~(SelectSense(s) \/ CascadeToDescriptions(s) \/ DeleteSense(s)),
               ~(InsertEntry(s) \/ ReuseEntry(s) \/ IncrementActivity(s))
        PROVE  Kind(s) \notin AtomicKinds
    BY <1>3, <2>6 DEF FolderStatement, CreateFolder, FindExistingFolder, RenameFolder, SelectFolder,
                SelectChildren, DropFolder, EntryStatement, UpdateEntry, DeleteEntry,
                SenseStatement, CreateDescription, DeleteDescription,
                FindDescription, FindSense, UpdateDescription, AssignSense, CreateSense,
                At, Kind, AtomicKinds
  <2> QED BY <2>3, <2>4, <2>5, <2>6
<1>4. ASSUME NEW s \in Slots, ReviewedStatement(s)
      PROVE  AtomicInv' /\ Atomically
  <2>1. Kind(s) \in {"save", "generate"}
    BY <1>4 DEF ReviewedStatement, SelectRoot, InsertSense, InsertCaptured, InsertReviewed,
                Propose, SelectSource, AssignSource, At, Kind
  <2>2. CASE Kind(s) = "save"
    <3>1. SelectRoot(s) \/ InsertSense(s) \/ InsertCaptured(s) \/ InsertReviewed(s)
      BY <1>4, <2>2 DEF ReviewedStatement, Propose, SelectSource, AssignSource, At, Kind
    <3> QED BY <2>2, <3>1, SaveIncrements, SaveInsertsRows
  <2>3. CASE Kind(s) = "generate"
    <3>1. \/ Propose(s) \/ SelectSource(s) \/ AssignSource(s)
          \/ InsertSense(s) \/ InsertReviewed(s)
      BY <1>4, <2>3 DEF ReviewedStatement, SelectRoot, InsertCaptured, At, Kind
    <3> QED BY <2>3, <3>1, GenerationMoves, GenerationInserts
  <2> QED BY <2>1, <2>2, <2>3
<1>5. ASSUME NEW s \in Slots, TransactionStatement(s)
      PROVE  AtomicInv' /\ Atomically
  BY <1>5, BeginsAtomically, EndsAtomically DEF TransactionStatement
<1> QED BY <1>1, <1>2, <1>3, <1>4, <1>5 DEF Next, Statement

(* A command's reviewed Save, generation or Sense delete is on disk as a   *)
(* whole or not at all: whatever the tables were, and whichever statement  *)
(* fails, refuses or is the last before the process is killed.             *)
THEOREM CommandsAreAtomic == Spec => CommandAtomic
<1>1. Init => AtomicInv
  BY IsIdle DEF Init, AtomicInv, Active
<1>2. DictionaryInv /\ AtomicInv /\ [Next]_vars => AtomicInv'
  <2>1. CASE UNCHANGED vars
    BY <2>1 DEF vars, AtomicInv, Progress, Inside, Active, Kind
  <2> QED BY <2>1, AtomicStep
<1>3. DictionaryInv /\ AtomicInv /\ Next => Atomically
  BY AtomicStep
<1>4. Spec => [][Atomically]_vars
  BY <1>1, <1>2, <1>3, DictionaryInvariant, PTL DEF Spec
<1> QED BY <1>4 DEF CommandAtomic, Atomically, IsWhole
=============================================================================

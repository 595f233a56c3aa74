----------------------------- MODULE TerminalProofs -----------------------------
(* Theorems about what the terminal client shows, for any data and any     *)
(* number of steps: its toasts, and the Dictionary page with its prompts.  *)
EXTENDS Toasts, DictionaryBrowser, SequenceTheorems, FiniteSetTheorems, WellFoundedInduction,
        TLAPS

-----------------------------------------------------------------------------
(* Toasts: what is shown is the latest and is limited, a toast closes by   *)
(* itself, and an outcome is reported.                                     *)

ToastTypes == {"loading", "success", "error"}
Titles == ToastTypes \cup {Nothing}
Given == Options \cup {promise.options : promise \in Promises}
ToastDescriptions ==
  {Nothing, Absent} \cup {options.description : options \in Given}
    \cup {promise.description : promise \in Promises}
Durations == {"finite", Absent} \cup {options.duration : options \in Given}

DataRecord ==
  [type : ToastTypes, title : Titles, description : ToastDescriptions, duration : Durations]
ToastRecord ==
  [id : Ids, type : ToastTypes, finite : BOOLEAN, title : Titles, description : ToastDescriptions,
   timer : BOOLEAN, stray : Nat, paused : BOOLEAN, dismissed : BOOLEAN]
Operation ==
  [id : Ids, kind : {promise.kind : promise \in Promises},
   handlers : {promise.handlers : promise \in Promises}, description : ToastDescriptions]
Knowledge == UNION {[S -> DataRecord] : S \in SUBSET Ids}
WorldRecord == [dismissed : SUBSET Ids, notices : Seq(Ids), shown : Seq(ToastRecord)]

TypeOK ==
  /\ known \in Knowledge
  /\ World \in WorldRecord
  /\ operations \in Seq(Operation)
  /\ present \in BOOLEAN
  /\ callCount \in 0..MaxCalls /\ hovers \in 0..MaxHovers

(* A toast shows the data, or keeps the title that nothing replaces. *)
Drawn(t, data) ==
  /\ t.type = data.type
  /\ t.description = data.description
  /\ Nothing \in {t.title, data.title} \/ t.title = data.title

(* A toast that was dismissed is on its way out, or will hear of it. *)
Heard(t, w) == t.dismissed \/ t.id \in Range(w.notices) \/ t.id \notin w.dismissed

Closes(t) == t.dismissed \/ ~t.finite \/ t.type = "loading" \/ t.paused \/ t.timer

(* The ids of the toasts that stay. *)
Staying(list) == {list[i].id : i \in {j \in DOMAIN list : ~list[j].dismissed}}

Distinct(list) == \A i, j \in DOMAIN list : list[i].id = list[j].id => i = j

(* A world in which all is well but for toasts that are dismissed next. *)
Good(w, data, ids) ==
  /\ Distinct(w.shown)
  /\ \A i \in DOMAIN w.shown :
       LET t == w.shown[i] IN
       /\ t.id \in DOMAIN data /\ Drawn(t, data[t.id]) /\ Closes(t)
       /\ t.id \in ids \/ Heard(t, w)
  /\ IsFiniteSet(Staying(w.shown)) /\ Cardinality(Staying(w.shown)) <= VisibleToasts

ToastsInv ==
  /\ TypeOK
  /\ Good(World, known, {})
  /\ ~present => shown = <<>>

-----------------------------------------------------------------------------
(* Lists of toasts. *)

LEMMA ListFields ==
  ASSUME NEW list \in Seq(ToastRecord)
  PROVE  /\ DOMAIN list = 1..Len(list) /\ Len(list) \in Nat
         /\ \A i \in DOMAIN list : list[i] \in ToastRecord
BY ElementOfSeq, LenProperties

LEMMA FunctionIsSeq ==
  ASSUME NEW S, NEW n \in Nat, NEW f, DOMAIN f = 1..n, f = [i \in 1..n |-> f[i]],
         \A i \in 1..n : f[i] \in S
  PROVE  f \in Seq(S)
OBVIOUS

LEMMA AtIndex ==
  ASSUME NEW list, Distinct(list), NEW i \in DOMAIN list
  PROVE  PlaceOf(list, list[i].id) = i
BY DEF PlaceOf, Distinct

LEMMA AtFound ==
  ASSUME NEW list, NEW id \in {list[j].id : j \in DOMAIN list}
  PROVE  PlaceOf(list, id) \in DOMAIN list /\ list[PlaceOf(list, id)].id = id
BY DEF PlaceOf

LEMMA EmptyGood ==
  ASSUME NEW w \in WorldRecord, w.shown = <<>>, NEW data, NEW ids
  PROVE  Good(w, data, ids)
<1>1. DOMAIN w.shown = {}
  OBVIOUS
<1>2. Staying(w.shown) = {}
  BY <1>1 DEF Staying
<1>3. IsFiniteSet(Staying(w.shown)) /\ Cardinality(Staying(w.shown)) = 0
  BY <1>2, FS_EmptySet
<1> QED BY <1>1, <1>3, ToastsAssumption DEF Good, Distinct

(* One toast is redrawn. *)
LEMMA ToastChanges ==
  ASSUME NEW w \in WorldRecord, NEW data, NEW new \in WorldRecord, NEW changed, NEW ids,
         Good(w, data, ids), NEW i \in DOMAIN w.shown, NEW t \in ToastRecord,
         new.shown = [w.shown EXCEPT ![i] = t], t.id = w.shown[i].id,
         t.dismissed = w.shown[i].dismissed,
         new.dismissed = w.dismissed, new.notices = w.notices,
         t.id \in DOMAIN changed, Drawn(t, changed[t.id]), Closes(t),
         \A id \in DOMAIN data \ {t.id} : id \in DOMAIN changed /\ changed[id] = data[id]
  PROVE  Good(new, changed, ids)
<1>1. DOMAIN new.shown = DOMAIN w.shown
  OBVIOUS
<1>2. \A j \in DOMAIN w.shown :
        /\ new.shown[j].id = w.shown[j].id /\ new.shown[j].dismissed = w.shown[j].dismissed
        /\ new.shown[j] = IF j = i THEN t ELSE w.shown[j]
  OBVIOUS
<1>3. Staying(new.shown) = Staying(w.shown)
  BY <1>1, <1>2 DEF Staying
<1>4. Distinct(new.shown)
  BY <1>1, <1>2 DEF Good, Distinct
<1>5. ASSUME NEW j \in DOMAIN new.shown
      PROVE  LET u == new.shown[j] IN
             /\ u.id \in DOMAIN changed /\ Drawn(u, changed[u.id]) /\ Closes(u)
             /\ u.id \in ids \/ Heard(u, new)
  <2>1. CASE j = i
    BY <1>2, <2>1 DEF Good, Heard
  <2>2. CASE j # i
    <3>1. w.shown[j].id # t.id /\ new.shown[j] = w.shown[j]
      BY <1>1, <1>2, <2>2 DEF Good, Distinct
    <3> QED BY <1>1, <3>1 DEF Good, Heard
  <2> QED BY <2>1, <2>2
<1> QED BY <1>3, <1>4, <1>5 DEF Good

LEMMA EndedToast ==
  ASSUME NEW t \in ToastRecord
  PROVE  /\ Ended(t) \in ToastRecord /\ Ended(t).id = t.id /\ Ended(t).dismissed
         /\ Ended(t).type = t.type /\ Ended(t).title = t.title
         /\ Ended(t).description = t.description
BY DEF Ended, ToastRecord

(* Those that are dismissed do not stay, the others are left as they are. *)
LEMMA DismissGood ==
  ASSUME NEW w \in WorldRecord, NEW data, NEW ids, Good(w, data, ids)
  PROVE  LET new == DismissEach(w, ids) IN
         /\ new \in WorldRecord /\ Good(new, data, {})
         /\ new.notices = w.notices
         /\ DOMAIN new.shown = DOMAIN w.shown
         /\ \A i \in DOMAIN w.shown : new.shown[i].id = w.shown[i].id
         /\ new.dismissed \subseteq w.dismissed \cup ids
         /\ Staying(new.shown) = Staying(w.shown) \ ids
<1> DEFINE new == DismissEach(w, ids)
           going == {i \in DOMAIN w.shown : w.shown[i].id \in ids /\ ~w.shown[i].dismissed}
<1>1. /\ w.shown \in Seq(ToastRecord) /\ w.notices \in Seq(Ids) /\ w.dismissed \in SUBSET Ids
      /\ DOMAIN w.shown = 1..Len(w.shown) /\ Len(w.shown) \in Nat
      /\ \A i \in DOMAIN w.shown : w.shown[i] \in ToastRecord
  BY ListFields DEF WorldRecord
<1>2. /\ new.dismissed = w.dismissed \cup {w.shown[i].id : i \in going}
      /\ new.notices = w.notices
      /\ new.shown = [i \in DOMAIN w.shown |->
                        IF i \in going THEN Ended(w.shown[i]) ELSE w.shown[i]]
      /\ new = [dismissed |-> new.dismissed, notices |-> new.notices, shown |-> new.shown]
  BY DEF DismissEach
<1> HIDE DEF new
<1>3. /\ DOMAIN new.shown = DOMAIN w.shown
      /\ \A i \in DOMAIN w.shown :
           /\ new.shown[i] \in ToastRecord
           /\ new.shown[i].id = w.shown[i].id
           /\ new.shown[i].dismissed <=> w.shown[i].dismissed \/ w.shown[i].id \in ids
           /\ new.shown[i].type = w.shown[i].type
           /\ new.shown[i].title = w.shown[i].title
           /\ new.shown[i].description = w.shown[i].description
           /\ new.shown[i].dismissed \/ new.shown[i] = w.shown[i]
  <2>1. DOMAIN new.shown = DOMAIN w.shown
    BY <1>2
  <2>2. ASSUME NEW i \in DOMAIN w.shown
        PROVE  /\ new.shown[i] \in ToastRecord
               /\ new.shown[i].id = w.shown[i].id
               /\ new.shown[i].dismissed <=> w.shown[i].dismissed \/ w.shown[i].id \in ids
               /\ new.shown[i].type = w.shown[i].type
               /\ new.shown[i].title = w.shown[i].title
               /\ new.shown[i].description = w.shown[i].description
               /\ new.shown[i].dismissed \/ new.shown[i] = w.shown[i]
    <3>1. CASE i \in going
      <4>1. new.shown[i] = Ended(w.shown[i]) /\ w.shown[i].id \in ids
        BY <1>2, <3>1
      <4> HIDE DEF going
      <4> QED BY <1>1, <4>1, EndedToast
    <3>2. CASE i \notin going
      <4>1. new.shown[i] = w.shown[i]
        BY <1>2, <3>2
      <4>2. w.shown[i].id \in ids => w.shown[i].dismissed
        BY <3>2
      <4> QED BY <1>1, <4>1, <4>2
    <3> QED BY <3>1, <3>2
  <2> QED BY <2>1, <2>2
<1>4. new.shown \in Seq(ToastRecord)
  <2>1. PICK list : list = new.shown
    OBVIOUS
  <2>2. DOMAIN list = 1..Len(w.shown) /\ list = [i \in DOMAIN list |-> list[i]]
    BY <1>1, <1>2, <2>1
  <2>3. \A i \in 1..Len(w.shown) : list[i] \in ToastRecord
    BY <1>1, <1>3, <2>1
  <2>4. list \in Seq(ToastRecord)
    BY <1>1, <2>2, <2>3, FunctionIsSeq
  <2> QED BY <2>1, <2>4
<1>5. new.dismissed \in SUBSET Ids /\ new.dismissed \subseteq w.dismissed \cup ids
  BY <1>1, <1>2 DEF ToastRecord
<1>6. new \in WorldRecord
  BY <1>1, <1>2, <1>4, <1>5 DEF WorldRecord
<1>7. Staying(new.shown) = Staying(w.shown) \ ids
  BY <1>3 DEF Staying
<1>8. IsFiniteSet(Staying(new.shown)) /\ Cardinality(Staying(new.shown)) <= VisibleToasts
  <2>1. /\ IsFiniteSet(Staying(w.shown)) /\ Cardinality(Staying(w.shown)) <= VisibleToasts
        /\ Cardinality(Staying(w.shown)) \in Nat
    BY FS_CardinalityType DEF Good
  <2>2. Staying(new.shown) \in SUBSET Staying(w.shown)
    BY <1>7
  <2>3. /\ IsFiniteSet(Staying(new.shown))
        /\ Cardinality(Staying(new.shown)) <= Cardinality(Staying(w.shown))
    BY <2>1, <2>2, FS_Subset
  <2>4. Cardinality(Staying(new.shown)) \in Nat
    BY <2>3, FS_CardinalityType
  <2> QED BY <2>1, <2>3, <2>4, ToastsAssumption
<1>9. Distinct(new.shown)
  BY <1>3 DEF Good, Distinct
<1>10. ASSUME NEW i \in DOMAIN new.shown
       PROVE  LET t == new.shown[i] IN
              /\ t.id \in DOMAIN data /\ Drawn(t, data[t.id]) /\ Closes(t)
              /\ Heard(t, new)
  <2>1. /\ w.shown[i].id \in DOMAIN data /\ Drawn(w.shown[i], data[w.shown[i].id])
        /\ Closes(w.shown[i])
        /\ w.shown[i].id \in ids \/ Heard(w.shown[i], w)
    BY <1>3 DEF Good
  <2>2. CASE new.shown[i].dismissed
    BY <1>3, <2>1, <2>2 DEF Drawn, Closes, Heard
  <2>3. CASE ~new.shown[i].dismissed
    <3>1. new.shown[i] = w.shown[i] /\ w.shown[i].id \notin ids
      BY <1>3, <2>3
    <3>2. w.shown[i].id \in new.dismissed => w.shown[i].id \in w.dismissed
      BY <1>5, <3>1
    <3>3. Heard(new.shown[i], new)
      <4>1. Heard(w.shown[i], w) /\ ~w.shown[i].dismissed /\ new.notices = w.notices
        BY <1>2, <2>1, <2>3, <3>1
      <4> QED BY <3>1, <3>2, <4>1 DEF Heard
    <3> QED BY <2>1, <3>1, <3>3
  <2> QED BY <2>2, <2>3
<1> QED BY <1>2, <1>3, <1>5, <1>6, <1>7, <1>8, <1>9, <1>10 DEF Good, new

(* A text put at the end of a list. *)
LEMMA AppendShape ==
  ASSUME NEW S, NEW list \in Seq(S), NEW e \in S
  PROVE  /\ Append(list, e) \in Seq(S)
         /\ DOMAIN Append(list, e) = DOMAIN list \cup {Len(list) + 1}
         /\ Len(list) + 1 \notin DOMAIN list
         /\ Append(list, e)[Len(list) + 1] = e
         /\ \A i \in DOMAIN list : Append(list, e)[i] = list[i]
<1>1. /\ Append(list, e) \in Seq(S) /\ Len(Append(list, e)) = Len(list) + 1
      /\ Len(list) \in Nat /\ DOMAIN list = 1..Len(list)
      /\ Append(list, e)[Len(list) + 1] = e
      /\ \A i \in 1..Len(list) : Append(list, e)[i] = list[i]
  BY AppendProperties, LenProperties
<1>2. DOMAIN Append(list, e) = 1..Len(list) + 1
  BY <1>1, LenProperties
<1> QED BY <1>1, <1>2

(* The oldest are dismissed so that there is room for one more. *)
LEMMA RoomForOne ==
  ASSUME NEW list \in Seq(ToastRecord), Distinct(list)
  PROVE  LET stay == Staying(list) \ Overflow(list) IN
         IsFiniteSet(stay) /\ Cardinality(stay) <= VisibleToasts - 1
<1> DEFINE stay == Staying(list) \ Overflow(list)
           first == IF Len(list) + 1 - VisibleToasts > 0 THEN Len(list) + 2 - VisibleToasts ELSE 1
           places == first..Len(list)
           f == [id \in stay |-> PlaceOf(list, id)]
<1>1. DOMAIN list = 1..Len(list) /\ Len(list) \in Nat /\ VisibleToasts \in Nat \ {0}
  BY ListFields, ToastsAssumption
<1>2. ASSUME NEW id \in stay
      PROVE  PlaceOf(list, id) \in places /\ list[PlaceOf(list, id)].id = id
  <2>1. PlaceOf(list, id) \in DOMAIN list /\ list[PlaceOf(list, id)].id = id
    BY AtFound DEF Staying
  <2>2. ~(PlaceOf(list, id) <= Len(list) + 1 - VisibleToasts)
    BY <2>1 DEF Overflow
  <2> QED BY <1>1, <2>1, <2>2
<1>3. f \in Injection(stay, places)
  <2> HIDE DEF stay, places
  <2>1. f \in [stay -> places]
    BY <1>2
  <2>2. \A a, b \in stay : f[a] = f[b] => a = b
    BY <1>2
  <2> QED BY <2>1, <2>2 DEF Injection, IsInjective
<1>4. /\ IsFiniteSet(places)
      /\ Cardinality(places) = IF first > Len(list) THEN 0 ELSE Len(list) - first + 1
  <2>1. first \in Int /\ Len(list) \in Int
    BY <1>1
  <2> HIDE DEF first
  <2> QED BY <2>1, FS_Interval
<1> HIDE DEF stay, f, places
<1>5. IsFiniteSet(stay) /\ Cardinality(stay) <= Cardinality(places)
  BY <1>3, <1>4, FS_Injection
<1>6. Cardinality(stay) \in Nat /\ Cardinality(places) \in Nat
  BY <1>4, <1>5, FS_CardinalityType
<1>7. Cardinality(places) <= VisibleToasts - 1
  <2> HIDE DEF places
  <2>1. CASE Len(list) + 1 - VisibleToasts > 0
    BY <1>1, <1>4, <2>1
  <2>2. CASE ~(Len(list) + 1 - VisibleToasts > 0)
    BY <1>1, <1>4, <2>2
  <2> QED BY <2>1, <2>2
<1>8. Cardinality(stay) <= VisibleToasts - 1
  BY <1>1, <1>5, <1>6, <1>7
<1> QED BY <1>5, <1>8 DEF stay

LEMMA NewToastType ==
  ASSUME NEW id \in Ids, NEW data \in DataRecord
  PROVE  /\ NewToast(id, data) \in ToastRecord /\ NewToast(id, data).id = id
         /\ ~NewToast(id, data).dismissed /\ Drawn(NewToast(id, data), data)
         /\ Closes(NewToast(id, data))
BY DEF NewToast, ToastRecord, DataRecord, Drawn, Closes, Finite, DescriptionSlot, Titles

LEMMA UpdateToastType ==
  ASSUME NEW t \in ToastRecord, NEW data \in DataRecord
  PROVE  /\ UpdateToast(t, data) \in ToastRecord /\ UpdateToast(t, data).id = t.id
         /\ UpdateToast(t, data).dismissed = t.dismissed /\ Drawn(UpdateToast(t, data), data)
         /\ Closes(UpdateToast(t, data))
<1> DEFINE title == TitleSlot(t.title, data)
           drawn == [t EXCEPT !.type = data.type, !.title = title, !.description = data.description]
<1>1. title \in Titles /\ (Nothing \in {title, data.title} \/ title = data.title)
  BY DEF TitleSlot, ToastRecord, DataRecord
<1> HIDE DEF title
<1>2. /\ drawn \in ToastRecord /\ drawn.id = t.id /\ drawn.dismissed = t.dismissed
      /\ drawn.type = data.type /\ drawn.title = title /\ drawn.description = data.description
  BY <1>1 DEF ToastRecord, DataRecord
<1> HIDE DEF drawn
<1>3. UpdateToast(t, data) =
        IF data.type = "loading" THEN drawn
        ELSE [drawn EXCEPT !.finite = Finite(data), !.timer = Finite(data)]
  BY DEF UpdateToast, drawn, title, DescriptionSlot
<1>4. CASE data.type = "loading"
  BY <1>1, <1>2, <1>3, <1>4 DEF Drawn, Closes
<1>5. CASE data.type # "loading"
  <2>1. /\ UpdateToast(t, data) \in ToastRecord
        /\ UpdateToast(t, data).id = t.id /\ UpdateToast(t, data).dismissed = t.dismissed
        /\ UpdateToast(t, data).type = data.type /\ UpdateToast(t, data).title = title
        /\ UpdateToast(t, data).description = data.description
        /\ UpdateToast(t, data).finite = UpdateToast(t, data).timer
    BY <1>2, <1>3, <1>5 DEF ToastRecord, Finite
  <2> QED BY <1>1, <2>1 DEF Drawn, Closes
<1> QED BY <1>4, <1>5

(* New data are shown, and nobody is short of room. *)
LEMMA AddGood ==
  ASSUME NEW w \in WorldRecord, NEW data, NEW changed, NEW id \in Ids, NEW new \in DataRecord,
         Good(w, data, {}), id \notin w.dismissed,
         id \in DOMAIN changed, changed[id] = new,
         \A other \in DOMAIN data \ {id} : other \in DOMAIN changed /\ changed[other] = data[other]
  PROVE  LET after == AddOrUpdate(w, id, new) IN
         /\ after \in WorldRecord /\ Good(after, changed, {})
         /\ after.notices = w.notices
         /\ \E i \in DOMAIN after.shown :
              /\ after.shown[i].id = id /\ after.shown[i].type = new.type
              /\ \/ ~after.shown[i].dismissed
                 \/ \E j \in DOMAIN w.shown : w.shown[j].id = id /\ w.shown[j].dismissed
<1> DEFINE after == AddOrUpdate(w, id, new)
<1>1. /\ w.shown \in Seq(ToastRecord) /\ w.notices \in Seq(Ids) /\ w.dismissed \in SUBSET Ids
      /\ DOMAIN w.shown = 1..Len(w.shown) /\ Len(w.shown) \in Nat
      /\ \A i \in DOMAIN w.shown : w.shown[i] \in ToastRecord
  BY ListFields DEF WorldRecord
<1>2. CASE id \in {w.shown[j].id : j \in DOMAIN w.shown}
  <2>1. PICK i : i = PlaceOf(w.shown, id)
    OBVIOUS
  <2>2. i \in DOMAIN w.shown /\ w.shown[i].id = id
    BY <1>2, <2>1, AtFound
  <2>3. PICK t : t = UpdateToast(w.shown[i], new)
    OBVIOUS
  <2>4. /\ t \in ToastRecord /\ t.id = id /\ t.dismissed = w.shown[i].dismissed
        /\ Drawn(t, new) /\ Closes(t)
    BY <1>1, <2>2, <2>3, UpdateToastType
  <2>5. after = [w EXCEPT !.shown[i] = t]
    BY <1>2, <2>1, <2>3 DEF AddOrUpdate
  <2> HIDE DEF after
  <2>6. /\ after.shown = [w.shown EXCEPT ![i] = t]
        /\ after.dismissed = w.dismissed /\ after.notices = w.notices
        /\ after = [dismissed |-> w.dismissed, notices |-> w.notices, shown |-> after.shown]
    BY <2>5 DEF WorldRecord
  <2>7. after.shown \in Seq(ToastRecord)
    BY <1>1, <2>2, <2>4, <2>6, ExceptSeq
  <2>8. after \in WorldRecord
    BY <1>1, <2>6, <2>7 DEF WorldRecord
  <2>9. Good(after, changed, {})
    BY <2>2, <2>4, <2>6, <2>8, ToastChanges
  <2>10. i \in DOMAIN after.shown /\ after.shown[i] = t
    BY <2>2, <2>6
  <2> QED BY <2>2, <2>4, <2>6, <2>8, <2>9, <2>10 DEF Drawn, after
<1>3. CASE id \notin {w.shown[j].id : j \in DOMAIN w.shown}
  <2>1. PICK room : room = DismissEach(w, Overflow(w.shown))
    OBVIOUS
  <2>2. /\ room \in WorldRecord /\ Good(room, data, {})
        /\ room.notices = w.notices
        /\ DOMAIN room.shown = DOMAIN w.shown
        /\ \A i \in DOMAIN w.shown : room.shown[i].id = w.shown[i].id
        /\ room.dismissed \subseteq w.dismissed \cup Overflow(w.shown)
        /\ Staying(room.shown) = Staying(w.shown) \ Overflow(w.shown)
    <3>1. PICK full : full = Overflow(w.shown)
      OBVIOUS
    <3>2. Good(w, data, full)
      BY DEF Good
    <3>3. /\ DismissEach(w, full) \in WorldRecord /\ Good(DismissEach(w, full), data, {})
          /\ DismissEach(w, full).notices = w.notices
          /\ DOMAIN DismissEach(w, full).shown = DOMAIN w.shown
          /\ \A i \in DOMAIN w.shown : DismissEach(w, full).shown[i].id = w.shown[i].id
          /\ DismissEach(w, full).dismissed \subseteq w.dismissed \cup full
          /\ Staying(DismissEach(w, full).shown) = Staying(w.shown) \ full
      BY <3>2, DismissGood
    <3> QED BY <2>1, <3>1, <3>3
  <2>3. PICK t : t = NewToast(id, new)
    OBVIOUS
  <2>4. /\ t \in ToastRecord /\ t.id = id /\ ~t.dismissed /\ Drawn(t, new) /\ Closes(t)
    BY <2>3, NewToastType
  <2>5. after = [room EXCEPT !.shown = Append(@, t)]
    BY <1>3, <2>1, <2>3 DEF AddOrUpdate
  <2> HIDE DEF after
  <2>6. /\ after.shown = Append(room.shown, t)
        /\ after.dismissed = room.dismissed /\ after.notices = w.notices
        /\ after = [dismissed |-> room.dismissed, notices |-> w.notices, shown |-> after.shown]
    BY <2>2, <2>5 DEF WorldRecord
  <2>7. room.shown \in Seq(ToastRecord) /\ room.dismissed \in SUBSET Ids
    BY <2>2 DEF WorldRecord
  <2>8. PICK last : last = Len(room.shown) + 1
    OBVIOUS
  <2>9. /\ after.shown \in Seq(ToastRecord)
        /\ DOMAIN after.shown = DOMAIN room.shown \cup {last} /\ last \notin DOMAIN room.shown
        /\ after.shown[last] = t
        /\ \A i \in DOMAIN room.shown : after.shown[i] = room.shown[i]
    BY <2>4, <2>6, <2>7, <2>8, AppendShape
  <2>10. after \in WorldRecord
    BY <1>1, <2>6, <2>7, <2>9 DEF WorldRecord
  <2>11. \A i \in DOMAIN room.shown : room.shown[i].id # id
    BY <1>3, <2>2
  <2>12. Distinct(after.shown)
    BY <2>2, <2>4, <2>9, <2>11 DEF Good, Distinct
  <2>13. Staying(after.shown) = Staying(room.shown) \cup {id}
    BY <2>4, <2>9 DEF Staying
  <2>14. /\ IsFiniteSet(Staying(after.shown))
         /\ Cardinality(Staying(after.shown)) <= VisibleToasts
    <3>1. /\ IsFiniteSet(Staying(room.shown))
          /\ Cardinality(Staying(room.shown)) <= VisibleToasts - 1
      BY <1>1, <2>2, RoomForOne DEF Good
    <3>2. Cardinality(Staying(room.shown)) \in Nat
      BY <3>1, FS_CardinalityType
    <3>3. /\ IsFiniteSet(Staying(room.shown) \cup {id})
          /\ \/ Cardinality(Staying(room.shown) \cup {id}) = Cardinality(Staying(room.shown))
             \/ Cardinality(Staying(room.shown) \cup {id}) = Cardinality(Staying(room.shown)) + 1
      BY <3>1, FS_AddElement
    <3> QED BY <2>13, <3>1, <3>2, <3>3, ToastsAssumption
  <2>15. ASSUME NEW i \in DOMAIN after.shown
         PROVE  LET u == after.shown[i] IN
                /\ u.id \in DOMAIN changed /\ Drawn(u, changed[u.id]) /\ Closes(u)
                /\ Heard(u, after)
    <3>1. CASE i = last
      <4>1. id \notin Overflow(w.shown)
        BY <1>3 DEF Overflow
      <4>2. id \notin room.dismissed
        BY <2>2, <4>1
      <4> QED BY <2>4, <2>6, <2>9, <3>1, <4>2 DEF Heard
    <3>2. CASE i # last
      <4>1. i \in DOMAIN room.shown /\ after.shown[i] = room.shown[i] /\ room.shown[i].id # id
        BY <2>9, <2>11, <3>2
      <4>2. /\ room.shown[i].id \in DOMAIN data /\ Drawn(room.shown[i], data[room.shown[i].id])
            /\ Closes(room.shown[i]) /\ Heard(room.shown[i], room)
        BY <2>2, <4>1 DEF Good
      <4>3. Heard(room.shown[i], after)
        BY <2>2, <2>6, <4>2 DEF Heard
      <4> QED BY <4>1, <4>2, <4>3
    <3> QED BY <3>1, <3>2
  <2>16. Good(after, changed, {})
    BY <2>12, <2>14, <2>15 DEF Good
  <2> QED BY <2>4, <2>6, <2>9, <2>10, <2>16 DEF Drawn, after
<1> QED BY <1>2, <1>3

-----------------------------------------------------------------------------
(* What the Observer keeps. *)

LEMMA EmptyList ==
  ASSUME NEW S, NEW list \in Seq(S), DOMAIN list = {}
  PROVE  list = <<>>
<1>1. Len(list) \in Nat /\ DOMAIN list = 1..Len(list)
  BY LenProperties
<1>2. Len(list) = 0
  BY <1>1
<1> QED BY <1>2, EmptySeq

(* What is left when one is taken out. *)
LEMMA RemoveShape ==
  ASSUME NEW S, NEW list \in Seq(S), NEW i \in DOMAIN list
  PROVE  /\ RemoveAt(list, i) \in Seq(S) /\ Len(RemoveAt(list, i)) = Len(list) - 1
         /\ \A j \in DOMAIN RemoveAt(list, i) :
              LET k == IF j < i THEN j ELSE j + 1
              IN k \in DOMAIN list \ {i} /\ RemoveAt(list, i)[j] = list[k]
<1> DEFINE before == SubSeq(list, 1, i - 1)
           behind == SubSeq(list, i + 1, Len(list))
<1>1. Len(list) \in Nat /\ DOMAIN list = 1..Len(list) /\ i \in 1..Len(list)
  BY LenProperties
<1>2. /\ before \in Seq(S) /\ Len(before) = i - 1
      /\ \A j \in 1..i - 1 : before[j] = list[j]
  <2>1. \A j \in 1..i - 1 : list[j] \in S
    BY <1>1, ElementOfSeq
  <2> QED BY <1>1, <2>1, SubSeqProperties
<1>3. /\ behind \in Seq(S) /\ Len(behind) = Len(list) - i
      /\ \A j \in 1..Len(list) - i : behind[j] = list[i + j]
  <2>1. \A j \in i + 1..Len(list) : list[j] \in S
    BY <1>1, ElementOfSeq
  <2> QED BY <1>1, <2>1, SubSeqProperties
<1>4. RemoveAt(list, i) = before \o behind
  BY DEF RemoveAt
<1> HIDE DEF before, behind
<1>5. /\ before \o behind \in Seq(S) /\ Len(before \o behind) = Len(list) - 1
      /\ \A j \in 1..Len(list) - 1 :
           (before \o behind)[j] = IF j <= i - 1 THEN before[j] ELSE behind[j - (i - 1)]
  <2>1. /\ before \o behind \in Seq(S) /\ Len(before \o behind) = Len(before) + Len(behind)
        /\ \A j \in 1..Len(before) + Len(behind) :
             (before \o behind)[j] =
               IF j <= Len(before) THEN before[j] ELSE behind[j - Len(before)]
    BY <1>2, <1>3, ConcatProperties
  <2>2. Len(before) + Len(behind) = Len(list) - 1
    BY <1>1, <1>2, <1>3
  <2> QED BY <1>2, <2>1, <2>2
<1>6. DOMAIN (before \o behind) = 1..Len(list) - 1
  BY <1>5, LenProperties
<1>7. ASSUME NEW j \in 1..Len(list) - 1
      PROVE  LET k == IF j < i THEN j ELSE j + 1
             IN k \in DOMAIN list \ {i} /\ (before \o behind)[j] = list[k]
  <2>1. CASE j < i
    BY <1>1, <1>2, <1>5, <2>1
  <2>2. CASE ~(j < i)
    <3>1. j - (i - 1) \in 1..Len(list) - i /\ i + (j - (i - 1)) = j + 1
      BY <1>1, <2>2
    <3>2. behind[j - (i - 1)] = list[j + 1]
      BY <1>3, <3>1
    <3> QED BY <1>1, <1>5, <2>2, <3>2
  <2> QED BY <2>1, <2>2
<1> QED BY <1>4, <1>5, <1>6, <1>7

LEMMA AppendRange ==
  ASSUME NEW S, NEW list \in Seq(S), NEW e \in S
  PROVE  Range(Append(list, e)) = Range(list) \cup {e}
BY AppendShape DEF Range

LEMMA TailRange ==
  ASSUME NEW S, NEW list \in Seq(S), list # <<>>
  PROVE  /\ Head(list) \in S /\ Tail(list) \in Seq(S)
         /\ Range(list) \subseteq {Head(list)} \cup Range(Tail(list))
<1>1. /\ Head(list) \in S /\ Tail(list) \in Seq(S) /\ Head(list) = list[1]
      /\ Len(Tail(list)) = Len(list) - 1 /\ Len(list) \in Nat /\ Len(list) # 0
      /\ DOMAIN list = 1..Len(list) /\ DOMAIN Tail(list) = 1..Len(list) - 1
      /\ \A j \in 1..Len(list) - 1 : Tail(list)[j] = list[j + 1]
  BY HeadTailProperties, LenProperties, EmptySeq
<1>2. ASSUME NEW j \in DOMAIN list
      PROVE  list[j] \in {Head(list)} \cup Range(Tail(list))
  <2>1. CASE j = 1
    BY <1>1, <2>1
  <2>2. CASE j # 1
    <3>1. j - 1 \in DOMAIN Tail(list) /\ Tail(list)[j - 1] = list[j]
      BY <1>1, <2>2
    <3> QED BY <3>1 DEF Range
  <2> QED BY <2>1, <2>2
<1> QED BY <1>1, <1>2 DEF Range

LEMMA BecomesWorld ==
  ASSUME NEW w \in WorldRecord, Becomes(w)
  PROVE  World' = w
BY DEF Becomes, World, WorldRecord

(* The Observer alone changes. *)
LEMMA ObserverChanges ==
  ASSUME NEW w, NEW data, NEW new, NEW ids, NEW left,
         Good(w, data, ids), new.shown = w.shown,
         \A i \in DOMAIN w.shown :
           w.shown[i].id \in ids \/ Heard(w.shown[i], w) =>
             w.shown[i].id \in left \/ Heard(w.shown[i], new)
  PROVE  Good(new, data, left)
BY DEF Good

LEMMA MergeType ==
  ASSUME TypeOK, NEW id \in Ids, NEW data \in DataRecord
  PROVE  Merge(id, data) \in DataRecord /\ Merge(id, data).type = data.type
<1> DEFINE old == IF id \in DOMAIN known THEN known[id]
                  ELSE [description |-> Nothing, duration |-> "finite"]
<1>1. old.description \in ToastDescriptions /\ old.duration \in Durations
  <2>1. CASE id \in DOMAIN known
    <3>1. known[id] \in DataRecord
      BY <2>1 DEF TypeOK, Knowledge
    <3> QED BY <2>1, <3>1 DEF DataRecord
  <2>2. CASE id \notin DOMAIN known
    BY <2>2 DEF ToastDescriptions, Durations
  <2> QED BY <2>1, <2>2
<1>2. Merge(id, data) =
        [data EXCEPT !.description = IF @ = Absent THEN old.description ELSE @,
                     !.duration = IF @ = Absent THEN old.duration ELSE @]
  BY DEF Merge
<1> HIDE DEF old
<1> QED BY <1>1, <1>2 DEF DataRecord

LEMMA DataType ==
  ASSUME NEW type \in ToastTypes, NEW options \in Given
  PROVE  Data(type, type, options) \in DataRecord /\ Data(type, type, options).type = type
BY DEF Data, DataRecord, Titles, ToastDescriptions, Durations

LEMMA ResultType ==
  ASSUME NEW type \in ToastTypes, NEW op \in Operation
  PROVE  ResultData(op, type) \in DataRecord /\ ResultData(op, type).type = type
BY DEF ResultData, DataRecord, Operation, Titles, Durations

LEMMA OutcomeType ==
  ASSUME NEW op, NEW settled, NEW broken
  PROVE  Outcome(op, settled, broken) \in {Nothing, "dismiss", "success", "error"}
BY DEF Outcome, Fulfilled, Caught, Nothing

-----------------------------------------------------------------------------
(* The steps. *)

Kept ==
  /\ known' \in Knowledge /\ World' \in WorldRecord /\ Good(World', known', {})
  /\ ~present' => shown' = <<>>

LEMMA WorldFields ==
  /\ World.dismissed = dismissed /\ World.notices = notices /\ World.shown = shown
  /\ World'.dismissed = dismissed' /\ World'.notices = notices' /\ World'.shown = shown'
BY DEF World

LEMMA ShownType ==
  ASSUME ToastsInv
  PROVE  /\ shown \in Seq(ToastRecord) /\ dismissed \in SUBSET Ids /\ notices \in Seq(Ids)
         /\ \A i \in DOMAIN shown :
              /\ shown[i] \in ToastRecord /\ shown[i].id \in DOMAIN known
              /\ Drawn(shown[i], known[shown[i].id]) /\ Closes(shown[i]) /\ Heard(shown[i], World)
         /\ Distinct(shown) /\ DOMAIN known \in SUBSET Ids
<1>1. shown \in Seq(ToastRecord) /\ dismissed \in SUBSET Ids /\ notices \in Seq(Ids)
  BY DEF ToastsInv, TypeOK, WorldRecord, World
<1>2. \A i \in DOMAIN shown : shown[i] \in ToastRecord
  BY <1>1, ListFields
<1>3. DOMAIN known \in SUBSET Ids
  BY DEF ToastsInv, TypeOK, Knowledge
<1>4. Good(World, known, {})
  BY DEF ToastsInv
<1> QED BY <1>1, <1>2, <1>3, <1>4, WorldFields DEF Good

(* A world that lists the toasts in ids for dismissal. *)
LEMMA DismissKeeps ==
  ASSUME ToastsInv, NEW w \in WorldRecord, NEW ids, w.shown = shown, Good(w, known, ids),
         Becomes(DismissEach(w, ids)), known' = known, present' = present
  PROVE  Kept
<1>1. PICK new : new = DismissEach(w, ids)
  OBVIOUS
<1>2. /\ DismissEach(w, ids) \in WorldRecord /\ Good(DismissEach(w, ids), known, {})
      /\ DOMAIN DismissEach(w, ids).shown = DOMAIN w.shown
  BY DismissGood
<1>3. new \in WorldRecord /\ Good(new, known, {}) /\ DOMAIN new.shown = DOMAIN shown
  BY <1>1, <1>2
<1>4. World' = new
  BY <1>1, <1>3, BecomesWorld
<1>5. shown' \in Seq(ToastRecord) /\ DOMAIN shown' = DOMAIN shown
  BY <1>3, <1>4, WorldFields DEF WorldRecord
<1>6. ~present' => shown' = <<>>
  <2>1. ~present => DOMAIN shown = {}
    BY DEF ToastsInv
  <2> QED BY <1>5, <2>1, EmptyList
<1>7. known' \in Knowledge
  BY DEF ToastsInv, TypeOK
<1> QED BY <1>3, <1>4, <1>6, <1>7 DEF Kept

LEMMA CloseKeeps ==
  ASSUME ToastsInv, NEW id, Close(id)
  PROVE  Kept
<1>1. World \in WorldRecord /\ Good(World, known, {})
  BY DEF ToastsInv, TypeOK
<1>2. Good(World, known, {id})
  BY <1>1 DEF Good
<1>3. Becomes(DismissEach(World, {id})) /\ known' = known /\ present' = present
  BY DEF Close, DismissToast
<1> QED BY <1>1, <1>2, <1>3, WorldFields, DismissKeeps

LEMMA DismissAllKeeps ==
  ASSUME ToastsInv, DismissAll
  PROVE  Kept
<1>1. PICK w : w = [World EXCEPT !.dismissed = @ \cup DOMAIN known]
  OBVIOUS
<1>2. /\ w.shown = shown /\ w.notices = notices /\ w.dismissed = dismissed \cup DOMAIN known
      /\ w = [dismissed |-> w.dismissed, notices |-> w.notices, shown |-> w.shown]
  BY <1>1 DEF World
<1>3. w \in WorldRecord
  BY <1>2, ShownType DEF WorldRecord
<1>4. Good(w, known, ShownIds)
  <2>1. Good(World, known, {})
    BY DEF ToastsInv
  <2>2. w.shown = World.shown /\ \A i \in DOMAIN w.shown : w.shown[i].id \in ShownIds
    BY <1>2, WorldFields DEF ShownIds
  <2>3. \A i \in DOMAIN World.shown :
          World.shown[i].id \in {} \/ Heard(World.shown[i], World) =>
            World.shown[i].id \in ShownIds \/ Heard(World.shown[i], w)
    BY <2>2
  <2> QED BY <2>1, <2>2, <2>3, ObserverChanges
<1>5. Becomes(DismissEach(w, ShownIds)) /\ known' = known /\ present' = present
  BY <1>1 DEF DismissAll
<1> QED BY <1>2, <1>3, <1>4, <1>5, DismissKeeps

LEMMA ToldKeeps ==
  ASSUME ToastsInv, Told
  PROVE  Kept
<1>1. PICK w : w = [World EXCEPT !.notices = Tail(@)]
  OBVIOUS
<1>2. PICK id : id = Head(notices)
  OBVIOUS
<1>3. Tail(notices) \in Seq(Ids) /\ Range(notices) \subseteq {id} \cup Range(Tail(notices))
  BY <1>2, ShownType, TailRange DEF Told
<1>4. /\ w.shown = shown /\ w.notices = Tail(notices) /\ w.dismissed = dismissed
      /\ w = [dismissed |-> w.dismissed, notices |-> w.notices, shown |-> w.shown]
  BY <1>1 DEF World
<1>5. w \in WorldRecord
  BY <1>3, <1>4, ShownType DEF WorldRecord
<1>6. Good(w, known, {id})
  <2>1. Good(World, known, {})
    BY DEF ToastsInv
  <2>2. \A i \in DOMAIN World.shown :
          World.shown[i].id \in {} \/ Heard(World.shown[i], World) =>
            World.shown[i].id \in {id} \/ Heard(World.shown[i], w)
    BY <1>3, <1>4, WorldFields DEF Heard
  <2> QED BY <1>4, <2>1, <2>2, WorldFields, ObserverChanges
<1>7. Becomes(DismissEach(w, {id})) /\ known' = known /\ present' = present
  BY <1>1, <1>2 DEF Told, DismissToast
<1> QED BY <1>4, <1>5, <1>6, <1>7, DismissKeeps

(* The Observer notes a dismissal, and the subscribers are to hear of it. *)
LEMMA NotedKeeps ==
  ASSUME ToastsInv, NEW id \in Ids,
         dismissed' = dismissed \cup {id}, notices' = Append(notices, id),
         known' = known, shown' = shown, present' = present
  PROVE  Kept
<1>1. notices' \in Seq(Ids) /\ Range(notices') = Range(notices) \cup {id}
  BY ShownType, AppendShape, AppendRange
<1>2. World' \in WorldRecord
  BY <1>1, ShownType DEF World, WorldRecord
<1>3. Good(World, known, {}) /\ known \in Knowledge /\ (~present => shown = <<>>)
  BY DEF ToastsInv, TypeOK
<1>4. \A i \in DOMAIN World.shown :
        World.shown[i].id \in {} \/ Heard(World.shown[i], World) =>
          World.shown[i].id \in {} \/ Heard(World.shown[i], World')
  BY <1>1, WorldFields DEF Heard
<1>5. Good(World', known, {})
  BY <1>3, <1>4, WorldFields, ObserverChanges
<1> QED BY <1>2, <1>3, <1>5 DEF Kept

LEMMA UnmountKeeps ==
  ASSUME ToastsInv, NEW id, Unmount(id)
  PROVE  Kept
<1>1. PICK i : i = PlaceOf(shown, id)
  OBVIOUS
<1>2. i \in DOMAIN shown /\ shown[i].id = id /\ shown[i].dismissed
  BY <1>1, AtFound DEF Unmount, ShownIds, Toast
<1>3. PICK list : list = RemoveAt(shown, i)
  OBVIOUS
<1>4. /\ shown' = list /\ list \in Seq(ToastRecord)
      /\ \A j \in DOMAIN list :
           LET k == IF j < i THEN j ELSE j + 1
           IN k \in DOMAIN shown \ {i} /\ list[j] = shown[k]
  BY <1>1, <1>2, <1>3, ShownType, RemoveShape DEF Unmount
<1>5. /\ known' = known /\ dismissed' = dismissed /\ notices' = notices /\ present' = present
      /\ present
  <2>1. DOMAIN shown # {}
    BY <1>2
  <2> QED BY <2>1 DEF Unmount, ToastsInv
<1>6. World' \in WorldRecord
  BY <1>4, <1>5, ShownType DEF World, WorldRecord
<1>7. Distinct(list)
  <2>1. ASSUME NEW a \in DOMAIN list, NEW b \in DOMAIN list, list[a].id = list[b].id
        PROVE  a = b
    <3>1. (IF a < i THEN a ELSE a + 1) = (IF b < i THEN b ELSE b + 1)
      BY <1>4, <2>1, ShownType DEF Distinct
    <3>2. a \in Nat /\ b \in Nat /\ i \in Nat
      BY <1>2, <1>4, ShownType, LenProperties
    <3> QED BY <3>1, <3>2
  <2> QED BY <2>1 DEF Distinct
<1>8. Staying(list) \in SUBSET Staying(shown)
  BY <1>4 DEF Staying
<1>9. IsFiniteSet(Staying(list)) /\ Cardinality(Staying(list)) <= VisibleToasts
  <2>1. IsFiniteSet(Staying(shown)) /\ Cardinality(Staying(shown)) <= VisibleToasts
    BY WorldFields DEF ToastsInv, Good
  <2>2. /\ IsFiniteSet(Staying(list))
        /\ Cardinality(Staying(list)) <= Cardinality(Staying(shown))
    BY <1>8, <2>1, FS_Subset
  <2>3. Cardinality(Staying(list)) \in Nat /\ Cardinality(Staying(shown)) \in Nat
    BY <2>1, <2>2, FS_CardinalityType
  <2> QED BY <2>1, <2>2, <2>3, ToastsAssumption
<1>10. \A j \in DOMAIN list :
         /\ list[j].id \in DOMAIN known /\ Drawn(list[j], known[list[j].id]) /\ Closes(list[j])
         /\ Heard(list[j], World')
  <2>1. ASSUME NEW k \in DOMAIN shown
        PROVE  Heard(shown[k], World')
    BY <1>5, <2>1, ShownType, WorldFields DEF Heard
  <2> QED BY <1>4, <2>1, ShownType
<1>11. Good(World', known, {})
  BY <1>4, <1>7, <1>9, <1>10, WorldFields DEF Good
<1> QED BY <1>5, <1>6, <1>11 DEF Kept, ToastsInv, TypeOK

(* The mouse moves onto a toast, or off it. *)
LEMMA RedrawKeeps ==
  ASSUME ToastsInv, NEW id \in ShownIds, NEW t \in ToastRecord,
         t.id = Toast(id).id, t.dismissed = Toast(id).dismissed, t.type = Toast(id).type,
         t.title = Toast(id).title, t.description = Toast(id).description, Closes(t),
         shown' = [shown EXCEPT ![PlaceOf(shown, id)] = t],
         UNCHANGED <<known, dismissed, notices, present>>
  PROVE  Kept
<1>1. PICK i : i = PlaceOf(shown, id)
  OBVIOUS
<1>2. i \in DOMAIN shown /\ shown[i] = Toast(id) /\ shown' = [shown EXCEPT ![i] = t]
  BY <1>1, AtFound DEF ShownIds, Toast
<1>3. shown' \in Seq(ToastRecord)
  <2>1. i \in 1..Len(shown)
    BY <1>2, ShownType, ListFields
  <2>2. PICK list \in Seq(ToastRecord) : list = shown
    BY ShownType
  <2>3. [list EXCEPT ![i] = t] \in Seq(ToastRecord)
    BY <2>1, <2>2, ExceptSeq
  <2> QED BY <1>2, <2>2, <2>3
<1>4. World' \in WorldRecord
  BY <1>3, ShownType DEF World, WorldRecord
<1>5. t.id \in DOMAIN known /\ Drawn(t, known[t.id])
  BY <1>2, ShownType DEF Drawn
<1>6. World \in WorldRecord /\ Good(World, known, {}) /\ known \in Knowledge
  BY DEF ToastsInv, TypeOK
<1>7. Good(World', known, {})
  <2>1. PICK new : new = World'
    OBVIOUS
  <2>2. /\ new \in WorldRecord /\ new.shown = [World.shown EXCEPT ![i] = t]
        /\ new.dismissed = World.dismissed /\ new.notices = World.notices
    BY <1>2, <1>4, <2>1, WorldFields
  <2>3. /\ i \in DOMAIN World.shown /\ t.id = World.shown[i].id
        /\ t.dismissed = World.shown[i].dismissed
    BY <1>2, WorldFields
  <2>4. Good(new, known, {})
    BY <1>5, <1>6, <2>2, <2>3, ToastChanges
  <2> QED BY <2>1, <2>4
<1>8. present
  BY <1>2 DEF ToastsInv
<1> QED BY <1>4, <1>6, <1>7, <1>8 DEF Kept

LEMMA PauseType ==
  ASSUME NEW t \in ToastRecord, Closes(t)
  PROVE  /\ Pause(t) \in ToastRecord /\ Pause(t).id = t.id /\ Pause(t).dismissed = t.dismissed
         /\ Pause(t).type = t.type /\ Pause(t).title = t.title
         /\ Pause(t).description = t.description /\ Closes(Pause(t))
<1>1. CASE t.paused \/ ~t.finite
  BY <1>1 DEF Pause
<1>2. CASE ~(t.paused \/ ~t.finite)
  BY <1>2 DEF Pause, ToastRecord, Closes
<1> QED BY <1>1, <1>2

LEMMA ResumeType ==
  ASSUME NEW t \in ToastRecord, Closes(t)
  PROVE  /\ Resume(t) \in ToastRecord /\ Resume(t).id = t.id /\ Resume(t).dismissed = t.dismissed
         /\ Resume(t).type = t.type /\ Resume(t).title = t.title
         /\ Resume(t).description = t.description /\ Closes(Resume(t))
<1>1. CASE ~t.paused \/ ~t.finite
  BY <1>1 DEF Resume
<1>2. CASE ~(~t.paused \/ ~t.finite)
  <2>1. CASE t.timer
    <3>1. Resume(t) = [t EXCEPT !.paused = FALSE, !.timer = TRUE, !.stray = t.stray + 1]
      BY <1>2, <2>1 DEF Resume
    <3>2. PICK n \in Nat : n = t.stray + 1
      BY DEF ToastRecord
    <3>3. Resume(t) = [t EXCEPT !.paused = FALSE, !.timer = TRUE, !.stray = n]
      BY <3>1, <3>2
    <3> QED BY <3>3 DEF ToastRecord, Closes
  <2>2. CASE ~t.timer
    <3>1. Resume(t) = [t EXCEPT !.paused = FALSE, !.timer = TRUE, !.stray = t.stray]
      BY <1>2, <2>2 DEF Resume
    <3> QED BY <3>1 DEF ToastRecord, Closes
  <2> QED BY <2>1, <2>2
<1> QED BY <1>1, <1>2

LEMMA MouseKeeps ==
  ASSUME ToastsInv, NEW id, MouseOver(id) \/ MouseOut(id)
  PROVE  Kept
<1>1. PICK i : i = PlaceOf(shown, id)
  OBVIOUS
<1>2. id \in ShownIds /\ UNCHANGED <<known, dismissed, notices, present>>
  BY DEF MouseOver, MouseOut
<1>3. i \in DOMAIN shown /\ shown[i] = Toast(id)
  BY <1>1, <1>2, AtFound DEF ShownIds, Toast
<1>4. Toast(id) \in ToastRecord /\ Closes(Toast(id))
  BY <1>3, ShownType
<1>5. CASE MouseOver(id)
  <2>1. PICK t : t = Pause(Toast(id))
    OBVIOUS
  <2>2. shown' = [shown EXCEPT ![PlaceOf(shown, id)] = t]
    BY <1>5, <2>1 DEF MouseOver, Toast
  <2>3. /\ t \in ToastRecord /\ t.id = Toast(id).id /\ t.dismissed = Toast(id).dismissed
        /\ t.type = Toast(id).type /\ t.title = Toast(id).title
        /\ t.description = Toast(id).description /\ Closes(t)
    BY <1>4, <2>1, PauseType
  <2> QED BY <1>2, <2>2, <2>3, RedrawKeeps
<1>6. CASE MouseOut(id)
  <2>1. PICK t : t = Resume(Toast(id))
    OBVIOUS
  <2>2. shown' = [shown EXCEPT ![PlaceOf(shown, id)] = t]
    BY <1>6, <2>1 DEF MouseOut, Toast
  <2>3. /\ t \in ToastRecord /\ t.id = Toast(id).id /\ t.dismissed = Toast(id).dismissed
        /\ t.type = Toast(id).type /\ t.title = Toast(id).title
        /\ t.description = Toast(id).description /\ Closes(t)
    BY <1>4, <2>1, ResumeType
  <2> QED BY <1>2, <2>2, <2>3, RedrawKeeps
<1> QED BY <1>5, <1>6

LEMMA DestroyKeeps ==
  ASSUME ToastsInv, Destroy
  PROVE  Kept
<1>1. /\ shown' = <<>> /\ known' = known /\ dismissed' = dismissed /\ notices' = notices
  BY DEF Destroy
<1>2. World' \in WorldRecord
  <2>1. <<>> \in Seq(ToastRecord)
    OBVIOUS
  <2> QED BY <1>1, <2>1, ShownType DEF World, WorldRecord
<1>3. Good(World', known, {})
  BY <1>1, <1>2, WorldFields, EmptyGood
<1> QED BY <1>1, <1>2, <1>3 DEF Kept, ToastsInv, TypeOK

(* What create() is given is known and, if it can be, shown. *)
LEMMA CreateKeeps ==
  ASSUME ToastsInv, NEW id \in Ids, NEW data \in DataRecord,
         Create(id, data), present' = present
  PROVE  /\ Kept
         /\ present =>
              \E i \in DOMAIN shown' :
                /\ shown'[i].id = id /\ shown'[i].type = data.type
                /\ \/ ~shown'[i].dismissed
                   \/ \E j \in DOMAIN shown : shown[j].id = id /\ shown[j].dismissed
<1>1. PICK merged : merged = Merge(id, data)
  OBVIOUS
<1>2. PICK w : w = [World EXCEPT !.dismissed = @ \ {id}]
  OBVIOUS
<1>3. merged \in DataRecord /\ merged.type = data.type
  BY <1>1, MergeType DEF ToastsInv
<1>4. /\ w.shown = shown /\ w.notices = notices /\ w.dismissed = dismissed \ {id}
      /\ w = [dismissed |-> w.dismissed, notices |-> w.notices, shown |-> w.shown]
  BY <1>2 DEF World
<1>5. w \in WorldRecord
  BY <1>4, ShownType DEF WorldRecord
<1>6. Good(w, known, {})
  <2>1. Good(World, known, {})
    BY DEF ToastsInv
  <2>2. \A i \in DOMAIN World.shown :
          World.shown[i].id \in {} \/ Heard(World.shown[i], World) =>
            World.shown[i].id \in {} \/ Heard(World.shown[i], w)
    BY <1>4, WorldFields DEF Heard
  <2> QED BY <1>4, <2>1, <2>2, WorldFields, ObserverChanges
<1>7. /\ known' = [k \in DOMAIN known \cup {id} |-> IF k = id THEN merged ELSE known[k]]
      /\ Becomes(IF present THEN AddOrUpdate(w, id, merged) ELSE w)
  BY <1>1, <1>2 DEF Create
<1>8. /\ DOMAIN known' = DOMAIN known \cup {id} /\ known'[id] = merged
      /\ \A other \in DOMAIN known \ {id} : known'[other] = known[other]
      /\ known' \in Knowledge
  <2>1. PICK S \in SUBSET Ids : known \in [S -> DataRecord]
    BY DEF ToastsInv, TypeOK, Knowledge
  <2>2. known' = [x \in {id} \cup S |-> IF x = id THEN merged ELSE known[x]]
    BY <1>7, <2>1
  <2>3. known' \in [{id} \cup S -> DataRecord]
    BY <1>3, <2>1, <2>2
  <2>4. {id} \cup S \in SUBSET Ids
    OBVIOUS
  <2>5. known' \in Knowledge
    BY <2>3, <2>4 DEF Knowledge
  <2> QED BY <2>1, <2>2, <2>5
<1>9. CASE ~present
  <2>1. shown = <<>> /\ Becomes(w)
    BY <1>7, <1>9 DEF ToastsInv
  <2>2. World' = w
    BY <1>5, <2>1, BecomesWorld
  <2>3. Good(w, known', {})
    BY <1>4, <1>5, <2>1, EmptyGood
  <2> QED BY <1>4, <1>5, <1>8, <1>9, <2>1, <2>2, <2>3, WorldFields DEF Kept
<1>10. CASE present
  <2>1. PICK after : after = AddOrUpdate(w, id, merged)
    OBVIOUS
  <2>2. PICK all : all = known'
    OBVIOUS
  <2>3. /\ AddOrUpdate(w, id, merged) \in WorldRecord
        /\ Good(AddOrUpdate(w, id, merged), all, {})
        /\ \E i \in DOMAIN AddOrUpdate(w, id, merged).shown :
             /\ AddOrUpdate(w, id, merged).shown[i].id = id
             /\ AddOrUpdate(w, id, merged).shown[i].type = merged.type
             /\ \/ ~AddOrUpdate(w, id, merged).shown[i].dismissed
                \/ \E j \in DOMAIN w.shown : w.shown[j].id = id /\ w.shown[j].dismissed
    <3>1. id \notin w.dismissed
      BY <1>4
    <3>2. /\ id \in DOMAIN all /\ all[id] = merged
          /\ \A other \in DOMAIN known \ {id} :
               other \in DOMAIN all /\ all[other] = known[other]
      BY <1>8, <2>2
    <3> QED BY <1>3, <1>5, <1>6, <3>1, <3>2, AddGood
  <2>4. /\ after \in WorldRecord /\ Good(after, known', {})
        /\ \E i \in DOMAIN after.shown :
             /\ after.shown[i].id = id /\ after.shown[i].type = merged.type
             /\ \/ ~after.shown[i].dismissed
                \/ \E j \in DOMAIN w.shown : w.shown[j].id = id /\ w.shown[j].dismissed
    BY <2>1, <2>2, <2>3
  <2>5. World' = after /\ shown' = after.shown
    BY <1>7, <1>10, <2>1, <2>4, BecomesWorld, WorldFields
  <2> QED BY <1>3, <1>4, <1>8, <1>10, <2>4, <2>5 DEF Kept
<1> QED BY <1>9, <1>10

(* What an operation ends in, in the three ways there are. *)
LEMMA SettleKeeps ==
  ASSUME ToastsInv, NEW i \in DOMAIN operations, NEW settled, NEW broken,
         Settle(i, settled, broken)
  PROVE  Kept /\ operations' \in Seq(Operation)
<1> DEFINE outcome == Outcome(operations[i], settled, broken)
<1>1. operations \in Seq(Operation)
  BY DEF ToastsInv, TypeOK
<1>2. PICK op \in Operation : op = operations[i]
  BY <1>1, ElementOfSeq, LenProperties
<1>3. op.id \in Ids
  BY DEF Operation
<1>4. operations' = RemoveAt(operations, i) /\ present' = present
  BY DEF Settle
<1>5. operations' \in Seq(Operation)
  BY <1>1, <1>4, RemoveShape
<1>6. CASE outcome = Nothing
  <2>1. known' = known /\ dismissed' = dismissed /\ notices' = notices /\ shown' = shown
    BY <1>6 DEF Settle, Nothing
  <2>2. World' = World
    BY <2>1 DEF World
  <2> QED BY <1>4, <1>5, <2>1, <2>2 DEF ToastsInv, TypeOK, Kept
<1>7. CASE outcome = "dismiss"
  <2>1. /\ dismissed' = dismissed \cup {op.id} /\ notices' = Append(notices, op.id)
        /\ known' = known /\ shown' = shown
    BY <1>2, <1>7 DEF Settle, Nothing
  <2> QED BY <1>3, <1>4, <1>5, <2>1, NotedKeeps
<1>8. CASE outcome \in {"success", "error"}
  <2>1. PICK data : data = ResultData(op, outcome)
    OBVIOUS
  <2>2. Create(op.id, data)
    BY <1>2, <1>8, <2>1 DEF Settle, Nothing
  <2>3. data \in DataRecord
    BY <1>8, <2>1, ResultType DEF ToastTypes
  <2> QED BY <1>3, <1>4, <1>5, <2>2, <2>3, CreateKeeps
<1> QED BY <1>6, <1>7, <1>8, OutcomeType

LEMMA ShowKeeps ==
  ASSUME ToastsInv, NEW id \in Ids, NEW options \in Options, Show(id, options)
  PROVE  Kept
<1>1. PICK data : data = Data("success", "success", options)
  OBVIOUS
<1>2. data \in DataRecord
  BY <1>1, DataType DEF ToastTypes, Given
<1> QED BY <1>1, <1>2, CreateKeeps DEF Show

LEMMA BeginKeeps ==
  ASSUME ToastsInv, NEW id \in Ids, NEW promise \in Promises, Begin(id, promise)
  PROVE  Kept /\ operations' \in Seq(Operation)
<1>1. PICK data : data = Data("loading", "loading", promise.options)
  OBVIOUS
<1>2. data \in DataRecord
  BY <1>1, DataType DEF ToastTypes, Given
<1>3. PICK op : op = [id |-> id, kind |-> promise.kind, handlers |-> promise.handlers,
                      description |-> promise.description]
  OBVIOUS
<1>4. op \in Operation
  BY <1>3 DEF Operation, ToastDescriptions
<1>5. operations' = Append(operations, op)
  BY <1>3 DEF Begin
<1>6. operations' \in Seq(Operation)
  BY <1>4, <1>5, AppendShape DEF ToastsInv, TypeOK
<1> QED BY <1>1, <1>2, <1>6, CreateKeeps DEF Begin

LEMMA CountsKeep ==
  ASSUME ToastsInv, ToastNext
  PROVE  callCount' \in 0..MaxCalls /\ hovers' \in 0..MaxHovers /\ present' \in BOOLEAN
<1>1. /\ callCount \in 0..MaxCalls /\ hovers \in 0..MaxHovers /\ present \in BOOLEAN
      /\ MaxCalls \in Nat /\ MaxHovers \in Nat
  BY ToastsAssumption DEF ToastsInv, TypeOK
<1>2. /\ callCount' = callCount \/ (callCount < MaxCalls /\ callCount' = callCount + 1)
      /\ hovers' = hovers \/ (hovers < MaxHovers /\ hovers' = hovers + 1)
      /\ present' = present \/ present' = FALSE
  BY DEF ToastNext, Show, Begin, Dismiss, CloseButton, Close, MouseOver, MouseOut, DismissAll,
         Destroy, Clock, Told, TimerFires, Unmount, Settles, Settle, Called
<1>3. present' \in BOOLEAN
  BY <1>1, <1>2
<1>4. callCount' \in 0..MaxCalls
  BY <1>1, <1>2
<1>5. hovers' \in 0..MaxHovers
  BY <1>1, <1>2
<1> QED BY <1>3, <1>4, <1>5

LEMMA NextKeeps ==
  ASSUME ToastsInv, ToastNext
  PROVE  Kept /\ operations' \in Seq(Operation)
<1>1. operations \in Seq(Operation) /\ DOMAIN known \in SUBSET Ids
  BY ShownType DEF ToastsInv, TypeOK
<1>2. ASSUME NEW id \in Usable, NEW options \in Options, Show(id, options)
      PROVE  Kept /\ operations' \in Seq(Operation)
  BY <1>1, <1>2, ShowKeeps DEF Show, Usable
<1>3. ASSUME NEW id \in Usable, NEW promise \in Promises, Begin(id, promise)
      PROVE  Kept /\ operations' \in Seq(Operation)
  BY <1>3, BeginKeeps DEF Usable
<1>4. ASSUME NEW id \in DOMAIN known, Dismiss(id)
      PROVE  Kept /\ operations' \in Seq(Operation)
  BY <1>1, <1>4, NotedKeeps DEF Dismiss
<1>5. ASSUME NEW id, CloseButton(id) \/ TimerFires(id)
      PROVE  Kept /\ operations' \in Seq(Operation)
  <2>1. Close(id) /\ operations' = operations
    BY <1>5 DEF CloseButton, TimerFires, Close
  <2> QED BY <1>1, <2>1, CloseKeeps
<1>6. ASSUME NEW id, MouseOver(id) \/ MouseOut(id)
      PROVE  Kept /\ operations' \in Seq(Operation)
  <2>1. operations' = operations
    BY <1>6 DEF MouseOver, MouseOut
  <2> QED BY <1>1, <1>6, <2>1, MouseKeeps
<1>7. CASE DismissAll
  BY <1>1, <1>7, DismissAllKeeps DEF DismissAll
<1>8. CASE Destroy
  BY <1>1, <1>8, DestroyKeeps DEF Destroy
<1>9. CASE Told
  BY <1>1, <1>9, ToldKeeps DEF Told
<1>10. ASSUME NEW id, Unmount(id)
       PROVE  Kept /\ operations' \in Seq(Operation)
  BY <1>1, <1>10, UnmountKeeps DEF Unmount
<1>11. ASSUME NEW i \in DOMAIN operations, Settles(i)
       PROVE  Kept /\ operations' \in Seq(Operation)
  BY <1>11, SettleKeeps DEF Settles
<1> QED BY <1>2, <1>3, <1>4, <1>5, <1>6, <1>7, <1>8, <1>9, <1>10, <1>11 DEF ToastNext, Clock

LEMMA ToastsInitially ==
  ASSUME ToastInit
  PROVE  ToastsInv
<1>1. known = <<>> /\ dismissed = {} /\ notices = <<>> /\ shown = <<>> /\ operations = <<>>
  BY DEF ToastInit
<1>2. known \in Knowledge
  <2>1. PICK none : none = known
    OBVIOUS
  <2>2. DOMAIN none = {} /\ none = [i \in DOMAIN none |-> none[i]]
    BY <1>1, <2>1
  <2>3. none \in [{} -> DataRecord]
    BY <2>2
  <2>4. {} \in SUBSET Ids
    OBVIOUS
  <2> QED BY <2>1, <2>3, <2>4 DEF Knowledge
<1>3. World \in WorldRecord
  <2>1. <<>> \in Seq(ToastRecord) /\ <<>> \in Seq(Ids)
    OBVIOUS
  <2> QED BY <1>1, <2>1 DEF World, WorldRecord
<1>4. Good(World, known, {})
  BY <1>1, <1>3, WorldFields, EmptyGood
<1>5. /\ operations \in Seq(Operation) /\ present \in BOOLEAN
      /\ callCount \in 0..MaxCalls /\ hovers \in 0..MaxHovers
  BY <1>1, ToastsAssumption DEF ToastInit
<1> QED BY <1>1, <1>2, <1>3, <1>4, <1>5 DEF ToastsInv, TypeOK

LEMMA ToastsStep ==
  ASSUME ToastsInv, [ToastNext]_toastVars
  PROVE  ToastsInv'
<1>1. CASE ToastNext
  BY <1>1, NextKeeps, CountsKeep DEF ToastsInv, TypeOK, Kept
<1>2. CASE UNCHANGED toastVars
  <2>1. World' = World
    BY <1>2 DEF toastVars, World
  <2> QED BY <1>2, <2>1 DEF toastVars, ToastsInv, TypeOK
<1> QED BY <1>1, <1>2

(* All of it holds in every state: a toast shows what the Observer knows,  *)
(* and those that stay fit.                                                *)
THEOREM ToastsInvariant == ToastSpec => []ToastsInv
<1>1. ToastInit => ToastsInv
  BY ToastsInitially
<1>2. ToastsInv /\ [ToastNext]_toastVars => ToastsInv'
  BY ToastsStep
<1> QED BY <1>1, <1>2, PTL DEF ToastSpec

(* The type of every variable (the constructors of state.ts, toaster.ts    *)
(* and toast.ts).                                                          *)
THEOREM ToastsTypeCorrect == ToastSpec => []TypeOK
<1>1. ToastsInv => TypeOK
  BY DEF ToastsInv
<1> QED BY <1>1, ToastsInvariant, PTL

(* A toast that stays is active or about to be dismissed, and shows the    *)
(* last data of its id, however calls, timers and notices come in turn     *)
(* (addToast(), removeToast() and handleToastEvent() of toaster.ts,        *)
(* updateToast() of toast.ts).                                             *)
THEOREM LatestIsShown == ToastSpec => []ShowsLatest
<1>1. ToastsInv => ShowsLatest
  <2> SUFFICES ASSUME ToastsInv, NEW id \in ShownIds
               PROVE  LET t == Toast(id) data == known[id]
                      IN /\ Fading(id) \/ Dismissing(id) \/ Active(id)
                         /\ t.type = data.type
                         /\ t.description = data.description
                         /\ Nothing \in {t.title, data.title} \/ t.title = data.title
    BY DEF ShowsLatest
  <2>1. PICK i : i = PlaceOf(shown, id)
    OBVIOUS
  <2>2. i \in DOMAIN shown /\ shown[i].id = id /\ Toast(id) = shown[i]
    BY <2>1, AtFound DEF ShownIds, Toast
  <2>3. id \in DOMAIN known /\ Drawn(Toast(id), known[id]) /\ Heard(Toast(id), World)
    BY <2>2, ShownType
  <2> QED BY <2>2, <2>3, WorldFields DEF Drawn, Heard, Fading, Dismissing, Active
<1> QED BY <1>1, ToastsInvariant, PTL

(* No more toasts stay than there is room for, even where an update or a   *)
(* new call brings one back (addToast() and dismissOverflow() of           *)
(* toaster.ts).                                                            *)
THEOREM LimitIsKept == ToastSpec => []WithinLimit
<1>1. ToastsInv => WithinLimit
  <2> SUFFICES ASSUME ToastsInv PROVE WithinLimit
    OBVIOUS
  <2>1. IsFiniteSet(Staying(shown)) /\ Cardinality(Staying(shown)) <= VisibleToasts
    BY WorldFields DEF ToastsInv, Good
  <2>2. {id \in ShownIds : ~Toast(id).dismissed} = Staying(shown)
    <3>1. \A i \in DOMAIN shown : Toast(shown[i].id) = shown[i]
      BY ShownType, AtIndex DEF Toast
    <3> QED BY <3>1 DEF ShownIds, Staying
  <2> QED BY <2>1, <2>2 DEF WithinLimit
<1> QED BY <1>1, ToastsInvariant, PTL

(* A toast that is to close by itself has its timer, whatever it is        *)
(* updated to and wherever the mouse goes (updateToast(), pause() and      *)
(* resume() of toast.ts).                                                  *)
THEOREM TimersRun == ToastSpec => []ClosesItself
<1>1. ToastsInv => ClosesItself
  BY ShownType DEF ClosesItself, Closes
<1> QED BY <1>1, ToastsInvariant, PTL

(* The operation that ends well, or in an Error, is reported by its toast, *)
(* unless the user or a caller dismissed it (promise() of state.ts and of  *)
(* the notifier).                                                          *)
THEOREM OutcomesAreTold == ToastSpec => OutcomeReported
<1> DEFINE Told1(i) ==
      operations' = RemoveAt(operations, i) /\ present =>
        /\ Settle(i, "value", {}) /\ "success" \in operations[i].handlers =>
             Reported(operations[i], "success")
        /\ Settle(i, "error", {}) => Reported(operations[i], "error")
<1>1. ASSUME ToastsInv, NEW i \in DOMAIN operations, NEW settled, NEW type,
             present, Settle(i, settled, {}), type \in {"success", "error"},
             Outcome(operations[i], settled, {}) = type
      PROVE  Reported(operations[i], type)
  <2>1. PICK op \in Operation : op = operations[i]
    BY <1>1, ElementOfSeq, LenProperties DEF ToastsInv, TypeOK
  <2>2. PICK data : data = ResultData(op, type)
    OBVIOUS
  <2>3. Create(op.id, data) /\ present' = present
    BY <1>1, <2>1, <2>2 DEF Settle, Nothing
  <2>4. data \in DataRecord /\ data.type = type /\ op.id \in Ids
    BY <1>1, <2>2, ResultType DEF ToastTypes, Operation
  <2>5. \E k \in DOMAIN shown' :
          /\ shown'[k].id = op.id /\ shown'[k].type = type
          /\ \/ ~shown'[k].dismissed
             \/ \E j \in DOMAIN shown : shown[j].id = op.id /\ shown[j].dismissed
    BY <1>1, <2>3, <2>4, CreateKeeps
  <2>6. ASSUME NEW j \in DOMAIN shown, shown[j].id = op.id, shown[j].dismissed
        PROVE  Fading(op.id)
    <3>1. Toast(op.id) = shown[j]
      BY <1>1, <2>6, ShownType, AtIndex DEF Toast
    <3> QED BY <2>6, <3>1 DEF Fading, ShownIds
  <2> QED BY <2>1, <2>5, <2>6 DEF Reported
<1>2. ASSUME ToastsInv, NEW i \in DOMAIN operations
      PROVE  Told1(i)
  <2>1. ASSUME present, Settle(i, "value", {}), "success" \in operations[i].handlers
        PROVE  Reported(operations[i], "success")
    <3>1. Outcome(operations[i], "value", {}) = "success"
      BY <2>1 DEF Outcome, Fulfilled
    <3> QED BY <1>1, <1>2, <2>1, <3>1
  <2>2. ASSUME present, Settle(i, "error", {})
        PROVE  Reported(operations[i], "error")
    <3>1. Outcome(operations[i], "error", {}) = "error"
      BY DEF Outcome, Fulfilled
    <3> QED BY <1>1, <1>2, <2>2, <3>1
  <2> QED BY <2>1, <2>2
<1>3. ToastsInv => [\A i \in DOMAIN operations : Told1(i)]_toastVars
  BY <1>2
<1> QED BY <1>3, ToastsInvariant, PTL DEF OutcomeReported

-----------------------------------------------------------------------------
(* The Dictionary page: what a prompt is about, and the Descriptions that  *)
(* are listed.                                                             *)

(* A record with the fields of the store. *)
IsStore(s) ==
  s = [items |-> s.items, descriptions |-> s.descriptions, preview |-> s.preview,
       pane |-> s.pane, interaction |-> s.interaction, entry |-> s.entry, path |-> s.path,
       treeCursor |-> s.treeCursor, descriptionCursor |-> s.descriptionCursor]

(* Two stores whose prompts are about the same thing. *)
SameLists(s, t) == s.items = t.items /\ s.descriptions = t.descriptions
SamePlace(s, t) ==
  /\ s.pane = t.pane /\ s.entry = t.entry /\ s.path = t.path
  /\ s.treeCursor = t.treeCursor /\ s.descriptionCursor = t.descriptionCursor
SamePrompt(s, t) == SameLists(s, t) /\ SamePlace(s, t) /\ s.interaction = t.interaction

SubjectInv == IsStore(store) /\ SubjectKept

LEMMA SubjectOfSame ==
  ASSUME NEW s, NEW t, SamePrompt(s, t)
  PROVE  Subject(s) = Subject(t)
<1>1. TreeItem(s) = TreeItem(t) /\ DescriptionItem(s) = DescriptionItem(t)
      /\ CurrentFolder(s) = CurrentFolder(t)
  BY DEF SamePrompt, SameLists, SamePlace, TreeItem, DescriptionItem, CurrentFolder
<1>2. s.interaction = t.interaction /\ s.pane = t.pane /\ s.path = t.path /\ s.entry = t.entry
  BY DEF SamePrompt, SamePlace
<1> QED
  BY <1>1, <1>2 DEF Subject

LEMMA ConfirmRenderedIs ==
  ASSUME NEW s, IsStore(s)
  PROVE  /\ IsStore(ConfirmRendered(s))
         /\ SameLists(ConfirmRendered(s), s) /\ SamePlace(ConfirmRendered(s), s)
         /\ ConfirmRendered(s).interaction \in {"idle", s.interaction}
         /\ ConfirmRendered(s).preview = s.preview
<1>1. ConfirmRendered(s) \in {[s EXCEPT !.interaction = "idle"], s}
  BY DEF ConfirmRendered
<1>2. CASE ConfirmRendered(s) = s
  BY <1>2 DEF SameLists, SamePlace
<1>3. CASE ConfirmRendered(s) = [s EXCEPT !.interaction = "idle"]
  BY <1>3 DEF SameLists, SamePlace, IsStore
<1> QED
  BY <1>1, <1>2, <1>3

LEMMA AfterEffectsIs ==
  ASSUME NEW s, NEW fresh, IsStore(s)
  PROVE  /\ IsStore(AfterEffects(s, fresh))
         /\ AfterEffects(s, fresh).interaction = s.interaction
         /\ AfterEffects(s, fresh).items = s.items
         /\ AfterEffects(s, fresh).descriptions =
              IF DescriptionsRun(s, fresh) THEN <<>> ELSE s.descriptions
         /\ AfterEffects(s, fresh).entry = s.entry
         /\ AfterEffects(s, fresh).treeCursor = ClampedCursor(s, fresh)
         /\ AfterEffects(s, fresh).pane = s.pane
         /\ AfterEffects(s, fresh).path = s.path
         /\ AfterEffects(s, fresh).descriptionCursor = s.descriptionCursor
         /\ AfterEffects(s, fresh).preview =
              IF PreviewRuns(s, fresh) /\ (s.entry # None \/ TreeItem(s) = NoRow)
              THEN EmptyPreview ELSE s.preview
<1>1. PICK cursor : cursor = ClampedCursor(s, fresh)
  OBVIOUS
<1>2. PICK preview : preview = IF PreviewRuns(s, fresh) /\ (s.entry # None \/ TreeItem(s) = NoRow)
                               THEN EmptyPreview ELSE s.preview
  OBVIOUS
<1>3. PICK descriptions :
        descriptions = IF DescriptionsRun(s, fresh) THEN <<>> ELSE s.descriptions
  OBVIOUS
<1>4. AfterEffects(s, fresh) =
        [s EXCEPT !.treeCursor = cursor, !.preview = preview, !.descriptions = descriptions]
  BY <1>1, <1>2, <1>3, Zenon DEF AfterEffects
<1>5. AfterEffects(s, fresh) =
        [items |-> s.items, descriptions |-> descriptions, preview |-> preview,
         pane |-> s.pane, interaction |-> s.interaction, entry |-> s.entry, path |-> s.path,
         treeCursor |-> cursor, descriptionCursor |-> s.descriptionCursor]
  BY <1>4 DEF IsStore
<1> QED
  BY <1>1, <1>2, <1>3, <1>5 DEF IsStore

(* What the keys, the answers and the finished writes may leave of a       *)
(* prompt: they answer, they close it, they open one, or they leave it     *)
(* where it is.                                                            *)
LeavesPrompt(s, fresh) ==
  \/ "answer" \in fresh
  \/ s.interaction = "idle"
  \/ s.interaction # store.interaction
  \/ fresh = {} /\ SamePrompt(s, store)

LEMMA RerenderLeavesPrompt ==
  ASSUME SubjectInv, NEW s, NEW fresh, NEW rest, IsStore(s), LeavesPrompt(s, fresh),
         Rerender(s, fresh, rest)
  PROVE  SubjectInv'
<1>1. PICK first : first = ConfirmRendered(s)
  OBVIOUS
<1>2. PICK after : after = AfterEffects(first, fresh)
  OBVIOUS
<1>3. PICK last : last = ConfirmRendered(after)
  OBVIOUS
<1>4. /\ store' = last
      /\ subject' = IF last.interaction = "idle" \/ "answer" \in fresh THEN None
                    ELSE IF last.interaction # store.interaction THEN Subject(last)
                    ELSE subject
  <2>1. store' = last
    BY <1>1, <1>2, <1>3, Zenon DEF Rerender
  <2>2. subject' = IF store'.interaction = "idle" \/ "answer" \in fresh THEN None
                   ELSE IF store'.interaction # store.interaction THEN Subject(store')
                   ELSE subject
    BY Zenon DEF Rerender
  <2> QED
    BY <2>1, <2>2
<1>5. IsStore(first) /\ SameLists(first, s) /\ SamePlace(first, s)
      /\ first.interaction \in {"idle", s.interaction}
  BY <1>1, ConfirmRenderedIs, Zenon
<1>6. /\ IsStore(after) /\ after.interaction = first.interaction
      /\ after.items = first.items /\ after.entry = first.entry /\ after.pane = first.pane
      /\ after.path = first.path /\ after.descriptionCursor = first.descriptionCursor
      /\ after.treeCursor = ClampedCursor(first, fresh)
      /\ after.descriptions = IF DescriptionsRun(first, fresh) THEN <<>> ELSE first.descriptions
  BY <1>2, <1>5, AfterEffectsIs, Zenon
<1>7. IsStore(last) /\ SameLists(last, after) /\ SamePlace(last, after)
      /\ last.interaction \in {"idle", after.interaction}
  BY <1>3, <1>6, ConfirmRenderedIs, Zenon
<1>8. last.interaction \in {"idle", s.interaction}
  BY <1>5, <1>6, <1>7
<1>9. ASSUME subject' # None
      PROVE  Subject(last) = subject'
  <2>1. last.interaction # "idle" /\ "answer" \notin fresh
    BY <1>4, <1>9
  <2>2. last.interaction = s.interaction
    BY <1>8, <2>1
  <2>3. CASE last.interaction # store.interaction
    BY <1>4, <2>1, <2>3
  <2>4. CASE last.interaction = store.interaction
    <3>1. fresh = {} /\ SamePrompt(s, store)
      BY <2>1, <2>2, <2>4 DEF LeavesPrompt
    <3>2. SameLists(first, store) /\ SamePlace(first, store)
      BY <3>1, <1>5 DEF SamePrompt, SameLists, SamePlace
    <3>3. ~DescriptionsRun(first, fresh)
      BY <3>1, <3>2 DEF DescriptionsRun, SamePlace
    <3>4. ClampedCursor(first, fresh) = first.treeCursor
      BY <3>1 DEF ClampedCursor
    <3>5. SamePrompt(last, store)
      BY <2>4, <3>2, <3>3, <3>4, <1>6, <1>7 DEF SamePrompt, SameLists, SamePlace
    <3>6. Subject(last) = Subject(store)
      BY <3>5, SubjectOfSame
    <3>7. subject' = subject
      BY <1>4, <2>1, <2>4
    <3> QED
      BY <3>6, <3>7, <1>9 DEF SubjectInv, SubjectKept
  <2> QED
    BY <2>3, <2>4
<1>10. IsStore(store)' /\ SubjectKept'
  <2>1. IsStore(store')
    BY <1>4, <1>7
  <2>2. subject' # None => Subject(store') = subject'
    BY <1>4, <1>9
  <2> QED
    BY <2>1, <2>2 DEF SubjectKept, IsStore, Subject, TreeItem, DescriptionItem, CurrentFolder
<1> QED
  BY <1>10 DEF SubjectInv

LEMMA RenderLeavesPrompt ==
  ASSUME SubjectInv, NEW s, NEW fresh, NEW rest, IsStore(s), LeavesPrompt(s, fresh),
         Render(s, fresh, rest)
  PROVE  SubjectInv'
<1>1. CASE mounted
  <2>1. Rerender(s, fresh, rest)
    BY <1>1, Zenon DEF Render
  <2> QED
    BY <2>1, RerenderLeavesPrompt
<1>2. CASE ~mounted
  <2>1. store' = s /\ subject' = None
    BY <1>2 DEF Render
  <2> QED
    BY <2>1 DEF SubjectInv, SubjectKept, IsStore
<1> QED
  BY <1>1, <1>2

(* A step that changes neither the store nor what the prompt is about. *)
LEMMA StoreKept ==
  ASSUME SubjectInv, UNCHANGED <<store, subject>>
  PROVE  SubjectInv'
BY DEF SubjectInv, SubjectKept, IsStore, Subject, TreeItem, DescriptionItem, CurrentFolder

(* A key that closes the prompt, opens one, or finds none open. *)
LEMMA PressLeavesPrompt ==
  ASSUME SubjectInv, NEW s, NEW fresh, Pressed(s, fresh), IsStore(s),
         \/ s.interaction = "idle"
         \/ s.interaction # store.interaction
         \/ fresh = {} /\ SamePrompt(s, store)
  PROVE  SubjectInv'
<1>1. Render(s, fresh, loads)
  BY Zenon DEF Pressed
<1>2. LeavesPrompt(s, fresh)
  BY DEF LeavesPrompt
<1> QED
  BY <1>1, <1>2, RenderLeavesPrompt

(* The keys, one by one. *)
LEMMA MovedStoreIs ==
  ASSUME IsStore(store), NEW direction
  PROVE  IsStore(MovedStore(direction)) /\ MovedStore(direction).interaction = store.interaction
<1>1. PICK cursor : cursor = Moved(store.treeCursor, Len(store.items), direction)
  OBVIOUS
<1>2. PICK other :
        other = Moved(store.descriptionCursor, Len(store.descriptions), direction)
  OBVIOUS
<1>3. CASE store.pane = "tree"
  <2>1. MovedStore(direction) = [store EXCEPT !.treeCursor = cursor]
    BY <1>1, <1>3 DEF MovedStore
  <2> QED
    BY <2>1 DEF IsStore
<1>4. CASE store.pane # "tree"
  <2>1. MovedStore(direction) = [store EXCEPT !.descriptionCursor = other]
    BY <1>2, <1>4 DEF MovedStore
  <2> QED
    BY <2>1 DEF IsStore
<1> QED
  BY <1>3, <1>4

LEMMA KeyLeavesPrompt ==
  ASSUME SubjectInv, Key
  PROVE  SubjectInv'
<1>s. IsStore(store)
  BY DEF SubjectInv
<1>1. ASSUME NEW direction \in {"up", "down"}, MoveCursor(direction)
      PROVE  SubjectInv'
  <2>1. Pressed(MovedStore(direction), {}) /\ store.interaction = "idle"
    BY <1>1, Zenon DEF MoveCursor, Idle
  <2> QED
    BY <2>1, <1>s, MovedStoreIs, PressLeavesPrompt, Zenon
<1>2. CASE NavigateIn
  <2>1. store.interaction = "idle"
    BY <1>2 DEF NavigateIn, Idle
  <2>2. ASSUME NEW folder, NavigateInto(folder)
        PROVE  SubjectInv'
    <3>1. PICK path : path = Append(store.path, folder)
      OBVIOUS
    <3>2. PICK s : s = [store EXCEPT !.path = path, !.treeCursor = 0, !.entry = None,
                                     !.pane = "tree"]
      OBVIOUS
    <3>3. Pressed(s, {"path"})
      BY <2>2, <3>1, <3>2, Zenon DEF NavigateInto
    <3>4. IsStore(s) /\ s.interaction = "idle"
      BY <1>s, <2>1, <3>2 DEF IsStore
    <3> QED
      BY <3>3, <3>4, PressLeavesPrompt
  <2>3. ASSUME NEW entry, OpenEntry(entry)
        PROVE  SubjectInv'
    <3>1. PICK cursor : cursor = SelectInSeq(store.items, LAMBDA row : row.id = entry) - 1
      OBVIOUS
    <3>2. PICK s : s = [store EXCEPT !.entry = entry, !.pane = "description",
                                     !.descriptionCursor = 0, !.treeCursor = cursor]
      OBVIOUS
    <3>3. Pressed(s, {})
      BY <2>3, <3>1, <3>2, Zenon DEF OpenEntry
    <3>4. IsStore(s) /\ s.interaction = "idle"
      BY <1>s, <2>1, <3>2 DEF IsStore
    <3> QED
      BY <3>3, <3>4, PressLeavesPrompt
  <2> QED
    BY <1>2, <2>2, <2>3, Zenon DEF NavigateIn
<1>3. CASE NavigateOut
  <2>1. store.interaction = "idle"
    BY <1>3 DEF NavigateOut, Idle
  <2>2. CASE CloseEntry
    <3>1. PICK s : s = [store EXCEPT !.pane = "tree", !.entry = None, !.interaction = "idle",
                                     !.descriptionCursor = 0]
      OBVIOUS
    <3>2. Pressed(s, {})
      BY <2>2, <3>1, Zenon DEF CloseEntry
    <3>3. IsStore(s) /\ s.interaction = "idle"
      BY <1>s, <3>1 DEF IsStore
    <3> QED
      BY <3>2, <3>3, PressLeavesPrompt
  <2>3. CASE NavigateUp
    <3>1. PICK path : path = SubSeq(store.path, 1, Len(store.path) - 1)
      OBVIOUS
    <3>2. PICK s : s = [store EXCEPT !.path = path, !.treeCursor = 0, !.entry = None,
                                     !.pane = "tree"]
      OBVIOUS
    <3>3. Pressed(s, {"path"})
      BY <2>3, <3>1, <3>2, Zenon DEF NavigateUp
    <3>4. IsStore(s) /\ s.interaction = "idle"
      BY <1>s, <2>1, <3>2 DEF IsStore
    <3> QED
      BY <3>3, <3>4, PressLeavesPrompt
  <2> QED
    BY <1>3, <2>2, <2>3, Zenon DEF NavigateOut
<1>4. ASSUME NEW interaction, Pressed([store EXCEPT !.interaction = interaction], {})
      PROVE  SubjectInv'
  <2>1. PICK s : s = [store EXCEPT !.interaction = interaction]
    OBVIOUS
  <2>2. IsStore(s) /\ s.interaction = interaction
    BY <1>s, <2>1 DEF IsStore
  <2>3. interaction = store.interaction => SamePrompt(s, store)
    BY <1>s, <2>1 DEF IsStore, SamePrompt, SameLists, SamePlace
  <2> QED
    BY <1>4, <2>1, <2>2, <2>3, PressLeavesPrompt
<1>5. CASE CancelAction \/ RequestCreate
  <2>1. \E interaction : Pressed([store EXCEPT !.interaction = interaction], {})
    BY <1>5, Zenon DEF CancelAction, RequestCreate
  <2> QED
    BY <2>1, <1>4, Zenon
<1>6. CASE \/ RequestTreeRename \/ RequestTreeDelete
           \/ RequestDescriptionRename \/ RequestDescriptionDelete
  <2>1. \E interaction : Pressed([store EXCEPT !.interaction = interaction], {})
    BY <1>6, Zenon DEF RequestTreeRename, RequestTreeDelete, RequestDescriptionRename,
                       RequestDescriptionDelete, Requested
  <2> QED
    BY <2>1, <1>4, Zenon
<1>7. CASE SubmitBlank
  <2>1. \E interaction : Pressed([store EXCEPT !.interaction = interaction], {})
    BY <1>7, Zenon DEF SubmitBlank, SubmitBlankTreeCreate, SubmitBlankTreeRename,
                      SubmitBlankDescriptionCreate, SubmitBlankDescriptionRename
  <2> QED
    BY <2>1, <1>4, Zenon
<1>8. ASSUME NEW op, NEW target, Submitted(op, target)
      PROVE  SubjectInv'
  BY <1>8, StoreKept, Zenon DEF Submitted
<1>9. CASE \/ SubmitTreeCreate \/ SubmitTreeRename \/ ConfirmTreeDelete
           \/ SubmitDescriptionCreate \/ SubmitDescriptionRename \/ ConfirmDescriptionDelete
  <2>1. \E op, target : Submitted(op, target)
    BY <1>9, Zenon DEF SubmitTreeCreate, SubmitTreeRename, ConfirmTreeDelete,
                       SubmitDescriptionCreate, SubmitDescriptionRename,
                       ConfirmDescriptionDelete
  <2> QED
    BY <2>1, <1>8, Zenon
<1>10. CASE LeavePage
  BY <1>10, StoreKept, Zenon DEF LeavePage
<1>11. CASE EnterPage
  <2>1. Rerender(store, {"mount", "answer"}, loads)
    BY <1>11, Zenon DEF EnterPage
  <2>2. LeavesPrompt(store, {"mount", "answer"})
    BY DEF LeavesPrompt
  <2> QED
    BY <2>1, <2>2, <1>s, RerenderLeavesPrompt
<1> QED
  BY <1>1, <1>2, <1>3, <1>5, <1>6, <1>7, <1>9, <1>10, <1>11, Zenon DEF Key

(* An answer replaces the list, or leaves what the prompt is about. *)
LEMMA AnswerLeavesPrompt ==
  ASSUME SubjectInv, NEW kind, NEW i, AnswerLoad(kind, i)
  PROVE  SubjectInv'
<1>s. IsStore(store)
  BY DEF SubjectInv
<1>1. ASSUME NEW s, NEW fresh, NEW k, Applied(k, i, s, fresh), IsStore(s),
             LeavesPrompt(s, fresh)
      PROVE  SubjectInv'
  <2>1. Render(s, fresh, Without(k, i))
    BY <1>1, Zenon DEF Applied
  <2> QED
    BY <2>1, <1>1, RenderLeavesPrompt
<1>2. ASSUME NEW k, Dropped(k, i)
      PROVE  SubjectInv'
  BY <1>2, StoreKept, Zenon DEF Dropped
<1>3. CASE RootAnswered(i)
  <2>1. PICK s : s = [store EXCEPT !.path = <<Root>>]
    OBVIOUS
  <2>2. Applied("root", i, s, {"path", "answer"})
    BY <1>3, <2>1, Zenon DEF RootAnswered
  <2>3. IsStore(s) /\ LeavesPrompt(s, {"path", "answer"})
    BY <1>s, <2>1 DEF IsStore, LeavesPrompt
  <2> QED
    BY <2>2, <2>3, <1>1
<1>4. CASE ItemsAnswered(i)
  <2>1. PICK rows : rows = Answer("items", i)
    OBVIOUS
  <2>2. PICK s : s = [store EXCEPT !.items = rows]
    OBVIOUS
  <2>3. Applied("items", i, s, {"items", "answer"})
    BY <1>4, <2>1, <2>2, Zenon DEF ItemsAnswered
  <2>4. IsStore(s) /\ LeavesPrompt(s, {"items", "answer"})
    BY <1>s, <2>2 DEF IsStore, LeavesPrompt
  <2> QED
    BY <2>3, <2>4, <1>1
<1>5. CASE PreviewAnswered(i)
  <2>1. PICK preview : preview = [id |-> loads["preview"][i].of, rows |-> Answer("preview", i)]
    OBVIOUS
  <2>2. PICK s : s = [store EXCEPT !.preview = preview]
    OBVIOUS
  <2>3. \/ Applied("preview", i, s, {})
        \/ Dropped("preview", i)
    BY <1>5, <2>1, <2>2, Zenon DEF PreviewAnswered
  <2>4. IsStore(s) /\ SamePrompt(s, store)
    BY <1>s, <2>2 DEF IsStore, SamePrompt, SameLists, SamePlace
  <2>5. LeavesPrompt(s, {})
    BY <2>4 DEF LeavesPrompt
  <2> QED
    BY <2>3, <2>4, <2>5, <1>1, <1>2
<1>6. CASE DescriptionsAnswered(i)
  <2>1. PICK rows : rows = Answer("descriptions", i)
    OBVIOUS
  <2>2. PICK s : s = [store EXCEPT !.descriptions = rows]
    OBVIOUS
  <2>3. \/ Applied("descriptions", i, s, {"answer"})
        \/ Dropped("descriptions", i)
    BY <1>6, <2>1, <2>2, Zenon DEF DescriptionsAnswered
  <2>4. IsStore(s) /\ LeavesPrompt(s, {"answer"})
    BY <1>s, <2>2 DEF IsStore, LeavesPrompt
  <2> QED
    BY <2>3, <2>4, <1>1, <1>2
<1> QED
  BY <1>3, <1>4, <1>5, <1>6, Zenon DEF AnswerLoad

(* A finished write closes the prompt, or leaves it where it is. *)
LEMMA FinishLeavesPrompt ==
  ASSUME SubjectInv, NEW i, FinishCall(i)
  PROVE  SubjectInv'
<1>s. IsStore(store)
  BY DEF SubjectInv
<1>1. ASSUME NEW s, NEW fresh, Continued(i, s, fresh), IsStore(s), LeavesPrompt(s, fresh)
      PROVE  SubjectInv'
  <2>1. Render(s, fresh, loads)
    BY <1>1, Zenon DEF Continued
  <2> QED
    BY <2>1, <1>1, RenderLeavesPrompt
<1>2. ASSUME NEW pane, NEW fresh,
             Continued(i, [store EXCEPT !.pane = pane, !.interaction = "idle"], fresh)
      PROVE  SubjectInv'
  <2>1. PICK s : s = [store EXCEPT !.pane = pane, !.interaction = "idle"]
    OBVIOUS
  <2>2. IsStore(s) /\ LeavesPrompt(s, fresh)
    BY <1>s, <2>1 DEF IsStore, LeavesPrompt
  <2> QED
    BY <2>1, <2>2, <1>1, <1>2
<1>3. CASE FinishTree(i) \/ FinishDescription(i)
  BY <1>2, <1>3, Zenon DEF FinishTree, FinishDescription
<1>4. CASE FinishFailed(i)
  <2>1. PICK s : s = IF calls[i].op \in {"deleteItem", "deleteDescription"}
                     THEN [store EXCEPT !.interaction = "idle"] ELSE store
    OBVIOUS
  <2>2. Continued(i, s, {})
    BY <1>4, <2>1, Zenon DEF FinishFailed
  <2>3. IsStore(s) /\ LeavesPrompt(s, {})
    <3>1. CASE s = store
      BY <1>s, <3>1 DEF LeavesPrompt, SamePrompt, SameLists, SamePlace
    <3>2. CASE s = [store EXCEPT !.interaction = "idle"]
      BY <1>s, <3>2 DEF IsStore, LeavesPrompt
    <3> QED
      BY <2>1, <3>1, <3>2
  <2> QED
    BY <2>2, <2>3, <1>1
<1> QED
  BY <1>3, <1>4, Zenon DEF FinishCall

(* SubjectKept: an open prompt goes on being about what it was opened for, *)
(* until an answer replaces the list.                                      *)
THEOREM PromptsKeepSubject == Spec => []SubjectKept
<1>1. Init => SubjectInv
  BY DEF Init, InitialStore, SubjectInv, SubjectKept, IsStore
<1>2. SubjectInv /\ [Next]_vars => SubjectInv'
  <2> SUFFICES ASSUME SubjectInv, [Next]_vars
               PROVE  SubjectInv'
    OBVIOUS
  <2>1. CASE Key
    BY <2>1, KeyLeavesPrompt
  <2>2. ASSUME NEW kind \in Kinds, NEW i \in DOMAIN loads[kind],
               Read(kind, i) \/ LoadFails(kind, i)
        PROVE  SubjectInv'
    BY <2>2, StoreKept, Zenon DEF Read, LoadFails
  <2>3. ASSUME NEW kind \in Kinds, NEW i \in DOMAIN loads[kind], AnswerLoad(kind, i)
        PROVE  SubjectInv'
    BY <2>3, AnswerLeavesPrompt
  <2>4. ASSUME NEW i \in DOMAIN calls, Perform(i)
        PROVE  SubjectInv'
    BY <2>4, StoreKept, Zenon DEF Perform
  <2>5. ASSUME NEW i \in DOMAIN calls, FinishCall(i)
        PROVE  SubjectInv'
    BY <2>5, FinishLeavesPrompt
  <2>6. CASE UNCHANGED vars
    BY <2>6, StoreKept, Zenon DEF vars
  <2> QED
    BY <2>1, <2>2, <2>3, <2>4, <2>5, <2>6, Zenon DEF Next
<1>3. SubjectInv => SubjectKept
  BY DEF SubjectInv
<1> QED
  BY <1>1, <1>2, <1>3, PTL DEF Spec
(* The Descriptions listed, and those a load has read.                     *)
DescriptionRow == [id : Descriptions, text : Nat]
RowsWith(d, entry) == {row \in DescriptionRow : d.owner[row.id] \in {entry} \cup Deleted}
DescriptionLoad ==
  [of : Entries, cursor : Nat, read : BOOLEAN, rows : Seq(DescriptionRow), passed : BOOLEAN]
LoadsOf(d) == {load \in DescriptionLoad : load.read => load.rows \in Seq(RowsWith(d, load.of))}

ListsOpenEntry(s, d) ==
  \/ s.entry \in Entries /\ s.descriptions \in Seq(RowsWith(d, s.entry))
  \/ s.entry = None /\ s.descriptions = <<>>

IsDb(d) ==
  /\ d = [place |-> d.place, owner |-> d.owner, text |-> d.text]
  /\ d.owner = [id \in Descriptions |-> d.owner[id]]
  /\ d.text \in [Items \cup Descriptions -> Nat]

IsLoads(queues, d) ==
  /\ queues = [kind \in Kinds |-> queues[kind]]
  /\ queues["descriptions"] \in Seq(LoadsOf(d))

WriteOps ==
  TreeOps \cup {"createDescription", "updateDescription", "deleteDescription"}
IsCall(call) ==
  /\ call = [op |-> call.op, target |-> call.target, state |-> call.state]
  /\ call.op \in WriteOps
IsCalls(queue) == queue \in Seq(ToSet(queue)) /\ \A call \in ToSet(queue) : IsCall(call)

ListedInv ==
  /\ IsStore(store) /\ ListsOpenEntry(store, db)
  /\ IsDb(db)
  /\ IsLoads(loads, db)
  /\ IsCalls(calls)

LEMMA SmallerSet ==
  ASSUME NEW S, IsFiniteSet(S), NEW T \in SUBSET S, T # S
  PROVE  Cardinality(T) < Cardinality(S)
<1>1. /\ Cardinality(S) \in Nat
      /\ IsFiniteSet(T) /\ Cardinality(T) <= Cardinality(S) /\ Cardinality(S) # Cardinality(T)
  BY FS_Subset, FS_CardinalityType
<1>2. Cardinality(T) \in Nat
  BY <1>1, FS_CardinalityType
<1> QED
  BY <1>1, <1>2

(* Each of some positions is the n-th for one n, and each n has its own.   *)
LEMMA NthIs ==
  ASSUME NEW S \in SUBSET Nat, IsFiniteSet(S), NEW n \in 1..Cardinality(S)
  PROVE  Nth(S, n) \in S
<1> DEFINE UpTo(k) == {j \in S : j <= k}
           place == [k \in S |-> Cardinality(UpTo(k))]
<1>1. PICK size \in Nat : size = Cardinality(S)
  BY FS_CardinalityType
<1>2. ASSUME NEW k \in S
      PROVE  IsFiniteSet(UpTo(k)) /\ Cardinality(UpTo(k)) \in 1..size
  <2>1. UpTo(k) \in SUBSET S /\ k \in UpTo(k)
    OBVIOUS
  <2>2. IsFiniteSet(UpTo(k)) /\ Cardinality(UpTo(k)) <= size
    BY <1>1, <2>1, FS_Subset
  <2>3. Cardinality(UpTo(k)) \in Nat /\ Cardinality(UpTo(k)) # 0
    BY <2>1, <2>2, FS_CardinalityType, FS_EmptySet
  <2> HIDE DEF UpTo
  <2> QED
    BY <2>2, <2>3
<1>3. ASSUME NEW k \in S, NEW m \in S, k < m
      PROVE  Cardinality(UpTo(k)) < Cardinality(UpTo(m))
  <2>1. UpTo(k) \in SUBSET UpTo(m) /\ m \in UpTo(m) /\ m \notin UpTo(k)
    <3>1. k \in Nat /\ m \in Nat /\ m <= m /\ ~(m <= k)
      BY <1>3
    <3>2. \A j \in S : j <= k => j <= m
      BY <1>3, <3>1
    <3> QED
      BY <3>1, <3>2
  <2>2. UpTo(k) # UpTo(m)
    BY <2>1
  <2>3. IsFiniteSet(UpTo(m))
    BY <1>2
  <2> HIDE DEF UpTo
  <2> QED
    BY <2>1, <2>2, <2>3, SmallerSet
<1>4. place \in [S -> 1..size]
  <2> HIDE DEF UpTo
  <2> QED
    BY <1>2
<1>5. ASSUME NEW k \in S, NEW m \in S, place[k] = place[m]
      PROVE  k = m
  <2>1. Cardinality(UpTo(k)) = Cardinality(UpTo(m))
    BY <1>5
  <2>2. Cardinality(UpTo(k)) \in Nat /\ Cardinality(UpTo(m)) \in Nat
    <3> HIDE DEF UpTo
    <3> QED
      BY <1>2
  <2>3. ~(k < m) /\ ~(m < k)
    <3> HIDE DEF UpTo
    <3> QED
      BY <1>3, <2>1, <2>2
  <2> QED
    BY <2>3
<1>6. place \in Injection(S, 1..size)
  <2> HIDE DEF place
  <2> QED
    BY <1>4, <1>5 DEF Injection, IsInjective
<1>7. IsFiniteSet(1..size) /\ Cardinality(1..size) = size
  BY FS_Interval
<1>8. place \in Surjection(S, 1..size)
  <2> HIDE DEF place
  <2> QED
    BY <1>1, <1>6, <1>7, FS_Injection
<1>9. \E k \in S : place[k] = n
  <2> HIDE DEF place
  <2> QED
    BY <1>1, <1>8 DEF Surjection
<1>10. \E k \in S : Cardinality({j \in S : j <= k}) = n
  <2>1. PICK k \in S : place[k] = n
    BY <1>9
  <2>2. place[k] = Cardinality(UpTo(k))
    BY Zenon
  <2>3. Cardinality({j \in S : j <= k}) = n
    BY <2>1, <2>2, Zenon
  <2> QED
    BY <2>3
<1> QED
  BY <1>10, Zenon DEF Nth

(* The rows of a query are those of the parent it was made for. *)
RowsUnder(S, parents, parent) == {row \in [id : S, text : Nat] : parents[row.id] = parent}

LEMMA RowsOfIs ==
  ASSUME NEW d, NEW S, \A id \in S : d.text[id] \in Nat, NEW ids \in Seq(S), NEW parents,
         NEW parent
  PROVE  RowsOf(d, ids, parents, parent)
           \in Seq(RowsUnder(S, parents, parent))
<1> DEFINE held == {k \in DOMAIN ids : parents[ids[k]] = parent}
           own == RowsUnder(S, parents, parent)
<1>1. DOMAIN ids = 1..Len(ids) /\ Len(ids) \in Nat
  BY LenProperties
<1>2. IsFiniteSet(1..Len(ids))
  BY <1>1, FS_Interval
<1>3. held \in SUBSET Nat /\ held \in SUBSET (1..Len(ids))
  BY <1>1
<1>4. IsFiniteSet(held)
  BY <1>2, <1>3, FS_Subset
<1>5. PICK size \in Nat : size = Cardinality(held)
  BY <1>4, FS_CardinalityType
<1>6. ASSUME NEW n \in 1..size
      PROVE  Row(d, ids[Nth(held, n)]) \in own
  <2>1. PICK k : k = Nth(held, n)
    OBVIOUS
  <2>2. k \in held
    <3> HIDE DEF held
    <3> QED
      BY <1>3, <1>4, <1>5, <2>1, NthIs
  <2>3. PICK id \in S : id = ids[k] /\ parents[id] = parent
    BY <1>1, <2>2, ElementOfSeq
  <2>4. d.text[id] \in Nat
    OBVIOUS
  <2>5. Row(d, id) \in own
    BY <2>3, <2>4 DEF Row, RowsUnder
  <2> QED
    BY <2>1, <2>3, <2>5
<1>7. RowsOf(d, ids, parents, parent) =
        [n \in 1..Cardinality(held) |-> Row(d, ids[Nth(held, n)])]
  BY Zenon DEF RowsOf
<1>8. PICK rows : rows = [n \in 1..size |-> Row(d, ids[Nth(held, n)])]
  OBVIOUS
<1>9. rows \in Seq(own) /\ Len(rows) = size
  <2> HIDE DEF held, own
  <2> QED
    BY <1>6, <1>8, IsASeq
<1>10. RowsOf(d, ids, parents, parent) = rows
  <2> HIDE DEF held
  <2> QED
    BY <1>5, <1>7, <1>8
<1> QED
  BY <1>9, <1>10

LEMMA DescriptionsOfIs ==
  ASSUME NEW d, IsDb(d), NEW entry
  PROVE  DescriptionsOf(d, entry) \in Seq(RowsWith(d, entry))
<1>1. DescriptionIds \in Seq(Descriptions)
  BY BrowserAssumption DEF Descriptions
<1>2. \A id \in Descriptions : d.text[id] \in Nat
  BY DEF IsDb
<1>3. PICK owners : owners = d.owner
  OBVIOUS
<1>4. RowsOf(d, DescriptionIds, owners, entry) \in Seq(RowsUnder(Descriptions, owners, entry))
  BY <1>1, <1>2, RowsOfIs
<1>5. RowsUnder(Descriptions, owners, entry) \subseteq RowsWith(d, entry)
  BY <1>3 DEF RowsUnder, RowsWith, DescriptionRow
<1> QED
  BY <1>3, <1>4, <1>5, SeqMonotonic DEF DescriptionsOf

(* A row that is written keeps its owner, loses it for good, or had none.  *)
OwnersMove(d, e) ==
  \A id \in Descriptions : e.owner[id] \in {d.owner[id]} \cup Deleted \/ d.owner[id] = None

LEMMA OutcomesMove ==
  ASSUME NEW d, IsDb(d), NEW call, call.op \in WriteOps, NEW e \in Outcomes(d, call)
  PROVE  IsDb(e) /\ OwnersMove(d, e)
<1>1. ASSUME NEW place, e = [d EXCEPT !.place = place]
      PROVE  IsDb(e) /\ OwnersMove(d, e)
  BY <1>1 DEF IsDb, OwnersMove
<1>2. ASSUME NEW ids, NEW folder, e \in WithItem(d, ids, folder)
      PROVE  IsDb(e) /\ OwnersMove(d, e)
  <2>1. \/ e = d
        \/ \E id : e = [d EXCEPT !.place[id] = folder]
    BY <1>2, Zenon DEF WithItem
  <2>2. ASSUME NEW id, e = [d EXCEPT !.place[id] = folder]
        PROVE  IsDb(e) /\ OwnersMove(d, e)
    BY <2>2 DEF IsDb, OwnersMove
  <2>3. CASE e = d
    BY <2>3 DEF OwnersMove
  <2> QED
    BY <2>1, <2>2, <2>3
<1>3. ASSUME NEW id, e = [d EXCEPT !.text[id] = @ + 1]
      PROVE  IsDb(e) /\ OwnersMove(d, e)
  <2>0. PICK first \in [Items \cup Descriptions -> Nat] : first = d.text
    BY DEF IsDb
  <2>1. PICK text : text = [first EXCEPT ![id] = @ + 1]
    OBVIOUS
  <2>2. text \in [Items \cup Descriptions -> Nat]
    <3>1. PICK more : more = first[id] + 1
      OBVIOUS
    <3>2. text = [first EXCEPT ![id] = more]
      BY <2>1, <3>1
    <3>3. id \in Items \cup Descriptions => more \in Nat
      BY <3>1
    <3> QED
      BY <3>2, <3>3
  <2>3. e = [place |-> d.place, owner |-> d.owner, text |-> text]
    BY <1>3, <2>0, <2>1 DEF IsDb
  <2> QED
    BY <2>2, <2>3 DEF IsDb, OwnersMove
<1>4. ASSUME NEW owner, owner = [id \in Descriptions |-> owner[id]],
             NEW place, e = [place |-> place, owner |-> owner, text |-> d.text],
             \A id \in Descriptions : owner[id] \in {d.owner[id]} \cup Deleted \/ d.owner[id] = None
      PROVE  IsDb(e) /\ OwnersMove(d, e)
  BY <1>4 DEF IsDb, OwnersMove
<1>5. ASSUME NEW id, NEW entry, e = [d EXCEPT !.owner[id] = entry],
             d.owner[id] = None \/ entry \in Deleted
      PROVE  IsDb(e) /\ OwnersMove(d, e)
  <2>0. PICK first : first = d.owner /\ first = [other \in Descriptions |-> first[other]]
    BY Zenon DEF IsDb
  <2>1. PICK owner : owner = [first EXCEPT ![id] = entry]
    OBVIOUS
  <2>2. owner = [other \in Descriptions |-> owner[other]]
    BY <2>0, <2>1
  <2>3. e = [place |-> d.place, owner |-> owner, text |-> d.text]
    BY <1>5, <2>0, <2>1 DEF IsDb
  <2>4. \A other \in Descriptions : owner[other] \in {d.owner[other]} \cup Deleted \/ d.owner[other] = None
    BY <1>5, <2>0, <2>1
  <2> QED
    BY <2>2, <2>3, <2>4, <1>4
<1>6. ASSUME NEW item, e = WithoutItem(d, item)
      PROVE  IsDb(e) /\ OwnersMove(d, e)
  <2>1. PICK gone : gone = {item} \cup {id \in Items : item \in Above(d)[id]}
    OBVIOUS
  <2>2. PICK place : place = [id \in Items |-> IF id \in gone THEN None ELSE d.place[id]]
    OBVIOUS
  <2>3. PICK owner :
          owner = [id \in Descriptions |-> IF d.owner[id] \in gone THEN Lost ELSE d.owner[id]]
    OBVIOUS
  <2>4. e = [d EXCEPT !.place = place, !.owner = owner]
    BY <1>6, <2>1, <2>2, <2>3, Zenon DEF WithoutItem
  <2>5. e = [place |-> place, owner |-> owner, text |-> d.text]
    BY <2>4 DEF IsDb
  <2>6. owner = [id \in Descriptions |-> owner[id]]
    BY <2>3
  <2>7. \A id \in Descriptions : owner[id] \in {d.owner[id]} \cup Deleted
    BY <2>3 DEF Deleted
  <2> QED
    BY <2>5, <2>6, <2>7, <1>4
<1>7. CASE call.op = "createFolder" \/ call.op = "createEntry"
  <2>1. \E ids : e \in WithItem(d, ids, call.target)
    BY <1>7 DEF Outcomes
  <2> QED
    BY <2>1, <1>2
<1>8. CASE call.op = "renameItem" \/ call.op = "updateDescription"
  <2>1. e = [d EXCEPT !.text[call.target] = @ + 1]
    BY <1>8 DEF Outcomes
  <2> QED
    BY <2>1, <1>3
<1>9. CASE call.op = "deleteItem"
  <2>1. e = WithoutItem(d, call.target)
    BY <1>9 DEF Outcomes
  <2> QED
    BY <2>1, <1>6
<1>10. CASE call.op = "createDescription"
  <2>1. PICK id \in Descriptions : d.owner[id] = None /\ e = [d EXCEPT !.owner[id] = call.target]
    BY <1>10 DEF Outcomes
  <2> QED
    BY <2>1, <1>5
<1>11. CASE call.op = "deleteDescription"
  <2>1. e = [d EXCEPT !.owner[call.target] = Gone]
    BY <1>11 DEF Outcomes
  <2> QED
    BY <2>1, <1>5 DEF Deleted
<1> QED
  BY <1>7, <1>8, <1>9, <1>10, <1>11 DEF WriteOps, TreeOps

(* A load that is taken out of its queue, and those it has passed.         *)
LEMMA WithoutIs ==
  ASSUME NEW d, IsLoads(loads, d), NEW kind \in Kinds, NEW i \in DOMAIN loads[kind]
  PROVE  IsLoads(Without(kind, i), d)
<1>1. PICK queue : queue = loads[kind]
  OBVIOUS
<1>2. PICK marked :
        marked = [j \in DOMAIN queue |->
                    IF j < i THEN [queue[j] EXCEPT !.passed = TRUE] ELSE queue[j]]
  OBVIOUS
<1>3. PICK left : left = RemoveAt(marked, i)
  OBVIOUS
<1>4. loads = [k \in Kinds |-> loads[k]]
  BY Zenon DEF IsLoads
<1>5. Without(kind, i) = [loads EXCEPT ![kind] = left]
  BY <1>1, <1>2, <1>3, <1>4, Zenon DEF Without
<1>6. Without(kind, i) = [k \in Kinds |-> IF k = kind THEN left ELSE loads[k]]
  BY <1>4, <1>5
<1>7. CASE kind # "descriptions"
  <2>1. Without(kind, i)["descriptions"] = loads["descriptions"]
    BY <1>6, <1>7 DEF Kinds
  <2> QED
    BY <1>6, <2>1 DEF IsLoads
<1>8. CASE kind = "descriptions"
  <2>1. queue \in Seq(LoadsOf(d)) /\ i \in DOMAIN queue
    BY <1>1, <1>8 DEF IsLoads
  <2>2. DOMAIN queue = 1..Len(queue) /\ Len(queue) \in Nat
    BY <2>1, LenProperties
  <2>3. ASSUME NEW j \in 1..Len(queue)
        PROVE  marked[j] \in LoadsOf(d)
    <3>1. PICK load \in LoadsOf(d) : load = queue[j]
      BY <2>1, <2>3, ElementOfSeq
    <3>2. [load EXCEPT !.passed = TRUE] \in LoadsOf(d)
      BY DEF LoadsOf, DescriptionLoad
    <3> QED
      BY <1>2, <2>2, <3>1, <3>2
  <2>4. marked \in Seq(LoadsOf(d)) /\ i \in DOMAIN marked
    BY <1>2, <2>1, <2>2, <2>3
  <2>5. left \in Seq(LoadsOf(d))
    BY <1>3, <2>4, RemoveShape
  <2>6. Without(kind, i)["descriptions"] = left
    BY <1>6, <1>8 DEF Kinds
  <2> QED
    BY <1>6, <2>5, <2>6 DEF IsLoads
<1> QED
  BY <1>7, <1>8

(* Every view asks for the Descriptions of the Entry that is open.         *)
LEMMA AskedIs ==
  ASSUME NEW s, s.entry \in Entries \cup {None}, NEW fresh, NEW d
  PROVE  ByEachView(LoadsAsked(s, fresh)["descriptions"]) \in Seq(LoadsOf(d))
<1>1. PICK asked : asked = LoadsAsked(s, fresh)["descriptions"]
  OBVIOUS
<1>2. PICK load : load = NewLoad(s.entry, 0)
  OBVIOUS
<1>3. \/ asked = <<>>
      \/ asked = <<load>> /\ s.entry # None
  BY <1>1, <1>2 DEF LoadsAsked
<1>4. CASE asked = <<>>
  <2>1. Len(asked) = 0
    BY <1>4
  <2>2. PICK n \in Nat : n = 0 /\ n = Views * Len(asked)
    BY <2>1, BrowserAssumption
  <2>3. PICK all : all = [m \in 1..n |-> asked[1]]
    OBVIOUS
  <2>4. all \in Seq(LoadsOf(d))
    BY <2>2, <2>3
  <2> QED
    BY <1>1, <2>2, <2>3, <2>4 DEF ByEachView
<1>5. CASE asked = <<load>> /\ s.entry # None
  <2>1. Len(asked) = 1 /\ asked[1] = load
    BY <1>5
  <2>2. PICK n \in Nat : n = Views /\ n = Views * Len(asked)
    BY <2>1, BrowserAssumption
  <2>3. load \in LoadsOf(d)
    <3>1. <<>> \in Seq(DescriptionRow)
      BY EmptySeq
    <3> QED
      BY <1>2, <1>5, <3>1 DEF NewLoad, LoadsOf, DescriptionLoad
  <2>4. PICK all : all = [m \in 1..n |-> load]
    OBVIOUS
  <2>5. all \in Seq(LoadsOf(d))
    BY <2>3, <2>4
  <2> QED
    BY <1>1, <2>1, <2>2, <2>4, <2>5 DEF ByEachView
<1> QED
  BY <1>3, <1>4, <1>5

(* What may be rendered: Descriptions of the Entry that is open, or an     *)
(* Entry that is opened or closed, which clears them.                      *)
Renders(s) ==
  /\ IsStore(s)
  /\ \/ ListsOpenEntry(s, db)
     \/ mounted /\ s.entry # store.entry /\ s.entry \in Entries \cup {None}

LEMMA RerenderLists ==
  ASSUME NEW s, NEW fresh, NEW rest, IsStore(s), IsLoads(rest, db), UNCHANGED db,
         \/ ListsOpenEntry(s, db)
         \/ s.entry # store.entry /\ s.entry \in Entries \cup {None},
         Rerender(s, fresh, rest)
  PROVE  IsStore(store') /\ ListsOpenEntry(store', db) /\ IsLoads(loads', db)
<1>1. PICK first : first = ConfirmRendered(s)
  OBVIOUS
<1>2. PICK after : after = AfterEffects(first, fresh)
  OBVIOUS
<1>3. PICK last : last = ConfirmRendered(after)
  OBVIOUS
<1>4. store' = last
  BY <1>1, <1>2, <1>3, Zenon DEF Rerender
<1>5. IsStore(first) /\ first.descriptions = s.descriptions /\ first.entry = s.entry
  BY <1>1, ConfirmRenderedIs DEF SameLists, SamePlace
<1>6. /\ IsStore(after) /\ after.entry = s.entry
      /\ after.descriptions = IF DescriptionsRun(first, fresh) THEN <<>> ELSE s.descriptions
  <2>1. /\ IsStore(AfterEffects(first, fresh)) /\ AfterEffects(first, fresh).entry = first.entry
        /\ AfterEffects(first, fresh).descriptions =
             IF DescriptionsRun(first, fresh) THEN <<>> ELSE first.descriptions
    BY <1>5, AfterEffectsIs, ZenonT(60)
  <2> QED
    BY <1>2, <1>5, <2>1, ZenonT(60)
<1>7. IsStore(last) /\ last.descriptions = after.descriptions /\ last.entry = s.entry
  BY <1>3, <1>6, ConfirmRenderedIs DEF SameLists, SamePlace
<1>8. ListsOpenEntry(last, db)
  <2>1. CASE DescriptionsRun(first, fresh)
    <3>1. last.descriptions = <<>> /\ last.entry \in Entries \cup {None}
      BY <1>6, <1>7, <2>1 DEF ListsOpenEntry
    <3>2. <<>> \in Seq(RowsWith(db, last.entry))
      BY EmptySeq
    <3> QED
      BY <3>1, <3>2 DEF ListsOpenEntry
  <2>2. CASE ~DescriptionsRun(first, fresh)
    <3>1. s.entry = store.entry
      BY <1>5, <2>2 DEF DescriptionsRun
    <3>2. last.descriptions = s.descriptions
      BY <1>6, <1>7, <2>2
    <3> QED
      BY <1>7, <3>1, <3>2 DEF ListsOpenEntry
  <2> QED
    BY <2>1, <2>2
<1>9. IsLoads(loads', db)
  <2>1. s.entry \in Entries \cup {None}
    BY DEF ListsOpenEntry
  <2>2. PICK more : more = ByEachView(LoadsAsked(s, fresh)["descriptions"])
    OBVIOUS
  <2>3. more \in Seq(LoadsOf(db))
    BY <2>1, <2>2, AskedIs
  <2>4. loads' = [kind \in Kinds |-> rest[kind] \o ByEachView(LoadsAsked(s, fresh)[kind])]
    BY Zenon DEF Rerender
  <2>5. loads'["descriptions"] = rest["descriptions"] \o more
    BY <2>2, <2>4 DEF Kinds
  <2>6. loads'["descriptions"] \in Seq(LoadsOf(db))
    BY <2>3, <2>5, ConcatProperties DEF IsLoads
  <2>7. loads' = [kind \in Kinds |-> loads'[kind]]
    BY <2>4
  <2> QED
    BY <2>6, <2>7 DEF IsLoads
<1> QED
  BY <1>4, <1>7, <1>8, <1>9

LEMMA RenderLists ==
  ASSUME NEW s, NEW fresh, NEW rest, Renders(s), IsLoads(rest, db), UNCHANGED db,
         Render(s, fresh, rest)
  PROVE  IsStore(store') /\ ListsOpenEntry(store', db) /\ IsLoads(loads', db)
<1>1. CASE mounted
  <2>1. Rerender(s, fresh, rest)
    BY <1>1, Zenon DEF Render
  <2> QED
    <3>1. /\ IsStore(s)
          /\ \/ ListsOpenEntry(s, db)
             \/ s.entry # store.entry /\ s.entry \in Entries \cup {None}
      BY Zenon DEF Renders
    <3> QED
      BY <2>1, <3>1, RerenderLists, Zenon
<1>2. CASE ~mounted
  <2>1. store' = s /\ loads' = rest
    BY <1>2 DEF Render
  <2> QED
    BY <1>2, <2>1 DEF Renders
<1> QED
  BY <1>1, <1>2

LEMMA ListedStep ==
  ASSUME IsStore(store'), ListsOpenEntry(store', db'), IsDb(db'), IsLoads(loads', db'),
         IsCalls(calls')
  PROVE  ListedInv'
BY Zenon DEF ListedInv

LEMMA RenderListed ==
  ASSUME ListedInv, NEW s, NEW fresh, NEW rest, Renders(s), IsLoads(rest, db),
         Render(s, fresh, rest), UNCHANGED db, IsCalls(calls')
  PROVE  ListedInv'
<1>1. IsStore(store') /\ ListsOpenEntry(store', db) /\ IsLoads(loads', db)
  BY RenderLists
<1>2. IsDb(db)
  BY DEF ListedInv
<1> QED
  BY <1>1, <1>2, ListedStep

LEMMA ListedKept ==
  ASSUME ListedInv, UNCHANGED <<store, db>>, IsLoads(loads', db), IsCalls(calls')
  PROVE  ListedInv'
<1>1. IsStore(store) /\ ListsOpenEntry(store, db) /\ IsDb(db)
  BY DEF ListedInv
<1> QED
  BY <1>1, ListedStep

LEMMA SameListRenders ==
  ASSUME ListedInv, NEW s, IsStore(s), s.descriptions = store.descriptions,
         \/ s.entry = store.entry
         \/ mounted /\ s.entry \in Entries \cup {None}
  PROVE  Renders(s)
BY DEF ListedInv, Renders, ListsOpenEntry

LEMMA PressListed ==
  ASSUME ListedInv, NEW s, NEW fresh, Pressed(s, fresh), IsStore(s),
         s.descriptions = store.descriptions,
         s.entry = store.entry \/ s.entry \in Entries \cup {None}
  PROVE  ListedInv'
<1>1. mounted /\ Render(s, fresh, loads) /\ UNCHANGED <<db, calls>>
  BY Zenon DEF Pressed, CanPress
<1>2. IsLoads(loads, db) /\ IsCalls(calls)
  BY DEF ListedInv
<1>3. Renders(s)
  BY <1>1, SameListRenders, Zenon
<1> QED
  BY <1>1, <1>2, <1>3, RenderListed

(* The writes in flight. *)
LEMMA CallsFrom ==
  ASSUME NEW S, \A call \in S : IsCall(call), NEW queue \in Seq(S)
  PROVE  IsCalls(queue)
<1>1. DOMAIN queue = 1..Len(queue) /\ Len(queue) \in Nat
      /\ \A i \in DOMAIN queue : queue[i] \in S
  BY ElementOfSeq, LenProperties
<1>2. \A i \in 1..Len(queue) : queue[i] \in ToSet(queue)
  BY <1>1 DEF ToSet
<1>3. queue \in Seq(ToSet(queue))
  BY <1>1, <1>2
<1>4. \A call \in ToSet(queue) : IsCall(call)
  BY <1>1 DEF ToSet
<1> QED
  BY <1>3, <1>4 DEF IsCalls

LEMMA SubmittedListed ==
  ASSUME ListedInv, NEW op \in WriteOps, NEW target, Submitted(op, target)
  PROVE  ListedInv'
<1>1. PICK call : call = [op |-> op, target |-> target, state |-> "asked"]
  OBVIOUS
<1>2. IsCall(call)
  BY <1>1 DEF IsCall
<1>3. calls' = Append(calls, call) /\ UNCHANGED <<store, db, loads>>
  BY <1>1, Zenon DEF Submitted
<1>4. PICK S : S = ToSet(calls) \cup {call}
  OBVIOUS
<1>5. calls \in Seq(ToSet(calls)) /\ \A c \in ToSet(calls) : IsCall(c)
  BY DEF ListedInv, IsCalls
<1>6. calls \in Seq(S) /\ \A c \in S : IsCall(c)
  BY <1>2, <1>4, <1>5, SeqMonotonic
<1>7. calls' \in Seq(S)
  BY <1>3, <1>4, <1>6, AppendProperties
<1>8. IsCalls(calls')
  BY <1>6, <1>7, CallsFrom
<1>9. IsLoads(loads, db)
  BY DEF ListedInv
<1> QED
  BY <1>3, <1>8, <1>9, ListedKept

LEMMA FinishedCalls ==
  ASSUME IsCalls(calls), NEW i \in DOMAIN calls
  PROVE  IsCalls(RemoveAt(calls, i))
<1>1. RemoveAt(calls, i) \in Seq(ToSet(calls))
  BY RemoveShape DEF IsCalls
<1>2. \A call \in ToSet(calls) : IsCall(call)
  BY DEF IsCalls
<1> QED
  BY <1>1, <1>2, CallsFrom

LEMMA AnsweredCalls ==
  ASSUME IsCalls(calls), NEW i \in DOMAIN calls, NEW state
  PROVE  IsCalls([calls EXCEPT ![i].state = state])
<1>1. calls \in Seq(ToSet(calls)) /\ \A call \in ToSet(calls) : IsCall(call)
  BY DEF IsCalls
<1>2. PICK call : call = calls[i] /\ call \in ToSet(calls)
  BY DEF ToSet
<1>3. PICK next : next = [call EXCEPT !.state = state]
  OBVIOUS
<1>4. IsCall(next)
  BY <1>1, <1>2, <1>3 DEF IsCall
<1>5. PICK S : S = ToSet(calls) \cup {next}
  OBVIOUS
<1>6. calls \in Seq(S) /\ \A c \in S : IsCall(c)
  BY <1>1, <1>4, <1>5, SeqMonotonic
<1>7. DOMAIN calls = 1..Len(calls)
  BY <1>1, LenProperties
<1>8. [calls EXCEPT ![i] = next] \in Seq(S)
  BY <1>5, <1>6, <1>7, ExceptSeq
<1>9. [calls EXCEPT ![i].state = state] = [calls EXCEPT ![i] = next]
  BY <1>2, <1>3
<1> QED
  BY <1>6, <1>8, <1>9, CallsFrom

LEMMA KeyListed ==
  ASSUME ListedInv, Key
  PROVE  ListedInv'
<1>s. IsStore(store) /\ IsLoads(loads, db) /\ IsCalls(calls) /\ ListsOpenEntry(store, db)
  BY DEF ListedInv
<1>1. ASSUME NEW direction \in {"up", "down"}, MoveCursor(direction)
      PROVE  ListedInv'
  <2>1. Pressed(MovedStore(direction), {})
    BY <1>1, Zenon DEF MoveCursor
  <2>2. PICK tree : tree = Moved(store.treeCursor, Len(store.items), direction)
    OBVIOUS
  <2>3. PICK other : other = Moved(store.descriptionCursor, Len(store.descriptions), direction)
    OBVIOUS
  <2>4. MovedStore(direction) \in {[store EXCEPT !.treeCursor = tree],
                                   [store EXCEPT !.descriptionCursor = other]}
    BY <2>2, <2>3 DEF MovedStore
  <2>5. MovedStore(direction).descriptions = store.descriptions
        /\ MovedStore(direction).entry = store.entry
    BY <1>s, <2>4 DEF IsStore
  <2> QED
    BY <1>s, <2>1, <2>5, MovedStoreIs, PressListed, Zenon
<1>2. CASE NavigateIn
  <2>1. ASSUME NEW folder, NavigateInto(folder)
        PROVE  ListedInv'
    <3>1. PICK path : path = Append(store.path, folder)
      OBVIOUS
    <3>2. PICK s : s = [store EXCEPT !.path = path, !.treeCursor = 0, !.entry = None,
                                     !.pane = "tree"]
      OBVIOUS
    <3>3. Pressed(s, {"path"})
      BY <2>1, <3>1, <3>2, Zenon DEF NavigateInto
    <3>4. IsStore(s) /\ s.descriptions = store.descriptions /\ s.entry = None
      BY <1>s, <3>2 DEF IsStore
    <3> QED
      BY <3>3, <3>4, PressListed
  <2>2. ASSUME NEW entry \in Entries, OpenEntry(entry)
        PROVE  ListedInv'
    <3>1. PICK cursor : cursor = SelectInSeq(store.items, LAMBDA row : row.id = entry) - 1
      OBVIOUS
    <3>2. PICK s : s = [store EXCEPT !.entry = entry, !.pane = "description",
                                     !.descriptionCursor = 0, !.treeCursor = cursor]
      OBVIOUS
    <3>3. Pressed(s, {})
      BY <2>2, <3>1, <3>2, Zenon DEF OpenEntry
    <3>4. IsStore(s) /\ s.descriptions = store.descriptions /\ s.entry = entry
      BY <1>s, <3>2 DEF IsStore
    <3> QED
      BY <3>3, <3>4, PressListed
  <2> QED
    BY <1>2, <2>1, <2>2, Zenon DEF NavigateIn
<1>3. CASE NavigateOut
  <2>1. CASE CloseEntry
    <3>1. PICK s : s = [store EXCEPT !.pane = "tree", !.entry = None, !.interaction = "idle",
                                     !.descriptionCursor = 0]
      OBVIOUS
    <3>2. Pressed(s, {})
      BY <2>1, <3>1, Zenon DEF CloseEntry
    <3>3. IsStore(s) /\ s.descriptions = store.descriptions /\ s.entry = None
      BY <1>s, <3>1 DEF IsStore
    <3> QED
      BY <3>2, <3>3, PressListed
  <2>2. CASE NavigateUp
    <3>1. PICK path : path = SubSeq(store.path, 1, Len(store.path) - 1)
      OBVIOUS
    <3>2. PICK s : s = [store EXCEPT !.path = path, !.treeCursor = 0, !.entry = None,
                                     !.pane = "tree"]
      OBVIOUS
    <3>3. Pressed(s, {"path"})
      BY <2>2, <3>1, <3>2, Zenon DEF NavigateUp
    <3>4. IsStore(s) /\ s.descriptions = store.descriptions /\ s.entry = None
      BY <1>s, <3>2 DEF IsStore
    <3> QED
      BY <3>3, <3>4, PressListed
  <2> QED
    BY <1>3, <2>1, <2>2, Zenon DEF NavigateOut
<1>4. ASSUME NEW interaction, Pressed([store EXCEPT !.interaction = interaction], {})
      PROVE  ListedInv'
  <2>1. PICK s : s = [store EXCEPT !.interaction = interaction]
    OBVIOUS
  <2>2. IsStore(s) /\ s.descriptions = store.descriptions /\ s.entry = store.entry
    BY <1>s, <2>1 DEF IsStore
  <2> QED
    BY <1>4, <2>1, <2>2, PressListed
<1>5. CASE \/ CancelAction \/ RequestCreate
           \/ RequestTreeRename \/ RequestTreeDelete
           \/ RequestDescriptionRename \/ RequestDescriptionDelete
           \/ SubmitBlank
  <2>1. \E interaction : Pressed([store EXCEPT !.interaction = interaction], {})
    BY <1>5, Zenon DEF CancelAction, RequestCreate, RequestTreeRename, RequestTreeDelete,
                       RequestDescriptionRename, RequestDescriptionDelete, Requested,
                       SubmitBlank, SubmitBlankTreeCreate, SubmitBlankTreeRename,
                       SubmitBlankDescriptionCreate, SubmitBlankDescriptionRename
  <2> QED
    BY <2>1, <1>4, Zenon
<1>6. CASE \/ SubmitTreeCreate \/ SubmitTreeRename \/ ConfirmTreeDelete
           \/ SubmitDescriptionCreate \/ SubmitDescriptionRename \/ ConfirmDescriptionDelete
  <2>1. \E op \in WriteOps : \E target : Submitted(op, target)
    BY <1>6 DEF SubmitTreeCreate, SubmitTreeRename, ConfirmTreeDelete,
                SubmitDescriptionCreate, SubmitDescriptionRename,
                ConfirmDescriptionDelete, WriteOps, TreeOps
  <2> QED
    BY <2>1, SubmittedListed, Zenon
<1>7. CASE LeavePage
  <2>1. UNCHANGED <<store, db, loads, calls>>
    BY <1>7, Zenon DEF LeavePage
  <2> QED
    BY <2>1, <1>s, ListedKept
<1>8. CASE EnterPage
  <2>1. Rerender(store, {"mount", "answer"}, loads) /\ UNCHANGED <<db, calls>>
    BY <1>8, Zenon DEF EnterPage
  <2>2. IsStore(store') /\ ListsOpenEntry(store', db) /\ IsLoads(loads', db)
    <3>1. UNCHANGED db
      BY <2>1
    <3> QED
      BY <1>s, <2>1, <3>1, RerenderLists, Zenon
  <2>3. IsDb(db)
    BY DEF ListedInv
  <2> QED
    BY <1>s, <2>1, <2>2, <2>3, ListedStep
<1> QED
  BY <1>1, <1>2, <1>3, <1>5, <1>6, <1>7, <1>8, Zenon DEF Key

(* The rows of an answer are those of the Entry it was asked for.          *)
LEMMA AnswerIs ==
  ASSUME ListedInv, NEW i \in DOMAIN loads["descriptions"]
  PROVE  /\ loads["descriptions"][i] \in LoadsOf(db)
         /\ Answer("descriptions", i) \in Seq(RowsWith(db, loads["descriptions"][i].of))
<1>1. loads["descriptions"] \in Seq(LoadsOf(db)) /\ IsDb(db)
  BY DEF ListedInv, IsLoads
<1>2. PICK load \in LoadsOf(db) : load = loads["descriptions"][i]
  BY <1>1, ElementOfSeq, LenProperties
<1>3. CASE load.read
  <2>1. Answer("descriptions", i) = load.rows
    BY <1>2, <1>3, Zenon DEF Answer
  <2>2. load.rows \in Seq(RowsWith(db, load.of))
    BY <1>3 DEF LoadsOf
  <2> QED
    BY <1>2, <2>1, <2>2
<1>4. CASE ~load.read
  <2>1. Answer("descriptions", i) = RowsRead("descriptions", load.of)
    BY <1>2, <1>4, Zenon DEF Answer
  <2>2. RowsRead("descriptions", load.of) = DescriptionsOf(db, load.of)
    BY DEF RowsRead
  <2>3. DescriptionsOf(db, load.of) \in Seq(RowsWith(db, load.of))
    BY <1>1, DescriptionsOfIs
  <2> QED
    BY <1>2, <2>1, <2>2, <2>3
<1> QED
  BY <1>3, <1>4

LEMMA AnswerListed ==
  ASSUME ListedInv, NEW kind \in Kinds, NEW i \in DOMAIN loads[kind], AnswerLoad(kind, i)
  PROVE  ListedInv'
<1>s. IsStore(store) /\ IsLoads(loads, db) /\ IsCalls(calls) /\ ListsOpenEntry(store, db)
  BY DEF ListedInv
<1>w. IsLoads(Without(kind, i), db)
  BY <1>s, WithoutIs
<1>1. ASSUME NEW s, NEW fresh, Applied(kind, i, s, fresh), Renders(s)
      PROVE  ListedInv'
  <2>1. Render(s, fresh, Without(kind, i)) /\ UNCHANGED db /\ UNCHANGED calls
    BY <1>1, Zenon DEF Applied
  <2> QED
    BY <1>1, <1>s, <1>w, <2>1, RenderListed
<1>2. CASE Dropped(kind, i)
  <2>1. loads' = Without(kind, i) /\ UNCHANGED <<store, db>> /\ UNCHANGED calls
    BY <1>2, Zenon DEF Dropped
  <2> QED
    BY <1>s, <1>w, <2>1, ListedKept
<1>3. CASE kind = "root" /\ RootAnswered(i)
  <2>1. PICK s : s = [store EXCEPT !.path = <<Root>>]
    OBVIOUS
  <2>2. Applied(kind, i, s, {"path", "answer"})
    BY <1>3, <2>1, Zenon DEF RootAnswered
  <2>3. IsStore(s) /\ s.descriptions = store.descriptions /\ s.entry = store.entry
    BY <1>s, <2>1 DEF IsStore
  <2> QED
    BY <2>2, <2>3, <1>1, SameListRenders
<1>4. CASE kind = "items" /\ ItemsAnswered(i)
  <2>1. PICK rows : rows = Answer("items", i)
    OBVIOUS
  <2>2. PICK s : s = [store EXCEPT !.items = rows]
    OBVIOUS
  <2>3. Applied(kind, i, s, {"items", "answer"})
    BY <1>4, <2>1, <2>2, Zenon DEF ItemsAnswered
  <2>4. IsStore(s) /\ s.descriptions = store.descriptions /\ s.entry = store.entry
    BY <1>s, <2>2 DEF IsStore
  <2> QED
    BY <2>3, <2>4, <1>1, SameListRenders
<1>5. CASE kind = "preview" /\ PreviewAnswered(i)
  <2>1. PICK preview : preview = [id |-> loads["preview"][i].of, rows |-> Answer("preview", i)]
    OBVIOUS
  <2>2. PICK s : s = [store EXCEPT !.preview = preview]
    OBVIOUS
  <2>3. \/ Applied(kind, i, s, {})
        \/ Dropped(kind, i)
    BY <1>5, <2>1, <2>2, Zenon DEF PreviewAnswered
  <2>4. IsStore(s) /\ s.descriptions = store.descriptions /\ s.entry = store.entry
    BY <1>s, <2>2 DEF IsStore
  <2> QED
    BY <2>3, <2>4, <1>1, <1>2, SameListRenders
<1>6. CASE kind = "descriptions" /\ DescriptionsAnswered(i)
  <2>1. PICK rows : rows = Answer("descriptions", i)
    OBVIOUS
  <2>2. PICK s : s = [store EXCEPT !.descriptions = rows]
    OBVIOUS
  <2>3. \/ Applied(kind, i, s, {"answer"}) /\ store.entry = loads["descriptions"][i].of
        \/ Dropped(kind, i)
    BY <1>6, <2>1, <2>2, Zenon DEF DescriptionsAnswered, DescriptionsWanted
  <2>4. CASE Applied(kind, i, s, {"answer"}) /\ store.entry = loads["descriptions"][i].of
    <3>1. rows \in Seq(RowsWith(db, store.entry)) /\ store.entry \in Entries
      BY <1>6, <2>1, <2>4, AnswerIs DEF LoadsOf, DescriptionLoad
    <3>2. IsStore(s) /\ s.descriptions = rows /\ s.entry = store.entry
      BY <1>s, <2>2 DEF IsStore
    <3>3. Renders(s)
      BY <3>1, <3>2 DEF Renders, ListsOpenEntry
    <3> QED
      BY <2>4, <3>3, <1>1
  <2> QED
    BY <2>3, <2>4, <1>2
<1> QED
  BY <1>3, <1>4, <1>5, <1>6, Zenon DEF AnswerLoad

LEMMA ReadListed ==
  ASSUME ListedInv, NEW kind \in Kinds, NEW i \in DOMAIN loads[kind], Read(kind, i)
  PROVE  ListedInv'
<1>s. IsLoads(loads, db) /\ IsCalls(calls) /\ IsDb(db)
  BY DEF ListedInv
<1>1. PICK queue : queue = loads[kind]
  OBVIOUS
<1>2. PICK rows : rows = RowsRead(kind, loads[kind][i].of)
  OBVIOUS
<1>3. PICK load : load = queue[i]
  OBVIOUS
<1>4. PICK next : next = [queue EXCEPT ![i].read = TRUE, ![i].rows = rows]
  OBVIOUS
<1>5. loads' = [loads EXCEPT ![kind][i].read = TRUE, ![kind][i].rows = rows]
      /\ UNCHANGED <<store, db>> /\ UNCHANGED calls
  BY <1>2, Zenon DEF Read
<1>6. loads = [k \in Kinds |-> loads[k]]
  BY <1>s, Zenon DEF IsLoads
<1>7. loads' = [k \in Kinds |-> IF k = kind THEN next ELSE loads[k]]
  BY <1>1, <1>4, <1>5, <1>6
<1>8. loads'["descriptions"] \in Seq(LoadsOf(db))
  <2>1. CASE kind # "descriptions"
    BY <1>7, <1>s, <2>1 DEF IsLoads, Kinds
  <2>2. CASE kind = "descriptions"
    <3>1. queue \in Seq(LoadsOf(db)) /\ i \in DOMAIN queue
      BY <1>1, <1>s, <2>2 DEF IsLoads
    <3>2. DOMAIN queue = 1..Len(queue)
      BY <3>1, LenProperties
    <3>3. load \in LoadsOf(db)
      BY <1>3, <3>1, <3>2, ElementOfSeq
    <3>4. rows \in Seq(RowsWith(db, load.of))
      <4>1. rows = DescriptionsOf(db, load.of)
        BY <1>1, <1>2, <1>3, <2>2 DEF RowsRead
      <4> QED
        BY <4>1, <1>s, DescriptionsOfIs
    <3>5. rows \in Seq(DescriptionRow)
      <4>1. RowsWith(db, load.of) \subseteq DescriptionRow
        BY DEF RowsWith
      <4> QED
        BY <3>4, <4>1, SeqMonotonic
    <3>6. PICK read : read = [load EXCEPT !.read = TRUE, !.rows = rows]
      OBVIOUS
    <3>7. read \in LoadsOf(db)
      BY <3>3, <3>4, <3>5, <3>6 DEF LoadsOf, DescriptionLoad
    <3>8. next = [queue EXCEPT ![i] = read]
      BY <1>3, <1>4, <3>1, <3>6
    <3>9. next \in Seq(LoadsOf(db))
      BY <3>1, <3>2, <3>7, <3>8, ExceptSeq
    <3> QED
      BY <1>7, <2>2, <3>9 DEF Kinds
  <2> QED
    BY <2>1, <2>2
<1>9. IsLoads(loads', db)
  <2>1. loads' = [k \in Kinds |-> loads'[k]]
    BY <1>7
  <2> QED
    BY <1>8, <2>1 DEF IsLoads
<1> QED
  BY <1>5, <1>9, <1>s, ListedKept

LEMMA FailureListed ==
  ASSUME ListedInv, NEW kind \in Kinds, NEW i \in DOMAIN loads[kind], LoadFails(kind, i)
  PROVE  ListedInv'
<1>s. IsLoads(loads, db) /\ IsCalls(calls)
  BY DEF ListedInv
<1>1. PICK left : left = RemoveAt(loads[kind], i)
  OBVIOUS
<1>2. loads = [k \in Kinds |-> loads[k]]
  BY <1>s, Zenon DEF IsLoads
<1>3. loads' = [loads EXCEPT ![kind] = left] /\ UNCHANGED <<store, db>> /\ UNCHANGED calls
  BY <1>1, <1>2, Zenon DEF LoadFails
<1>4. loads' = [k \in Kinds |-> IF k = kind THEN left ELSE loads[k]]
  BY <1>2, <1>3
<1>5. loads'["descriptions"] \in Seq(LoadsOf(db))
  <2>1. CASE kind # "descriptions"
    BY <1>4, <1>s, <2>1 DEF IsLoads, Kinds
  <2>2. CASE kind = "descriptions"
    <3>1. left \in Seq(LoadsOf(db))
      BY <1>1, <1>s, <2>2, RemoveShape DEF IsLoads
    <3> QED
      BY <1>4, <2>2, <3>1 DEF Kinds
  <2> QED
    BY <2>1, <2>2
<1>6. IsLoads(loads', db)
  <2>1. loads' = [k \in Kinds |-> loads'[k]]
    BY <1>4
  <2> QED
    BY <1>5, <2>1 DEF IsLoads
<1> QED
  BY <1>3, <1>6, <1>s, ListedKept

(* A write takes no row from one Entry to another.                         *)
LEMMA RowsMove ==
  ASSUME NEW d, NEW e, OwnersMove(d, e), NEW entry \in Entries
  PROVE  RowsWith(d, entry) \subseteq RowsWith(e, entry)
<1> SUFFICES ASSUME NEW row \in RowsWith(d, entry)
             PROVE  row \in RowsWith(e, entry)
  OBVIOUS
<1>1. row \in DescriptionRow /\ row.id \in Descriptions /\ d.owner[row.id] \in {entry} \cup Deleted
  BY DEF RowsWith, DescriptionRow
<1>2. d.owner[row.id] # None
  BY <1>1, BrowserAssumption DEF Items
<1>3. e.owner[row.id] \in {d.owner[row.id]} \cup Deleted
  BY <1>1, <1>2 DEF OwnersMove
<1> QED
  BY <1>1, <1>3 DEF RowsWith

LEMMA PerformListed ==
  ASSUME ListedInv, NEW i \in DOMAIN calls, Perform(i)
  PROVE  ListedInv'
<1>s. /\ IsLoads(loads, db) /\ IsCalls(calls) /\ IsDb(db)
      /\ IsStore(store) /\ ListsOpenEntry(store, db)
  BY DEF ListedInv
<1>1. /\ IsDb(db') /\ OwnersMove(db, db')
      /\ \E state : calls' = [calls EXCEPT ![i].state = state]
      /\ UNCHANGED <<store, loads>>
  <2>1. CASE UNCHANGED db /\ calls' = [calls EXCEPT ![i].state = "failed"]
    <3>1. OwnersMove(db, db')
      BY <2>1 DEF OwnersMove
    <3>2. UNCHANGED <<store, loads>>
      BY Zenon DEF Perform
    <3>3. IsDb(db')
      BY <2>1, <1>s
    <3> QED
      BY <2>1, <3>1, <3>2, <3>3
  <2>2. CASE db' \in Outcomes(db, calls[i]) /\ calls' = [calls EXCEPT ![i].state = "done"]
    <3>1. calls[i].op \in WriteOps
      BY <1>s DEF IsCalls, IsCall, ToSet
    <3>2. IsDb(db') /\ OwnersMove(db, db')
      BY <1>s, <2>2, <3>1, OutcomesMove
    <3>3. UNCHANGED <<store, loads>>
      BY Zenon DEF Perform
    <3> QED
      BY <2>2, <3>2, <3>3
  <2> QED
    BY <2>1, <2>2, Zenon DEF Perform
<1>2. IsCalls(calls')
  <2>1. PICK state : calls' = [calls EXCEPT ![i].state = state]
    BY <1>1
  <2> QED
    BY <1>s, <2>1, AnsweredCalls
<1>3. ListsOpenEntry(store, db')
  BY <1>1, <1>s, RowsMove, SeqMonotonic DEF ListsOpenEntry
<1>4. LoadsOf(db) \subseteq LoadsOf(db')
  <2> SUFFICES ASSUME NEW load \in LoadsOf(db)
               PROVE  load \in LoadsOf(db')
    OBVIOUS
  <2>1. load \in DescriptionLoad /\ load.of \in Entries
        /\ (load.read => load.rows \in Seq(RowsWith(db, load.of)))
    BY DEF LoadsOf, DescriptionLoad
  <2>2. RowsWith(db, load.of) \subseteq RowsWith(db', load.of)
    BY <1>1, <2>1, RowsMove
  <2>3. load.read => load.rows \in Seq(RowsWith(db', load.of))
    BY <2>1, <2>2, SeqMonotonic
  <2> QED
    BY <2>1, <2>3 DEF LoadsOf
<1>5. IsLoads(loads, db')
  BY <1>4, <1>s, SeqMonotonic DEF IsLoads
<1> QED
  BY <1>1, <1>2, <1>3, <1>5, <1>s, ListedStep

LEMMA FinishListed ==
  ASSUME ListedInv, NEW i \in DOMAIN calls, FinishCall(i)
  PROVE  ListedInv'
<1>s. IsStore(store) /\ IsLoads(loads, db) /\ IsCalls(calls)
  BY DEF ListedInv
<1>1. ASSUME NEW s, NEW fresh, Continued(i, s, fresh), IsStore(s),
             s.descriptions = store.descriptions, s.entry = store.entry
      PROVE  ListedInv'
  <2>1. Render(s, fresh, loads) /\ UNCHANGED db /\ calls' = RemoveAt(calls, i)
    BY <1>1, Zenon DEF Continued
  <2>2. Renders(s)
    BY <1>1, SameListRenders
  <2>3. IsCalls(calls')
    BY <1>s, <2>1, FinishedCalls
  <2> QED
    BY <1>s, <2>1, <2>2, <2>3, RenderListed
<1>2. ASSUME NEW pane, NEW fresh,
             Continued(i, [store EXCEPT !.pane = pane, !.interaction = "idle"], fresh)
      PROVE  ListedInv'
  <2>1. PICK s : s = [store EXCEPT !.pane = pane, !.interaction = "idle"]
    OBVIOUS
  <2>2. IsStore(s) /\ s.descriptions = store.descriptions /\ s.entry = store.entry
    BY <1>s, <2>1 DEF IsStore
  <2> QED
    BY <2>1, <2>2, <1>1, <1>2
<1>3. CASE FinishTree(i) \/ FinishDescription(i)
  BY <1>2, <1>3, Zenon DEF FinishTree, FinishDescription
<1>4. CASE FinishFailed(i)
  <2>1. PICK s : s = IF calls[i].op \in {"deleteItem", "deleteDescription"}
                     THEN [store EXCEPT !.interaction = "idle"] ELSE store
    OBVIOUS
  <2>2. Continued(i, s, {})
    BY <1>4, <2>1, Zenon DEF FinishFailed
  <2>3. IsStore(s) /\ s.descriptions = store.descriptions /\ s.entry = store.entry
    <3>1. CASE s = store
      BY <1>s, <3>1
    <3>2. CASE s = [store EXCEPT !.interaction = "idle"]
      BY <1>s, <3>2 DEF IsStore
    <3> QED
      BY <2>1, <3>1, <3>2
  <2> QED
    BY <2>2, <2>3, <1>1
<1> QED
  BY <1>3, <1>4, Zenon DEF FinishCall

LEMMA ListedInitially == Init => ListedInv
<1> SUFFICES ASSUME Init
             PROVE  ListedInv
  OBVIOUS
<1>1. IsStore(store) /\ ListsOpenEntry(store, db)
  BY DEF Init, InitialStore, IsStore, ListsOpenEntry
<1>2. IsDb(db)
  BY DEF Init, IsDb
<1>3. IsLoads(loads, db)
  <2>1. loads["descriptions"] = <<>> /\ loads = [kind \in Kinds |-> loads[kind]]
    BY DEF Init, Kinds
  <2>2. <<>> \in Seq(LoadsOf(db))
    BY EmptySeq
  <2> QED
    BY <2>1, <2>2 DEF IsLoads
<1>4. IsCalls(calls)
  <2>1. calls = <<>> /\ <<>> \in Seq({})
    BY EmptySeq DEF Init
  <2> QED
    BY <2>1, CallsFrom
<1> QED
  BY <1>1, <1>2, <1>3, <1>4 DEF ListedInv

LEMMA ListedNext == ListedInv /\ [Next]_vars => ListedInv'
<1> SUFFICES ASSUME ListedInv, [Next]_vars
             PROVE  ListedInv'
  OBVIOUS
<1>1. CASE Key
  BY <1>1, KeyListed
<1>2. ASSUME NEW kind \in Kinds, NEW i \in DOMAIN loads[kind], Read(kind, i)
      PROVE  ListedInv'
  BY <1>2, ReadListed
<1>3. ASSUME NEW kind \in Kinds, NEW i \in DOMAIN loads[kind], AnswerLoad(kind, i)
      PROVE  ListedInv'
  BY <1>3, AnswerListed
<1>4. ASSUME NEW kind \in Kinds, NEW i \in DOMAIN loads[kind], LoadFails(kind, i)
      PROVE  ListedInv'
  BY <1>4, FailureListed
<1>5. ASSUME NEW i \in DOMAIN calls, Perform(i)
      PROVE  ListedInv'
  BY <1>5, PerformListed
<1>6. ASSUME NEW i \in DOMAIN calls, FinishCall(i)
      PROVE  ListedInv'
  BY <1>6, FinishListed
<1>7. CASE UNCHANGED vars
  <2>1. UNCHANGED <<store, db>> /\ UNCHANGED loads /\ UNCHANGED calls
    BY <1>7 DEF vars
  <2>2. IsLoads(loads, db) /\ IsCalls(calls)
    BY DEF ListedInv
  <2> QED
    BY <2>1, <2>2, ListedKept
<1> QED
  BY <1>1, <1>2, <1>3, <1>4, <1>5, <1>6, <1>7, Zenon DEF Next

(* DescriptionsOfOpenEntry: the Descriptions that are listed belong to the *)
(* Entry that is open, whatever was asked for before.                      *)
THEOREM ListedBelongToEntry == Spec => []DescriptionsOfOpenEntry
<1>1. ListedInv => DescriptionsOfOpenEntry
  <2> SUFFICES ASSUME ListedInv, NEW i \in DOMAIN store.descriptions
               PROVE  /\ store.entry # None
                      /\ db.owner[store.descriptions[i].id] \in {store.entry} \cup Deleted
    BY DEF DescriptionsOfOpenEntry
  <2>1. store.entry \in Entries /\ store.descriptions \in Seq(RowsWith(db, store.entry))
    BY DEF ListedInv, ListsOpenEntry
  <2>2. store.descriptions[i] \in RowsWith(db, store.entry)
    BY <2>1, ElementOfSeq, LenProperties
  <2> QED
    BY <2>1, <2>2, BrowserAssumption DEF RowsWith, Items
<1> QED
  BY <1>1, ListedInitially, ListedNext, PTL DEF Spec

-----------------------------------------------------------------------------
(* What the page shows once all has been answered. *)

LEMMA RowsHeld ==
  ASSUME NEW d, NEW S, NEW ids \in Seq(S), NEW parents, NEW parent,
         NEW k \in DOMAIN ids, parents[ids[k]] = parent
  PROVE  RowsOf(d, ids, parents, parent) # <<>>
<1> DEFINE held == {j \in DOMAIN ids : parents[ids[j]] = parent}
<1>1. DOMAIN ids = 1..Len(ids) /\ Len(ids) \in Nat
  BY LenProperties
<1>2. IsFiniteSet(1..Len(ids)) /\ held \in SUBSET (1..Len(ids)) /\ k \in held
  BY <1>1, FS_Interval
<1>3. PICK size \in Nat : size = Cardinality(held)
  BY <1>2, FS_Subset, FS_CardinalityType
<1>4. size # 0
  <2> HIDE DEF held
  <2> QED
    BY <1>2, <1>3, FS_Subset, FS_EmptySet
<1>5. RowsOf(d, ids, parents, parent) =
        [n \in 1..Cardinality(held) |-> Row(d, ids[Nth(held, n)])]
  BY Zenon DEF RowsOf
<1>6. PICK rows : rows = [n \in 1..size |-> Row(d, ids[Nth(held, n)])]
  OBVIOUS
<1>7. 1 \in DOMAIN rows
  <2> HIDE DEF held
  <2> QED
    BY <1>3, <1>4, <1>6
<1>8. RowsOf(d, ids, parents, parent) = rows
  <2> HIDE DEF held
  <2> QED
    BY <1>3, <1>5, <1>6
<1> QED
  BY <1>7, <1>8

(* Two queries that hold the same rows. *)
HoldSame(d, e, S, before, after, parent) ==
  \A id \in S :
    /\ before[id] = parent <=> after[id] = parent
    /\ before[id] = parent => d.text[id] = e.text[id]

LEMMA RowsOfSame ==
  ASSUME NEW d, NEW e, NEW S, NEW ids \in Seq(S), NEW before, NEW after, NEW parent,
         HoldSame(d, e, S, before, after, parent)
  PROVE  RowsOf(d, ids, before, parent) = RowsOf(e, ids, after, parent)
<1> DEFINE held == {k \in DOMAIN ids : before[ids[k]] = parent}
           holds == {k \in DOMAIN ids : after[ids[k]] = parent}
<1>1. DOMAIN ids = 1..Len(ids) /\ Len(ids) \in Nat /\ \A k \in DOMAIN ids : ids[k] \in S
  BY LenProperties, ElementOfSeq
<1>2. held = holds
  BY <1>1 DEF HoldSame
<1>3. /\ RowsOf(d, ids, before, parent) =
           [n \in 1..Cardinality(held) |-> Row(d, ids[Nth(held, n)])]
      /\ RowsOf(e, ids, after, parent) =
           [n \in 1..Cardinality(holds) |-> Row(e, ids[Nth(holds, n)])]
  BY Zenon DEF RowsOf
<1>4. IsFiniteSet(1..Len(ids)) /\ held \in SUBSET Nat /\ held \in SUBSET (1..Len(ids))
  <2>1. IsFiniteSet(1..Len(ids))
    BY <1>1, FS_Interval
  <2>2. held \in SUBSET DOMAIN ids
    OBVIOUS
  <2> HIDE DEF held
  <2> QED
    BY <1>1, <2>1, <2>2
<1>5. IsFiniteSet(held)
  BY <1>4, FS_Subset
<1>6. ASSUME NEW n \in 1..Cardinality(held)
      PROVE  Row(d, ids[Nth(held, n)]) = Row(e, ids[Nth(held, n)])
  <2>1. PICK k : k = Nth(held, n)
    OBVIOUS
  <2>2. k \in held
    <3> HIDE DEF held
    <3> QED
      BY <1>4, <1>5, <2>1, NthIs
  <2>3. d.text[ids[k]] = e.text[ids[k]]
    BY <1>1, <2>2 DEF HoldSame
  <2> QED
    BY <2>1, <2>3 DEF Row
<1>7. RowsOf(d, ids, before, parent) =
        [n \in 1..Cardinality(held) |-> Row(e, ids[Nth(held, n)])]
  <2> HIDE DEF held
  <2> QED
    BY <1>3, <1>6
<1> QED
  BY <1>2, <1>3, <1>7

ItemRow == [id : Items, text : Nat]
AnyRow == [id : Items \cup Descriptions, text : Nat]

LEMMA ItemsInIs ==
  ASSUME NEW d, IsDb(d), NEW folder
  PROVE  ItemsIn(d, folder) \in Seq(ItemRow)
<1>1. FolderIds \in Seq(Folders) /\ EntryIds \in Seq(Entries)
  BY BrowserAssumption DEF Folders, Entries
<1>2. \A id \in Items : d.text[id] \in Nat
  BY DEF IsDb
<1>3. ASSUME NEW S \in SUBSET Items, NEW ids \in Seq(S)
      PROVE  RowsOf(d, ids, d.place, folder) \in Seq(ItemRow)
  <2>1. PICK own : own = RowsUnder(S, d.place, folder)
    OBVIOUS
  <2>2. own \in SUBSET ItemRow
    BY <2>1 DEF ItemRow, RowsUnder
  <2>3. PICK places : places = d.place
    OBVIOUS
  <2>4. RowsOf(d, ids, places, folder) \in
          Seq(RowsUnder(S, places, folder))
    BY <1>2, <1>3, RowsOfIs
  <2>5. RowsOf(d, ids, d.place, folder) \in Seq(own)
    BY <2>1, <2>3, <2>4
  <2> QED
    BY <2>2, <2>5, SeqMonotonic
<1>4. /\ RowsOf(d, FolderIds, d.place, folder) \in Seq(ItemRow)
      /\ RowsOf(d, EntryIds, d.place, folder) \in Seq(ItemRow)
  <2>1. Folders \in SUBSET Items /\ Entries \in SUBSET Items
    BY DEF Items
  <2> QED
    BY <1>1, <1>2, <1>3, <2>1
<1> QED
  BY <1>4, ConcatProperties DEF ItemsIn

LEMMA ItemsInSame ==
  ASSUME NEW d, NEW e, e.place = d.place, \A id \in Items : e.text[id] = d.text[id], NEW folder
  PROVE  ItemsIn(e, folder) = ItemsIn(d, folder)
<1>1. FolderIds \in Seq(Folders) /\ EntryIds \in Seq(Entries)
  BY BrowserAssumption DEF Folders, Entries
<1>2. Folders \in SUBSET Items /\ Entries \in SUBSET Items
  BY DEF Items
<1>3. PICK places : places = d.place
  OBVIOUS
<1>4. ASSUME NEW S \in SUBSET Items, NEW ids \in Seq(S)
      PROVE  RowsOf(d, ids, places, folder) = RowsOf(e, ids, places, folder)
  <2>1. HoldSame(d, e, S, places, places, folder)
    BY <1>4 DEF HoldSame
  <2> QED
    BY <1>4, <2>1, RowsOfSame
<1> QED
  BY <1>1, <1>2, <1>3, <1>4 DEF ItemsIn

(* Rows that are those of the Entry, or went with it. *)
AreOf(rows, d, entry) ==
  \/ rows = DescriptionsOf(d, entry)
  \/ \E i \in DOMAIN rows : d.owner[rows[i].id] = Lost

(* A write to Folders and Entries, which takes Descriptions along. *)
TakesAlong(d, e, gone) ==
  /\ \A id \in Descriptions : e.owner[id] = IF d.owner[id] \in gone THEN Lost ELSE d.owner[id]
  /\ \A id \in Descriptions : e.text[id] = d.text[id]

LEMMA AreOfKept ==
  ASSUME NEW d, NEW e, NEW gone, IsDb(d), TakesAlong(d, e, gone), NEW entry \in Entries,
         NEW rows \in Seq(DescriptionRow), AreOf(rows, d, entry)
  PROVE  AreOf(rows, e, entry)
<1>1. DescriptionIds \in Seq(Descriptions) /\ Descriptions = ToSet(DescriptionIds)
  BY BrowserAssumption DEF Descriptions
<1>2. \A i \in DOMAIN rows : rows[i].id \in Descriptions
  <2>1. \A i \in DOMAIN rows : rows[i] \in DescriptionRow
    BY ElementOfSeq, LenProperties
  <2> QED
    BY <2>1 DEF DescriptionRow
<1>3. CASE \E i \in DOMAIN rows : d.owner[rows[i].id] = Lost
  BY <1>2, <1>3 DEF AreOf, TakesAlong
<1>4. CASE rows = DescriptionsOf(d, entry)
  <2>1. /\ rows \in Seq({row \in [id : Descriptions, text : Nat] : d.owner[row.id] = entry})
        /\ \A k \in DOMAIN DescriptionIds : d.owner[DescriptionIds[k]] = entry => rows # <<>>
    <3>1. \A id \in Descriptions : d.text[id] \in Nat
      BY DEF IsDb
    <3>2. PICK owners : owners = d.owner
      OBVIOUS
    <3>3. RowsOf(d, DescriptionIds, owners, entry)
               \in Seq(RowsUnder(Descriptions, owners, entry))
      BY <1>1, <3>1, RowsOfIs
    <3>5. \A k \in DOMAIN DescriptionIds : owners[DescriptionIds[k]] = entry =>
            RowsOf(d, DescriptionIds, owners, entry) # <<>>
      BY <1>1, RowsHeld, Zenon
    <3>4. rows = RowsOf(d, DescriptionIds, owners, entry)
      BY <1>4, <3>2 DEF DescriptionsOf
    <3> QED
      BY <3>2, <3>3, <3>4, <3>5 DEF RowsUnder
  <2>2. CASE entry \in gone /\ rows # <<>>
    <3>1. 1 \in DOMAIN rows /\ d.owner[rows[1].id] = entry
      BY <2>1, <2>2, ElementOfSeq, LenProperties
    <3> QED
      BY <1>2, <2>2, <3>1 DEF AreOf, TakesAlong
  <2>3. CASE entry \notin gone \/ rows = <<>>
    <3>1. \A id \in Descriptions : d.owner[id] = entry <=> e.owner[id] = entry
      <4>1. entry # Lost
        BY BrowserAssumption
      <4>2. CASE entry \notin gone
        BY <4>1, <4>2 DEF TakesAlong
      <4>3. CASE rows = <<>>
        <5>1. \A id \in Descriptions : d.owner[id] # entry
          BY <1>1, <2>1, <4>3 DEF ToSet
        <5> QED
          BY <4>1, <5>1 DEF TakesAlong
      <4> QED
        BY <2>3, <4>2, <4>3
    <3>2. \A id \in Descriptions : d.owner[id] = entry => d.text[id] = e.text[id]
      BY DEF TakesAlong
    <3>3. DescriptionsOf(d, entry) = DescriptionsOf(e, entry)
      <4>2. PICK before, after : before = d.owner /\ after = e.owner
        OBVIOUS
      <4>1. HoldSame(d, e, Descriptions, before, after, entry)
        BY <3>1, <3>2, <4>2 DEF HoldSame
      <4>3. RowsOf(d, DescriptionIds, before, entry) = RowsOf(e, DescriptionIds, after, entry)
        BY <1>1, <3>1, <3>2, <4>2, <4>1, RowsOfSame
      <4> QED
        BY <4>2, <4>3 DEF DescriptionsOf
    <3> QED
      BY <1>4, <3>3 DEF AreOf
  <2> QED
    BY <2>2, <2>3
<1> QED
  BY <1>3, <1>4 DEF AreOf

(* A write touches Folders and Entries, or Descriptions. *)
DescriptionOps == {"createDescription", "updateDescription", "deleteDescription"}

IsTarget(call) ==
  /\ call.op = "renameItem" => call.target \in Items
  /\ call.op = "updateDescription" => call.target \in Descriptions

PlacesFit(d) == d.place = [id \in Items |-> d.place[id]]

LEMMA OutcomesTouch ==
  ASSUME NEW d, IsDb(d), PlacesFit(d), NEW call, call.op \in WriteOps, IsTarget(call),
         NEW e \in Outcomes(d, call)
  PROVE  /\ PlacesFit(e)
         /\ call.op \in TreeOps => \E gone : TakesAlong(d, e, gone)
         /\ call.op \notin TreeOps =>
              e.place = d.place /\ \A id \in Items : e.text[id] = d.text[id]
<1>t. \A id \in Items \cup Descriptions : d.text[id] \in Nat
  BY DEF IsDb
<1>1. CASE call.op = "createFolder" \/ call.op = "createEntry"
  <2>1. PICK ids : e \in WithItem(d, ids, call.target)
    BY <1>1 DEF Outcomes
  <2>2. \/ e = d
        \/ \E id : e = [d EXCEPT !.place[id] = call.target]
    BY <2>1, Zenon DEF WithItem
  <2>3. e.owner = d.owner /\ e.text = d.text /\ PlacesFit(e)
    <3>1. CASE e = d
      BY <3>1
    <3>2. ASSUME NEW id, e = [d EXCEPT !.place[id] = call.target]
          PROVE  e.owner = d.owner /\ e.text = d.text /\ PlacesFit(e)
      <4>1. PICK first : first = d.place /\ first = [other \in Items |-> first[other]]
        BY Zenon DEF PlacesFit
      <4>2. PICK place : place = [first EXCEPT ![id] = call.target]
        OBVIOUS
      <4>3. place = [other \in Items |-> place[other]]
        BY <4>1, <4>2
      <4>4. e = [place |-> place, owner |-> d.owner, text |-> d.text]
        BY <3>2, <4>1, <4>2 DEF IsDb
      <4> QED
        BY <4>3, <4>4 DEF PlacesFit
    <3> QED
      BY <2>2, <3>1, <3>2
  <2>4. TakesAlong(d, e, {})
    BY <2>3 DEF TakesAlong
  <2> QED
    BY <1>1, <2>3, <2>4 DEF TreeOps
<1>2. CASE call.op = "renameItem" \/ call.op = "updateDescription"
  <2>1. e = [d EXCEPT !.text[call.target] = @ + 1]
    BY <1>2 DEF Outcomes
  <2>2. PICK first : first = d.text /\ first \in [Items \cup Descriptions -> Nat]
    BY DEF IsDb
  <2>3. PICK text : text = [first EXCEPT ![call.target] = @ + 1]
    OBVIOUS
  <2>4. e = [place |-> d.place, owner |-> d.owner, text |-> text]
    BY <2>1, <2>2, <2>3 DEF IsDb
  <2>5. \A id \in Items \cup Descriptions : id # call.target => text[id] = first[id]
    BY <2>2, <2>3
  <2>6. PlacesFit(e)
    BY <2>4 DEF PlacesFit
  <2>7. CASE call.op = "renameItem"
    <3>1. \A id \in Descriptions : text[id] = first[id]
      BY <2>5, <2>7, BrowserAssumption DEF IsTarget
    <3>2. TakesAlong(d, e, {})
      BY <2>2, <2>4, <3>1 DEF TakesAlong
    <3> QED
      BY <2>6, <2>7, <3>2 DEF TreeOps
  <2>8. CASE call.op = "updateDescription"
    <3>1. \A id \in Items : text[id] = first[id]
      BY <2>5, <2>8, BrowserAssumption DEF IsTarget
    <3> QED
      BY <2>2, <2>4, <2>6, <2>8, <3>1 DEF TreeOps
  <2> QED
    BY <1>2, <2>7, <2>8
<1>3. CASE call.op = "deleteItem"
  <2>1. e = WithoutItem(d, call.target)
    BY <1>3 DEF Outcomes
  <2>2. PICK gone : gone = {call.target} \cup {id \in Items : call.target \in Above(d)[id]}
    OBVIOUS
  <2>3. PICK place : place = [id \in Items |-> IF id \in gone THEN None ELSE d.place[id]]
    OBVIOUS
  <2>4. PICK owner :
          owner = [id \in Descriptions |-> IF d.owner[id] \in gone THEN Lost ELSE d.owner[id]]
    OBVIOUS
  <2>5. e = [d EXCEPT !.place = place, !.owner = owner]
    BY <2>1, <2>2, <2>3, <2>4, Zenon DEF WithoutItem
  <2>6. e = [place |-> place, owner |-> owner, text |-> d.text]
    BY <2>5 DEF IsDb
  <2>7. PlacesFit(e) /\ TakesAlong(d, e, gone)
    BY <2>3, <2>4, <2>6 DEF PlacesFit, TakesAlong
  <2> QED
    BY <1>3, <2>7 DEF TreeOps
<1>4. CASE call.op = "createDescription" \/ call.op = "deleteDescription"
  <2>1. \E id, entry : e = [d EXCEPT !.owner[id] = entry]
    BY <1>4 DEF Outcomes
  <2>2. PICK id, entry : e = [d EXCEPT !.owner[id] = entry]
    BY <2>1
  <2>3. PICK owner : owner = [d.owner EXCEPT ![id] = entry]
    OBVIOUS
  <2>4. e = [place |-> d.place, owner |-> owner, text |-> d.text]
    BY <2>2, <2>3 DEF IsDb
  <2> QED
    BY <1>4, <2>4 DEF TreeOps, PlacesFit
<1> QED
  BY <1>1, <1>2, <1>3, <1>4 DEF WriteOps, TreeOps

(* The loads in flight. *)

LoadRecord ==
  [of : Items \cup {Root}, cursor : Nat, read : BOOLEAN, rows : Seq(AnyRow), passed : BOOLEAN]
LoadOf(kind) ==
  {load \in LoadRecord :
     /\ kind = "items" => load.rows \in Seq(ItemRow)
     /\ kind = "preview" => load.of \in Items}

(* What is left of a queue when load i is answered. *)
LeftOf(queue, i) ==
  RemoveAt([j \in DOMAIN queue |->
              IF j < i THEN [queue[j] EXCEPT !.passed = TRUE] ELSE queue[j]], i)

LEMMA LeftOfIs ==
  ASSUME NEW kind, NEW queue \in Seq(LoadOf(kind)), NEW i \in DOMAIN queue,
         NEW left, left = LeftOf(queue, i)
  PROVE  /\ left \in Seq(LoadOf(kind)) /\ Len(left) = Len(queue) - 1
         /\ \A j \in DOMAIN left :
              /\ j < i => /\ j \in DOMAIN queue /\ left[j].passed
                          /\ left[j].of = queue[j].of /\ left[j].cursor = queue[j].cursor
              /\ j >= i => j + 1 \in DOMAIN queue \ {i} /\ left[j] = queue[j + 1]
<1>1. PICK marked :
        marked = [j \in DOMAIN queue |->
                    IF j < i THEN [queue[j] EXCEPT !.passed = TRUE] ELSE queue[j]]
  OBVIOUS
<1>2. DOMAIN queue = 1..Len(queue) /\ Len(queue) \in Nat
      /\ \A j \in DOMAIN queue : queue[j] \in LoadOf(kind)
  BY ElementOfSeq, LenProperties
<1>3. ASSUME NEW j \in 1..Len(queue)
      PROVE  /\ marked[j] \in LoadOf(kind)
             /\ j < i => /\ marked[j].passed
                         /\ marked[j].of = queue[j].of /\ marked[j].cursor = queue[j].cursor
             /\ j >= i => marked[j] = queue[j]
  <2>1. PICK load \in LoadOf(kind) : load = queue[j]
    BY <1>2
  <2>2. PICK mark : mark = [load EXCEPT !.passed = TRUE]
    OBVIOUS
  <2>3. mark \in LoadOf(kind) /\ mark.of = load.of /\ mark.cursor = load.cursor /\ mark.passed
    BY <2>2 DEF LoadOf, LoadRecord
  <2>4. marked[j] = IF j < i THEN mark ELSE load
    BY <1>1, <1>2, <2>1, <2>2
  <2>5. CASE j < i
    BY <1>2, <2>1, <2>3, <2>4, <2>5
  <2>6. CASE ~(j < i)
    BY <1>2, <2>1, <2>3, <2>4, <2>6
  <2> QED
    BY <2>5, <2>6
<1>4. marked \in Seq(LoadOf(kind)) /\ DOMAIN marked = 1..Len(queue)
  <2>1. PICK S : S = LoadOf(kind)
    OBVIOUS
  <2>2. PICK n \in Nat : n = Len(queue)
    BY <1>2
  <2>3. DOMAIN marked = 1..n /\ marked = [j \in 1..n |-> marked[j]]
    BY <1>1, <1>2, <2>2
  <2>4. marked \in Seq(S)
    BY <1>3, <2>1, <2>2, <2>3, FunctionIsSeq
  <2> QED
    BY <2>1, <2>2, <2>3, <2>4
<1>5. left = RemoveAt(marked, i)
  BY <1>1, Zenon DEF LeftOf
<1>6. /\ left \in Seq(LoadOf(kind)) /\ Len(left) = Len(marked) - 1
      /\ \A j \in DOMAIN left :
           LET k == IF j < i THEN j ELSE j + 1
           IN k \in DOMAIN marked \ {i} /\ left[j] = marked[k]
  <2>1. i \in DOMAIN marked
    BY <1>2, <1>4
  <2>2. PICK S : S = LoadOf(kind)
    OBVIOUS
  <2>3. /\ RemoveAt(marked, i) \in Seq(S)
        /\ Len(RemoveAt(marked, i)) = Len(marked) - 1
        /\ \A j \in DOMAIN RemoveAt(marked, i) :
             LET k == IF j < i THEN j ELSE j + 1
             IN k \in DOMAIN marked \ {i} /\ RemoveAt(marked, i)[j] = marked[k]
    <3>1. marked \in Seq(S)
      BY <1>4, <2>2
    <3> QED
      BY <2>1, <3>1, RemoveShape
  <2> QED
    BY <1>5, <2>2, <2>3
<1>7. Len(marked) = Len(queue)
  BY <1>2, <1>4, LenProperties
<1>8. ASSUME NEW j \in DOMAIN left
      PROVE  /\ j < i => /\ j \in DOMAIN queue /\ left[j].passed
                         /\ left[j].of = queue[j].of /\ left[j].cursor = queue[j].cursor
             /\ j >= i => j + 1 \in DOMAIN queue \ {i} /\ left[j] = queue[j + 1]
  <2>1. j \in Nat /\ i \in Nat
    <3>1. DOMAIN left = 1..Len(left)
      BY <1>6, LenProperties
    <3> QED
      BY <1>2, <3>1
  <2>2. CASE j < i
    <3>1. j \in 1..Len(queue) /\ left[j] = marked[j]
      BY <1>4, <1>6, <2>2
    <3> QED
      BY <1>2, <1>3, <2>1, <2>2, <3>1
  <2>3. CASE ~(j < i)
    <3>1. j + 1 \in 1..Len(queue) /\ j + 1 # i /\ left[j] = marked[j + 1]
      BY <1>4, <1>6, <2>3
    <3>2. j + 1 >= i
      BY <2>1, <2>3
    <3> QED
      BY <1>2, <1>3, <2>3, <3>1, <3>2
  <2> QED
    BY <2>2, <2>3
<1> QED
  BY <1>6, <1>7, <1>8

(* A load asks for something that is wanted, if it does at some cursor. *)
Asks(load, wants) == <<load.of, load.cursor>> \in wants
OnePassed(queue, wants) == \E j \in DOMAIN queue : queue[j].passed /\ Asks(queue[j], wants)
NoneAsks(queue, wants) == \A j \in DOMAIN queue : ~Asks(queue[j], wants)

(* When a load is answered that none has passed, or that is not wanted:    *)
(* one that was passed is still there, or the last one is, or the last was *)
(* the only one.                                                           *)
LEMMA AnswerLeaves ==
  ASSUME NEW kind, NEW queue \in Seq(LoadOf(kind)), NEW i \in DOMAIN queue,
         NEW left, left = LeftOf(queue, i), NEW wants,
         ~(queue[i].passed /\ Asks(queue[i], wants))
  PROVE  /\ OnePassed(queue, wants) => OnePassed(left, wants)
         /\ Asks(Last(queue), wants) =>
              \/ OnePassed(left, wants)
              \/ left # <<>> /\ Last(left) = Last(queue)
              \/ i = Len(queue) /\ NoneAsks(left, wants)
         /\ NoneAsks(queue, wants) => NoneAsks(left, wants)
<1>1. DOMAIN queue = 1..Len(queue) /\ Len(queue) \in Nat
      /\ \A j \in DOMAIN queue : queue[j] \in LoadOf(kind)
  BY ElementOfSeq, LenProperties
<1>2. left \in Seq(LoadOf(kind)) /\ Len(left) = Len(queue) - 1
  BY LeftOfIs
<1>3. DOMAIN left = 1..Len(queue) - 1
  BY <1>2, LenProperties
<1>4. \A j \in DOMAIN left :
        /\ j < i => left[j].passed /\ (Asks(left[j], wants) <=> Asks(queue[j], wants))
        /\ j >= i => left[j] = queue[j + 1]
  <2>1. \A j \in DOMAIN left :
          /\ j < i => /\ j \in DOMAIN queue /\ left[j].passed
                      /\ left[j].of = queue[j].of /\ left[j].cursor = queue[j].cursor
          /\ j >= i => j + 1 \in DOMAIN queue \ {i} /\ left[j] = queue[j + 1]
    BY LeftOfIs
  <2> QED
    BY <2>1 DEF Asks
<1>5. ASSUME \E j \in DOMAIN queue : queue[j].passed /\ Asks(queue[j], wants)
      PROVE  \E j \in DOMAIN left : left[j].passed /\ Asks(left[j], wants)
  <2>1. PICK j \in DOMAIN queue : queue[j].passed /\ Asks(queue[j], wants)
    BY <1>5
  <2>2. CASE j < i
    BY <1>1, <1>3, <1>4, <2>1, <2>2
  <2>3. CASE j > i
    <3>1. PICK m \in DOMAIN left : m = j - 1 /\ m >= i /\ m + 1 = j
      BY <1>1, <1>3, <2>3
    <3>2. left[m] = queue[j]
      BY <1>4, <3>1
    <3> QED
      BY <2>1, <3>1, <3>2
  <2> QED
    BY <1>1, <2>1, <2>2, <2>3
<1>6. ASSUME Asks(Last(queue), wants)
      PROVE  \/ \E j \in DOMAIN left : left[j].passed /\ Asks(left[j], wants)
             \/ left # <<>> /\ Last(left) = Last(queue)
             \/ i = Len(queue) /\ \A j \in DOMAIN left : ~Asks(left[j], wants)
  <2>1. CASE i = Len(queue)
    <3>1. CASE \E j \in DOMAIN left : Asks(left[j], wants)
      <4>1. \A j \in DOMAIN left : left[j].passed
        BY <1>1, <1>3, <1>4, <2>1
      <4> QED
        BY <3>1, <4>1
    <3> QED
      BY <1>6, <2>1, <3>1
  <2>2. CASE i # Len(queue)
    <3>1. PICK m \in DOMAIN left : m = Len(queue) - 1 /\ m >= i /\ m + 1 = Len(queue)
      BY <1>1, <1>3, <2>2
    <3>2. left[m] = queue[Len(queue)]
      BY <1>4, <3>1
    <3>3. left # <<>> /\ Last(left) = Last(queue)
      BY <1>2, <3>1, <3>2 DEF Last
    <3> QED
      BY <1>6, <3>3
  <2> QED
    BY <2>1, <2>2
<1>7. ASSUME \A j \in DOMAIN queue : ~Asks(queue[j], wants), NEW j \in DOMAIN left
      PROVE  ~Asks(left[j], wants)
  <2>1. CASE j < i
    BY <1>1, <1>3, <1>4, <1>7, <2>1
  <2>2. CASE j >= i
    <3>1. j + 1 \in DOMAIN queue
      BY <1>1, <1>3
    <3> QED
      BY <1>4, <1>7, <2>2, <3>1
  <2> QED
    BY <1>1, <1>3, <2>1, <2>2
<1> QED
  BY <1>5, <1>6, <1>7 DEF OnePassed, NoneAsks

LEMMA WithoutLeaves ==
  ASSUME NEW d, IsLoads(loads, d), NEW kind \in Kinds, NEW i \in DOMAIN loads[kind]
  PROVE  /\ Without(kind, i)[kind] = LeftOf(loads[kind], i)
         /\ \A other \in Kinds \ {kind} : Without(kind, i)[other] = loads[other]
<1>1. PICK queue : queue = loads[kind]
  OBVIOUS
<1>2. PICK left : left = LeftOf(queue, i)
  OBVIOUS
<1>3. loads = [k \in Kinds |-> loads[k]]
  BY Zenon DEF IsLoads
<1>4. Without(kind, i) = [loads EXCEPT ![kind] = left]
  BY <1>1, <1>2, <1>3, Zenon DEF Without, LeftOf
<1> QED
  BY <1>1, <1>2, <1>3, <1>4

(* What every view asks for. *)
LEMMA ByEachViewIs ==
  ASSUME NEW load
  PROVE  /\ ByEachView(<<load>>) \in Seq({load}) /\ ByEachView(<<load>>) # <<>>
         /\ Last(ByEachView(<<load>>)) = load
         /\ ByEachView(<<>>) = <<>>
<1>1. PICK n \in Nat \ {0} : n = Views /\ n = Views * Len(<<load>>)
  BY BrowserAssumption
<1>2. PICK all : all = [m \in 1..n |-> load]
  OBVIOUS
<1>3. ByEachView(<<load>>) = all
  BY <1>1, <1>2 DEF ByEachView
<1>4. all \in Seq({load}) /\ Len(all) = n
  BY <1>2
<1>5. all # <<>> /\ Last(all) = load
  BY <1>1, <1>2, <1>4 DEF Last
<1>6. ByEachView(<<>>) = <<>>
  <2>1. Len(<<>>) = 0
    OBVIOUS
  <2>2. PICK zero \in Nat : zero = 0 /\ zero = Views * Len(<<>>)
    BY <2>1, BrowserAssumption
  <2>3. PICK none : none = [m \in 1..zero |-> <<>>[1]]
    OBVIOUS
  <2>4. none = <<>>
    BY <2>2, <2>3
  <2> QED
    BY <2>2, <2>3, <2>4 DEF ByEachView
<1> QED
  BY <1>3, <1>4, <1>5, <1>6

LEMMA LastOfConcat ==
  ASSUME NEW S, NEW list \in Seq(S), NEW T, NEW more \in Seq(T), more # <<>>
  PROVE  list \o more # <<>> /\ Last(list \o more) = Last(more)
<1>1. Len(list) \in Nat /\ Len(more) \in Nat \ {0}
  BY LenProperties, EmptySeq
<1>2. list \in Seq(S \cup T) /\ more \in Seq(S \cup T)
  BY SeqMonotonic
<1>3. /\ Len(list \o more) = Len(list) + Len(more)
      /\ (list \o more)[Len(list) + Len(more)] = more[Len(more)]
  BY <1>1, <1>2, ConcatProperties
<1> QED
  BY <1>1, <1>3 DEF Last

(* A render. *)

StoreFits(s) ==
  /\ IsStore(s)
  /\ s.items \in Seq(ItemRow) /\ s.path \in Seq(Folders \cup {Root})
  /\ s.treeCursor \in Nat /\ s.descriptionCursor \in Nat
  /\ s.entry \in Entries \cup {None}

QueuesFit(queues) == \A kind \in Kinds : queues[kind] \in Seq(LoadOf(kind))

CursorFits(s) == s.treeCursor < Len(s.items) \/ s.items = <<>>

RenderedAs(s, fresh, rest) ==
  /\ IsStore(store')
  /\ store'.items = s.items /\ store'.path = s.path /\ store'.entry = s.entry
  /\ store'.descriptionCursor = s.descriptionCursor
  /\ store'.treeCursor = ClampedCursor(s, fresh)
  /\ store'.descriptions = IF DescriptionsRun(s, fresh) THEN <<>> ELSE s.descriptions
  /\ store'.preview = IF PreviewRuns(s, fresh) /\ (s.entry # None \/ TreeItem(s) = NoRow)
                      THEN EmptyPreview ELSE s.preview
  /\ loads' = [kind \in Kinds |-> rest[kind] \o ByEachView(LoadsAsked(s, fresh)[kind])]

LEMMA RerenderIs ==
  ASSUME NEW s, NEW fresh, NEW rest, IsStore(s), Rerender(s, fresh, rest)
  PROVE  RenderedAs(s, fresh, rest)
<1>1. PICK first : first = ConfirmRendered(s)
  OBVIOUS
<1>2. PICK after : after = AfterEffects(first, fresh)
  OBVIOUS
<1>3. PICK last : last = ConfirmRendered(after)
  OBVIOUS
<1>4. /\ store' = last
      /\ loads' = [kind \in Kinds |-> rest[kind] \o ByEachView(LoadsAsked(s, fresh)[kind])]
  BY <1>1, <1>2, <1>3, Zenon DEF Rerender
<1>5. IsStore(first) /\ SameLists(first, s) /\ SamePlace(first, s) /\ first.preview = s.preview
  BY <1>1, ConfirmRenderedIs, Zenon
<1>6. /\ IsStore(after)
      /\ after.items = first.items /\ after.entry = first.entry
      /\ after.path = first.path /\ after.descriptionCursor = first.descriptionCursor
      /\ after.treeCursor = ClampedCursor(first, fresh)
      /\ after.descriptions = IF DescriptionsRun(first, fresh) THEN <<>> ELSE first.descriptions
      /\ after.preview =
           IF PreviewRuns(first, fresh) /\ (first.entry # None \/ TreeItem(first) = NoRow)
           THEN EmptyPreview ELSE first.preview
  BY <1>2, <1>5, AfterEffectsIs, Zenon
<1>7. IsStore(last) /\ SameLists(last, after) /\ SamePlace(last, after)
      /\ last.preview = after.preview
  BY <1>3, <1>6, ConfirmRenderedIs, Zenon
<1>8. /\ first.items = s.items /\ first.descriptions = s.descriptions /\ first.entry = s.entry
      /\ first.path = s.path /\ first.treeCursor = s.treeCursor
      /\ first.descriptionCursor = s.descriptionCursor
  BY <1>5 DEF SameLists, SamePlace
<1>9. /\ ClampedCursor(first, fresh) = ClampedCursor(s, fresh)
      /\ DescriptionsRun(first, fresh) <=> DescriptionsRun(s, fresh)
      /\ PreviewRuns(first, fresh) <=> PreviewRuns(s, fresh)
      /\ TreeItem(first) = TreeItem(s)
  <2>1. ClampedCursor(first, fresh) = ClampedCursor(s, fresh) /\ TreeItem(first) = TreeItem(s)
    BY <1>8 DEF ClampedCursor, TreeItem
  <2>2. /\ DescriptionsRun(first, fresh) <=> DescriptionsRun(s, fresh)
        /\ PreviewRuns(first, fresh) <=> PreviewRuns(s, fresh)
    BY <1>8, Zenon DEF DescriptionsRun, PreviewRuns
  <2> QED
    BY <2>1, <2>2
<1>10. /\ last.items = s.items /\ last.path = s.path /\ last.entry = s.entry
       /\ last.descriptionCursor = s.descriptionCursor
       /\ last.treeCursor = ClampedCursor(s, fresh)
       /\ last.descriptions = IF DescriptionsRun(s, fresh) THEN <<>> ELSE s.descriptions
  BY <1>6, <1>7, <1>8, <1>9 DEF SameLists, SamePlace
<1>11. last.preview = IF PreviewRuns(s, fresh) /\ (s.entry # None \/ TreeItem(s) = NoRow)
                      THEN EmptyPreview ELSE s.preview
  BY <1>5, <1>6, <1>7, <1>8, <1>9
<1> QED
  BY <1>4, <1>7, <1>10, <1>11, Zenon DEF RenderedAs

(* The item at a cursor. *)
LEMMA AtIs ==
  ASSUME NEW rows \in Seq(ItemRow), NEW cursor \in Nat
  PROVE  /\ cursor < Len(rows) => /\ At(rows, cursor) = rows[cursor + 1]
                                  /\ At(rows, cursor) \in ItemRow
                                  /\ At(rows, cursor).id \in Items
                                  /\ At(rows, cursor) # NoRow
         /\ ~(cursor < Len(rows)) => At(rows, cursor) = NoRow
         /\ At(rows, cursor).id = None <=> At(rows, cursor) = NoRow
<1>1. CASE cursor < Len(rows)
  <2>1. PICK row \in ItemRow : row = rows[cursor + 1]
    BY <1>1, ElementOfSeq, LenProperties
  <2>2. row.id \in Items
    BY DEF ItemRow
  <2>3. row.id # None /\ NoRow.id = None
    BY <2>2, BrowserAssumption DEF NoRow
  <2> QED
    BY <1>1, <2>1, <2>2, <2>3 DEF At
<1>2. CASE ~(cursor < Len(rows))
  BY <1>2 DEF At, NoRow
<1> QED
  BY <1>1, <1>2

(* The cursor is clamped whenever a list is answered. *)
LEMMA ClampedFits ==
  ASSUME NEW s, StoreFits(s), NEW fresh,
         CursorFits(s) \/ fresh \cap {"mount", "items"} # {}
  PROVE  /\ ClampedCursor(s, fresh) \in Nat
         /\ ClampedCursor(s, fresh) < Len(s.items) \/ s.items = <<>>
<1>1. Len(s.items) \in Nat /\ s.treeCursor \in Nat /\ (s.items # <<>> => Len(s.items) # 0)
  BY LenProperties, EmptySeq DEF StoreFits
<1> QED
  BY <1>1 DEF ClampedCursor, CursorFits

(* What is clamped needs the preview anew. *)
LEMMA ClampedRuns ==
  ASSUME NEW s, NEW fresh, ~PreviewRuns(s, fresh)
  PROVE  /\ ClampedCursor(s, fresh) = s.treeCursor
         /\ s.entry = store.entry /\ s.treeCursor = store.treeCursor
<1>1. fresh \cap {"mount", "items", "description"} = {}
  BY DEF PreviewRuns
<1>2. fresh \cap {"mount", "items"} = {}
  BY <1>1
<1> QED
  BY <1>2 DEF PreviewRuns, ClampedCursor

(* The loads an effect asks for. *)
LEMMA LoadsAskedAre ==
  ASSUME NEW s, StoreFits(s), NEW fresh,
         CursorFits(s) \/ fresh \cap {"mount", "items"} # {}
  PROVE  LET asked == LoadsAsked(s, fresh)
             item == At(s.items, ClampedCursor(s, fresh))
         IN /\ asked["root"] = IF RootRuns(s, fresh) THEN <<NewLoad(Root, 0)>> ELSE <<>>
            /\ asked["items"] =
                 IF ItemsRun(s, fresh) THEN <<NewLoad(CurrentFolder(s), 0)>> ELSE <<>>
            /\ asked["descriptions"] =
                 IF DescriptionsRun(s, fresh) /\ s.entry # None
                 THEN <<NewLoad(s.entry, 0)>> ELSE <<>>
            /\ asked["preview"] =
                 IF PreviewRuns(s, fresh) /\ s.entry = None /\ item # NoRow
                 THEN <<NewLoad(item.id, ClampedCursor(s, fresh))>> ELSE <<>>
<1>1. PICK asked : asked = LoadsAsked(s, fresh)
  OBVIOUS
<1>2. /\ asked["root"] = IF RootRuns(s, fresh) THEN <<NewLoad(Root, 0)>> ELSE <<>>
      /\ asked["items"] =
           IF ItemsRun(s, fresh) THEN <<NewLoad(CurrentFolder(s), 0)>> ELSE <<>>
      /\ asked["descriptions"] =
           IF DescriptionsRun(s, fresh) /\ s.entry # None THEN <<NewLoad(s.entry, 0)>> ELSE <<>>
      /\ asked["preview"] = PreviewLoads(s, fresh)
  BY <1>1 DEF LoadsAsked
<1>3. PICK cursor : cursor = ClampedCursor(s, fresh)
  OBVIOUS
<1>4. PICK clamped : clamped = [s EXCEPT !.treeCursor = ClampedCursor(s, fresh)]
  OBVIOUS
<1>5. clamped.items = s.items /\ clamped.treeCursor = cursor
      /\ (cursor = s.treeCursor => clamped = s)
  BY <1>3, <1>4 DEF StoreFits, IsStore
<1>6. TreeItem(clamped) = At(s.items, cursor)
  BY <1>5 DEF TreeItem
<1>7. PreviewLoads(s, fresh) =
        IF /\ PreviewRuns(s, fresh) \/ clamped # s
           /\ s.entry = None
           /\ TreeItem(clamped) # NoRow
        THEN <<NewLoad(TreeItem(clamped).id, clamped.treeCursor)>>
        ELSE <<>>
  BY <1>4 DEF PreviewLoads
<1>8. PreviewRuns(s, fresh) \/ clamped = s
  BY <1>3, <1>5, ClampedRuns
<1>9. PreviewLoads(s, fresh) =
        IF PreviewRuns(s, fresh) /\ s.entry = None /\ At(s.items, cursor) # NoRow
        THEN <<NewLoad(At(s.items, cursor).id, cursor)>> ELSE <<>>
  BY <1>5, <1>6, <1>7, <1>8
<1> QED
  BY <1>1, <1>2, <1>3, <1>9

(* After a render, the store and the loads are of their types.             *)
LEMMA RerenderFits ==
  ASSUME NEW s, StoreFits(s), NEW fresh, NEW rest, QueuesFit(rest),
         CursorFits(s) \/ fresh \cap {"mount", "items"} # {},
         Rerender(s, fresh, rest)
  PROVE  StoreFits(store') /\ CursorFits(store') /\ QueuesFit(loads')
<1>1. /\ IsStore(store')
      /\ store'.items = s.items /\ store'.path = s.path /\ store'.entry = s.entry
      /\ store'.descriptionCursor = s.descriptionCursor
      /\ store'.treeCursor = ClampedCursor(s, fresh)
      /\ loads' = [kind \in Kinds |-> rest[kind] \o ByEachView(LoadsAsked(s, fresh)[kind])]
  <2>1. IsStore(s)
    BY Zenon DEF StoreFits
  <2>2. RenderedAs(s, fresh, rest)
    BY <2>1, RerenderIs
  <2> QED
    BY <2>2, Zenon DEF RenderedAs
<1>2. ClampedCursor(s, fresh) \in Nat /\ (ClampedCursor(s, fresh) < Len(s.items) \/ s.items = <<>>)
  BY ClampedFits
<1>3. StoreFits(store')
  BY <1>1, <1>2 DEF StoreFits
<1>4. CursorFits(store')
  BY <1>1, <1>2 DEF CursorFits
<1>5. PICK asked : asked = LoadsAsked(s, fresh)
  OBVIOUS
<1>6. PICK item : item = At(s.items, ClampedCursor(s, fresh))
  OBVIOUS
<1>7. /\ asked["root"] = IF RootRuns(s, fresh) THEN <<NewLoad(Root, 0)>> ELSE <<>>
      /\ asked["items"] =
           IF ItemsRun(s, fresh) THEN <<NewLoad(CurrentFolder(s), 0)>> ELSE <<>>
      /\ asked["descriptions"] =
           IF DescriptionsRun(s, fresh) /\ s.entry # None
           THEN <<NewLoad(s.entry, 0)>> ELSE <<>>
      /\ asked["preview"] =
           IF PreviewRuns(s, fresh) /\ s.entry = None /\ item # NoRow
           THEN <<NewLoad(item.id, ClampedCursor(s, fresh))>> ELSE <<>>
  BY <1>5, <1>6, LoadsAskedAre, Zenon
<1>8. ASSUME NEW kind \in Kinds, NEW of \in Items \cup {Root}, NEW cursor \in Nat,
             kind = "preview" => of \in Items
      PROVE  NewLoad(of, cursor) \in LoadOf(kind)
  <2>1. <<>> \in Seq(ItemRow) /\ <<>> \in Seq(AnyRow)
    BY EmptySeq
  <2> QED
    BY <1>8, <2>1 DEF NewLoad, LoadOf, LoadRecord
<1>9. ASSUME NEW kind \in Kinds
      PROVE  asked[kind] = <<>> \/ \E load \in LoadOf(kind) : asked[kind] = <<load>>
  <2>1. CASE kind = "root"
    BY <1>7, <1>8, <2>1
  <2>2. CASE kind = "items"
    <3>1. ItemsRun(s, fresh) => CurrentFolder(s) \in Items \cup {Root}
      <4> SUFFICES ASSUME ItemsRun(s, fresh)
                   PROVE  CurrentFolder(s) \in Items \cup {Root}
        OBVIOUS
      <4>1. s.path # <<>> /\ s.path \in Seq(Folders \cup {Root})
        BY Zenon DEF ItemsRun, StoreFits
      <4>2. Last(s.path) \in Folders \cup {Root}
        BY <4>1, ElementOfSeq, LenProperties, EmptySeq DEF Last
      <4> QED
        BY <4>2 DEF CurrentFolder, Items
    <3> QED
      BY <1>7, <1>8, <2>2, <3>1
  <2>3. CASE kind = "descriptions"
    <3>1. s.entry # None => s.entry \in Items
      BY DEF StoreFits, Items
    <3> QED
      BY <1>7, <1>8, <2>3, <3>1
  <2>4. CASE kind = "preview"
    <3>1. item # NoRow => item.id \in Items
      BY <1>2, <1>6, AtIs DEF StoreFits
    <3> QED
      BY <1>2, <1>7, <1>8, <2>4, <3>1
  <2> QED
    BY <2>1, <2>2, <2>3, <2>4 DEF Kinds
<1>10. ASSUME NEW kind \in Kinds
       PROVE  loads'[kind] \in Seq(LoadOf(kind))
  <2>1. PICK more : more = ByEachView(asked[kind])
    OBVIOUS
  <2>2. more \in Seq(LoadOf(kind))
    <3>1. CASE asked[kind] = <<>>
      BY <2>1, <3>1, ByEachViewIs, EmptySeq
    <3>2. CASE \E load \in LoadOf(kind) : asked[kind] = <<load>>
      <4>1. PICK load \in LoadOf(kind) : asked[kind] = <<load>>
        BY <3>2
      <4>2. more \in Seq({load})
        BY <2>1, <4>1, ByEachViewIs
      <4> QED
        BY <4>2, SeqMonotonic
    <3> QED
      BY <1>9, <3>1, <3>2
  <2>3. loads'[kind] = rest[kind] \o more
    BY <1>1, <1>5, <2>1
  <2> QED
    BY <2>2, <2>3, ConcatProperties DEF QueuesFit
<1> QED
  BY <1>3, <1>4, <1>10 DEF QueuesFit

(* What is shown, or will be once the loads in flight are answered in the  *)
(* order they were asked: the last one tells it.                           *)

Tells(load, rows) == load.read => load.rows = rows

EveryLoad == (Items \cup {Root}) \X Nat
OfEntry(entry) == {entry} \X Nat
OfCursor(items) == {ask \in (Items \cup {Root}) \X Nat : At(items, ask[2]).id = ask[1]}

ItemsSettled(s, queue, d) ==
  s.path # <<>> =>
    \/ OnePassed(queue, EveryLoad)
    \/ /\ queue # <<>> /\ Last(queue).of = CurrentFolder(s)
       /\ Tells(Last(queue), ItemsIn(d, CurrentFolder(s)))
    \/ queue = <<>> /\ s.items = ItemsIn(d, CurrentFolder(s))

DescriptionsSettled(s, queue, d) ==
  s.entry # None =>
    \/ OnePassed(queue, OfEntry(s.entry))
    \/ /\ queue # <<>> /\ Last(queue).of = s.entry
       /\ Last(queue).read => AreOf(Last(queue).rows, d, s.entry)
    \/ NoneAsks(queue, OfEntry(s.entry)) /\ AreOf(s.descriptions, d, s.entry)

PreviewRead(d, id) == IF id \in Folders THEN ItemsIn(d, id) ELSE DescriptionsOf(d, id)
PreviewOf(s, d) == [id |-> TreeItem(s).id, rows |-> PreviewRead(d, TreeItem(s).id)]

PreviewSettled(s, queue, d) ==
  s.entry = None =>
    /\ TreeItem(s) = NoRow => s.preview = EmptyPreview
    /\ TreeItem(s) # NoRow =>
         \/ OnePassed(queue, OfCursor(s.items))
         \/ /\ queue # <<>>
            /\ Last(queue).of = TreeItem(s).id /\ Last(queue).cursor = s.treeCursor
            /\ Tells(Last(queue), PreviewRead(d, TreeItem(s).id))
         \/ NoneAsks(queue, OfCursor(s.items)) /\ s.preview = PreviewOf(s, d)

(* What has been performed is not continued yet. *)
Done(ops) == \E i \in DOMAIN calls : calls[i].state = "done" /\ calls[i].op \in ops

TreeRests == Done(TreeOps) \/ ItemsSettled(store, loads["items"], db)
EntryRests == Done(DescriptionOps) \/ DescriptionsSettled(store, loads["descriptions"], db)
PreviewRests ==
  \/ Done(WriteOps) \/ loads["items"] # <<>> \/ loads["root"] # <<>>
  \/ PreviewSettled(store, loads["preview"], db)

RestInv ==
  mounted =>
    /\ CursorFits(store)
    /\ mishaps = {} =>
         /\ store.path = <<>> => loads["root"] # <<>>
         /\ TreeRests /\ EntryRests /\ PreviewRests

(* What a render leaves to be settled. *)
Rests(s, fresh, rest) ==
  mishaps' = {} =>
    /\ s.path = <<>> => RootRuns(s, fresh) \/ rest["root"] # <<>>
    /\ Done(TreeOps)' \/ ItemsRun(s, fresh) \/ ItemsSettled(s, rest["items"], db')
    /\ Done(DescriptionOps)' \/ DescriptionsRun(s, fresh)
         \/ DescriptionsSettled(s, rest["descriptions"], db')
    /\ Done(WriteOps)' \/ ItemsRun(s, fresh) \/ RootRuns(s, fresh) \/ rest["items"] # <<>>
         \/ rest["root"] # <<>> \/ PreviewRuns(s, fresh)
         \/ PreviewSettled(s, rest["preview"], db')

(* The queues after a render. *)
QueuesAfter(s, fresh, rest) ==
  LET item == At(s.items, ClampedCursor(s, fresh)) IN
  /\ rest["root"] # <<>> \/ RootRuns(s, fresh) => loads'["root"] # <<>>
  /\ rest["items"] # <<>> => loads'["items"] # <<>>
  /\ IF ItemsRun(s, fresh)
     THEN loads'["items"] # <<>> /\ Last(loads'["items"]) = NewLoad(CurrentFolder(s), 0)
     ELSE loads'["items"] = rest["items"]
  /\ IF DescriptionsRun(s, fresh) /\ s.entry # None
     THEN loads'["descriptions"] # <<>> /\ Last(loads'["descriptions"]) = NewLoad(s.entry, 0)
     ELSE loads'["descriptions"] = rest["descriptions"]
  /\ IF PreviewRuns(s, fresh) /\ s.entry = None /\ item # NoRow
     THEN /\ loads'["preview"] # <<>>
          /\ Last(loads'["preview"]) = NewLoad(item.id, ClampedCursor(s, fresh))
     ELSE loads'["preview"] = rest["preview"]

LEMMA QueuesAfterRender ==
  ASSUME NEW s, StoreFits(s), NEW fresh, NEW rest, QueuesFit(rest),
         CursorFits(s) \/ fresh \cap {"mount", "items"} # {},
         loads' = [kind \in Kinds |-> rest[kind] \o ByEachView(LoadsAsked(s, fresh)[kind])]
  PROVE  QueuesAfter(s, fresh, rest)
<1>1. PICK asked : asked = LoadsAsked(s, fresh)
  OBVIOUS
<1>2. PICK item : item = At(s.items, ClampedCursor(s, fresh))
  OBVIOUS
<1>3. /\ asked["root"] = IF RootRuns(s, fresh) THEN <<NewLoad(Root, 0)>> ELSE <<>>
      /\ asked["items"] =
           IF ItemsRun(s, fresh) THEN <<NewLoad(CurrentFolder(s), 0)>> ELSE <<>>
      /\ asked["descriptions"] =
           IF DescriptionsRun(s, fresh) /\ s.entry # None
           THEN <<NewLoad(s.entry, 0)>> ELSE <<>>
      /\ asked["preview"] =
           IF PreviewRuns(s, fresh) /\ s.entry = None /\ item # NoRow
           THEN <<NewLoad(item.id, ClampedCursor(s, fresh))>> ELSE <<>>
  BY <1>1, <1>2, LoadsAskedAre, Zenon
<1>4. ASSUME NEW kind \in Kinds
      PROVE  /\ asked[kind] = <<>> => loads'[kind] = rest[kind]
             /\ \A load : asked[kind] = <<load>> =>
                  loads'[kind] # <<>> /\ Last(loads'[kind]) = load
  <2>1. rest[kind] \in Seq(LoadOf(kind))
    BY DEF QueuesFit
  <2>2. PICK more : more = ByEachView(asked[kind])
    OBVIOUS
  <2>3. loads'[kind] = rest[kind] \o more
    BY <1>1, <2>2
  <2>4. CASE asked[kind] = <<>>
    <3>1. more = <<>>
      BY <2>2, <2>4, ByEachViewIs
    <3>2. loads'[kind] = rest[kind]
      BY <2>1, <2>3, <3>1, ConcatEmptySeq
    <3>3. \A load : <<>> # <<load>>
      OBVIOUS
    <3> QED
      BY <2>4, <3>2, <3>3
  <2>5. ASSUME NEW load, asked[kind] = <<load>>
        PROVE  loads'[kind] # <<>> /\ Last(loads'[kind]) = load
    <3>1. more \in Seq({load}) /\ more # <<>> /\ Last(more) = load
      BY <2>2, <2>5, ByEachViewIs
    <3>2. PICK S : S = LoadOf(kind)
      OBVIOUS
    <3>3. PICK list \in Seq(S) : list = rest[kind]
      BY <2>1, <3>2
    <3>4. list \o more # <<>> /\ Last(list \o more) = Last(more)
      BY <3>1, LastOfConcat
    <3> QED
      BY <2>3, <3>1, <3>3, <3>4
  <2> QED
    BY <2>4, <2>5
<1>5. {"root", "items", "descriptions", "preview"} = Kinds
  BY DEF Kinds
<1>6. rest["root"] # <<>> \/ RootRuns(s, fresh) => loads'["root"] # <<>>
  BY <1>3, <1>4, <1>5
<1>7. IF ItemsRun(s, fresh)
      THEN loads'["items"] # <<>> /\ Last(loads'["items"]) = NewLoad(CurrentFolder(s), 0)
      ELSE loads'["items"] = rest["items"]
  BY <1>3, <1>4, <1>5
<1>8. IF DescriptionsRun(s, fresh) /\ s.entry # None
      THEN loads'["descriptions"] # <<>> /\ Last(loads'["descriptions"]) = NewLoad(s.entry, 0)
      ELSE loads'["descriptions"] = rest["descriptions"]
  BY <1>3, <1>4, <1>5
<1>9. IF PreviewRuns(s, fresh) /\ s.entry = None /\ item # NoRow
      THEN /\ loads'["preview"] # <<>>
           /\ Last(loads'["preview"]) = NewLoad(item.id, ClampedCursor(s, fresh))
      ELSE loads'["preview"] = rest["preview"]
  BY <1>3, <1>4, <1>5
<1> QED
  BY <1>2, <1>6, <1>7, <1>8, <1>9, Zenon DEF QueuesAfter

LEMMA RenderRests ==
  ASSUME NEW s, StoreFits(s), NEW fresh, NEW rest, QueuesFit(rest),
         CursorFits(s) \/ fresh \cap {"mount", "items"} # {},
         Rerender(s, fresh, rest), Rests(s, fresh, rest)
  PROVE  RestInv'
<1>1. StoreFits(store') /\ CursorFits(store') /\ QueuesFit(loads')
  BY RerenderFits
<1>2. RenderedAs(s, fresh, rest)
  <2>1. IsStore(s)
    BY Zenon DEF StoreFits
  <2> QED
    BY <2>1, RerenderIs
<1>3. QueuesAfter(s, fresh, rest)
  <2>1. loads' = [kind \in Kinds |-> rest[kind] \o ByEachView(LoadsAsked(s, fresh)[kind])]
    BY <1>2, Zenon DEF RenderedAs
  <2> QED
    BY <2>1, QueuesAfterRender
<1>4. /\ store'.items = s.items /\ store'.path = s.path /\ store'.entry = s.entry
      /\ store'.treeCursor = ClampedCursor(s, fresh)
      /\ store'.descriptions = IF DescriptionsRun(s, fresh) THEN <<>> ELSE s.descriptions
      /\ store'.preview = IF PreviewRuns(s, fresh) /\ (s.entry # None \/ TreeItem(s) = NoRow)
                          THEN EmptyPreview ELSE s.preview
  BY <1>2, Zenon DEF RenderedAs
<1>5. CurrentFolder(store') = CurrentFolder(s)
  BY <1>4 DEF CurrentFolder
<1>6. ASSUME NEW d, ItemsRun(s, fresh) \/ ItemsSettled(s, rest["items"], d)
      PROVE  ItemsSettled(store', loads'["items"], d)
  <2>1. CASE ItemsRun(s, fresh)
    <3>1. loads'["items"] # <<>> /\ Last(loads'["items"]) = NewLoad(CurrentFolder(s), 0)
      BY <1>3, <2>1, Zenon DEF QueuesAfter
    <3> QED
      BY <1>5, <3>1 DEF ItemsSettled, Tells, NewLoad
  <2>2. CASE ~ItemsRun(s, fresh) /\ ItemsSettled(s, rest["items"], d)
    <3>1. loads'["items"] = rest["items"]
      BY <1>3, <2>2, Zenon DEF QueuesAfter
    <3> QED
      BY <1>4, <1>5, <2>2, <3>1 DEF ItemsSettled
  <2> QED
    BY <1>6, <2>1, <2>2
<1>7. ASSUME NEW d, DescriptionsRun(s, fresh) \/ DescriptionsSettled(s, rest["descriptions"], d)
      PROVE  DescriptionsSettled(store', loads'["descriptions"], d)
  <2>1. CASE DescriptionsRun(s, fresh) /\ s.entry # None
    <3>1. /\ loads'["descriptions"] # <<>>
          /\ Last(loads'["descriptions"]) = NewLoad(s.entry, 0)
      BY <1>3, <2>1, Zenon DEF QueuesAfter
    <3> QED
      BY <1>4, <3>1 DEF DescriptionsSettled, NewLoad
  <2>2. CASE s.entry = None
    BY <1>4, <2>2 DEF DescriptionsSettled
  <2>3. CASE ~DescriptionsRun(s, fresh) /\ DescriptionsSettled(s, rest["descriptions"], d)
    <3>1. loads'["descriptions"] = rest["descriptions"]
      BY <1>3, <2>3, Zenon DEF QueuesAfter
    <3> QED
      BY <1>4, <2>3, <3>1 DEF DescriptionsSettled
  <2> QED
    BY <1>7, <2>1, <2>2, <2>3
<1>8. ASSUME NEW d, PreviewRuns(s, fresh) \/ PreviewSettled(s, rest["preview"], d)
      PROVE  PreviewSettled(store', loads'["preview"], d)
  <2>1. PICK item : item = At(s.items, ClampedCursor(s, fresh)) /\ item = TreeItem(store')
    BY <1>4 DEF TreeItem
  <2>2. CASE PreviewRuns(s, fresh) /\ s.entry = None /\ item # NoRow
    <3>1. /\ loads'["preview"] # <<>>
          /\ Last(loads'["preview"]) = NewLoad(item.id, ClampedCursor(s, fresh))
      BY <1>3, <2>1, <2>2, Zenon DEF QueuesAfter
    <3> QED
      BY <1>4, <2>1, <2>2, <3>1 DEF PreviewSettled, Tells, NewLoad
  <2>3. CASE PreviewRuns(s, fresh) /\ s.entry = None /\ item = NoRow
    <3>1. /\ s.items \in Seq(ItemRow) /\ s.treeCursor \in Nat
          /\ ClampedCursor(s, fresh) \in Nat
          /\ ClampedCursor(s, fresh) < Len(s.items) \/ s.items = <<>>
      BY ClampedFits DEF StoreFits
    <3>2. s.items = <<>>
      BY <2>1, <2>3, <3>1, AtIs
    <3>3. TreeItem(s) = NoRow
      BY <3>1, <3>2 DEF TreeItem, At
    <3> QED
      BY <1>4, <2>1, <2>3, <3>3 DEF PreviewSettled
  <2>4. CASE s.entry # None
    BY <1>4, <2>4 DEF PreviewSettled
  <2>5. CASE ~PreviewRuns(s, fresh) /\ PreviewSettled(s, rest["preview"], d)
    <3>1. loads'["preview"] = rest["preview"]
      BY <1>3, <2>5, Zenon DEF QueuesAfter
    <3>2. store'.treeCursor = s.treeCursor /\ store'.preview = s.preview
      BY <1>4, <2>5, ClampedRuns
    <3>3. TreeItem(store') = TreeItem(s)
      BY <1>4, <3>2 DEF TreeItem
    <3> QED
      BY <1>4, <2>5, <3>1, <3>2, <3>3 DEF PreviewSettled, PreviewOf
  <2> QED
    BY <1>8, <2>2, <2>3, <2>4, <2>5
<1>9. ASSUME mishaps' = {}
      PROVE  /\ store'.path = <<>> => loads'["root"] # <<>>
             /\ Done(TreeOps)' \/ ItemsSettled(store', loads'["items"], db')
             /\ Done(DescriptionOps)'
                  \/ DescriptionsSettled(store', loads'["descriptions"], db')
             /\ \/ Done(WriteOps)' \/ loads'["items"] # <<>> \/ loads'["root"] # <<>>
                \/ PreviewSettled(store', loads'["preview"], db')
  <2>1. store'.path = <<>> => loads'["root"] # <<>>
    BY <1>3, <1>4, <1>9, Zenon DEF Rests, QueuesAfter
  <2>2. Done(TreeOps)' \/ ItemsSettled(store', loads'["items"], db')
    BY <1>6, <1>9, Zenon DEF Rests
  <2>3. Done(DescriptionOps)' \/ DescriptionsSettled(store', loads'["descriptions"], db')
    BY <1>7, <1>9, Zenon DEF Rests
  <2>4. CASE \/ ItemsRun(s, fresh) \/ RootRuns(s, fresh)
             \/ rest["items"] # <<>> \/ rest["root"] # <<>>
    <3>1. loads'["items"] # <<>> \/ loads'["root"] # <<>>
      BY <1>3, <2>4, Zenon DEF QueuesAfter
    <3> QED
      BY <2>1, <2>2, <2>3, <3>1
  <2>5. CASE \/ Done(WriteOps)' \/ PreviewRuns(s, fresh)
             \/ PreviewSettled(s, rest["preview"], db')
    BY <1>8, <2>1, <2>2, <2>3, <2>5
  <2> QED
    BY <1>9, <2>4, <2>5, Zenon DEF Rests
<1> QED
  BY <1>1, <1>9 DEF RestInv, TreeRests, EntryRests, PreviewRests, CursorFits

(* What is shown stays settled. *)

TargetsFit(queue) == \A i \in DOMAIN queue : IsTarget(queue[i])

PageInv == StoreFits(store) /\ PlacesFit(db) /\ QueuesFit(loads) /\ TargetsFit(calls)

PageRests == PageInv /\ RestInv

LEMMA RenderKeepsRest ==
  ASSUME PageInv, NEW s, NEW fresh, NEW rest, Render(s, fresh, rest),
         StoreFits(s), QueuesFit(rest),
         mounted => /\ CursorFits(s) \/ fresh \cap {"mount", "items"} # {}
                    /\ Rests(s, fresh, rest),
         UNCHANGED db, UNCHANGED mounted, TargetsFit(calls')
  PROVE  PageRests'
<1>1. CASE mounted
  <2>1. Rerender(s, fresh, rest)
    BY <1>1, Zenon DEF Render
  <2>2. StoreFits(store') /\ QueuesFit(loads')
    BY <1>1, <2>1, RerenderFits
  <2>3. RestInv'
    BY <1>1, <2>1, RenderRests
  <2> QED
    BY <2>2, <2>3 DEF PageRests, PageInv, StoreFits, IsStore, QueuesFit, PlacesFit, TargetsFit
<1>2. CASE ~mounted
  <2>1. store' = s /\ loads' = rest
    BY <1>2, Zenon DEF Render
  <2>2. RestInv'
    BY <1>2 DEF RestInv
  <2> QED
    BY <2>1, <2>2 DEF PageRests, PageInv, StoreFits, IsStore, QueuesFit, PlacesFit, TargetsFit
<1> QED
  BY <1>1, <1>2

(* The lists are as they were, and another Folder loads its own. *)
KeepsLists(s, fresh) ==
  /\ s.items = store.items /\ s.descriptions = store.descriptions /\ s.preview = store.preview
  /\ \/ s.path = store.path
     \/ s.path # <<>> /\ "path" \in fresh

LEMMA ListsRest ==
  ASSUME RestInv, mounted, NEW s, NEW fresh, KeepsLists(s, fresh), UNCHANGED <<db, mishaps>>,
         Done(TreeOps) => Done(TreeOps)' \/ s.path = <<>> \/ ItemsRun(s, fresh),
         Done(DescriptionOps) => Done(DescriptionOps)' \/ DescriptionsRun(s, fresh)
  PROVE  Rests(s, fresh, loads)
<1> SUFFICES ASSUME mishaps' = {}
             PROVE  /\ s.path = <<>> => RootRuns(s, fresh) \/ loads["root"] # <<>>
                    /\ Done(TreeOps)' \/ ItemsRun(s, fresh)
                         \/ ItemsSettled(s, loads["items"], db')
                    /\ Done(DescriptionOps)' \/ DescriptionsRun(s, fresh)
                         \/ DescriptionsSettled(s, loads["descriptions"], db')
                    /\ Done(WriteOps)' \/ ItemsRun(s, fresh) \/ RootRuns(s, fresh)
                         \/ loads["items"] # <<>> \/ loads["root"] # <<>>
                         \/ PreviewRuns(s, fresh)
                         \/ PreviewSettled(s, loads["preview"], db')
  BY Zenon DEF Rests
<1>1. /\ store.path = <<>> => loads["root"] # <<>>
      /\ TreeRests /\ EntryRests /\ PreviewRests
  BY DEF RestInv
<1>2. db' = db
  OBVIOUS
<1>3. s.path = <<>> => loads["root"] # <<>>
  BY <1>1 DEF KeepsLists
<1>4. s.path = store.path \/ ItemsRun(s, fresh)
  BY DEF KeepsLists, ItemsRun
<1>5. Done(TreeOps)' \/ ItemsRun(s, fresh) \/ ItemsSettled(s, loads["items"], db)
  <2>1. CASE s.path = <<>>
    BY <2>1 DEF ItemsSettled
  <2>2. CASE s.path = store.path /\ ItemsSettled(store, loads["items"], db)
    BY <2>2 DEF ItemsSettled, KeepsLists, CurrentFolder
  <2> QED
    BY <1>1, <1>4, <2>1, <2>2 DEF TreeRests
<1>6. Done(DescriptionOps)' \/ DescriptionsRun(s, fresh)
        \/ DescriptionsSettled(s, loads["descriptions"], db)
  <2>1. CASE s.entry = store.entry /\ DescriptionsSettled(store, loads["descriptions"], db)
    BY <2>1 DEF DescriptionsSettled, KeepsLists
  <2>2. CASE s.entry # store.entry
    BY <2>2 DEF DescriptionsRun
  <2> QED
    BY <1>1, <2>1, <2>2 DEF EntryRests
<1>7. DescriptionsRun(s, fresh) => PreviewRuns(s, fresh)
  BY DEF DescriptionsRun, PreviewRuns
<1>8. /\ Done(WriteOps) => Done(TreeOps) \/ Done(DescriptionOps)
      /\ Done(TreeOps)' \/ Done(DescriptionOps)' => Done(WriteOps)'
  BY DEF Done, WriteOps, DescriptionOps
<1>9. \/ Done(WriteOps)' \/ ItemsRun(s, fresh) \/ loads["items"] # <<>> \/ loads["root"] # <<>>
      \/ PreviewRuns(s, fresh) \/ PreviewSettled(s, loads["preview"], db)
  <2>1. CASE /\ s.entry = store.entry /\ s.treeCursor = store.treeCursor
             /\ PreviewSettled(store, loads["preview"], db)
    <3>1. TreeItem(s) = TreeItem(store)
      BY <2>1 DEF TreeItem, KeepsLists
    <3> QED
      BY <2>1, <3>1 DEF PreviewSettled, PreviewOf, KeepsLists
  <2>2. CASE s.entry # store.entry \/ s.treeCursor # store.treeCursor
    BY <2>2 DEF PreviewRuns
  <2>3. CASE Done(WriteOps)
    BY <1>3, <1>7, <1>8, <2>3
  <2> QED
    BY <1>1, <2>1, <2>2, <2>3 DEF PreviewRests
<1> QED
  BY <1>2, <1>3, <1>5, <1>6, <1>9

LEMMA PressRests ==
  ASSUME PageRests, NEW s, NEW fresh, Pressed(s, fresh), StoreFits(s), CursorFits(s),
         KeepsLists(s, fresh)
  PROVE  PageRests'
<1>1. mounted /\ Render(s, fresh, loads) /\ UNCHANGED <<db, mishaps>> /\ UNCHANGED mounted
      /\ UNCHANGED calls
  BY Zenon DEF Pressed, CanPress
<1>2. Rests(s, fresh, loads)
  <2>1. RestInv
    BY DEF PageRests
  <2>2. Done(TreeOps)' = Done(TreeOps) /\ Done(DescriptionOps)' = Done(DescriptionOps)
    BY <1>1 DEF Done
  <2> QED
    BY <1>1, <2>1, <2>2, ListsRest
<1>3. QueuesFit(loads) /\ TargetsFit(calls') /\ UNCHANGED db /\ PageInv
  BY <1>1 DEF PageRests, PageInv, TargetsFit
<1> QED
  BY <1>1, <1>2, <1>3, RenderKeepsRest

(* A step that leaves the page and what has been performed as they were.   *)
LEMMA RestKept ==
  ASSUME PageRests, UNCHANGED <<db, store, loads, mishaps>>, mounted' => mounted,
         Done(TreeOps) => Done(TreeOps)', Done(DescriptionOps) => Done(DescriptionOps)',
         TargetsFit(calls')
  PROVE  PageRests'
<1>1. PageInv'
  BY DEF PageRests, PageInv, StoreFits, IsStore, QueuesFit, PlacesFit, TargetsFit
<1>2. Done(WriteOps) => Done(WriteOps)'
  BY DEF Done, WriteOps, DescriptionOps
<1>3. ASSUME mounted'
      PROVE  /\ CursorFits(store')
             /\ mishaps' = {} =>
                  /\ store'.path = <<>> => loads'["root"] # <<>>
                  /\ Done(TreeOps)' \/ ItemsSettled(store', loads'["items"], db')
                  /\ Done(DescriptionOps)'
                       \/ DescriptionsSettled(store', loads'["descriptions"], db')
                  /\ \/ Done(WriteOps)' \/ loads'["items"] # <<>> \/ loads'["root"] # <<>>
                     \/ PreviewSettled(store', loads'["preview"], db')
  BY <1>2, <1>3 DEF PageRests, RestInv, TreeRests, EntryRests, PreviewRests
<1>4. RestInv'
  BY <1>3 DEF RestInv, TreeRests, EntryRests, PreviewRests, CursorFits
<1> QED
  BY <1>1, <1>4 DEF PageRests

LEMMA SubmittedRests ==
  ASSUME PageRests, IsCalls(calls), NEW op, NEW target, Submitted(op, target),
         op = "renameItem" => target \in Items,
         op = "updateDescription" => target \in Descriptions
  PROVE  PageRests'
<1>1. PICK call : call = [op |-> op, target |-> target, state |-> "asked"]
  OBVIOUS
<1>2. calls' = Append(calls, call) /\ UNCHANGED <<db, store, loads, mishaps>>
      /\ UNCHANGED mounted
  BY <1>1, Zenon DEF Submitted
<1>3. calls \in Seq(ToSet(calls) \cup {call})
  BY SeqMonotonic DEF IsCalls
<1>4. /\ DOMAIN calls = 1..Len(calls) /\ Len(calls) \in Nat
      /\ DOMAIN calls' = 1..Len(calls) + 1
      /\ \A i \in DOMAIN calls : calls'[i] = calls[i]
      /\ calls'[Len(calls) + 1] = call
  BY <1>2, <1>3, AppendProperties, LenProperties
<1>5. \A i \in DOMAIN calls' : i \in DOMAIN calls \/ i = Len(calls) + 1
  BY <1>4
<1>6. TargetsFit(calls')
  <2>1. IsTarget(call)
    BY <1>1 DEF IsTarget
  <2>2. \A i \in DOMAIN calls : IsTarget(calls[i])
    BY DEF PageRests, PageInv, TargetsFit
  <2>3. ASSUME NEW i \in DOMAIN calls'
        PROVE  IsTarget(calls'[i])
    <3>1. CASE i \in DOMAIN calls
      BY <1>4, <2>2, <3>1
    <3>2. CASE i = Len(calls) + 1
      BY <1>4, <2>1, <3>2
    <3> QED
      BY <1>5, <3>1, <3>2
  <2> QED
    BY <2>3 DEF TargetsFit
<1>7. \A ops : Done(ops) => \E i \in DOMAIN calls' : calls'[i].state = "done" /\ calls'[i].op \in ops
  BY <1>4 DEF Done
<1>8. (Done(TreeOps) => Done(TreeOps)') /\ (Done(DescriptionOps) => Done(DescriptionOps)')
  BY <1>7 DEF Done, TreeOps, DescriptionOps
<1> QED
  BY <1>2, <1>6, <1>8, RestKept

(* The keys. *)

LEMMA LeastOf ==
  ASSUME NEW S \in SUBSET Nat, S # {}
  PROVE  \E least \in S : \A n \in S : least <= n
<1> DEFINE R == OpToRel(<, Nat)
<1>1. IsWellFoundedOn(R, Nat)
  BY NatLessThanWellFounded
<1>2. PICK x \in S : \A y \in S : ~ (<<y, x>> \in R)
  <2> HIDE DEF R
  <2> QED
    BY <1>1, WFMin, Zenon
<1>3. ASSUME NEW y \in S
      PROVE  x <= y
  <2>1. <<y, x>> \notin R
    BY <1>2
  <2>2. R = {pair \in Nat \X Nat : pair[1] < pair[2]}
    BY DEF OpToRel
  <2>3. <<y, x>> \in R <=> y < x
    BY <2>2
  <2> HIDE DEF R
  <2> QED
    BY <2>1, <2>3
<1> QED
  BY <1>3

(* The first of some positions of a list. *)
LEMMA FirstIs ==
  ASSUME NEW n \in Nat, NEW held \in SUBSET (1..n), held # {}
  PROVE  Min(held) \in held
<1>1. \E least \in held : \A k \in held : least <= k
  <2>1. held \in SUBSET Nat
    OBVIOUS
  <2> QED
    BY <2>1, LeastOf
<1> QED
  BY <1>1, Zenon DEF Min

LEMMA MovedFits ==
  ASSUME NEW cursor \in Nat, NEW length \in Nat, NEW direction \in {"up", "down"}
  PROVE  /\ Moved(cursor, length, direction) \in Nat
         /\ cursor < length \/ length = 0 =>
              Moved(cursor, length, direction) < length \/ length = 0
<1>1. CASE length = 0
  BY <1>1 DEF Moved
<1>2. CASE length # 0 /\ direction = "down"
  BY <1>2 DEF Moved
<1>3. CASE length # 0 /\ direction = "up"
  <2>1. Moved(cursor, length, direction) = IF cursor = 0 THEN length - 1 ELSE cursor - 1
    BY <1>3 DEF Moved
  <2> QED
    BY <1>3, <2>1
<1> QED
  BY <1>1, <1>2, <1>3

LEMMA KeyRests ==
  ASSUME ListedInv, PageRests, Key
  PROVE  PageRests'
<1>s. /\ StoreFits(store) /\ IsStore(store)
      /\ store.items \in Seq(ItemRow) /\ Len(store.items) \in Nat
      /\ store.path \in Seq(Folders \cup {Root}) /\ Len(store.path) \in Nat
      /\ store.treeCursor \in Nat /\ store.descriptionCursor \in Nat
      /\ store.entry \in Entries \cup {None}
  BY LenProperties DEF PageRests, PageInv, StoreFits
<1>c. IsCalls(calls) /\ ListsOpenEntry(store, db)
  BY DEF ListedInv
<1>m. mounted => CursorFits(store)
  BY DEF PageRests, RestInv
<1>d. store.descriptions \in Seq(DescriptionRow) /\ Len(store.descriptions) \in Nat
  <2>1. CASE store.entry \in Entries /\ store.descriptions \in Seq(RowsWith(db, store.entry))
    <3>1. RowsWith(db, store.entry) \subseteq DescriptionRow
      BY DEF RowsWith
    <3> QED
      BY <2>1, <3>1, SeqMonotonic, LenProperties
  <2>2. CASE store.descriptions = <<>>
    BY <2>2, EmptySeq, LenProperties
  <2> QED
    BY <1>c, <2>1, <2>2 DEF ListsOpenEntry
<1>0. ASSUME NEW s, NEW fresh, Pressed(s, fresh), IsStore(s),
             s.items = store.items, s.descriptions = store.descriptions,
             s.preview = store.preview,
             \/ s.path = store.path
             \/ s.path \in Seq(Folders \cup {Root}) /\ s.path # <<>> /\ "path" \in fresh,
             \/ s.treeCursor = store.treeCursor \/ s.treeCursor = 0
             \/ s.treeCursor \in Nat /\ s.treeCursor < Len(store.items),
             s.descriptionCursor \in Nat, s.entry \in Entries \cup {None}
      PROVE  PageRests'
  <2>1. CursorFits(store)
    BY <1>0, <1>m, Zenon DEF Pressed, CanPress
  <2>2. StoreFits(s)
    BY <1>0, <1>s DEF StoreFits
  <2>3. CursorFits(s)
    <3>1. store.items = <<>> \/ 0 < Len(store.items)
      BY <1>s, EmptySeq
    <3> QED
      BY <1>0, <2>1, <3>1 DEF CursorFits
  <2>4. KeepsLists(s, fresh)
    <3>1. \/ s.path = store.path
          \/ s.path # <<>> /\ "path" \in fresh
      BY <1>0
    <3>2. s.items = store.items /\ s.descriptions = store.descriptions
          /\ s.preview = store.preview
      BY <1>0
    <3> QED
      BY <3>1, <3>2, Zenon DEF KeepsLists
  <2> QED
    BY <1>0, <2>2, <2>3, <2>4, PressRests
<1>1. ASSUME NEW direction \in {"up", "down"}, MoveCursor(direction)
      PROVE  PageRests'
  <2>1. Pressed(MovedStore(direction), {})
    BY <1>1, Zenon DEF MoveCursor
  <2>2. PICK tree : tree = Moved(store.treeCursor, Len(store.items), direction)
    OBVIOUS
  <2>3. PICK other : other = Moved(store.descriptionCursor, Len(store.descriptions), direction)
    OBVIOUS
  <2>4. CursorFits(store)
    BY <1>m, <2>1, Zenon DEF Pressed, CanPress
  <2>5. /\ tree \in Nat /\ other \in Nat
        /\ tree < Len(store.items) \/ tree = 0
    <3>1. tree \in Nat /\ (tree < Len(store.items) \/ Len(store.items) = 0)
      <4>1. store.treeCursor < Len(store.items) \/ Len(store.items) = 0
        BY <2>4, EmptySeq DEF CursorFits
      <4> QED
        BY <1>s, <2>2, <4>1, MovedFits
    <3>2. Len(store.items) = 0 => tree = 0
      BY <2>2 DEF Moved
    <3>3. other \in Nat
      BY <1>s, <1>d, <2>3, MovedFits
    <3> QED
      BY <3>1, <3>2, <3>3
  <2>6. CASE store.pane = "tree"
    <3>1. PICK s : s = [store EXCEPT !.treeCursor = tree] /\ s = MovedStore(direction)
      BY <2>2, <2>6 DEF MovedStore
    <3>2. IsStore(s) /\ s.items = store.items /\ s.descriptions = store.descriptions
          /\ s.preview = store.preview /\ s.path = store.path /\ s.entry = store.entry
          /\ s.treeCursor = tree /\ s.descriptionCursor = store.descriptionCursor
      BY <1>s, <3>1 DEF IsStore
    <3>3. Pressed(s, {})
      BY <2>1, <3>1
    <3> QED
      BY <1>0, <1>s, <2>5, <3>2, <3>3
  <2>7. CASE store.pane # "tree"
    <3>1. PICK s : s = [store EXCEPT !.descriptionCursor = other] /\ s = MovedStore(direction)
      BY <2>3, <2>7 DEF MovedStore
    <3>2. IsStore(s) /\ s.items = store.items /\ s.descriptions = store.descriptions
          /\ s.preview = store.preview /\ s.path = store.path /\ s.entry = store.entry
          /\ s.treeCursor = store.treeCursor /\ s.descriptionCursor = other
      BY <1>s, <3>1 DEF IsStore
    <3>3. Pressed(s, {})
      BY <2>1, <3>1
    <3> QED
      BY <1>0, <1>s, <2>5, <3>2, <3>3
  <2> QED
    BY <2>6, <2>7
<1>2. CASE NavigateIn
  <2>1. ASSUME NEW folder \in Folders, NavigateInto(folder)
        PROVE  PageRests'
    <3>1. PICK path : path = Append(store.path, folder)
      OBVIOUS
    <3>2. PICK s : s = [store EXCEPT !.path = path, !.treeCursor = 0, !.entry = None,
                                     !.pane = "tree"]
      OBVIOUS
    <3>3. Pressed(s, {"path"})
      BY <2>1, <3>1, <3>2, Zenon DEF NavigateInto
    <3>4. IsStore(s) /\ s.items = store.items /\ s.descriptions = store.descriptions
          /\ s.preview = store.preview /\ s.path = path /\ s.entry = None
          /\ s.treeCursor = 0 /\ s.descriptionCursor = store.descriptionCursor
      BY <1>s, <3>2 DEF IsStore
    <3>5. path \in Seq(Folders \cup {Root}) /\ path # <<>>
      BY <1>s, <3>1, AppendProperties
    <3> QED
      BY <1>0, <1>s, <3>3, <3>4, <3>5
  <2>2. ASSUME NEW entry \in Entries, OpenEntry(entry), TreeItem(store).id = entry
        PROVE  PageRests'
    <3>1. PICK found : found = SelectInSeq(store.items, LAMBDA row : row.id = entry)
      OBVIOUS
    <3>2. found \in 1..Len(store.items)
      <4>1. entry # None
        BY BrowserAssumption DEF Items
      <4>2. store.treeCursor + 1 \in 1..Len(store.items)
            /\ store.items[store.treeCursor + 1].id = entry
        BY <1>s, <2>2, <4>1 DEF TreeItem, At, NoRow
      <4>3. PICK held : held = {i \in 1..Len(store.items) : store.items[i].id = entry}
        OBVIOUS
      <4>4. found = Min(held)
        BY <3>1, <4>2, <4>3 DEF SelectInSeq
      <4>5. held \in SUBSET (1..Len(store.items)) /\ held # {}
        BY <4>2, <4>3
      <4> QED
        BY <1>s, <4>4, <4>5, FirstIs
    <3>3. PICK cursor : cursor = found - 1
      OBVIOUS
    <3>4. PICK s : s = [store EXCEPT !.entry = entry, !.pane = "description",
                                     !.descriptionCursor = 0, !.treeCursor = cursor]
      OBVIOUS
    <3>5. Pressed(s, {})
      BY <2>2, <3>1, <3>3, <3>4, Zenon DEF OpenEntry
    <3>6. IsStore(s) /\ s.items = store.items /\ s.descriptions = store.descriptions
          /\ s.preview = store.preview /\ s.path = store.path /\ s.entry = entry
          /\ s.treeCursor = cursor /\ s.descriptionCursor = 0
      BY <1>s, <3>4 DEF IsStore
    <3>7. cursor \in Nat /\ cursor < Len(store.items)
      BY <1>s, <3>2, <3>3
    <3> QED
      BY <1>0, <3>5, <3>6, <3>7
  <2> QED
    BY <1>2, <2>1, <2>2, Zenon DEF NavigateIn
<1>3. CASE NavigateOut
  <2>1. CASE CloseEntry
    <3>1. PICK s : s = [store EXCEPT !.pane = "tree", !.entry = None, !.interaction = "idle",
                                     !.descriptionCursor = 0]
      OBVIOUS
    <3>2. Pressed(s, {})
      BY <2>1, <3>1, Zenon DEF CloseEntry
    <3>3. IsStore(s) /\ s.items = store.items /\ s.descriptions = store.descriptions
          /\ s.preview = store.preview /\ s.path = store.path /\ s.entry = None
          /\ s.treeCursor = store.treeCursor /\ s.descriptionCursor = 0
      BY <1>s, <3>1 DEF IsStore
    <3> QED
      BY <1>0, <3>2, <3>3
  <2>2. CASE Len(store.path) > 1 /\ NavigateUp
    <3>1. PICK path : path = SubSeq(store.path, 1, Len(store.path) - 1)
      OBVIOUS
    <3>2. PICK s : s = [store EXCEPT !.path = path, !.treeCursor = 0, !.entry = None,
                                     !.pane = "tree"]
      OBVIOUS
    <3>3. Pressed(s, {"path"})
      BY <2>2, <3>1, <3>2, Zenon DEF NavigateUp
    <3>4. IsStore(s) /\ s.items = store.items /\ s.descriptions = store.descriptions
          /\ s.preview = store.preview /\ s.path = path /\ s.entry = None
          /\ s.treeCursor = 0 /\ s.descriptionCursor = store.descriptionCursor
      BY <1>s, <3>2 DEF IsStore
    <3>5. path \in Seq(Folders \cup {Root}) /\ path # <<>>
      <4>1. \A i \in 1..Len(store.path) - 1 : store.path[i] \in Folders \cup {Root}
        BY <1>s, ElementOfSeq
      <4>2. path \in Seq(Folders \cup {Root}) /\ Len(path) = Len(store.path) - 1
        BY <1>s, <2>2, <3>1, <4>1, SubSeqProperties
      <4> QED
        BY <1>s, <2>2, <4>2, EmptySeq
    <3> QED
      BY <1>0, <1>s, <3>3, <3>4, <3>5
  <2> QED
    BY <1>3, <2>1, <2>2, Zenon DEF NavigateOut
<1>4. ASSUME NEW interaction, Pressed([store EXCEPT !.interaction = interaction], {})
      PROVE  PageRests'
  <2>1. PICK s : s = [store EXCEPT !.interaction = interaction]
    OBVIOUS
  <2>2. IsStore(s) /\ s.items = store.items /\ s.descriptions = store.descriptions
        /\ s.preview = store.preview /\ s.path = store.path /\ s.entry = store.entry
        /\ s.treeCursor = store.treeCursor /\ s.descriptionCursor = store.descriptionCursor
    BY <1>s, <2>1 DEF IsStore
  <2>3. Pressed(s, {})
    BY <1>4, <2>1
  <2> QED
    BY <1>0, <1>s, <2>2, <2>3
<1>5. CASE \/ CancelAction \/ RequestCreate
           \/ RequestTreeRename \/ RequestTreeDelete
           \/ RequestDescriptionRename \/ RequestDescriptionDelete
           \/ SubmitBlank
  <2>1. \E interaction : Pressed([store EXCEPT !.interaction = interaction], {})
    BY <1>5, Zenon DEF CancelAction, RequestCreate, RequestTreeRename, RequestTreeDelete,
                       RequestDescriptionRename, RequestDescriptionDelete, Requested,
                       SubmitBlank, SubmitBlankTreeCreate, SubmitBlankTreeRename,
                       SubmitBlankDescriptionCreate, SubmitBlankDescriptionRename
  <2> QED
    BY <2>1, <1>4, Zenon
<1>6. CASE \/ SubmitTreeCreate \/ ConfirmTreeDelete
           \/ SubmitDescriptionCreate \/ ConfirmDescriptionDelete
  <2>1. \E op : \E target :
          Submitted(op, target) /\ op # "renameItem" /\ op # "updateDescription"
    BY <1>6 DEF SubmitTreeCreate, ConfirmTreeDelete, SubmitDescriptionCreate,
                ConfirmDescriptionDelete
  <2> QED
    BY <1>c, <2>1, SubmittedRests
<1>7. CASE SubmitTreeRename
  <2>1. TreeItem(store) # NoRow /\ Submitted("renameItem", TreeItem(store).id)
    BY <1>7, Zenon DEF SubmitTreeRename, TreeFieldShown
  <2>2. TreeItem(store).id \in Items
    BY <1>s, <2>1, AtIs DEF TreeItem
  <2> QED
    BY <1>c, <2>1, <2>2, SubmittedRests
<1>8. CASE SubmitDescriptionRename
  <2>1. DescriptionItem(store) # NoRow
        /\ Submitted("updateDescription", DescriptionItem(store).id)
    BY <1>8, Zenon DEF SubmitDescriptionRename, DescriptionFieldShown
  <2>2. DescriptionItem(store).id \in Descriptions
    <3>1. DescriptionItem(store) = store.descriptions[store.descriptionCursor + 1]
          /\ store.descriptionCursor + 1 \in 1..Len(store.descriptions)
      BY <1>s, <1>d, <2>1 DEF DescriptionItem, At
    <3>2. DescriptionItem(store) \in DescriptionRow
      BY <1>d, <3>1, ElementOfSeq
    <3> QED
      BY <3>2 DEF DescriptionRow
  <2> QED
    BY <1>c, <2>1, <2>2, SubmittedRests
<1>9. CASE LeavePage
  <2>1. UNCHANGED <<db, store, loads, mishaps>> /\ UNCHANGED calls /\ ~mounted'
    BY <1>9, Zenon DEF LeavePage
  <2>2. TargetsFit(calls') /\ (Done(TreeOps) => Done(TreeOps)')
        /\ (Done(DescriptionOps) => Done(DescriptionOps)')
    BY <2>1 DEF Done, PageRests, PageInv, TargetsFit
  <2> QED
    BY <2>1, <2>2, RestKept
<1>10. CASE EnterPage
  <2>1. PICK fresh : fresh = {"mount", "answer"}
    OBVIOUS
  <2>2. mounted' = TRUE /\ Rerender(store, fresh, loads) /\ UNCHANGED db /\ UNCHANGED calls
    BY <1>10, <2>1, Zenon DEF EnterPage
  <2>3. Rests(store, fresh, loads)
    <3>1. DescriptionsRun(store, fresh) /\ PreviewRuns(store, fresh)
      BY <2>1 DEF DescriptionsRun, PreviewRuns
    <3>2. CASE store.path = <<>>
      <4>1. RootRuns(store, fresh)
        BY <2>1, <3>2 DEF RootRuns
      <4>2. ItemsSettled(store, loads["items"], db')
        BY <3>2 DEF ItemsSettled
      <4> QED
        BY <3>1, <4>1, <4>2, Zenon DEF Rests
    <3>3. CASE store.path # <<>>
      <4>1. ItemsRun(store, fresh)
        BY <2>1, <3>3 DEF ItemsRun
      <4> QED
        BY <3>1, <3>3, <4>1, Zenon DEF Rests
    <3> QED
      BY <3>2, <3>3
  <2>4. QueuesFit(loads) /\ TargetsFit(calls) /\ PlacesFit(db)
    BY DEF PageRests, PageInv
  <2>5. CursorFits(store) \/ fresh \cap {"mount", "items"} # {}
    BY <2>1
  <2>6. StoreFits(store') /\ QueuesFit(loads')
    BY <1>s, <2>2, <2>4, <2>5, RerenderFits
  <2>7. RestInv'
    BY <1>s, <2>2, <2>3, <2>4, <2>5, RenderRests
  <2> QED
    BY <2>2, <2>4, <2>6, <2>7
       DEF PageRests, PageInv, StoreFits, IsStore, QueuesFit, PlacesFit, TargetsFit
<1> QED
  BY <1>1, <1>2, <1>3, <1>5, <1>6, <1>7, <1>8, <1>9, <1>10, Zenon DEF Key

(* The answers. *)

LEMMA LoadIs ==
  ASSUME QueuesFit(loads), NEW kind \in Kinds, NEW i \in DOMAIN loads[kind]
  PROVE  /\ loads[kind][i] \in LoadOf(kind)
         /\ loads[kind] # <<>>
         /\ i = Len(loads[kind]) => loads[kind][i] = Last(loads[kind])
<1>1. loads[kind] \in Seq(LoadOf(kind))
  BY DEF QueuesFit
<1>2. loads[kind][i] \in LoadOf(kind)
  BY <1>1, ElementOfSeq, LenProperties
<1>3. loads[kind] # <<>>
  OBVIOUS
<1> QED
  BY <1>2, <1>3 DEF Last

LEMMA LeftFits ==
  ASSUME ListedInv, QueuesFit(loads), NEW kind \in Kinds, NEW i \in DOMAIN loads[kind]
  PROVE  /\ QueuesFit(Without(kind, i))
         /\ Without(kind, i)[kind] = LeftOf(loads[kind], i)
         /\ \A other \in Kinds \ {kind} : Without(kind, i)[other] = loads[other]
<1>1. /\ Without(kind, i)[kind] = LeftOf(loads[kind], i)
      /\ \A other \in Kinds \ {kind} : Without(kind, i)[other] = loads[other]
  BY WithoutLeaves DEF ListedInv
<1>2. PICK left : left = LeftOf(loads[kind], i)
  OBVIOUS
<1>3. loads[kind] \in Seq(LoadOf(kind))
  BY DEF QueuesFit
<1>4. left \in Seq(LoadOf(kind))
  <2>1. PICK queue : queue = loads[kind]
    OBVIOUS
  <2> QED
    BY <1>2, <1>3, <2>1, LeftOfIs
<1>5. ASSUME NEW other \in Kinds
      PROVE  Without(kind, i)[other] \in Seq(LoadOf(other))
  BY <1>1, <1>2, <1>4 DEF QueuesFit
<1> QED
  BY <1>1, <1>5 DEF QueuesFit

LEMMA ItemsAnswerFits ==
  ASSUME ListedInv, QueuesFit(loads), NEW i \in DOMAIN loads["items"]
  PROVE  Answer("items", i) \in Seq(ItemRow)
<1>1. "items" \in Kinds
  BY DEF Kinds
<1>2. PICK load \in LoadOf("items") : load = loads["items"][i]
  BY <1>1, LoadIs
<1>3. CASE load.read
  BY <1>2, <1>3 DEF Answer, LoadOf
<1>4. CASE ~load.read
  <2>1. Answer("items", i) = ItemsIn(db, load.of)
    BY <1>2, <1>4 DEF Answer, RowsRead
  <2> QED
    BY <2>1, ItemsInIs DEF ListedInv
<1> QED
  BY <1>3, <1>4

(* An answer that none has passed is settled, or leaves one that will be.  *)
LEMMA ItemsAnswerSettles ==
  ASSUME QueuesFit(loads), NEW i \in DOMAIN loads["items"], ~loads["items"][i].passed,
         ItemsSettled(store, loads["items"], db),
         NEW s, s.path = store.path, s.items = Answer("items", i)
  PROVE  ItemsSettled(s, LeftOf(loads["items"], i), db)
<1> SUFFICES ASSUME s.path # <<>>
             PROVE  ItemsSettled(s, LeftOf(loads["items"], i), db)
  BY DEF ItemsSettled
<1>1. PICK queue : queue = loads["items"] /\ queue \in Seq(LoadOf("items"))
  BY DEF QueuesFit, Kinds
<1>2. PICK left : left = LeftOf(queue, i)
  OBVIOUS
<1>3. CurrentFolder(s) = CurrentFolder(store)
  BY DEF CurrentFolder
<1>4. \A load \in LoadOf("items") : Asks(load, EveryLoad)
  BY DEF LoadOf, LoadRecord, Asks, EveryLoad
<1>5. /\ OnePassed(queue, EveryLoad) => OnePassed(left, EveryLoad)
      /\ Asks(Last(queue), EveryLoad) =>
           \/ OnePassed(left, EveryLoad)
           \/ left # <<>> /\ Last(left) = Last(queue)
           \/ i = Len(queue) /\ NoneAsks(left, EveryLoad)
  <2>1. ~(queue[i].passed /\ Asks(queue[i], EveryLoad)) /\ i \in DOMAIN queue
    BY <1>1
  <2> QED
    BY <1>1, <1>2, <2>1, AnswerLeaves
<1>6. left \in Seq(LoadOf("items"))
  BY <1>1, <1>2, LeftOfIs
<1>7. NoneAsks(left, EveryLoad) => left = <<>>
  <2>1. \A j \in DOMAIN left : left[j] \in LoadOf("items")
    BY <1>6, ElementOfSeq, LenProperties
  <2>2. NoneAsks(left, EveryLoad) => DOMAIN left = {}
    BY <1>4, <2>1 DEF NoneAsks
  <2>3. DOMAIN left = {} => left = <<>>
    BY <1>6, LenProperties, EmptySeq
  <2> QED
    BY <2>2, <2>3
<1>8. CASE OnePassed(queue, EveryLoad)
  BY <1>1, <1>2, <1>5, <1>8 DEF ItemsSettled
<1>9. CASE /\ Last(queue).of = CurrentFolder(store)
           /\ Tells(Last(queue), ItemsIn(db, CurrentFolder(store)))
  <2>1. queue[Len(queue)] \in LoadOf("items") /\ Last(queue) = queue[Len(queue)]
    BY <1>1, ElementOfSeq, LenProperties DEF Last
  <2>2. Asks(Last(queue), EveryLoad)
    BY <1>4, <2>1
  <2>3. CASE OnePassed(left, EveryLoad)
    BY <1>1, <1>2, <2>3 DEF ItemsSettled
  <2>4. CASE left # <<>> /\ Last(left) = Last(queue)
    BY <1>1, <1>2, <1>3, <1>9, <2>4 DEF ItemsSettled
  <2>5. CASE i = Len(queue) /\ left = <<>>
    <3>1. Answer("items", i) = ItemsIn(db, CurrentFolder(store))
      BY <1>1, <1>9, <2>1, <2>5 DEF Answer, RowsRead, Tells
    <3> QED
      BY <1>1, <1>2, <1>3, <2>5, <3>1 DEF ItemsSettled
  <2> QED
    BY <1>5, <1>7, <2>2, <2>3, <2>4, <2>5
<1> QED
  BY <1>1, <1>8, <1>9 DEF ItemsSettled

LEMMA DescriptionsAnswerSettles ==
  ASSUME QueuesFit(loads), NEW i \in DOMAIN loads["descriptions"],
         DescriptionsSettled(store, loads["descriptions"], db),
         NEW s, s.entry = store.entry,
         \/ /\ loads["descriptions"][i].of # store.entry
            /\ s.descriptions = store.descriptions
         \/ /\ loads["descriptions"][i].of = store.entry /\ ~loads["descriptions"][i].passed
            /\ s.descriptions = Answer("descriptions", i)
  PROVE  DescriptionsSettled(s, LeftOf(loads["descriptions"], i), db)
<1> SUFFICES ASSUME s.entry # None
             PROVE  DescriptionsSettled(s, LeftOf(loads["descriptions"], i), db)
  BY DEF DescriptionsSettled
<1>1. PICK queue : queue = loads["descriptions"] /\ queue \in Seq(LoadOf("descriptions"))
  BY DEF QueuesFit, Kinds
<1>2. PICK left : left = LeftOf(queue, i)
  OBVIOUS
<1>3. PICK wants : wants = OfEntry(store.entry)
  OBVIOUS
<1>4. ASSUME NEW load \in LoadOf("descriptions")
      PROVE  Asks(load, wants) <=> load.of = store.entry
  BY <1>3 DEF LoadOf, LoadRecord, Asks, OfEntry
<1>5. queue[i] \in LoadOf("descriptions") /\ i \in DOMAIN queue
  BY <1>1, ElementOfSeq, LenProperties
<1>6. /\ OnePassed(queue, wants) => OnePassed(left, wants)
      /\ Asks(Last(queue), wants) =>
           \/ OnePassed(left, wants)
           \/ left # <<>> /\ Last(left) = Last(queue)
           \/ i = Len(queue) /\ NoneAsks(left, wants)
      /\ NoneAsks(queue, wants) => NoneAsks(left, wants)
  <2>1. ~(queue[i].passed /\ Asks(queue[i], wants))
    BY <1>1, <1>4, <1>5
  <2> QED
    BY <1>1, <1>2, <1>5, <2>1, AnswerLeaves
<1>7. CASE OnePassed(queue, wants)
  BY <1>1, <1>2, <1>3, <1>6, <1>7 DEF DescriptionsSettled
<1>8. CASE /\ queue # <<>> /\ Last(queue).of = store.entry
           /\ Last(queue).read => AreOf(Last(queue).rows, db, store.entry)
  <2>1. queue[Len(queue)] \in LoadOf("descriptions") /\ Last(queue) = queue[Len(queue)]
    BY <1>1, <1>8, ElementOfSeq, LenProperties, EmptySeq DEF Last
  <2>2. Asks(Last(queue), wants)
    BY <1>4, <1>8, <2>1
  <2>3. CASE OnePassed(left, wants)
    BY <1>1, <1>2, <1>3, <2>3 DEF DescriptionsSettled
  <2>4. CASE left # <<>> /\ Last(left) = Last(queue)
    BY <1>1, <1>2, <1>8, <2>4 DEF DescriptionsSettled
  <2>5. CASE i = Len(queue) /\ NoneAsks(left, wants)
    <3>1. AreOf(Answer("descriptions", i), db, store.entry)
      BY <1>1, <1>8, <2>1, <2>5 DEF Answer, RowsRead, AreOf
    <3>2. s.descriptions = Answer("descriptions", i)
      BY <1>1, <1>8, <2>1, <2>5
    <3> QED
      BY <1>1, <1>2, <1>3, <2>5, <3>1, <3>2 DEF DescriptionsSettled
  <2> QED
    BY <1>6, <2>2, <2>3, <2>4, <2>5
<1>9. CASE NoneAsks(queue, wants) /\ AreOf(store.descriptions, db, store.entry)
  <2>1. NoneAsks(left, wants) /\ queue[i].of # store.entry
    BY <1>4, <1>5, <1>6, <1>9 DEF NoneAsks
  <2>2. s.descriptions = store.descriptions
    BY <1>1, <2>1
  <2> QED
    BY <1>1, <1>2, <1>3, <1>9, <2>1, <2>2 DEF DescriptionsSettled
<1> QED
  BY <1>1, <1>3, <1>7, <1>8, <1>9 DEF DescriptionsSettled

LEMMA PreviewAnswerSettles ==
  ASSUME QueuesFit(loads), StoreFits(store), NEW i \in DOMAIN loads["preview"],
         PreviewSettled(store, loads["preview"], db),
         NEW s, s.entry = store.entry, s.items = store.items, s.treeCursor = store.treeCursor,
         CursorFits(store),
         \/ ~PreviewWanted(loads["preview"][i]) /\ s.preview = store.preview
         \/ /\ PreviewWanted(loads["preview"][i]) /\ ~loads["preview"][i].passed
            /\ s.preview = [id |-> loads["preview"][i].of, rows |-> Answer("preview", i)]
  PROVE  PreviewSettled(s, LeftOf(loads["preview"], i), db)
<1> SUFFICES ASSUME s.entry = None
             PROVE  PreviewSettled(s, LeftOf(loads["preview"], i), db)
  BY DEF PreviewSettled
<1>1. PICK queue : queue = loads["preview"] /\ queue \in Seq(LoadOf("preview"))
  BY DEF QueuesFit, Kinds
<1>2. PICK left : left = LeftOf(queue, i)
  OBVIOUS
<1>3. PICK wants : wants = OfCursor(store.items)
  OBVIOUS
<1>4. ASSUME NEW load \in LoadOf("preview")
      PROVE  Asks(load, wants) <=> PreviewWanted(load)
  BY <1>3 DEF LoadOf, LoadRecord, Asks, OfCursor, PreviewWanted
<1>5. queue[i] \in LoadOf("preview") /\ i \in DOMAIN queue
  BY <1>1, ElementOfSeq, LenProperties
<1>6. /\ OnePassed(queue, wants) => OnePassed(left, wants)
      /\ Asks(Last(queue), wants) =>
           \/ OnePassed(left, wants)
           \/ left # <<>> /\ Last(left) = Last(queue)
           \/ i = Len(queue) /\ NoneAsks(left, wants)
      /\ NoneAsks(queue, wants) => NoneAsks(left, wants)
  <2>1. ~(queue[i].passed /\ Asks(queue[i], wants))
    BY <1>1, <1>4, <1>5
  <2> QED
    BY <1>1, <1>2, <1>5, <2>1, AnswerLeaves
<1>t. TreeItem(s) = TreeItem(store)
  BY DEF TreeItem
<1>p. store.items \in Seq(ItemRow) /\ store.treeCursor \in Nat /\ Len(store.items) \in Nat
  BY LenProperties DEF StoreFits
<1>7. CASE TreeItem(store) = NoRow
  <2>1. store.items = <<>>
    BY <1>7, <1>p, AtIs DEF TreeItem, CursorFits
  <2>2. \A load \in LoadOf("preview") : ~PreviewWanted(load)
    <3>1. \A cursor : At(store.items, cursor) = NoRow \/ cursor < 0
      BY <2>1 DEF At
    <3>2. ASSUME NEW load \in LoadOf("preview")
          PROVE  ~PreviewWanted(load)
      <4>1. load.of \in Items /\ load.cursor \in Nat
        BY DEF LoadOf, LoadRecord
      <4>2. load.of # None
        BY <4>1, BrowserAssumption
      <4>3. At(store.items, load.cursor) = NoRow
        BY <2>1, <4>1 DEF At
      <4> QED
        BY <4>2, <4>3 DEF PreviewWanted, NoRow
    <3> QED
      BY <3>2
  <2>3. s.preview = store.preview
    BY <1>1, <1>5, <2>2
  <2> QED
    BY <1>7, <1>t, <2>3 DEF PreviewSettled
<1>8. CASE TreeItem(store) # NoRow /\ OnePassed(queue, wants)
  BY <1>1, <1>2, <1>3, <1>6, <1>8, <1>t DEF PreviewSettled
<1>9. CASE /\ TreeItem(store) # NoRow /\ queue # <<>>
           /\ Last(queue).of = TreeItem(store).id /\ Last(queue).cursor = store.treeCursor
           /\ Tells(Last(queue), PreviewRead(db, TreeItem(store).id))
  <2>1. queue[Len(queue)] \in LoadOf("preview") /\ Last(queue) = queue[Len(queue)]
    BY <1>1, <1>9, ElementOfSeq, LenProperties, EmptySeq DEF Last
  <2>2. Asks(Last(queue), wants) /\ PreviewWanted(Last(queue))
    BY <1>4, <1>9, <2>1 DEF PreviewWanted, TreeItem
  <2>3. CASE OnePassed(left, wants)
    BY <1>1, <1>2, <1>3, <1>9, <1>t, <2>3 DEF PreviewSettled
  <2>4. CASE left # <<>> /\ Last(left) = Last(queue)
    BY <1>1, <1>2, <1>9, <1>t, <2>4 DEF PreviewSettled
  <2>5. CASE i = Len(queue) /\ NoneAsks(left, wants)
    <3>1. Answer("preview", i) = PreviewRead(db, TreeItem(store).id)
      BY <1>1, <1>9, <2>1, <2>5 DEF Answer, RowsRead, PreviewRead, Tells
    <3>2. s.preview = [id |-> TreeItem(store).id, rows |-> Answer("preview", i)]
      BY <1>1, <1>9, <2>1, <2>2, <2>5
    <3>3. s.preview = PreviewOf(s, db)
      BY <1>t, <3>1, <3>2 DEF PreviewOf
    <3> QED
      BY <1>1, <1>2, <1>3, <1>9, <1>t, <2>5, <3>3 DEF PreviewSettled
  <2> QED
    BY <1>6, <2>2, <2>3, <2>4, <2>5
<1>10. CASE /\ TreeItem(store) # NoRow
            /\ NoneAsks(queue, wants) /\ store.preview = PreviewOf(store, db)
  <2>1. NoneAsks(left, wants) /\ ~PreviewWanted(queue[i])
    BY <1>4, <1>5, <1>6, <1>10 DEF NoneAsks
  <2>2. s.preview = store.preview
    BY <1>1, <2>1
  <2> QED
    BY <1>1, <1>2, <1>3, <1>10, <1>t, <2>1, <2>2 DEF PreviewSettled, PreviewOf
<1> QED
  BY <1>1, <1>3, <1>7, <1>8, <1>9, <1>10 DEF PreviewSettled

LEMMA AnswerRests ==
  ASSUME ListedInv, PageRests, NEW kind \in Kinds, NEW i \in DOMAIN loads[kind],
         AnswerLoad(kind, i)
  PROVE  PageRests'
<1>s. /\ StoreFits(store) /\ IsStore(store) /\ PageInv
      /\ QueuesFit(loads) /\ PlacesFit(db) /\ TargetsFit(calls)
  BY DEF PageRests, PageInv, StoreFits
<1>m. mounted => CursorFits(store)
  BY DEF PageRests, RestInv
<1>r. mounted /\ mishaps = {} =>
        /\ store.path = <<>> => loads["root"] # <<>>
        /\ TreeRests /\ EntryRests /\ PreviewRests
  BY DEF PageRests, RestInv
<1>w. PICK rest : rest = Without(kind, i)
  OBVIOUS
<1>f. /\ QueuesFit(rest) /\ rest[kind] = LeftOf(loads[kind], i)
      /\ \A other \in Kinds \ {kind} : rest[other] = loads[other]
  BY <1>s, <1>w, LeftFits
<1>1. ASSUME NEW s, NEW fresh, Applied(kind, i, s, fresh), StoreFits(s),
             mounted => CursorFits(s) \/ fresh \cap {"mount", "items"} # {},
             mounted => Rests(s, fresh, rest)
      PROVE  PageRests'
  <2>1. Render(s, fresh, rest) /\ UNCHANGED db /\ UNCHANGED mounted /\ UNCHANGED calls
    BY <1>1, <1>w, Zenon DEF Applied
  <2>2. TargetsFit(calls')
    BY <1>s, <2>1 DEF TargetsFit
  <2> QED
    BY <1>1, <1>s, <1>f, <2>1, <2>2, RenderKeepsRest
<1>2. ASSUME NEW s, NEW fresh, Applied(kind, i, s, fresh)
      PROVE  /\ mishaps' = {} => mishaps = {} /\ ~loads[kind][i].passed
             /\ db' = db
             /\ Done(TreeOps) => Done(TreeOps)'
             /\ Done(DescriptionOps) => Done(DescriptionOps)'
             /\ Done(WriteOps) => Done(WriteOps)'
  <2>1. mishaps' = mishaps \cup (IF loads[kind][i].passed THEN {"overtaken"} ELSE {})
        /\ UNCHANGED db /\ UNCHANGED calls
    BY <1>2, Zenon DEF Applied
  <2> QED
    BY <2>1 DEF Done
<1>3. CASE kind = "root" /\ RootAnswered(i)
  <2>1. PICK s : s = [store EXCEPT !.path = <<Root>>]
    OBVIOUS
  <2>2. PICK fresh : fresh = {"path", "answer"}
    OBVIOUS
  <2>3. Applied(kind, i, s, fresh)
    BY <1>3, <2>1, <2>2, Zenon DEF RootAnswered
  <2>4. IsStore(s) /\ s.items = store.items /\ s.descriptions = store.descriptions
        /\ s.entry = store.entry /\ s.path = <<Root>>
        /\ s.treeCursor = store.treeCursor /\ s.descriptionCursor = store.descriptionCursor
    BY <1>s, <2>1 DEF IsStore
  <2>5. StoreFits(s)
    BY <1>s, <2>4 DEF StoreFits
  <2>6. ASSUME mounted
        PROVE  Rests(s, fresh, rest)
    <3> SUFFICES ASSUME mishaps' = {}
                 PROVE  /\ s.path # <<>> /\ ItemsRun(s, fresh)
                        /\ Done(DescriptionOps)'
                             \/ DescriptionsSettled(s, rest["descriptions"], db')
      BY Zenon DEF Rests
    <3>1. s.path # <<>> /\ ItemsRun(s, fresh)
      BY <2>2, <2>4 DEF ItemsRun
    <3>2. rest["descriptions"] = loads["descriptions"]
      BY <1>f, <1>3 DEF Kinds
    <3>3. EntryRests /\ db' = db /\ (Done(DescriptionOps) => Done(DescriptionOps)')
      BY <1>2, <1>r, <2>3, <2>6
    <3>4. Done(DescriptionOps)' \/ DescriptionsSettled(s, rest["descriptions"], db')
      BY <2>4, <3>2, <3>3 DEF EntryRests, DescriptionsSettled
    <3> QED
      BY <3>1, <3>4
  <2>7. mounted => CursorFits(s)
    BY <1>m, <2>4 DEF CursorFits
  <2> QED
    BY <1>1, <2>3, <2>5, <2>6, <2>7
<1>4. CASE kind = "items" /\ ItemsAnswered(i)
  <2>1. PICK rows : rows = Answer("items", i)
    OBVIOUS
  <2>2. PICK s : s = [store EXCEPT !.items = rows]
    OBVIOUS
  <2>3. PICK fresh : fresh = {"items", "answer"}
    OBVIOUS
  <2>4. Applied(kind, i, s, fresh)
    BY <1>4, <2>1, <2>2, <2>3, Zenon DEF ItemsAnswered
  <2>5. IsStore(s) /\ s.items = rows /\ s.descriptions = store.descriptions
        /\ s.entry = store.entry /\ s.path = store.path
        /\ s.treeCursor = store.treeCursor /\ s.descriptionCursor = store.descriptionCursor
    BY <1>s, <2>2 DEF IsStore
  <2>6. rows \in Seq(ItemRow)
    BY <1>s, <1>4, <2>1, ItemsAnswerFits
  <2>7. StoreFits(s)
    BY <1>s, <2>5, <2>6 DEF StoreFits
  <2>8. ASSUME mounted
        PROVE  Rests(s, fresh, rest)
    <3> SUFFICES ASSUME mishaps' = {}
                 PROVE  /\ s.path = <<>> => rest["root"] # <<>>
                        /\ Done(TreeOps)' \/ ItemsSettled(s, rest["items"], db')
                        /\ Done(DescriptionOps)'
                             \/ DescriptionsSettled(s, rest["descriptions"], db')
                        /\ PreviewRuns(s, fresh)
      BY Zenon DEF Rests
    <3>1. rest["descriptions"] = loads["descriptions"] /\ rest["root"] = loads["root"]
          /\ rest["items"] = LeftOf(loads["items"], i)
      BY <1>f, <1>4 DEF Kinds
    <3>2. /\ store.path = <<>> => loads["root"] # <<>>
          /\ TreeRests /\ EntryRests /\ db' = db /\ ~loads["items"][i].passed
          /\ Done(TreeOps) => Done(TreeOps)'
          /\ Done(DescriptionOps) => Done(DescriptionOps)'
      BY <1>2, <1>4, <1>r, <2>4, <2>8
    <3>3. Done(TreeOps)' \/ ItemsSettled(s, rest["items"], db')
      <4>1. CASE ItemsSettled(store, loads["items"], db)
        <5>1. ItemsSettled(s, LeftOf(loads["items"], i), db)
          BY <1>4, <1>s, <2>1, <2>5, <3>2, <4>1, ItemsAnswerSettles
        <5> QED
          BY <3>1, <3>2, <5>1
      <4> QED
        BY <3>2, <4>1 DEF TreeRests
    <3>4. Done(DescriptionOps)' \/ DescriptionsSettled(s, rest["descriptions"], db')
      BY <2>5, <3>1, <3>2 DEF EntryRests, DescriptionsSettled
    <3>5. PreviewRuns(s, fresh)
      BY <2>3 DEF PreviewRuns
    <3> QED
      BY <2>5, <3>1, <3>2, <3>3, <3>4, <3>5
  <2>9. fresh \cap {"mount", "items"} # {}
    BY <2>3
  <2> QED
    BY <1>1, <2>4, <2>7, <2>8, <2>9
(* Neither the path nor the items.                                         *)
<1>5. ASSUME kind \in {"preview", "descriptions"}
      PROVE  rest["items"] = loads["items"] /\ rest["root"] = loads["root"]
  BY <1>5, <1>f DEF Kinds
<1>6. ASSUME NEW s, NEW fresh, Applied(kind, i, s, fresh),
             kind \in {"preview", "descriptions"}, IsStore(s),
             s.items = store.items, s.entry = store.entry, s.path = store.path,
             s.treeCursor = store.treeCursor, s.descriptionCursor = store.descriptionCursor,
             mounted /\ mishaps' = {} =>
               /\ Done(DescriptionOps)
                    \/ DescriptionsSettled(s, rest["descriptions"], db)
               /\ \/ Done(WriteOps) \/ loads["items"] # <<>> \/ loads["root"] # <<>>
                  \/ PreviewSettled(s, rest["preview"], db)
      PROVE  PageRests'
  <2>1. StoreFits(s)
    BY <1>6, <1>s DEF StoreFits
  <2>2. mounted => CursorFits(s)
    BY <1>6, <1>m DEF CursorFits
  <2>3. ASSUME mounted
        PROVE  Rests(s, fresh, rest)
    <3> SUFFICES ASSUME mishaps' = {}
                 PROVE  /\ s.path = <<>> => rest["root"] # <<>>
                        /\ Done(TreeOps)' \/ ItemsSettled(s, rest["items"], db')
                        /\ Done(DescriptionOps)'
                             \/ DescriptionsSettled(s, rest["descriptions"], db')
                        /\ \/ Done(WriteOps)' \/ rest["items"] # <<>> \/ rest["root"] # <<>>
                           \/ PreviewSettled(s, rest["preview"], db')
      BY Zenon DEF Rests
    <3>1. rest["items"] = loads["items"] /\ rest["root"] = loads["root"]
      BY <1>5, <1>6
    <3>2. mishaps = {} /\ db' = db
          /\ (Done(TreeOps) => Done(TreeOps)')
          /\ (Done(DescriptionOps) => Done(DescriptionOps)')
          /\ (Done(WriteOps) => Done(WriteOps)')
      BY <1>2, <1>6
    <3>3. (store.path = <<>> => loads["root"] # <<>>) /\ TreeRests
      BY <1>r, <2>3, <3>2
    <3>4. Done(TreeOps) \/ ItemsSettled(s, rest["items"], db)
      BY <1>6, <3>1, <3>3 DEF TreeRests, ItemsSettled, CurrentFolder
    <3>5. /\ Done(DescriptionOps)
               \/ DescriptionsSettled(s, rest["descriptions"], db)
          /\ \/ Done(WriteOps) \/ loads["items"] # <<>> \/ loads["root"] # <<>>
             \/ PreviewSettled(s, rest["preview"], db)
      BY <1>6, <2>3
    <3>6. s.path = <<>> => rest["root"] # <<>>
      BY <1>6, <3>1, <3>3
    <3> QED
      BY <3>1, <3>2, <3>4, <3>5, <3>6
  <2> QED
    BY <1>1, <1>6, <2>1, <2>2, <2>3
<1>7. ASSUME Dropped(kind, i), kind \in {"preview", "descriptions"},
             mounted /\ mishaps' = {} =>
               /\ Done(DescriptionOps)
                    \/ DescriptionsSettled(store, rest["descriptions"], db)
               /\ \/ Done(WriteOps) \/ loads["items"] # <<>> \/ loads["root"] # <<>>
                  \/ PreviewSettled(store, rest["preview"], db)
      PROVE  PageRests'
  <2>1. loads' = rest /\ UNCHANGED <<db, store, mishaps>> /\ UNCHANGED mounted
        /\ UNCHANGED calls
    BY <1>7, <1>w, Zenon DEF Dropped
  <2>2. PageInv'
    BY <1>f, <1>s, <2>1 DEF PageInv, StoreFits, IsStore, QueuesFit, PlacesFit, TargetsFit
  <2>3. rest["items"] = loads["items"] /\ rest["root"] = loads["root"]
    BY <1>5, <1>7
  <2>4. ASSUME mounted'
        PROVE  /\ CursorFits(store')
               /\ mishaps' = {} =>
                    /\ store'.path = <<>> => loads'["root"] # <<>>
                    /\ Done(TreeOps)' \/ ItemsSettled(store', loads'["items"], db')
                    /\ Done(DescriptionOps)'
                         \/ DescriptionsSettled(store', loads'["descriptions"], db')
                    /\ \/ Done(WriteOps)' \/ loads'["items"] # <<>> \/ loads'["root"] # <<>>
                       \/ PreviewSettled(store', loads'["preview"], db')
    <3>1. Done(TreeOps)' = Done(TreeOps) /\ Done(DescriptionOps)' = Done(DescriptionOps)
          /\ Done(WriteOps)' = Done(WriteOps)
      BY <2>1 DEF Done
    <3>2. mounted /\ CursorFits(store) /\ store' = store /\ db' = db /\ mishaps' = mishaps
      BY <1>m, <2>1, <2>4
    <3>3. mishaps = {} => (store.path = <<>> => loads["root"] # <<>>) /\ TreeRests
      BY <1>r, <3>2
    <3> QED
      BY <1>7, <2>1, <2>3, <3>1, <3>2, <3>3 DEF TreeRests
  <2>5. RestInv'
    BY <2>4 DEF RestInv, TreeRests, EntryRests, PreviewRests, CursorFits
  <2> QED
    BY <2>2, <2>5 DEF PageRests
<1>8. CASE kind = "preview" /\ PreviewAnswered(i)
  <2>1. PICK preview :
          preview = [id |-> loads["preview"][i].of, rows |-> Answer("preview", i)]
    OBVIOUS
  <2>2. PICK s : s = [store EXCEPT !.preview = preview]
    OBVIOUS
  <2>3. \/ PreviewWanted(loads["preview"][i]) /\ Applied(kind, i, s, {})
        \/ ~PreviewWanted(loads["preview"][i]) /\ Dropped(kind, i)
    BY <1>8, <2>1, <2>2, Zenon DEF PreviewAnswered
  <2>4. IsStore(s) /\ s.items = store.items /\ s.descriptions = store.descriptions
        /\ s.entry = store.entry /\ s.path = store.path /\ s.preview = preview
        /\ s.treeCursor = store.treeCursor /\ s.descriptionCursor = store.descriptionCursor
    BY <1>s, <2>2 DEF IsStore
  <2>5. rest["descriptions"] = loads["descriptions"]
        /\ rest["preview"] = LeftOf(loads["preview"], i)
    BY <1>f, <1>8 DEF Kinds
  <2>6. CASE PreviewWanted(loads["preview"][i]) /\ Applied(kind, i, s, {})
    <3>1. ASSUME mounted, mishaps' = {}
          PROVE  /\ Done(DescriptionOps)
                      \/ DescriptionsSettled(s, rest["descriptions"], db)
                 /\ \/ Done(WriteOps) \/ loads["items"] # <<>> \/ loads["root"] # <<>>
                    \/ PreviewSettled(s, rest["preview"], db)
      <4>1. EntryRests /\ PreviewRests /\ ~loads["preview"][i].passed
        BY <1>2, <1>8, <1>r, <2>6, <3>1
      <4>2. CASE PreviewSettled(store, loads["preview"], db)
        <5>1. PreviewSettled(s, LeftOf(loads["preview"], i), db)
          BY <1>8, <1>m, <1>s, <2>1, <2>4, <2>6, <3>1, <4>1, <4>2, PreviewAnswerSettles
        <5>2. Done(DescriptionOps) \/ DescriptionsSettled(s, rest["descriptions"], db)
          BY <2>4, <2>5, <4>1 DEF EntryRests, DescriptionsSettled
        <5> QED
          BY <2>5, <5>1, <5>2
      <4>3. Done(DescriptionOps) \/ DescriptionsSettled(s, rest["descriptions"], db)
        BY <2>4, <2>5, <4>1 DEF EntryRests, DescriptionsSettled
      <4> QED
        BY <4>1, <4>2, <4>3 DEF PreviewRests
    <3>2. kind \in {"preview", "descriptions"}
      BY <1>8
    <3> QED
      BY <1>6, <2>4, <2>6, <3>1, <3>2
  <2>7. CASE ~PreviewWanted(loads["preview"][i]) /\ Dropped(kind, i)
    <3>1. ASSUME mounted, mishaps' = {}
          PROVE  /\ Done(DescriptionOps)
                      \/ DescriptionsSettled(store, rest["descriptions"], db)
                 /\ \/ Done(WriteOps) \/ loads["items"] # <<>> \/ loads["root"] # <<>>
                    \/ PreviewSettled(store, rest["preview"], db)
      <4>1. EntryRests /\ PreviewRests
        BY <1>r, <2>7, <3>1, Zenon DEF Dropped
      <4>2. CASE PreviewSettled(store, loads["preview"], db)
        <5>1. PreviewSettled(store, LeftOf(loads["preview"], i), db)
          BY <1>8, <1>m, <1>s, <2>7, <3>1, <4>2, PreviewAnswerSettles
        <5> QED
          BY <2>5, <4>1, <5>1 DEF EntryRests
      <4> QED
        BY <2>5, <4>1, <4>2 DEF PreviewRests, EntryRests
    <3>2. kind \in {"preview", "descriptions"}
      BY <1>8
    <3> QED
      BY <1>7, <2>7, <3>1, <3>2
  <2> QED
    BY <2>3, <2>6, <2>7
<1>9. CASE kind = "descriptions" /\ DescriptionsAnswered(i)
  <2>1. PICK rows : rows = Answer("descriptions", i)
    OBVIOUS
  <2>2. PICK s : s = [store EXCEPT !.descriptions = rows]
    OBVIOUS
  <2>3. \/ loads["descriptions"][i].of = store.entry /\ Applied(kind, i, s, {"answer"})
        \/ loads["descriptions"][i].of # store.entry /\ Dropped(kind, i)
    BY <1>9, <2>1, <2>2, Zenon DEF DescriptionsAnswered, DescriptionsWanted
  <2>4. IsStore(s) /\ s.items = store.items /\ s.descriptions = rows
        /\ s.entry = store.entry /\ s.path = store.path /\ s.preview = store.preview
        /\ s.treeCursor = store.treeCursor /\ s.descriptionCursor = store.descriptionCursor
    BY <1>s, <2>2 DEF IsStore
  <2>5. rest["preview"] = loads["preview"]
        /\ rest["descriptions"] = LeftOf(loads["descriptions"], i)
    BY <1>f, <1>9 DEF Kinds
  <2>6. kind \in {"preview", "descriptions"}
    BY <1>9
  <2>7. CASE loads["descriptions"][i].of = store.entry /\ Applied(kind, i, s, {"answer"})
    <3>1. ASSUME mounted, mishaps' = {}
          PROVE  /\ Done(DescriptionOps)
                      \/ DescriptionsSettled(s, rest["descriptions"], db)
                 /\ \/ Done(WriteOps) \/ loads["items"] # <<>> \/ loads["root"] # <<>>
                    \/ PreviewSettled(s, rest["preview"], db)
      <4>1. EntryRests /\ PreviewRests /\ ~loads["descriptions"][i].passed
        BY <1>2, <1>9, <1>r, <2>7, <3>1
      <4>2. Done(DescriptionOps) \/ DescriptionsSettled(s, rest["descriptions"], db)
        <5>1. CASE DescriptionsSettled(store, loads["descriptions"], db)
          <6>1. DescriptionsSettled(s, LeftOf(loads["descriptions"], i), db)
            BY <1>9, <1>s, <2>1, <2>4, <2>7, <4>1, <5>1, DescriptionsAnswerSettles
          <6> QED
            BY <2>5, <6>1
        <5> QED
          BY <4>1, <5>1 DEF EntryRests
      <4>3. PreviewSettled(store, loads["preview"], db)
              => PreviewSettled(s, rest["preview"], db)
        BY <2>4, <2>5 DEF PreviewSettled, PreviewOf, TreeItem
      <4> QED
        BY <4>1, <4>2, <4>3 DEF PreviewRests
    <3> QED
      BY <1>6, <2>4, <2>6, <2>7, <3>1
  <2>8. CASE loads["descriptions"][i].of # store.entry /\ Dropped(kind, i)
    <3>1. ASSUME mounted, mishaps' = {}
          PROVE  /\ Done(DescriptionOps)
                      \/ DescriptionsSettled(store, rest["descriptions"], db)
                 /\ \/ Done(WriteOps) \/ loads["items"] # <<>> \/ loads["root"] # <<>>
                    \/ PreviewSettled(store, rest["preview"], db)
      <4>1. EntryRests /\ PreviewRests
        BY <1>r, <2>8, <3>1, Zenon DEF Dropped
      <4>2. CASE DescriptionsSettled(store, loads["descriptions"], db)
        <5>1. DescriptionsSettled(store, LeftOf(loads["descriptions"], i), db)
          BY <1>9, <1>s, <2>8, <4>2, DescriptionsAnswerSettles
        <5> QED
          BY <2>5, <4>1, <5>1 DEF PreviewRests
      <4> QED
        BY <2>5, <4>1, <4>2 DEF PreviewRests, EntryRests
    <3> QED
      BY <1>7, <2>6, <2>8, <3>1
  <2> QED
    BY <2>3, <2>7, <2>8
<1> QED
  BY <1>3, <1>4, <1>8, <1>9, Zenon DEF AnswerLoad

(* Loads that read, and loads that fail. *)

LEMMA RowsReadFit ==
  ASSUME IsDb(db), NEW kind \in Kinds, NEW of
  PROVE  /\ RowsRead(kind, of) \in Seq(AnyRow)
         /\ kind = "items" => RowsRead(kind, of) \in Seq(ItemRow)
<1>1. ItemsIn(db, of) \in Seq(ItemRow) /\ ItemRow \subseteq AnyRow
  BY ItemsInIs DEF ItemRow, AnyRow
<1>2. DescriptionsOf(db, of) \in Seq(RowsWith(db, of)) /\ RowsWith(db, of) \subseteq AnyRow
  BY DescriptionsOfIs DEF RowsWith, DescriptionRow, AnyRow
<1>3. /\ ItemsIn(db, of) \in Seq(AnyRow) /\ DescriptionsOf(db, of) \in Seq(AnyRow)
      /\ <<>> \in Seq(AnyRow)
  BY <1>1, <1>2, SeqMonotonic, EmptySeq
<1> QED
  BY <1>1, <1>3 DEF RowsRead, Kinds

LEMMA ReadLeaves ==
  ASSUME NEW kind, NEW queue \in Seq(LoadOf(kind)), NEW i \in DOMAIN queue,
         NEW read, read.of = queue[i].of, read.cursor = queue[i].cursor,
         read.passed = queue[i].passed,
         NEW next, next = [queue EXCEPT ![i] = read]
  PROVE  /\ \A wants : OnePassed(queue, wants) => OnePassed(next, wants)
         /\ \A wants : NoneAsks(queue, wants) => NoneAsks(next, wants)
         /\ queue # <<>> /\ next # <<>>
         /\ Last(next) = IF i = Len(queue) THEN read ELSE Last(queue)
<1>1. DOMAIN queue = 1..Len(queue) /\ Len(queue) \in Nat /\ DOMAIN next = DOMAIN queue
  BY LenProperties
<1>2. \A j \in DOMAIN queue : next[j] = IF j = i THEN read ELSE queue[j]
  OBVIOUS
<1>3. ASSUME NEW wants, NEW j \in DOMAIN queue
      PROVE  (Asks(next[j], wants) <=> Asks(queue[j], wants))
             /\ (next[j].passed <=> queue[j].passed)
  BY <1>2 DEF Asks
<1>4. \A wants : OnePassed(queue, wants) => OnePassed(next, wants)
  BY <1>1, <1>3 DEF OnePassed
<1>5. \A wants : NoneAsks(queue, wants) => NoneAsks(next, wants)
  BY <1>1, <1>3 DEF NoneAsks
<1>6. Len(next) = Len(queue) /\ Len(queue) \in DOMAIN queue
  BY <1>1
<1>7. queue # <<>> /\ next # <<>>
  BY <1>1
<1> QED
  BY <1>2, <1>4, <1>5, <1>6, <1>7 DEF Last

LEMMA ReadRests ==
  ASSUME ListedInv, PageRests, NEW kind \in Kinds, NEW i \in DOMAIN loads[kind],
         Read(kind, i)
  PROVE  PageRests'
<1>s. /\ StoreFits(store) /\ QueuesFit(loads) /\ PlacesFit(db) /\ TargetsFit(calls)
      /\ IsLoads(loads, db) /\ IsDb(db)
  BY DEF PageRests, PageInv, ListedInv
<1>1. PICK queue : queue = loads[kind] /\ queue \in Seq(LoadOf(kind))
  BY <1>s DEF QueuesFit
<1>2. PICK load \in LoadOf(kind) : load = queue[i]
  BY <1>1, ElementOfSeq, LenProperties
<1>3. PICK rows : rows = RowsRead(kind, load.of)
  OBVIOUS
<1>4. PICK read : read = [load EXCEPT !.read = TRUE, !.rows = rows]
  OBVIOUS
<1>5. PICK next : next = [queue EXCEPT ![i] = read]
  OBVIOUS
<1>6. /\ loads' = [loads EXCEPT ![kind][i].read = TRUE, ![kind][i].rows = rows]
      /\ UNCHANGED <<db, store, mounted, calls, mishaps>>
  BY <1>1, <1>2, <1>3, Zenon DEF Read
<1>7. loads' = [k \in Kinds |-> IF k = kind THEN next ELSE loads[k]]
  <2>1. loads = [k \in Kinds |-> loads[k]]
    BY <1>s, Zenon DEF IsLoads
  <2>2. next = [queue EXCEPT ![i].read = TRUE, ![i].rows = rows]
    BY <1>1, <1>2, <1>4, <1>5
  <2> QED
    BY <1>1, <1>6, <2>1, <2>2
<1>8. rows \in Seq(AnyRow) /\ (kind = "items" => rows \in Seq(ItemRow))
  BY <1>s, <1>3, RowsReadFit
<1>9. read \in LoadOf(kind) /\ read.of = load.of /\ read.cursor = load.cursor
      /\ read.passed = load.passed /\ read.read = TRUE /\ read.rows = rows
  BY <1>4, <1>8 DEF LoadOf, LoadRecord
<1>10. next \in Seq(LoadOf(kind))
  BY <1>1, <1>5, <1>9, LenProperties, ExceptSeq
<1>11. PageInv'
  <2>1. QueuesFit(loads')
    BY <1>s, <1>7, <1>10 DEF QueuesFit
  <2> QED
    BY <1>s, <1>6, <2>1 DEF PageInv, StoreFits, IsStore, QueuesFit, PlacesFit, TargetsFit
<1>12. /\ \A wants : OnePassed(queue, wants) => OnePassed(next, wants)
       /\ \A wants : NoneAsks(queue, wants) => NoneAsks(next, wants)
       /\ queue # <<>> /\ next # <<>>
       /\ Last(next) = IF i = Len(queue) THEN read ELSE Last(queue)
  BY <1>1, <1>2, <1>5, <1>9, ReadLeaves
<1>13. i = Len(queue) => Last(queue) = load
  BY <1>2 DEF Last
<1>14. ItemsSettled(store, loads["items"], db) => ItemsSettled(store, loads'["items"], db)
  <2>1. CASE kind # "items"
    <3>1. loads'["items"] = loads["items"]
      BY <1>7, <2>1 DEF Kinds
    <3> QED
      BY <3>1
  <2>2. CASE kind = "items"
    <3>1. loads["items"] = queue /\ loads'["items"] = next
      BY <1>1, <1>7, <2>2 DEF Kinds
    <3>2. rows = ItemsIn(db, load.of)
      BY <1>3, <2>2 DEF RowsRead
    <3> QED
      BY <1>9, <1>12, <1>13, <3>1, <3>2 DEF ItemsSettled, Tells
  <2> QED
    BY <2>1, <2>2
<1>15. DescriptionsSettled(store, loads["descriptions"], db) =>
         DescriptionsSettled(store, loads'["descriptions"], db)
  <2>1. CASE kind # "descriptions"
    <3>1. loads'["descriptions"] = loads["descriptions"]
      BY <1>7, <2>1 DEF Kinds
    <3> QED
      BY <3>1
  <2>2. CASE kind = "descriptions"
    <3>1. loads["descriptions"] = queue /\ loads'["descriptions"] = next
      BY <1>1, <1>7, <2>2 DEF Kinds
    <3>2. rows = DescriptionsOf(db, load.of)
      BY <1>3, <2>2 DEF RowsRead
    <3> QED
      BY <1>9, <1>12, <1>13, <3>1, <3>2 DEF DescriptionsSettled, AreOf
  <2> QED
    BY <2>1, <2>2
<1>16. PreviewSettled(store, loads["preview"], db) =>
         PreviewSettled(store, loads'["preview"], db)
  <2>1. CASE kind # "preview"
    <3>1. loads'["preview"] = loads["preview"]
      BY <1>7, <2>1 DEF Kinds
    <3> QED
      BY <3>1
  <2>2. CASE kind = "preview"
    <3>1. loads["preview"] = queue /\ loads'["preview"] = next
      BY <1>1, <1>7, <2>2 DEF Kinds
    <3>2. rows = PreviewRead(db, load.of)
      BY <1>3, <2>2 DEF RowsRead, PreviewRead
    <3> QED
      BY <1>9, <1>12, <1>13, <3>1, <3>2 DEF PreviewSettled, Tells
  <2> QED
    BY <2>1, <2>2
<1>17. /\ loads["items"] # <<>> => loads'["items"] # <<>>
       /\ loads["root"] # <<>> => loads'["root"] # <<>>
  BY <1>7, <1>12 DEF Kinds
<1>18. ASSUME mounted'
       PROVE  /\ CursorFits(store')
              /\ mishaps' = {} =>
                   /\ store'.path = <<>> => loads'["root"] # <<>>
                   /\ Done(TreeOps)' \/ ItemsSettled(store', loads'["items"], db')
                   /\ Done(DescriptionOps)'
                        \/ DescriptionsSettled(store', loads'["descriptions"], db')
                   /\ \/ Done(WriteOps)' \/ loads'["items"] # <<>> \/ loads'["root"] # <<>>
                      \/ PreviewSettled(store', loads'["preview"], db')
  <2>1. Done(TreeOps)' = Done(TreeOps) /\ Done(DescriptionOps)' = Done(DescriptionOps)
        /\ Done(WriteOps)' = Done(WriteOps)
    BY <1>6 DEF Done
  <2>2. /\ CursorFits(store)
        /\ mishaps = {} =>
             /\ store.path = <<>> => loads["root"] # <<>>
             /\ TreeRests /\ EntryRests /\ PreviewRests
    BY <1>6, <1>18 DEF PageRests, RestInv
  <2>3. store' = store /\ db' = db /\ mishaps' = mishaps
    BY <1>6
  <2> QED
    BY <1>14, <1>15, <1>16, <1>17, <2>1, <2>2, <2>3 DEF TreeRests, EntryRests, PreviewRests
<1>19. RestInv'
  BY <1>18 DEF RestInv, TreeRests, EntryRests, PreviewRests, CursorFits
<1> QED
  BY <1>11, <1>19 DEF PageRests

LEMMA FailureRests ==
  ASSUME ListedInv, PageRests, NEW kind \in Kinds, NEW i \in DOMAIN loads[kind],
         LoadFails(kind, i)
  PROVE  PageRests'
<1>s. /\ StoreFits(store) /\ QueuesFit(loads) /\ PlacesFit(db) /\ TargetsFit(calls)
      /\ IsLoads(loads, db)
  BY DEF PageRests, PageInv, ListedInv
<1>1. PICK left : left = RemoveAt(loads[kind], i)
  OBVIOUS
<1>2. loads = [k \in Kinds |-> loads[k]]
  BY <1>s, Zenon DEF IsLoads
<1>3. /\ loads' = [loads EXCEPT ![kind] = left]
      /\ UNCHANGED <<db, store, mounted, calls>>
      /\ mishaps' = mishaps \cup {"failed"}
  BY <1>1, <1>2, Zenon DEF LoadFails
<1>4. left \in Seq(LoadOf(kind))
  <2>1. loads[kind] \in Seq(LoadOf(kind))
    BY <1>s DEF QueuesFit
  <2> QED
    BY <1>1, <2>1, RemoveShape
<1>5. QueuesFit(loads')
  BY <1>s, <1>2, <1>3, <1>4 DEF QueuesFit
<1>6. PageInv'
  BY <1>s, <1>3, <1>5 DEF PageInv, StoreFits, IsStore, QueuesFit, PlacesFit, TargetsFit
<1>7. mishaps' # {} /\ (mounted' => CursorFits(store'))
  BY <1>3 DEF PageRests, RestInv
<1>8. RestInv'
  BY <1>7 DEF RestInv, CursorFits
<1> QED
  BY <1>6, <1>8 DEF PageRests

(* Writes that are performed, and continued. *)

LEMMA AnsweredCallIs ==
  ASSUME IsCalls(calls), TargetsFit(calls), NEW i \in DOMAIN calls,
         calls[i].state = "asked", NEW state, calls' = [calls EXCEPT ![i].state = state]
  PROVE  /\ TargetsFit(calls')
         /\ Done(TreeOps) => Done(TreeOps)'
         /\ Done(DescriptionOps) => Done(DescriptionOps)'
         /\ state = "done" /\ calls[i].op \in TreeOps => Done(TreeOps)'
         /\ state = "done" /\ calls[i].op \in DescriptionOps => Done(DescriptionOps)'
<1>1. PICK call : call = calls[i] /\ IsCall(call)
  BY DEF IsCalls, ToSet
<1>2. PICK next : next = [call EXCEPT !.state = state]
  OBVIOUS
<1>3. next.op = call.op /\ next.target = call.target /\ next.state = state
  BY <1>1, <1>2 DEF IsCall
<1>4. calls' = [calls EXCEPT ![i] = next]
  BY <1>1, <1>2
<1>5. /\ DOMAIN calls' = DOMAIN calls
      /\ calls'[i] = next /\ \A j \in DOMAIN calls \ {i} : calls'[j] = calls[j]
  <2>1. calls = [j \in DOMAIN calls |-> calls[j]]
    <3>1. calls \in Seq(ToSet(calls))
      BY DEF IsCalls
    <3> QED
      BY <3>1
  <2> QED
    BY <1>4, <2>1
<1>6. TargetsFit(calls')
  BY <1>1, <1>3, <1>5 DEF TargetsFit, IsTarget
<1>7. ASSUME NEW ops, \E j \in DOMAIN calls : calls[j].state = "done" /\ calls[j].op \in ops
      PROVE  \E j \in DOMAIN calls' : calls'[j].state = "done" /\ calls'[j].op \in ops
  <2>1. PICK j \in DOMAIN calls : calls[j].state = "done" /\ calls[j].op \in ops
    BY <1>7
  <2>2. j # i
    BY <2>1
  <2> QED
    BY <1>5, <2>1, <2>2
<1>8. ASSUME NEW ops, state = "done", calls[i].op \in ops
      PROVE  \E j \in DOMAIN calls' : calls'[j].state = "done" /\ calls'[j].op \in ops
  BY <1>1, <1>3, <1>5, <1>8
<1> QED
  BY <1>6, <1>7, <1>8 DEF Done, TreeOps, DescriptionOps

LEMMA PerformRests ==
  ASSUME ListedInv, PageRests, NEW i \in DOMAIN calls, Perform(i)
  PROVE  PageRests'
<1>s. /\ StoreFits(store) /\ QueuesFit(loads) /\ PlacesFit(db) /\ TargetsFit(calls)
      /\ IsLoads(loads, db) /\ IsDb(db) /\ IsCalls(calls) /\ ListsOpenEntry(store, db)
  BY DEF PageRests, PageInv, ListedInv
<1>1. calls[i].state = "asked" /\ UNCHANGED <<store, mounted, loads, mishaps>>
  BY Zenon DEF Perform
<1>2. CASE UNCHANGED db /\ calls' = [calls EXCEPT ![i].state = "failed"]
  <2>1. TargetsFit(calls') /\ (Done(TreeOps) => Done(TreeOps)')
        /\ (Done(DescriptionOps) => Done(DescriptionOps)')
    BY <1>1, <1>2, <1>s, AnsweredCallIs
  <2> QED
    BY <1>1, <1>2, <2>1, RestKept
<1>3. CASE db' \in Outcomes(db, calls[i]) /\ calls' = [calls EXCEPT ![i].state = "done"]
  <2>1. PICK call : call = calls[i] /\ call.op \in WriteOps /\ IsTarget(call)
    BY <1>s DEF IsCalls, IsCall, ToSet, TargetsFit
  <2>2. PICK e : e = db' /\ e \in Outcomes(db, call)
    BY <1>3, <2>1
  <2>3. /\ PlacesFit(e)
        /\ call.op \in TreeOps => \E gone : TakesAlong(db, e, gone)
        /\ call.op \notin TreeOps =>
             e.place = db.place /\ \A id \in Items : e.text[id] = db.text[id]
    BY <1>s, <2>1, <2>2, OutcomesTouch
  <2>4. /\ TargetsFit(calls')
        /\ Done(TreeOps) => Done(TreeOps)'
        /\ Done(DescriptionOps) => Done(DescriptionOps)'
        /\ call.op \in TreeOps => Done(TreeOps)'
        /\ call.op \in DescriptionOps => Done(DescriptionOps)'
    BY <1>1, <1>3, <1>s, <2>1, AnsweredCallIs
  <2>5. call.op \in TreeOps \/ call.op \in DescriptionOps
    BY <2>1 DEF WriteOps, DescriptionOps
  <2>6. Done(WriteOps)'
    BY <2>4, <2>5 DEF Done, WriteOps, DescriptionOps
  <2>7. PageInv'
    BY <1>1, <1>s, <2>2, <2>3, <2>4
       DEF PageInv, StoreFits, IsStore, QueuesFit, PlacesFit, TargetsFit
  <2>8. ItemsSettled(store, loads["items"], db) =>
          Done(TreeOps)' \/ ItemsSettled(store, loads["items"], e)
    <3>1. CASE call.op \in TreeOps
      BY <2>4, <3>1
    <3>2. CASE call.op \notin TreeOps
      <4>1. ItemsIn(e, CurrentFolder(store)) = ItemsIn(db, CurrentFolder(store))
        BY <2>3, <3>2, ItemsInSame
      <4> QED
        BY <4>1 DEF ItemsSettled
    <3> QED
      BY <3>1, <3>2
  <2>9. DescriptionsSettled(store, loads["descriptions"], db) =>
          Done(DescriptionOps)' \/ DescriptionsSettled(store, loads["descriptions"], e)
    <3>1. CASE call.op \in DescriptionOps
      BY <2>4, <3>1
    <3>2. CASE call.op \in TreeOps
      <4> SUFFICES ASSUME DescriptionsSettled(store, loads["descriptions"], db),
                          store.entry # None
                   PROVE  DescriptionsSettled(store, loads["descriptions"], e)
        BY DEF DescriptionsSettled
      <4>1. PICK gone : TakesAlong(db, e, gone)
        BY <2>3, <3>2
      <4>2. store.entry \in Entries /\ store.descriptions \in Seq(DescriptionRow)
        <5>1. store.descriptions \in Seq(RowsWith(db, store.entry)) /\ store.entry \in Entries
          BY <1>s DEF ListsOpenEntry
        <5>2. RowsWith(db, store.entry) \subseteq DescriptionRow
          BY DEF RowsWith
        <5> QED
          BY <5>1, <5>2, SeqMonotonic
      <4>3. PICK queue : queue = loads["descriptions"] /\ queue \in Seq(LoadsOf(db))
        BY <1>s DEF IsLoads
      <4>4. queue # <<>> => Last(queue).rows \in Seq(DescriptionRow)
        <5>1. queue # <<>> => Last(queue) \in LoadsOf(db)
          BY <4>3, ElementOfSeq, LenProperties, EmptySeq DEF Last
        <5> QED
          BY <5>1 DEF LoadsOf, DescriptionLoad
      <4>5. ASSUME NEW rows \in Seq(DescriptionRow), AreOf(rows, db, store.entry)
            PROVE  AreOf(rows, e, store.entry)
        BY <1>s, <4>1, <4>2, <4>5, AreOfKept
      <4> QED
        BY <4>2, <4>3, <4>4, <4>5 DEF DescriptionsSettled
    <3> QED
      BY <2>5, <3>1, <3>2
  <2>10. ASSUME mounted'
         PROVE  /\ CursorFits(store')
                /\ mishaps' = {} =>
                     /\ store'.path = <<>> => loads'["root"] # <<>>
                     /\ Done(TreeOps)' \/ ItemsSettled(store', loads'["items"], db')
                     /\ Done(DescriptionOps)'
                          \/ DescriptionsSettled(store', loads'["descriptions"], db')
                     /\ Done(WriteOps)'
    <3>1. /\ CursorFits(store)
          /\ mishaps = {} =>
               /\ store.path = <<>> => loads["root"] # <<>>
               /\ TreeRests /\ EntryRests
      BY <1>1, <2>10 DEF PageRests, RestInv
    <3>2. store' = store /\ loads' = loads /\ mishaps' = mishaps /\ db' = e
      BY <1>1, <2>2
    <3> QED
      BY <2>4, <2>6, <2>8, <2>9, <3>1, <3>2 DEF TreeRests, EntryRests
  <2>11. RestInv'
    BY <2>10 DEF RestInv, TreeRests, EntryRests, PreviewRests, CursorFits
  <2> QED
    BY <2>7, <2>11 DEF PageRests
<1> QED
  BY <1>2, <1>3, Zenon DEF Perform

LEMMA FinishedCallIs ==
  ASSUME IsCalls(calls), TargetsFit(calls), NEW i \in DOMAIN calls,
         calls' = RemoveAt(calls, i)
  PROVE  /\ TargetsFit(calls')
         /\ \A j \in DOMAIN calls \ {i} : \E k \in DOMAIN calls' : calls'[k] = calls[j]
<1>1. PICK S : S = ToSet(calls)
  OBVIOUS
<1>2. calls \in Seq(S)
  BY <1>1 DEF IsCalls
<1>3. /\ calls' \in Seq(S) /\ Len(calls') = Len(calls) - 1
      /\ \A j \in DOMAIN calls' :
           LET k == IF j < i THEN j ELSE j + 1
           IN k \in DOMAIN calls \ {i} /\ calls'[j] = calls[k]
  BY <1>2, RemoveShape
<1>4. TargetsFit(calls')
  BY <1>3 DEF TargetsFit
<1>5. DOMAIN calls = 1..Len(calls) /\ Len(calls) \in Nat /\ DOMAIN calls' = 1..Len(calls) - 1
  BY <1>2, <1>3, LenProperties
<1>6. ASSUME NEW j \in DOMAIN calls \ {i}
      PROVE  \E k \in DOMAIN calls' : calls'[k] = calls[j]
  <2>1. CASE j < i
    <3>1. j \in DOMAIN calls'
      BY <1>5, <2>1
    <3> QED
      BY <1>3, <2>1, <3>1
  <2>2. CASE ~(j < i)
    <3>1. PICK k \in DOMAIN calls' : k = j - 1 /\ ~(k < i) /\ k + 1 = j
      BY <1>5, <2>2
    <3> QED
      BY <1>3, <3>1
  <2> QED
    BY <2>1, <2>2
<1> QED
  BY <1>4, <1>6

LEMMA FinishRests ==
  ASSUME ListedInv, PageRests, NEW i \in DOMAIN calls, FinishCall(i)
  PROVE  PageRests'
<1>s. /\ StoreFits(store) /\ IsStore(store) /\ QueuesFit(loads) /\ TargetsFit(calls)
      /\ PageInv /\ RestInv /\ IsCalls(calls)
  BY DEF PageRests, PageInv, ListedInv, StoreFits
<1>m. mounted => CursorFits(store)
  BY <1>s DEF RestInv
<1>o. TreeOps \cap DescriptionOps = {}
  BY DEF TreeOps, DescriptionOps
<1>1. ASSUME NEW s, NEW fresh, Continued(i, s, fresh), IsStore(s),
             s.items = store.items, s.descriptions = store.descriptions,
             s.preview = store.preview, s.path = store.path, s.entry = store.entry,
             s.treeCursor = store.treeCursor, s.descriptionCursor = store.descriptionCursor,
             \/ calls[i].state # "done"
             \/ calls[i].op \in TreeOps /\ "tree" \in fresh
             \/ calls[i].op \notin TreeOps /\ "description" \in fresh
      PROVE  PageRests'
  <2>1. /\ Render(s, fresh, loads) /\ UNCHANGED <<db, mishaps>> /\ UNCHANGED mounted
        /\ calls' = RemoveAt(calls, i)
    BY <1>1, Zenon DEF Continued
  <2>2. /\ TargetsFit(calls')
        /\ \A j \in DOMAIN calls \ {i} : \E k \in DOMAIN calls' : calls'[k] = calls[j]
    BY <1>s, <2>1, FinishedCallIs
  <2>3. StoreFits(s) /\ (mounted => CursorFits(s)) /\ KeepsLists(s, fresh)
    <3>1. StoreFits(s)
      BY <1>1, <1>s DEF StoreFits
    <3>2. mounted => CursorFits(s)
      BY <1>1, <1>m DEF CursorFits
    <3>3. KeepsLists(s, fresh)
      BY <1>1 DEF KeepsLists
    <3> QED
      BY <3>1, <3>2, <3>3
  <2>4. ASSUME NEW ops, \E j \in DOMAIN calls : calls[j].state = "done" /\ calls[j].op \in ops
        PROVE  \/ \E k \in DOMAIN calls' : calls'[k].state = "done" /\ calls'[k].op \in ops
               \/ calls[i].state = "done" /\ calls[i].op \in ops
    <3>1. PICK j \in DOMAIN calls : calls[j].state = "done" /\ calls[j].op \in ops
      BY <2>4
    <3>2. CASE j = i
      BY <3>1, <3>2
    <3>3. CASE j # i
      BY <2>2, <3>1, <3>3
    <3> QED
      BY <3>2, <3>3
  <2>5. Done(TreeOps) => Done(TreeOps)' \/ s.path = <<>> \/ ItemsRun(s, fresh)
    <3>1. \/ ~Done(TreeOps) \/ Done(TreeOps)'
          \/ calls[i].state = "done" /\ calls[i].op \in TreeOps
      BY <2>4 DEF Done, TreeOps
    <3>2. "tree" \in fresh => s.path = <<>> \/ ItemsRun(s, fresh)
      BY DEF ItemsRun
    <3> QED
      BY <1>1, <3>1, <3>2
  <2>6. Done(DescriptionOps) => Done(DescriptionOps)' \/ DescriptionsRun(s, fresh)
    <3>1. \/ ~Done(DescriptionOps) \/ Done(DescriptionOps)'
          \/ calls[i].state = "done" /\ calls[i].op \in DescriptionOps
      BY <2>4 DEF Done, DescriptionOps
    <3>2. "description" \in fresh => DescriptionsRun(s, fresh)
      BY DEF DescriptionsRun
    <3> QED
      BY <1>1, <1>o, <3>1, <3>2
  <2>7. mounted => Rests(s, fresh, loads)
    BY <1>s, <2>1, <2>3, <2>5, <2>6, ListsRest
  <2>8. UNCHANGED db /\ UNCHANGED mounted
    BY <2>1
  <2> QED
    BY <1>s, <2>1, <2>2, <2>3, <2>7, <2>8, RenderKeepsRest
<1>2. ASSUME NEW pane, NEW fresh,
             Continued(i, [store EXCEPT !.pane = pane, !.interaction = "idle"], fresh),
             \/ calls[i].op \in TreeOps /\ "tree" \in fresh
             \/ calls[i].op \notin TreeOps /\ "description" \in fresh
      PROVE  PageRests'
  <2>1. PICK s : s = [store EXCEPT !.pane = pane, !.interaction = "idle"]
    OBVIOUS
  <2>2. IsStore(s) /\ s.items = store.items /\ s.descriptions = store.descriptions
        /\ s.preview = store.preview /\ s.path = store.path /\ s.entry = store.entry
        /\ s.treeCursor = store.treeCursor /\ s.descriptionCursor = store.descriptionCursor
    BY <1>s, <2>1 DEF IsStore
  <2>3. Continued(i, s, fresh)
    BY <1>2, <2>1
  <2> QED
    BY <1>1, <1>2, <2>2, <2>3
<1>3. CASE FinishTree(i)
  <2>1. calls[i].op \in TreeOps
        /\ Continued(i, [store EXCEPT !.pane = "tree", !.interaction = "idle"], {"tree"})
    BY <1>3, Zenon DEF FinishTree
  <2>2. "tree" \in {"tree"}
    OBVIOUS
  <2> QED
    BY <1>2, <2>1, <2>2, Zenon
<1>4. CASE FinishDescription(i)
  <2>1. calls[i].op \notin TreeOps
        /\ Continued(i, [store EXCEPT !.pane = "description", !.interaction = "idle"],
                     {"description"})
    BY <1>4, Zenon DEF FinishDescription
  <2>2. "description" \in {"description"}
    OBVIOUS
  <2> QED
    BY <1>2, <2>1, <2>2, Zenon
<1>5. CASE FinishFailed(i)
  <2>1. PICK s : s = IF calls[i].op \in {"deleteItem", "deleteDescription"}
                     THEN [store EXCEPT !.interaction = "idle"] ELSE store
    OBVIOUS
  <2>2. Continued(i, s, {}) /\ calls[i].state = "failed"
    BY <1>5, <2>1, Zenon DEF FinishFailed
  <2>3. IsStore(s) /\ s.items = store.items /\ s.descriptions = store.descriptions
        /\ s.preview = store.preview /\ s.path = store.path /\ s.entry = store.entry
        /\ s.treeCursor = store.treeCursor /\ s.descriptionCursor = store.descriptionCursor
    <3>1. CASE s = store
      BY <1>s, <3>1
    <3>2. CASE s = [store EXCEPT !.interaction = "idle"]
      BY <1>s, <3>2 DEF IsStore
    <3> QED
      BY <2>1, <3>1, <3>2
  <2>4. calls[i].state # "done"
    BY <2>2
  <2> QED
    BY <1>1, <2>2, <2>3, <2>4
<1> QED
  BY <1>3, <1>4, <1>5, Zenon DEF FinishCall

(* ShownAtRest: once everything in flight has been answered in the order   *)
(* it was asked, the page shows what the Dictionary holds.                 *)
THEOREM PageShowsDictionary == Spec => []ShownAtRest
<1>1. Init => PageRests
  <2> SUFFICES ASSUME Init
               PROVE  PageRests
    OBVIOUS
  <2>1. StoreFits(store)
    <3>1. /\ store = InitialStore
          /\ <<>> \in Seq(ItemRow) /\ <<>> \in Seq(Folders \cup {Root})
      BY EmptySeq DEF Init
    <3> QED
      BY <3>1 DEF InitialStore, StoreFits, IsStore
  <2>2. PlacesFit(db)
    BY DEF Init, PlacesFit
  <2>3. QueuesFit(loads)
    <3>1. \A kind \in Kinds : loads[kind] = <<>>
      BY DEF Init
    <3> QED
      BY <3>1, EmptySeq DEF QueuesFit
  <2>4. TargetsFit(calls) /\ ~mounted
    BY DEF Init, TargetsFit
  <2> QED
    BY <2>1, <2>2, <2>3, <2>4 DEF PageRests, PageInv, RestInv
<1>2. ListedInv /\ PageRests /\ [Next]_vars => PageRests'
  <2> SUFFICES ASSUME ListedInv, PageRests, [Next]_vars
               PROVE  PageRests'
    OBVIOUS
  <2>1. CASE Key
    BY <2>1, KeyRests
  <2>2. ASSUME NEW kind \in Kinds, NEW i \in DOMAIN loads[kind], Read(kind, i)
        PROVE  PageRests'
    BY <2>2, ReadRests
  <2>3. ASSUME NEW kind \in Kinds, NEW i \in DOMAIN loads[kind], AnswerLoad(kind, i)
        PROVE  PageRests'
    BY <2>3, AnswerRests
  <2>4. ASSUME NEW kind \in Kinds, NEW i \in DOMAIN loads[kind], LoadFails(kind, i)
        PROVE  PageRests'
    BY <2>4, FailureRests
  <2>5. ASSUME NEW i \in DOMAIN calls, Perform(i)
        PROVE  PageRests'
    BY <2>5, PerformRests
  <2>6. ASSUME NEW i \in DOMAIN calls, FinishCall(i)
        PROVE  PageRests'
    BY <2>6, FinishRests
  <2>7. CASE UNCHANGED vars
    <3>1. UNCHANGED <<db, store, loads, mishaps>> /\ UNCHANGED calls /\ UNCHANGED mounted
      BY <2>7 DEF vars
    <3>2. TargetsFit(calls') /\ (Done(TreeOps) => Done(TreeOps)')
          /\ (Done(DescriptionOps) => Done(DescriptionOps)')
      BY <3>1 DEF Done, PageRests, PageInv, TargetsFit
    <3> QED
      BY <3>1, <3>2, RestKept
  <2> QED
    BY <2>1, <2>2, <2>3, <2>4, <2>5, <2>6, <2>7, Zenon DEF Next
<1>3. ListedInv /\ PageRests => ShownAtRest
  <2> SUFFICES ASSUME ListedInv, PageRests, AtRest
               PROVE  ShownAtRest
    BY DEF ShownAtRest
  <2>1. /\ mounted /\ mishaps = {} /\ calls = <<>>
        /\ loads["root"] = <<>> /\ loads["items"] = <<>>
        /\ loads["preview"] = <<>> /\ loads["descriptions"] = <<>>
    BY DEF AtRest, Kinds
  <2>2. \A ops : ~Done(ops)
    BY <2>1 DEF Done
  <2>3. /\ store.path # <<>>
        /\ ItemsSettled(store, <<>>, db)
        /\ DescriptionsSettled(store, <<>>, db)
        /\ PreviewSettled(store, <<>>, db)
    BY <2>1, <2>2 DEF PageRests, RestInv, TreeRests, EntryRests, PreviewRests
  <2>4. \A wants : ~OnePassed(<<>>, wants)
    BY DEF OnePassed
  <2>5. store.items = ItemsIn(db, CurrentFolder(store))
    BY <2>3, <2>4 DEF ItemsSettled
  <2>6. store.entry = None => store.descriptions = <<>>
    BY BrowserAssumption DEF ListedInv, ListsOpenEntry, Items
  <2>7. store.entry # None /\ ~ListsLost => store.descriptions = DescriptionsOf(db, store.entry)
    BY <2>3, <2>4 DEF DescriptionsSettled, AreOf, ListsLost
  <2>8. store.entry = None =>
          store.preview =
            IF TreeItem(store) = NoRow THEN EmptyPreview
            ELSE [id |-> TreeItem(store).id, rows |-> RowsRead("preview", TreeItem(store).id)]
    <3>1. RowsRead("preview", TreeItem(store).id) = PreviewRead(db, TreeItem(store).id)
      BY DEF RowsRead, PreviewRead
    <3> QED
      BY <2>3, <2>4, <3>1 DEF PreviewSettled, PreviewOf
  <2> QED
    BY <2>3, <2>5, <2>6, <2>7, <2>8, Zenon DEF ShownAtRest
<1> QED
  BY <1>1, <1>2, <1>3, ListedInitially, ListedNext, PTL DEF Spec
================================================================================

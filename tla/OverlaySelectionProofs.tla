------------------------ MODULE OverlaySelectionProofs ------------------------
(* Theorems about RecognizedText and OverlaySelection, for every value of  *)
(* their constants.                                                        *)
EXTENDS OverlaySelection, SequenceTheorems, WellFoundedInduction, TLAPS

-----------------------------------------------------------------------------
(* selection.js. *)

Points == [word : Nat, offset : Int]
Ranges == [start : Points, end : Points, whole : BOOLEAN]

(* A set of naturals has a least element. *)
LEMMA LeastOf ==
  ASSUME NEW S \in SUBSET Nat, S # {}
  PROVE  \E least \in S : \A n \in S : least <= n
<1> DEFINE R == OpToRel(<, Nat)
<1>1. IsWellFoundedOn(R, Nat)
  BY NatLessThanWellFounded
<1>2. PICK x \in S : \A y \in S : ~ (<<y, x>> \in R)
  <2> HIDE DEF R
  <2> QED BY <1>1, WFMin, Zenon
<1>3. ASSUME NEW y \in S PROVE x <= y
  <2>1. <<y, x>> \notin R
    BY <1>2
  <2>2. R = {ss \in Nat \X Nat : ss[1] < ss[2]}
    BY DEF OpToRel
  <2>3. <<y, x>> \in R <=> y < x
    BY <2>2
  <2> HIDE DEF R
  <2> QED BY <2>1, <2>3
<1> QED
  BY <1>3

(* Where a function is least, for the first time.                          *)
IsLeastAt(f, k) ==
  /\ k \in DOMAIN f
  /\ \A j \in DOMAIN f : f[k] < f[j] \/ (f[k] = f[j] /\ k <= j)

(* A function from numbers to numbers is so somewhere. *)
LEMMA FirstLeastIs ==
  ASSUME NEW D \in SUBSET Nat, D # {}, NEW f \in [D -> Nat]
  PROVE  IsLeastAt(f, FirstLeast(f))
<1> DEFINE V == {f[i] : i \in D}
<1>1. PICK least \in V : \A n \in V : least <= n
  <2>1. V \in SUBSET Nat /\ V # {}
    OBVIOUS
  <2> HIDE DEF V
  <2> QED BY <2>1, LeastOf
<1> DEFINE I == {i \in D : f[i] = least}
<1>2. PICK first \in I : \A i \in I : first <= i
  <2>1. I \in SUBSET Nat /\ I # {}
    BY <1>1
  <2> HIDE DEF I
  <2> QED BY <2>1, LeastOf
<1>3. ASSUME NEW j \in D
      PROVE  f[first] < f[j] \/ (f[first] = f[j] /\ first <= j)
  <2>1. f[first] = least /\ first \in D /\ f[first] \in Nat /\ f[j] \in Nat
    BY <1>2
  <2>2. least <= f[j]
    BY <1>1
  <2>3. CASE f[j] = least
    BY <2>1, <2>3, <1>2
  <2>4. CASE f[j] # least
    BY <2>1, <2>2, <2>4
  <2> QED BY <2>3, <2>4
<1>4. first \in D /\ DOMAIN f = D
  BY <1>2
<1>5. \E i \in DOMAIN f : \A j \in DOMAIN f : f[i] < f[j] \/ (f[i] = f[j] /\ i <= j)
  BY <1>3, <1>4, Zenon
<1> QED
  BY <1>5, Zenon DEF FirstLeast, IsLeastAt

(* It is one of its arguments. *)
LEMMA FirstLeastIsThere ==
  ASSUME NEW D \in SUBSET Nat, D # {}, NEW f \in [D -> Nat]
  PROVE  FirstLeast(f) \in D
BY FirstLeastIs DEF IsLeastAt

(* The symbols a word is read by are symbols. *)
LEMMA SymbolsAre ==
  ASSUME NEW word \in Words
  PROVE  /\ word.left \in Int /\ word.right \in Int
         /\ usableSymbols(word) \in Seq(Symbols)
         /\ Usable(word) => Len(usableSymbols(word)) \in Nat \ {0}
<1>1. word.symbols \in Seq(Symbols) /\ word.left \in Int /\ word.right \in Int
  BY DEF Words
<1>2. usableSymbols(word) \in {word.symbols, <<>>}
  BY Zenon DEF usableSymbols
<1>3. usableSymbols(word) \in Seq(Symbols)
  <2>1. <<>> \in Seq(Symbols)
    OBVIOUS
  <2> QED BY <1>1, <1>2, <2>1
<1> QED BY <1>1, <1>3 DEF Usable

(* How far a place is from a box. *)
LEMMA DistanceIs ==
  ASSUME NEW box, box.left \in Int, box.right \in Int, NEW x \in Int
  PROVE  distanceToBox(box, x) \in Nat
BY DEF distanceToBox

(* A word that is hit is one of the words. *)
LEMMA HitIs ==
  ASSUME NEW source \in Seq(Words), NEW x \in Int
  PROVE  hit(source, x) \in DOMAIN source \cup {NoWord}
<1> DEFINE near == {i \in DOMAIN source : distanceToBox(source[i], x) <= Near}
           f == [i \in near |-> distanceToBox(source[i], x)]
<1>1. near \in SUBSET Nat /\ near \subseteq DOMAIN source
  OBVIOUS
<1>2. ASSUME NEW i \in near PROVE distanceToBox(source[i], x) \in Nat
  <2>1. source[i] \in Words
    BY <1>1
  <2> QED BY <2>1, SymbolsAre, DistanceIs
<1>3. f \in [near -> Nat]
  BY <1>2
<1>4. near # {} => FirstLeast(f) \in near
  <2> HIDE DEF near, f
  <2> QED BY <1>1, <1>3, FirstLeastIsThere
<1>5. hit(source, x) = IF near = {} THEN NoWord ELSE FirstLeast(f)
  BY Zenon DEF hit
<1> QED
  BY <1>1, <1>4, <1>5

(* An edge of a word that is read by its symbols is a place. *)
LEMMA EdgeIs ==
  ASSUME NEW symbols \in Seq(Symbols), symbols # <<>>, NEW offset \in 0..Len(symbols)
  PROVE  Edge(symbols, offset) \in Int
<1>1. CASE offset = Len(symbols)
  <2>1. offset \in DOMAIN symbols
    BY <1>1
  <2>2. symbols[offset] \in Symbols
    BY <2>1
  <2> QED BY <1>1, <2>2 DEF Edge, Symbols
<1>2. CASE offset # Len(symbols)
  <2>1. offset + 1 \in DOMAIN symbols
    BY <1>2
  <2>2. symbols[offset + 1] \in Symbols
    BY <2>1
  <2> QED BY <1>2, <2>2 DEF Edge, Symbols
<1> QED BY <1>1, <1>2

(* A boundary is at one of the offsets of its word. *)
LEMMA BoundaryIs ==
  ASSUME NEW source \in Seq(Words), NEW w \in DOMAIN source, NEW x \in Int,
         NEW side, NEW nearest
  PROVE  /\ boundary(source, w, x, side, nearest) \in Points
         /\ boundary(source, w, x, side, nearest).word = w
         /\ boundary(source, w, x, side, nearest).offset \in Offsets(source[w])
<1> DEFINE symbols == usableSymbols(source[w])
           gap(offset) == IF x < Edge(symbols, offset) THEN Edge(symbols, offset) - x
                                                       ELSE x - Edge(symbols, offset)
           gaps == [offset \in 0..Len(symbols) |-> gap(offset)]
           away == [i \in DOMAIN symbols |-> distanceToBox(symbols[i], x)]
           offset == IF symbols = <<>> THEN IF side = "start" THEN 0 ELSE 1
                     ELSE IF nearest THEN FirstLeast(gaps)
                     ELSE FirstLeast(away) - IF side = "start" THEN 1 ELSE 0
<1>1. symbols \in Seq(Symbols) /\ Len(symbols) \in Nat /\ DOMAIN symbols = 1..Len(symbols)
  BY SymbolsAre
<1>2. boundary(source, w, x, side, nearest) = [word |-> w, offset |-> offset]
  BY Zenon DEF boundary
<1>3. offset \in Offsets(source[w])
  <2>1. CASE symbols = <<>>
    BY <2>1 DEF Offsets, Usable
  <2>2. CASE symbols # <<>>
    <3>1. Offsets(source[w]) = 0..Len(symbols)
      BY <2>2 DEF Offsets, Usable
    <3>2. FirstLeast(gaps) \in 0..Len(symbols)
      <4>1. ASSUME NEW o \in 0..Len(symbols) PROVE gap(o) \in Nat
        <5>1. Edge(symbols, o) \in Int
          <6> HIDE DEF symbols
          <6> QED BY <1>1, <2>2, EdgeIs
        <5> HIDE DEF symbols
        <5> QED BY <5>1
      <4>2. gaps \in [0..Len(symbols) -> Nat]
        <5> HIDE DEF symbols, gap
        <5> QED BY <4>1
      <4>3. 0..Len(symbols) \in SUBSET Nat /\ 0..Len(symbols) # {}
        <5> HIDE DEF symbols
        <5> QED BY <1>1
      <4> HIDE DEF symbols, gap, gaps
      <4> QED BY <4>2, <4>3, FirstLeastIsThere
    <3>3. FirstLeast(away) \in DOMAIN symbols
      <4>1. ASSUME NEW i \in DOMAIN symbols PROVE distanceToBox(symbols[i], x) \in Nat
        <5>1. symbols[i] \in Symbols
          <6> HIDE DEF symbols
          <6> QED BY <1>1
        <5>2. symbols[i].left \in Int /\ symbols[i].right \in Int
          BY <5>1 DEF Symbols
        <5> QED BY <5>2, DistanceIs
      <4>2. away \in [DOMAIN symbols -> Nat]
        BY <4>1
      <4>3. DOMAIN symbols \in SUBSET Nat /\ DOMAIN symbols # {}
        <5>1. Len(symbols) # 0
          <6> HIDE DEF symbols
          <6> QED BY <1>1, <2>2
        <5> HIDE DEF symbols
        <5>2. 1 \in 1..Len(symbols)
          BY <1>1, <5>1
        <5> QED BY <1>1, <5>2
      <4> HIDE DEF symbols, away
      <4> QED BY <4>2, <4>3, FirstLeastIsThere
    <3> HIDE DEF symbols, gaps, away
    <3> QED BY <1>1, <2>2, <3>1, <3>2, <3>3
  <2> QED BY <2>1, <2>2
<1>4. offset \in Int /\ w \in Nat
  <2>1. Offsets(source[w]) \subseteq Int
    BY DEF Offsets
  <2> HIDE DEF offset
  <2> QED BY <1>3, <2>1
<1> HIDE DEF offset
<1> QED BY <1>2, <1>3, <1>4 DEF Points

(* A place in the words that a range may start or end at. *)
IsEnd(source, point) ==
  /\ point \in Points
  /\ point.word \in DOMAIN source
  /\ point.offset \in Offsets(source[point.word])

(* A range of those words. *)
IsRange(source, range) ==
  /\ range \in Ranges
  /\ range # NoRange => EndsFit(source, range)

(* No range is one. *)
LEMMA NoRangeIs ==
  ASSUME NEW source
  PROVE  IsRange(source, NoRange)
BY DEF IsRange, NoRange, Ranges, Points, NoWord

(* A word without usable symbols starts at 0 and ends at 1. *)
LEMMA WholeEndIs ==
  ASSUME NEW source, NEW point, IsEnd(source, point), ~Usable(source[point.word]),
         NEW n \in {0, 1}
  PROVE  /\ IsEnd(source, [point EXCEPT !.offset = n])
         /\ [point EXCEPT !.offset = n].word = point.word
         /\ [point EXCEPT !.offset = n].offset = n
<1>1. point.word \in Nat /\ point.word \in DOMAIN source
  BY DEF IsEnd, Points
<1>2. [point EXCEPT !.offset = n] = [word |-> point.word, offset |-> n]
  BY DEF IsEnd, Points
<1>3. n \in Int /\ n \in Offsets(source[point.word])
  BY DEF Offsets
<1>4. [word |-> point.word, offset |-> n] \in Points
  BY <1>1, <1>3 DEF Points
<1> QED
  BY <1>1, <1>2, <1>3, <1>4 DEF IsEnd

(* Ordering two ends makes a range, and a word without symbols a whole one. *)
LEMMA NormalizedIs ==
  ASSUME NEW source \in Seq(Words), NEW a, NEW b, IsEnd(source, a), IsEnd(source, b)
  PROVE  IsRange(source, normalized(source, a, b))
<1> DEFINE first == IF Before(a, b) THEN a ELSE b
           last == IF Before(a, b) THEN b ELSE a
           start == IF Usable(source[first.word]) THEN first ELSE [first EXCEPT !.offset = 0]
           end == IF Usable(source[last.word]) THEN last ELSE [last EXCEPT !.offset = 1]
<1>1. normalized(source, a, b) = [start |-> start, end |-> end, whole |-> FALSE]
  BY Zenon DEF normalized
<1>2. IsEnd(source, first) /\ IsEnd(source, last)
  OBVIOUS
<1>3. Before(first, last)
  BY DEF Before, IsEnd, Points
<1> HIDE DEF first, last
<1>4. IsEnd(source, start) /\ start.word = first.word
  <2>1. CASE Usable(source[first.word])
    BY <1>2, <2>1
  <2>2. CASE ~Usable(source[first.word])
    BY <1>2, <2>2, WholeEndIs
  <2> QED BY <2>1, <2>2
<1>5. IsEnd(source, end) /\ end.word = last.word
  <2>1. CASE Usable(source[last.word])
    BY <1>2, <2>1
  <2>2. CASE ~Usable(source[last.word])
    BY <1>2, <2>2, WholeEndIs
  <2> QED BY <2>1, <2>2
<1>6. Before(start, end)
  <2>1. CASE first.word # last.word
    BY <1>2, <1>3, <1>4, <1>5, <2>1 DEF Before
  <2>2. CASE first.word = last.word /\ Usable(source[first.word])
    BY <1>3, <2>2
  <2>3. CASE first.word = last.word /\ ~Usable(source[first.word])
    <3>1. start.offset = 0 /\ end.offset = 1
      BY <1>2, <2>3, WholeEndIs
    <3> HIDE DEF start, end
    <3> QED BY <1>4, <1>5, <2>3, <3>1 DEF Before
  <2> QED BY <2>1, <2>2, <2>3
<1> HIDE DEF start, end
<1> QED
  <2>1. [start |-> start, end |-> end, whole |-> FALSE] \in Ranges
    BY <1>4, <1>5 DEF IsEnd, Ranges
  <2>2. EndsFit(source, [start |-> start, end |-> end, whole |-> FALSE])
    BY <1>4, <1>5, <1>6 DEF IsEnd, EndsFit
  <2> QED BY <1>1, <2>1, <2>2 DEF IsRange

(* Whole words are a range. *)
LEMMA WholeWordsIs ==
  ASSUME NEW source \in Seq(Words), NEW first \in DOMAIN source, NEW last \in DOMAIN source,
         first <= last
  PROVE  IsRange(source, WholeWords(source, first, last))
<1> DEFINE to == IF Usable(source[last]) THEN Len(usableSymbols(source[last])) ELSE 1
           start == [word |-> first, offset |-> 0]
           end == [word |-> last, offset |-> to]
<1>1. WholeWords(source, first, last) = [start |-> start, end |-> end, whole |-> TRUE]
  BY DEF WholeWords
<1>2. source[first] \in Words /\ source[last] \in Words
  OBVIOUS
<1>3. to \in Nat /\ to \in Offsets(source[last])
  BY <1>2, SymbolsAre DEF Offsets
<1>4. 0 \in Offsets(source[first])
  BY <1>2, SymbolsAre DEF Offsets
<1> HIDE DEF to
<1>5. [start |-> start, end |-> end, whole |-> TRUE] \in Ranges
  BY <1>3 DEF Ranges, Points
<1>6. EndsFit(source, [start |-> start, end |-> end, whole |-> TRUE])
  BY <1>3, <1>4 DEF EndsFit, Before
<1> QED BY <1>1, <1>5, <1>6 DEF IsRange

(* What a drag selects is a range. *)
LEMMA RangeAtIs ==
  ASSUME NEW source \in Seq(Words), NEW anchor \in Int, NEW focus \in Int, NEW precise
  PROVE  IsRange(source, rangeAt(source, anchor, focus, precise))
<1> DEFINE start == hit(source, anchor)
           end == hit(source, focus)
           forward == start < end \/ (start = end /\ anchor <= focus)
           first == IF start <= end THEN start ELSE end
           last == IF start <= end THEN end ELSE start
           a == boundary(source, start, anchor, IF forward THEN "start" ELSE "end", FALSE)
           b == boundary(source, end, focus, IF forward THEN "end" ELSE "start", FALSE)
<1>1. rangeAt(source, anchor, focus, precise) =
        IF NoWord \in {start, end} THEN NoRange
        ELSE IF ~precise THEN WholeWords(source, first, last) ELSE normalized(source, a, b)
  BY Zenon DEF rangeAt
<1>2. start \in DOMAIN source \cup {NoWord} /\ end \in DOMAIN source \cup {NoWord}
  BY HitIs
<1> HIDE DEF start, end
<1>3. CASE NoWord \in {start, end}
  BY <1>1, <1>3, NoRangeIs
<1>4. CASE NoWord \notin {start, end} /\ ~precise
  <2>1. first \in DOMAIN source /\ last \in DOMAIN source /\ first <= last
    BY <1>2, <1>4
  <2> HIDE DEF first, last
  <2>2. IsRange(source, WholeWords(source, first, last))
    BY <2>1, WholeWordsIs
  <2> QED BY <1>1, <1>4, <2>2
<1>5. CASE NoWord \notin {start, end} /\ precise
  <2>1. start \in DOMAIN source /\ end \in DOMAIN source
    BY <1>2, <1>5
  <2>2. IsEnd(source, a) /\ IsEnd(source, b)
    <3>1. \A side, nearest : IsEnd(source, boundary(source, start, anchor, side, nearest))
      BY <2>1, BoundaryIs DEF IsEnd
    <3>2. \A side, nearest : IsEnd(source, boundary(source, end, focus, side, nearest))
      BY <2>1, BoundaryIs DEF IsEnd
    <3> QED BY <3>1, <3>2, Zenon
  <2> HIDE DEF a, b
  <2>3. IsRange(source, normalized(source, a, b))
    BY <2>2, NormalizedIs
  <2> QED BY <1>1, <1>5, <2>3
<1> QED BY <1>3, <1>4, <1>5

(* Moving a handle makes a range of a range. *)
LEMMA MoveHandleIs ==
  ASSUME NEW source \in Seq(Words), NEW range, IsRange(source, range), NEW side, NEW x \in Int
  PROVE  IsRange(source, moveHandle(source, range, side, x))
<1> DEFINE w == hit(source, x)
           moved == boundary(source, w, x, side, TRUE)
<1>1. moveHandle(source, range, side, x) =
        IF range = NoRange \/ w = NoWord THEN range
        ELSE IF side = "start" THEN normalized(source, moved, range.end)
        ELSE normalized(source, range.start, moved)
  BY Zenon DEF moveHandle
<1>2. w \in DOMAIN source \cup {NoWord}
  BY HitIs
<1> HIDE DEF w
<1>3. CASE range = NoRange \/ w = NoWord
  BY <1>1, <1>3
<1>4. CASE ~(range = NoRange \/ w = NoWord)
  <2>1. w \in DOMAIN source
    BY <1>2, <1>4
  <2>2. IsEnd(source, moved)
    <3>1. \A nearest : IsEnd(source, boundary(source, w, x, side, nearest))
      BY <2>1, BoundaryIs DEF IsEnd
    <3> QED BY <3>1, Zenon
  <2>3. IsEnd(source, range.start) /\ IsEnd(source, range.end)
    BY <1>4 DEF IsRange, IsEnd, EndsFit, Ranges
  <2> HIDE DEF moved
  <2>4. IsRange(source, normalized(source, moved, range.end))
    BY <2>2, <2>3, NormalizedIs
  <2>5. IsRange(source, normalized(source, range.start, moved))
    BY <2>2, <2>3, NormalizedIs
  <2> QED BY <1>1, <1>4, <2>4, <2>5
<1> QED BY <1>3, <1>4

(* The symbols of a word that is read by them start one after another.     *)
LEMMA SymbolsInOrder ==
  ASSUME NEW word \in Words, Usable(word),
         NEW i \in DOMAIN usableSymbols(word), NEW j \in DOMAIN usableSymbols(word), i <= j
  PROVE  /\ usableSymbols(word)[i].left <= usableSymbols(word)[j].left
         /\ usableSymbols(word)[j].left < usableSymbols(word)[j].right
<1> DEFINE symbols == usableSymbols(word)
           left(n) == symbols[n].left
           behind == {n \in DOMAIN symbols : \E m \in DOMAIN symbols : m <= n /\ left(m) > left(n)}
<1>1. symbols \in Seq(Symbols)
  BY SymbolsAre
<1>2. \A n \in DOMAIN symbols :
        /\ symbols[n].left < symbols[n].right
        /\ n > 1 => left(n) >= left(n - 1)
  <2>1. symbols = word.symbols
    BY DEF Usable, usableSymbols
  <2>2. \A n \in DOMAIN word.symbols :
          /\ word.symbols[n].left < word.symbols[n].right
          /\ n > 1 => word.symbols[n].left >= word.symbols[n - 1].left
    BY Zenon DEF Usable, usableSymbols
  <2> QED BY <2>1, <2>2
<1>3. \A n \in DOMAIN symbols : left(n) \in Int
  <2>1. \A n \in DOMAIN symbols : symbols[n] \in Symbols
    <3> HIDE DEF symbols
    <3> QED BY <1>1
  <2> QED BY <2>1 DEF Symbols
<1>4. DOMAIN symbols = 1..Len(symbols) /\ Len(symbols) \in Nat
  <2> HIDE DEF symbols
  <2> QED BY <1>1
<1>5. behind = {}
  <2> SUFFICES ASSUME behind # {} PROVE FALSE
    OBVIOUS
  <2>1. behind \in SUBSET Nat
    BY <1>4
  <2>2. PICK n \in behind : \A k \in behind : n <= k
    <3> HIDE DEF behind
    <3> QED BY <2>1, LeastOf
  <2>3. PICK m \in DOMAIN symbols : m <= n /\ left(m) > left(n)
    BY <2>2
  <2> HIDE DEF symbols
  <2>4. n \in 1..Len(symbols) /\ m \in 1..Len(symbols) /\ m # n
    BY <1>3, <1>4, <2>2, <2>3
  <2>5. n - 1 \in DOMAIN symbols /\ m <= n - 1 /\ n > 1
    BY <1>4, <2>3, <2>4
  <2>6. n - 1 \notin behind
    BY <2>2, <2>4
  <2>7. left(m) <= left(n - 1)
    BY <1>3, <2>3, <2>5, <2>6
  <2>8. left(n - 1) <= left(n)
    BY <1>2, <1>3, <2>2, <2>5
  <2> HIDE DEF left
  <2> QED BY <1>3, <2>2, <2>3, <2>5, <2>7, <2>8
<1>6. left(i) <= left(j)
  BY <1>3, <1>5
<1> QED BY <1>2, <1>6

(* So do the edges between them. *)
LEMMA EdgesInOrder ==
  ASSUME NEW word \in Words, Usable(word),
         NEW a \in 0..Len(usableSymbols(word)), NEW b \in 0..Len(usableSymbols(word)), a <= b
  PROVE  Edge(usableSymbols(word), a) <= Edge(usableSymbols(word), b)
<1> DEFINE symbols == usableSymbols(word)
<1>1. PICK n \in Nat : n = Len(symbols) /\ n # 0
  BY SymbolsAre
<1>2. symbols \in Seq(Symbols) /\ DOMAIN symbols = 1..n
  BY SymbolsAre, <1>1
<1>3. \A i, j \in 1..n :
        i <= j => symbols[i].left <= symbols[j].left /\ symbols[j].left < symbols[j].right
  BY SymbolsInOrder, <1>2
<1>4. \A i \in 1..n : symbols[i].left \in Int /\ symbols[i].right \in Int
  <2> HIDE DEF symbols
  <2>1. \A i \in 1..n : symbols[i] \in Symbols
    BY <1>2
  <2> QED BY <2>1 DEF Symbols
<1>5. a \in Nat /\ b \in Nat /\ a <= n /\ b <= n /\ a <= b
  BY <1>1
<1>6. \A offset : Edge(symbols, offset) =
                    IF offset = n THEN symbols[offset].right ELSE symbols[offset + 1].left
  BY <1>1 DEF Edge
<1> SUFFICES Edge(symbols, a) <= Edge(symbols, b)
  OBVIOUS
<1> HIDE DEF symbols
<1>7. CASE b < n
  <2>1. a + 1 \in 1..n /\ b + 1 \in 1..n /\ a + 1 <= b + 1 /\ a # n /\ b # n
    BY <1>5, <1>7
  <2>2. symbols[a + 1].left <= symbols[b + 1].left
    BY <1>3, <2>1
  <2> QED BY <1>6, <2>1, <2>2
<1>8. CASE b = n /\ a < b
  <2>1. a + 1 \in 1..n /\ b \in 1..n /\ a + 1 <= b /\ a # n
    BY <1>5, <1>8
  <2>2. symbols[a + 1].left <= symbols[b].left /\ symbols[b].left < symbols[b].right
    BY <1>3, <2>1
  <2>3. symbols[a + 1].left <= symbols[b].right
    BY <1>4, <2>1, <2>2
  <2> QED BY <1>6, <1>8, <2>1, <2>3
<1>9. CASE b = n /\ a = b
  <2>1. b \in 1..n
    BY <1>1, <1>9
  <2>2. symbols[b].right \in Int
    BY <1>4, <2>1
  <2> QED BY <1>6, <1>9, <2>2
<1> QED BY <1>5, <1>7, <1>8, <1>9

(* In a source in reading order the handle of the start comes first. *)
LEMMA HandlesFit ==
  ASSUME NEW source \in Seq(Words), NEW range \in Ranges, EndsFit(source, range)
  PROVE  HandlesInOrder(source, range)
<1> SUFFICES ASSUME InReadingOrder(source)
             PROVE  handleBox(source, range, "start") <= handleBox(source, range, "end")
  BY DEF HandlesInOrder
<1> DEFINE v == range.start.word
           w == range.end.word
           a == range.start.offset
           b == range.end.offset
<1>1. /\ v \in DOMAIN source /\ w \in DOMAIN source
      /\ a \in Offsets(source[v]) /\ b \in Offsets(source[w])
      /\ v < w \/ (v = w /\ a <= b)
  BY DEF EndsFit, Before
<1>2. handleBox(source, range, "start") =
        IF Usable(source[v]) THEN Edge(usableSymbols(source[v]), a) ELSE source[v].left
  BY DEF handleBox, Usable
<1>3. handleBox(source, range, "end") =
        IF Usable(source[w]) THEN Edge(usableSymbols(source[w]), b) ELSE source[w].right
  BY DEF handleBox, Usable
<1> HIDE DEF v, w, a, b
<1>4. source[v] \in Words /\ source[w] \in Words
  BY <1>1
<1>5. CASE v < w
  <2>1. \A c \in Handles(source[v]), d \in Handles(source[w]) : c <= d
    BY <1>1, <1>5 DEF InReadingOrder
  <2>2. handleBox(source, range, "start") \in Handles(source[v])
    BY <1>1, <1>2 DEF Handles, Offsets
  <2>3. handleBox(source, range, "end") \in Handles(source[w])
    BY <1>1, <1>3 DEF Handles, Offsets
  <2> QED BY <2>1, <2>2, <2>3
<1>6. CASE v = w /\ a <= b /\ Usable(source[v])
  <2>1. a \in 0..Len(usableSymbols(source[v])) /\ b \in 0..Len(usableSymbols(source[v]))
    BY <1>1, <1>6 DEF Offsets
  <2>2. Edge(usableSymbols(source[v]), a) <= Edge(usableSymbols(source[v]), b)
    BY <1>4, <1>6, <2>1, EdgesInOrder
  <2> QED BY <1>2, <1>3, <1>6, <2>2
<1>7. CASE v = w /\ ~Usable(source[v])
  BY <1>1, <1>2, <1>3, <1>7 DEF InReadingOrder
<1> QED BY <1>1, <1>5, <1>6, <1>7

-----------------------------------------------------------------------------
(* Selections. *)

(* What a press knows while its button is down. *)
DragOK ==
  /\ drag.down \in BOOLEAN
  /\ drag.down =>
       /\ drag = [down |-> TRUE, anchor |-> drag.anchor, focus |-> drag.focus,
                  words |-> drag.words, pressLocal |-> drag.pressLocal, at |-> drag.at,
                  cropping |-> drag.cropping, selecting |-> drag.selecting,
                  before |-> drag.before, precise |-> drag.precise, range |-> drag.range]
       /\ {drag.anchor, drag.focus, drag.pressLocal, drag.at} \subseteq Int
       /\ {drag.cropping, drag.selecting, drag.precise} \subseteq BOOLEAN
       /\ drag.words \in Seq(Words)
       /\ IsRange(drag.words, drag.range)

WordsOK ==
  /\ fullWords \in Seq(Words) /\ retryWords \in Seq(Words)
  /\ usingRetry \in BOOLEAN /\ suppressRelease \in BOOLEAN /\ activeField \in Fields

(* A field and what is selected for it. *)
FieldOK(f) ==
  /\ draft[f] = [text |-> draft[f].text, selection |-> draft[f].selection,
                 sourceWords |-> draft[f].sourceWords]
  /\ draft[f].sourceWords \in Seq(Words)
  /\ IsRange(draft[f].sourceWords, draft[f].selection)

DraftOK == DOMAIN draft = Fields /\ draft = [f \in Fields |-> draft[f]] /\ \A f \in Fields : FieldOK(f)

RangeInv == WordsOK /\ DragOK /\ DraftOK

(* A place under the mouse is a number. *)
LEMMA PixelIs ==
  ASSUME NEW x \in Places
  PROVE  pixelAt(x) \in Int /\ x \in Int
<1>1. x \in Int /\ Left \in Int /\ Scale \in Int
  BY SelectionAssumption
<1>2. (x - Left) * Scale \in Int
  BY <1>1
<1> QED BY <1>1, <1>2 DEF pixelAt, Nowhere

(* The words shown are words. *)
LEMMA WordsAre ==
  ASSUME WordsOK
  PROVE  words \in Seq(Words)
BY DEF WordsOK, words

(* What a press knows at first. *)
LEMMA PressDrags ==
  ASSUME RangeInv, NEW field \in Fields, NEW x \in Places, NEW precise \in BOOLEAN,
         NEW alt \in BOOLEAN, PressAt(field, x, precise, alt)
  PROVE  DragOK' /\ activeField' \in Fields
<1> DEFINE p == pixelAt(x)
           range == IF p # Nowhere /\ ~alt THEN rangeAt(words, p, p, precise) ELSE NoRange
<1>1. p \in Int /\ x \in Int
  BY PixelIs
<1>2. words \in Seq(Words)
  BY WordsAre DEF RangeInv
<1>3. IsRange(words, range)
  BY <1>1, <1>2, RangeAtIs, NoRangeIs
<1>4. drag' = [down |-> TRUE, anchor |-> p, focus |-> p, words |-> words,
               pressLocal |-> x, at |-> x,
               cropping |-> p # Nowhere /\ alt, selecting |-> p # Nowhere /\ ~alt,
               before |-> draft[field].text, precise |-> precise /\ ~alt, range |-> range]
  BY Zenon DEF PressAt
<1>5. activeField' = field
  BY DEF PressAt
<1> HIDE DEF p, range
<1>6. PICK W, R : W = words /\ R = range
  OBVIOUS
<1>7. PICK c \in BOOLEAN, s \in BOOLEAN, q \in BOOLEAN :
        c = (p # Nowhere /\ alt) /\ s = (p # Nowhere /\ ~alt) /\ q = (precise /\ ~alt)
  OBVIOUS
<1>8. PICK t : t = draft[field].text
  OBVIOUS
<1>9. drag' = [down |-> TRUE, anchor |-> p, focus |-> p, words |-> W,
               pressLocal |-> x, at |-> x, cropping |-> c, selecting |-> s,
               before |-> t, precise |-> q, range |-> R]
  BY <1>4, <1>6, <1>7, <1>8
<1>10. W \in Seq(Words) /\ IsRange(W, R)
  BY <1>2, <1>3, <1>6
<1> QED BY <1>1, <1>5, <1>9, <1>10 DEF DragOK

(* A selection that is set is one of the words it is set with. *)
LEMMA SetSelectionFits ==
  ASSUME DraftOK, activeField \in Fields, NEW range, NEW source \in Seq(Words),
         IsRange(source, range), setSelection(range, source)
  PROVE  DraftOK'
<1>1. CASE range = NoRange
  BY <1>1 DEF setSelection, DraftOK, FieldOK
<1>2. CASE range # NoRange
  <2>1. PICK new : new = [text |-> textForSelection(source, range), selection |-> range,
                          sourceWords |-> source]
    OBVIOUS
  <2>2. draft' = [draft EXCEPT ![activeField] = new]
    BY <1>2, <2>1, Zenon DEF setSelection
  <2>3. /\ new = [text |-> new.text, selection |-> new.selection, sourceWords |-> new.sourceWords]
        /\ new.sourceWords = source /\ new.selection = range
    BY <2>1
  <2>4. DOMAIN draft' = Fields /\ draft' = [f \in Fields |-> draft'[f]]
    BY <2>2 DEF DraftOK
  <2>5. ASSUME NEW f \in Fields PROVE FieldOK(f)'
    <3>1. CASE f = activeField
      <4>1. draft'[f] = new
        BY <2>2, <3>1 DEF DraftOK
      <4> QED BY <2>3, <4>1 DEF FieldOK
    <3>2. CASE f # activeField
      <4>1. draft'[f] = draft[f] /\ FieldOK(f)
        BY <2>2, <3>2 DEF DraftOK
      <4> QED BY <4>1 DEF FieldOK
    <3> QED BY <3>1, <3>2
  <2> QED BY <2>4, <2>5 DEF DraftOK
<1> QED BY <1>1, <1>2

(* A draft of which only texts change, or selections go. *)
LEMMA TextsChange ==
  ASSUME DraftOK, DOMAIN draft' = Fields, draft' = [f \in Fields |-> draft'[f]],
         \A f \in Fields : \E t :
            draft'[f] \in {draft[f], [draft[f] EXCEPT !.text = t],
                           [text |-> t, selection |-> NoRange, sourceWords |-> <<>>]}
  PROVE  DraftOK'
<1> SUFFICES ASSUME NEW f \in Fields PROVE FieldOK(f)'
  BY DEF DraftOK
<1>1. PICK t : draft'[f] \in {draft[f], [draft[f] EXCEPT !.text = t],
                              [text |-> t, selection |-> NoRange, sourceWords |-> <<>>]}
  OBVIOUS
<1>2. FieldOK(f)
  BY DEF DraftOK
<1>3. PICK s, w : draft[f] = [text |-> draft[f].text, selection |-> s, sourceWords |-> w]
                  /\ w \in Seq(Words) /\ IsRange(w, s)
  BY <1>2 DEF FieldOK
<1>4. CASE draft'[f] = draft[f]
  BY <1>2, <1>4 DEF FieldOK
<1>5. CASE draft'[f] = [draft[f] EXCEPT !.text = t]
  <2>1. draft'[f] = [text |-> t, selection |-> s, sourceWords |-> w]
    BY <1>3, <1>5
  <2> QED BY <1>3, <2>1 DEF FieldOK
<1>6. CASE draft'[f] = [text |-> t, selection |-> NoRange, sourceWords |-> <<>>]
  <2>1. <<>> \in Seq(Words) /\ IsRange(<<>>, NoRange)
    BY NoRangeIs
  <2> QED BY <1>6, <2>1 DEF FieldOK
<1> QED BY <1>1, <1>4, <1>5, <1>6

(* No handler makes a range that is not one of its words. *)
LEMMA RangeInvStep ==
  ASSUME RangeInv, [Next]_vars
  PROVE  RangeInv'
<1> USE DEF RangeInv, ocr, mouse
<1>1. CASE ImageReady \/ ImageFails \/ Toggle
  BY SMT, ZenonT(60), <1>1 DEF ImageReady, ImageFails, Toggle, WordsOK, DragOK, DraftOK, FieldOK
<1>2. CASE Answer
  <2>1. PICK i \in DOMAIN jobs, ok \in BOOLEAN, found \in FullAnswers \cup CropAnswers \cup {<<>>} :
          ocrFinished(i, ok, found)
    BY <1>2, Zenon DEF Answer
  <2>2. found \in Seq(Words)
    <3>1. <<>> \in Seq(Words)
      OBVIOUS
    <3>2. FullAnswers \cup CropAnswers \subseteq Seq(Words)
      BY SelectionAssumption
    <3> QED BY <3>1, <3>2
  <2>3. fullWords' \in {fullWords, found} /\ retryWords' \in {retryWords, found}
        /\ usingRetry' \in BOOLEAN
    BY <2>1 DEF ocrFinished, Finish, WordsOK
  <2>4. UNCHANGED <<draft, mouse>>
    BY <2>1 DEF ocrFinished, Finish
  <2> QED BY <2>2, <2>3, <2>4 DEF WordsOK, DragOK, DraftOK, FieldOK
<1>3. ASSUME NEW field \in Fields, NEW x \in Places, NEW alt \in BOOLEAN,
             NEW precise \in BOOLEAN, Press(field, x, precise, alt)
      PROVE  RangeInv'
  <2>1. PressAt(field, x, precise, alt) /\ suppressRelease' = FALSE
        /\ UNCHANGED <<fullWords, retryWords, usingRetry, draft>>
    BY <1>3 DEF Press
  <2>2. DragOK' /\ activeField' \in Fields
    BY <2>1, PressDrags
  <2> QED BY <2>1, <2>2 DEF WordsOK, DraftOK, FieldOK
<1>4. ASSUME NEW field \in Fields, NEW x \in Places, NEW alt \in BOOLEAN,
             DoubleClick(field, x, alt)
      PROVE  RangeInv'
  <2>1. PICK t : SecondPress(field, x, alt, t)
    BY <1>4 DEF DoubleClick
  <2>2. /\ PressAt(field, x, FALSE, alt) /\ suppressRelease' = TRUE
        /\ UNCHANGED <<fullWords, retryWords, usingRetry>>
        /\ draft' = [draft EXCEPT ![field] = [text |-> t, selection |-> NoRange, sourceWords |-> <<>>]]
    BY <2>1 DEF SecondPress
  <2>3. DragOK' /\ activeField' \in Fields
    BY <2>2, PressDrags
  <2>4. PICK new : new = [text |-> t, selection |-> NoRange, sourceWords |-> <<>>]
    OBVIOUS
  <2>5. draft' = [draft EXCEPT ![field] = new]
    BY <2>2, <2>4
  <2>6. DOMAIN draft' = Fields /\ draft' = [f \in Fields |-> draft'[f]]
        /\ \A f \in Fields : draft'[f] \in {draft[f], new}
    BY <2>5 DEF DraftOK
  <2>7. DraftOK'
    BY <2>4, <2>6, TextsChange
  <2> QED BY <2>2, <2>3, <2>7 DEF WordsOK
<1>5. ASSUME NEW x \in Places, Moved(x)
      PROVE  RangeInv'
  <2> DEFINE p == pixelAt(x)
  <2>1. p \in Int /\ x \in Int
    BY PixelIs
  <2>2. UNCHANGED <<fullWords, retryWords, usingRetry, draft, activeField, suppressRelease>> /\ drag.down
    BY <1>5 DEF Moved
  <2>3. PICK range : range = IF drag.selecting
                             THEN rangeAt(drag.words, drag.anchor, p, drag.precise) ELSE drag.range
    OBVIOUS
  <2>4. drag' = IF p = Nowhere \/ drag.anchor = Nowhere THEN [drag EXCEPT !.at = x]
                ELSE [drag EXCEPT !.at = x, !.focus = p, !.range = range]
    BY <1>5, <2>3, Zenon DEF Moved
  <2>5. IsRange(drag.words, range)
    <3>1. IsRange(drag.words, drag.range) /\ drag.words \in Seq(Words) /\ drag.anchor \in Int
      BY <2>2 DEF DragOK
    <3> HIDE DEF p
    <3> QED BY <2>1, <2>3, <3>1, RangeAtIs
  <2> HIDE DEF p
  <2>6. DragOK'
    <3>1. CASE p = Nowhere \/ drag.anchor = Nowhere
      <4>1. drag' = [drag EXCEPT !.at = x]
        BY <2>4, <3>1
      <4> QED BY <2>1, <2>2, <4>1 DEF DragOK
    <3>2. CASE ~(p = Nowhere \/ drag.anchor = Nowhere)
      <4>1. drag' = [drag EXCEPT !.at = x, !.focus = p, !.range = range]
        BY <2>4, <3>2
      <4> QED BY <2>1, <2>2, <2>5, <4>1 DEF DragOK
    <3> QED BY <3>1, <3>2
  <2> QED BY <2>2, <2>6 DEF WordsOK, DraftOK, FieldOK
<1>6. ASSUME NEW x \in Places, NEW side \in {"start", "end"}, HandleMoved(side, x)
      PROVE  RangeInv'
  <2> DEFINE source == draft[activeField].sourceWords
             range == draft[activeField].selection
             p == pixelAt(x)
  <2>1. UNCHANGED <<fullWords, retryWords, usingRetry, activeField, suppressRelease, drag>>
        /\ setSelection(moveHandle(source, range, side, p), source)
    BY <1>6 DEF HandleMoved
  <2>2. activeField \in Fields /\ p \in Int
    BY PixelIs DEF WordsOK
  <2>3. source \in Seq(Words) /\ IsRange(source, range)
    BY <2>2 DEF DraftOK, FieldOK
  <2> HIDE DEF source, range, p
  <2>4. IsRange(source, moveHandle(source, range, side, p))
    BY <2>2, <2>3, MoveHandleIs
  <2>5. DraftOK'
    BY <2>1, <2>2, <2>3, <2>4, SetSelectionFits
  <2> QED BY <2>1, <2>5 DEF WordsOK, DragOK
<1>7. CASE Released
  <2>1. /\ drag.down /\ drag' = NoDrag /\ suppressRelease' = FALSE
        /\ UNCHANGED <<fullWords, retryWords, usingRetry, activeField>>
        /\ UNCHANGED draft \/ setSelection(drag.range, drag.words)
    BY <1>7 DEF Released
  <2>2. DraftOK'
    <3>1. CASE UNCHANGED draft
      BY <3>1 DEF DraftOK, FieldOK
    <3>2. CASE setSelection(drag.range, drag.words)
      <4>1. IsRange(drag.words, drag.range) /\ drag.words \in Seq(Words)
        BY <2>1 DEF DragOK
      <4> QED BY <3>2, <4>1, SetSelectionFits DEF WordsOK
    <3> QED BY <2>1, <3>1, <3>2
  <2> QED BY <2>1, <2>2 DEF WordsOK, DragOK, NoDrag
<1>8. CASE Canceled
  BY <1>8 DEF Canceled, WordsOK, DragOK, DraftOK, FieldOK, NoDrag
<1>9. ASSUME NEW field \in Fields, SwitchColumn(field)
      PROVE  RangeInv'
  BY <1>9 DEF SwitchColumn, WordsOK, DragOK, DraftOK, FieldOK
<1>10. ASSUME NEW field \in Fields, TextEdited(field)
       PROVE  RangeInv'
  <2>1. /\ draft' = [draft EXCEPT ![field].text = Typed]
        /\ UNCHANGED <<fullWords, retryWords, usingRetry, activeField, suppressRelease, drag>>
    BY <1>10 DEF TextEdited
  <2>2. PICK new : new = [draft[field] EXCEPT !.text = Typed]
    OBVIOUS
  <2>3. draft' = [draft EXCEPT ![field] = new]
    BY <2>1, <2>2
  <2>4. DOMAIN draft' = Fields /\ draft' = [f \in Fields |-> draft'[f]]
        /\ \A f \in Fields : draft'[f] = IF f = field THEN new ELSE draft[f]
    BY <2>3 DEF DraftOK
  <2>5. DraftOK'
    BY <2>2, <2>4, TextsChange
  <2> QED BY <2>1, <2>5 DEF WordsOK, DragOK
<1>11. CASE Undone
  <2>1. /\ draft' = [f \in Fields |-> [draft[f] EXCEPT !.text = <<>>]]
        /\ UNCHANGED <<fullWords, retryWords, usingRetry, activeField, suppressRelease, drag>>
    BY <1>11 DEF Undone
  <2>2. DOMAIN draft' = Fields /\ draft' = [f \in Fields |-> draft'[f]]
        /\ \A f \in Fields : draft'[f] = [draft[f] EXCEPT !.text = <<>>]
    BY <2>1
  <2>3. DraftOK'
    BY <2>2, TextsChange
  <2> QED BY <2>1, <2>3 DEF WordsOK, DragOK
<1>12. CASE UNCHANGED vars
  BY <1>12 DEF vars, WordsOK, DragOK, DraftOK, FieldOK
<1> QED
  BY <1>1, <1>2, <1>3, <1>4, <1>5, <1>6, <1>7, <1>8, <1>9, <1>10, <1>11, <1>12 DEF Next

(* At first nothing is selected. *)
LEMMA RangeInvInit == Init => RangeInv
<1> SUFFICES ASSUME Init PROVE RangeInv
  OBVIOUS
<1>1. <<>> \in Seq(Words) /\ IsRange(<<>>, NoRange)
  BY NoRangeIs
<1>2. PICK new : new = [text |-> <<>>, selection |-> NoRange, sourceWords |-> <<>>]
  OBVIOUS
<1>3. draft = [f \in Fields |-> new]
  BY <1>2 DEF Init
<1>4. DraftOK
  BY <1>1, <1>2, <1>3 DEF DraftOK, FieldOK
<1>5. WordsOK /\ DragOK
  BY <1>1 DEF Init, WordsOK, DragOK, NoDrag, Fields
<1> QED BY <1>4, <1>5 DEF RangeInv

(* RangeInv holds at every place of every behaviour. *)
LEMMA RangeInvHolds == Spec => []RangeInv
BY RangeInvInit, RangeInvStep, PTL DEF Spec

(* A selection is a part of the words it was made in, and its handles are  *)
(* drawn in order (setSelection and the handlers of the mouse), for any    *)
(* words OCR may find, whichever are shown meanwhile.                      *)
THEOREM SelectionsFitSource == Spec => []RangeFitsSource
<1>1. RangeInv => RangeFitsSource
  <2> SUFFICES ASSUME RangeInv PROVE RangeFitsSource
    OBVIOUS
  <2>1. ASSUME NEW source \in Seq(Words), NEW range, IsRange(source, range)
        PROVE  Fits(source, range)
    BY <2>1, HandlesFit DEF IsRange, Fits
  <2>2. \A f \in Fields : Fits(draft[f].sourceWords, draft[f].selection)
    BY <2>1 DEF RangeInv, DraftOK, FieldOK
  <2>3. drag.down => Fits(drag.words, drag.range)
    BY <2>1 DEF RangeInv, DragOK
  <2> QED BY <2>2, <2>3 DEF RangeFitsSource
<1> QED BY <1>1, RangeInvHolds, PTL

-----------------------------------------------------------------------------
(* OCR requests and answers. *)

Jobs == [kind : {"full", "crop"}, done : BOOLEAN, words : Seq(Words), after : SUBSET Nat]
IsCrop(i) == jobs[i].kind = "crop"
HasWords(i) == IsCrop(i) /\ jobs[i].words # <<>>

(* A request has no words before it is answered, and comes after others    *)
(* that were.                                                              *)
JobsInv ==
  /\ jobs \in Seq(Jobs)
  /\ \A i \in DOMAIN jobs : Pending(i) => jobs[i].words = <<>>
  /\ \A j \in DOMAIN jobs : \A i \in jobs[j].after : i \in DOMAIN jobs /\ ~Pending(i)
  /\ ocrLoading /\ image = "ready" => \E i \in DOMAIN jobs : Pending(i)
  /\ usingRetry => retryWords # <<>>
  /\ AreLastUsable(retryWords)

(* AreLastUsable, read by HasWords. *)
LEMMA LastUsableIs ==
  AreLastUsable(retryWords) <=>
    \/ (\A k \in DOMAIN jobs : ~HasWords(k)) /\ retryWords = <<>>
    \/ \E k \in DOMAIN jobs :
         /\ HasWords(k) /\ retryWords = jobs[k].words
         /\ \A j \in DOMAIN jobs : HasWords(j) => k \notin jobs[j].after
<1>1. \A i : i \in UsableCrops <=> i \in DOMAIN jobs /\ HasWords(i)
  BY DEF UsableCrops, HasWords, IsCrop
<1> QED BY <1>1 DEF AreLastUsable

(* The same of the next state. *)
LEMMA LastUsableNext ==
  (AreLastUsable(retryWords) <=>
    \/ (\A k \in DOMAIN jobs : ~HasWords(k)) /\ retryWords = <<>>
    \/ \E k \in DOMAIN jobs :
         /\ HasWords(k) /\ retryWords = jobs[k].words
         /\ \A j \in DOMAIN jobs : HasWords(j) => k \notin jobs[j].after)'
BY LastUsableIs, PTL

(* A request that is sent has no words and comes after those answered. *)
LEMMA RequestKeepsJobs ==
  ASSUME JobsInv, NEW kind \in {"full", "crop"}, ocrRequested(kind),
         UNCHANGED <<retryWords, usingRetry>>
  PROVE  JobsInv'
<1>1. PICK n \in Nat : n = Len(jobs) /\ DOMAIN jobs = 1..n
  BY DEF JobsInv
<1>2. PICK job : job = [kind |-> kind, done |-> FALSE, words |-> <<>>,
                        after |-> {i \in DOMAIN jobs : ~Pending(i)}]
  OBVIOUS
<1>3. job \in Jobs /\ ~job.done /\ job.words = <<>>
      /\ \A i : i \in job.after => i \in 1..n /\ ~Pending(i)
  <2>1. <<>> \in Seq(Words)
    OBVIOUS
  <2>2. {i \in DOMAIN jobs : ~Pending(i)} \in SUBSET Nat
    BY <1>1
  <2> QED BY <1>1, <1>2, <2>1, <2>2 DEF Jobs
<1>4. jobs' = Append(jobs, job)
  BY <1>2 DEF ocrRequested
<1>5. /\ jobs' \in Seq(Jobs) /\ DOMAIN jobs' = 1..(n + 1)
      /\ \A i \in 1..n : jobs'[i] = jobs[i]
      /\ jobs'[n + 1] = job
  BY <1>1, <1>3, <1>4 DEF JobsInv
<1>6. \A i \in 1..n : /\ Pending(i)' <=> Pending(i)
                      /\ IsCrop(i)' <=> IsCrop(i)
                      /\ HasWords(i)' <=> HasWords(i)
                      /\ jobs'[i].words = jobs[i].words
                      /\ jobs'[i].after = jobs[i].after
  BY <1>5 DEF Pending, IsCrop, HasWords
<1>7. /\ Pending(n + 1)' /\ ~HasWords(n + 1)' /\ jobs'[n + 1].words = <<>>
      /\ jobs'[n + 1].after = job.after
  BY <1>3, <1>5 DEF Pending, IsCrop, HasWords
<1>8. \A i \in DOMAIN jobs' : Pending(i)' => jobs'[i].words = <<>>
  BY <1>1, <1>5, <1>6, <1>7 DEF JobsInv
<1>9. \E i \in DOMAIN jobs' : Pending(i)'
  BY <1>5, <1>7
<1>10. ASSUME NEW j \in 1..(n + 1), NEW i \in jobs'[j].after
       PROVE  i \in 1..(n + 1) /\ ~Pending(i)'
  <2>1. i \in 1..n /\ ~Pending(i)
    <3>1. CASE j = n + 1
      BY <1>3, <1>7, <1>10, <3>1
    <3>2. CASE j # n + 1
      <4>1. j \in 1..n /\ i \in jobs[j].after
        BY <1>6, <1>10, <3>2
      <4> QED BY <1>1, <4>1 DEF JobsInv
    <3> QED BY <3>1, <3>2
  <2> QED BY <1>6, <2>1
<1>11. AreLastUsable(retryWords)'
  <2>1. \/ (\A i \in 1..n : ~HasWords(i)) /\ retryWords = <<>>
        \/ \E i \in 1..n :
             /\ HasWords(i) /\ retryWords = jobs[i].words
             /\ \A j \in 1..n : HasWords(j) => i \notin jobs[j].after
    BY <1>1, LastUsableIs DEF JobsInv
  <2>2. \/ (\A i \in DOMAIN jobs' : ~HasWords(i)') /\ retryWords' = <<>>
        \/ \E i \in DOMAIN jobs' :
             /\ HasWords(i)' /\ retryWords' = jobs'[i].words
             /\ \A j \in DOMAIN jobs' : HasWords(j)' => i \notin jobs'[j].after
    BY <1>5, <1>6, <1>7, <2>1
  <2> QED BY <2>2, LastUsableNext
<1> QED
  BY <1>5, <1>8, <1>9, <1>10, <1>11 DEF JobsInv

(* An answer gives a crop its words, and these are shown.                  *)
LEMMA AnswerKeepsJobs ==
  ASSUME JobsInv, NEW i \in DOMAIN jobs, NEW ok \in BOOLEAN, NEW found \in Seq(Words),
         ok \/ found = <<>>, ocrFinished(i, ok, found)
  PROVE  JobsInv'
<1>1. PICK n \in Nat : n = Len(jobs) /\ DOMAIN jobs = 1..n
  BY DEF JobsInv
<1>2. PICK job : job = [jobs[i] EXCEPT !.done = TRUE, !.words = found]
  OBVIOUS
<1>3. jobs[i] \in Jobs
  BY DEF JobsInv
<1>4. PICK full, retry, using :
        /\ Finish(i, found, full, retry, using)
        /\ IsCrop(i) /\ found # <<>> => retry = found /\ using
        /\ ~(IsCrop(i) /\ found # <<>>) => retry = retryWords /\ using = usingRetry
  BY <1>3 DEF ocrFinished, IsCrop, Jobs
<1>5. /\ jobs' = [jobs EXCEPT ![i] = job] /\ i \in 1..n /\ Pending(i)
      /\ retryWords' = retry /\ usingRetry' = using /\ ~ocrLoading'
  BY <1>1, <1>2, <1>4 DEF Finish
<1>6. /\ job \in Jobs /\ job.done /\ job.kind = jobs[i].kind /\ job.words = found
      /\ job.after = jobs[i].after
  BY <1>2, <1>3 DEF Jobs
<1>7. /\ jobs' \in Seq(Jobs) /\ DOMAIN jobs' = 1..n
      /\ \A k \in 1..n \ {i} : jobs'[k] = jobs[k]
      /\ jobs'[i] = job
  BY <1>1, <1>5, <1>6 DEF JobsInv
<1>8. \A k \in 1..n \ {i} : /\ Pending(k)' <=> Pending(k)
                            /\ HasWords(k)' <=> HasWords(k)
                            /\ jobs'[k].words = jobs[k].words
  BY <1>7 DEF Pending, IsCrop, HasWords
<1>9. /\ ~Pending(i)' /\ jobs'[i].words = found
      /\ HasWords(i)' <=> IsCrop(i) /\ found # <<>>
      /\ ~HasWords(i)
  BY <1>5, <1>6, <1>7 DEF Pending, IsCrop, HasWords, JobsInv
<1>10. \A k \in 1..n : jobs'[k].after = jobs[k].after
  BY <1>6, <1>7
<1>11. \A k \in DOMAIN jobs' : Pending(k)' => jobs'[k].words = <<>>
  BY <1>1, <1>7, <1>8, <1>9 DEF JobsInv
<1>12. \A j \in DOMAIN jobs' : \A k \in jobs'[j].after : k \in DOMAIN jobs' /\ ~Pending(k)'
  BY <1>1, <1>7, <1>8, <1>9, <1>10 DEF JobsInv
<1>13. usingRetry' => retryWords' # <<>>
  BY <1>4, <1>5 DEF JobsInv
<1>14. AreLastUsable(retryWords)'
  <2>1. CASE IsCrop(i) /\ found # <<>>
    <3>1. HasWords(i)' /\ retryWords' = jobs'[i].words
      BY <1>4, <1>5, <1>9, <2>1
    <3>2. \A j \in 1..n : i \notin jobs'[j].after
      BY <1>1, <1>5, <1>10 DEF JobsInv
    <3> QED BY <1>5, <1>7, <3>1, <3>2, LastUsableNext
  <2>2. CASE ~(IsCrop(i) /\ found # <<>>)
    <3>1. \/ (\A k \in 1..n : ~HasWords(k)) /\ retryWords = <<>>
          \/ \E k \in 1..n :
               /\ HasWords(k) /\ retryWords = jobs[k].words
               /\ \A j \in 1..n : HasWords(j) => k \notin jobs[j].after
      BY <1>1, LastUsableIs DEF JobsInv
    <3>2. \A k \in 1..n : (HasWords(k)' <=> HasWords(k))
                          /\ (HasWords(k) => jobs'[k].words = jobs[k].words)
      BY <1>8, <1>9, <2>2
    <3>3. retryWords' = retryWords
      BY <1>4, <1>5, <2>2
    <3>4. \/ (\A k \in DOMAIN jobs' : ~HasWords(k)') /\ retryWords' = <<>>
          \/ \E k \in DOMAIN jobs' :
               /\ HasWords(k)' /\ retryWords' = jobs'[k].words
               /\ \A j \in DOMAIN jobs' : HasWords(j)' => k \notin jobs'[j].after
      BY <1>7, <1>10, <3>1, <3>2, <3>3
    <3> QED BY <3>4, LastUsableNext
  <2> QED BY <2>1, <2>2
<1> QED
  BY <1>5, <1>7, <1>11, <1>12, <1>13, <1>14 DEF JobsInv

(* What reads no answer and asks for none leaves the requests as they are. *)
LEMMA JobsStay ==
  ASSUME JobsInv, UNCHANGED <<ocr, usingRetry>>
  PROVE  JobsInv'
BY DEF JobsInv, ocr, Pending, AreLastUsable, UsableCrops

(* Requests and answers keep what is known of them. *)
LEMMA JobsInvStep ==
  ASSUME JobsInv, [Next]_vars
  PROVE  JobsInv'
<1>1. CASE ImageReady
  BY <1>1, RequestKeepsJobs DEF ImageReady
<1>2. CASE ImageFails
  BY <1>2 DEF ImageFails, JobsInv, Pending, AreLastUsable, UsableCrops
<1>3. CASE Answer
  <2>1. PICK i \in DOMAIN jobs, ok \in BOOLEAN, found \in FullAnswers \cup CropAnswers \cup {<<>>} :
          (ok \/ found = <<>>) /\ ocrFinished(i, ok, found)
    BY <1>3, Zenon DEF Answer
  <2>2. found \in Seq(Words)
    <3>1. <<>> \in Seq(Words)
      OBVIOUS
    <3>2. FullAnswers \cup CropAnswers \subseteq Seq(Words)
      BY SelectionAssumption
    <3> QED BY <3>1, <3>2
  <2> QED BY <2>1, <2>2, AnswerKeepsJobs
<1>4. CASE Toggle
  BY <1>4 DEF Toggle, ocr, JobsInv, Pending, AreLastUsable, UsableCrops
<1>5. CASE Released
  <2>1. CASE Crops
    <3>1. ocrRequested("crop") /\ UNCHANGED <<retryWords, usingRetry>>
      BY <1>5, <2>1 DEF Released
    <3> QED BY <3>1, RequestKeepsJobs
  <2>2. CASE ~Crops
    <3>1. UNCHANGED <<ocr, usingRetry>>
      BY <1>5, <2>2 DEF Released, ocr
    <3> QED BY <3>1, JobsStay
  <2> QED BY <2>1, <2>2
<1>6. ASSUME NEW field \in Fields, NEW x \in Places, NEW alt \in BOOLEAN,
             \/ \E precise \in BOOLEAN : Press(field, x, precise, alt)
             \/ DoubleClick(field, x, alt)
      PROVE  JobsInv'
  <2>1. UNCHANGED <<ocr, usingRetry>>
    BY <1>6 DEF Press, DoubleClick, SecondPress
  <2> QED BY <2>1, JobsStay
<1>7. ASSUME NEW x \in Places, Moved(x) \/ \E side \in {"start", "end"} : HandleMoved(side, x)
      PROVE  JobsInv'
  <2>1. UNCHANGED <<ocr, usingRetry>>
    BY <1>7 DEF Moved, HandleMoved
  <2> QED BY <2>1, JobsStay
<1>8. ASSUME \/ Canceled \/ Undone
             \/ \E field \in Fields : SwitchColumn(field) \/ TextEdited(field)
      PROVE  JobsInv'
  <2>1. UNCHANGED <<ocr, usingRetry>>
    BY <1>8 DEF Canceled, Undone, SwitchColumn, TextEdited
  <2> QED BY <2>1, JobsStay
<1>9. CASE UNCHANGED vars
  BY <1>9, JobsStay DEF vars
<1> QED
  BY <1>1, <1>2, <1>3, <1>4, <1>5, <1>6, <1>7, <1>8, <1>9, Zenon DEF Next

(* Before the image is there nothing was asked for. *)
LEMMA JobsInvInit == Init => JobsInv
<1> SUFFICES ASSUME Init PROVE JobsInv
  OBVIOUS
<1>1. jobs = <<>> /\ retryWords = <<>> /\ ~usingRetry /\ image # "ready"
  BY DEF Init
<1>2. jobs \in Seq(Jobs) /\ DOMAIN jobs = {}
  BY <1>1
<1>3. AreLastUsable(retryWords)
  BY <1>1, <1>2, LastUsableIs
<1> QED BY <1>1, <1>2, <1>3 DEF JobsInv

(* The loading line is there only while an answer is to come, and the      *)
(* words of the last usable crop are kept (ocrFinished), however many      *)
(* requests there are, whichever overlap and in whatever order they are     *)
(* answered.                                                               *)
THEOREM LastCropIsKept == Spec => []LastUsableCropKept
<1>1. JobsInv => LastUsableCropKept
  BY DEF JobsInv, LastUsableCropKept
<1> QED BY <1>1, JobsInvInit, JobsInvStep, PTL DEF Spec

-----------------------------------------------------------------------------
(* Double-clicks. *)

(* The text a double-click puts back into a field. *)
Restored(f) ==
  IF f = clicked.field /\ completedClick.field = f THEN completedClick.beforeText
                                                   ELSE draft[f].text

(* The last press was simply a click, so far. *)
IsClick == clicked.clean /\ ~clicked.alt

(* While the last press was simply a click: its texts are those there are  *)
(* until it is released, and then those a double-click brings.             *)
ClickInv ==
  /\ clicked = [field |-> clicked.field, at |-> clicked.at, texts |-> clicked.texts,
                alt |-> clicked.alt, clean |-> clicked.clean]
  /\ clicked.clean \in BOOLEAN
  /\ IsClick => clicked.field \in Fields
  /\ IsClick /\ drag.down =>
       /\ ~suppressRelease /\ ~drag.cropping /\ activeField = clicked.field
       /\ drag.before = clicked.texts[clicked.field]
       /\ \A f \in Fields : draft[f].text = clicked.texts[f]
  /\ IsClick /\ ~drag.down => \A f \in Fields : clicked.texts[f] = Restored(f)

(* A press that is not simply a click is not followed by a double-click    *)
(* that has to restore anything.                                           *)
LEMMA UncleanIsNot ==
  ASSUME ClickInv, Unclean(TRUE)
  PROVE  ClickInv'
<1>1. clicked' = [field |-> clicked.field, at |-> clicked.at, texts |-> <<>>,
                  alt |-> clicked.alt, clean |-> FALSE]
  BY DEF ClickInv, Unclean
<1> QED BY <1>1 DEF ClickInv, IsClick

(* What the last press left is kept while the mouse and the draft are.     *)
LEMMA ClickStays ==
  ASSUME ClickInv, UNCHANGED <<draft, mouse>>
  PROVE  ClickInv'
BY DEF ClickInv, IsClick, Restored, mouse

(* A release of a click leaves what a double-click needs.                  *)
LEMMA ReleaseRemembers ==
  ASSUME RangeInv, ClickInv, Released
  PROVE  ClickInv'
<1>1. drag.down /\ drag' = NoDrag /\ UNCHANGED activeField /\ Unclean(~IsStill)
  BY DEF Released
<1>2. CASE ~IsStill
  BY <1>1, <1>2, UncleanIsNot
<1>3. CASE IsStill /\ ~IsClick
  BY <1>1, <1>3 DEF Unclean, ClickInv, IsClick
<1>4. CASE IsStill /\ IsClick
  <2>1. clicked' = clicked /\ ~drag'.down
    BY <1>1, <1>4 DEF Unclean, NoDrag
  <2>2. /\ ~suppressRelease /\ ~drag.cropping /\ activeField = clicked.field
        /\ drag.before = clicked.texts[clicked.field] /\ clicked.field \in Fields
        /\ \A f \in Fields : draft[f].text = clicked.texts[f]
    BY <1>1, <1>4 DEF ClickInv
  <2>3. /\ setSelection(drag.range, drag.words)
        /\ completedClick' = IF drag.range # NoRange /\ IsStill
                             THEN [field |-> activeField, beforeText |-> drag.before] ELSE NoClick
    BY <2>2 DEF Released
  <2>4. CASE drag.range = NoRange
    <3>1. completedClick' = NoClick /\ draft' = draft
      BY <2>3, <2>4 DEF setSelection
    <3>2. \A f \in Fields : completedClick'.field # f
      BY <3>1 DEF NoClick, Fields
    <3>3. \A f \in Fields : Restored(f)' = draft[f].text
      BY <3>1, <3>2 DEF Restored
    <3> QED BY <2>1, <2>2, <3>3 DEF ClickInv, IsClick
  <2>5. CASE drag.range # NoRange
    <3>1. completedClick' = [field |-> activeField, beforeText |-> drag.before]
      BY <1>4, <2>3, <2>5
    <3>2. PICK new : draft' = [draft EXCEPT ![activeField] = new]
      BY <2>3, <2>5 DEF setSelection
    <3>3. ASSUME NEW f \in Fields PROVE Restored(f)' = clicked.texts[f]
      <4>1. CASE f = clicked.field
        BY <2>1, <2>2, <3>1, <4>1 DEF Restored
      <4>2. CASE f # clicked.field
        <5>1. draft'[f] = draft[f]
          BY <2>2, <3>2, <4>2 DEF RangeInv, DraftOK
        <5> QED BY <2>1, <2>2, <4>2, <5>1 DEF Restored
      <4> QED BY <4>1, <4>2
    <3> QED BY <2>1, <2>2, <3>3 DEF ClickInv, IsClick
  <2> QED BY <2>4, <2>5
<1> QED BY <1>2, <1>3, <1>4 DEF ClickInv

(* The first press of a double-click keeps the texts there are.            *)
LEMMA ClickInvStep ==
  ASSUME RangeInv, ClickInv, [Next]_vars
  PROVE  ClickInv'
<1>1. CASE ImageReady \/ ImageFails \/ Toggle
  <2>1. UNCHANGED <<draft, mouse>>
    BY <1>1 DEF ImageReady, ImageFails, Toggle
  <2> QED BY <2>1, ClickStays
<1>2. CASE Answer
  <2>1. UNCHANGED <<draft, mouse>>
    BY <1>2 DEF Answer, ocrFinished, Finish
  <2> QED BY <2>1, ClickStays
<1>3. ASSUME NEW field \in Fields, NEW x \in Places, NEW alt \in BOOLEAN,
             NEW precise \in BOOLEAN, Press(field, x, precise, alt)
      PROVE  ClickInv'
  <2>1. /\ PressAt(field, x, precise, alt) /\ suppressRelease' = FALSE /\ UNCHANGED draft
        /\ clicked' = [field |-> field, at |-> x, alt |-> alt, clean |-> TRUE,
                       texts |-> [f \in Fields |-> draft[f].text]]
    BY <1>3 DEF Press
  <2>2. /\ drag'.down /\ drag'.before = draft[field].text /\ activeField' = field
        /\ ~alt => ~drag'.cropping
    BY <2>1 DEF PressAt
  <2>3. PICK texts : texts = [f \in Fields |-> draft[f].text]
    OBVIOUS
  <2>4. clicked' = [field |-> field, at |-> x, alt |-> alt, clean |-> TRUE, texts |-> texts]
    BY <2>1, <2>3
  <2> QED BY <2>1, <2>2, <2>3, <2>4 DEF ClickInv, IsClick
<1>4. ASSUME NEW field \in Fields, NEW x \in Places, NEW alt \in BOOLEAN,
             DoubleClick(field, x, alt)
      PROVE  ClickInv'
  BY <1>4 DEF DoubleClick, SecondPress, NotClicked, ClickInv, IsClick
<1>5. ASSUME NEW x \in Places, Moved(x)
      PROVE  ClickInv'
  <2>1. /\ drag.down
        /\ UNCHANGED <<draft, activeField, completedClick, suppressRelease, clicked>>
    BY <1>5 DEF Moved
  <2>2. PICK p, range : drag' \in {[drag EXCEPT !.at = x],
                                   [drag EXCEPT !.at = x, !.focus = p, !.range = range]}
    BY <1>5 DEF Moved
  <2>3. drag'.down /\ drag'.before = drag.before /\ drag'.cropping = drag.cropping
    BY <2>1, <2>2 DEF RangeInv, DragOK
  <2> QED BY <2>1, <2>3 DEF ClickInv, IsClick
<1>6. ASSUME NEW x \in Places, NEW side \in {"start", "end"}, HandleMoved(side, x)
      PROVE  ClickInv'
  BY <1>6 DEF HandleMoved, NotClicked, ClickInv, IsClick
<1>7. CASE Released
  BY <1>7, ReleaseRemembers
<1>8. ASSUME Canceled \/ Undone \/ \E field \in Fields : TextEdited(field)
      PROVE  ClickInv'
  BY <1>8, UncleanIsNot DEF Canceled, Undone, TextEdited
<1>9. ASSUME NEW field \in Fields, SwitchColumn(field)
      PROVE  ClickInv'
  <2>1. Unclean(drag.down) /\ UNCHANGED <<draft, drag, completedClick, suppressRelease>>
    BY <1>9 DEF SwitchColumn
  <2>2. CASE drag.down
    BY <2>1, <2>2, UncleanIsNot DEF Unclean
  <2>3. CASE ~drag.down
    BY <2>1, <2>3 DEF Unclean, ClickInv, IsClick, Restored
  <2> QED BY <2>2, <2>3
<1>10. CASE UNCHANGED vars
  <2>1. UNCHANGED <<draft, mouse>>
    BY <1>10 DEF vars
  <2> QED BY <2>1, ClickStays
<1> QED
  BY <1>1, <1>2, <1>3, <1>4, <1>5, <1>6, <1>7, <1>8, <1>9, <1>10 DEF Next

(* Nothing was clicked at first. *)
LEMMA ClickInvInit == Init => ClickInv
BY DEF Init, ClickInv, IsClick, NotClicked

(* A double-click leaves both texts as they were before its first press    *)
(* and its field without a selection (onDoubleClicked), whatever its first *)
(* press selected, whatever OCR answered and wherever the handles were     *)
(* moved before.                                                           *)
THEOREM DoubleClicksRestore == Spec => DoubleClickRestores
<1>1. ASSUME RangeInv, ClickInv, [Next]_vars
      PROVE  [~suppressRelease /\ suppressRelease' /\ clicked.clean /\ ~clicked.alt =>
                /\ draft'[clicked.field].selection = NoRange
                /\ \A f \in Fields : draft'[f].text = clicked.texts[f]]_vars
  <2> SUFFICES ASSUME ~suppressRelease, suppressRelease', clicked.clean, ~clicked.alt
               PROVE  /\ draft'[clicked.field].selection = NoRange
                      /\ \A f \in Fields : draft'[f].text = clicked.texts[f]
    OBVIOUS
  <2>1. PICK field \in Fields, x \in Places, alt \in BOOLEAN : DoubleClick(field, x, alt)
    BY <1>1 DEF Next, vars, ocr, mouse, ImageReady, ImageFails, Answer, ocrFinished, Finish,
                Toggle, Press, Moved, HandleMoved, Released, Canceled, SwitchColumn,
                TextEdited, Undone
  <2>2. PICK new : new = [text |-> IF completedClick.field = field
                                   THEN completedClick.beforeText ELSE draft[field].text,
                          selection |-> NoRange, sourceWords |-> <<>>]
    OBVIOUS
  <2>3. /\ clicked.field = field /\ ~drag.down
        /\ draft' = [draft EXCEPT ![field] = new]
    BY <2>1, <2>2 DEF DoubleClick, SecondPress, PressAt
  <2>4. new.text = Restored(field) /\ new.selection = NoRange
    BY <2>2, <2>3 DEF Restored
  <2>5. draft'[field] = new /\ \A f \in Fields \ {field} : draft'[f] = draft[f]
    BY <2>3, <1>1 DEF RangeInv, DraftOK
  <2>6. \A f \in Fields : clicked.texts[f] = Restored(f)
    BY <1>1, <2>3 DEF ClickInv, IsClick
  <2>7. \A f \in Fields \ {field} : draft'[f].text = Restored(f)
    BY <2>3, <2>5 DEF Restored
  <2> QED BY <2>3, <2>4, <2>5, <2>6, <2>7
<1> QED
  BY <1>1, RangeInvHolds, ClickInvInit, ClickInvStep, PTL DEF Spec, DoubleClickRestores

-----------------------------------------------------------------------------
(* Concatenation.                                                          *)

(* What holds of the first and passes from each to the next holds of all.  *)
LEMMA AllFrom ==
  ASSUME NEW first \in Nat, NEW n \in Nat, NEW S,
         first \in S, \A k \in first..(n - 1) : k \in S => k + 1 \in S
  PROVE  first..n \subseteq S
<1> DEFINE rest == {k \in first..n : k \notin S}
<1>1. ASSUME rest # {} PROVE FALSE
  <2>1. PICK least \in rest : \A k \in rest : least <= k
    <3>1. rest \in SUBSET Nat
      OBVIOUS
    <3> HIDE DEF rest
    <3> QED BY <1>1, <3>1, LeastOf
  <2>2. least \in first..n /\ least \notin S
    BY <2>1
  <2>3. least # first
    BY <2>2
  <2>4. least - 1 \in first..(n - 1) /\ (least - 1) + 1 = least
    BY <2>2, <2>3
  <2>5. least - 1 \in first..n /\ ~(least <= least - 1)
    BY <2>2, <2>4
  <2>6. least - 1 \in S
    BY <2>1, <2>5
  <2> QED BY <2>2, <2>4, <2>6
<1> QED BY <1>1

(* f[k] is the first k of some sequences, one after another.               *)
Joins(f, seqs, T) ==
  /\ f \in [0..Len(seqs) -> Seq(T)]
  /\ f[0] = <<>>
  /\ \A k \in 1..Len(seqs) : f[k] = f[k - 1] \o seqs[k]

(* Of all sequences there is such a function.                              *)
LEMMA JoinsExists ==
  ASSUME NEW T, NEW seqs \in Seq(Seq(T))
  PROVE  \E f : Joins(f, seqs, T)
<1> DEFINE n == Len(seqs)
           Upto(f, m) == /\ f \in [0..m -> Seq(T)] /\ f[0] = <<>>
                         /\ \A k \in 1..m : f[k] = f[k - 1] \o seqs[k]
           S == {m \in 0..n : \E f : Upto(f, m)}
<1>0. n \in Nat /\ DOMAIN seqs = 1..n /\ \A k \in 1..n : seqs[k] \in Seq(T)
  OBVIOUS
<1>1. 0 \in S
  <2> DEFINE f == [k \in 0..0 |-> <<>>]
  <2>1. <<>> \in Seq(T)
    OBVIOUS
  <2>2. Upto(f, 0)
    BY <2>1
  <2>3. 0 \in 0..n
    BY <1>0
  <2> HIDE DEF f, Upto
  <2> QED BY <2>2, <2>3
<1>2. ASSUME NEW m \in 0..(n - 1), m \in S
      PROVE  m + 1 \in S
  <2>1. PICK f : Upto(f, m)
    BY <1>2
  <2> DEFINE g == [k \in 0..(m + 1) |-> IF k = m + 1 THEN f[m] \o seqs[m + 1] ELSE f[k]]
  <2>2. m \in Nat /\ m + 1 \in 1..n /\ f[m] \in Seq(T) /\ seqs[m + 1] \in Seq(T)
    BY <1>0, <2>1
  <2>3. f[m] \o seqs[m + 1] \in Seq(T)
    BY <2>2
  <2>4. g \in [0..(m + 1) -> Seq(T)]
    BY <2>1, <2>2, <2>3
  <2>5. g[0] = <<>>
    BY <2>1, <2>2
  <2>6. ASSUME NEW k \in 1..(m + 1) PROVE g[k] = g[k - 1] \o seqs[k]
    <3>1. CASE k = m + 1
      <4>1. m \in 0..(m + 1) /\ m # m + 1 /\ m + 1 \in 0..(m + 1) /\ k - 1 = m
        BY <2>2, <3>1
      <4>2. g[m + 1] = f[m] \o seqs[m + 1] /\ g[m] = f[m]
        BY <4>1
      <4> HIDE DEF g
      <4> QED BY <3>1, <4>1, <4>2
    <3>2. CASE k # m + 1
      <4>1. k \in 1..m /\ k - 1 \in 0..(m + 1) /\ k \in 0..(m + 1) /\ k - 1 # m + 1
        BY <2>2, <3>2
      <4>2. g[k] = f[k] /\ g[k - 1] = f[k - 1]
        BY <3>2, <4>1
      <4> QED BY <2>1, <4>1, <4>2
    <3> QED BY <3>1, <3>2
  <2>7. Upto(g, m + 1)
    BY <2>4, <2>5, <2>6
  <2> HIDE DEF g, Upto
  <2> QED BY <2>2, <2>7
<1> HIDE DEF S
<1>3. 0..n \subseteq S
  BY <1>0, <1>1, <1>2, AllFrom
<1>4. n \in S
  BY <1>0, <1>3
<1> QED
  BY <1>0, <1>4 DEF S, Joins

(* There is only one, and FlattenSeq is its last value.                    *)
LEMMA FlattenIs ==
  ASSUME NEW T, NEW seqs \in Seq(Seq(T)), NEW f, Joins(f, seqs, T)
  PROVE  FlattenSeq(seqs) = f[Len(seqs)]
<1> DEFINE n == Len(seqs)
<1>0. n \in Nat /\ DOMAIN seqs = 1..n /\ \A k \in 1..n : seqs[k] \in Seq(T)
  OBVIOUS
<1>1. CASE n = 0
  <2>1. seqs = <<>>
    BY <1>0, <1>1
  <2> QED BY <1>1, <2>1, Zenon DEF FlattenSeq, Joins
<1>2. CASE n # 0
  <2>1. PICK g : /\ g = CHOOSE h : h = [i \in 1..n |-> IF i = 1 THEN seqs[i] ELSE h[i - 1] \o seqs[i]]
                 /\ FlattenSeq(seqs) = g[n]
    BY <1>2, Zenon DEF FlattenSeq
  <2> DEFINE h == [i \in 1..n |-> f[i]]
  <2>2. \A i \in 1..n : h[i] = IF i = 1 THEN seqs[i] ELSE h[i - 1] \o seqs[i]
    <3> SUFFICES ASSUME NEW i \in 1..n PROVE f[i] = IF i = 1 THEN seqs[i] ELSE f[i - 1] \o seqs[i]
      BY <1>0
    <3>1. f[i] = f[i - 1] \o seqs[i] /\ f[0] = <<>> /\ seqs[i] \in Seq(T)
      BY <1>0 DEF Joins
    <3>2. <<>> \o seqs[i] = seqs[i]
      BY <3>1
    <3>3. i = 1 => f[i - 1] = f[0]
      OBVIOUS
    <3> QED BY <3>1, <3>2, <3>3
  <2>3. h = [i \in 1..n |-> IF i = 1 THEN seqs[i] ELSE h[i - 1] \o seqs[i]]
    BY <2>2
  <2> HIDE DEF h
  <2>4. g = [i \in 1..n |-> IF i = 1 THEN seqs[i] ELSE g[i - 1] \o seqs[i]]
    BY <2>1, <2>3, Zenon
  <2> DEFINE S == {k \in 1..n : g[k] = f[k]}
  <2>5. \A i \in 1..n : g[i] = IF i = 1 THEN seqs[i] ELSE g[i - 1] \o seqs[i]
    BY <2>4
  <2>6. 1 \in S
    <3>1. 1 \in 1..n
      BY <1>0, <1>2
    <3>2. g[1] = seqs[1] /\ f[1] = seqs[1]
      BY <2>2, <2>5, <3>1 DEF h
    <3> QED BY <3>1, <3>2
  <2>7. ASSUME NEW k \in 1..(n - 1), k \in S PROVE k + 1 \in S
    <3>1. k + 1 \in 1..n /\ k + 1 # 1 /\ (k + 1) - 1 = k
      BY <1>0
    <3>2. g[k + 1] = g[k] \o seqs[k + 1]
      BY <2>5, <3>1
    <3>3. f[k + 1] = f[k] \o seqs[k + 1]
      BY <3>1 DEF Joins
    <3> QED BY <2>7, <3>1, <3>2, <3>3
  <2> HIDE DEF S
  <2>8. 1..n \subseteq S
    BY <1>0, <2>6, <2>7, AllFrom
  <2>9. n \in S
    <3>1. n \in 1..n
      BY <1>0, <1>2
    <3> QED BY <2>8, <3>1, Zenon
  <2> QED BY <2>1, <2>9 DEF S
<1> QED BY <1>1, <1>2

(* Where the parts are in the whole: each after the ones before it,        *)
LEMMA JoinsAdd ==
  ASSUME NEW T, NEW seqs \in Seq(Seq(T)), NEW f, Joins(f, seqs, T), NEW w \in 1..Len(seqs)
  PROVE  /\ f[w] = f[w - 1] \o seqs[w]
         /\ f[w] \in Seq(T) /\ f[w - 1] \in Seq(T) /\ seqs[w] \in Seq(T)
         /\ Len(f[w]) \in Nat /\ Len(f[w - 1]) \in Nat /\ Len(seqs[w]) \in Nat
         /\ Len(f[w]) = Len(f[w - 1]) + Len(seqs[w])
<1>1. w \in 0..Len(seqs) /\ w - 1 \in 0..Len(seqs) /\ w \in DOMAIN seqs
  OBVIOUS
<1>2. f[w] = f[w - 1] \o seqs[w]
  BY DEF Joins
<1>3. f[w] \in Seq(T) /\ f[w - 1] \in Seq(T) /\ seqs[w] \in Seq(T)
  BY <1>1 DEF Joins
<1>4. PICK a \in Seq(T), b \in Seq(T) : a = f[w - 1] /\ b = seqs[w]
  BY <1>3
<1>5. /\ Len(a) \in Nat /\ Len(b) \in Nat
      /\ Len(a \o b) \in Nat /\ Len(a \o b) = Len(a) + Len(b)
  BY ConcatProperties, LenProperties
<1>6. f[w] = a \o b
  BY <1>2, <1>4
<1> QED BY <1>2, <1>3, <1>4, <1>5, <1>6, Zenon

(* The same, counted from 0. *)
LEMMA JoinsNext ==
  ASSUME NEW T, NEW seqs \in Seq(Seq(T)), NEW f, Joins(f, seqs, T), NEW k \in 0..(Len(seqs) - 1)
  PROVE  /\ f[k + 1] = f[k] \o seqs[k + 1]
         /\ f[k + 1] \in Seq(T) /\ f[k] \in Seq(T) /\ seqs[k + 1] \in Seq(T)
         /\ Len(f[k + 1]) \in Nat /\ Len(f[k]) \in Nat /\ Len(seqs[k + 1]) \in Nat
         /\ Len(f[k + 1]) = Len(f[k]) + Len(seqs[k + 1])
<1>1. PICK w \in 1..Len(seqs) : w = k + 1 /\ w - 1 = k
  OBVIOUS
<1>2. /\ f[w] = f[w - 1] \o seqs[w]
      /\ f[w] \in Seq(T) /\ f[w - 1] \in Seq(T) /\ seqs[w] \in Seq(T)
      /\ Len(f[w]) \in Nat /\ Len(f[w - 1]) \in Nat /\ Len(seqs[w]) \in Nat
      /\ Len(f[w]) = Len(f[w - 1]) + Len(seqs[w])
  BY JoinsAdd
<1> QED BY <1>1, <1>2, Zenon

(* and as it is there,                                                     *)
LEMMA JoinsKeep ==
  ASSUME NEW T, NEW seqs \in Seq(Seq(T)), NEW f, Joins(f, seqs, T),
         NEW v \in 0..Len(seqs), NEW w \in v..Len(seqs)
  PROVE  /\ Len(f[v]) \in Nat /\ Len(f[w]) \in Nat /\ Len(f[v]) <= Len(f[w])
         /\ \A p \in 1..Len(f[v]) : f[w][p] = f[v][p]
<1> DEFINE S == {k \in v..Len(seqs) : /\ Len(f[k]) \in Nat /\ Len(f[v]) <= Len(f[k])
                                     /\ \A p \in 1..Len(f[v]) : f[k][p] = f[v][p]}
<1>0. Len(seqs) \in Nat /\ v \in Nat /\ w \in Nat
  OBVIOUS
<1>1. f[v] \in Seq(T) /\ Len(f[v]) \in Nat
  BY DEF Joins
<1>2. v \in S
  BY <1>0, <1>1
<1>3. ASSUME NEW k \in v..(Len(seqs) - 1), k \in S PROVE k + 1 \in S
  <2>1. k + 1 \in 1..Len(seqs) /\ (k + 1) - 1 = k /\ k + 1 \in v..Len(seqs)
    BY <1>0
  <2>2. PICK a, b : a = f[k] /\ b = seqs[k + 1]
    OBVIOUS
  <2>3. a \in Seq(T) /\ b \in Seq(T) /\ f[k + 1] = a \o b /\ Len(f[k + 1]) = Len(a) + Len(b)
        /\ Len(a) \in Nat /\ Len(b) \in Nat
    <3>1. /\ f[k + 1] = f[k] \o seqs[k + 1] /\ f[k] \in Seq(T) /\ seqs[k + 1] \in Seq(T)
          /\ Len(f[k]) \in Nat /\ Len(seqs[k + 1]) \in Nat
          /\ Len(f[k + 1]) = Len(f[k]) + Len(seqs[k + 1])
      <4>1. k \in 0..(Len(seqs) - 1)
        BY <1>0
      <4> QED BY <4>1, JoinsNext
    <3> QED BY <2>2, <3>1, Zenon
  <2>4. ASSUME NEW p \in 1..Len(f[v]) PROVE f[k + 1][p] = f[v][p]
    <3>1. Len(f[v]) <= Len(a) /\ a[p] = f[v][p]
      BY <1>3, <2>2, <2>4
    <3>2. p \in 1..Len(a)
      BY <1>1, <2>3, <3>1
    <3>3. (a \o b)[p] = a[p]
      BY <2>3, <3>2
    <3> QED BY <2>3, <3>1, <3>3
  <2>5. Len(f[v]) <= Len(a)
    BY <1>3, <2>2
  <2>6. Len(f[k + 1]) \in Nat /\ Len(f[v]) <= Len(f[k + 1])
    <3>1. PICK x \in Nat, y \in Nat, z \in Nat : x = Len(f[v]) /\ y = Len(a) /\ z = Len(b)
      BY <1>1, <2>3
    <3> QED BY <2>3, <2>5, <3>1
  <2> QED BY <2>1, <2>4, <2>6
<1> HIDE DEF S
<1>4. v..Len(seqs) \subseteq S
  BY <1>0, <1>2, <1>3, AllFrom
<1>5. w \in S
  BY <1>4
<1> QED BY <1>1, <1>5 DEF S

IsAt(f, seqs, w, i) == /\ Len(f[w - 1]) + i \in 1..Len(f[Len(seqs)])
                       /\ f[Len(seqs)][Len(f[w - 1]) + i] = seqs[w][i]

(* What is in a part is in the whole at its place, *)
LEMMA JoinsAt ==
  ASSUME NEW T, NEW seqs \in Seq(Seq(T)), NEW f, Joins(f, seqs, T),
         NEW w \in 1..Len(seqs), NEW i \in 1..Len(seqs[w])
  PROVE  IsAt(f, seqs, w, i)
<1>1. PICK a, b : a = f[w - 1] /\ b = seqs[w]
  OBVIOUS
<1>2. a \in Seq(T) /\ b \in Seq(T) /\ f[w] = a \o b /\ Len(f[w]) = Len(a) + Len(b)
      /\ Len(a) \in Nat /\ Len(b) \in Nat
  BY <1>1, JoinsAdd
<1>3. /\ Len(f[w]) <= Len(f[Len(seqs)]) /\ Len(f[Len(seqs)]) \in Nat
      /\ \A p \in 1..Len(f[w]) : f[Len(seqs)][p] = f[w][p]
  <2>1. w \in 0..Len(seqs) /\ Len(seqs) \in w..Len(seqs)
    OBVIOUS
  <2> QED BY <2>1, JoinsKeep
<1>4. PICK x \in Nat, y \in Nat, z \in Nat : x = Len(a) /\ y = Len(b) /\ z = Len(f[Len(seqs)])
  BY <1>2, <1>3
<1>5. i \in 1..y /\ Len(f[w]) = x + y
  BY <1>1, <1>2, <1>4
<1>6. x + i \in 1..(x + y) /\ ~(x + i <= x) /\ (x + i) - x = i /\ x + y <= z
  BY <1>3, <1>4, <1>5
<1>7. (a \o b)[x + i] = b[i]
  BY <1>2, <1>4, <1>6, ConcatProperties
<1>8. f[Len(seqs)][x + i] = b[i]
  BY <1>2, <1>3, <1>5, <1>6, <1>7
<1>9. x + i \in 1..z
  BY <1>6
<1> QED BY <1>1, <1>4, <1>8, <1>9 DEF IsAt

(* Of a place in the whole there is a part it is in.                       *)
IsIn(p, f, seqs) == \E w \in 1..Len(seqs) : \E i \in 1..Len(seqs[w]) : p = Len(f[w - 1]) + i

(* and nothing else is there.                                              *)
LEMMA JoinsOnly ==
  ASSUME NEW T, NEW seqs \in Seq(Seq(T)), NEW f, Joins(f, seqs, T),
         NEW p \in 1..Len(f[Len(seqs)])
  PROVE  IsIn(p, f, seqs)
<1> DEFINE Found(q) == IsIn(q, f, seqs)
           S == {k \in 0..Len(seqs) : \A q \in 1..Len(f[k]) : Found(q)}
<1>0. Len(seqs) \in Nat
  OBVIOUS
<1>1. 0 \in S
  <2>1. f[0] = <<>>
    BY DEF Joins
  <2>2. 1..Len(f[0]) = {}
    BY <2>1
  <2> HIDE DEF Found
  <2> QED BY <1>0, <2>2
<1>2. ASSUME NEW k \in 0..(Len(seqs) - 1), k \in S PROVE k + 1 \in S
  <2>1. k + 1 \in 1..Len(seqs) /\ (k + 1) - 1 = k /\ k + 1 \in 0..Len(seqs)
    BY <1>0
  <2>2. /\ Len(f[k + 1]) = Len(f[k]) + Len(seqs[k + 1])
        /\ Len(f[k + 1]) \in Nat /\ Len(f[k]) \in Nat /\ Len(seqs[k + 1]) \in Nat
    BY JoinsNext
  <2>3. ASSUME NEW q \in 1..Len(f[k + 1]) PROVE Found(q)
    <3>1. CASE q <= Len(f[k])
      <4>1. q \in 1..Len(f[k])
        BY <2>2, <3>1
      <4> HIDE DEF Found
      <4> QED BY <1>2, <4>1
    <3>2. CASE ~(q <= Len(f[k]))
      <4>1. PICK x \in Nat, y \in Nat : x = Len(f[k]) /\ y = Len(seqs[k + 1])
        BY <2>2
      <4>2. q \in 1..(x + y) /\ ~(q <= x)
        BY <2>2, <2>3, <3>2, <4>1
      <4>3. q - x \in 1..y /\ q = x + (q - x)
        BY <4>2
      <4>4. Len(f[(k + 1) - 1]) = x
        BY <2>1, <4>1
      <4> QED BY <2>1, <4>1, <4>3, <4>4 DEF IsIn
    <3> QED BY <3>1, <3>2
  <2> HIDE DEF Found
  <2> QED BY <2>1, <2>3
<1> HIDE DEF S
<1>3. 0..Len(seqs) \subseteq S
  BY <1>0, <1>1, <1>2, AllFrom
<1>4. Len(seqs) \in S
  BY <1>0, <1>3
<1> QED BY <1>4 DEF S

Singles(q, s) == Len(q) = Len(s) /\ \A k \in 1..Len(s) : q[k] = <<s[k]>>

(* Sequences of one element each, one after another, are the elements.     *)
LEMMA FlattenSingles ==
  ASSUME NEW T, NEW s \in Seq(T), NEW q \in Seq(Seq(T)), Singles(q, s)
  PROVE  FlattenSeq(q) = s
<1>1. PICK f : Joins(f, q, T)
  BY JoinsExists
<1>2. PICK n \in Nat : n = Len(s)
  OBVIOUS
<1>3. n = Len(q) /\ \A k \in 1..n : q[k] = <<s[k]>>
  BY <1>2 DEF Singles
<1>4. FlattenSeq(q) = f[n] /\ f[n] \in Seq(T)
  <2>1. FlattenSeq(q) = f[Len(q)]
    BY <1>1, FlattenIs
  <2>2. f[n] \in Seq(T)
    BY <1>1, <1>3 DEF Joins
  <2> QED BY <1>3, <2>1, <2>2
<1> DEFINE S == {k \in 0..n : Len(f[k]) = k /\ \A p \in 1..k : f[k][p] = s[p]}
<1>5. 0 \in S
  <2>1. f[0] = <<>>
    BY <1>1 DEF Joins
  <2> QED BY <2>1
<1>6. ASSUME NEW k \in 0..(n - 1), k \in S PROVE k + 1 \in S
  <2>1. /\ f[k + 1] = f[k] \o q[k + 1] /\ f[k] \in Seq(T) /\ q[k + 1] \in Seq(T)
    <3>1. k \in 0..(Len(q) - 1)
      BY <1>3
    <3> QED BY <1>1, <3>1, JoinsNext
  <2>2. PICK a \in Seq(T) : a = f[k]
    BY <2>1
  <2>3. k + 1 \in 1..n /\ k \in Nat /\ k + 1 \in 0..n
    OBVIOUS
  <2>4. q[k + 1] = <<s[k + 1]>> /\ s[k + 1] \in T
    <3>1. q[k + 1] = <<s[k + 1]>>
      BY <1>3, <2>3, Zenon
    <3>2. s[k + 1] \in T
      BY <1>2, <2>3
    <3> QED BY <3>1, <3>2
  <2>5. PICK x \in T : x = s[k + 1]
    BY <2>4
  <2>6. f[k + 1] = a \o <<x>> /\ Len(a) = k /\ \A p \in 1..k : a[p] = s[p]
    BY <1>6, <2>1, <2>2, <2>4, <2>5
  <2>7. Len(a \o <<x>>) = k + 1 /\ \A p \in 1..(k + 1) : (a \o <<x>>)[p] = IF p <= k THEN a[p] ELSE x
    BY <2>3, <2>6
  <2>8. \A p \in 1..(k + 1) : f[k + 1][p] = s[p]
    BY <2>3, <2>5, <2>6, <2>7
  <2> QED BY <2>3, <2>6, <2>7, <2>8
<1> HIDE DEF S
<1>7. 0..n \subseteq S
  <2>1. \A k \in 0..(n - 1) : k \in S => k + 1 \in S
    BY <1>6
  <2> QED BY <1>5, <2>1, AllFrom
<1>8. Len(f[n]) = n /\ \A p \in 1..n : f[n][p] = s[p]
  <2>1. n \in S
    BY <1>7
  <2> QED BY <2>1 DEF S
<1>9. PICK t \in Seq(T) : t = f[n]
  BY <1>4
<1>10. t = s
  BY <1>2, <1>8, <1>9, SeqEqual
<1> QED BY <1>4, <1>9, <1>10

(* A sequence that has what another has from a place on is a part of it.   *)
LEMMA IsPart ==
  ASSUME NEW T, NEW a \in Seq(T), NEW x \in Seq(T), NEW start \in Nat, NEW stop \in Nat,
         Len(x) = stop - start, stop <= Len(a), \A p \in 1..Len(x) : x[p] = a[start + p]
  PROVE  x = SubSeq(a, start + 1, stop)
<1>1. PICK n \in Nat, l \in Nat : n = Len(a) /\ l = Len(x)
  OBVIOUS
<1>2. l = stop - start /\ start <= stop /\ stop <= n /\ stop - (start + 1) + 1 = l
  BY <1>1
<1>3. \A p \in 1..l : start + p \in 1..n /\ (start + 1) + p - 1 = start + p
  BY <1>2
<1>4. \A p \in (start + 1)..stop : a[p] \in T
  BY <1>1, <1>2
<1>5. /\ SubSeq(a, start + 1, stop) \in Seq(T)
      /\ Len(SubSeq(a, start + 1, stop)) = IF start + 1 <= stop THEN stop - (start + 1) + 1 ELSE 0
      /\ \A p \in 1..(stop - (start + 1) + 1) : SubSeq(a, start + 1, stop)[p] = a[(start + 1) + p - 1]
  <2>1. start + 1 \in Int /\ stop \in Int
    OBVIOUS
  <2> HIDE <1>2, <1>3
  <2> QED BY <1>4, <2>1, SubSeqProperties
<1>6. PICK y \in Seq(T) : y = SubSeq(a, start + 1, stop)
  BY <1>5
<1>7. Len(y) = l
  BY <1>2, <1>5, <1>6
<1>8. \A p \in 1..l : y[p] = a[start + p]
  BY <1>2, <1>3, <1>5, <1>6
<1>9. x = y
  BY <1>1, <1>7, <1>8, SeqEqual
<1> QED BY <1>6, <1>9

(* The parts that are taken so of m sequences, of them all from s.         *)
CutLow(from, k) == IF k = 1 THEN from ELSE 0
CutHigh(b, s, m, to, k) == IF k = m THEN to ELSE Len(b[s + k - 1])

AreCut(q, b, T, s, m, from, to) ==
  /\ b \in Seq(Seq(T))
  /\ s \in 1..Len(b) /\ m \in 1..(Len(b) - s + 1)
  /\ from \in 0..(Len(b[s]) - 1) /\ to \in 1..Len(b[s + m - 1]) /\ (m = 1 => from < to)
  /\ q = [k \in 1..m |-> SubSeq(b[s + k - 1], CutLow(from, k) + 1, CutHigh(b, s, m, to, k))]

(* Where the end of the parts is in all of the sequences.                  *)
LEMMA CutEnds ==
  ASSUME NEW T, NEW q, NEW b, NEW s, NEW m, NEW from, NEW to, AreCut(q, b, T, s, m, from, to),
         NEW k \in 1..m
  PROVE  /\ s + k - 1 \in 1..Len(b) /\ b[s + k - 1] \in Seq(T) /\ Len(b[s + k - 1]) \in Nat
         /\ CutLow(from, k) \in Nat /\ CutHigh(b, s, m, to, k) \in Nat
         /\ CutLow(from, k) <= CutHigh(b, s, m, to, k)
         /\ CutHigh(b, s, m, to, k) <= Len(b[s + k - 1])
<1>1. PICK n : n = Len(b) /\ n \in Nat
  <2>1. b \in Seq(Seq(T))
    BY DEF AreCut
  <2> QED BY <2>1, LenProperties
<1>2. s \in 1..n /\ m \in 1..(n - s + 1)
  BY <1>1 DEF AreCut
<1>3. PICK w : w = s + k - 1 /\ w \in 1..n
  BY <1>1, <1>2
<1>4. b[w] \in Seq(T)
  <2>1. b \in Seq(Seq(T)) /\ w \in 1..Len(b)
    BY <1>1, <1>3 DEF AreCut
  <2> QED BY <2>1, ElementOfSeq
<1>5. PICK l : l = Len(b[w]) /\ l \in Nat
  BY <1>4
<1>6. from \in 0..(Len(b[s]) - 1) /\ to \in 1..Len(b[s + m - 1]) /\ (m = 1 => from < to)
  BY DEF AreCut
<1>7. from \in Nat /\ to \in Nat
  <2>1. s \in 1..Len(b) /\ s + m - 1 \in 1..Len(b)
    BY <1>1, <1>2
  <2>2. Len(b[s]) \in Nat /\ Len(b[s + m - 1]) \in Nat
    <3>1. b \in Seq(Seq(T))
      BY DEF AreCut
    <3> QED BY <2>1, <3>1, ElementOfSeq, LenProperties
  <2> QED BY <1>6, <2>2
<1>8. CutLow(from, k) = IF k = 1 THEN from ELSE 0
  BY DEF CutLow
<1>9. CutHigh(b, s, m, to, k) = IF k = m THEN to ELSE l
  BY <1>3, <1>5 DEF CutHigh
<1>10. k = 1 => from <= l /\ from < l
  <2>1. k = 1 => w = s
    BY <1>2, <1>3
  <2> QED BY <1>5, <1>6, <1>7, <2>1
<1>11. k = m => to <= l
  <2>1. k = m => w = s + m - 1
    BY <1>3
  <2> QED BY <1>5, <1>6, <1>7, <2>1
<1>12. CutLow(from, k) \in Nat /\ CutHigh(b, s, m, to, k) \in Nat
  BY <1>5, <1>7, <1>8, <1>9
<1>13. CutLow(from, k) <= CutHigh(b, s, m, to, k) /\ CutHigh(b, s, m, to, k) <= l
  <2>1. k = 1 /\ k = m => from <= to
    BY <1>6, <1>7
  <2> QED BY <1>5, <1>7, <1>8, <1>9, <1>10, <1>11, <2>1
<1>14. s + k - 1 \in 1..Len(b) /\ b[s + k - 1] \in Seq(T) /\ Len(b[s + k - 1]) = l
  BY <1>1, <1>3, <1>4, <1>5, Zenon
<1> QED BY <1>5, <1>12, <1>13, <1>14, Zenon

(* What one part is.                                                       *)
LEMMA CutIs ==
  ASSUME NEW T, NEW c \in Seq(T), NEW low \in Nat, NEW high \in Nat, low <= high, high <= Len(c)
  PROVE  /\ SubSeq(c, low + 1, high) \in Seq(T)
         /\ Len(SubSeq(c, low + 1, high)) = high - low
         /\ \A i \in 1..(high - low) : SubSeq(c, low + 1, high)[i] = c[low + i]
<1>1. \A i \in (low + 1)..high : c[i] \in T
  OBVIOUS
<1>2. low + 1 \in Int /\ high \in Int
  OBVIOUS
<1>3. /\ SubSeq(c, low + 1, high) \in Seq(T)
      /\ Len(SubSeq(c, low + 1, high)) = IF low + 1 <= high THEN high - (low + 1) + 1 ELSE 0
      /\ \A i \in 1..(high - (low + 1) + 1) : SubSeq(c, low + 1, high)[i] = c[(low + 1) + i - 1]
  BY <1>1, <1>2, SubSeqProperties
<1>4. high - (low + 1) + 1 = high - low /\ \A i \in 1..(high - low) : (low + 1) + i - 1 = low + i
  OBVIOUS
<1>5. low + 1 <= high \/ low = high
  OBVIOUS
<1>6. PICK y \in Seq(T) : y = SubSeq(c, low + 1, high)
  BY <1>3
<1>7. \A i \in 1..(high - low) : y[i] = c[low + i]
  BY <1>3, <1>4, <1>6
<1>8. Len(y) = high - low
  BY <1>3, <1>4, <1>5, <1>6
<1> QED BY <1>6, <1>7, <1>8

(* What the parts that are taken have. *)
LEMMA CutParts ==
  ASSUME NEW T, NEW q, NEW b, NEW s, NEW m, NEW from, NEW to, AreCut(q, b, T, s, m, from, to),
         NEW k \in 1..m
  PROVE  /\ q[k] \in Seq(T) /\ Len(q[k]) = CutHigh(b, s, m, to, k) - CutLow(from, k)
         /\ \A i \in 1..(CutHigh(b, s, m, to, k) - CutLow(from, k)) :
              q[k][i] = b[s + k - 1][CutLow(from, k) + i]
<1>1. /\ b[s + k - 1] \in Seq(T) /\ CutLow(from, k) \in Nat /\ CutHigh(b, s, m, to, k) \in Nat
      /\ CutLow(from, k) <= CutHigh(b, s, m, to, k)
      /\ CutHigh(b, s, m, to, k) <= Len(b[s + k - 1])
  BY CutEnds, Zenon
<1>2. PICK c, low, high :
        /\ c = b[s + k - 1] /\ low = CutLow(from, k) /\ high = CutHigh(b, s, m, to, k)
  OBVIOUS
<1>3. c \in Seq(T) /\ low \in Nat /\ high \in Nat /\ low <= high /\ high <= Len(c)
  BY <1>1, <1>2, Zenon
<1>4. q[k] = SubSeq(c, low + 1, high)
  BY <1>2, Zenon DEF AreCut
<1>5. /\ SubSeq(c, low + 1, high) \in Seq(T)
      /\ Len(SubSeq(c, low + 1, high)) = high - low
      /\ \A i \in 1..(high - low) : SubSeq(c, low + 1, high)[i] = c[low + i]
  BY <1>3, CutIs, Zenon
<1> QED BY <1>2, <1>4, <1>5, Zenon

(* They are a sequence of sequences. *)
LEMMA CutTypes ==
  ASSUME NEW T, NEW q, NEW b, NEW s, NEW m, NEW from, NEW to, AreCut(q, b, T, s, m, from, to)
  PROVE  b \in Seq(Seq(T)) /\ q \in Seq(Seq(T)) /\ Len(q) = m
<1>1. b \in Seq(Seq(T))
  BY DEF AreCut
<1>2. m \in Nat
  <2>1. Len(b) \in Nat /\ s \in 1..Len(b) /\ m \in 1..(Len(b) - s + 1)
    BY <1>1, LenProperties DEF AreCut
  <2> QED BY <2>1
<1>3. q = [k \in 1..m |-> q[k]]
  BY DEF AreCut
<1>4. \A k \in 1..m : q[k] \in Seq(T)
  BY CutParts
<1>5. q \in [1..m -> Seq(T)]
  BY <1>3, <1>4, Zenon
<1>6. q \in Seq(Seq(T)) /\ Len(q) = m
  BY <1>2, <1>5
<1> QED BY <1>1, <1>6

(* How much of all is before each part, counted in both ways.              *)
LEMMA CutStarts ==
  ASSUME NEW T, NEW q, NEW b, NEW s, NEW m, NEW from, NEW to, AreCut(q, b, T, s, m, from, to),
         NEW f, Joins(f, b, T), NEW g, Joins(g, q, T), NEW j \in 1..m
  PROVE  Len(g[j - 1]) + (Len(f[s - 1]) + from) = Len(f[s + j - 2]) + CutLow(from, j)
<1> DEFINE At(k) == Len(g[k - 1]) + (Len(f[s - 1]) + from) = Len(f[s + k - 2]) + CutLow(from, k)
           S == {k \in 1..m : At(k)}
<1>0. b \in Seq(Seq(T)) /\ q \in Seq(Seq(T)) /\ Len(q) = m
  BY CutTypes
<1>1. Len(b) \in Nat /\ m \in Nat
  BY <1>0, LenProperties
<1>2. s \in 1..Len(b) /\ m \in 1..(Len(b) - s + 1)
  BY DEF AreCut
<1>3. 1 \in S
  <2>1. 1 \in 1..m /\ 1 - 1 = 0 /\ s + 1 - 2 = s - 1 /\ s \in 1..Len(b)
    BY <1>1, <1>2
  <2>2. g[0] = <<>>
    BY DEF Joins
  <2>3. Len(f[s - 1]) \in Nat
    BY <1>0, <2>1, JoinsAdd, Zenon
  <2>4. CutLow(from, 1) = from /\ from \in Nat
    <3>1. CutLow(from, 1) \in Nat
      BY <2>1, CutEnds, Zenon
    <3> QED BY <3>1 DEF CutLow
  <2>5. Len(g[1 - 1]) = 0 /\ f[s + 1 - 2] = f[s - 1]
    BY <2>1, <2>2
  <2>6. 0 + (Len(f[s - 1]) + from) = Len(f[s - 1]) + from
    BY <2>3, <2>4
  <2>7. At(1)
    BY <2>4, <2>5, <2>6, Zenon
  <2> HIDE DEF At
  <2> QED BY <2>1, <2>7
<1>4. ASSUME NEW k \in 1..(m - 1), k \in S PROVE k + 1 \in S
  <2>1. k \in 1..m /\ k + 1 \in 1..m /\ k # m /\ k + 1 # 1 /\ (k + 1) - 1 = k
    BY <1>1
  <2>2. PICK w : /\ w = s + k - 1 /\ w \in 1..Len(b) /\ w - 1 = s + k - 2
                /\ w = s + (k + 1) - 2 /\ s + k - 1 \in 1..Len(b)
    BY <1>1, <1>2, <2>1
  <2>3. PICK x, y : /\ x = Len(f[w - 1]) /\ x \in Nat /\ y = Len(b[w]) /\ y \in Nat
                    /\ Len(f[w]) = x + y
    <3>1. w \in 1..Len(b)
      BY <2>2, Zenon
    <3>2. Len(f[w - 1]) \in Nat /\ Len(b[w]) \in Nat /\ Len(f[w]) = Len(f[w - 1]) + Len(b[w])
      BY <1>0, <3>1, JoinsAdd, Zenon
    <3> QED BY <3>2, Zenon
  <2>4. PICK t, u : /\ t = Len(g[k - 1]) /\ t \in Nat /\ u = Len(q[k]) /\ u \in Nat
                    /\ Len(g[k]) = t + u
    <3>1. k \in 1..Len(q)
      BY <1>0, <2>1
    <3>2. Len(g[k - 1]) \in Nat /\ Len(q[k]) \in Nat /\ Len(g[k]) = Len(g[k - 1]) + Len(q[k])
      BY <1>0, <3>1, JoinsAdd, Zenon
    <3> QED BY <3>2, Zenon
  <2>5. PICK low, high : /\ low = CutLow(from, k) /\ low \in Nat
                         /\ high = CutHigh(b, s, m, to, k) /\ high \in Nat
                         /\ u = high - low
    <3>1. k \in 1..m
      BY <2>1
    <3>2. CutLow(from, k) \in Nat /\ CutHigh(b, s, m, to, k) \in Nat
      BY <3>1, CutEnds, Zenon
    <3>3. Len(q[k]) = CutHigh(b, s, m, to, k) - CutLow(from, k)
      BY <3>1, CutParts
    <3> QED BY <2>4, <3>2, <3>3, Zenon
  <2>6. high = y
    BY <2>1, <2>2, <2>3, <2>5 DEF CutHigh
  <2>7. PICK c : c = Len(f[s - 1]) + from /\ c \in Nat
    <3>1. Len(f[s - 1]) \in Nat
      BY <1>0, <1>2, JoinsAdd, Zenon
    <3>2. CutLow(from, 1) \in Nat
      <4>1. 1 \in 1..m
        BY <1>1, <2>1
      <4> QED BY <4>1, CutEnds, Zenon
    <3>3. from \in Nat
      BY <3>2 DEF CutLow
    <3> QED BY <3>1, <3>3
  <2>8. t + c = x + low
    BY <1>4, <2>2, <2>3, <2>4, <2>5, <2>7
  <2>9. /\ t \in Nat /\ u \in Nat /\ x \in Nat /\ y \in Nat /\ c \in Nat /\ low \in Nat
        /\ u = y - low
    BY <2>3, <2>4, <2>5, <2>6, <2>7, Zenon
  <2>10. (t + u) + c = (x + y) + 0
    BY <2>8, <2>9
  <2>11. CutLow(from, k + 1) = 0
    BY <2>1 DEF CutLow
  <2>12. /\ Len(g[(k + 1) - 1]) = t + u /\ Len(f[s + (k + 1) - 2]) = x + y
         /\ Len(f[s - 1]) + from = c
    BY <2>1, <2>2, <2>3, <2>4, <2>7, Zenon
  <2>13. At(k + 1)
    BY <2>10, <2>11, <2>12, Zenon
  <2> HIDE DEF At
  <2> QED BY <2>1, <2>13
<1> HIDE DEF S
<1>5. 1..m \subseteq S
  <2>1. \A k \in 1..(m - 1) : k \in S => k + 1 \in S
    BY <1>4
  <2> QED BY <1>1, <1>3, <2>1, AllFrom
<1>6. j \in S
  BY <1>5
<1> QED BY <1>6 DEF S

(* Parts of sequences are, one after another, a part of them all.          *)
LEMMA FlattenCut ==
  ASSUME NEW T, NEW q, NEW b, NEW s, NEW m, NEW from, NEW to, AreCut(q, b, T, s, m, from, to),
         NEW f, Joins(f, b, T)
  PROVE  FlattenSeq(q) = SubSeq(FlattenSeq(b), Len(f[s - 1]) + from + 1, Len(f[s + m - 2]) + to)
<1>0. b \in Seq(Seq(T)) /\ q \in Seq(Seq(T)) /\ Len(q) = m
  BY CutTypes
<1>1. PICK g : Joins(g, q, T)
  BY <1>0, JoinsExists
<1>2. PICK n : n = Len(b) /\ n \in Nat /\ m \in Nat
  BY <1>0, LenProperties
<1>3. s \in 1..n /\ m \in 1..(n - s + 1) /\ m \in 1..m /\ 1 \in 1..m
  <2>1. s \in 1..Len(b) /\ m \in 1..(Len(b) - s + 1)
    BY DEF AreCut
  <2> QED BY <1>2, <2>1
<1>4. PICK all, part : all = FlattenSeq(b) /\ part = FlattenSeq(q) /\ all = f[n] /\ part = g[m]
  BY <1>0, <1>1, <1>2, FlattenIs, Zenon
<1>5. all \in Seq(T) /\ part \in Seq(T)
  <2>1. n \in 0..Len(b) /\ m \in 0..Len(q)
    BY <1>0, <1>2
  <2> QED BY <1>1, <1>4, <2>1 DEF Joins
<1>6. PICK v : v = s + m - 1 /\ v \in 1..n /\ v - 1 = s + m - 2
  BY <1>2, <1>3
<1>7. PICK c, d : /\ c = Len(f[s - 1]) /\ c \in Nat /\ d = Len(f[v - 1]) /\ d \in Nat
                  /\ Len(b[v]) \in Nat /\ Len(f[v]) = d + Len(b[v])
  <2>1. s \in 1..Len(b) /\ v \in 1..Len(b)
    BY <1>2, <1>3, <1>6
  <2>2. Len(f[s - 1]) \in Nat
    BY <1>0, <2>1, JoinsAdd, Zenon
  <2>3. Len(f[v - 1]) \in Nat /\ Len(b[v]) \in Nat /\ Len(f[v]) = Len(f[v - 1]) + Len(b[v])
    BY <1>0, <2>1, JoinsAdd, Zenon
  <2> QED BY <2>2, <2>3
<1>8. from \in Nat /\ to \in Nat /\ to <= Len(b[v])
  <2>1. CutLow(from, 1) \in Nat
    BY <1>3, CutEnds, Zenon
  <2>2. /\ CutHigh(b, s, m, to, m) \in Nat /\ CutHigh(b, s, m, to, m) <= Len(b[s + m - 1])
    BY <1>3, CutEnds, Zenon
  <2> QED BY <1>6, <2>1, <2>2 DEF CutLow, CutHigh
<1>9. PICK start, stop : start = c + from /\ start \in Nat /\ stop = d + to /\ stop \in Nat
  BY <1>7, <1>8
<1>10. Len(part) = stop - start
  <2>1. Len(g[m - 1]) + (Len(f[s - 1]) + from) = Len(f[s + m - 2]) + CutLow(from, m)
    <3>1. m \in 1..m
      BY <1>3, Zenon
    <3> QED BY <1>1, <3>1, CutStarts
  <2>2. PICK t, u : t = Len(g[m - 1]) /\ t \in Nat /\ u = Len(q[m]) /\ u \in Nat /\ Len(g[m]) = t + u
    <3>1. m \in 1..Len(q)
      BY <1>0, <1>3, Zenon
    <3>2. q \in Seq(Seq(T))
      BY <1>0, Zenon
    <3>3. Len(g[m - 1]) \in Nat /\ Len(q[m]) \in Nat /\ Len(g[m]) = Len(g[m - 1]) + Len(q[m])
      BY <1>1, <3>1, <3>2, JoinsAdd, Zenon
    <3> QED BY <3>3, Zenon
  <2>3. PICK low : low = CutLow(from, m) /\ low \in Nat
    BY <1>3, CutEnds, Zenon
  <2>4. u = to - low
    <3>0. m \in 1..m
      BY <1>3, Zenon
    <3>1. Len(q[m]) = CutHigh(b, s, m, to, m) - CutLow(from, m)
      BY <3>0, CutParts
    <3>2. CutHigh(b, s, m, to, m) = to
      BY DEF CutHigh
    <3> QED BY <2>2, <2>3, <3>1, <3>2
  <2>5. t + start = d + low
    BY <1>6, <1>7, <1>9, <2>1, <2>2, <2>3
  <2>6. /\ t \in Nat /\ u \in Nat /\ d \in Nat /\ low \in Nat /\ to \in Nat /\ start \in Nat
        /\ stop = d + to
    BY <1>7, <1>8, <1>9, <2>2, <2>3, Zenon
  <2>7. t + u = stop - start
    BY <2>4, <2>5, <2>6
  <2> QED BY <1>4, <2>2, <2>7, Zenon
<1>11. stop <= Len(all)
  <2>1. v \in 0..Len(b) /\ Len(b) \in v..Len(b)
    BY <1>2, <1>6
  <2>2. Len(f[v]) <= Len(f[Len(b)]) /\ Len(f[Len(b)]) \in Nat
    BY <1>0, <2>1, JoinsKeep, Zenon
  <2>3. d + Len(b[v]) <= Len(all) /\ Len(all) \in Nat
    BY <1>2, <1>4, <1>7, <2>2
  <2>4. PICK x, y : x = Len(b[v]) /\ y = Len(all)
    OBVIOUS
  <2>5. x \in Nat /\ y \in Nat /\ d \in Nat /\ to \in Nat /\ to <= x /\ stop = d + to /\ d + x <= y
    BY <1>7, <1>8, <1>9, <2>3, <2>4, Zenon
  <2>6. stop <= y
    BY <2>5
  <2> QED BY <2>4, <2>6
<1>12. ASSUME NEW p \in 1..Len(part) PROVE part[p] = all[start + p]
  <2>0. q \in Seq(Seq(T)) /\ b \in Seq(Seq(T)) /\ Joins(g, q, T)
    BY <1>0, <1>1, Zenon
  <2>1. PICK k \in 1..m : \E i \in 1..Len(q[k]) : p = Len(g[k - 1]) + i
    <3>1. p \in 1..Len(g[Len(q)])
      BY <1>0, <1>4, Zenon
    <3>2. IsIn(p, g, q)
      BY <2>0, <3>1, JoinsOnly, Zenon
    <3> QED BY <1>0, <3>2, Zenon DEF IsIn
  <2>2. PICK i \in 1..Len(q[k]) : p = Len(g[k - 1]) + i
    BY <2>1
  <2>3. part[p] = q[k][i]
    <3>1. k \in 1..Len(q)
      BY <1>0
    <3>2. IsAt(g, q, k, i)
      BY <2>0, <3>1, JoinsAt, Zenon
    <3> QED BY <1>0, <1>4, <2>2, <3>2, Zenon DEF IsAt
  <2>4. PICK w : w = s + k - 1 /\ w - 1 = s + k - 2 /\ w \in 1..Len(b)
    BY <1>2, <1>3
  <2>5. PICK low, high : /\ low = CutLow(from, k) /\ low \in Nat
                         /\ high = CutHigh(b, s, m, to, k) /\ high \in Nat /\ high <= Len(b[s + k - 1])
    BY CutEnds, Zenon
  <2>6. Len(q[k]) = high - low /\ \A e \in 1..(high - low) : q[k][e] = b[w][low + e]
    <3>1. /\ Len(q[k]) = CutHigh(b, s, m, to, k) - CutLow(from, k)
          /\ \A e \in 1..(CutHigh(b, s, m, to, k) - CutLow(from, k)) :
               q[k][e] = b[s + k - 1][CutLow(from, k) + e]
      BY CutParts
    <3> QED BY <2>4, <2>5, <3>1, Zenon
  <2>7. PICK x, t : x = Len(f[w - 1]) /\ x \in Nat /\ t = Len(g[k - 1]) /\ t \in Nat /\ Len(b[w]) \in Nat
    <3>1. k \in 1..Len(q)
      BY <1>0
    <3>2. Len(f[w - 1]) \in Nat /\ Len(b[w]) \in Nat
      BY <1>0, <2>4, JoinsAdd, Zenon
    <3>3. Len(g[k - 1]) \in Nat
      BY <1>0, <1>1, <3>1, JoinsAdd, Zenon
    <3> QED BY <3>2, <3>3
  <2>8. i \in 1..(high - low) /\ i \in Nat /\ low + i \in 1..Len(b[w])
    <3>1. i \in 1..(high - low)
      BY <2>6
    <3>2. high <= Len(b[w])
      BY <2>4, <2>5
    <3>3. PICK l : l = Len(b[w]) /\ l \in Nat /\ high <= l
      BY <2>7, <3>2, Zenon
    <3>4. low \in Nat /\ high \in Nat
      BY <2>5, Zenon
    <3>5. i \in Nat /\ low + i \in 1..l
      BY <3>1, <3>3, <3>4
    <3> QED BY <3>1, <3>3, <3>5, Zenon
  <2>9. q[k][i] = b[w][low + i]
    BY <2>6, <2>8, Zenon
  <2>10. all[x + (low + i)] = b[w][low + i]
    <3>1. f[Len(b)][Len(f[w - 1]) + (low + i)] = b[w][low + i]
      <4>1. PICK e : e = low + i
        OBVIOUS
      <4>2. w \in 1..Len(b) /\ e \in 1..Len(b[w])
        BY <2>4, <2>8, <4>1, Zenon
      <4>3. IsAt(f, b, w, e)
        BY <2>0, <4>2, JoinsAt, Zenon
      <4> QED BY <4>1, <4>3, Zenon DEF IsAt
    <3> QED BY <1>2, <1>4, <2>7, <3>1, Zenon
  <2>11. t + start = x + low
    <3>1. Len(g[k - 1]) + (Len(f[s - 1]) + from) = Len(f[s + k - 2]) + CutLow(from, k)
      BY <2>0, CutStarts
    <3> QED BY <1>7, <1>9, <2>4, <2>5, <2>7, <3>1, Zenon
  <2>12. start + p = x + (low + i)
    <3>1. /\ start \in Nat /\ t \in Nat /\ x \in Nat /\ low \in Nat /\ i \in Nat /\ p = t + i
      BY <1>9, <2>2, <2>5, <2>7, <2>8, Zenon
    <3> QED BY <2>11, <3>1
  <2> QED BY <2>3, <2>9, <2>10, <2>12, Zenon
<1>13. part = SubSeq(all, start + 1, stop)
  BY <1>5, <1>9, <1>10, <1>11, <1>12, IsPart, Zenon
<1>14. c + from + 1 = start + 1 /\ d + to = stop
  BY <1>7, <1>8, <1>9
<1> QED BY <1>4, <1>6, <1>7, <1>13, <1>14, Zenon

-----------------------------------------------------------------------------
(* The nearest box.                                                        *)

(* How far a place is from an interval.                                    *)
Away(left, right, x) == IF x < left THEN left - x ELSE IF x > right THEN x - right ELSE 0

(* What is in an interval is at least as far as it.                        *)
LEMMA AwayInside ==
  ASSUME NEW l \in Int, NEW r \in Int, NEW bl \in Int, NEW br \in Int, NEW x \in Int,
         l <= bl, br <= r, bl <= br
  PROVE  Away(l, r, x) <= Away(bl, br, x)
BY DEF Away

(* From outside an interval, what is at its end is as far as it.           *)
LEMMA AwayOutside ==
  ASSUME NEW l \in Int, NEW r \in Int, NEW cl \in Int, NEW cr \in Int, NEW x \in Int,
         l <= cl, cl <= cr, cr <= r, l <= r, \/ x < l /\ cl = l
                                             \/ x > r /\ cr = r
  PROVE  Away(cl, cr, x) = Away(l, r, x)
BY DEF Away

(* From inside, what is at its right end is no further than what is after  *)
LEMMA AwayAfter ==
  ASSUME NEW r \in Int, NEW cl \in Int, NEW bl \in Int, NEW br \in Int, NEW x \in Int,
         cl <= r, bl <= br, x <= r, r <= bl
  PROVE  Away(cl, r, x) <= Away(bl, br, x)
BY DEF Away

(* it, and what is at its left end nearer than what is before it.          *)
LEMMA AwayBefore ==
  ASSUME NEW l \in Int, NEW r \in Int, NEW cr \in Int, NEW bl \in Int, NEW br \in Int, NEW x \in Int,
         bl <= br, l <= x, x <= r, br <= l, br < x, l < cr \/ cr = r
  PROVE  Away(l, cr, x) < Away(bl, br, x)
BY DEF Away

(* Of two intervals the one that starts first is not left for it later.    *)
LEMMA AwayMoves ==
  ASSUME NEW l \in Int, NEW r \in Int, NEW bl \in Int, NEW br \in Int, NEW x \in Int, NEW y \in Int,
         x <= y, bl <= l, l <= r, bl <= br, Away(l, r, x) < Away(bl, br, x)
  PROVE  Away(l, r, y) < Away(bl, br, y)
BY DEF Away

(* There is only one such.                                                  *)
LEMMA FirstLeastOnly ==
  ASSUME NEW D \in SUBSET Nat, NEW f \in [D -> Nat], NEW k, IsLeastAt(f, k)
  PROVE  FirstLeast(f) = k
<1>1. k \in D
  BY DEF IsLeastAt
<1>2. PICK c : c = FirstLeast(f) /\ IsLeastAt(f, c)
  BY <1>1, FirstLeastIs
<1>3. c \in D
  BY <1>2 DEF IsLeastAt
<1>4. f[k] < f[c] \/ (f[k] = f[c] /\ k <= c)
  BY <1>3 DEF IsLeastAt
<1>5. f[c] < f[k] \/ (f[k] = f[c] /\ c <= k)
  BY <1>1, <1>2 DEF IsLeastAt
<1>6. f[k] \in Nat /\ f[c] \in Nat /\ k \in Nat /\ c \in Nat
  BY <1>1, <1>3
<1>7. c = k
  BY <1>4, <1>5, <1>6
<1> QED BY <1>2, <1>7

Boxes == Symbols \cup Words

IsBox(box) == box.left \in Int /\ box.right \in Int

(* The boxes of a word are some, each with two ends. *)
LEMMA BoxesAre ==
  ASSUME NEW word \in Words
  PROVE  /\ BoxesOf(word) \in Seq(Boxes) /\ Len(BoxesOf(word)) \in Nat \ {0}
         /\ DOMAIN BoxesOf(word) = 1..Len(BoxesOf(word))
         /\ \A i \in DOMAIN BoxesOf(word) : IsBox(BoxesOf(word)[i])
<1>1. CASE Usable(word)
  <2>1. PICK q \in Seq(Symbols) : q = usableSymbols(word) /\ Len(q) \in Nat \ {0} /\ BoxesOf(word) = q
    BY <1>1, SymbolsAre DEF BoxesOf
  <2>2. \A i \in DOMAIN q : q[i] \in Symbols
    OBVIOUS
  <2>3. \A i \in DOMAIN q : IsBox(q[i])
    BY <2>2 DEF IsBox, Symbols
  <2>4. q \in Seq(Boxes) /\ DOMAIN q = 1..Len(q)
    BY DEF Boxes
  <2> QED BY <2>1, <2>3, <2>4, Zenon
<1>2. CASE ~Usable(word)
  <2>1. BoxesOf(word) = <<word>>
    BY <1>2 DEF BoxesOf
  <2>2. word \in Boxes /\ IsBox(word)
    BY DEF Boxes, IsBox, Words
  <2> QED BY <2>1, <2>2
<1> QED BY <1>1, <1>2

(* They start one after another.                                           *)
LEMMA BoxesInOrder ==
  ASSUME NEW word \in Words, word.left <= word.right,
         NEW i \in DOMAIN BoxesOf(word), NEW j \in DOMAIN BoxesOf(word), i <= j
  PROVE  /\ BoxesOf(word)[i].left <= BoxesOf(word)[j].left
         /\ BoxesOf(word)[i].left <= BoxesOf(word)[i].right
         /\ \/ BoxesOf(word)[i].left < BoxesOf(word)[i].right
            \/ BoxesOf(word)[i].right = word.right
<1>0. IsBox(BoxesOf(word)[i])
  BY BoxesAre
<1>1. CASE Usable(word)
  <2>1. BoxesOf(word) = usableSymbols(word)
    BY <1>1 DEF BoxesOf
  <2>2. i \in DOMAIN usableSymbols(word) /\ j \in DOMAIN usableSymbols(word)
    BY <2>1
  <2>3. DOMAIN usableSymbols(word) \subseteq Int
    BY SymbolsAre
  <2>4. i <= i
    BY <2>2, <2>3
  <2>5. /\ usableSymbols(word)[i].left <= usableSymbols(word)[j].left
        /\ usableSymbols(word)[i].left < usableSymbols(word)[i].right
    <3>1. usableSymbols(word)[i].left <= usableSymbols(word)[j].left
      BY <1>1, <2>2, SymbolsInOrder
    <3>2. usableSymbols(word)[i].left < usableSymbols(word)[i].right
      BY <1>1, <2>2, <2>4, SymbolsInOrder
    <3> QED BY <3>1, <3>2
  <2> QED BY <1>0, <2>1, <2>5 DEF IsBox
<1>2. CASE ~Usable(word)
  <2>1. BoxesOf(word) = <<word>>
    BY <1>2 DEF BoxesOf
  <2>2. i = 1 /\ j = 1 /\ <<word>>[1] = word
    BY <2>1
  <2>3. BoxesOf(word)[i] = word /\ BoxesOf(word)[j] = word
    BY <2>1, <2>2
  <2> QED BY <1>0, <2>3 DEF IsBox
<1> QED BY <1>1, <1>2

(* A distance to a box is one to its interval, *)
LEMMA DistanceIsAway ==
  ASSUME NEW box, NEW x
  PROVE  distanceToBox(box, x) = Away(box.left, box.right, x)
BY DEF distanceToBox, Away

(* and a natural. *)
LEMMA AwayIs ==
  ASSUME NEW l \in Int, NEW r \in Int, NEW x \in Int
  PROVE  Away(l, r, x) \in Nat
BY DEF Away

(* What a filled word says of its boxes.                                   *)
LEMMA FilledIs ==
  ASSUME NEW word \in Words, IsFilled(word)
  PROVE  /\ word.left \in Int /\ word.right \in Int /\ word.left <= word.right
         /\ \A i \in DOMAIN BoxesOf(word) :
              /\ IsBox(BoxesOf(word)[i])
              /\ word.left <= BoxesOf(word)[i].left /\ BoxesOf(word)[i].right <= word.right
              /\ BoxesOf(word)[i].left <= BoxesOf(word)[i].right
              /\ \/ BoxesOf(word)[i].left < BoxesOf(word)[i].right
                 \/ BoxesOf(word)[i].right = word.right
         /\ \E i \in DOMAIN BoxesOf(word) : BoxesOf(word)[i].left = word.left
         /\ \E i \in DOMAIN BoxesOf(word) : BoxesOf(word)[i].right = word.right
<1>1. word.left \in Int /\ word.right \in Int
  BY SymbolsAre
<1>2. /\ word.left <= word.right
      /\ \A i \in DOMAIN BoxesOf(word) :
           word.left <= BoxesOf(word)[i].left /\ BoxesOf(word)[i].right <= word.right
      /\ \E i \in DOMAIN BoxesOf(word) : BoxesOf(word)[i].left = word.left
      /\ \E i \in DOMAIN BoxesOf(word) : BoxesOf(word)[i].right = word.right
  BY Zenon DEF IsFilled
<1>3. ASSUME NEW i \in DOMAIN BoxesOf(word)
      PROVE  /\ IsBox(BoxesOf(word)[i])
             /\ BoxesOf(word)[i].left <= BoxesOf(word)[i].right
             /\ \/ BoxesOf(word)[i].left < BoxesOf(word)[i].right
                \/ BoxesOf(word)[i].right = word.right
  <2>1. IsBox(BoxesOf(word)[i]) /\ i \in Nat
    BY BoxesAre
  <2>2. i <= i
    BY <2>1
  <2>3. /\ BoxesOf(word)[i].left <= BoxesOf(word)[i].right
        /\ \/ BoxesOf(word)[i].left < BoxesOf(word)[i].right
           \/ BoxesOf(word)[i].right = word.right
    BY <1>2, <2>2, BoxesInOrder, Zenon
  <2> QED BY <2>1, <2>3, Zenon
<1> QED BY <1>1, <1>2, <1>3, Zenon

(* One of the boxes is as near to a place as any.                          *)
IsNearestOf(boxes, i, x) ==
  \A j \in DOMAIN boxes : distanceToBox(boxes[i], x) <= distanceToBox(boxes[j], x)

(* A box is nearer than another, or as near and the first.                 *)
IsNearer(box, other, x, first) ==
  \/ distanceToBox(box, x) < distanceToBox(other, x)
  \/ distanceToBox(box, x) = distanceToBox(other, x) /\ first

(* A box as near as any of its word, of the word nearest to a place, is    *)
(* nearer than those of another word, or the first as near.                *)
LEMMA NearestBeats ==
  ASSUME NEW w \in Int, NEW v \in Int, w # v, NEW x \in Int,
         NEW word \in Words, NEW other \in Words, IsFilled(word), IsFilled(other),
         w < v => word.right <= other.left, v < w => other.right <= word.left,
         IsNearer(word, other, x, w <= v),
         NEW i \in DOMAIN BoxesOf(word), NEW j \in DOMAIN BoxesOf(other),
         IsNearestOf(BoxesOf(word), i, x)
  PROVE  IsNearer(BoxesOf(word)[i], BoxesOf(other)[j], x, w < v)
<1>1. PICK l, r, vl, vr : l = word.left /\ r = word.right /\ vl = other.left /\ vr = other.right
  OBVIOUS
<1>2. l \in Int /\ r \in Int /\ l <= r /\ vl \in Int /\ vr \in Int /\ vl <= vr
  BY <1>1, FilledIs
<1>3. PICK bl, br : /\ bl = BoxesOf(other)[j].left /\ br = BoxesOf(other)[j].right
                    /\ bl \in Int /\ br \in Int /\ vl <= bl /\ br <= vr /\ bl <= br
  <2>1. /\ IsBox(BoxesOf(other)[j])
        /\ other.left <= BoxesOf(other)[j].left /\ BoxesOf(other)[j].right <= other.right
        /\ BoxesOf(other)[j].left <= BoxesOf(other)[j].right
    BY FilledIs, Zenon
  <2> QED BY <1>1, <2>1, Zenon DEF IsBox
<1>4. PICK c \in DOMAIN BoxesOf(word) : BoxesOf(word)[c].left = word.left
  BY FilledIs, Zenon
<1>5. PICK d \in DOMAIN BoxesOf(word) : BoxesOf(word)[d].right = word.right
  BY FilledIs, Zenon
<1>6. PICK cr : /\ cr = BoxesOf(word)[c].right /\ cr \in Int /\ l <= cr /\ cr <= r /\ (l < cr \/ cr = r)
  <2>1. /\ IsBox(BoxesOf(word)[c]) /\ BoxesOf(word)[c].right <= word.right
        /\ BoxesOf(word)[c].left <= BoxesOf(word)[c].right
        /\ \/ BoxesOf(word)[c].left < BoxesOf(word)[c].right
           \/ BoxesOf(word)[c].right = word.right
    BY FilledIs, Zenon
  <2> QED BY <1>1, <1>4, <2>1 DEF IsBox
<1>7. PICK dl : /\ dl = BoxesOf(word)[d].left /\ dl \in Int /\ l <= dl /\ dl <= r
  <2>1. /\ IsBox(BoxesOf(word)[d]) /\ word.left <= BoxesOf(word)[d].left
        /\ BoxesOf(word)[d].left <= BoxesOf(word)[d].right
    BY FilledIs, Zenon
  <2> QED BY <1>1, <1>5, <2>1 DEF IsBox
<1>8. PICK near, other2 : /\ near = distanceToBox(BoxesOf(word)[i], x)
                          /\ other2 = distanceToBox(BoxesOf(other)[j], x)
  OBVIOUS
<1>9. other2 = Away(bl, br, x)
  BY <1>3, <1>8, DistanceIsAway, Zenon
<1>10. near <= Away(l, cr, x)
  <2>1. near <= distanceToBox(BoxesOf(word)[c], x)
    BY <1>8, Zenon DEF IsNearestOf
  <2> QED BY <1>1, <1>4, <1>6, <2>1, DistanceIsAway, Zenon
<1>11. near <= Away(dl, r, x)
  <2>1. near <= distanceToBox(BoxesOf(word)[d], x)
    BY <1>8, Zenon DEF IsNearestOf
  <2> QED BY <1>1, <1>5, <1>7, <2>1, DistanceIsAway, Zenon
<1>12. near \in Nat
  <2>1. IsBox(BoxesOf(word)[i])
    BY BoxesAre, Zenon
  <2> QED BY <1>8, <2>1, DistanceIs DEF IsBox
<1>13. PICK p, q, s, t, u :
         /\ p = Away(l, cr, x) /\ q = Away(dl, r, x) /\ s = Away(bl, br, x)
         /\ t = Away(l, r, x) /\ u = Away(vl, vr, x)
  OBVIOUS
<1>14. p \in Nat /\ q \in Nat /\ s \in Nat /\ t \in Nat /\ u \in Nat
  BY <1>2, <1>3, <1>6, <1>7, <1>13, AwayIs
<1>15. t < u \/ (t = u /\ w <= v)
  BY <1>1, <1>13, DistanceIsAway DEF IsNearer
<1>16. u <= s
  BY <1>2, <1>3, <1>13, AwayInside
<1>17. near <= p /\ near <= q /\ other2 = s
  BY <1>9, <1>10, <1>11, <1>13
<1>18. SUFFICES near < s \/ (near = s /\ w < v)
  BY <1>8, <1>17 DEF IsNearer
<1>19. CASE x < l \/ x > r
  <2>1. p = t \/ q = t
    <3>1. CASE x < l
      <4>1. l <= l
        BY <1>2
      <4> QED BY <1>2, <1>6, <1>13, <3>1, <4>1, AwayOutside
    <3>2. CASE x > r
      <4>1. r <= r
        BY <1>2
      <4> QED BY <1>2, <1>7, <1>13, <3>2, <4>1, AwayOutside
    <3> QED BY <1>19, <3>1, <3>2
  <2> QED BY <1>12, <1>14, <1>15, <1>16, <1>17, <2>1
<1>20. CASE l <= x /\ x <= r /\ w < v
  <2>1. r <= vl
    BY <1>1, <1>20
  <2>2. r <= bl
    BY <1>2, <1>3, <2>1
  <2>3. q <= s
    BY <1>2, <1>3, <1>7, <1>13, <1>20, <2>2, AwayAfter
  <2> QED BY <1>12, <1>14, <1>17, <1>20, <2>3
<1>21. CASE l <= x /\ x <= r /\ v < w
  <2>1. vr <= l
    BY <1>1, <1>21
  <2>2. t = 0
    BY <1>2, <1>13, <1>21 DEF Away
  <2>3. u > 0
    BY <1>14, <1>15, <1>21, <2>2
  <2>4. vr < x
    BY <1>2, <1>13, <1>21, <2>1, <2>3 DEF Away
  <2>5. br <= l /\ br < x
    BY <1>2, <1>3, <2>1, <2>4
  <2>6. p < s
    BY <1>2, <1>3, <1>6, <1>13, <1>21, <2>5, AwayBefore
  <2> QED BY <1>12, <1>14, <1>17, <2>6
<1> QED BY <1>2, <1>19, <1>20, <1>21

(* The box of a word that is nearest to a place.                           *)
NearestIn(word, x) ==
  FirstLeast([i \in DOMAIN BoxesOf(word) |-> distanceToBox(BoxesOf(word)[i], x)])

DistancesTo(boxes, x) == [i \in DOMAIN boxes |-> distanceToBox(boxes[i], x)]

(* They are naturals, and there are some. *)
LEMMA DistancesAre ==
  ASSUME NEW word \in Words, NEW x \in Int
  PROVE  /\ DistancesTo(BoxesOf(word), x) \in [DOMAIN BoxesOf(word) -> Nat]
         /\ DOMAIN BoxesOf(word) \in SUBSET Nat /\ DOMAIN BoxesOf(word) # {}
<1>1. PICK q : q = BoxesOf(word)
  OBVIOUS
<1>2. DOMAIN q = 1..Len(q) /\ Len(q) \in Nat \ {0} /\ \A i \in DOMAIN q : IsBox(q[i])
  BY <1>1, BoxesAre
<1>3. \A i \in DOMAIN q : distanceToBox(q[i], x) \in Nat
  BY <1>2, DistanceIs DEF IsBox
<1>4. DistancesTo(q, x) \in [DOMAIN q -> Nat]
  BY <1>3 DEF DistancesTo
<1>5. 1 \in DOMAIN q /\ DOMAIN q \in SUBSET Nat
  BY <1>2
<1> QED BY <1>1, <1>4, <1>5

(* It is there, and the first that is nearest. *)
LEMMA NearestIsIn ==
  ASSUME NEW word \in Words, NEW x \in Int
  PROVE  /\ NearestIn(word, x) \in DOMAIN BoxesOf(word)
         /\ IsNearestOf(BoxesOf(word), NearestIn(word, x), x)
         /\ \A j \in DOMAIN BoxesOf(word) :
              \/ distanceToBox(BoxesOf(word)[NearestIn(word, x)], x) < distanceToBox(BoxesOf(word)[j], x)
              \/ /\ distanceToBox(BoxesOf(word)[NearestIn(word, x)], x) = distanceToBox(BoxesOf(word)[j], x)
                 /\ NearestIn(word, x) <= j
<1>1. PICK D, f : D = DOMAIN BoxesOf(word) /\ f = DistancesTo(BoxesOf(word), x)
  OBVIOUS
<1>2. D \in SUBSET Nat /\ D # {} /\ f \in [D -> Nat]
  BY <1>1, DistancesAre
<1>3. IsLeastAt(f, FirstLeast(f))
  BY <1>2, FirstLeastIs
<1>4. PICK k : k = NearestIn(word, x)
  OBVIOUS
<1>5. k = FirstLeast(f)
  BY <1>1, <1>4, Zenon DEF NearestIn, DistancesTo
<1>6. k \in D /\ \A j \in D : f[k] < f[j] \/ (f[k] = f[j] /\ k <= j)
  BY <1>2, <1>3, <1>5 DEF IsLeastAt
<1>7. \A j \in D : f[j] = distanceToBox(BoxesOf(word)[j], x) /\ f[j] \in Nat
  BY <1>1, <1>2 DEF DistancesTo
<1>8. ASSUME NEW j \in D
      PROVE  /\ distanceToBox(BoxesOf(word)[k], x) <= distanceToBox(BoxesOf(word)[j], x)
             /\ \/ distanceToBox(BoxesOf(word)[k], x) < distanceToBox(BoxesOf(word)[j], x)
                \/ distanceToBox(BoxesOf(word)[k], x) = distanceToBox(BoxesOf(word)[j], x) /\ k <= j
  <2>1. PICK a, b : a = f[k] /\ b = f[j] /\ a \in Nat /\ b \in Nat
    BY <1>6, <1>7
  <2>2. a < b \/ (a = b /\ k <= j)
    BY <1>6, <2>1
  <2>3. a <= b
    BY <2>1, <2>2
  <2>4. a = distanceToBox(BoxesOf(word)[k], x) /\ b = distanceToBox(BoxesOf(word)[j], x)
    BY <1>6, <1>7, <2>1
  <2> QED BY <2>2, <2>3, <2>4, Zenon
<1> QED BY <1>1, <1>4, <1>6, <1>8, Zenon DEF IsNearestOf

(* Further to the right it is not one further to the left.                 *)
LEMMA NearestMoves ==
  ASSUME NEW word \in Words, word.left <= word.right, NEW x \in Int, NEW y \in Int, x <= y
  PROVE  NearestIn(word, x) <= NearestIn(word, y)
<1>1. PICK i, j : i = NearestIn(word, x) /\ j = NearestIn(word, y)
  OBVIOUS
<1>2. i \in DOMAIN BoxesOf(word) /\ j \in DOMAIN BoxesOf(word)
  BY <1>1, NearestIsIn
<1>3. i \in Nat /\ j \in Nat
  BY <1>2, BoxesAre
<1> SUFFICES ASSUME j < i PROVE FALSE
  BY <1>1, <1>3
<1>4. \/ distanceToBox(BoxesOf(word)[i], x) < distanceToBox(BoxesOf(word)[j], x)
      \/ distanceToBox(BoxesOf(word)[i], x) = distanceToBox(BoxesOf(word)[j], x) /\ i <= j
  BY <1>1, <1>2, NearestIsIn, Zenon
<1>5. IsNearestOf(BoxesOf(word), j, y)
  BY <1>1, NearestIsIn, Zenon
<1>6. distanceToBox(BoxesOf(word)[j], y) <= distanceToBox(BoxesOf(word)[i], y)
  BY <1>2, <1>5, Zenon DEF IsNearestOf
<1>7. IsBox(BoxesOf(word)[i]) /\ IsBox(BoxesOf(word)[j])
  BY <1>2, BoxesAre
<1>8. BoxesOf(word)[j].left <= BoxesOf(word)[i].left /\ BoxesOf(word)[j].left <= BoxesOf(word)[j].right
  <2>1. j <= i
    BY <1>3
  <2> QED BY <1>2, <2>1, BoxesInOrder, Zenon
<1>9. BoxesOf(word)[i].left <= BoxesOf(word)[i].right
  <2>1. i <= i
    BY <1>3
  <2> QED BY <1>2, <2>1, BoxesInOrder, Zenon
<1>10. PICK l, r, bl, br : /\ l = BoxesOf(word)[i].left /\ r = BoxesOf(word)[i].right
                           /\ bl = BoxesOf(word)[j].left /\ br = BoxesOf(word)[j].right
  OBVIOUS
<1>11. /\ l \in Int /\ r \in Int /\ bl \in Int /\ br \in Int
       /\ bl <= l /\ l <= r /\ bl <= br
  BY <1>7, <1>8, <1>9, <1>10 DEF IsBox
<1>12. Away(l, r, x) < Away(bl, br, x)
  <2>1. PICK a, b : a = Away(l, r, x) /\ b = Away(bl, br, x)
    OBVIOUS
  <2>2. a \in Nat /\ b \in Nat
    BY <1>11, <2>1, AwayIs
  <2>3. a < b \/ (a = b /\ i <= j)
    BY <1>4, <1>10, <2>1, DistanceIsAway
  <2>4. a < b
    BY <1>3, <2>2, <2>3
  <2> QED BY <2>1, <2>4
<1>13. Away(l, r, y) < Away(bl, br, y)
  BY <1>11, <1>12, AwayMoves
<1>14. PICK a, b : a = Away(l, r, y) /\ b = Away(bl, br, y)
  OBVIOUS
<1>15. a \in Nat /\ b \in Nat /\ a < b
  BY <1>11, <1>13, <1>14, AwayIs
<1>16. b <= a
  BY <1>6, <1>10, <1>14, DistanceIsAway
<1> QED BY <1>15, <1>16

(* A word that is hit is the first that is nearest of all.                 *)
LEMMA HitIsNearest ==
  ASSUME NEW source \in Seq(Words), NEW x \in Int, hit(source, x) # NoWord
  PROVE  /\ hit(source, x) \in DOMAIN source
         /\ \A v \in DOMAIN source :
              \/ distanceToBox(source[hit(source, x)], x) < distanceToBox(source[v], x)
              \/ /\ distanceToBox(source[hit(source, x)], x) = distanceToBox(source[v], x)
                 /\ hit(source, x) <= v
<1> DEFINE near == {i \in DOMAIN source : distanceToBox(source[i], x) <= Near}
           f == [i \in near |-> distanceToBox(source[i], x)]
<1>1. \A i \in DOMAIN source : distanceToBox(source[i], x) \in Nat
  <2>1. ASSUME NEW i \in DOMAIN source PROVE distanceToBox(source[i], x) \in Nat
    <3>1. source[i] \in Words
      OBVIOUS
    <3> QED BY <3>1, SymbolsAre, DistanceIs
  <2> QED BY <2>1
<1>2. near \in SUBSET Nat /\ near \subseteq DOMAIN source /\ DOMAIN source \subseteq Nat
  OBVIOUS
<1>3. f \in [near -> Nat]
  BY <1>1
<1>4. hit(source, x) = IF near = {} THEN NoWord ELSE FirstLeast(f)
  BY Zenon DEF hit
<1>5. near # {} /\ hit(source, x) = FirstLeast(f)
  BY <1>4
<1>6. IsLeastAt(f, FirstLeast(f))
  <2> HIDE DEF near, f
  <2> QED BY <1>2, <1>3, <1>5, FirstLeastIs
<1>7. PICK w : w = hit(source, x)
  OBVIOUS
<1>8. w \in near /\ \A v \in near : f[w] < f[v] \/ (f[w] = f[v] /\ w <= v)
  <2> HIDE DEF near, f
  <2> QED BY <1>3, <1>5, <1>6, <1>7 DEF IsLeastAt
<1>9. ASSUME NEW v \in DOMAIN source
      PROVE  \/ distanceToBox(source[w], x) < distanceToBox(source[v], x)
             \/ distanceToBox(source[w], x) = distanceToBox(source[v], x) /\ w <= v
  <2>1. CASE v \in near
    BY <1>8, <2>1
  <2>2. CASE v \notin near
    <3>1. PICK a, b : a = distanceToBox(source[w], x) /\ b = distanceToBox(source[v], x)
      OBVIOUS
    <3>2. a \in Nat /\ b \in Nat /\ a <= Near /\ ~(b <= Near)
      BY <1>1, <1>2, <1>8, <2>2, <3>1
    <3>3. a < b
      BY <3>2, SelectionAssumption
    <3> QED BY <3>1, <3>3
  <2> QED BY <2>1, <2>2
<1> QED BY <1>2, <1>7, <1>8, <1>9, Zenon

BoxedAs(source) == [w \in DOMAIN source |-> BoxesOf(source[w])]

(* What the boxes of all words are, word after word. *)
LEMMA BoxedIs ==
  ASSUME NEW source \in Seq(Words)
  PROVE  /\ BoxedAs(source) \in Seq(Seq(Boxes)) /\ Len(BoxedAs(source)) = Len(source)
         /\ Len(source) \in Nat /\ DOMAIN source = 1..Len(source)
         /\ \A w \in DOMAIN source : /\ source[w] \in Words
                                     /\ BoxedAs(source)[w] = BoxesOf(source[w])
                                     /\ BoxesOf(source[w]) \in Seq(Boxes)
                                     /\ Len(BoxesOf(source[w])) \in Nat \ {0}
<1>1. Len(source) \in Nat /\ DOMAIN source = 1..Len(source)
  OBVIOUS
<1>2. \A w \in DOMAIN source : source[w] \in Words
  OBVIOUS
<1>3. \A w \in DOMAIN source :
        /\ BoxesOf(source[w]) \in Seq(Boxes) /\ Len(BoxesOf(source[w])) \in Nat \ {0}
  BY <1>2, BoxesAre
<1>4. PICK n \in Nat : n = Len(source)
  BY <1>1
<1>5. BoxedAs(source) = [w \in 1..n |-> BoxesOf(source[w])]
  BY <1>1, <1>4 DEF BoxedAs
<1>6. BoxedAs(source) \in Seq(Seq(Boxes)) /\ Len(BoxedAs(source)) = n
  BY <1>1, <1>3, <1>4, <1>5
<1>7. \A w \in DOMAIN source : BoxedAs(source)[w] = BoxesOf(source[w])
  BY DEF BoxedAs
<1> QED BY <1>1, <1>2, <1>3, <1>4, <1>6, <1>7

-----------------------------------------------------------------------------
(* What a drag takes.                                                      *)

(* A precise range of words, in offsets of their boxes.                    *)
RangeOf(s, from, e, to) ==
  [start |-> [word |-> s, offset |-> from], end |-> [word |-> e, offset |-> to], whole |-> FALSE]

IsPrecise(source, s, from, e, to) ==
  /\ s \in DOMAIN source /\ e \in DOMAIN source /\ s <= e
  /\ from \in 0..(Len(BoxesOf(source[s])) - 1) /\ to \in 1..Len(BoxesOf(source[e]))
  /\ s = e => from < to

(* What it takes of each of its words is not nothing, and all it takes is  *)
(* a part of all that could be taken.                                      *)
LEMMA HighlightIs ==
  ASSUME NEW source \in Seq(Words), NEW s, NEW from, NEW e, NEW to,
         IsPrecise(source, s, from, e, to), NEW f, Joins(f, BoxedAs(source), Boxes)
  PROVE  highlightBoxes(source, RangeOf(s, from, e, to)) =
           SubSeq(FlattenSeq(BoxedAs(source)), Len(f[s - 1]) + from + 1, Len(f[e - 1]) + to)
<1>1. PICK b : b = BoxedAs(source)
  OBVIOUS
<1>2. PICK n : n = Len(source) /\ n \in Nat /\ DOMAIN source = 1..n /\ Len(b) = n
  BY <1>1, BoxedIs
<1>3. \A w \in 1..n : /\ b[w] = BoxesOf(source[w]) /\ b[w] \in Seq(Boxes)
                      /\ Len(b[w]) \in Nat \ {0} /\ source[w] \in Words
  BY <1>1, <1>2, BoxedIs
<1>4. /\ s \in 1..n /\ e \in 1..n /\ s <= e /\ from \in 0..(Len(b[s]) - 1)
      /\ to \in 1..Len(b[e]) /\ (s = e => from < to)
  <2>1. s \in 1..n /\ e \in 1..n
    BY <1>2 DEF IsPrecise
  <2>2. b[s] = BoxesOf(source[s]) /\ b[e] = BoxesOf(source[e])
    BY <1>3, <2>1
  <2> QED BY <2>1, <2>2 DEF IsPrecise
<1>5. PICK m : m = e - s + 1 /\ m \in 1..(n - s + 1) /\ e = s + m - 1 /\ (m = 1 => s = e) /\ m \in Nat
               /\ e - 1 = s + m - 2
  BY <1>2, <1>4
<1>6. PICK q : q = [k \in 1..m |-> SubSeq(b[s + k - 1], CutLow(from, k) + 1, CutHigh(b, s, m, to, k))]
  OBVIOUS
<1>7. AreCut(q, b, Boxes, s, m, from, to)
  <2>1. b \in Seq(Seq(Boxes))
    BY <1>1, BoxedIs
  <2> QED BY <1>2, <1>4, <1>5, <1>6, <2>1 DEF AreCut
<1>8. q \in Seq(Seq(Boxes)) /\ Len(q) = m
  BY <1>7, CutTypes
<1>9. FlattenSeq(q) = SubSeq(FlattenSeq(b), Len(f[s - 1]) + from + 1, Len(f[s + m - 2]) + to)
  BY <1>1, <1>7, FlattenCut
<1>10. ASSUME NEW k \in 1..m
       PROVE  /\ s + k - 1 \in 1..n
              /\ q[k] # <<>>
              /\ CutLow(from, k) = (IF s + k - 1 = s THEN from ELSE 0)
              /\ CutHigh(b, s, m, to, k) = (IF s + k - 1 = e THEN to ELSE Len(b[s + k - 1]))
  <2>1. s + k - 1 \in 1..n /\ (s + k - 1 = s <=> k = 1) /\ (s + k - 1 = e <=> k = m)
    BY <1>2, <1>4, <1>5
  <2>2. PICK w : w = s + k - 1
    OBVIOUS
  <2>3. CutLow(from, k) = (IF w = s THEN from ELSE 0)
    BY <2>1, <2>2 DEF CutLow
  <2>4. CutHigh(b, s, m, to, k) = (IF w = e THEN to ELSE Len(b[w]))
    BY <2>1, <2>2 DEF CutHigh
  <2>5. PICK low, high : low = CutLow(from, k) /\ high = CutHigh(b, s, m, to, k)
    OBVIOUS
  <2>6. low \in Nat /\ high \in Nat /\ Len(q[k]) = high - low
    <3>1. CutLow(from, k) \in Nat /\ CutHigh(b, s, m, to, k) \in Nat
      BY <1>7, CutEnds, Zenon
    <3>2. Len(q[k]) = CutHigh(b, s, m, to, k) - CutLow(from, k)
      BY <1>7, CutParts
    <3> QED BY <2>5, <3>1, <3>2, Zenon
  <2>7. low < high
    <3>1. PICK l : l = Len(b[w]) /\ l \in Nat \ {0}
      BY <1>3, <2>1, <2>2
    <3>2. PICK le : le = Len(b[e]) /\ le \in Nat
      BY <1>3, <1>4
    <3>3. PICK ls : ls = Len(b[s]) /\ ls \in Nat
      BY <1>3, <1>4
    <3>4. from \in 0..(ls - 1) /\ to \in 1..le /\ (s = e => from < to)
      BY <1>4, <3>2, <3>3
    <3>5. (w = e => le = l) /\ (w = s => ls = l)
      BY <3>1, <3>2, <3>3
    <3>6. /\ low = (IF w = s THEN from ELSE 0) /\ high = (IF w = e THEN to ELSE l)
      BY <2>3, <2>4, <2>5, <3>1
    <3> QED BY <3>1, <3>2, <3>3, <3>4, <3>5, <3>6
  <2>8. q[k] # <<>>
    BY <2>6, <2>7
  <2> QED BY <2>1, <2>2, <2>3, <2>4, <2>8
<1> DEFINE range == RangeOf(s, from, e, to)
           piece(w) ==
             LET symbols == usableSymbols(source[w])
                 first == IF w = range.start.word THEN range.start.offset ELSE 0
                 last == IF w = range.end.word THEN range.end.offset ELSE Len(symbols)
                 part == SubSeq(symbols, first + 1, last)
             IN IF symbols = <<>> \/ range.whole
                THEN [text |-> source[w].text, boxes |-> <<source[w]>>]
                ELSE [text |-> FlattenSeq([i \in DOMAIN part |-> part[i].text]), boxes |-> part]
<1>11. /\ range.start.word = s /\ range.start.offset = from /\ range.end.word = e
       /\ range.end.offset = to /\ range.whole = FALSE /\ range # NoRange
  BY <1>4 DEF RangeOf, NoRange, NoWord
<1>12. pieces(source, range) =
         FlattenSeq([i \in 1..(range.end.word - range.start.word + 1) |->
                       IF piece(range.start.word + i - 1).boxes = <<>> THEN <<>>
                       ELSE <<piece(range.start.word + i - 1)>>])
  BY <1>11, Zenon DEF pieces
<1>13. ASSUME NEW k \in 1..m
       PROVE  piece(s + k - 1).boxes = q[k]
  <2>1. PICK w : w = s + k - 1 /\ w \in 1..n
    BY <1>10
  <2>2. q[k] = SubSeq(b[w], CutLow(from, k) + 1, CutHigh(b, s, m, to, k))
    BY <1>6, <2>1
  <2>3. /\ CutLow(from, k) = (IF w = s THEN from ELSE 0)
        /\ CutHigh(b, s, m, to, k) = (IF w = e THEN to ELSE Len(b[w]))
    BY <1>10, <2>1
  <2>4. b[w] = BoxesOf(source[w])
    BY <1>3, <2>1
  <2>5. CASE Usable(source[w])
    <3>1. usableSymbols(source[w]) = b[w] /\ usableSymbols(source[w]) # <<>>
      BY <2>4, <2>5 DEF BoxesOf, Usable
    <3>2. piece(w).boxes = SubSeq(b[w], (IF w = s THEN from ELSE 0) + 1, IF w = e THEN to ELSE Len(b[w]))
      <4> HIDE DEF range
      <4> QED BY <1>11, <3>1
    <3> QED BY <2>1, <2>2, <2>3, <3>2, Zenon
  <2>6. CASE ~Usable(source[w])
    <3>1. b[w] = <<source[w]>> /\ usableSymbols(source[w]) = <<>>
      BY <2>4, <2>6 DEF BoxesOf, Usable
    <3>2. piece(w).boxes = <<source[w]>>
      BY <3>1
    <3>3. CutLow(from, k) = 0 /\ CutHigh(b, s, m, to, k) = 1
      <4>1. Len(b[w]) = 1
        BY <3>1
      <4>2. w = s => from = 0
        <5>1. w = s => from \in 0..(1 - 1)
          BY <1>4, <4>1
        <5> QED BY <5>1
      <4>3. w = e => to = 1
        <5>1. w = e => to \in 1..1
          BY <1>4, <4>1
        <5> QED BY <5>1
      <4> QED BY <2>3, <4>1, <4>2, <4>3
    <3>4. q[k] = SubSeq(<<source[w]>>, 0 + 1, 1)
      BY <2>2, <3>1, <3>3
    <3>5. SubSeq(<<source[w]>>, 0 + 1, 1) = <<source[w]>>
      <4>1. PICK x : x = source[w]
        OBVIOUS
      <4>2. <<x>> \in Seq({x}) /\ Len(<<x>>) = 1 /\ 1 - 0 = 1 /\ \A p \in 1..1 : <<x>>[p] = <<x>>[0 + p]
        OBVIOUS
      <4>3. <<x>> = SubSeq(<<x>>, 0 + 1, 1)
        BY <4>2, IsPart
      <4> QED BY <4>1, <4>3
    <3> QED BY <2>1, <3>2, <3>4, <3>5, Zenon
  <2> QED BY <2>5, <2>6
<1> HIDE DEF range, piece
<1> DEFINE all == {piece(s + k - 1) : k \in 1..m}
           parts == [k \in 1..m |-> piece(s + k - 1)]
           each == [k \in 1..m |-> <<piece(s + k - 1)>>]
<1>14. parts \in Seq(all) /\ Len(parts) = m /\ DOMAIN parts = 1..m /\ \A k \in 1..m : parts[k] = piece(s + k - 1)
  <2>1. \A k \in 1..m : piece(s + k - 1) \in all
    OBVIOUS
  <2> HIDE DEF all
  <2>2. parts \in [1..m -> all]
    BY <2>1, Zenon
  <2>3. parts \in Seq(all) /\ Len(parts) = m /\ DOMAIN parts = 1..m
    <3> HIDE DEF parts
    <3> QED BY <1>5, <2>2
  <2> QED BY <2>3, Zenon
<1>15. each \in Seq(Seq(all)) /\ Len(each) = m /\ \A k \in 1..m : each[k] = <<piece(s + k - 1)>>
  <2>1. \A k \in 1..m : <<piece(s + k - 1)>> \in Seq(all)
    <3>1. \A k \in 1..m : piece(s + k - 1) \in all
      OBVIOUS
    <3> HIDE DEF all
    <3> QED BY <3>1
  <2> HIDE DEF all
  <2>2. each \in [1..m -> Seq(all)]
    BY <2>1, Zenon
  <2>3. each \in Seq(Seq(all)) /\ Len(each) = m
    <3> HIDE DEF each
    <3>1. PICK S, x : S = Seq(all) /\ x = each /\ x \in [1..m -> S] /\ m \in Nat
      BY <1>5, <2>2, Zenon
    <3>2. x \in Seq(S) /\ Len(x) = m
      BY <3>1
    <3> QED BY <3>1, <3>2, Zenon
  <2> QED BY <2>3, Zenon
<1>16. pieces(source, range) = FlattenSeq(each)
  <2>1. range.end.word - range.start.word + 1 = m
    BY <1>5, <1>11
  <2>2. \A k \in 1..m : (IF piece(s + k - 1).boxes = <<>> THEN <<>> ELSE <<piece(s + k - 1)>>)
                        = <<piece(s + k - 1)>>
    BY <1>10, <1>13
  <2>3. [i \in 1..m |-> IF piece(s + i - 1).boxes = <<>> THEN <<>> ELSE <<piece(s + i - 1)>>]
          = each
    BY <2>2, Zenon
  <2> HIDE DEF each
  <2> QED BY <1>11, <1>12, <2>1, <2>3, Zenon
<1>17. FlattenSeq(each) = parts
  <2>1. Singles(each, parts)
    <3> HIDE DEF each, parts
    <3> QED BY <1>14, <1>15 DEF Singles
  <2> HIDE DEF each, parts, all
  <2> QED BY <1>14, <1>15, <2>1, FlattenSingles, Zenon
<1>18. [i \in DOMAIN parts |-> parts[i].boxes] = q
  <2>1. q = [k \in 1..m |-> q[k]]
    BY <1>6
  <2>2. \A k \in 1..m : parts[k].boxes = q[k]
    BY <1>13, <1>14
  <2> HIDE DEF parts
  <2>3. [i \in 1..m |-> parts[i].boxes] = [k \in 1..m |-> q[k]]
    BY <2>2, Zenon
  <2> QED BY <1>14, <2>1, <2>3, Zenon
<1>19. highlightBoxes(source, range) = FlattenSeq(q)
  <2> HIDE DEF parts, each
  <2>1. pieces(source, range) = parts
    BY <1>16, <1>17, Zenon
  <2> QED BY <1>18, <2>1, Zenon DEF highlightBoxes
<1> QED BY <1>1, <1>5, <1>9, <1>19, Zenon DEF range

(* A range that is said not to be of whole words.                          *)
LEMMA PartOfWhole ==
  ASSUME NEW p, NEW q, NEW t, NEW u
  PROVE  [[start |-> p, end |-> q, whole |-> t] EXCEPT !.whole = u]
           = [start |-> p, end |-> q, whole |-> u]
OBVIOUS

(* All boxes are those of the words one after another.                     *)
LEMMA AllBoxesIs ==
  ASSUME NEW source \in Seq(Words), source # <<>>
  PROVE  AllBoxes(source) = FlattenSeq(BoxedAs(source))
<1>1. PICK n : n = Len(source) /\ n \in Nat \ {0} /\ DOMAIN source = 1..n
  <2>1. Len(source) \in Nat \ {0} /\ DOMAIN source = 1..Len(source)
    OBVIOUS
  <2> QED BY <2>1, Zenon
<1>2. PICK b : /\ b = BoxedAs(source) /\ b \in Seq(Seq(Boxes)) /\ Len(b) = n
  BY <1>1, BoxedIs
<1>3. PICK f : Joins(f, b, Boxes)
  BY <1>2, JoinsExists
<1>4. PICK l : /\ l = Len(BoxesOf(source[n])) /\ l \in Nat \ {0} /\ b[n] = BoxesOf(source[n])
               /\ n \in DOMAIN source
  BY <1>1, <1>2, BoxedIs
<1>5. (IF Usable(source[n]) THEN Len(usableSymbols(source[n])) ELSE 1) = l
  <2>1. Usable(source[n]) => BoxesOf(source[n]) = usableSymbols(source[n])
    BY DEF BoxesOf
  <2>2. ~Usable(source[n]) => Len(BoxesOf(source[n])) = 1
    BY DEF BoxesOf
  <2> QED BY <1>4, <2>1, <2>2
<1>6. [WholeWords(source, 1, Len(source)) EXCEPT !.whole = FALSE] = RangeOf(1, 0, n, l)
  <2>1. WholeWords(source, 1, Len(source)) =
          [start |-> [word |-> 1, offset |-> 0], end |-> [word |-> n, offset |-> l], whole |-> TRUE]
    BY <1>1, <1>5, Zenon DEF WholeWords
  <2>2. PICK p, q : p = [word |-> 1, offset |-> 0] /\ q = [word |-> n, offset |-> l]
    OBVIOUS
  <2>3. WholeWords(source, 1, Len(source)) = [start |-> p, end |-> q, whole |-> TRUE]
    BY <2>1, <2>2, Zenon
  <2>4. [[start |-> p, end |-> q, whole |-> TRUE] EXCEPT !.whole = FALSE]
          = [start |-> p, end |-> q, whole |-> FALSE]
    BY PartOfWhole, Zenon
  <2> QED BY <2>2, <2>3, <2>4, Zenon DEF RangeOf
<1>7. IsPrecise(source, 1, 0, n, l)
  <2>1. 1 \in DOMAIN source /\ 1 <= n
    BY <1>1
  <2>2. Len(BoxesOf(source[1])) \in Nat \ {0}
    BY <2>1, BoxedIs
  <2>3. 0 \in 0..(Len(BoxesOf(source[1])) - 1)
    BY <2>2
  <2>4. l \in 1..Len(BoxesOf(source[n])) /\ 0 < l
    BY <1>4
  <2> QED BY <1>4, <2>1, <2>3, <2>4 DEF IsPrecise
<1>8. highlightBoxes(source, RangeOf(1, 0, n, l)) =
        SubSeq(FlattenSeq(b), Len(f[1 - 1]) + 0 + 1, Len(f[n - 1]) + l)
  <2>1. Joins(f, BoxedAs(source), Boxes)
    BY <1>2, <1>3, Zenon
  <2>2. PICK s, from : s = 1 /\ from = 0
    OBVIOUS
  <2>3. IsPrecise(source, s, from, n, l)
    BY <1>7, <2>2, Zenon
  <2>4. highlightBoxes(source, RangeOf(s, from, n, l)) =
          SubSeq(FlattenSeq(BoxedAs(source)), Len(f[s - 1]) + from + 1, Len(f[n - 1]) + l)
    BY <2>1, <2>3, HighlightIs
  <2> QED BY <1>2, <2>2, <2>4, Zenon
<1>9. FlattenSeq(b) = f[n]
  BY <1>2, <1>3, FlattenIs
<1>10. f[n] \in Seq(Boxes) /\ Len(f[n]) = Len(f[n - 1]) + l
  <2>1. n \in 1..Len(b) /\ b \in Seq(Seq(Boxes)) /\ Joins(f, b, Boxes)
    BY <1>1, <1>2, <1>3
  <2>2. f[n] \in Seq(Boxes)
    BY <2>1, JoinsAdd, Zenon
  <2>3. Len(f[n]) = Len(f[n - 1]) + Len(b[n])
    BY <2>1, JoinsAdd
  <2> QED BY <1>4, <2>2, <2>3
<1>11. Len(f[1 - 1]) + 0 + 1 = 1
  <2>1. f[1 - 1] = <<>>
    BY <1>3 DEF Joins
  <2> QED BY <2>1
<1>12. PICK g : g = f[n] /\ g \in Seq(Boxes)
  BY <1>10
<1>13. SubSeq(g, 1, Len(g)) = g
  BY <1>12, SubSeqFull
<1> QED BY <1>2, <1>6, <1>8, <1>9, <1>10, <1>11, <1>12, <1>13, Zenon DEF AllBoxes

(* Where among them the nearest is.                                        *)
LEMMA BoxAtIs ==
  ASSUME NEW source \in Seq(Words), SideBySide(source), NEW x \in Int, NEW w, w = hit(source, x),
         w # NoWord, NEW f, Joins(f, BoxedAs(source), Boxes)
  PROVE  BoxAt(source, x) = Len(f[w - 1]) + NearestIn(source[w], x)
<1>1. PICK n : n = Len(source) /\ n \in Nat /\ DOMAIN source = 1..n
  BY BoxedIs
<1>2. PICK b : /\ b = BoxedAs(source) /\ b \in Seq(Seq(Boxes)) /\ Len(b) = n /\ Joins(f, b, Boxes)
  BY <1>1, BoxedIs
<1>3. \A v \in 1..n : /\ source[v] \in Words /\ b[v] = BoxesOf(source[v]) /\ b[v] \in Seq(Boxes)
  BY <1>1, <1>2, BoxedIs
<1>4. /\ w \in 1..n
      /\ \A v \in 1..n :
           \/ distanceToBox(source[w], x) < distanceToBox(source[v], x)
           \/ distanceToBox(source[w], x) = distanceToBox(source[v], x) /\ w <= v
  BY <1>1, HitIsNearest
<1>5. PICK i : i = NearestIn(source[w], x)
  OBVIOUS
<1>6. /\ i \in DOMAIN BoxesOf(source[w]) /\ IsNearestOf(BoxesOf(source[w]), i, x)
      /\ \A j \in DOMAIN BoxesOf(source[w]) :
           \/ distanceToBox(BoxesOf(source[w])[i], x) < distanceToBox(BoxesOf(source[w])[j], x)
           \/ /\ distanceToBox(BoxesOf(source[w])[i], x) = distanceToBox(BoxesOf(source[w])[j], x)
              /\ i <= j
  BY <1>3, <1>4, <1>5, NearestIsIn, Zenon
<1>7. PICK all : all = f[n] /\ AllBoxes(source) = all /\ all \in Seq(Boxes)
  <2>1. source # <<>>
    BY <1>1, <1>4
  <2>2. AllBoxes(source) = f[n]
    BY <1>2, <2>1, AllBoxesIs, FlattenIs
  <2>3. f[n] \in Seq(Boxes)
    BY <1>1, <1>2 DEF Joins
  <2> QED BY <2>2, <2>3
<1>8. PICK c : c = Len(f[w - 1]) /\ c \in Nat /\ Len(b[w]) \in Nat /\ Len(f[w]) = c + Len(b[w])
  <2>1. w \in 1..Len(b)
    BY <1>2, <1>4
  <2>2. Len(f[w - 1]) \in Nat /\ Len(b[w]) \in Nat /\ Len(f[w]) = Len(f[w - 1]) + Len(b[w])
    BY <1>2, <2>1, JoinsAdd, Zenon
  <2> QED BY <2>2
<1>9. i \in 1..Len(b[w])
  BY <1>3, <1>4, <1>6
<1>10. c + i \in 1..Len(all) /\ all[c + i] = b[w][i]
  <2>1. w \in 1..Len(b)
    BY <1>2, <1>4
  <2>2. IsAt(f, b, w, i)
    BY <1>2, <1>9, <2>1, JoinsAt, Zenon
  <2> QED BY <1>2, <1>7, <1>8, <2>2, Zenon DEF IsAt
<1>11. PICK D, g : D = 1..Len(all) /\ g = DistancesTo(all, x)
  OBVIOUS
<1>12. D \in SUBSET Nat /\ DOMAIN all = D
  BY <1>7, <1>11
<1>13. ASSUME NEW p \in D
       PROVE  /\ g[p] \in Nat
              /\ g[c + i] < g[p] \/ (g[c + i] = g[p] /\ c + i <= p)
  <2>1. p \in 1..Len(f[Len(b)])
    BY <1>2, <1>7, <1>11, <1>13
  <2>2. PICK v \in 1..Len(b) : \E j \in 1..Len(b[v]) : p = Len(f[v - 1]) + j
    <3>1. IsIn(p, f, b)
      BY <1>2, <2>1, JoinsOnly, Zenon
    <3> QED BY <3>1, Zenon DEF IsIn
  <2>3. PICK j \in 1..Len(b[v]) : p = Len(f[v - 1]) + j
    BY <2>2
  <2>4. PICK d : d = Len(f[v - 1]) /\ d \in Nat /\ p = d + j /\ Len(b[v]) \in Nat
    <3>1. Len(f[v - 1]) \in Nat /\ Len(b[v]) \in Nat
      BY <1>2, <2>2, JoinsAdd, Zenon
    <3> QED BY <2>3, <3>1
  <2>5. all[p] = b[v][j]
    <3>1. IsAt(f, b, v, j)
      BY <1>2, <2>2, <2>3, JoinsAt, Zenon
    <3> QED BY <1>2, <1>7, <2>3, <3>1, Zenon DEF IsAt
  <2>6. v \in 1..n /\ source[v] \in Words /\ b[v] = BoxesOf(source[v]) /\ source[w] \in Words
        /\ b[w] = BoxesOf(source[w])
    <3>1. v \in 1..n
      BY <1>2, <2>2
    <3> QED BY <1>3, <1>4, <3>1
  <2>7. j \in DOMAIN BoxesOf(source[v])
    BY <2>6, <2>3, BoxesAre
  <2>8. PICK near, far : /\ near = distanceToBox(BoxesOf(source[w])[i], x)
                         /\ far = distanceToBox(BoxesOf(source[v])[j], x)
    OBVIOUS
  <2>9. near \in Nat /\ far \in Nat
    <3>1. IsBox(BoxesOf(source[w])[i]) /\ IsBox(BoxesOf(source[v])[j])
      BY <1>6, <2>6, <2>7, BoxesAre
    <3> QED BY <2>8, <3>1, DistanceIs DEF IsBox
  <2>10. g[p] = far /\ g[c + i] = near
    <3>1. p \in DOMAIN all /\ c + i \in DOMAIN all
      BY <1>10, <1>11, <1>12
    <3>2. g[p] = distanceToBox(all[p], x) /\ g[c + i] = distanceToBox(all[c + i], x)
      BY <1>11, <3>1, Zenon DEF DistancesTo
    <3> QED BY <1>10, <2>5, <2>6, <2>8, <3>2, Zenon
  <2>11. CASE v = w
    <3>1. near < far \/ (near = far /\ i <= j)
      BY <1>6, <2>7, <2>8, <2>11, Zenon
    <3>2. d = c /\ i \in Nat /\ j \in Nat
      BY <1>8, <1>9, <2>3, <2>4, <2>11
    <3>3. i <= j => c + i <= p
      BY <1>8, <2>4, <3>2
    <3> QED BY <2>9, <2>10, <3>1, <3>3
  <2>12. CASE v # w
    <3>1. w \in Int /\ v \in Int /\ w # v
      BY <1>4, <2>6, <2>12
    <3>2. /\ IsFilled(source[w]) /\ IsFilled(source[v])
          /\ w < v => source[w].right <= source[v].left
          /\ v < w => source[v].right <= source[w].left
      BY <1>1, <1>4, <2>6, Zenon DEF SideBySide
    <3>3. \/ distanceToBox(source[w], x) < distanceToBox(source[v], x)
          \/ distanceToBox(source[w], x) = distanceToBox(source[v], x) /\ w <= v
      BY <1>4, <2>6
    <3>4. near < far \/ (near = far /\ w < v)
      <4>1. PICK word, other : word = source[w] /\ other = source[v]
        OBVIOUS
      <4>2. /\ word \in Words /\ other \in Words /\ IsFilled(word) /\ IsFilled(other)
            /\ w < v => word.right <= other.left
            /\ v < w => other.right <= word.left
            /\ IsNearer(word, other, x, w <= v)
            /\ i \in DOMAIN BoxesOf(word) /\ j \in DOMAIN BoxesOf(other)
            /\ IsNearestOf(BoxesOf(word), i, x)
        BY <1>6, <2>6, <2>7, <3>2, <3>3, <4>1, Zenon DEF IsNearer
      <4>3. IsNearer(BoxesOf(word)[i], BoxesOf(other)[j], x, w < v)
        BY <3>1, <4>2, NearestBeats, Zenon
      <4> QED BY <2>8, <4>1, <4>3, Zenon DEF IsNearer
    <3>5. w < v => c + i <= p
      <4> SUFFICES ASSUME w < v PROVE c + i <= p
        OBVIOUS
      <4>1. w \in 0..Len(b) /\ v - 1 \in w..Len(b)
        BY <1>1, <1>2, <1>4, <2>6
      <4>2. Len(f[w]) <= Len(f[v - 1])
        BY <1>2, <4>1, JoinsKeep, Zenon
      <4>3. PICK l : l = Len(b[w]) /\ l \in Nat /\ i \in 1..l /\ c + l <= d
        BY <1>8, <1>9, <2>4, <4>2
      <4>4. c \in Nat /\ d \in Nat /\ i \in Nat /\ j \in Nat /\ j >= 1 /\ p = d + j
        BY <1>8, <2>3, <2>4, <4>3
      <4> QED BY <4>3, <4>4
    <3> QED BY <2>9, <2>10, <3>4, <3>5
  <2> QED BY <2>9, <2>10, <2>11, <2>12
<1>14. g \in [D -> Nat]
  <2>1. g = [p \in D |-> g[p]]
    BY <1>11, <1>12 DEF DistancesTo
  <2>2. \A p \in D : g[p] \in Nat
    BY <1>13
  <2> QED BY <2>1, <2>2, Zenon
<1>15. IsLeastAt(g, c + i)
  <2>1. DOMAIN g = D /\ c + i \in D
    BY <1>10, <1>11, <1>14
  <2>2. \A p \in D : g[c + i] < g[p] \/ (g[c + i] = g[p] /\ c + i <= p)
    BY <1>13
  <2> QED BY <2>1, <2>2, Zenon DEF IsLeastAt
<1>16. FirstLeast(g) = c + i
  BY <1>12, <1>14, <1>15, FirstLeastOnly
<1>17. BoxAt(source, x) = FirstLeast(g)
  BY <1>7, <1>11, Zenon DEF BoxAt, DistancesTo
<1> QED BY <1>5, <1>8, <1>16, <1>17, Zenon

(* An end of a precise drag is before or after the nearest box.            *)
LEMMA BoundaryIsAt ==
  ASSUME NEW source \in Seq(Words), NEW w \in DOMAIN source, NEW x \in Int,
         NEW side \in {"start", "end"}
  PROVE  boundary(source, w, x, side, FALSE) =
           [word |-> w, offset |-> NearestIn(source[w], x) - (IF side = "start" THEN 1 ELSE 0)]
<1> DEFINE symbols == usableSymbols(source[w])
           gaps == [offset \in 0..Len(symbols) |->
                      IF x < Edge(symbols, offset) THEN Edge(symbols, offset) - x
                                                   ELSE x - Edge(symbols, offset)]
           away == [i \in DOMAIN symbols |-> distanceToBox(symbols[i], x)]
           offset == IF symbols = <<>> THEN IF side = "start" THEN 0 ELSE 1
                     ELSE IF FALSE THEN FirstLeast(gaps)
                     ELSE FirstLeast(away) - IF side = "start" THEN 1 ELSE 0
<1>1. boundary(source, w, x, side, FALSE) = [word |-> w, offset |-> offset]
  BY Zenon DEF boundary
<1>2. offset = NearestIn(source[w], x) - (IF side = "start" THEN 1 ELSE 0)
  <2>1. CASE symbols = <<>>
    <3>1. source[w] \in Words /\ BoxesOf(source[w]) = <<source[w]>>
      BY <2>1 DEF BoxesOf, Usable
    <3>2. NearestIn(source[w], x) \in DOMAIN BoxesOf(source[w])
      BY <3>1, NearestIsIn
    <3>3. NearestIn(source[w], x) = 1
      BY <3>1, <3>2
    <3>4. offset = IF side = "start" THEN 0 ELSE 1
      BY <2>1
    <3> HIDE DEF offset
    <3> QED BY <3>3, <3>4
  <2>2. CASE symbols # <<>>
    <3>1. BoxesOf(source[w]) = symbols
      BY <2>2 DEF BoxesOf, Usable
    <3>2. NearestIn(source[w], x) = FirstLeast(away)
      BY <3>1, Zenon DEF NearestIn
    <3> HIDE DEF away, gaps, symbols
    <3> QED BY <2>2, <3>2
  <2> QED BY <2>1, <2>2
<1> HIDE DEF offset
<1> QED BY <1>1, <1>2, Zenon

(* An offset that is put where it is.                                      *)
LEMMA OffsetStays ==
  ASSUME NEW w, NEW o
  PROVE  /\ [[word |-> w, offset |-> o] EXCEPT !.offset = o] = [word |-> w, offset |-> o]
         /\ [word |-> w, offset |-> o].word = w
         /\ [word |-> w, offset |-> o].offset = o
OBVIOUS

(* Two ends in order are a range from before the one to after the other.   *)
LEMMA NormalizedIsRange ==
  ASSUME NEW source \in Seq(Words), NEW v \in DOMAIN source, NEW w \in DOMAIN source,
         NEW i \in DOMAIN BoxesOf(source[v]), NEW j \in DOMAIN BoxesOf(source[w]),
         v < w \/ (v = w /\ i <= j)
  PROVE  /\ normalized(source, [word |-> v, offset |-> i - 1], [word |-> w, offset |-> j])
              = RangeOf(v, i - 1, w, j)
         /\ normalized(source, [word |-> w, offset |-> j], [word |-> v, offset |-> i - 1])
              = RangeOf(v, i - 1, w, j)
         /\ IsPrecise(source, v, i - 1, w, j)
<1>0. v \in Nat /\ w \in Nat /\ source[v] \in Words /\ source[w] \in Words
  OBVIOUS
<1>1. PICK k, l : k = Len(BoxesOf(source[v])) /\ l = Len(BoxesOf(source[w]))
  OBVIOUS
<1>2. k \in Nat /\ l \in Nat /\ i \in 1..k /\ j \in 1..l
  BY <1>0, <1>1, BoxesAre
<1>3. PICK o : o = i - 1 /\ o \in Nat /\ o \in 0..(k - 1)
  BY <1>2
<1>4. PICK p, q : p = [word |-> v, offset |-> o] /\ q = [word |-> w, offset |-> j]
  OBVIOUS
<1>5. p.word = v /\ p.offset = o /\ q.word = w /\ q.offset = j
  BY <1>4, OffsetStays, Zenon
<1>6. Before(p, q) /\ ~Before(q, p)
  BY <1>0, <1>2, <1>3, <1>5 DEF Before
<1>7. (IF Usable(source[p.word]) THEN p ELSE [p EXCEPT !.offset = 0]) = p
  <2>1. CASE Usable(source[v])
    BY <1>5, <2>1
  <2>2. CASE ~Usable(source[v])
    <3>1. k = 1
      BY <1>1, <2>2 DEF BoxesOf
    <3>2. o = 0
      BY <1>2, <1>3, <3>1
    <3> QED BY <1>4, <1>5, <2>2, <3>2, OffsetStays, Zenon
  <2> QED BY <2>1, <2>2
<1>8. (IF Usable(source[q.word]) THEN q ELSE [q EXCEPT !.offset = 1]) = q
  <2>1. CASE Usable(source[w])
    BY <1>5, <2>1
  <2>2. CASE ~Usable(source[w])
    <3>1. l = 1
      BY <1>1, <2>2 DEF BoxesOf
    <3>2. j = 1
      BY <1>2, <3>1
    <3> QED BY <1>4, <1>5, <2>2, <3>2, OffsetStays, Zenon
  <2> QED BY <2>1, <2>2
<1>9. normalized(source, p, q) = [start |-> p, end |-> q, whole |-> FALSE]
  BY <1>6, <1>7, <1>8, Zenon DEF normalized
<1>10. normalized(source, q, p) = [start |-> p, end |-> q, whole |-> FALSE]
  BY <1>6, <1>7, <1>8, Zenon DEF normalized
<1>11. [start |-> p, end |-> q, whole |-> FALSE] = RangeOf(v, i - 1, w, j)
  BY <1>3, <1>4, Zenon DEF RangeOf
<1>12. IsPrecise(source, v, i - 1, w, j)
  <2>1. v <= w /\ (v = w => i - 1 < j)
    BY <1>0, <1>2
  <2>2. i - 1 \in 0..(Len(BoxesOf(source[v])) - 1) /\ j \in 1..Len(BoxesOf(source[w]))
    BY <1>1, <1>2, <1>3
  <2> QED BY <2>1, <2>2 DEF IsPrecise
<1> QED BY <1>3, <1>4, <1>9, <1>10, <1>11, <1>12, Zenon

(* What a precise range of boxes, found so, takes of all of them.          *)
LEMMA BetweenIs ==
  ASSUME NEW source \in Seq(Words), NEW f, Joins(f, BoxedAs(source), Boxes),
         NEW v \in DOMAIN source, NEW w \in DOMAIN source,
         NEW i \in DOMAIN BoxesOf(source[v]), NEW j \in DOMAIN BoxesOf(source[w]),
         v < w \/ (v = w /\ i <= j)
  PROVE  /\ Len(f[v - 1]) + i \in Nat /\ Len(f[w - 1]) + j \in Nat
         /\ Len(f[v - 1]) + i <= Len(f[w - 1]) + j
         /\ highlightBoxes(source, RangeOf(v, i - 1, w, j)) =
              SubSeq(AllBoxes(source), Len(f[v - 1]) + i, Len(f[w - 1]) + j)
<1>1. PICK n : n = Len(source) /\ n \in Nat /\ DOMAIN source = 1..n
  BY BoxedIs
<1>2. PICK bs : /\ bs = BoxedAs(source) /\ bs \in Seq(Seq(Boxes)) /\ Len(bs) = n /\ Joins(f, bs, Boxes)
  BY <1>1, BoxedIs
<1>3. /\ v \in 1..Len(bs) /\ w \in 1..Len(bs) /\ source # <<>>
      /\ bs[v] = BoxesOf(source[v]) /\ bs[w] = BoxesOf(source[w])
  BY <1>1, <1>2, BoxedIs
<1>4. PICK c, d, k : /\ c = Len(f[v - 1]) /\ c \in Nat /\ d = Len(f[w - 1]) /\ d \in Nat
                     /\ k = Len(bs[v]) /\ k \in Nat /\ Len(f[v]) = c + k
  <2>1. Len(f[v - 1]) \in Nat /\ Len(bs[v]) \in Nat /\ Len(f[v]) = Len(f[v - 1]) + Len(bs[v])
    BY <1>2, <1>3, JoinsAdd, Zenon
  <2>2. Len(f[w - 1]) \in Nat
    BY <1>2, <1>3, JoinsAdd, Zenon
  <2> QED BY <2>1, <2>2, Zenon
<1>5. i \in 1..k /\ j \in Nat /\ j >= 1
  <2>1. source[v] \in Words /\ source[w] \in Words
    OBVIOUS
  <2>2. DOMAIN BoxesOf(source[v]) = 1..k
    BY <1>3, <1>4, <2>1, BoxesAre
  <2>3. DOMAIN BoxesOf(source[w]) = 1..Len(BoxesOf(source[w])) /\ Len(BoxesOf(source[w])) \in Nat
    BY <2>1, BoxesAre
  <2> QED BY <2>2, <2>3
<1>6. PICK a, b : a = c + i /\ b = d + j /\ a \in Nat /\ b \in Nat
  <2>1. c \in Nat /\ d \in Nat /\ k \in Nat /\ i \in 1..k /\ j \in Nat
    BY <1>4, <1>5, Zenon
  <2>2. c + i \in Nat /\ d + j \in Nat
    BY <2>1
  <2> QED BY <2>2, Zenon
<1>7. a <= b
  <2>1. CASE v < w
    <3>1. v \in 0..Len(bs) /\ w - 1 \in v..Len(bs)
      <4>1. PICK m : m = Len(bs) /\ m \in Nat /\ v \in 1..m /\ w \in 1..m
        BY <1>1, <1>2, <1>3, Zenon
      <4>2. v \in 0..m /\ w - 1 \in v..m
        BY <2>1, <4>1
      <4> QED BY <4>1, <4>2, Zenon
    <3>2. Len(f[v]) <= Len(f[w - 1])
      BY <1>2, <3>1, JoinsKeep, Zenon
    <3>3. c + k <= d
      BY <1>4, <3>2, Zenon
    <3>4. /\ c \in Nat /\ k \in Nat /\ d \in Nat /\ i \in 1..k /\ j \in Nat /\ j >= 1
          /\ a = c + i /\ b = d + j
      BY <1>4, <1>5, <1>6, Zenon
    <3> QED BY <3>3, <3>4
  <2>2. CASE v = w /\ i <= j
    <3>1. c = d
      BY <1>4, <2>2
    <3> QED BY <1>4, <1>5, <1>6, <2>2, <3>1
  <2> QED BY <2>1, <2>2
<1>8. PICK o : o = i - 1 /\ IsPrecise(source, v, o, w, j)
  BY NormalizedIsRange
<1>9. highlightBoxes(source, RangeOf(v, o, w, j)) =
        SubSeq(FlattenSeq(BoxedAs(source)), Len(f[v - 1]) + o + 1, Len(f[w - 1]) + j)
  BY <1>8, HighlightIs, SMTT(40)
<1>10. /\ Len(f[v - 1]) + o + 1 = a /\ Len(f[w - 1]) + j = b /\ Len(f[v - 1]) + i = a
  <2>1. c \in Nat /\ i \in 1..k /\ k \in Nat /\ o = i - 1
    BY <1>4, <1>5, <1>8, Zenon
  <2>2. c + o + 1 = c + i
    BY <2>1
  <2> QED BY <1>4, <1>6, <2>2, Zenon
<1>11. FlattenSeq(BoxedAs(source)) = AllBoxes(source)
  BY <1>3, AllBoxesIs
<1> QED BY <1>6, <1>7, <1>8, <1>9, <1>10, <1>11, Zenon

(* What is taken from the box nearest to a place to that nearest to one.   *)
IsBetween(source, anchor, focus, range) ==
  LET a == BoxAt(source, anchor)
      b == BoxAt(source, focus)
  IN highlightBoxes(source, range) =
       SubSeq(AllBoxes(source), IF a < b THEN a ELSE b, IF a < b THEN b ELSE a)

(* A precise drag over words side by side takes all between its two ends.  *)
LEMMA RangeIsBetween ==
  ASSUME NEW source \in Seq(Words), SideBySide(source), NEW anchor \in Int, NEW focus \in Int,
         rangeAt(source, anchor, focus, TRUE) # NoRange
  PROVE  IsBetween(source, anchor, focus, rangeAt(source, anchor, focus, TRUE))
<1> SUFFICES ASSUME NEW a, NEW b, a = BoxAt(source, anchor), b = BoxAt(source, focus)
             PROVE  highlightBoxes(source, rangeAt(source, anchor, focus, TRUE)) =
                      SubSeq(AllBoxes(source), IF a < b THEN a ELSE b, IF a < b THEN b ELSE a)
  BY Zenon DEF IsBetween
<1> DEFINE start == hit(source, anchor)
           end == hit(source, focus)
           forward == start < end \/ (start = end /\ anchor <= focus)
           first == IF start <= end THEN start ELSE end
           last == IF start <= end THEN end ELSE start
           at == boundary(source, start, anchor, IF forward THEN "start" ELSE "end", FALSE)
           to == boundary(source, end, focus, IF forward THEN "end" ELSE "start", FALSE)
<1>1. rangeAt(source, anchor, focus, TRUE) =
        IF NoWord \in {start, end} THEN NoRange
        ELSE IF ~TRUE THEN WholeWords(source, first, last) ELSE normalized(source, at, to)
  BY Zenon DEF rangeAt
<1>2. PICK v, w : v = start /\ w = end
  OBVIOUS
<1>3. NoWord \notin {start, end}
  <2> HIDE DEF start, end, at, to, first, last
  <2> QED BY <1>1
<1>4. v # NoWord /\ w # NoWord /\ v = hit(source, anchor) /\ w = hit(source, focus)
  BY <1>2, <1>3
<1>5. v \in DOMAIN source /\ w \in DOMAIN source
  BY <1>4, HitIsNearest
<1>6. v \in Nat /\ w \in Nat /\ source[v] \in Words /\ source[w] \in Words
  BY <1>5
<1>7. PICK i, j : i = NearestIn(source[v], anchor) /\ j = NearestIn(source[w], focus)
  OBVIOUS
<1>8. /\ i \in DOMAIN BoxesOf(source[v]) /\ j \in DOMAIN BoxesOf(source[w])
      /\ i \in Nat /\ j \in Nat
  <2>1. i \in DOMAIN BoxesOf(source[v]) /\ j \in DOMAIN BoxesOf(source[w])
    BY <1>6, <1>7, NearestIsIn
  <2>2. DOMAIN BoxesOf(source[v]) \in SUBSET Nat /\ DOMAIN BoxesOf(source[w]) \in SUBSET Nat
    BY <1>6, DistancesAre, Zenon
  <2> QED BY <2>1, <2>2
<1>9. PICK f : Joins(f, BoxedAs(source), Boxes)
  BY BoxedIs, JoinsExists
<1>10. a = Len(f[v - 1]) + i /\ b = Len(f[w - 1]) + j
  <2>1. BoxAt(source, anchor) = Len(f[v - 1]) + NearestIn(source[v], anchor)
    BY <1>4, <1>9, BoxAtIs
  <2>2. BoxAt(source, focus) = Len(f[w - 1]) + NearestIn(source[w], focus)
    BY <1>4, <1>9, BoxAtIs
  <2> QED BY <1>7, <2>1, <2>2, Zenon
<1>11. ASSUME NEW x \in Int, NEW y \in Int, x <= y, v = w
       PROVE  NearestIn(source[v], x) <= NearestIn(source[w], y)
  <2>1. source[v].left <= source[v].right
    BY <1>5, Zenon DEF SideBySide, IsFilled
  <2> QED BY <1>6, <1>11, <2>1, NearestMoves
<1> HIDE DEF start, end, first, last, forward
<1>12. normalized(source, at, to) = rangeAt(source, anchor, focus, TRUE)
  <2> HIDE DEF at, to
  <2> QED BY <1>1, <1>3
<1>13. CASE forward
  <2>1. v < w \/ (v = w /\ i <= j)
    <3>1. v < w \/ (v = w /\ anchor <= focus)
      BY <1>2, <1>13 DEF forward
    <3> QED BY <1>7, <1>11, <3>1
  <2>2. /\ at = [word |-> v, offset |-> i - 1]
        /\ to = [word |-> w, offset |-> j]
    <3>1. boundary(source, v, anchor, "start", FALSE) =
            [word |-> v, offset |-> i - (IF "start" = "start" THEN 1 ELSE 0)]
      BY <1>5, <1>7, BoundaryIsAt
    <3>2. boundary(source, w, focus, "end", FALSE) =
            [word |-> w, offset |-> j - (IF "end" = "start" THEN 1 ELSE 0)]
      BY <1>5, <1>7, BoundaryIsAt
    <3>3. j - 0 = j
      BY <1>8
    <3>4. at = boundary(source, v, anchor, "start", FALSE) /\ to = boundary(source, w, focus, "end", FALSE)
      BY <1>2, <1>13, Zenon
    <3> QED BY <3>1, <3>2, <3>3, <3>4
  <2>3. normalized(source, at, to) = RangeOf(v, i - 1, w, j)
    <3> HIDE DEF at, to
    <3> QED BY <1>5, <1>8, <2>1, <2>2, NormalizedIsRange
  <2>4. /\ a \in Nat /\ b \in Nat /\ a <= b
        /\ highlightBoxes(source, RangeOf(v, i - 1, w, j)) = SubSeq(AllBoxes(source), a, b)
    <3>1. /\ Len(f[v - 1]) + i \in Nat /\ Len(f[w - 1]) + j \in Nat
          /\ Len(f[v - 1]) + i <= Len(f[w - 1]) + j
          /\ highlightBoxes(source, RangeOf(v, i - 1, w, j)) =
               SubSeq(AllBoxes(source), Len(f[v - 1]) + i, Len(f[w - 1]) + j)
      BY <1>5, <1>8, <1>9, <2>1, BetweenIs, ZenonT(60)
    <3> QED BY <1>10, <3>1, Zenon
  <2>5. (IF a < b THEN a ELSE b) = a /\ (IF a < b THEN b ELSE a) = b
    BY <2>4
  <2> HIDE DEF at, to
  <2> QED BY <1>12, <2>3, <2>4, <2>5, Zenon
<1>14. CASE ~forward
  <2>1. w < v \/ (w = v /\ j <= i)
    <3>1. w < v \/ (w = v /\ focus <= anchor)
      BY <1>2, <1>6, <1>14 DEF forward
    <3> QED BY <1>7, <1>11, <3>1
  <2>2. /\ at = [word |-> v, offset |-> i]
        /\ to = [word |-> w, offset |-> j - 1]
    <3>1. boundary(source, v, anchor, "end", FALSE) =
            [word |-> v, offset |-> i - (IF "end" = "start" THEN 1 ELSE 0)]
      BY <1>5, <1>7, BoundaryIsAt
    <3>2. boundary(source, w, focus, "start", FALSE) =
            [word |-> w, offset |-> j - (IF "start" = "start" THEN 1 ELSE 0)]
      BY <1>5, <1>7, BoundaryIsAt
    <3>3. i - 0 = i
      BY <1>8
    <3>4. at = boundary(source, v, anchor, "end", FALSE) /\ to = boundary(source, w, focus, "start", FALSE)
      BY <1>2, <1>14, Zenon
    <3> QED BY <3>1, <3>2, <3>3, <3>4
  <2>3. normalized(source, at, to) = RangeOf(w, j - 1, v, i)
    <3> HIDE DEF at, to
    <3> QED BY <1>5, <1>8, <2>1, <2>2, NormalizedIsRange
  <2>4. /\ a \in Nat /\ b \in Nat /\ b <= a
        /\ highlightBoxes(source, RangeOf(w, j - 1, v, i)) = SubSeq(AllBoxes(source), b, a)
    <3>1. /\ Len(f[w - 1]) + j \in Nat /\ Len(f[v - 1]) + i \in Nat
          /\ Len(f[w - 1]) + j <= Len(f[v - 1]) + i
          /\ highlightBoxes(source, RangeOf(w, j - 1, v, i)) =
               SubSeq(AllBoxes(source), Len(f[w - 1]) + j, Len(f[v - 1]) + i)
      BY <1>5, <1>8, <1>9, <2>1, BetweenIs, ZenonT(60)
    <3> QED BY <1>10, <3>1, Zenon
  <2>5. (IF a < b THEN a ELSE b) = b /\ (IF a < b THEN b ELSE a) = a
    BY <2>4
  <2> HIDE DEF at, to
  <2> QED BY <1>12, <2>3, <2>4, <2>5, Zenon
<1> QED BY <1>13, <1>14

(* A range that is being made is the one of the places of its drag.        *)
DragIsMade ==
  drag.down /\ drag.range # NoRange =>
    /\ drag.selecting
    /\ drag.range = rangeAt(drag.words, drag.anchor, drag.focus, drag.precise)

(* A press makes such a range. *)
LEMMA PressMakes ==
  ASSUME NEW field, NEW x, NEW precise \in BOOLEAN, NEW alt \in BOOLEAN,
         PressAt(field, x, precise, alt)
  PROVE  DragIsMade'
<1> DEFINE p == pixelAt(x)
           range == IF p # Nowhere /\ ~alt THEN rangeAt(words, p, p, precise) ELSE NoRange
<1>1. drag' = [down |-> TRUE, anchor |-> p, focus |-> p, words |-> words,
               pressLocal |-> x, at |-> x,
               cropping |-> p # Nowhere /\ alt, selecting |-> p # Nowhere /\ ~alt,
               before |-> draft[field].text, precise |-> precise /\ ~alt, range |-> range]
  BY Zenon DEF PressAt
<1>2. /\ drag'.anchor = p /\ drag'.focus = p /\ drag'.words = words /\ drag'.range = range
      /\ drag'.selecting = (p # Nowhere /\ ~alt) /\ drag'.precise = (precise /\ ~alt)
  <2> HIDE DEF p, range
  <2> QED BY <1>1, Zenon
<1>3. ASSUME drag'.range # NoRange
      PROVE  drag'.selecting /\ drag'.range = rangeAt(drag'.words, drag'.anchor, drag'.focus, drag'.precise)
  <2>1. p # Nowhere /\ ~alt
    BY <1>2, <1>3
  <2>2. range = rangeAt(words, p, p, precise)
    BY <2>1, Zenon
  <2>3. drag'.precise = precise
    BY <1>2, <2>1
  <2> HIDE DEF p, range
  <2> QED BY <1>2, <2>1, <2>2, <2>3, Zenon
<1> QED BY <1>3, Zenon DEF DragIsMade

(* No handler leaves another range with the drag. *)
LEMMA DragIsMadeStep ==
  ASSUME RangeInv, DragIsMade, [Next]_vars
  PROVE  DragIsMade'
<1>1. CASE UNCHANGED drag
  BY <1>1, Zenon DEF DragIsMade
<1>2. CASE drag' = NoDrag
  BY <1>2 DEF DragIsMade, NoDrag
<1>3. ASSUME NEW field \in Fields, NEW x \in Places, NEW alt \in BOOLEAN,
             \E precise \in BOOLEAN : PressAt(field, x, precise, alt)
      PROVE  DragIsMade'
  BY <1>3, PressMakes
<1>4. ASSUME NEW x \in Places, Moved(x)
      PROVE  DragIsMade'
  <2> DEFINE p == pixelAt(x)
             range == IF drag.selecting THEN rangeAt(drag.words, drag.anchor, p, drag.precise)
                                        ELSE drag.range
  <2>1. /\ drag.down
        /\ drag' = IF p = Nowhere \/ drag.anchor = Nowhere THEN [drag EXCEPT !.at = x]
                   ELSE [drag EXCEPT !.at = x, !.focus = p, !.range = range]
    BY <1>4, Zenon DEF Moved
  <2>2. PICK r : r = range
    OBVIOUS
  <2>3. drag = [down |-> TRUE, anchor |-> drag.anchor, focus |-> drag.focus,
                words |-> drag.words, pressLocal |-> drag.pressLocal, at |-> drag.at,
                cropping |-> drag.cropping, selecting |-> drag.selecting,
                before |-> drag.before, precise |-> drag.precise, range |-> drag.range]
    BY <2>1 DEF RangeInv, DragOK
  <2>4. CASE p = Nowhere \/ drag.anchor = Nowhere
    <3>1. drag' = [drag EXCEPT !.at = x]
      BY <2>1, <2>4
    <3>2. /\ drag'.anchor = drag.anchor /\ drag'.focus = drag.focus /\ drag'.words = drag.words
          /\ drag'.range = drag.range /\ drag'.selecting = drag.selecting
          /\ drag'.precise = drag.precise
      BY <2>3, <3>1
    <3> QED BY <2>1, <3>2, Zenon DEF DragIsMade
  <2>5. CASE ~(p = Nowhere \/ drag.anchor = Nowhere)
    <3>1. PICK q : q = p
      OBVIOUS
    <3>2. drag' = [drag EXCEPT !.at = x, !.focus = q, !.range = r]
      BY <2>1, <2>2, <2>5, <3>1
    <3>3. /\ drag'.anchor = drag.anchor /\ drag'.focus = q /\ drag'.words = drag.words
          /\ drag'.range = r /\ drag'.selecting = drag.selecting /\ drag'.precise = drag.precise
      BY <2>3, <3>2
    <3>4. ASSUME r # NoRange
          PROVE  drag.selecting /\ r = rangeAt(drag.words, drag.anchor, q, drag.precise)
      <4>1. CASE drag.selecting
        BY <2>2, <3>1, <4>1, Zenon
      <4>2. CASE ~drag.selecting
        <5>1. r = drag.range
          BY <2>2, <4>2, Zenon
        <5> QED BY <2>1, <3>4, <4>2, <5>1, Zenon DEF DragIsMade
      <4> QED BY <4>1, <4>2
    <3> QED BY <3>3, <3>4, Zenon DEF DragIsMade
  <2> QED BY <2>4, <2>5
<1> USE DEF ocr, mouse
<1>5. CASE ImageReady \/ ImageFails \/ Toggle \/ Undone
  BY <1>1, <1>5 DEF ImageReady, ImageFails, Toggle, Undone
<1>6. CASE Answer
  <2>1. PICK i \in DOMAIN jobs, ok \in BOOLEAN, found \in FullAnswers \cup CropAnswers \cup {<<>>} :
          ocrFinished(i, ok, found)
    BY <1>6, Zenon DEF Answer
  <2> QED BY <1>1, <2>1 DEF ocrFinished, Finish
<1>7. ASSUME NEW field \in Fields, NEW x \in Places, NEW alt \in BOOLEAN,
             DoubleClick(field, x, alt)
      PROVE  DragIsMade'
  BY <1>3, <1>7 DEF DoubleClick, SecondPress
<1>8. ASSUME NEW field \in Fields, NEW x \in Places, NEW alt \in BOOLEAN,
             NEW precise \in BOOLEAN, Press(field, x, precise, alt)
      PROVE  DragIsMade'
  BY <1>3, <1>8 DEF Press
<1>9. CASE Released \/ Canceled
  BY <1>2, <1>9 DEF Released, Canceled
<1>10. ASSUME NEW x \in Places, NEW side \in {"start", "end"}, HandleMoved(side, x)
       PROVE  DragIsMade'
  BY <1>1, <1>10 DEF HandleMoved
<1>11. ASSUME NEW field \in Fields, SwitchColumn(field) \/ TextEdited(field)
       PROVE  DragIsMade'
  BY <1>1, <1>11 DEF SwitchColumn, TextEdited
<1>12. CASE UNCHANGED vars
  BY <1>1, <1>12 DEF vars
<1> QED BY <1>4, <1>5, <1>6, <1>7, <1>8, <1>9, <1>10, <1>11, <1>12 DEF Next

(* A precise drag selects the boxes from the one that is nearest to where  *)
(* it started to the one nearest to where it is (rangeAt, boundary and     *)
(* highlightBoxes of selection.js, and the handlers of the mouse), in      *)
(* either direction and over any number of words side by side.             *)
THEOREM DragsSelectBetween == Spec => []DragSelectsBetween
<1>1. Init => DragIsMade
  BY DEF Init, DragIsMade, NoDrag
<1>2. RangeInv /\ DragIsMade => DragSelectsBetween
  <2> SUFFICES ASSUME RangeInv, DragIsMade, drag.down, drag.precise, drag.range # NoRange,
                      SideBySide(drag.words)
               PROVE  IsBetween(drag.words, drag.anchor, drag.focus, drag.range)
    BY Zenon DEF DragSelectsBetween, IsBetween
  <2>1. /\ drag.words \in Seq(Words) /\ drag.anchor \in Int /\ drag.focus \in Int
        /\ drag.precise = TRUE
    BY DEF RangeInv, DragOK
  <2>2. drag.range = rangeAt(drag.words, drag.anchor, drag.focus, TRUE)
    BY <2>1, Zenon DEF DragIsMade
  <2> QED BY <2>1, <2>2, RangeIsBetween, Zenon
<1>3. RangeInv /\ DragIsMade /\ [Next]_vars => DragIsMade'
  BY DragIsMadeStep
<1> QED BY <1>1, <1>2, <1>3, RangeInvHolds, PTL DEF Spec
=============================================================================

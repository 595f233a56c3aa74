----------------------------- MODULE RecognizedText -----------------------------
(* The text the OCR helper has found on the screen, and a part of it: the  *)
(* algorithms of selection.js.  The text is one line: a box is an interval *)
(* [left, right], and a place is a number.  A word is a box with a text    *)
(* and its symbols, each a box with a text; a text is a sequence of        *)
(* letters.  Words are counted from 1, 0 is no word.                       *)
EXTENDS Integers, SequencesExt

CONSTANTS
  Near,          \* how far from a place its word may be
  Slack,         \* how far a symbol may reach out of its word
  Closing,       \* punctuation that follows a word without a space
  Opening        \* punctuation that is followed without a space

(* What the helper writes: every word and symbol has a box of integers. *)
Symbols == [left : Int, right : Int, text : Seq(STRING)]
Words == [left : Int, right : Int, text : Seq(STRING), symbols : Seq(Symbols)]

NoWord == 0
NoRange ==
  [start |-> [word |-> NoWord, offset |-> 0], end |-> [word |-> NoWord, offset |-> 0],
   whole |-> FALSE]

distanceToBox(box, x) ==
  IF x < box.left THEN box.left - x ELSE IF x > box.right THEN x - box.right ELSE 0

(* Where f is least, for the first time. *)
FirstLeast(f) ==
  CHOOSE i \in DOMAIN f : \A j \in DOMAIN f : f[i] < f[j] \/ (f[i] = f[j] /\ i <= j)

hit(words, x) ==
  LET near == {i \in DOMAIN words : distanceToBox(words[i], x) <= Near}
  IN IF near = {} THEN NoWord ELSE FirstLeast([i \in near |-> distanceToBox(words[i], x)])

(* The symbols of a word, or none when they are not to be relied upon. *)
usableSymbols(word) ==
  IF /\ FlattenSeq([i \in DOMAIN word.symbols |-> word.symbols[i].text]) = word.text
     /\ \A i \in DOMAIN word.symbols :
          LET symbol == word.symbols[i] IN
          /\ symbol.text # <<>>
          /\ symbol.left < symbol.right
          /\ symbol.left >= word.left - Slack
          /\ symbol.right <= word.right + Slack
          /\ i > 1 => symbol.left >= word.symbols[i - 1].left
  THEN word.symbols ELSE <<>>

Usable(word) == usableSymbols(word) # <<>>

(* Left of the symbol after an offset, right of the last. *)
Edge(symbols, offset) ==
  IF offset = Len(symbols) THEN symbols[offset].right ELSE symbols[offset + 1].left

boundary(words, w, x, side, nearest) ==
  LET symbols == usableSymbols(words[w])
      gaps == [offset \in 0..Len(symbols) |->
                 IF x < Edge(symbols, offset) THEN Edge(symbols, offset) - x
                                              ELSE x - Edge(symbols, offset)]
  IN [word |-> w,
      offset |->
        IF symbols = <<>> THEN IF side = "start" THEN 0 ELSE 1
        ELSE IF nearest THEN FirstLeast(gaps)
        ELSE FirstLeast([i \in DOMAIN symbols |-> distanceToBox(symbols[i], x)])
             - IF side = "start" THEN 1 ELSE 0]

Before(a, b) == a.word < b.word \/ (a.word = b.word /\ a.offset <= b.offset)

(* Mutant: the ends stay in the order in which they were given. *)
Mutantnormalized(words, a, b) ==
  [start |-> IF Usable(words[a.word]) THEN a ELSE [a EXCEPT !.offset = 0],
   end |-> IF Usable(words[b.word]) THEN b ELSE [b EXCEPT !.offset = 1], whole |-> FALSE]

(* A word without usable symbols is only selected as a whole. *)
normalized(words, a, b) ==
  LET first == IF Before(a, b) THEN a ELSE b
      last == IF Before(a, b) THEN b ELSE a
  IN [start |-> IF Usable(words[first.word]) THEN first ELSE [first EXCEPT !.offset = 0],
      end |-> IF Usable(words[last.word]) THEN last ELSE [last EXCEPT !.offset = 1],
      whole |-> FALSE]

WholeWords(words, first, last) ==
  [start |-> [word |-> first, offset |-> 0],
   end |-> [word |-> last,
            offset |-> IF Usable(words[last]) THEN Len(usableSymbols(words[last])) ELSE 1],
   whole |-> TRUE]

rangeAt(words, anchor, focus, precise) ==
  LET start == hit(words, anchor)
      end == hit(words, focus)
      forward == start < end \/ (start = end /\ anchor <= focus)
      first == IF start <= end THEN start ELSE end
      last == IF start <= end THEN end ELSE start
  IN IF NoWord \in {start, end} THEN NoRange
     ELSE IF ~precise THEN WholeWords(words, first, last)
     ELSE normalized(words,
                     boundary(words, start, anchor, IF forward THEN "start" ELSE "end", FALSE),
                     boundary(words, end, focus, IF forward THEN "end" ELSE "start", FALSE))

moveHandle(words, range, side, x) ==
  LET w == hit(words, x)
      moved == boundary(words, w, x, side, TRUE)
  IN IF range = NoRange \/ w = NoWord THEN range
     ELSE IF side = "start" THEN normalized(words, moved, range.end)
     ELSE normalized(words, range.start, moved)

(* What a range takes of each of its words: a text and the boxes around it. *)
pieces(words, range) ==
  LET piece(w) ==
        LET symbols == usableSymbols(words[w])
            from == IF w = range.start.word THEN range.start.offset ELSE 0
            to == IF w = range.end.word THEN range.end.offset ELSE Len(symbols)
            part == SubSeq(symbols, from + 1, to)
        IN IF symbols = <<>> \/ range.whole
           THEN [text |-> words[w].text, boxes |-> <<words[w]>>]
           ELSE [text |-> FlattenSeq([i \in DOMAIN part |-> part[i].text]), boxes |-> part]
  IN IF range = NoRange THEN <<>>
     ELSE FlattenSeq([i \in 1..(range.end.word - range.start.word + 1) |->
                        LET p == piece(range.start.word + i - 1)
                        IN IF p.boxes = <<>> THEN <<>> ELSE <<p>>])

textForSelection(words, range) ==
  FoldLeft(LAMBDA text, p :
             IF text = <<>> THEN p.text
             ELSE IF Head(p.text) \in Closing \/ Last(text) \in Opening THEN text \o p.text
             ELSE text \o <<" ">> \o p.text,
           <<>>, pieces(words, range))

highlightBoxes(words, range) ==
  LET parts == pieces(words, range)
  IN FlattenSeq([i \in DOMAIN parts |-> parts[i].boxes])

(* Where the handle of an end is drawn. *)
handleBox(words, range, side) ==
  LET part == IF side = "start" THEN range.start ELSE range.end
      symbols == usableSymbols(words[part.word])
  IN IF symbols # <<>> THEN Edge(symbols, part.offset)
     ELSE IF side = "start" THEN words[part.word].left ELSE words[part.word].right
=============================================================================

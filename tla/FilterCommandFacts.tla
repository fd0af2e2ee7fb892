------------------------- MODULE FilterCommandFacts --------------------------
(***************************************************************************)
(* What the parsers of commands return, for texts of any length: texts of  *)
(* tokens whatever was typed, and, for a command that is written as        *)
(* docs/user/filters.md has it, what its author meant.                     *)
(*                                                                         *)
(* A written list of triggers is what is left to read of it (Rests), one   *)
(* trigger less at every step; ParseTriggers makes the same steps          *)
(* (TriggerScan).  Whatever is in front of the rest, the parsers cut off   *)
(* at the first quote, comma, space or parenthesis (CutAt).                *)
(***************************************************************************)
EXTENDS FilterTextFacts

-----------------------------------------------------------------------------
(* Searching and trimming.                                                 *)

LEMMA MinIs ==
  ASSUME NEW I, I \subseteq Nat, NEW i \in I, \A j \in I : i <= j
  PROVE  Min(I) = i
<1>1. Min(I) \in I /\ \A j \in I : Min(I) <= j
  BY DEF Min
<1>2. Min(I) <= i /\ i <= Min(I) /\ Min(I) \in Nat
  BY <1>1
<1> QED
  BY <1>2

LEMMA MaxIs ==
  ASSUME NEW I, I \subseteq Nat, NEW i \in I, \A j \in I : j <= i
  PROVE  Max(I) = i
<1>1. Max(I) \in I /\ \A j \in I : Max(I) >= j
  BY DEF Max
<1>2. Max(I) <= i /\ i <= Max(I) /\ Max(I) \in Nat
  BY <1>1
<1> QED
  BY <1>2

LEMMA FirstFacts ==
  ASSUME NEW text \in Text, NEW x
  PROVE  \/ First(text, x) = 0 /\ \A i \in 1 .. Len(text) : text[i] # x
         \/ /\ First(text, x) \in 1 .. Len(text)
            /\ text[First(text, x)] = x
            /\ \A i \in 1 .. First(text, x) - 1 : text[i] # x
<1> DEFINE I == {i \in 1 .. Len(text) : text[i] = x}
<1>1. Len(text) \in Nat /\ I \subseteq Nat
  BY Lengths DEF Text
<1>2. First(text, x) = IF I # {} THEN Min(I) ELSE 0
  BY DEF First, SelectInSeq
<1>3. CASE I = {}
  BY <1>2, <1>3
<1>4. CASE I # {}
  <2>1. PICK i \in I : \A j \in I : i <= j
    <3> HIDE DEF I
    <3> QED
      BY <1>1, <1>4, Smallest
  <2>2. First(text, x) = i
    <3> HIDE DEF I
    <3> QED
      BY <1>1, <1>2, <2>1, MinIs
  <2>3. \A j \in 1 .. i - 1 : j \in 1 .. Len(text) /\ ~(i <= j)
    BY <1>1, <2>1
  <2> QED
    BY <2>1, <2>2, <2>3
<1> QED
  BY <1>3, <1>4

LEMMA FirstRange == \A text \in Text : \A x : First(text, x) \in 0 .. Len(text)
<1> TAKE text \in Text
<1> TAKE x
<1>1. Len(text) \in Nat
  BY Lengths DEF Text
<1> QED
  BY <1>1, FirstFacts

\* A part of a text, taken out of its bounds or within.
LEMMA PieceOfText ==
  \A text \in Text, l, h \in Int :
    l >= 1 /\ h <= Len(text) =>
      /\ SubSeq(text, l, h) \in Text
      /\ Len(SubSeq(text, l, h)) = IF l <= h THEN h - l + 1 ELSE 0
      /\ \A i \in 1 .. h - l + 1 : SubSeq(text, l, h)[i] = text[l + i - 1]
<1> TAKE text \in Text, l, h \in Int
<1> HAVE l >= 1 /\ h <= Len(text)
<1>1. Len(text) \in Nat /\ \A j \in 1 .. Len(text) : text[j] \in Tokens
  BY Lengths, ElementOfSeq DEF Text
<1>2. \A j \in l .. h : text[j] \in Tokens
  BY <1>1
<1> QED
  BY <1>2, SubSeqProperties DEF Text

LEMMA TailOfText ==
  ASSUME NEW text \in Text, text # << >>
  PROVE  /\ Tail(text) \in Text /\ Len(Tail(text)) = Len(text) - 1 /\ Len(text) \in Nat \ {0}
         /\ \A i \in 1 .. Len(text) - 1 : Tail(text)[i] = text[i + 1]
         /\ text[1] \in Tokens
BY HeadTailProperties, Lengths, EmptySeq DEF Text

LEMMA TrimFacts ==
  ASSUME NEW text \in Text
  PROVE  \/ TrimSpace(text) = << >> /\ \A i \in 1 .. Len(text) : text[i] \in Spaces
         \/ \E l, h \in 1 .. Len(text) :
              /\ TrimSpace(text) = SubSeq(text, l, h)
              /\ text[l] \notin Spaces /\ text[h] \notin Spaces
              /\ \A i \in 1 .. Len(text) : text[i] \notin Spaces => l <= i /\ i <= h
<1> DEFINE I == {i \in DOMAIN text : text[i] \notin Spaces}
<1>1. Len(text) \in Nat /\ DOMAIN text = 1 .. Len(text)
  BY Lengths DEF Text
<1>2. TrimSpace(text) = IF I = {} THEN << >> ELSE SubSeq(text, Min(I), Max(I))
  BY DEF TrimSpace
<1>3. CASE I = {}
  BY <1>1, <1>2, <1>3
<1>4. CASE I # {}
  <2>1. I \subseteq Nat /\ I \subseteq 0 .. Len(text)
    BY <1>1
  <2> HIDE DEF I
  <2>2. PICK l \in I : \A j \in I : l <= j
    BY <1>4, <2>1, Smallest
  <2>3. PICK h \in I : \A j \in I : j <= h
    BY <1>1, <1>4, <2>1, Largest
  <2>4. Min(I) = l /\ Max(I) = h
    BY <2>1, <2>2, <2>3, MinIs, MaxIs
  <2>5. TrimSpace(text) = SubSeq(text, l, h)
    BY <1>2, <1>4, <2>4
  <2> QED
    BY <1>1, <2>2, <2>3, <2>5 DEF I
<1> QED
  BY <1>3, <1>4

LEMMA TrimType == \A text \in Text : TrimSpace(text) \in Text
<1> TAKE text \in Text
<1>1. Len(text) \in Nat /\ << >> \in Text
  BY Lengths, NothingAdded DEF Text
<1>2. CASE TrimSpace(text) = << >>
  BY <1>1, <1>2
<1>3. CASE TrimSpace(text) # << >>
  <2>1. PICK l, h \in 1 .. Len(text) : TrimSpace(text) = SubSeq(text, l, h)
    BY <1>3, TrimFacts
  <2> QED
    BY <1>1, <2>1, PieceOfText
<1> QED
  BY <1>2, <1>3

\* No white space at either end.
Trimmed(text) ==
  text # << >> => text[1] \notin Spaces /\ text[Len(text)] \notin Spaces

LEMMA TrimTrimmed ==
  ASSUME NEW text \in Text, Trimmed(text)
  PROVE  TrimSpace(text) = text
<1>1. Len(text) \in Nat /\ (text = << >> <=> Len(text) = 0)
  BY Lengths DEF Text
<1>2. CASE text = << >>
  <2>1. ~\E l, h \in 1 .. Len(text) : TRUE
    BY <1>1, <1>2
  <2> QED
    BY <1>2, <2>1, TrimFacts
<1>3. CASE text # << >>
  <2>1. text[1] \notin Spaces /\ text[Len(text)] \notin Spaces /\ 1 \in 1 .. Len(text) /\ Len(text) \in 1 .. Len(text)
    BY <1>1, <1>3 DEF Trimmed
  <2>2. PICK l, h \in 1 .. Len(text) :
          /\ TrimSpace(text) = SubSeq(text, l, h)
          /\ \A i \in 1 .. Len(text) : text[i] \notin Spaces => l <= i /\ i <= h
    BY <2>1, TrimFacts
  <2>3. l = 1 /\ h = Len(text)
    BY <1>1, <2>1, <2>2
  <2> QED
    BY <2>2, <2>3, SubSeqFull DEF Text
<1> QED
  BY <1>2, <1>3

\* White space in front goes away.
LEMMA TrimInFront ==
  ASSUME NEW text \in Text, text # << >>, NEW x \in Spaces, Trimmed(text)
  PROVE  TrimSpace(<<x>> \o text) = text
<1> DEFINE longer == <<x>> \o text
<1>1. Len(text) \in Nat /\ Len(text) # 0 /\ text[1] \notin Spaces /\ text[Len(text)] \notin Spaces
  BY Lengths DEF Text, Trimmed
<1>2. x \in Tokens /\ <<x>> \in Text /\ Len(<<x>>) = 1 /\ <<x>>[1] = x
  BY AppendText DEF Tokens
<1>3. /\ longer \in Text /\ Len(longer) = 1 + Len(text) /\ longer[1] = x
      /\ \A i \in 2 .. 1 + Len(text) : longer[i] = text[i - 1]
  <2>1. /\ longer \in Text /\ Len(longer) = 1 + Len(text)
        /\ \A i \in 1 .. 1 + Len(text) : longer[i] = IF i <= 1 THEN <<x>>[i] ELSE text[i - 1]
    BY <1>2, ConcatProperties DEF Text
  <2> HIDE DEF longer
  <2> QED
    BY <1>1, <1>2, <2>1
<1> HIDE DEF longer
<1>4. longer[2] \notin Spaces /\ longer[1 + Len(text)] \notin Spaces
  <2>1. 2 \in 2 .. 1 + Len(text) /\ 1 + Len(text) \in 2 .. 1 + Len(text) /\ 2 - 1 = 1
        /\ (1 + Len(text)) - 1 = Len(text)
    BY <1>1
  <2> QED
    BY <1>1, <1>3, <2>1
<1>5. PICK l, h \in 1 .. Len(longer) :
        /\ TrimSpace(longer) = SubSeq(longer, l, h)
        /\ longer[l] \notin Spaces
        /\ \A i \in 1 .. Len(longer) : longer[i] \notin Spaces => l <= i /\ i <= h
  <2>1. 2 \in 1 .. Len(longer)
    BY <1>1, <1>3
  <2> QED
    BY <1>3, <1>4, <2>1, TrimFacts
<1>6. l = 2 /\ h = 1 + Len(text)
  <2>1. 2 \in 1 .. Len(longer) /\ 1 + Len(text) \in 1 .. Len(longer)
    BY <1>1, <1>3
  <2>2. l <= 2 /\ 1 + Len(text) <= h
    BY <1>4, <1>5, <2>1
  <2>3. l # 1
    BY <1>3, <1>5
  <2> QED
    BY <1>1, <1>3, <1>5, <2>2, <2>3
<1>7. /\ SubSeq(longer, 2, 1 + Len(text)) \in Text
      /\ Len(SubSeq(longer, 2, 1 + Len(text))) = Len(text)
      /\ \A i \in 1 .. Len(text) : SubSeq(longer, 2, 1 + Len(text))[i] = text[i]
  <2>1. 2 \in Int /\ 1 + Len(text) \in Int /\ 2 >= 1 /\ 1 + Len(text) <= Len(longer)
        /\ 2 <= 1 + Len(text) /\ (1 + Len(text)) - 2 + 1 = Len(text)
        /\ \A i \in 1 .. Len(text) : 2 + i - 1 \in 2 .. 1 + Len(text) /\ (2 + i - 1) - 1 = i
    BY <1>1, <1>3
  <2>2. /\ SubSeq(longer, 2, 1 + Len(text)) \in Text
        /\ Len(SubSeq(longer, 2, 1 + Len(text))) = Len(text)
        /\ \A i \in 1 .. Len(text) : SubSeq(longer, 2, 1 + Len(text))[i] = longer[2 + i - 1]
    BY <1>3, <2>1, PieceOfText
  <2> QED
    BY <1>3, <2>1, <2>2
<1>8. SubSeq(longer, 2, 1 + Len(text)) = text
  BY <1>7, SeqEqual DEF Text
<1> QED
  BY <1>5, <1>6, <1>8 DEF longer

-----------------------------------------------------------------------------
(* Texts that are put together and taken apart again.                      *)

LEMMA TwoTokens == \A a, b \in Tokens : <<a, b>> \in Text
BY DEF Text

LEMMA MarksAreTokens ==
  /\ Quote \in Tokens /\ "," \in Tokens /\ "(" \in Tokens /\ ")" \in Tokens /\ "react:" \in Tokens
  /\ "/filter" \in Tokens /\ "/stop" \in Tokens
BY DEF Tokens, Keywords, Quote

\* Something that white space cannot be trimmed off.
Solid(text) == text # << >> /\ Trimmed(text)

LEMMA Put ==
  \A x \in Tokens, a \in Text :
    /\ <<x>> \o a \in Text /\ Len(<<x>> \o a) = Len(a) + 1 /\ <<x>> \o a # << >>
    /\ (<<x>> \o a)[1] = x
    /\ \A i \in 1 .. Len(a) : (<<x>> \o a)[i + 1] = a[i]
<1> TAKE x \in Tokens, a \in Text
<1> DEFINE text == <<x>> \o a
<1>1. <<x>> \in Text /\ Len(<<x>>) = 1 /\ <<x>>[1] = x /\ Len(a) \in Nat
  BY AppendText, Lengths DEF Text
<1>2. /\ text \in Text /\ Len(text) = 1 + Len(a)
      /\ \A i \in 1 .. 1 + Len(a) : text[i] = IF i <= 1 THEN <<x>>[i] ELSE a[i - 1]
  BY <1>1, ConcatProperties DEF Text
<1> HIDE DEF text
<1>3. text # << >>
  BY <1>1, <1>2, Lengths DEF Text
<1>4. text[1] = x
  BY <1>1, <1>2
<1>5. \A i \in 1 .. Len(a) : text[i + 1] = a[i]
  <2> TAKE i \in 1 .. Len(a)
  <2>1. i + 1 \in 1 .. 1 + Len(a) /\ ~(i + 1 <= 1) /\ (i + 1) - 1 = i
    BY <1>1
  <2> QED
    BY <1>2, <2>1
<1> QED
  BY <1>1, <1>2, <1>3, <1>4, <1>5 DEF text

LEMMA SameText ==
  \A a, b \in Text : Len(a) = Len(b) /\ (\A i \in 1 .. Len(a) : a[i] = b[i]) => a = b
BY SeqEqual DEF Text

LEMMA TailOfPut == \A x \in Tokens, a \in Text : Tail(<<x>> \o a) = a
<1> TAKE x \in Tokens, a \in Text
<1> DEFINE text == <<x>> \o a
<1>1. /\ text \in Text /\ Len(text) = Len(a) + 1 /\ text # << >> /\ Len(a) \in Nat
      /\ \A i \in 1 .. Len(a) : text[i + 1] = a[i]
  BY Put, Lengths DEF Text
<1> HIDE DEF text
<1>2. /\ Tail(text) \in Text /\ Len(Tail(text)) = Len(text) - 1
      /\ \A i \in 1 .. Len(text) - 1 : Tail(text)[i] = text[i + 1]
  BY <1>1, TailOfText
<1>3. Len(text) - 1 = Len(a)
  BY <1>1
<1>4. \A i \in 1 .. Len(Tail(text)) : Tail(text)[i] = a[i]
  BY <1>1, <1>2, <1>3
<1>5. Tail(text) = a
  BY <1>2, <1>3, <1>4, SameText
<1> QED
  BY <1>5 DEF text

\* The rest of a longer text is that of the shorter one.
LEMMA PieceOfPut ==
  \A x \in Tokens, a \in Text : \A l, h \in Int :
    l >= 1 /\ h <= Len(a) => SubSeq(<<x>> \o a, l + 1, h + 1) = SubSeq(a, l, h)
<1> TAKE x \in Tokens, a \in Text
<1> TAKE l, h \in Int
<1> HAVE l >= 1 /\ h <= Len(a)
<1> DEFINE text == <<x>> \o a
<1>1. /\ text \in Text /\ Len(text) = Len(a) + 1 /\ Len(a) \in Nat
      /\ \A i \in 1 .. Len(a) : text[i + 1] = a[i]
  BY Put, Lengths DEF Text
<1> HIDE DEF text
<1> DEFINE b == SubSeq(text, l + 1, h + 1)
           c == SubSeq(a, l, h)
<1>2. /\ c \in Text /\ Len(c) = IF l <= h THEN h - l + 1 ELSE 0
      /\ \A i \in 1 .. h - l + 1 : c[i] = a[l + i - 1]
  BY PieceOfText
<1>3. /\ b \in Text /\ Len(b) = IF l + 1 <= h + 1 THEN (h + 1) - (l + 1) + 1 ELSE 0
      /\ \A i \in 1 .. (h + 1) - (l + 1) + 1 : b[i] = text[(l + 1) + i - 1]
  <2>1. l + 1 \in Int /\ h + 1 \in Int /\ l + 1 >= 1 /\ h + 1 <= Len(text)
    BY <1>1
  <2> QED
    BY <1>1, <2>1, PieceOfText
<1> HIDE DEF b, c
<1>4. Len(b) = Len(c) /\ Len(b) = IF l <= h THEN h - l + 1 ELSE 0
  BY <1>2, <1>3
<1>5. \A i \in 1 .. Len(b) : b[i] = c[i]
  <2> TAKE i \in 1 .. Len(b)
  <2>1. /\ i \in 1 .. h - l + 1 /\ i \in 1 .. (h + 1) - (l + 1) + 1
        /\ l + i - 1 \in 1 .. Len(a) /\ (l + i - 1) + 1 = (l + 1) + i - 1
    BY <1>1, <1>4
  <2> QED
    BY <1>1, <1>2, <1>3, <2>1
<1>6. b = c
  BY <1>2, <1>3, <1>4, <1>5, SameText
<1> QED
  BY <1>6 DEF b, c, text

\* A text is cut where a token stands for the first time.
LEMMA CutAt ==
  ASSUME NEW x \in Tokens, NEW a \in Text, NEW c \in Text, \A i \in 1 .. Len(a) : a[i] # x
  PROVE  LET text == a \o (<<x>> \o c)
         IN /\ text \in Text /\ First(text, x) = Len(a) + 1
            /\ First(text, x) \in 1 .. Len(text)
            /\ Before(text, First(text, x)) = a
            /\ From(text, First(text, x) + 1) = c
<1> DEFINE d == <<x>> \o c
           text == a \o d
           n == Len(a)
           m == Len(c)
<1>1. d \in Text /\ Len(d) = m + 1 /\ d[1] = x /\ \A i \in 1 .. m : d[i + 1] = c[i]
  BY Put
<1>2. n \in Nat /\ m \in Nat
  BY Lengths DEF Text
<1> HIDE DEF d
<1>3. /\ text \in Text /\ Len(text) = n + Len(d)
      /\ \A i \in 1 .. n + Len(d) : text[i] = IF i <= n THEN a[i] ELSE d[i - n]
  BY <1>1, ConcatProperties DEF Text
<1> HIDE DEF text
<1>4. /\ \A i \in 1 .. n : text[i] = a[i]
      /\ text[n + 1] = x
      /\ \A i \in 1 .. m : text[n + 1 + i] = c[i]
  <2> HIDE DEF n, m
  <2>1. \A i \in 1 .. n : i \in 1 .. n + (m + 1) /\ i <= n
    BY <1>2
  <2>2. n + 1 \in 1 .. n + (m + 1) /\ ~(n + 1 <= n) /\ (n + 1) - n = 1
    BY <1>2
  <2>3. \A i \in 1 .. m : n + 1 + i \in 1 .. n + (m + 1) /\ ~(n + 1 + i <= n) /\ (n + 1 + i) - n = i + 1
    BY <1>2
  <2> QED
    BY <1>1, <1>3, <2>1, <2>2, <2>3
<1>5. First(text, x) = n + 1
  <2> DEFINE f == First(text, x)
  <2>1. \/ f = 0 /\ \A i \in 1 .. Len(text) : text[i] # x
        \/ /\ f \in 1 .. Len(text)
           /\ text[f] = x
           /\ \A i \in 1 .. f - 1 : text[i] # x
    BY <1>3, FirstFacts
  <2> HIDE DEF f
  <2>2. \A i \in 1 .. n : text[i] # x
    BY <1>4
  <2>3. n + 1 \in 1 .. Len(text)
    BY <1>1, <1>2, <1>3
  <2>4. f \in 1 .. Len(text) /\ text[f] = x /\ \A i \in 1 .. f - 1 : text[i] # x
    BY <1>4, <2>1, <2>3
  <2>5. f \notin 1 .. n /\ n + 1 \notin 1 .. f - 1
    BY <1>4, <2>2, <2>4
  <2>6. f \in Nat /\ Len(text) \in Nat
    BY <1>1, <1>2, <1>3, <2>4
  <2>7. f = n + 1
    <3> HIDE DEF n
    <3> QED
      BY <1>2, <2>4, <2>5, <2>6
  <2> QED
    BY <2>7 DEF f
<1>6. First(text, x) \in 1 .. Len(text)
  BY <1>1, <1>2, <1>3, <1>5
<1>7. SubSeq(text, 1, n) = a
  <2> DEFINE b == SubSeq(text, 1, n)
  <2>1. /\ b \in Text /\ Len(b) = IF 1 <= n THEN n - 1 + 1 ELSE 0
        /\ \A i \in 1 .. n - 1 + 1 : b[i] = text[1 + i - 1]
    BY <1>1, <1>2, <1>3, PieceOfText
  <2> HIDE DEF b
  <2>2. Len(b) = n /\ \A i \in 1 .. n : b[i] = text[i]
    <3> HIDE DEF n
    <3>1. \A i \in 1 .. n : i \in 1 .. n - 1 + 1 /\ 1 + i - 1 = i
      BY <1>2
    <3> QED
      BY <1>2, <2>1, <3>1
  <2>3. b = a
    BY <1>4, <2>1, <2>2, SameText
  <2> QED
    BY <2>3 DEF b
<1>8. SubSeq(text, n + 2, Len(text)) = c
  <2> DEFINE b == SubSeq(text, n + 2, Len(text))
  <2>1. /\ b \in Text /\ Len(b) = IF n + 2 <= n + m + 1 THEN (n + m + 1) - (n + 2) + 1 ELSE 0
        /\ \A i \in 1 .. (n + m + 1) - (n + 2) + 1 : b[i] = text[(n + 2) + i - 1]
    <3>1. n + 2 \in Int /\ n + 2 >= 1 /\ Len(text) = n + m + 1 /\ Len(text) \in Int /\ Len(text) <= Len(text)
      BY <1>1, <1>2, <1>3
    <3> QED
      BY <1>3, <3>1, PieceOfText
  <2> HIDE DEF b
  <2>2. Len(b) = m /\ \A i \in 1 .. m : b[i] = text[n + 1 + i]
    <3> HIDE DEF n, m
    <3>1. \A i \in 1 .. m : i \in 1 .. (n + m + 1) - (n + 2) + 1 /\ (n + 2) + i - 1 = n + 1 + i
      BY <1>2
    <3> QED
      BY <1>2, <2>1, <3>1
  <2>3. b = c
    BY <1>4, <2>1, <2>2, SameText
  <2> QED
    BY <2>3 DEF b
<1>9. First(text, x) - 1 = n /\ (First(text, x) + 1) = n + 2
  BY <1>2, <1>5
<1> QED
  BY <1>3, <1>5, <1>6, <1>7, <1>8, <1>9 DEF Before, From, text, d
\* A text between two others.
LEMMA EndOfConcat ==
  \A a, b \in Text :
    /\ b # << >> => a \o b # << >> /\ (a \o b)[Len(a \o b)] = b[Len(b)]
    /\ a # << >> => a \o b # << >> /\ (a \o b)[1] = a[1]
<1> TAKE a, b \in Text
<1> DEFINE text == a \o b
           n == Len(a)
           m == Len(b)
<1>1. /\ text \in Text /\ Len(text) = n + m /\ n \in Nat /\ m \in Nat
      /\ \A i \in 1 .. n + m : text[i] = IF i <= n THEN a[i] ELSE b[i - n]
      /\ (a = << >> <=> n = 0) /\ (b = << >> <=> m = 0) /\ (text = << >> <=> Len(text) = 0)
  BY ConcatProperties, Lengths DEF Text
<1> HIDE DEF text, n, m
<1>2. ASSUME m # 0 PROVE text # << >> /\ text[Len(text)] = b[m]
  <2>1. n + m \in 1 .. n + m /\ ~(n + m <= n) /\ (n + m) - n = m /\ n + m # 0
    BY <1>1, <1>2
  <2> QED
    BY <1>1, <2>1
<1>3. ASSUME n # 0 PROVE text # << >> /\ text[1] = a[1]
  <2>1. 1 \in 1 .. n + m /\ 1 <= n /\ n + m # 0
    BY <1>1, <1>3
  <2> QED
    BY <1>1, <2>1
<1> QED
  BY <1>1, <1>2, <1>3 DEF text, n, m

LEMMA SolidConcat ==
  \A a, b \in Text :
    a # << >> /\ b # << >> /\ a[1] \notin Spaces /\ b[Len(b)] \notin Spaces => Solid(a \o b)
BY EndOfConcat DEF Solid, Trimmed

LEMMA OneTokenEnds == \A e \in Tokens : <<e>> \in Text /\ <<e>> # << >> /\ <<e>>[1] = e /\ <<e>>[Len(<<e>>)] = e
<1> TAKE e \in Tokens
<1>1. <<e>> \in Text
  BY AppendText, NothingAdded
<1>2. Len(<<e>>) = 1 /\ <<e>>[1] = e
  BY <1>1, Lengths DEF Text
<1>3. <<e>> # << >>
  BY <1>1, <1>2, Lengths DEF Text
<1> QED
  BY <1>1, <1>2, <1>3

LEMMA TokensTogether ==
  \A a, b \in Tokens :
    /\ <<a, b>> = <<a>> \o <<b>>
    /\ \A c \in Tokens : <<a, b, c>> = <<a>> \o (<<b>> \o <<c>>)
<1> TAKE a, b \in Tokens
<1>1. ASSUME NEW x \in Tokens, NEW y \in Tokens PROVE <<x, y>> = <<x>> \o <<y>>
  <2>1. <<y>> \in Text /\ Len(<<y>>) = 1 /\ <<y>>[1] = y
    BY OneTokenEnds, Lengths DEF Text
  <2>2. <<x, y>> \in Text /\ Len(<<x, y>>) = 2 /\ <<x, y>>[1] = x /\ <<x, y>>[2] = y
    BY TwoTokens
  <2> DEFINE s == <<x>> \o <<y>>
             r == <<x, y>>
  <2>3. s \in Text /\ Len(s) = 2 /\ s[1] = x /\ s[2] = y
    <3>1. s \in Text /\ Len(s) = Len(<<y>>) + 1 /\ s[1] = x /\ \A i \in 1 .. Len(<<y>>) : s[i + 1] = <<y>>[i]
      BY <2>1, Put
    <3>2. 1 \in 1 .. 1 /\ 1 + 1 = 2
      OBVIOUS
    <3> HIDE DEF s
    <3> QED
      BY <2>1, <3>1, <3>2
  <2>4. r \in Text /\ Len(r) = 2 /\ r[1] = x /\ r[2] = y
    BY <2>2
  <2> HIDE DEF s, r
  <2>5. r = s
    <3>1. \A i \in 1 .. 2 : i = 1 \/ i = 2
      OBVIOUS
    <3> QED
      BY <2>3, <2>4, <3>1, SameText
  <2> QED
    BY <2>5 DEF s, r
<1>2. ASSUME NEW c \in Tokens PROVE <<a, b, c>> = <<a>> \o (<<b>> \o <<c>>)
  <2> DEFINE t == <<b>> \o <<c>>
             u == <<b, c>>
             s == <<a>> \o t
             r == <<a, b, c>>
  <2>1. t = u
    BY <1>1
  <2>2. u \in Text /\ Len(u) = 2 /\ u[1] = b /\ u[2] = c
    BY TwoTokens
  <2>4. r \in Text /\ Len(r) = 3 /\ r[1] = a /\ r[2] = b /\ r[3] = c
    BY DEF Text
  <2> HIDE DEF t, u
  <2>3. s \in Text /\ Len(s) = 3 /\ s[1] = a /\ s[2] = b /\ s[3] = c
    <3>3. t \in Text
      BY <2>1, <2>2
    <3>1. s \in Text /\ Len(s) = Len(t) + 1 /\ s[1] = a /\ \A i \in 1 .. Len(t) : s[i + 1] = t[i]
      BY <3>3, Put
    <3>2. 1 \in 1 .. 2 /\ 2 \in 1 .. 2 /\ 1 + 1 = 2 /\ 2 + 1 = 3
      OBVIOUS
    <3> HIDE DEF s
    <3> QED
      BY <2>1, <2>2, <3>1, <3>2
  <2> HIDE DEF s, r
  <2>5. r = s
    <3>1. \A i \in 1 .. 3 : i = 1 \/ i = 2 \/ i = 3
      OBVIOUS
    <3> QED
      BY <2>3, <2>4, <3>1, SameText
  <2> QED
    BY <2>5 DEF s, r, t
<1> QED
  BY <1>1, <1>2

LEMMA TrimNothing == TrimSpace(<< >>) = << >>
BY NothingAdded, TrimTrimmed DEF Trimmed

LEMMA SolidTrims == \A text \in Text : Solid(text) => TrimSpace(text) = text
BY TrimTrimmed DEF Solid

LEMMA SpaceInFront == \A text \in Text : Solid(text) => TrimSpace(<<" ">> \o text) = text
BY TrimInFront DEF Solid, Spaces

-----------------------------------------------------------------------------
(* What the parsers return is made of texts.                               *)

Triggers == Seq(Text)

LEMMA TokenType ==
  ASSUME NEW text \in Text, text # << >>
  PROVE  /\ ParseNextToken(text).ok \in BOOLEAN
         /\ ParseNextToken(text).token \in Text /\ ParseNextToken(text).rest \in Text
<1> DEFINE tail == Tail(text)
           close == First(tail, Quote)
           end == First(text, " ")
<1>1. tail \in Text /\ Len(tail) \in Nat /\ Len(text) \in Nat /\ << >> \in Text
  BY TailOfText, Lengths, NothingAdded DEF Text
<1>2. close \in 0 .. Len(tail) /\ end \in 0 .. Len(text)
  <2> HIDE DEF tail
  <2> QED
    BY <1>1, FirstRange
<1> HIDE DEF tail, close, end
<1>3. Before(tail, close) \in Text /\ From(tail, close + 1) \in Text
  <2>1. close - 1 \in Int /\ close - 1 <= Len(tail) /\ close + 1 \in Int /\ close + 1 >= 1 /\ Len(tail) \in Int
    BY <1>1, <1>2
  <2> QED
    BY <1>1, <2>1, PieceOfText DEF Before, From
<1>4. Before(text, end) \in Text /\ From(text, end + 1) \in Text
  <2>1. end - 1 \in Int /\ end - 1 <= Len(text) /\ end + 1 \in Int /\ end + 1 >= 1 /\ Len(text) \in Int
    BY <1>1, <1>2
  <2> QED
    BY <2>1, PieceOfText DEF Before, From
<1>5. TrimSpace(From(tail, close + 1)) \in Text
  BY <1>3, TrimType
<1>6. CASE text[1] = Quote
  <2>1. ParseNextToken(text) = [ok |-> close # 0, token |-> Before(tail, close),
                                rest |-> TrimSpace(From(tail, close + 1))]
    BY <1>6 DEF ParseNextToken, tail, close
  <2> QED
    BY <1>3, <1>5, <2>1
<1>7. CASE text[1] # Quote
  <2>1. ParseNextToken(text) =
          IF end = 0 THEN [ok |-> TRUE, token |-> text, rest |-> << >>]
          ELSE [ok |-> TRUE, token |-> Before(text, end), rest |-> From(text, end + 1)]
    BY <1>7 DEF ParseNextToken, end
  <2> QED
    BY <1>1, <1>4, <2>1
<1> QED
  BY <1>6, <1>7

LEMMA NextTriggerType ==
  ASSUME NEW text \in Text, text # << >>
  PROVE  NextTrigger(text).trigger \in Text /\ NextTrigger(text).rest \in Text
<1> DEFINE tail == Tail(text)
           phrase == text[1] = Quote
           end == IF phrase THEN First(tail, Quote) + 1
                  ELSE IF First(text, ",") = 0 THEN Len(text) + 1 ELSE First(text, ",")
           after == TrimSpace(From(text, end + 1))
<1>1. tail \in Text /\ Len(tail) = Len(text) - 1 /\ Len(text) \in Nat \ {0}
  BY TailOfText
<1>2. First(tail, Quote) \in 0 .. Len(text) - 1 /\ First(text, ",") \in 0 .. Len(text)
  <2> HIDE DEF tail
  <2> QED
    BY <1>1, FirstRange
<1>3. end \in 1 .. Len(text) + 1
  <2> DEFINE q == First(tail, Quote)
             c == First(text, ",")
             N == Len(text)
  <2>1. N \in Nat \ {0} /\ q \in 0 .. N - 1 /\ c \in 0 .. N
    BY <1>1, <1>2
  <2> HIDE DEF q, c, phrase, N
  <2>2. q + 1 \in 1 .. N + 1 /\ N + 1 \in 1 .. N + 1 /\ (c # 0 => c \in 1 .. N + 1)
    BY <2>1
  <2>3. (IF phrase THEN q + 1 ELSE IF c = 0 THEN N + 1 ELSE c) \in 1 .. N + 1
    BY <2>2
  <2> QED
    BY <2>3 DEF q, c, N
<1>4. NextTrigger(text).trigger =
        IF phrase THEN SubSeq(text, 2, end - 1) ELSE TrimSpace(Before(text, end))
  BY DEF NextTrigger
<1>8. NextTrigger(text).rest =
        IF phrase /\ after # << >> /\ after[1] = "," THEN TrimSpace(Tail(after)) ELSE after
  BY DEF NextTrigger
<1> HIDE DEF tail, phrase, end
<1>5. /\ SubSeq(text, 2, end - 1) \in Text /\ Before(text, end) \in Text
      /\ From(text, end + 1) \in Text
  <2>1. /\ 2 \in Int /\ 1 \in Int /\ 1 >= 1 /\ 2 >= 1 /\ end - 1 \in Int /\ end - 1 <= Len(text)
        /\ end + 1 \in Int /\ end + 1 >= 1 /\ Len(text) \in Int /\ Len(text) <= Len(text)
    BY <1>1, <1>3
  <2>2. SubSeq(text, 2, end - 1) \in Text
    BY <2>1, PieceOfText
  <2>3. SubSeq(text, 1, end - 1) \in Text
    BY <2>1, PieceOfText
  <2>4. SubSeq(text, end + 1, Len(text)) \in Text
    BY <2>1, PieceOfText
  <2> QED
    BY <2>2, <2>3, <2>4 DEF Before, From
<1>6. after \in Text /\ TrimSpace(Before(text, end)) \in Text
  BY <1>5, TrimType
<1> HIDE DEF after
<1>7. after # << >> => TrimSpace(Tail(after)) \in Text
  BY <1>6, TailOfText, TrimType
<1> QED
  BY <1>4, <1>5, <1>6, <1>7, <1>8

\* The scan of ParseTriggers.
Parsed == [found : Triggers, rest : Text]

ParseStep(before) ==
  LET next == NextTrigger(before.rest)
  IN IF before.rest = << >> THEN before
     ELSE IF next.trigger = << >> THEN [found |-> << >>, rest |-> << >>]
     ELSE [found |-> Append(before.found, next.trigger), rest |-> next.rest]

TriggerScan(list, parsed) ==
  /\ parsed[0] = [found |-> << >>, rest |-> TrimSpace(list)]
  /\ \A n \in 1 .. Len(list) : parsed[n] = ParseStep(parsed[n - 1])
  /\ \A n \in 0 .. Len(list) : parsed[n] \in Parsed

LEMMA ParseStepType == \A c \in Parsed : ParseStep(c) \in Parsed
<1> TAKE c \in Parsed
<1>1. c.found \in Triggers /\ c.rest \in Text /\ << >> \in Triggers /\ << >> \in Text
  BY EmptySeq DEF Parsed, Triggers, Text
<1>2. CASE c.rest = << >>
  BY <1>2 DEF ParseStep
<1>3. CASE c.rest # << >>
  <2>1. NextTrigger(c.rest).trigger \in Text /\ NextTrigger(c.rest).rest \in Text
    BY <1>1, <1>3, NextTriggerType
  <2>2. Append(c.found, NextTrigger(c.rest).trigger) \in Triggers
    BY <1>1, <2>1, AppendProperties DEF Triggers
  <2>3. ParseStep(c) = IF NextTrigger(c.rest).trigger = << >> THEN [found |-> << >>, rest |-> << >>]
                       ELSE [found |-> Append(c.found, NextTrigger(c.rest).trigger),
                             rest |-> NextTrigger(c.rest).rest]
    BY <1>3 DEF ParseStep
  <2> QED
    BY <1>1, <2>1, <2>2, <2>3 DEF Parsed
<1> QED
  BY <1>2, <1>3

LEMMA TriggerScanExists ==
  ASSUME NEW list \in Text
  PROVE  \E parsed : TriggerScan(list, parsed) /\ ParseTriggers(list) = parsed[Len(list)].found
<1> DEFINE N == Len(list)
           first == [found |-> << >>, rest |-> TrimSpace(list)]
           s == [p \in (1 .. N) \X Parsed |-> ParseStep(p[2])]
           Eq(f) == f = [i \in 0 .. N |-> IF i = 0 THEN first ELSE ParseStep(f[i - 1])]
           parsed == CHOOSE f : Eq(f)
<1>1. N \in Nat /\ first \in Parsed
  <2>1. << >> \in Triggers /\ TrimSpace(list) \in Text
    BY EmptySeq, TrimType DEF Triggers
  <2> QED
    BY <2>1, Lengths DEF Text, Parsed
<1> HIDE DEF first
<1>2. IsStep(s, N, Parsed)
  BY ParseStepType DEF IsStep
<1>3. PICK f : IsRun(f, first, s, N, Parsed)
  <2> HIDE DEF s, N
  <2> QED
    BY <1>1, <1>2, RecursiveFunction
<1>4. \A i \in 1 .. N : i - 1 \in 0 .. N /\ f[i - 1] \in Parsed /\ f[i] = ParseStep(f[i - 1])
  <2> TAKE i \in 1 .. N
  <2>1. i - 1 \in 0 .. N
    BY <1>1
  <2>2. f[i - 1] \in Parsed /\ f[i] = s[<<i, f[i - 1]>>]
    BY <1>3, <2>1 DEF IsRun
  <2> QED
    BY <2>1, <2>2
<1>5. Eq(f)
  <2>1. \A i \in 0 .. N : f[i] = IF i = 0 THEN first ELSE ParseStep(f[i - 1])
    BY <1>1, <1>3, <1>4 DEF IsRun
  <2>2. f = [i \in 0 .. N |-> f[i]]
    BY <1>1, <1>3 DEF IsRun
  <2> QED
    BY <2>1, <2>2
<1>6. Eq(parsed)
  <2> HIDE DEF Eq
  <2> QED
    BY <1>5
<1>7. /\ parsed = [i \in 0 .. N |-> parsed[i]] /\ parsed[0] = first
      /\ \A i \in 1 .. N : parsed[i] = ParseStep(parsed[i - 1])
  <2> HIDE DEF parsed
  <2>1. DOMAIN parsed = 0 .. N
    BY <1>6
  <2>2. \A i \in 0 .. N : parsed[i] = IF i = 0 THEN first ELSE ParseStep(parsed[i - 1])
    BY <1>6
  <2> QED
    BY <1>1, <1>6, <2>1, <2>2
<1>8. \A i \in 1 .. N : parsed[i - 1] \in Parsed => parsed[i] = s[<<i, parsed[i - 1]>>]
  <2> HIDE DEF parsed
  <2> QED
    BY <1>7
<1>9. IsRun(parsed, first, s, N, Parsed)
  <2> HIDE DEF s, N, parsed
  <2> QED
    BY <1>1, <1>2, <1>3, <1>7, <1>8, SameRun
<1>10. TriggerScan(list, parsed)
  <2> HIDE DEF parsed
  <2> QED
    BY <1>7, <1>9 DEF TriggerScan, IsRun, first
<1>11. ParseTriggers(list) = parsed[N].found
  BY DEF ParseTriggers, ParseStep, first
<1> QED
  BY <1>10, <1>11

LEMMA TriggersType == \A list \in Text : ParseTriggers(list) \in Triggers
<1> TAKE list \in Text
<1>1. PICK parsed : TriggerScan(list, parsed) /\ ParseTriggers(list) = parsed[Len(list)].found
  BY TriggerScanExists
<1>2. Len(list) \in 0 .. Len(list)
  BY Lengths DEF Text
<1> QED
  BY <1>1, <1>2 DEF TriggerScan, Parsed

Command == [triggers : Triggers, type : {"text", "reaction", "media", "error"}, response : Text]

LEMMA NoFilterType == NoFilter \in Command
BY EmptySeq DEF NoFilter, Command, Triggers, Text

LEMMA ResponseType ==
  ASSUME NEW triggers \in Triggers, NEW rest \in Text
  PROVE  Response(triggers, rest) \in Command
<1>1. rest # << >> => TrimSpace(Tail(rest)) \in Text
  BY TailOfText, TrimType
<1>2. << >> \in Text
  BY NothingAdded
<1> QED
  BY <1>1, <1>2, NoFilterType DEF Response, Command

LEMMA ArgumentsType == \A text \in Text : text # << >> => Arguments(text) \in Text
BY TailOfText, TrimType DEF Arguments

LEMMA FilterType ==
  ASSUME NEW text \in Text, text # << >>
  PROVE  ParseFilterCommand(text) \in Command
<1> DEFINE args == Arguments(text)
           close == First(args, ")")
           list == ParseTriggers(SubSeq(args, 2, close - 1))
           next == ParseNextToken(args)
<1>1. args \in Text /\ Len(args) \in Nat
  BY ArgumentsType, Lengths DEF Text
<1> HIDE DEF args
<1>2. close \in 0 .. Len(args)
  BY <1>1, FirstFacts
<1> HIDE DEF close
<1>3. list \in Triggers /\ TrimSpace(From(args, close + 1)) \in Text
  <2>1. /\ 2 \in Int /\ 2 >= 1 /\ close - 1 \in Int /\ close - 1 <= Len(args)
        /\ close + 1 \in Int /\ close + 1 >= 1 /\ Len(args) \in Int /\ Len(args) <= Len(args)
    BY <1>1, <1>2
  <2>2. SubSeq(args, 2, close - 1) \in Text
    BY <1>1, <2>1, PieceOfText
  <2>3. From(args, close + 1) \in Text
    BY <1>1, <2>1, PieceOfText DEF From
  <2> QED
    BY <2>2, <2>3, TriggersType, TrimType
<1>4. args # << >> => next.token \in Text /\ next.rest \in Text
  BY <1>1, TokenType
<1>5. args # << >> => <<next.token>> \in Triggers
  BY <1>4 DEF Triggers
<1> HIDE DEF list, next
<1>6. Response(list, TrimSpace(From(args, close + 1))) \in Command
  BY <1>3, ResponseType
<1>7. args # << >> => Response(<<next.token>>, next.rest) \in Command
  BY <1>4, <1>5, ResponseType
<1> QED
  BY <1>6, <1>7, NoFilterType DEF ParseFilterCommand, args, close, list, next

LEMMA StopType ==
  ASSUME NEW text \in Text, text # << >>
  PROVE  ParseStopCommand(text) \in Text
<1>1. Arguments(text) \in Text /\ << >> \in Text
  BY ArgumentsType, NothingAdded
<1>2. Arguments(text) # << >> => ParseNextToken(Arguments(text)).token \in Text
  BY <1>1, TokenType
<1> QED
  BY <1>1, <1>2 DEF ParseStopCommand

-----------------------------------------------------------------------------
(* A /stop that quotes its trigger.                                        *)

\* The first phrase of a text, and what follows it.
LEMMA PhraseIsRead ==
  ASSUME NEW t \in Text, NEW c \in Text, \A i \in 1 .. Len(t) : t[i] # Quote
  PROVE  LET text == <<Quote>> \o (t \o (<<Quote>> \o c))
         IN text \in Text /\ text # << >>
            /\ ParseNextToken(text) = [ok |-> TRUE, token |-> t, rest |-> TrimSpace(c)]
<1> DEFINE tail == t \o (<<Quote>> \o c)
           text == <<Quote>> \o tail
           close == First(tail, Quote)
<1>1. /\ tail \in Text /\ close = Len(t) + 1 /\ Before(tail, close) = t /\ From(tail, close + 1) = c
  BY MarksAreTokens, CutAt
<1>2. Len(t) \in Nat
  BY Lengths DEF Text
<1> HIDE DEF tail
<1>3. text \in Text /\ text # << >> /\ text[1] = Quote /\ Tail(text) = tail
  BY <1>1, MarksAreTokens, Put, TailOfPut
<1> HIDE DEF text
<1>4. close # 0
  BY <1>1, <1>2
<1>5. ParseNextToken(text) = [ok |-> close # 0, token |-> Before(tail, close),
                              rest |-> TrimSpace(From(tail, close + 1))]
  BY <1>3 DEF ParseNextToken
<1> HIDE DEF close
<1>6. ParseNextToken(text) = [ok |-> TRUE, token |-> t, rest |-> TrimSpace(c)]
  BY <1>1, <1>4, <1>5
<1> QED
  BY <1>3, <1>6 DEF text, tail

LEMMA StopIsWritten ==
  \A t \in Text :
    StopCommand(t) = <<"/stop">> \o (<<" ">> \o (<<Quote>> \o (t \o (<<Quote>> \o << >>))))
<1> TAKE t \in Text
<1>1. /\ <<"/stop">> \in Text /\ <<" ">> \in Text /\ <<Quote>> \in Text
      /\ <<Quote>> \o << >> = <<Quote>>
  BY MarksAreTokens, SpaceIsToken, AppendText, NothingAdded
<1>2. <<"/stop", " ", Quote>> = Join(<<"/stop">>, Join(<<" ">>, <<Quote>>))
  BY MarksAreTokens, SpaceIsToken, TokensTogether DEF Join
<1>3. StopCommand(t) = Join(Join(<<"/stop", " ", Quote>>, t), <<Quote>>)
  BY DEF StopCommand, Join
<1>4. \A a, b, c, d \in Text :
        Join(Join(Join(a, Join(b, c)), d), c) = Join(a, Join(b, Join(c, Join(d, c))))
  <2> TAKE a, b, c, d \in Text
  <2>1. /\ Join(b, c) \in Text /\ Join(a, Join(b, c)) \in Text /\ Join(d, c) \in Text
        /\ Join(c, Join(d, c)) \in Text
    BY JoinFacts
  <2>2. Join(Join(Join(a, Join(b, c)), d), c) = Join(Join(a, Join(b, c)), Join(d, c))
    BY <2>1, JoinFacts
  <2>3. Join(Join(a, Join(b, c)), Join(d, c)) = Join(a, Join(Join(b, c), Join(d, c)))
    BY <2>1, JoinFacts
  <2>4. Join(Join(b, c), Join(d, c)) = Join(b, Join(c, Join(d, c)))
    BY <2>1, JoinFacts
  <2> QED
    BY <2>2, <2>3, <2>4
<1>5. StopCommand(t) = Join(<<"/stop">>, Join(<<" ">>, Join(<<Quote>>, Join(t, <<Quote>>))))
  <2>1. Join(Join(Join(<<"/stop">>, Join(<<" ">>, <<Quote>>)), t), <<Quote>>)
          = Join(<<"/stop">>, Join(<<" ">>, Join(<<Quote>>, Join(t, <<Quote>>))))
    <3> DEFINE stop == <<"/stop">>
               space == <<" ">>
               quote == <<Quote>>
    <3> HIDE DEF stop, space, quote
    <3>1. stop \in Text /\ space \in Text /\ quote \in Text
      BY <1>1 DEF stop, space, quote
    <3>2. Join(Join(Join(stop, Join(space, quote)), t), quote)
            = Join(stop, Join(space, Join(quote, Join(t, quote))))
      BY <3>1, <1>4
    <3> QED
      BY <3>2 DEF stop, space, quote
  <2> QED
    BY <1>2, <1>3, <2>1, Zenon
<1> QED
  BY <1>1, <1>5 DEF Join

LEMMA StopIsRead ==
  ASSUME NEW t \in Text, \A i \in 1 .. Len(t) : t[i] # Quote
  PROVE  ParseStopCommand(StopCommand(t)) = t
<1> DEFINE end == <<Quote>> \o << >>
           inner == t \o end
           args == <<Quote>> \o inner
           tail == <<" ">> \o args
<1>1. << >> \in Text /\ end \in Text /\ end # << >> /\ end[Len(end)] = Quote /\ Quote \notin Spaces
  <2>1. end = <<Quote>> /\ << >> \in Text
    BY MarksAreTokens, AppendText, NothingAdded
  <2> QED
    BY <2>1, MarksAreTokens, OneTokenEnds DEF Spaces, Quote
<1>2. inner \in Text
  BY <1>1, ConcatText
<1>3. args \in Text /\ args # << >>
      /\ ParseNextToken(args) = [ok |-> TRUE, token |-> t, rest |-> TrimSpace(<< >>)]
  BY <1>1, PhraseIsRead
<1>4. inner # << >> /\ inner[Len(inner)] = Quote
  <2> HIDE DEF end
  <2> QED
    BY <1>1, EndOfConcat
<1>5. Solid(args)
  <2>1. <<Quote>> \in Text /\ <<Quote>> # << >> /\ <<Quote>>[1] = Quote
    BY MarksAreTokens, OneTokenEnds
  <2> HIDE DEF inner
  <2> QED
    BY <1>1, <1>2, <1>4, <2>1, SolidConcat
<1> HIDE DEF args
<1>6. tail \in Text
  BY <1>3, SpaceIsToken, Put
<1>7. TrimSpace(tail) = args
  BY <1>3, <1>5, SpaceInFront
<1> HIDE DEF tail
<1>8. StopCommand(t) = <<"/stop">> \o tail
  BY StopIsWritten DEF tail, args, inner, end
<1>9. Arguments(StopCommand(t)) = args
  <2>1. Tail(<<"/stop">> \o tail) = tail
    BY <1>6, MarksAreTokens, TailOfPut
  <2> QED
    BY <1>7, <1>8, <2>1 DEF Arguments
<1> QED
  BY <1>3, <1>9, TrimNothing DEF ParseStopCommand

-----------------------------------------------------------------------------
(* Commands as users write them.                                           *)

\* FlattenSeq, piece by piece.
Flattening(seqs, flat) ==
  /\ flat[0] = << >>
  /\ \A k \in 1 .. Len(seqs) : flat[k] = flat[k - 1] \o seqs[k]
  /\ \A k \in 0 .. Len(seqs) : flat[k] \in Text
  /\ FlattenSeq(seqs) = flat[Len(seqs)]

LEMMA FlatteningExists ==
  ASSUME NEW seqs \in Triggers
  PROVE  \E flat : Flattening(seqs, flat)
<1> DEFINE N == Len(seqs)
           s == [p \in (1 .. N) \X Text |-> p[2] \o seqs[p[1]]]
           Eq(f) == f = [i \in 1 .. N |-> IF i = 1 THEN seqs[i] ELSE f[i - 1] \o seqs[i]]
           flatten == CHOOSE f : Eq(f)
<1>1. N \in Nat /\ << >> \in Text /\ (seqs = << >> <=> N = 0)
  BY Lengths, NothingAdded DEF Triggers
<1>2. \A i \in 1 .. N : seqs[i] \in Text
  BY ElementOfSeq DEF Triggers
<1>3. IsStep(s, N, Text)
  BY <1>2, ConcatText DEF IsStep
<1>4. PICK f : IsRun(f, << >>, s, N, Text)
  <2> HIDE DEF s, N
  <2> QED
    BY <1>1, <1>3, RecursiveFunction
<1>5. \A i \in 1 .. N : i - 1 \in 0 .. N /\ f[i - 1] \in Text /\ f[i] = f[i - 1] \o seqs[i]
  <2> TAKE i \in 1 .. N
  <2>1. i - 1 \in 0 .. N
    BY <1>1
  <2>2. f[i - 1] \in Text /\ f[i] = s[<<i, f[i - 1]>>]
    BY <1>4, <2>1 DEF IsRun
  <2> QED
    BY <2>1, <2>2
<1>6. f[0] = << >> /\ \A k \in 0 .. N : f[k] \in Text
  BY <1>4 DEF IsRun
<1>7. FlattenSeq(seqs) = f[N]
  <2>1. CASE N = 0
    BY <1>1, <1>6, <2>1 DEF FlattenSeq
  <2>2. CASE N # 0
    <3> DEFINE h == [i \in 1 .. N |-> f[i]]
    <3>1. \A i \in 1 .. N : f[i] = IF i = 1 THEN seqs[i] ELSE f[i - 1] \o seqs[i]
      <4> TAKE i \in 1 .. N
      <4>1. CASE i = 1
        <5>3. f[i] = f[i - 1] \o seqs[i]
          BY <1>5
        <5>4. i - 1 = 0
          BY <4>1
        <5>1. f[i] = f[0] \o seqs[i]
          BY <5>3, <5>4
        <5>2. << >> \o seqs[i] = seqs[i]
          BY <1>2, NothingAdded
        <5> QED
          BY <1>6, <4>1, <5>1, <5>2
      <4>2. CASE i # 1
        BY <1>5, <4>2
      <4> QED
        BY <4>1, <4>2
    <3>2. \A i \in 1 .. N : i # 1 => i - 1 \in 1 .. N
      BY <1>1
    <3>3. \A i \in 1 .. N : h[i] = IF i = 1 THEN seqs[i] ELSE h[i - 1] \o seqs[i]
      BY <3>1, <3>2
    <3>4. h = [i \in 1 .. N |-> h[i]]
      OBVIOUS
    <3> HIDE DEF h
    <3>5. Eq(h)
      BY <3>3, <3>4
    <3>6. Eq(flatten)
      <4> HIDE DEF Eq
      <4> QED
        BY <3>5
    <3>7. FlattenSeq(seqs) = flatten[N]
      BY <2>2 DEF FlattenSeq
    <3> HIDE DEF flatten
    <3>8. \A i \in 1 .. N : flatten[i] = IF i = 1 THEN seqs[i] ELSE flatten[i - 1] \o seqs[i]
      BY <3>6
    <3> DEFINE g == [i \in 0 .. N |-> IF i = 0 THEN << >> ELSE flatten[i]]
    <3>9. g[0] = << >> /\ \A i \in 1 .. N : g[i] = flatten[i]
      BY <1>1
    <3> HIDE DEF g
    <3>10. \A n \in 1 .. N : f[n - 1] = g[n - 1] => f[n] = g[n]
      <4> TAKE n \in 1 .. N
      <4> HAVE f[n - 1] = g[n - 1]
      <4>1. CASE n = 1
        BY <3>1, <3>8, <3>9, <4>1
      <4>2. CASE n # 1
        <5>1. n - 1 \in 1 .. N
          BY <3>2, <4>2
        <5> QED
          BY <3>1, <3>8, <3>9, <4>2, <5>1
      <4> QED
        BY <4>1, <4>2
    <3>11. \A n \in 0 .. N : f[n] = g[n]
      <4> HIDE DEF N
      <4> QED
        BY <1>1, <1>6, <3>9, <3>10, SameSteps
    <3>12. N \in 1 .. N /\ N \in 0 .. N
      BY <1>1, <2>2
    <3> QED
      BY <3>7, <3>9, <3>11, <3>12
  <2> QED
    BY <2>1, <2>2
<1>8. Flattening(seqs, f)
  BY <1>5, <1>6, <1>7 DEF Flattening
<1> QED
  BY <1>8

\* The filters that are written as the documents say.
Phrase == Seq(Letters \cup {" "}) \ {<< >>}

Documented(cmd) ==
  /\ cmd \in [triggers : Seq(Phrase) \ {<< >>}, type : {"text", "reaction", "media"}, response : Text]
  /\ cmd.type = "media" <=> cmd.response = << >>
  /\ TrimSpace(cmd.response) = cmd.response
  /\ cmd.type = "text" => cmd.response[1] # "react:"

LEMMA PhrasesAreTexts == Phrase \subseteq Text /\ Seq(Phrase) \subseteq Triggers
<1>1. Letters \cup {" "} \subseteq Tokens
  BY SpaceIsToken
<1>2. ASSUME NEW s \in Seq(Letters \cup {" "}) PROVE s \in Seq(Tokens)
  BY <1>1, SeqMonotonic
<1>3. Phrase \subseteq Text
  BY <1>2 DEF Phrase, Text
<1>4. ASSUME NEW s \in Seq(Phrase) PROVE s \in Seq(Text)
  BY <1>3, SeqMonotonic
<1> QED
  BY <1>3, <1>4 DEF Triggers

LEMMA WrittenType == \A t \in Text : Written(t) \in Text
<1> TAKE t \in Text
<1>1. <<Quote>> \in Text
  BY MarksAreTokens, AppendText
<1>2. <<Quote>> \o t \in Text
  BY <1>1, ConcatText
<1>3. (<<Quote>> \o t) \o <<Quote>> \in Text
  BY <1>1, <1>2, ConcatText
<1> QED
  BY <1>3 DEF Written

\* The pieces of the list.
Piece(cmd, i) ==
  (IF i = 1 THEN << >> ELSE <<",", " ">>) \o Written(cmd.triggers[i])

Pieces(cmd) == [i \in DOMAIN cmd.triggers |-> Piece(cmd, i)]

LEMMA PiecesType ==
  ASSUME NEW cmd, cmd.triggers \in Triggers
  PROVE  /\ Pieces(cmd) \in Triggers /\ Len(Pieces(cmd)) = Len(cmd.triggers)
         /\ \A i \in 1 .. Len(cmd.triggers) : Pieces(cmd)[i] = Piece(cmd, i)
<1> DEFINE N == Len(cmd.triggers)
<1>1. N \in Nat /\ DOMAIN cmd.triggers = 1 .. N /\ \A i \in 1 .. N : cmd.triggers[i] \in Text
  BY Lengths, ElementOfSeq DEF Triggers
<1>2. <<",", " ">> \in Text /\ << >> \in Text
  BY MarksAreTokens, SpaceIsToken, NothingAdded, TwoTokens
<1>3. \A i \in 1 .. N : Piece(cmd, i) \in Text
  <2> TAKE i \in 1 .. N
  <2>1. Written(cmd.triggers[i]) \in Text
    BY <1>1, WrittenType
  <2>2. << >> \o Written(cmd.triggers[i]) \in Text /\ <<",", " ">> \o Written(cmd.triggers[i]) \in Text
    BY <1>2, <2>1, ConcatText
  <2> QED
    BY <2>2 DEF Piece
<1>4. Pieces(cmd) = [i \in 1 .. N |-> Piece(cmd, i)]
  BY <1>1 DEF Pieces
<1>5. Pieces(cmd) \in [1 .. N -> Text]
  BY <1>3, <1>4
<1>6. Pieces(cmd) \in Triggers
  BY <1>1, <1>5, SeqDef DEF Triggers
<1>7. Len(Pieces(cmd)) = N
  BY <1>1, <1>5, <1>6, Lengths DEF Triggers
<1> QED
  BY <1>4, <1>6, <1>7

WrittenList(cmd) == FlattenSeq(Pieces(cmd))

WrittenTriggers(cmd) ==
  IF Len(cmd.triggers) = 1 THEN WrittenList(cmd) ELSE (<<"(">> \o WrittenList(cmd)) \o <<")">>

WrittenResponse(cmd) ==
  (IF cmd.type = "reaction" THEN <<"react:">> ELSE << >>) \o cmd.response

LEMMA WrittenParts ==
  ASSUME NEW cmd, Documented(cmd)
  PROVE  /\ WrittenList(cmd) \in Text /\ WrittenTriggers(cmd) \in Text /\ WrittenResponse(cmd) \in Text
         /\ FilterCommand(cmd) =
              (<<"/filter", " ">> \o WrittenTriggers(cmd))
                \o (IF WrittenResponse(cmd) = << >> THEN << >> ELSE <<" ">> \o WrittenResponse(cmd))
         /\ FilterCommand(cmd) \in Text /\ FilterCommand(cmd) # << >>
<1>1. cmd.triggers \in Triggers /\ cmd.response \in Text
  BY PhrasesAreTexts DEF Documented
<1>2. /\ <<"(">> \in Text /\ <<")">> \in Text /\ <<"react:">> \in Text /\ << >> \in Text /\ <<" ">> \in Text
      /\ <<"/filter", " ">> \in Text
  BY MarksAreTokens, SpaceIsToken, NothingAdded, AppendText, TwoTokens
<1>3. WrittenList(cmd) \in Text
  <2>1. Pieces(cmd) \in Triggers
    BY <1>1, PiecesType
  <2>2. PICK flat : Flattening(Pieces(cmd), flat)
    BY <2>1, FlatteningExists
  <2>3. Len(Pieces(cmd)) \in 0 .. Len(Pieces(cmd))
    BY <2>1, Lengths DEF Triggers
  <2> QED
    BY <2>2, <2>3 DEF Flattening, WrittenList
<1>4. WrittenTriggers(cmd) \in Text
  <2>1. <<"(">> \o WrittenList(cmd) \in Text
    BY <1>2, <1>3, ConcatText
  <2>2. (<<"(">> \o WrittenList(cmd)) \o <<")">> \in Text
    BY <1>2, <2>1, ConcatText
  <2> QED
    BY <1>3, <2>2 DEF WrittenTriggers
<1>5. WrittenResponse(cmd) \in Text
  <2>1. <<"react:">> \o cmd.response \in Text /\ << >> \o cmd.response \in Text
    BY <1>1, <1>2, ConcatText
  <2> QED
    BY <2>1 DEF WrittenResponse
<1>6. FilterCommand(cmd) =
        (<<"/filter", " ">> \o WrittenTriggers(cmd))
           \o (IF WrittenResponse(cmd) = << >> THEN << >> ELSE <<" ">> \o WrittenResponse(cmd))
  BY DEF FilterCommand, WrittenTriggers, WrittenResponse, WrittenList, Pieces, Piece
<1> DEFINE head == <<"/filter", " ">> \o WrittenTriggers(cmd)
           end == IF WrittenResponse(cmd) = << >> THEN << >> ELSE <<" ">> \o WrittenResponse(cmd)
<1>7. head \in Text
  BY <1>2, <1>4, ConcatText
<1>8. end \in Text
  <2>1. <<" ">> \o WrittenResponse(cmd) \in Text
    BY <1>2, <1>5, ConcatText
  <2> QED
    BY <1>2, <2>1
<1>9. Len(head) # 0
  <2>1. Len(<<"/filter", " ">>) = 2 /\ Len(WrittenTriggers(cmd)) \in Nat
    BY <1>4, Lengths DEF Text
  <2>2. Len(head) = Len(<<"/filter", " ">>) + Len(WrittenTriggers(cmd))
    BY <1>2, <1>4, ConcatProperties DEF Text
  <2> QED
    BY <2>1, <2>2
<1> HIDE DEF head, end
<1>10. head \o end \in Text /\ head \o end # << >>
  <2>1. head # << >>
    BY <1>7, <1>9, Lengths DEF Text
  <2>2. head \o end \in Text
    BY <1>7, <1>8, ConcatText
  <2>3. Len(head) \in Nat /\ Len(end) \in Nat /\ Len(head \o end) = Len(head) + Len(end)
    BY <1>7, <1>8, Lengths, ConcatProperties DEF Text
  <2>4. Len(head \o end) # 0
    BY <1>9, <2>3
  <2> QED
    BY <2>2, <2>4, Lengths DEF Text
<1> QED
  BY <1>3, <1>4, <1>5, <1>6, <1>10 DEF head, end

-----------------------------------------------------------------------------
(* The response of a command.                                              *)

LEMMA TrimmedBack ==
  ASSUME NEW text \in Text, TrimSpace(text) = text
  PROVE  text = << >> \/ Solid(text)
<1> SUFFICES ASSUME text # << >> PROVE text[1] \notin Spaces /\ text[Len(text)] \notin Spaces
  BY DEF Solid, Trimmed
<1>1. Len(text) \in Nat /\ Len(text) # 0
  BY Lengths DEF Text
<1>2. PICK l, h \in 1 .. Len(text) :
        text = SubSeq(text, l, h) /\ text[l] \notin Spaces /\ text[h] \notin Spaces
  BY TrimFacts
<1>3. Len(SubSeq(text, l, h)) = IF l <= h THEN h - l + 1 ELSE 0
  BY <1>1, <1>2, PieceOfText
<1>4. l = 1 /\ h = Len(text)
  <2>1. Len(SubSeq(text, l, h)) = Len(text)
    BY <1>2
  <2> QED
    BY <1>1, <1>2, <1>3, <2>1
<1> QED
  BY <1>2, <1>4

LEMMA ResponseIsRead ==
  ASSUME NEW cmd, Documented(cmd)
  PROVE  /\ WrittenResponse(cmd) \in Text
         /\ WrittenResponse(cmd) = << >> \/ Solid(WrittenResponse(cmd))
         /\ Response(cmd.triggers, WrittenResponse(cmd)) = cmd
<1> DEFINE response == cmd.response
           full == WrittenResponse(cmd)
<1>1. /\ response \in Text /\ (response = << >> \/ Solid(response))
      /\ cmd.type \in {"text", "reaction", "media"}
      /\ cmd.type = "media" <=> response = << >>
      /\ cmd.type = "text" => response[1] # "react:"
      /\ cmd = [triggers |-> cmd.triggers, type |-> cmd.type, response |-> response]
  BY TrimmedBack DEF Documented
<1> HIDE DEF response
<1>2. CASE cmd.type = "reaction"
  <2>1. full = <<"react:">> \o response
    BY <1>2 DEF WrittenResponse, response
  <2>2. response # << >> /\ Solid(response)
    BY <1>1, <1>2
  <2>3. full \in Text /\ full # << >> /\ full[1] = "react:" /\ Tail(full) = response
    <3> DEFINE f == <<"react:">> \o response
    <3>1. "react:" \in Tokens
      BY MarksAreTokens
    <3>2. f \in Text /\ f # << >> /\ f[1] = "react:" /\ Tail(f) = response
      BY <1>1, <3>1, Put, TailOfPut
    <3> HIDE DEF f
    <3>3. full = f
      BY <2>1 DEF f
    <3> HIDE DEF full
    <3> QED
      BY <3>2, <3>3
  <2>4. Solid(full)
    <3>1. <<"react:">> \in Text /\ <<"react:">> # << >> /\ <<"react:">>[1] \notin Spaces
      BY MarksAreTokens, OneTokenEnds DEF Spaces
    <3>2. response[Len(response)] \notin Spaces
      BY <2>2 DEF Solid, Trimmed
    <3> QED
      BY <1>1, <2>1, <2>2, <3>1, <3>2, SolidConcat
  <2>5. TrimSpace(Tail(full)) = response
    BY <1>1, <2>2, <2>3, SolidTrims
  <2> HIDE DEF full
  <2>6. Response(cmd.triggers, full) = [triggers |-> cmd.triggers, type |-> "reaction", response |-> response]
    BY <2>2, <2>3, <2>5 DEF Response
  <2>7. Response(cmd.triggers, full) = cmd
    BY <1>1, <1>2, <2>6
  <2> QED
    BY <2>3, <2>4, <2>7 DEF full
<1>3. CASE cmd.type # "reaction"
  <2>1. full = response
    <3>1. full = << >> \o response
      BY <1>3 DEF WrittenResponse, response
    <3> QED
      BY <1>1, <3>1, NothingAdded
  <2> HIDE DEF full
  <2>2. CASE cmd.type = "media"
    <3>1. full = << >>
      BY <1>1, <2>1, <2>2
    <3>2. Response(cmd.triggers, full) = [triggers |-> cmd.triggers, type |-> "media", response |-> << >>]
      BY <3>1 DEF Response
    <3>3. Response(cmd.triggers, full) = cmd
      BY <1>1, <2>1, <2>2, <3>1, <3>2
    <3> QED
      BY <1>1, <2>1, <3>3 DEF full
  <2>3. CASE cmd.type = "text"
    <3>1. full # << >> /\ full[1] # "react:"
      BY <1>1, <2>1, <2>3
    <3>2. Response(cmd.triggers, full) = [triggers |-> cmd.triggers, type |-> "text", response |-> full]
      BY <3>1 DEF Response
    <3>3. Response(cmd.triggers, full) = cmd
      BY <1>1, <2>1, <2>3, <3>2
    <3> QED
      BY <1>1, <2>1, <3>3 DEF full
  <2> QED
    BY <1>1, <1>3, <2>2, <2>3
<1> QED
  BY <1>2, <1>3

-----------------------------------------------------------------------------
(* The list of triggers of a command.                                      *)

\* The tokens that lists are written with.
Listed == Letters \cup {" ", Quote, ","}

LEMMA ListedTexts ==
  /\ Listed \subseteq Tokens /\ Seq(Listed) \subseteq Text /\ Phrase \subseteq Seq(Listed)
  /\ Quote \in Listed /\ "," \in Listed /\ " " \in Listed
<1>1. Listed \subseteq Tokens
  BY MarksAreTokens, SpaceIsToken DEF Listed
<1>2. ASSUME NEW s \in Seq(Listed) PROVE s \in Seq(Tokens)
  BY <1>1, SeqMonotonic
<1>3. Letters \cup {" "} \subseteq Listed
  BY DEF Listed
<1>4. ASSUME NEW s \in Seq(Letters \cup {" "}) PROVE s \in Seq(Listed)
  BY <1>3, SeqMonotonic
<1> QED
  BY <1>1, <1>2, <1>4 DEF Text, Phrase, Listed

LEMMA ListedConcat == \A a, b \in Seq(Listed) : a \o b \in Seq(Listed)
BY ConcatProperties

LEMMA PhraseFacts ==
  ASSUME NEW t \in Phrase
  PROVE  /\ t \in Text /\ t # << >> /\ Len(t) \in Nat \ {0}
         /\ \A i \in 1 .. Len(t) : t[i] \in Letters \cup {" "}
         /\ \A i \in 1 .. Len(t) : t[i] # Quote /\ t[i] # "," /\ t[i] # ")"
<1>1. t \in Text /\ t \in Seq(Letters \cup {" "}) /\ t # << >>
  BY PhrasesAreTexts DEF Phrase
<1>2. \A i \in 1 .. Len(t) : t[i] \in Letters \cup {" "}
  BY <1>1, ElementOfSeq
<1>3. Len(t) \in Nat \ {0}
  BY <1>1, Lengths DEF Text
<1>4. \A x \in Letters \cup {" "} : x # Quote /\ x # "," /\ x # ")"
  BY DEF Letters, Quote
<1> QED
  BY <1>1, <1>2, <1>3, <1>4

\* In quotes, or a word.
LEMMA WrittenForms ==
  ASSUME NEW t \in Phrase
  PROVE  \/ Written(t) = (<<Quote>> \o t) \o <<Quote>>
         \/ Written(t) = t /\ \A i \in 1 .. Len(t) : t[i] \in Letters
<1>1. CASE Contains(t, " ")
  BY <1>1 DEF Written
<1>2. CASE ~Contains(t, " ")
  BY <1>2, PhraseFacts DEF Written, Contains
<1> QED
  BY <1>1, <1>2

Marked == Letters \cup {Quote}

LEMMA MarkedFacts ==
  \A x \in Marked : x \notin Spaces /\ x # "(" /\ x # "," /\ x # ")"
BY DEF Marked, Letters, Spaces, Quote

LEMMA WrittenEnds ==
  ASSUME NEW t \in Phrase
  PROVE  /\ Written(t) \in Seq(Listed) /\ Written(t) \in Text /\ Written(t) # << >>
         /\ Written(t)[1] \in Marked /\ Written(t)[Len(Written(t))] \in Marked
<1>1. /\ t \in Seq(Listed) /\ t \in Text /\ t # << >> /\ Len(t) \in Nat \ {0}
      /\ <<Quote>> \in Text /\ <<Quote>> # << >>
      /\ <<Quote>>[1] = Quote /\ <<Quote>>[Len(<<Quote>>)] = Quote
  BY PhraseFacts, ListedTexts, MarksAreTokens, OneTokenEnds
<1>2. <<Quote>> \in Seq(Listed) /\ Quote \in Marked /\ Letters \subseteq Marked
  <2>1. Quote \in Listed
    BY ListedTexts
  <2> QED
    BY <2>1 DEF Marked
<1>3. CASE Written(t) = (<<Quote>> \o t) \o <<Quote>>
  <2> DEFINE a == <<Quote>> \o t
             w == a \o <<Quote>>
  <2>1. a \in Seq(Listed) /\ w \in Seq(Listed)
    BY <1>1, <1>2, ListedConcat
  <2>2. a \in Text /\ a # << >> /\ a[1] = Quote
    BY <1>1, ConcatText, EndOfConcat
  <2> HIDE DEF a
  <2>3. w \in Text /\ w # << >> /\ w[1] = Quote /\ w[Len(w)] = Quote
    BY <1>1, <2>2, ConcatText, EndOfConcat
  <2> HIDE DEF w
  <2>4. Written(t) = w
    BY <1>3 DEF w, a
  <2> QED
    BY <1>2, <2>1, <2>3, <2>4
<1>4. CASE Written(t) = t /\ \A i \in 1 .. Len(t) : t[i] \in Letters
  <2>1. 1 \in 1 .. Len(t) /\ Len(t) \in 1 .. Len(t)
    BY <1>1
  <2> QED
    BY <1>1, <1>2, <1>4, <2>1
<1> QED
  BY <1>3, <1>4, WrittenForms

\* What follows a trigger in a list.
Separated(rest) == IF rest = << >> THEN << >> ELSE <<",">> \o (<<" ">> \o rest)

\* A list, and what is left of it: triggers with a comma and a space between.
Lists == {rest \in Seq(Listed) : rest # << >> => Solid(rest) /\ rest[1] \in Marked}

LEMMA SeparatedFacts ==
  ASSUME NEW rest \in Lists
  PROVE  /\ Separated(rest) \in Seq(Listed) /\ Separated(rest) \in Text /\ rest \in Text
         /\ Separated(rest) # << >> <=> rest # << >>
         /\ rest # << >> => Separated(rest)[Len(Separated(rest))] \notin Spaces
<1>1. /\ rest \in Text /\ rest \in Seq(Listed) /\ << >> \in Seq(Listed) /\ << >> \in Text
      /\ <<",">> \in Text /\ <<" ">> \in Text
  BY ListedTexts, EmptySeq, NothingAdded, MarksAreTokens, SpaceIsToken, OneTokenEnds DEF Lists
<1>2. <<",">> \in Seq(Listed) /\ <<" ">> \in Seq(Listed)
  <2>1. "," \in Listed /\ " " \in Listed
    BY ListedTexts
  <2>2. \A x \in Listed : <<x>> \in Seq(Listed)
    OBVIOUS
  <2> QED
    BY <2>1, <2>2
<1>3. CASE rest = << >>
  BY <1>1, <1>3 DEF Separated
<1>4. CASE rest # << >>
  <2> DEFINE a == <<" ">> \o rest
             b == <<",">> \o a
  <2>1. a \in Seq(Listed) /\ b \in Seq(Listed)
    BY <1>1, <1>2, ListedConcat
  <2>2. rest[Len(rest)] \notin Spaces
    BY <1>4 DEF Lists, Solid, Trimmed
  <2>3. a \in Text /\ a # << >> /\ a[Len(a)] \notin Spaces
    BY <1>1, <1>4, <2>2, ConcatText, EndOfConcat
  <2> HIDE DEF a
  <2>4. b \in Text /\ b # << >> /\ b[Len(b)] \notin Spaces
    BY <1>1, <2>3, ConcatText, EndOfConcat
  <2> HIDE DEF b
  <2>5. Separated(rest) = b
    BY <1>4 DEF Separated, a, b
  <2> QED
    BY <1>1, <1>4, <2>1, <2>4, <2>5
<1> QED
  BY <1>3, <1>4

LEMMA LongerList ==
  ASSUME NEW t \in Phrase, NEW rest \in Lists
  PROVE  /\ Written(t) \o Separated(rest) \in Lists /\ Written(t) \o Separated(rest) # << >>
         /\ Len(Written(t) \o Separated(rest)) >= Len(rest) + 1
<1> DEFINE w == Written(t)
           s == Separated(rest)
           longer == w \o s
<1>1. /\ w \in Seq(Listed) /\ w \in Text /\ w # << >> /\ w[1] \in Marked /\ w[Len(w)] \in Marked
  BY WrittenEnds
<1>2. /\ s \in Seq(Listed) /\ s \in Text /\ rest \in Text
      /\ (s # << >> <=> rest # << >>) /\ (rest # << >> => s[Len(s)] \notin Spaces)
  BY SeparatedFacts
<1>3. Len(s) >= Len(rest)
  <2>1. CASE rest = << >>
    BY <1>2, <2>1, Lengths DEF Separated, Text
  <2>2. CASE rest # << >>
    <3> DEFINE a == <<" ">> \o rest
               b == <<",">> \o a
    <3>1. " " \in Tokens /\ "," \in Tokens
      BY SpaceIsToken, MarksAreTokens
    <3>2. a \in Text /\ Len(a) = Len(rest) + 1
      BY <1>2, <3>1, Put
    <3> HIDE DEF a
    <3>3. Len(b) = Len(a) + 1
      BY <3>1, <3>2, Put
    <3> HIDE DEF b
    <3>4. Len(rest) \in Nat
      BY <1>2, Lengths DEF Text
    <3>5. s = b
      BY <2>2 DEF Separated, b, a
    <3> HIDE DEF s
    <3> QED
      BY <3>2, <3>3, <3>4, <3>5
  <2> QED
    BY <2>1, <2>2
<1> HIDE DEF w, s
<1>4. longer \in Seq(Listed) /\ longer # << >> /\ longer[1] \in Marked /\ longer[1] \notin Spaces
  BY <1>1, <1>2, ListedConcat, EndOfConcat, MarkedFacts
<1>5. longer[Len(longer)] \notin Spaces
  <2>1. CASE s = << >>
    <3>1. longer = w
      BY <1>1, <2>1, NothingAdded
    <3> HIDE DEF longer
    <3> QED
      BY <1>1, <3>1, MarkedFacts
  <2>2. CASE s # << >>
    BY <1>1, <1>2, <2>2, EndOfConcat
  <2> QED
    BY <2>1, <2>2
<1>6. Len(longer) >= Len(rest) + 1
  <2>1. Len(longer) = Len(w) + Len(s) /\ Len(w) \in Nat /\ Len(w) # 0 /\ Len(s) \in Nat /\ Len(rest) \in Nat
    BY <1>1, <1>2, ConcatProperties, Lengths DEF Text
  <2> HIDE DEF longer
  <2> QED
    BY <1>3, <2>1
<1> HIDE DEF longer
<1>7. longer \in Lists
  BY <1>4, <1>5 DEF Lists, Solid, Trimmed
<1> QED
  BY <1>4, <1>6, <1>7 DEF longer, w, s

LEMMA QuotedFirst ==
  \A t, c \in Text : ((<<Quote>> \o t) \o <<Quote>>) \o c = <<Quote>> \o (t \o (<<Quote>> \o c))
<1> TAKE t, c \in Text
<1> DEFINE q == <<Quote>>
<1>1. q \in Text
  BY MarksAreTokens, OneTokenEnds
<1> HIDE DEF q
<1>2. Join(Join(Join(q, t), q), c) = Join(q, Join(t, Join(q, c)))
  <2>1. Join(q, t) \in Text /\ Join(q, c) \in Text
    BY <1>1, JoinFacts
  <2>2. Join(Join(Join(q, t), q), c) = Join(Join(q, t), Join(q, c))
    BY <1>1, <2>1, JoinFacts
  <2>3. Join(Join(q, t), Join(q, c)) = Join(q, Join(t, Join(q, c)))
    BY <1>1, <2>1, JoinFacts
  <2> QED
    BY <2>2, <2>3
<1> QED
  BY <1>2 DEF Join, q

\* What is behind the separator.
LEMMA SeparatorGoes ==
  ASSUME NEW rest \in Lists, rest # << >>
  PROVE  /\ TrimSpace(<<" ">> \o rest) = rest
         /\ TrimSpace(Separated(rest)) = Separated(rest)
         /\ Separated(rest)[1] = "," /\ Tail(Separated(rest)) = <<" ">> \o rest
<1> DEFINE a == <<" ">> \o rest
           b == <<",">> \o a
<1>1. rest \in Text /\ Solid(rest)
  BY ListedTexts DEF Lists
<1>2. TrimSpace(a) = rest
  BY <1>1, SpaceInFront
<1>3. a \in Text
  BY <1>1, SpaceIsToken, Put
<1> HIDE DEF a
<1>4. b \in Text /\ b # << >> /\ b[1] = "," /\ Tail(b) = a
  BY <1>3, MarksAreTokens, Put, TailOfPut
<1> HIDE DEF b
<1>5. Separated(rest) = b
  BY DEF Separated, b, a
<1>6. b[Len(b)] \notin Spaces
  BY <1>5, SeparatedFacts
<1>7. Solid(b)
  BY <1>4, <1>6 DEF Solid, Trimmed, Spaces
<1> QED
  BY <1>2, <1>4, <1>5, <1>7, SolidTrims DEF a

LEMMA QuotedIsNext ==
  ASSUME NEW t \in Phrase, NEW rest \in Lists, Written(t) = (<<Quote>> \o t) \o <<Quote>>
  PROVE  LET next == NextTrigger(Written(t) \o Separated(rest))
         IN next.trigger = t /\ next.rest = rest
<1> DEFINE c == Separated(rest)
           tail == t \o (<<Quote>> \o c)
           text == <<Quote>> \o tail
           close == First(tail, Quote)
<1>1. c \in Text /\ t \in Text /\ \A i \in 1 .. Len(t) : t[i] # Quote
  BY SeparatedFacts, PhraseFacts
<1> HIDE DEF c
<1>2. /\ tail \in Text /\ close \in 1 .. Len(tail)
      /\ SubSeq(tail, 1, close - 1) = t /\ SubSeq(tail, close + 1, Len(tail)) = c
  <2>1. Quote \in Tokens
    BY MarksAreTokens
  <2>2. /\ tail \in Text /\ First(tail, Quote) \in 1 .. Len(tail)
        /\ Before(tail, First(tail, Quote)) = t /\ From(tail, First(tail, Quote) + 1) = c
    BY <1>1, <2>1, CutAt
  <2> HIDE DEF tail
  <2> QED
    BY <2>2 DEF Before, From
<1>3. Written(t) \o c = text
  BY <1>1, QuotedFirst
<1> HIDE DEF tail
<1>4. /\ text \in Text /\ text # << >> /\ text[1] = Quote /\ Tail(text) = tail
      /\ Len(text) = Len(tail) + 1 /\ Len(tail) \in Nat
  BY <1>2, MarksAreTokens, Put, TailOfPut, Lengths DEF Text
<1> HIDE DEF close
<1>13. close \in 1 .. Len(tail) /\ Len(tail) \in Nat
  BY <1>2, <1>4
<1>12. close \in Int /\ Len(tail) \in Int /\ 1 <= close /\ close <= Len(tail)
  <2> DEFINE n == Len(tail)
  <2> HIDE DEF n
  <2> QED
    BY <1>13 DEF n
<1>5. SubSeq(text, 1 + 1, (close - 1) + 1) = t
  <2>1. 1 \in Int /\ close - 1 \in Int /\ 1 >= 1 /\ close - 1 <= Len(tail)
    BY <1>12
  <2>3. Quote \in Tokens
    BY MarksAreTokens
  <2>2. SubSeq(text, 1 + 1, (close - 1) + 1) = SubSeq(tail, 1, close - 1)
    BY <1>2, <2>1, <2>3, PieceOfPut
  <2> QED
    BY <1>2, <2>2
<1>6. SubSeq(text, (close + 1) + 1, Len(tail) + 1) = c
  <2>1. close + 1 \in Int /\ Len(tail) \in Int /\ close + 1 >= 1 /\ Len(tail) <= Len(tail)
    BY <1>12
  <2>3. Quote \in Tokens
    BY MarksAreTokens
  <2>2. SubSeq(text, (close + 1) + 1, Len(tail) + 1) = SubSeq(tail, close + 1, Len(tail))
    BY <1>2, <2>1, <2>3, PieceOfPut
  <2> QED
    BY <1>2, <2>2
<1> HIDE DEF text
<1> DEFINE end == close + 1
           after == TrimSpace(From(text, end + 1))
           next == NextTrigger(text)
<1>7. SubSeq(text, 2, end - 1) = t /\ From(text, end + 1) = c
  <2>1. 1 + 1 = 2 /\ (close - 1) + 1 = end - 1
    BY <1>12
  <2> QED
    BY <1>4, <1>5, <1>6, <2>1 DEF From
<1>8. next.trigger = SubSeq(text, 2, end - 1)
  BY <1>4 DEF NextTrigger, close
<1>9. next.rest = IF after # << >> /\ after[1] = "," THEN TrimSpace(Tail(after)) ELSE after
  BY <1>4 DEF NextTrigger, close
<1>10. after = TrimSpace(c)
  BY <1>7
<1> HIDE DEF after, next
<1>11. next.rest = rest
  <2>1. CASE rest = << >>
    <3>1. after = << >>
      BY <1>10, <2>1, TrimNothing DEF c, Separated
    <3> QED
      BY <1>9, <2>1, <3>1
  <2>2. CASE rest # << >>
    <3>1. /\ TrimSpace(c) = c /\ c[1] = "," /\ TrimSpace(Tail(c)) = rest
      BY <2>2, SeparatorGoes DEF c
    <3>2. c # << >>
      BY <2>2, SeparatedFacts DEF c
    <3> QED
      BY <1>9, <1>10, <3>1, <3>2
  <2> QED
    BY <2>1, <2>2
<1> QED
  BY <1>3, <1>7, <1>8, <1>11 DEF next, c

LEMMA WordIsNext ==
  ASSUME NEW t \in Phrase, NEW rest \in Lists,
         Written(t) = t, \A i \in 1 .. Len(t) : t[i] \in Letters
  PROVE  LET next == NextTrigger(Written(t) \o Separated(rest))
         IN next.trigger = t /\ next.rest = rest
<1> DEFINE c == Separated(rest)
           text == t \o c
           N == Len(t)
<1>1. /\ c \in Text /\ t \in Text /\ t # << >> /\ N \in Nat \ {0}
      /\ \A i \in 1 .. N : t[i] # ","
  BY SeparatedFacts, PhraseFacts
<1> HIDE DEF N
<1>0. N \in Nat \ {0}
  BY <1>1
<1>2. t[1] \in Letters /\ t[N] \in Letters
  <2>1. 1 \in 1 .. N /\ N \in 1 .. N
    BY <1>0
  <2> QED
    BY <2>1 DEF N
<1>3. Solid(t)
  BY <1>1, <1>2 DEF Solid, Trimmed, Letters, Spaces, N
<1> HIDE DEF c
<1>4. text # << >> /\ text[1] # Quote
  <2>1. text # << >> /\ text[1] = t[1]
    BY <1>1, EndOfConcat
  <2> QED
    BY <1>2, <2>1 DEF Letters, Quote
<1> DEFINE comma == First(text, ",")
           end == IF comma = 0 THEN Len(text) + 1 ELSE comma
           next == NextTrigger(text)
<1>5. /\ next.trigger = TrimSpace(Before(text, end))
      /\ next.rest = TrimSpace(From(text, end + 1))
  BY <1>4 DEF NextTrigger
<1> HIDE DEF next
<1>6. CASE rest = << >>
  <2>1. text = t
    BY <1>1, <1>6, NothingAdded DEF c, Separated
  <2> HIDE DEF text
  <2>2. comma = 0
    <3>1. comma \in 0 .. N
      BY <1>1, <2>1, FirstRange DEF N
    <3>2. comma # 0 => comma \in 1 .. N /\ t[comma] = ","
      BY <1>1, <2>1, FirstFacts DEF N
    <3> HIDE DEF comma
    <3> QED
      BY <1>1, <3>1, <3>2
  <2> HIDE DEF comma
  <2>3. end = N + 1
    BY <2>1, <2>2 DEF N
  <2> HIDE DEF end
  <2>4. Before(text, end) = t
    <3>1. end - 1 = N
      BY <1>0, <2>3
    <3>2. SubSeq(t, 1, N) = t
      BY <1>1, SubSeqFull DEF N, Text
    <3> QED
      BY <2>1, <3>1, <3>2 DEF Before
  <2>5. From(text, end + 1) = << >>
    <3>1. end + 1 \in Int /\ N \in Int /\ N < end + 1
      BY <1>0, <2>3
    <3>2. SubSeq(t, end + 1, N) = << >>
      BY <3>1, SubSeqEmpty
    <3> QED
      BY <2>1, <3>2 DEF From, N
  <2>6. next.trigger = t /\ next.rest = rest
    BY <1>1, <1>3, <1>5, <1>6, <2>4, <2>5, TrimNothing, SolidTrims
  <2> QED
    BY <2>6 DEF next, text, c
<1>7. CASE rest # << >>
  <2> DEFINE a == <<" ">> \o rest
  <2>1. rest \in Text /\ a \in Text /\ "," \in Tokens /\ TrimSpace(a) = rest
    <3>1. rest \in Text
      BY SeparatedFacts
    <3> QED
      BY <1>7, <3>1, SpaceIsToken, MarksAreTokens, Put, SeparatorGoes
  <2> HIDE DEF a
  <2>2. text = t \o (<<",">> \o a)
    BY <1>7 DEF c, Separated, a
  <2>3. /\ comma = N + 1 /\ Before(text, comma) = t /\ From(text, comma + 1) = a
    <3> DEFINE u == t \o (<<",">> \o a)
    <3>1. \A i \in 1 .. Len(t) : t[i] # ","
      BY <1>1 DEF N
    <3>2. First(u, ",") = Len(t) + 1 /\ Before(u, First(u, ",")) = t /\ From(u, First(u, ",") + 1) = a
      BY <1>1, <2>1, <3>1, CutAt
    <3>3. text = u
      BY <2>2
    <3> HIDE DEF u, text
    <3> QED
      BY <3>2, <3>3 DEF N
  <2>4. end = comma
    <3>1. N + 1 # 0
      BY <1>0
    <3> HIDE DEF comma
    <3> QED
      BY <2>3, <3>1
  <2> HIDE DEF end, comma, text
  <2>5. next.trigger = t /\ next.rest = rest
    BY <1>1, <1>3, <1>5, <2>1, <2>3, <2>4, SolidTrims
  <2> QED
    BY <2>5 DEF next, text, c
<1> QED
  BY <1>6, <1>7

\* NextTrigger takes the first trigger of a list that is written as
\* documented, and leaves the others.
LEMMA NextIsRead ==
  ASSUME NEW t \in Phrase, NEW rest \in Lists
  PROVE  /\ NextTrigger(Written(t) \o Separated(rest)).trigger = t
         /\ NextTrigger(Written(t) \o Separated(rest)).rest = rest
BY WrittenForms, QuotedIsNext, WordIsNext

\* What is left of a written list of triggers when k of them have been read.
Rests(triggers, rest) ==
  /\ rest[Len(triggers)] = << >>
  /\ \A k \in 1 .. Len(triggers) : rest[k - 1] = Written(triggers[k]) \o Separated(rest[k])
  /\ \A k \in 0 .. Len(triggers) : rest[k] \in Lists /\ Len(rest[k]) >= Len(triggers) - k

LEMMA RestsExist ==
  ASSUME NEW triggers \in Seq(Phrase)
  PROVE  \E rest : Rests(triggers, rest)
<1> DEFINE N == Len(triggers)
           s == [p \in (1 .. N) \X Lists |-> Written(triggers[N - p[1] + 1]) \o Separated(p[2])]
<1>1. N \in Nat /\ << >> \in Lists /\ Len(<< >>) = 0
  BY Lengths, EmptySeq DEF Lists
<1>2. \A k \in 1 .. N : triggers[k] \in Phrase
  BY ElementOfSeq
<1>3. \A j \in 1 .. N : N - j + 1 \in 1 .. N
  <2> HIDE DEF N
  <2> QED
    BY <1>1
<1>4. IsStep(s, N, Lists)
  <2>1. \A j \in 1 .. N : \A c \in Lists : Written(triggers[N - j + 1]) \o Separated(c) \in Lists
    BY <1>2, <1>3, LongerList
  <2> QED
    BY <2>1 DEF IsStep
<1>5. PICK f : IsRun(f, << >>, s, N, Lists)
  <2> HIDE DEF s, N
  <2> QED
    BY <1>1, <1>4, RecursiveFunction
<1>6. \A j \in 1 .. N :
        /\ j - 1 \in 0 .. N /\ f[j - 1] \in Lists
        /\ f[j] = Written(triggers[N - j + 1]) \o Separated(f[j - 1])
        /\ Len(f[j]) >= Len(f[j - 1]) + 1
  <2> TAKE j \in 1 .. N
  <2>1. j - 1 \in 0 .. N
    BY <1>1
  <2>2. f[j - 1] \in Lists /\ f[j] = s[<<j, f[j - 1]>>]
    BY <1>5, <2>1 DEF IsRun
  <2>3. f[j] = Written(triggers[N - j + 1]) \o Separated(f[j - 1])
    BY <2>2
  <2>4. Len(f[j]) >= Len(f[j - 1]) + 1
    BY <1>2, <1>3, <2>2, <2>3, LongerList
  <2> QED
    BY <2>1, <2>2, <2>3, <2>4
<1>7. f[0] = << >> /\ \A j \in 0 .. N : f[j] \in Lists /\ Len(f[j]) \in Nat
  <2>1. f[0] = << >> /\ \A j \in 0 .. N : f[j] \in Lists
    BY <1>5 DEF IsRun
  <2>2. \A c \in Lists : Len(c) \in Nat
    BY Lengths DEF Lists
  <2> QED
    BY <2>1, <2>2
<1> HIDE DEF N
<1>8. \A j \in 0 .. N : Len(f[j]) >= j
  <2> DEFINE T == {j \in Nat : j <= N => Len(f[j]) >= j}
  <2>1. 0 \in T
    BY <1>1, <1>7
  <2>2. ASSUME NEW j \in Nat, j \in T PROVE j + 1 \in T
    <3> SUFFICES ASSUME j + 1 <= N PROVE Len(f[j + 1]) >= j + 1
      OBVIOUS
    <3>1. j + 1 \in 1 .. N /\ (j + 1) - 1 = j /\ j \in 0 .. N /\ j <= N /\ j + 1 \in 0 .. N
      BY <1>1
    <3>2. Len(f[j]) >= j /\ Len(f[j]) \in Nat /\ Len(f[j + 1]) \in Nat
      BY <1>7, <2>2, <3>1
    <3>3. Len(f[j + 1]) >= Len(f[j]) + 1
      BY <1>6, <3>1
    <3> QED
      BY <3>2, <3>3
  <2>3. Nat \subseteq T
    <3> HIDE DEF T
    <3> QED
      BY <2>1, <2>2, Induction
  <2> QED
    BY <1>1, <2>3
<1> DEFINE rest == [k \in 0 .. N |-> f[N - k]]
<1>9. \A k \in 0 .. N : rest[k] = f[N - k] /\ N - k \in 0 .. N
  BY <1>1
<1> HIDE DEF rest
<1>10. rest[N] = << >>
  <2>1. N \in 0 .. N /\ N - N = 0
    BY <1>1
  <2> QED
    BY <1>7, <1>9, <2>1
<1>11. \A k \in 1 .. N : rest[k - 1] = Written(triggers[k]) \o Separated(rest[k])
  <2> TAKE k \in 1 .. N
  <2>1. /\ k - 1 \in 0 .. N /\ k \in 0 .. N /\ N - (k - 1) \in 1 .. N
        /\ N - (N - (k - 1)) + 1 = k /\ (N - (k - 1)) - 1 = N - k
    BY <1>1
  <2>2. f[N - (k - 1)] = Written(triggers[N - (N - (k - 1)) + 1]) \o Separated(f[(N - (k - 1)) - 1])
    BY <1>6, <2>1
  <2>3. rest[k - 1] = f[N - (k - 1)] /\ rest[k] = f[N - k]
    BY <1>9, <2>1
  <2> QED
    BY <2>1, <2>2, <2>3
<1>12. \A k \in 0 .. N : rest[k] \in Lists /\ Len(rest[k]) >= N - k
  BY <1>7, <1>8, <1>9
<1> QED
  BY <1>10, <1>11, <1>12 DEF Rests, N

\* The list starts as it is written.
LEMMA ListIsWhole ==
  ASSUME NEW cmd, cmd.triggers \in Seq(Phrase), cmd.triggers # << >>, NEW rest, Rests(cmd.triggers, rest)
  PROVE  WrittenList(cmd) = rest[0]
<1> DEFINE triggers == cmd.triggers
           N == Len(triggers)
<1>1. N \in Nat \ {0} /\ triggers \in Triggers
  BY PhrasesAreTexts, Lengths DEF Triggers
<1>2. /\ Pieces(cmd) \in Triggers /\ Len(Pieces(cmd)) = N
      /\ \A i \in 1 .. N : Pieces(cmd)[i] = Piece(cmd, i)
  BY <1>1, PiecesType
<1>3. PICK flat : Flattening(Pieces(cmd), flat)
  BY <1>2, FlatteningExists
<1>4. /\ flat[0] = << >> /\ WrittenList(cmd) = flat[N]
      /\ \A k \in 1 .. N : flat[k] = flat[k - 1] \o Piece(cmd, k)
      /\ \A k \in 0 .. N : flat[k] \in Text
  BY <1>2, <1>3 DEF Flattening, WrittenList
<1>5. /\ rest[N] = << >>
      /\ \A k \in 1 .. N : rest[k - 1] = Written(triggers[k]) \o Separated(rest[k])
      /\ \A k \in 0 .. N : rest[k] \in Lists
  BY DEF Rests
<1>6. \A k \in 0 .. N : rest[k] \in Text /\ Separated(rest[k]) \in Text
  BY <1>5, SeparatedFacts
<1>7. \A k \in 1 .. N : triggers[k] \in Phrase /\ Written(triggers[k]) \in Text
  <2>1. \A k \in 1 .. N : triggers[k] \in Phrase
    BY ElementOfSeq
  <2> QED
    BY <2>1, WrittenEnds
<1>12. N \in Nat \ {0}
  BY <1>1
<1> HIDE DEF N
<1>8. flat[1] \o Separated(rest[1]) = rest[0]
  <2>1. 1 \in 1 .. N /\ 1 - 1 = 0
    BY <1>12
  <2> DEFINE w == Written(triggers[1])
  <2>2. w \in Text
    BY <1>7, <2>1
  <2>3. Piece(cmd, 1) = << >> \o w
    BY DEF Piece
  <2> HIDE DEF w
  <2>4. flat[1] = w
    <3>1. flat[1] = << >> \o (<< >> \o w)
      BY <1>4, <2>1, <2>3
    <3> QED
      BY <2>2, <3>1, NothingAdded
  <2> QED
    BY <1>5, <2>1, <2>4 DEF w
<1>9. \A k \in 2 .. N : flat[k] \o Separated(rest[k]) = flat[k - 1] \o Separated(rest[k - 1])
  <2> TAKE k \in 2 .. N
  <2>1. k \in 1 .. N /\ k - 1 \in 0 .. N /\ k \in 0 .. N /\ k # 1
    BY <1>12
  <2> DEFINE w == Written(triggers[k])
             s == Separated(rest[k])
             f == flat[k - 1]
             comma == <<",">>
             space == <<" ">>
  <2>2. /\ w \in Text /\ s \in Text /\ f \in Text
    BY <1>4, <1>6, <1>7, <2>1
  <2>3. comma \in Text /\ space \in Text /\ <<",", " ">> = comma \o space
    <3>1. \A x, y \in Tokens : <<x>> \in Text /\ <<x, y>> = <<x>> \o <<y>>
      BY OneTokenEnds, TokensTogether
    <3>2. "," \in Tokens /\ " " \in Tokens
      BY MarksAreTokens, SpaceIsToken
    <3> QED
      BY <3>1, <3>2
  <2>4. rest[k - 1] = w \o s /\ rest[k - 1] # << >>
    <3>1. triggers[k] \in Phrase /\ rest[k] \in Lists
      BY <1>5, <1>7, <2>1
    <3> QED
      BY <1>5, <2>1, <3>1, LongerList
  <2>5. Separated(rest[k - 1]) = comma \o (space \o (w \o s))
    BY <2>4 DEF Separated
  <2>6. Piece(cmd, k) = <<",", " ">> \o w
    BY <2>1 DEF Piece
  <2>7. flat[k] = f \o (<<",", " ">> \o w)
    BY <1>4, <2>1, <2>6
  <2> HIDE DEF w, s, f, comma, space
  <2>8. Join(Join(f, Join(Join(comma, space), w)), s) = Join(f, Join(comma, Join(space, Join(w, s))))
    <3>1. /\ Join(comma, space) \in Text /\ Join(Join(comma, space), w) \in Text /\ Join(w, s) \in Text
          /\ Join(space, Join(w, s)) \in Text
      BY <2>2, <2>3, JoinFacts
    <3>2. Join(Join(f, Join(Join(comma, space), w)), s) = Join(f, Join(Join(Join(comma, space), w), s))
      BY <2>2, <3>1, JoinFacts
    <3>3. Join(Join(Join(comma, space), w), s) = Join(Join(comma, space), Join(w, s))
      BY <2>2, <3>1, JoinFacts
    <3>4. Join(Join(comma, space), Join(w, s)) = Join(comma, Join(space, Join(w, s)))
      <4> DEFINE ws == Join(w, s)
      <4>1. ws \in Text
        BY <3>1
      <4> HIDE DEF ws
      <4>2. Join(Join(comma, space), ws) = Join(comma, Join(space, ws))
        BY <2>3, <4>1, JoinFacts
      <4> QED
        BY <4>2 DEF ws
    <3> QED
      BY <3>2, <3>3, <3>4
  <2>9. (f \o ((comma \o space) \o w)) \o s = f \o (comma \o (space \o (w \o s)))
    BY <2>8 DEF Join
  <2> QED
    BY <2>3, <2>5, <2>7, <2>9, Zenon DEF f, s
<1>10. \A k \in 1 .. N : flat[k] \o Separated(rest[k]) = rest[0]
  <2> DEFINE T == {k \in Nat : k + 1 \in 1 .. N => flat[k + 1] \o Separated(rest[k + 1]) = rest[0]}
  <2>1. 0 \in T
    <3>1. 0 + 1 = 1
      OBVIOUS
    <3> QED
      BY <1>8, <3>1
  <2>2. ASSUME NEW k \in Nat, k \in T PROVE k + 1 \in T
    <3>1. ASSUME (k + 1) + 1 \in 1 .. N
          PROVE  flat[(k + 1) + 1] \o Separated(rest[(k + 1) + 1]) = rest[0]
      <4>1. (k + 1) + 1 \in 2 .. N /\ ((k + 1) + 1) - 1 = k + 1 /\ k + 1 \in 1 .. N
        BY <1>12, <3>1
      <4>2. flat[k + 1] \o Separated(rest[k + 1]) = rest[0]
        BY <2>2, <4>1
      <4>3. flat[(k + 1) + 1] \o Separated(rest[(k + 1) + 1])
              = flat[((k + 1) + 1) - 1] \o Separated(rest[((k + 1) + 1) - 1])
        BY <1>9, <4>1
      <4> QED
        BY <4>1, <4>2, <4>3
    <3>2. k + 1 \in Nat
      OBVIOUS
    <3> QED
      BY <3>1, <3>2
  <2>3. Nat \subseteq T
    <3> HIDE DEF T
    <3> QED
      BY <2>1, <2>2, Induction
  <2> TAKE k \in 1 .. N
  <2>4. k - 1 \in Nat /\ (k - 1) + 1 = k
    BY <1>12
  <2>5. k - 1 \in T
    BY <2>3, <2>4
  <2> QED
    BY <2>4, <2>5
<1>11. flat[N] = rest[0]
  <2>1. N \in 1 .. N /\ N \in 0 .. N
    BY <1>12
  <2>2. Separated(rest[N]) = << >>
    BY <1>5 DEF Separated
  <2>3. flat[N] \o << >> = rest[0]
    BY <1>10, <2>1, <2>2
  <2>4. flat[N] \in Text
    BY <1>4, <2>1
  <2> QED
    BY <2>3, <2>4, NothingAdded
<1> QED
  BY <1>4, <1>11

\* ParseTriggers finds the triggers of a list that is written as documented.
LEMMA ListIsRead ==
  ASSUME NEW triggers \in Seq(Phrase), triggers # << >>, NEW rest, Rests(triggers, rest)
  PROVE  ParseTriggers(rest[0]) = triggers
<1> DEFINE N == Len(triggers)
           list == rest[0]
           L == Len(list)
           before(k) == SubSeq(triggers, 1, k)
<1>1. N \in Nat \ {0}
  BY Lengths
<1>2. \A k \in 1 .. N : triggers[k] \in Phrase
  BY ElementOfSeq
<1>3. /\ rest[N] = << >>
      /\ \A k \in 1 .. N : rest[k - 1] = Written(triggers[k]) \o Separated(rest[k])
      /\ \A k \in 0 .. N : rest[k] \in Lists /\ Len(rest[k]) >= N - k
  BY DEF Rests
<1>4. before(0) = << >> /\ before(N) = triggers
  <2>1. SubSeq(triggers, 1, 0) = << >>
    BY SubSeqEmpty
  <2> QED
    BY <2>1, SubSeqFull
<1>5. \A k \in 1 .. N : before(k) = Append(before(k - 1), triggers[k])
  <2> TAKE k \in 1 .. N
  <2>1. 1 \in 1 .. N /\ k \in 1 .. N /\ k - 1 \in Int /\ k - 1 <= N
    BY <1>1
  <2>2. SubSeq(triggers, 1, k) = SubSeq(triggers, 1, k - 1) \o <<triggers[k]>>
    BY <2>1, SubSeqRecursiveSecond
  <2>3. SubSeq(triggers, 1, k - 1) \in Seq(Phrase)
    <3>1. 1 \in Int /\ k - 1 \in Int /\ \A i \in 1 .. k - 1 : triggers[i] \in Phrase
      BY <1>1, <1>2
    <3> QED
      BY <3>1, SubSeqProperties
  <2>4. triggers[k] \in Phrase
    BY <1>2
  <2>5. Append(SubSeq(triggers, 1, k - 1), triggers[k]) = SubSeq(triggers, 1, k - 1) \o <<triggers[k]>>
    BY <2>3, <2>4, AppendIsConcat
  <2> QED
    BY <2>2, <2>5
<1>12. N \in Nat /\ N # 0
  BY <1>1
<1> HIDE DEF N, before
<1>6. list \in Text /\ L \in Nat /\ N <= L /\ TrimSpace(list) = list
  <2>1. 0 \in 0 .. N /\ 1 \in 1 .. N /\ 1 - 1 = 0
    BY <1>12
  <2>2. list \in Lists /\ Len(list) >= N - 0
    BY <1>3, <2>1
  <2>3. list \in Text
    BY <2>2, ListedTexts DEF Lists
  <2>4. TrimSpace(list) = list
    BY <2>2, <2>3, SolidTrims, TrimNothing DEF Lists
  <2>5. L \in Nat
    BY <2>3, Lengths DEF Text
  <2>6. N <= L
    BY <1>12, <2>2, <2>5
  <2> QED
    BY <2>3, <2>4, <2>5, <2>6
<1>7. PICK parsed : TriggerScan(list, parsed) /\ ParseTriggers(list) = parsed[L].found
  BY <1>6, TriggerScanExists
<1>8. /\ parsed[0] = [found |-> << >>, rest |-> list]
      /\ \A n \in 1 .. L : parsed[n] = ParseStep(parsed[n - 1])
  BY <1>6, <1>7 DEF TriggerScan
<1> HIDE DEF list, L
\* One step for each trigger.
<1>9. ASSUME NEW k \in 1 .. N, NEW p, p = [found |-> before(k - 1), rest |-> rest[k - 1]]
      PROVE  ParseStep(p) = [found |-> before(k), rest |-> rest[k]]
  <2> DEFINE next == NextTrigger(p.rest)
  <2>1. /\ triggers[k] \in Phrase /\ rest[k] \in Lists
        /\ rest[k - 1] = Written(triggers[k]) \o Separated(rest[k])
    <3>1. k \in 0 .. N
      BY <1>12
    <3> QED
      BY <1>2, <1>3, <3>1
  <2>2. p.rest = rest[k - 1] /\ p.found = before(k - 1)
    BY <1>9
  <2>3. p.rest # << >>
    BY <2>1, <2>2, LongerList
  <2>4. next.trigger = triggers[k] /\ next.rest = rest[k]
    BY <2>1, <2>2, NextIsRead
  <2>5. triggers[k] # << >>
    BY <2>1, PhraseFacts
  <2>6. ParseStep(p) = IF next.trigger = << >> THEN [found |-> << >>, rest |-> << >>]
                       ELSE [found |-> Append(p.found, next.trigger), rest |-> next.rest]
    BY <2>3 DEF ParseStep
  <2> HIDE DEF next
  <2>7. ParseStep(p) = [found |-> Append(before(k - 1), triggers[k]), rest |-> rest[k]]
    BY <2>2, <2>4, <2>5, <2>6
  <2> QED
    BY <1>5, <2>7
<1>10. ASSUME NEW p, p.rest = << >> PROVE ParseStep(p) = p
  BY <1>10 DEF ParseStep
<1> DEFINE Found(n) == IF n <= N THEN [found |-> before(n), rest |-> rest[n]]
                       ELSE [found |-> triggers, rest |-> << >>]
<1>11. \A n \in 0 .. L : parsed[n] = Found(n)
  <2> DEFINE T == {n \in Nat : n <= L => parsed[n] = Found(n)}
  <2>1. 0 \in T
    <3>1. Found(0) = [found |-> << >>, rest |-> list]
      BY <1>4, <1>12 DEF list
    <3> QED
      BY <1>8, <3>1
  <2>2. ASSUME NEW n \in Nat, n \in T PROVE n + 1 \in T
    <3>1. ASSUME n + 1 <= L PROVE parsed[n + 1] = Found(n + 1)
      <4>1. n + 1 \in 1 .. L /\ (n + 1) - 1 = n /\ n <= L
        BY <1>6, <3>1
      <4>2. parsed[n] = Found(n) /\ parsed[n + 1] = ParseStep(parsed[n])
        BY <1>8, <2>2, <4>1
      <4>3. CASE n + 1 <= N
        <5>1. n + 1 \in 1 .. N /\ n <= N
          BY <1>12, <4>3
        <5>2. Found(n) = [found |-> before((n + 1) - 1), rest |-> rest[(n + 1) - 1]]
          BY <4>1, <5>1
        <5>3. Found(n + 1) = [found |-> before(n + 1), rest |-> rest[n + 1]]
          BY <4>3
        <5> QED
          BY <1>9, <4>2, <5>1, <5>2, <5>3
      <4>4. CASE ~(n + 1 <= N)
        <5>1. n = N \/ ~(n <= N)
          BY <1>12, <4>4
        <5>2. Found(n) = [found |-> triggers, rest |-> << >>]
          BY <1>3, <1>4, <5>1
        <5>3. Found(n + 1) = [found |-> triggers, rest |-> << >>]
          BY <4>4
        <5> HIDE DEF Found
        <5>4. Found(n).rest = << >>
          BY <5>2
        <5> QED
          BY <1>10, <4>2, <5>2, <5>3, <5>4
      <4> QED
        BY <4>3, <4>4
    <3>2. n + 1 \in Nat
      OBVIOUS
    <3> HIDE DEF Found
    <3> QED
      BY <3>1, <3>2
  <2>3. Nat \subseteq T
    <3> HIDE DEF T
    <3> QED
      BY <2>1, <2>2, Induction
  <2> HIDE DEF Found
  <2> QED
    BY <1>6, <2>3
<1>13. parsed[L].found = triggers
  <2>1. L \in 0 .. L
    BY <1>6
  <2>2. parsed[L] = Found(L)
    BY <1>11, <2>1
  <2>3. CASE L <= N
    <3>1. L = N
      BY <1>6, <1>12, <2>3
    <3>2. Found(L).found = before(N)
      BY <2>3, <3>1
    <3> QED
      BY <1>4, <2>2, <3>2
  <2>4. CASE ~(L <= N)
    BY <2>2, <2>4
  <2> QED
    BY <2>3, <2>4
<1> QED
  BY <1>7, <1>13 DEF list

-----------------------------------------------------------------------------
(* A command as a whole.                                                   *)

\* A command is taken apart at its first space.
LEMMA ArgumentsAre ==
  \A x, y \in Text :
    Solid(x \o y) => Arguments((<<"/filter", " ">> \o x) \o y) = x \o y
<1> TAKE x, y \in Text
<1> HAVE Solid(x \o y)
<1> DEFINE filter == <<"/filter">>
           space == <<" ">>
           two == <<"/filter", " ">>
           args == x \o y
           tail == space \o args
<1>1. filter \in Text /\ space \in Text /\ two = filter \o space
  <2>1. \A a, b \in Tokens : <<a>> \in Text /\ <<a, b>> = <<a>> \o <<b>>
    BY OneTokenEnds, TokensTogether
  <2>2. "/filter" \in Tokens /\ " " \in Tokens
    BY MarksAreTokens, SpaceIsToken
  <2> QED
    BY <2>1, <2>2
<1>2. args \in Text /\ TrimSpace(tail) = args
  BY ConcatText, SpaceInFront
<1>3. tail \in Text /\ Tail(filter \o tail) = tail
  <2>1. "/filter" \in Tokens /\ " " \in Tokens
    BY MarksAreTokens, SpaceIsToken
  <2> HIDE DEF args
  <2>2. tail \in Text
    BY <1>2, <2>1, Put
  <2> HIDE DEF tail
  <2> QED
    BY <2>1, <2>2, TailOfPut
<1>4. (two \o x) \o y = filter \o tail
  <2> HIDE DEF filter, space, two
  <2>1. Join(Join(Join(filter, space), x), y) = Join(filter, Join(space, Join(x, y)))
    <3>1. Join(filter, space) \in Text /\ Join(x, y) \in Text
      BY <1>1, JoinFacts
    <3>2. Join(Join(Join(filter, space), x), y) = Join(Join(filter, space), Join(x, y))
      BY <1>1, <3>1, JoinFacts
    <3>3. Join(Join(filter, space), Join(x, y)) = Join(filter, Join(space, Join(x, y)))
      <4> DEFINE xy == Join(x, y)
      <4>1. xy \in Text
        BY <3>1
      <4> HIDE DEF xy
      <4>2. Join(Join(filter, space), xy) = Join(filter, Join(space, xy))
        BY <1>1, <4>1, JoinFacts
      <4> QED
        BY <4>2 DEF xy
    <3> QED
      BY <3>2, <3>3
  <2>2. ((filter \o space) \o x) \o y = filter \o (space \o (x \o y))
    BY <2>1 DEF Join
  <2> QED
    BY <1>1, <2>2, Zenon
<1> DEFINE all == (two \o x) \o y
<1>5. Arguments(all) = TrimSpace(Tail(all))
  BY DEF Arguments
<1> HIDE DEF filter, space, two, args, tail
<1> QED
  BY <1>2, <1>3, <1>4, <1>5, Zenon DEF args, two

\* What follows the triggers of a command.
Following(response) == IF response = << >> THEN << >> ELSE <<" ">> \o response

LEMMA FollowingFacts ==
  ASSUME NEW response \in Text, response = << >> \/ Solid(response)
  PROVE  /\ Following(response) \in Text /\ TrimSpace(Following(response)) = response
         /\ Following(response) # << >> <=> response # << >>
         /\ response # << >> => Following(response)[Len(Following(response))] \notin Spaces
<1>1. CASE response = << >>
  BY <1>1, NothingAdded, TrimNothing DEF Following
<1>2. CASE response # << >>
  <2> DEFINE f == <<" ">> \o response
  <2>1. f \in Text /\ f # << >>
    BY SpaceIsToken, Put
  <2>2. TrimSpace(f) = response
    BY <1>2, SpaceInFront
  <2>3. f[Len(f)] = response[Len(response)]
    <3>1. <<" ">> \in Text
      BY SpaceIsToken, OneTokenEnds
    <3> QED
      BY <1>2, <3>1, EndOfConcat
  <2>4. response[Len(response)] \notin Spaces
    BY <1>2 DEF Solid, Trimmed
  <2>5. Following(response) = f
    BY <1>2 DEF Following
  <2> HIDE DEF f
  <2> QED
    BY <1>2, <2>1, <2>2, <2>3, <2>4, <2>5
<1> QED
  BY <1>1, <1>2

\* One trigger, without parentheses.
LEMMA OneIsRead ==
  ASSUME NEW cmd, Documented(cmd), Len(cmd.triggers) = 1
  PROVE  ParseFilterCommand(FilterCommand(cmd)) = cmd
<1> DEFINE t == cmd.triggers[1]
           w == Written(t)
           response == WrittenResponse(cmd)
           e == Following(response)
           args == w \o e
           next == ParseNextToken(args)
<1>1. /\ cmd.triggers \in Seq(Phrase) /\ cmd.triggers # << >> /\ cmd.triggers = <<t>>
      /\ t \in Phrase
  <2>1. cmd.triggers \in Seq(Phrase) /\ cmd.triggers # << >>
    BY DEF Documented
  <2>2. 1 \in 1 .. Len(cmd.triggers)
    OBVIOUS
  <2>3. t \in Phrase
    BY <2>1, <2>2, ElementOfSeq
  <2>4. <<t>> \in Seq(Phrase) /\ Len(<<t>>) = 1 /\ <<t>>[1] = t
    BY <2>3, Lengths
  <2>5. cmd.triggers = <<t>>
    <3> DEFINE a == cmd.triggers
               b == <<t>>
    <3>1. a \in Seq(Phrase) /\ b \in Seq(Phrase) /\ Len(a) = 1 /\ Len(b) = 1 /\ a[1] = t /\ b[1] = t
      BY <2>1, <2>4
    <3> HIDE DEF a, b
    <3>2. \A i \in 1 .. 1 : i = 1
      OBVIOUS
    <3>3. a = b
      BY <3>1, <3>2, SeqEqual
    <3> QED
      BY <3>3 DEF a, b
  <2> QED
    BY <2>1, <2>3, <2>5
<1>2. PICK rest : Rests(cmd.triggers, rest)
  BY <1>1, RestsExist
<1>3. WrittenTriggers(cmd) = w
  <2>1. WrittenTriggers(cmd) = rest[0]
    BY <1>1, <1>2, ListIsWhole DEF WrittenTriggers
  <2>2. rest[0] = w \o Separated(rest[1]) /\ rest[1] = << >>
    <3>1. 1 \in 1 .. Len(cmd.triggers) /\ 1 - 1 = 0
      OBVIOUS
    <3> QED
      BY <1>2, <3>1 DEF Rests
  <2>3. w \in Text
    BY <1>1, WrittenEnds
  <2> HIDE DEF w
  <2> QED
    BY <2>1, <2>2, <2>3, NothingAdded DEF Separated
<1>4. /\ response \in Text /\ (response = << >> \/ Solid(response))
      /\ Response(cmd.triggers, response) = cmd
  BY ResponseIsRead
<1>5. /\ w \in Text /\ w # << >> /\ w[1] \in Marked /\ w[Len(w)] \in Marked
  BY <1>1, WrittenEnds
<1>6. FilterCommand(cmd) = (<<"/filter", " ">> \o w) \o e
  BY <1>3, WrittenParts DEF Following
<1> HIDE DEF response
<1>7. /\ e \in Text /\ TrimSpace(e) = response /\ (e # << >> <=> response # << >>)
      /\ (response # << >> => e[Len(e)] \notin Spaces)
  BY <1>4, FollowingFacts
<1>8. /\ t \in Text /\ t # << >> /\ \A i \in 1 .. Len(t) : t[i] # Quote
  BY <1>1, PhraseFacts
<1>9. w = (<<Quote>> \o t) \o <<Quote>> \/ (w = t /\ \A i \in 1 .. Len(t) : t[i] \in Letters)
  BY <1>1, WrittenForms
<1> HIDE DEF w, t
<1>10. Solid(args) /\ args[1] \in Marked
  <2> HIDE DEF e
  <2>1. args # << >> /\ args[1] = w[1]
    BY <1>5, <1>7, EndOfConcat
  <2>2. CASE e = << >>
    <3>1. args = w
      BY <1>5, <2>2, NothingAdded
    <3> HIDE DEF args
    <3> QED
      BY <1>5, <3>1, MarkedFacts DEF Solid, Trimmed
  <2>3. CASE e # << >>
    <3>1. Solid(args)
      BY <1>5, <1>7, <2>3, MarkedFacts, SolidConcat
    <3> QED
      BY <1>5, <2>1, <3>1
  <2> QED
    BY <2>2, <2>3
<1>11. Arguments(FilterCommand(cmd)) = args
  <2> HIDE DEF e
  <2> QED
    BY <1>5, <1>6, <1>7, <1>10, ArgumentsAre
<1>12. args # << >> /\ args[1] # "("
  BY <1>10, MarkedFacts DEF Solid
<1>13. next.ok = TRUE /\ next.token = t /\ next.rest = response
  <2>1. CASE w = (<<Quote>> \o t) \o <<Quote>>
    <3> HIDE DEF e
    <3> DEFINE text == <<Quote>> \o (t \o (<<Quote>> \o e))
    <3>1. args = text
      BY <1>7, <1>8, <2>1, QuotedFirst
    <3>2. ParseNextToken(text) = [ok |-> TRUE, token |-> t, rest |-> TrimSpace(e)]
      BY <1>7, <1>8, PhraseIsRead
    <3> HIDE DEF args, text
    <3> QED
      BY <1>7, <3>1, <3>2
  <2>2. CASE w = t /\ \A i \in 1 .. Len(t) : t[i] \in Letters
    <3>1. args[1] # Quote
      <4>1. args[1] = t[1]
        <5> HIDE DEF e
        <5> QED
          BY <1>7, <1>8, <2>2, EndOfConcat
      <4>2. 1 \in 1 .. Len(t)
        <5>1. Len(t) \in Nat /\ Len(t) # 0
          BY <1>8, Lengths DEF Text
        <5> QED
          BY <5>1
      <4> QED
        BY <2>2, <4>1, <4>2 DEF Letters, Quote
    <3>2. \A i \in 1 .. Len(t) : t[i] # " "
      BY <2>2 DEF Letters
    <3> DEFINE end == First(args, " ")
    <3>3. next = IF end = 0 THEN [ok |-> TRUE, token |-> args, rest |-> << >>]
                 ELSE [ok |-> TRUE, token |-> Before(args, end), rest |-> From(args, end + 1)]
      BY <3>1 DEF ParseNextToken
    <3>4. CASE response = << >>
      <4>1. args = t
        BY <1>7, <1>8, <2>2, <3>4, NothingAdded
      <4>2. end = 0
        <5>1. end \in 0 .. Len(t)
          BY <1>8, <4>1, FirstRange
        <5>2. end # 0 => end \in 1 .. Len(t) /\ t[end] = " "
          BY <1>8, <4>1, FirstFacts
        <5> HIDE DEF end
        <5> QED
          BY <3>2, <5>2
      <4> HIDE DEF args, end, next
      <4> QED
        BY <3>3, <3>4, <4>1, <4>2
    <3>5. CASE response # << >>
      <4> DEFINE u == t \o (<<" ">> \o response)
      <4>1. " " \in Tokens
        BY SpaceIsToken
      <4>2. /\ First(u, " ") = Len(t) + 1 /\ Before(u, First(u, " ")) = t
            /\ From(u, First(u, " ") + 1) = response
        BY <1>4, <1>8, <3>2, <4>1, CutAt
      <4>3. args = u
        BY <2>2, <3>5 DEF Following
      <4> HIDE DEF args, u
      <4>4. Len(t) \in Nat
        BY <1>8, Lengths DEF Text
      <4>5. First(u, " ") # 0
        <5> DEFINE cut == First(u, " ")
                   n == Len(t)
        <5>1. cut = n + 1 /\ n \in Nat
          BY <4>2, <4>4
        <5> HIDE DEF cut, n
        <5>2. cut # 0
          BY <5>1
        <5> QED
          BY <5>2 DEF cut
      <4>6. next = [ok |-> TRUE, token |-> Before(u, First(u, " ")), rest |-> From(u, First(u, " ") + 1)]
        BY <3>3, <4>3, <4>5
      <4> HIDE DEF next
      <4> QED
        BY <4>2, <4>6
    <3> QED
      BY <3>4, <3>5
  <2> QED
    BY <1>9, <2>1, <2>2
<1> HIDE DEF args, next
<1>14. ParseFilterCommand(FilterCommand(cmd)) = Response(<<next.token>>, next.rest)
  <2>1. next.ok
    BY <1>13
  <2> QED
    BY <1>11, <1>12, <2>1 DEF ParseFilterCommand, next
<1> QED
  BY <1>1, <1>4, <1>13, <1>14

\* Several triggers, in parentheses.
LEMMA SeveralAreRead ==
  ASSUME NEW cmd, Documented(cmd), Len(cmd.triggers) # 1
  PROVE  ParseFilterCommand(FilterCommand(cmd)) = cmd
<1> DEFINE list == WrittenList(cmd)
           response == WrittenResponse(cmd)
           e == Following(response)
           open == <<"(">>
           shut == <<")">>
           w == (open \o list) \o shut
           args == w \o e
           front == open \o list
           tail == list \o (shut \o e)
           close == First(args, ")")
<1>1. cmd.triggers \in Seq(Phrase) /\ cmd.triggers # << >>
  BY DEF Documented
<1>2. PICK rest : Rests(cmd.triggers, rest)
  BY <1>1, RestsExist
<1>3. list = rest[0] /\ ParseTriggers(list) = cmd.triggers /\ list \in Lists
  <2>1. list = rest[0] /\ ParseTriggers(rest[0]) = cmd.triggers
    BY <1>1, <1>2, ListIsWhole, ListIsRead
  <2>2. 0 \in 0 .. Len(cmd.triggers)
    BY <1>1, Lengths
  <2>3. rest[0] \in Lists
    BY <1>2, <2>2 DEF Rests
  <2> QED
    BY <2>1, <2>3
<1>4. /\ response \in Text /\ (response = << >> \/ Solid(response))
      /\ Response(cmd.triggers, response) = cmd
  BY ResponseIsRead
<1>5. FilterCommand(cmd) = (<<"/filter", " ">> \o w) \o e
  BY WrittenParts DEF Following, WrittenTriggers
<1> HIDE DEF list, response
<1>6. /\ e \in Text /\ TrimSpace(e) = response /\ (e # << >> <=> response # << >>)
      /\ (response # << >> => e[Len(e)] \notin Spaces)
  BY <1>4, FollowingFacts
<1> HIDE DEF e
<1>7. /\ open \in Text /\ open # << >> /\ open[1] = "(" /\ shut \in Text /\ shut # << >>
      /\ shut[1] = ")" /\ shut[Len(shut)] = ")" /\ "(" \in Tokens /\ ")" \in Tokens
  <2>1. "(" \in Tokens /\ ")" \in Tokens
    BY MarksAreTokens
  <2> QED
    BY <2>1, OneTokenEnds
<1>8. list \in Text /\ \A i \in 1 .. Len(list) : list[i] # ")"
  <2>1. list \in Seq(Listed) /\ list \in Text
    BY <1>3, ListedTexts DEF Lists
  <2>2. \A i \in 1 .. Len(list) : list[i] \in Listed
    BY <2>1, ElementOfSeq
  <2>3. \A x \in Listed : x # ")"
    BY DEF Listed, Letters, Quote
  <2> QED
    BY <2>1, <2>2, <2>3
<1>9. /\ args = front \o (shut \o e) /\ args = open \o tail
      /\ w \in Text /\ front \in Text /\ tail \in Text /\ args \in Text
  <2> HIDE DEF open, shut
  <2>1. /\ Join(open, list) \in Text /\ Join(shut, e) \in Text
        /\ Join(Join(open, list), shut) \in Text /\ Join(list, Join(shut, e)) \in Text
    BY <1>6, <1>7, <1>8, JoinFacts
  <2>2. Join(Join(Join(open, list), shut), e) \in Text
    BY <1>6, <2>1, JoinFacts
  <2>3. Join(Join(Join(open, list), shut), e) = Join(Join(open, list), Join(shut, e))
    BY <1>6, <1>7, <2>1, JoinFacts
  <2>4. Join(Join(open, list), Join(shut, e)) = Join(open, Join(list, Join(shut, e)))
    <3> DEFINE s == Join(shut, e)
    <3>1. s \in Text
      BY <2>1
    <3> HIDE DEF s
    <3>2. Join(Join(open, list), s) = Join(open, Join(list, s))
      BY <1>7, <1>8, <3>1, JoinFacts
    <3> QED
      BY <3>2 DEF s
  <2> QED
    BY <2>1, <2>2, <2>3, <2>4 DEF Join
<1>10. w # << >> /\ w[1] = "(" /\ w[Len(w)] = ")"
  <2>1. front # << >> /\ front[1] = "("
    <3> HIDE DEF open
    <3> QED
      BY <1>7, <1>8, EndOfConcat
  <2> DEFINE v == front \o shut
  <2> HIDE DEF front
  <2>2. v # << >> /\ v[1] = "(" /\ v[Len(v)] = ")"
    <3> HIDE DEF shut
    <3> QED
      BY <1>7, <1>9, <2>1, EndOfConcat
  <2> QED
    BY <2>2 DEF v, front
<1>11. Solid(args) /\ args # << >> /\ args[1] = "("
  <2> HIDE DEF w
  <2>1. args # << >> /\ args[1] = "("
    BY <1>6, <1>9, <1>10, EndOfConcat
  <2>2. "(" \notin Spaces /\ ")" \notin Spaces
    BY DEF Spaces
  <2>3. CASE e = << >>
    <3>1. args = w
      BY <1>9, <2>3, NothingAdded
    <3> HIDE DEF args
    <3> QED
      BY <1>10, <2>2, <3>1 DEF Solid, Trimmed
  <2>4. CASE e # << >>
    BY <1>6, <1>9, <1>10, <2>1, <2>2, <2>4, SolidConcat
  <2> QED
    BY <2>1, <2>3, <2>4
<1>12. Arguments(FilterCommand(cmd)) = args
  <2> HIDE DEF w
  <2> QED
    BY <1>5, <1>6, <1>9, <1>11, ArgumentsAre
<1>13. \A i \in 1 .. Len(front) : front[i] # ")"
  <2> DEFINE f == front
             n == Len(list)
  <2>1. f[1] = "(" /\ Len(f) = n + 1 /\ \A i \in 1 .. n : f[i + 1] = list[i]
    BY <1>7, <1>8, Put
  <2>2. n \in Nat /\ \A i \in 1 .. n : list[i] # ")"
    BY <1>8, Lengths DEF Text
  <2> HIDE DEF f, n
  <2>3. \A i \in 1 .. n + 1 : f[i] # ")"
    <3> TAKE i \in 1 .. n + 1
    <3>1. CASE i = 1
      BY <2>1, <3>1
    <3>2. CASE i # 1
      <4>1. n \in Nat
        BY <2>2
      <4>2. i - 1 \in 1 .. n /\ (i - 1) + 1 = i
        BY <3>2, <4>1
      <4> QED
        BY <2>1, <2>2, <4>2
    <3> QED
      BY <3>1, <3>2
  <2> QED
    BY <2>1, <2>3 DEF f
<1>14. /\ close \in 1 .. Len(args) /\ close = Len(list) + 2 /\ From(args, close + 1) = e
  <2> DEFINE u == front \o (shut \o e)
  <2>1. /\ First(u, ")") = Len(front) + 1 /\ First(u, ")") \in 1 .. Len(u)
        /\ From(u, First(u, ")") + 1) = e
    <3> HIDE DEF front
    <3> QED
      BY <1>6, <1>7, <1>9, <1>13, CutAt
  <2>2. args = u
    BY <1>9
  <2>3. Len(front) = Len(list) + 1 /\ Len(list) \in Nat
    BY <1>7, <1>8, Put, Lengths DEF Text
  <2> HIDE DEF args, u, front
  <2>4. Len(list) + 1 + 1 = Len(list) + 2
    BY <2>3
  <2> QED
    BY <2>1, <2>2, <2>3, <2>4
<1>15. SubSeq(args, 2, close - 1) = list
  <2> DEFINE n == Len(list)
  <2>1. n \in Nat /\ n <= Len(tail)
    <3>1. Len(list \o (shut \o e)) = Len(list) + Len(shut \o e) /\ Len(list) \in Nat /\ Len(shut \o e) \in Nat
      <4>1. shut \o e \in Text
        BY <1>6, <1>7, ConcatText
      <4> DEFINE s == shut \o e
      <4> HIDE DEF s
      <4>2. Len(list \o s) = Len(list) + Len(s) /\ Len(list) \in Nat /\ Len(s) \in Nat
        BY <1>8, <4>1, ConcatProperties, Lengths DEF s, Text
      <4> QED
        BY <4>2 DEF s
    <3> QED
      BY <3>1
  <2> HIDE DEF n, tail
  <2>2. SubSeq(open \o tail, 1 + 1, n + 1) = SubSeq(tail, 1, n)
    <3>1. 1 \in Int /\ n \in Int /\ 1 >= 1 /\ n <= Len(tail)
      BY <2>1
    <3> QED
      BY <1>7, <1>9, <3>1, PieceOfPut
  <2>3. SubSeq(tail, 1, n) = list
    <3> DEFINE u == list \o (shut \o e)
    <3>1. First(u, ")") = n + 1 /\ Before(u, First(u, ")")) = list
      BY <1>6, <1>7, <1>8, CutAt DEF n
    <3>2. tail = u
      BY DEF tail
    <3> HIDE DEF u
    <3>3. (n + 1) - 1 = n
      BY <2>1
    <3> QED
      BY <3>1, <3>2, <3>3 DEF Before
  <2>4. 1 + 1 = 2 /\ close - 1 = n + 1
    <3>1. close = n + 2
      BY <1>14 DEF n
    <3> HIDE DEF close
    <3> QED
      BY <2>1, <3>1
  <2> QED
    BY <1>9, <2>2, <2>3, <2>4
<1> HIDE DEF args
<1>16. close # 0
  <2>1. Len(list) \in Nat /\ close = Len(list) + 2
    BY <1>8, <1>14, Lengths DEF Text
  <2> HIDE DEF close
  <2> QED
    BY <2>1
<1>17. ParseFilterCommand(FilterCommand(cmd)) = Response(cmd.triggers, TrimSpace(e))
  <2>1. ParseTriggers(SubSeq(args, 2, close - 1)) = cmd.triggers
    BY <1>3, <1>15
  <2>2. From(args, close + 1) = e
    BY <1>14
  <2>3. ParseFilterCommand(FilterCommand(cmd)) =
          IF close = 0 \/ ParseTriggers(SubSeq(args, 2, close - 1)) = << >> THEN NoFilter
          ELSE Response(ParseTriggers(SubSeq(args, 2, close - 1)), TrimSpace(From(args, close + 1)))
    BY <1>11, <1>12 DEF ParseFilterCommand
  <2> HIDE DEF close
  <2> QED
    BY <1>1, <1>16, <2>1, <2>2, <2>3
<1> QED
  BY <1>4, <1>6, <1>17

LEMMA FilterIsRead ==
  \A cmd : Documented(cmd) => ParseFilterCommand(FilterCommand(cmd)) = cmd
BY OneIsRead, SeveralAreRead
=============================================================================

--------------------------- MODULE FilterTextFacts ---------------------------
(***************************************************************************)
(* What the operators of FilterText compute, for texts of any length:      *)
(* lower case, the normal form of a message, the words of a text, and the  *)
(* condition of the query.  The scans are unfolded into equations for      *)
(* Append, and the rest is induction over sequences with those equations.  *)
(***************************************************************************)
EXTENDS FilterText, Recursion

Text == Seq(Tokens)

Plain == Letters \cup Spaces

\* Lower, for one token.
Low(x) == IF x = "A" THEN "a" ELSE x

\* The last token of the text is in S.
EndsIn(text, S) == text # << >> /\ text[Len(text)] \in S

LEMMA Lengths ==
  ASSUME NEW S, NEW s \in Seq(S)
  PROVE  Len(s) \in Nat /\ DOMAIN s = 1 .. Len(s) /\ (s = << >> <=> Len(s) = 0)
BY EmptySeq, LenProperties

LEMMA LastOfAppend ==
  ASSUME NEW S, NEW s \in Seq(S), NEW e \in S
  PROVE  Append(s, e)[Len(Append(s, e))] = e /\ Append(s, e) # << >>
BY AppendProperties

-----------------------------------------------------------------------------
(* Lower case.                                                             *)

LEMMA LowType == ASSUME NEW x \in Tokens PROVE Low(x) \in Tokens
BY DEF Low, Tokens, Letters

LEMMA LowKinds ==
  ASSUME NEW x
  PROVE  /\ Low(x) \in Letters <=> x \in Letters
         /\ Low(x) \in Plain <=> x \in Plain
         /\ Low(Low(x)) = Low(x)
         /\ x \in Spaces => Low(x) = x
BY DEF Low, Letters, Spaces, Plain

LEMMA LowerText ==
  ASSUME NEW text \in Text
  PROVE  /\ Lower(text) \in Text
         /\ Len(Lower(text)) = Len(text)
         /\ \A i \in 1 .. Len(text) : Lower(text)[i] = Low(text[i])
<1>1. Len(text) \in Nat /\ DOMAIN text = 1 .. Len(text)
  BY Lengths DEF Text
<1>2. Lower(text) = [i \in 1 .. Len(text) |-> Low(text[i])]
  BY <1>1 DEF Lower, Low
<1>3. \A i \in 1 .. Len(text) : Low(text[i]) \in Tokens
  BY ElementOfSeq, LowType DEF Text
<1> QED
  BY <1>1, <1>2, <1>3 DEF Text

LEMMA LowerAppend ==
  ASSUME NEW text \in Text, NEW e \in Tokens
  PROVE  Lower(Append(text, e)) = Append(Lower(text), Low(e))
<1> DEFINE a == Append(text, e)
           b == Append(Lower(text), Low(e))
<1>1. a \in Text /\ Len(a) = Len(text) + 1 /\ a[Len(text) + 1] = e
      /\ \A i \in 1 .. Len(text) : a[i] = text[i]
  BY AppendProperties DEF Text
<1>2. /\ b \in Text /\ Len(b) = Len(text) + 1 /\ b[Len(text) + 1] = Low(e)
      /\ \A i \in 1 .. Len(text) : b[i] = Low(text[i])
  BY AppendProperties, LowerText, LowType DEF Text
<1>3. Len(text) \in Nat
  BY Lengths DEF Text
<1> HIDE DEF a, b
<1>4. /\ Lower(a) \in Text /\ Len(Lower(a)) = Len(text) + 1
      /\ \A i \in 1 .. Len(text) + 1 : Lower(a)[i] = Low(a[i])
  BY <1>1, LowerText
<1>5. \A i \in 1 .. Len(text) + 1 : Lower(a)[i] = b[i]
  BY <1>1, <1>2, <1>3, <1>4
<1>6. Lower(a) = b
  BY <1>2, <1>4, <1>5, SeqEqual DEF Text
<1> QED
  BY <1>6 DEF a, b

LEMMA LowerConcat ==
  ASSUME NEW a \in Text, NEW b \in Text
  PROVE  Lower(a \o b) = Lower(a) \o Lower(b)
<1>1. /\ a \o b \in Text /\ Len(a \o b) = Len(a) + Len(b)
      /\ \A i \in 1 .. Len(a) + Len(b) : (a \o b)[i] = IF i <= Len(a) THEN a[i] ELSE b[i - Len(a)]
  BY ConcatProperties DEF Text
<1>2. /\ Lower(a) \o Lower(b) \in Text /\ Len(Lower(a) \o Lower(b)) = Len(a) + Len(b)
      /\ \A i \in 1 .. Len(a) + Len(b) :
           (Lower(a) \o Lower(b))[i] = IF i <= Len(a) THEN Lower(a)[i] ELSE Lower(b)[i - Len(a)]
  <2>1. /\ Lower(a) \in Seq(Tokens) /\ Len(Lower(a)) = Len(a)
        /\ Lower(b) \in Seq(Tokens) /\ Len(Lower(b)) = Len(b)
    BY LowerText DEF Text
  <2> DEFINE u == Lower(a)
             v == Lower(b)
  <2>2. u \in Seq(Tokens) /\ v \in Seq(Tokens) /\ Len(u) = Len(a) /\ Len(v) = Len(b)
    BY <2>1
  <2> HIDE DEF u, v
  <2>3. /\ u \o v \in Seq(Tokens) /\ Len(u \o v) = Len(u) + Len(v)
        /\ \A i \in 1 .. Len(u) + Len(v) : (u \o v)[i] = IF i <= Len(u) THEN u[i] ELSE v[i - Len(u)]
    BY <2>2, ConcatProperties
  <2>4. /\ u \o v \in Text /\ Len(u \o v) = Len(a) + Len(b)
        /\ \A i \in 1 .. Len(a) + Len(b) : (u \o v)[i] = IF i <= Len(a) THEN u[i] ELSE v[i - Len(a)]
    BY <2>2, <2>3, Zenon DEF Text
  <2> QED
    BY <2>4 DEF u, v
<1>3. Len(a) \in Nat /\ Len(b) \in Nat
  BY Lengths DEF Text
<1>4. /\ Lower(a \o b) \in Text /\ Len(Lower(a \o b)) = Len(a) + Len(b)
      /\ \A i \in 1 .. Len(a) + Len(b) : Lower(a \o b)[i] = Low((a \o b)[i])
  BY <1>1, LowerText
<1>5. /\ \A i \in 1 .. Len(a) : Lower(a)[i] = Low(a[i])
      /\ \A i \in 1 .. Len(b) : Lower(b)[i] = Low(b[i])
  BY LowerText
<1>6. \A i \in 1 .. Len(a) + Len(b) : Lower(a \o b)[i] = (Lower(a) \o Lower(b))[i]
  <2> TAKE i \in 1 .. Len(a) + Len(b)
  <2>1. CASE i <= Len(a)
    <3>1. i \in 1 .. Len(a)
      BY <1>3, <2>1
    <3> QED
      BY <1>1, <1>2, <1>4, <1>5, <2>1, <3>1
  <2>2. CASE ~(i <= Len(a))
    <3>1. i - Len(a) \in 1 .. Len(b)
      BY <1>3, <2>2
    <3> QED
      BY <1>1, <1>2, <1>4, <1>5, <2>2, <3>1
  <2> QED
    BY <2>1, <2>2
<1> QED
  BY <1>2, <1>4, <1>6, SeqEqual DEF Text

LEMMA LowerLower ==
  ASSUME NEW text \in Text
  PROVE  Lower(Lower(text)) = Lower(text)
<1>1. /\ Lower(text) \in Text /\ Len(Lower(text)) = Len(text)
      /\ \A i \in 1 .. Len(text) : Lower(text)[i] = Low(text[i])
  BY LowerText
<1>2. /\ Lower(Lower(text)) \in Text /\ Len(Lower(Lower(text))) = Len(text)
      /\ \A i \in 1 .. Len(text) : Lower(Lower(text))[i] = Low(Lower(text)[i])
  BY <1>1, LowerText
<1>3. \A i \in 1 .. Len(text) : Lower(Lower(text))[i] = Lower(text)[i]
  BY <1>1, <1>2, LowKinds
<1> QED
  BY <1>1, <1>2, <1>3, SeqEqual DEF Text

-----------------------------------------------------------------------------
(* The normal form of a message.                                           *)

\* The scan of NormalizeMessage, before it is put in lower case.
Kept(text, i) == text[i] \in Plain

NormalStep(text, i, c) ==
  IF Kept(text, i) THEN Append(c, text[i])
  ELSE IF i > 1 /\ ~Kept(text, i - 1) THEN c
  ELSE Append(c, " ")

NormalScan(text, upTo) ==
  /\ upTo = [i \in 0 .. Len(text) |-> upTo[i]]
  /\ upTo[0] = << >>
  /\ \A i \in 1 .. Len(text) : upTo[i - 1] \in Text /\ upTo[i] = NormalStep(text, i, upTo[i - 1])
  /\ upTo[Len(text)] \in Text

LEMMA SpaceIsToken == " " \in Tokens /\ Plain \subseteq Tokens /\ Letters \subseteq Plain
BY DEF Tokens, Plain, Letters, Spaces

LEMMA NormalScanExists ==
  ASSUME NEW text \in Text
  PROVE  \E upTo : NormalScan(text, upTo) /\ NormalizeMessage(text) = Lower(upTo[Len(text)])
<1> DEFINE N == Len(text)
           Next(i, c) == NormalStep(text, i, c)
           s == [p \in (1 .. N) \X Text |-> Next(p[1], p[2])]
           Eq(f) == f = [i \in 0 .. N |-> IF i = 0 THEN << >> ELSE Next(i, f[i - 1])]
           upTo == CHOOSE f : Eq(f)
<1>1. N \in Nat /\ << >> \in Text /\ DOMAIN text = 1 .. N
  BY Lengths, EmptySeq DEF Text
<1>2. \A i \in 1 .. N, c \in Text : Next(i, c) \in Text
  <2> TAKE i \in 1 .. N, c \in Text
  <2>1. text[i] \in Tokens
    BY ElementOfSeq DEF Text
  <2>2. Append(c, text[i]) \in Text /\ Append(c, " ") \in Text
    BY <2>1, SpaceIsToken, AppendProperties DEF Text
  <2> QED
    BY <2>2 DEF NormalStep
<1>3. IsStep(s, N, Text)
  <2> HIDE DEF Next
  <2> QED
    BY <1>2 DEF IsStep
<1>4. PICK f : IsRun(f, << >>, s, N, Text)
  <2> HIDE DEF s, N
  <2> QED
    BY <1>1, <1>3, RecursiveFunction
<1>5. \A i \in 1 .. N : i - 1 \in 0 .. N /\ f[i - 1] \in Text /\ f[i] = Next(i, f[i - 1])
  <2> TAKE i \in 1 .. N
  <2> HIDE DEF Next
  <2>1. i - 1 \in 0 .. N
    BY <1>1
  <2>2. f[i - 1] \in Text /\ f[i] = s[<<i, f[i - 1]>>]
    BY <1>4, <2>1 DEF IsRun
  <2> QED
    BY <2>1, <2>2
<1>6. Eq(f)
  <2> HIDE DEF Next
  <2>1. \A i \in 0 .. N : f[i] = IF i = 0 THEN << >> ELSE Next(i, f[i - 1])
    BY <1>1, <1>4, <1>5 DEF IsRun
  <2>2. f = [i \in 0 .. N |-> f[i]]
    BY <1>1, <1>4 DEF IsRun
  <2> QED
    BY <2>1, <2>2
<1>7. Eq(upTo)
  <2> HIDE DEF Eq
  <2> QED
    BY <1>6
<1>8. /\ upTo = [i \in 0 .. N |-> upTo[i]] /\ upTo[0] = << >>
      /\ \A i \in 1 .. N : upTo[i] = Next(i, upTo[i - 1])
  <2> HIDE DEF Next, upTo
  <2>1. DOMAIN upTo = 0 .. N
    BY <1>7
  <2>2. \A i \in 0 .. N : upTo[i] = IF i = 0 THEN << >> ELSE Next(i, upTo[i - 1])
    BY <1>7
  <2> QED
    BY <1>1, <1>7, <2>1, <2>2
<1>9. \A i \in 1 .. N : upTo[i - 1] \in Text => upTo[i] = s[<<i, upTo[i - 1]>>]
  <2> HIDE DEF Next, upTo
  <2> QED
    BY <1>8
<1>10. IsRun(upTo, << >>, s, N, Text)
  <2> HIDE DEF s, N, upTo
  <2> QED
    BY <1>1, <1>3, <1>4, <1>8, <1>9, SameRun
<1>11. NormalScan(text, upTo)
  <2> HIDE DEF upTo
  <2>1. \A i \in 0 .. N : upTo[i] \in Text
    BY <1>10 DEF IsRun
  <2>2. \A i \in 1 .. N : i - 1 \in 0 .. N
    BY <1>1
  <2> QED
    BY <1>1, <1>8, <2>1, <2>2 DEF NormalScan
<1>12. NormalizeMessage(text) = Lower(upTo[N])
  BY DEF NormalizeMessage, NormalStep, Kept, Plain
<1> QED
  BY <1>11, <1>12

LEMMA NormalType ==
  ASSUME NEW text \in Text
  PROVE  NormalizeMessage(text) \in Text
<1>1. PICK upTo : NormalScan(text, upTo) /\ NormalizeMessage(text) = Lower(upTo[Len(text)])
  BY NormalScanExists
<1> QED
  BY <1>1, LowerText DEF NormalScan

LEMMA NormalEmpty == NormalizeMessage(<< >>) = << >>
<1>1. << >> \in Text /\ Len(<< >>) = 0
  BY EmptySeq DEF Text
<1>2. PICK upTo : NormalScan(<< >>, upTo) /\ NormalizeMessage(<< >>) = Lower(upTo[Len(<< >>)])
  BY <1>1, NormalScanExists
<1>3. NormalizeMessage(<< >>) = Lower(<< >>)
  BY <1>1, <1>2 DEF NormalScan
<1>4. Lower(<< >>) \in Text /\ Len(Lower(<< >>)) = 0
  BY <1>1, LowerText
<1> QED
  BY <1>3, <1>4, Lengths DEF Text

\* What one more token adds to the normal form.
LEMMA NormalAppend ==
  ASSUME NEW text \in Text, NEW e \in Tokens
  PROVE  NormalizeMessage(Append(text, e)) =
           IF e \in Plain THEN Append(NormalizeMessage(text), Low(e))
           ELSE IF EndsIn(text, Tokens \ Plain) THEN NormalizeMessage(text)
           ELSE Append(NormalizeMessage(text), " ")
<1> DEFINE N == Len(text)
           longer == Append(text, e)
<1>1. /\ longer \in Text /\ Len(longer) = N + 1 /\ longer[N + 1] = e
      /\ \A i \in 1 .. N : longer[i] = text[i]
  BY AppendProperties DEF Text
<1>2. N \in Nat /\ (text = << >> <=> N = 0) /\ \A i \in 1 .. N : text[i] \in Tokens
  BY Lengths, ElementOfSeq DEF Text
<1> HIDE DEF longer
<1>3. PICK f : NormalScan(text, f) /\ NormalizeMessage(text) = Lower(f[N])
  BY NormalScanExists
<1>4. PICK g : NormalScan(longer, g) /\ NormalizeMessage(longer) = Lower(g[N + 1])
  BY <1>1, NormalScanExists
<1> HIDE DEF N
<1>5. \A n \in 1 .. N : f[n - 1] = g[n - 1] => f[n] = g[n]
  <2> TAKE n \in 1 .. N
  <2>1. n \in 1 .. N + 1 /\ (n > 1 => n - 1 \in 1 .. N)
    BY <1>2
  <2>2. f[n] = NormalStep(text, n, f[n - 1])
    BY <1>3 DEF NormalScan, N
  <2>3. g[n] = NormalStep(longer, n, g[n - 1])
    BY <1>1, <1>4, <2>1 DEF NormalScan
  <2>4. longer[n] = text[n] /\ (n > 1 => longer[n - 1] = text[n - 1])
    BY <1>1, <2>1
  <2> QED
    BY <2>2, <2>3, <2>4 DEF NormalStep, Kept
<1>6. f[0] = g[0]
  BY <1>3, <1>4 DEF NormalScan
<1>7. \A n \in 0 .. N : f[n] = g[n]
  BY <1>2, <1>5, <1>6, SameSteps
<1>8. f[N] = g[N] /\ f[N] \in Text
  BY <1>2, <1>3, <1>7 DEF NormalScan, N
<1>9. g[N + 1] = NormalStep(longer, N + 1, f[N])
  <2>1. N + 1 \in 1 .. N + 1 /\ (N + 1) - 1 = N
    BY <1>2
  <2>2. g[N + 1] = NormalStep(longer, N + 1, g[(N + 1) - 1])
    BY <1>1, <1>4, <2>1 DEF NormalScan
  <2> QED
    BY <1>8, <2>1, <2>2
<1>10. CASE e \in Plain
  <2>1. g[N + 1] = Append(f[N], e)
    BY <1>1, <1>9, <1>10 DEF NormalStep, Kept
  <2> QED
    BY <1>3, <1>4, <1>8, <1>10, <2>1, LowerAppend DEF longer
<1>11. CASE e \notin Plain
  <2>1. EndsIn(text, Tokens \ Plain) <=> N + 1 > 1 /\ ~Kept(longer, (N + 1) - 1)
    <3>1. N # 0 => N \in 1 .. N
      BY <1>2
    <3>2. N # 0 => longer[N] = text[N] /\ text[N] \in Tokens
      BY <1>1, <1>2, <3>1
    <3>3. (N + 1 > 1 <=> N # 0) /\ (N + 1) - 1 = N
      BY <1>2
    <3> QED
      BY <1>2, <3>2, <3>3 DEF EndsIn, Kept, N
  <2>2. ~Kept(longer, N + 1)
    BY <1>1, <1>11 DEF Kept
  <2>3. CASE EndsIn(text, Tokens \ Plain)
    BY <1>3, <1>4, <1>9, <1>11, <2>1, <2>2, <2>3 DEF NormalStep, longer
  <2>4. CASE ~EndsIn(text, Tokens \ Plain)
    <3>1. g[N + 1] = Append(f[N], " ")
      BY <1>9, <2>1, <2>2, <2>4 DEF NormalStep
    <3>2. Lower(Append(f[N], " ")) = Append(Lower(f[N]), Low(" "))
      BY <1>8, SpaceIsToken, LowerAppend
    <3>3. Low(" ") = " "
      BY DEF Low
    <3> QED
      BY <1>3, <1>4, <1>11, <2>4, <3>1, <3>2, <3>3 DEF longer
  <2> QED
    BY <2>3, <2>4
<1> QED
  BY <1>10, <1>11

-----------------------------------------------------------------------------
(* The words of a text.                                                    *)

Words == Seq(Text)

\* A letter more in the last word.
Longer(words, e) == [words EXCEPT ![Len(words)] = Append(@, e)]

LEMMA LongerWords ==
  ASSUME NEW words \in Words, NEW e \in Tokens
  PROVE  /\ Longer(words, e) \in Words
         /\ Len(Longer(words, e)) = Len(words)
         /\ \A k \in 1 .. Len(words) :
              Longer(words, e)[k] = IF k = Len(words) THEN Append(words[k], e) ELSE words[k]
<1>1. Len(words) \in Nat /\ DOMAIN words = 1 .. Len(words)
  BY Lengths DEF Words
<1>2. Longer(words, e) =
        [k \in 1 .. Len(words) |-> IF k = Len(words) THEN Append(words[k], e) ELSE words[k]]
  BY <1>1 DEF Longer
<1>3. \A k \in 1 .. Len(words) : words[k] \in Text /\ Append(words[k], e) \in Text
  <2> TAKE k \in 1 .. Len(words)
  <2>1. words[k] \in Text
    BY ElementOfSeq DEF Words
  <2> QED
    BY <2>1, AppendProperties DEF Text
<1>4. Longer(words, e) \in [1 .. Len(words) -> Text]
  BY <1>2, <1>3
<1>5. Longer(words, e) \in Words
  BY <1>1, <1>4, SeqDef DEF Words
<1>6. Len(Longer(words, e)) = Len(words)
  BY <1>1, <1>4, <1>5, Lengths DEF Words
<1> QED
  BY <1>2, <1>5, <1>6

Letter(text, i) == i > 0 /\ text[i] \in Letters

WordsStep(text, i, words) ==
  IF ~Letter(text, i) THEN words
  ELSE IF Letter(text, i - 1) THEN Longer(words, text[i])
  ELSE Append(words, <<text[i]>>)

WordsScan(text, upTo) ==
  /\ upTo = [i \in 0 .. Len(text) |-> upTo[i]]
  /\ upTo[0] = << >>
  /\ \A i \in 1 .. Len(text) : upTo[i - 1] \in Words /\ upTo[i] = WordsStep(text, i, upTo[i - 1])
  /\ upTo[Len(text)] \in Words

LEMMA WordsScanExists ==
  ASSUME NEW text \in Text
  PROVE  \E upTo : WordsScan(text, upTo) /\ WordsOf(text) = upTo[Len(text)]
<1> DEFINE N == Len(text)
           Next(i, c) == WordsStep(text, i, c)
           s == [p \in (1 .. N) \X Words |-> Next(p[1], p[2])]
           Eq(f) == f = [i \in 0 .. N |-> IF i = 0 THEN << >> ELSE Next(i, f[i - 1])]
           upTo == CHOOSE f : Eq(f)
<1>1. N \in Nat /\ << >> \in Words /\ DOMAIN text = 1 .. N
  BY Lengths, EmptySeq DEF Text, Words
<1>2. \A i \in 1 .. N, c \in Words : Next(i, c) \in Words
  <2> TAKE i \in 1 .. N, c \in Words
  <2>1. text[i] \in Tokens
    BY ElementOfSeq DEF Text
  <2>2. <<text[i]>> \in Text
    BY <2>1 DEF Text
  <2>3. Append(c, <<text[i]>>) \in Words
    BY <2>2, AppendProperties DEF Words
  <2>4. Longer(c, text[i]) \in Words
    BY <2>1, LongerWords
  <2> QED
    BY <2>3, <2>4 DEF WordsStep
<1>3. IsStep(s, N, Words)
  <2> HIDE DEF Next
  <2> QED
    BY <1>2 DEF IsStep
<1>4. PICK f : IsRun(f, << >>, s, N, Words)
  <2> HIDE DEF s, N
  <2> QED
    BY <1>1, <1>3, RecursiveFunction
<1>5. \A i \in 1 .. N : i - 1 \in 0 .. N /\ f[i - 1] \in Words /\ f[i] = Next(i, f[i - 1])
  <2> TAKE i \in 1 .. N
  <2> HIDE DEF Next
  <2>1. i - 1 \in 0 .. N
    BY <1>1
  <2>2. f[i - 1] \in Words /\ f[i] = s[<<i, f[i - 1]>>]
    BY <1>4, <2>1 DEF IsRun
  <2> QED
    BY <2>1, <2>2
<1>6. Eq(f)
  <2> HIDE DEF Next
  <2>1. \A i \in 0 .. N : f[i] = IF i = 0 THEN << >> ELSE Next(i, f[i - 1])
    BY <1>1, <1>4, <1>5 DEF IsRun
  <2>2. f = [i \in 0 .. N |-> f[i]]
    BY <1>1, <1>4 DEF IsRun
  <2> QED
    BY <2>1, <2>2
<1>7. Eq(upTo)
  <2> HIDE DEF Eq
  <2> QED
    BY <1>6
<1>8. /\ upTo = [i \in 0 .. N |-> upTo[i]] /\ upTo[0] = << >>
      /\ \A i \in 1 .. N : upTo[i] = Next(i, upTo[i - 1])
  <2> HIDE DEF Next, upTo
  <2>1. DOMAIN upTo = 0 .. N
    BY <1>7
  <2>2. \A i \in 0 .. N : upTo[i] = IF i = 0 THEN << >> ELSE Next(i, upTo[i - 1])
    BY <1>7
  <2> QED
    BY <1>1, <1>7, <2>1, <2>2
<1>9. \A i \in 1 .. N : upTo[i - 1] \in Words => upTo[i] = s[<<i, upTo[i - 1]>>]
  <2> HIDE DEF Next, upTo
  <2> QED
    BY <1>8
<1>10. IsRun(upTo, << >>, s, N, Words)
  <2> HIDE DEF s, N, upTo
  <2> QED
    BY <1>1, <1>3, <1>4, <1>8, <1>9, SameRun
<1>11. WordsScan(text, upTo)
  <2> HIDE DEF upTo
  <2>1. \A i \in 0 .. N : upTo[i] \in Words
    BY <1>10 DEF IsRun
  <2>2. \A i \in 1 .. N : i - 1 \in 0 .. N
    BY <1>1
  <2> QED
    BY <1>1, <1>8, <2>1, <2>2 DEF WordsScan
<1>12. WordsOf(text) = upTo[N]
  BY DEF WordsOf, WordsStep, Letter, Longer
<1> QED
  BY <1>11, <1>12

LEMMA WordsType ==
  ASSUME NEW text \in Text
  PROVE  WordsOf(text) \in Words
<1>1. PICK upTo : WordsScan(text, upTo) /\ WordsOf(text) = upTo[Len(text)]
  BY WordsScanExists
<1> QED
  BY <1>1 DEF WordsScan

LEMMA WordsEmpty == WordsOf(<< >>) = << >>
<1>1. << >> \in Text /\ Len(<< >>) = 0
  BY EmptySeq DEF Text
<1>2. PICK upTo : WordsScan(<< >>, upTo) /\ WordsOf(<< >>) = upTo[Len(<< >>)]
  BY <1>1, WordsScanExists
<1> QED
  BY <1>1, <1>2 DEF WordsScan

\* What one more token adds to the words.
LEMMA WordsAppend ==
  ASSUME NEW text \in Text, NEW e \in Tokens
  PROVE  WordsOf(Append(text, e)) =
           IF e \notin Letters THEN WordsOf(text)
           ELSE IF EndsIn(text, Letters) THEN Longer(WordsOf(text), e)
           ELSE Append(WordsOf(text), <<e>>)
<1> DEFINE N == Len(text)
           longer == Append(text, e)
<1>1. /\ longer \in Text /\ Len(longer) = N + 1 /\ longer[N + 1] = e
      /\ \A i \in 1 .. N : longer[i] = text[i]
  BY AppendProperties DEF Text
<1>2. N \in Nat /\ (text = << >> <=> N = 0)
  BY Lengths DEF Text
<1> HIDE DEF longer
<1>3. PICK f : WordsScan(text, f) /\ WordsOf(text) = f[N]
  BY WordsScanExists
<1>4. PICK g : WordsScan(longer, g) /\ WordsOf(longer) = g[N + 1]
  BY <1>1, WordsScanExists
<1> HIDE DEF N
<1>5. \A n \in 1 .. N : f[n - 1] = g[n - 1] => f[n] = g[n]
  <2> TAKE n \in 1 .. N
  <2>1. n \in 1 .. N + 1 /\ (n - 1 > 0 => n - 1 \in 1 .. N)
    BY <1>2
  <2>2. f[n] = WordsStep(text, n, f[n - 1])
    BY <1>3 DEF WordsScan, N
  <2>3. g[n] = WordsStep(longer, n, g[n - 1])
    BY <1>1, <1>4, <2>1 DEF WordsScan
  <2>4. longer[n] = text[n] /\ (n - 1 > 0 => longer[n - 1] = text[n - 1])
    BY <1>1, <2>1
  <2> QED
    BY <2>2, <2>3, <2>4 DEF WordsStep, Letter
<1>6. f[0] = g[0]
  BY <1>3, <1>4 DEF WordsScan
<1>7. \A n \in 0 .. N : f[n] = g[n]
  BY <1>2, <1>5, <1>6, SameSteps
<1>8. f[N] = g[N]
  BY <1>2, <1>7
<1>9. g[N + 1] = WordsStep(longer, N + 1, f[N])
  <2>1. N + 1 \in 1 .. N + 1 /\ (N + 1) - 1 = N
    BY <1>2
  <2>2. g[N + 1] = WordsStep(longer, N + 1, g[(N + 1) - 1])
    BY <1>1, <1>4, <2>1 DEF WordsScan
  <2> QED
    BY <1>8, <2>1, <2>2
<1>10. Letter(longer, N + 1) <=> e \in Letters
  BY <1>1, <1>2 DEF Letter
<1>11. Letter(longer, (N + 1) - 1) <=> EndsIn(text, Letters)
  <2>1. N # 0 => N \in 1 .. N
    BY <1>2
  <2>2. N # 0 => longer[N] = text[N]
    BY <1>1, <2>1
  <2>3. (N > 0 <=> N # 0) /\ (N + 1) - 1 = N
    BY <1>2
  <2> QED
    BY <1>2, <2>2, <2>3 DEF EndsIn, Letter, N
<1> QED
  BY <1>1, <1>3, <1>4, <1>9, <1>10, <1>11 DEF WordsStep, longer

-----------------------------------------------------------------------------
(* Texts put together.                                                     *)

LEMMA AppendToConcat ==
  ASSUME NEW S, NEW a \in Seq(S), NEW b \in Seq(S), NEW e \in S
  PROVE  a \o b \in Seq(S) /\ a \o Append(b, e) = Append(a \o b, e)
<1>1. a \o b \in Seq(S)
  BY ConcatProperties
<1>2. <<e>> \in Seq(S)
  OBVIOUS
<1>3. Append(b, e) = b \o <<e>> /\ Append(a \o b, e) = (a \o b) \o <<e>>
  BY <1>1, AppendIsConcat
<1>4. (a \o b) \o <<e>> = a \o (b \o <<e>>)
  BY <1>2, ConcatAssociative
<1> QED
  BY <1>1, <1>3, <1>4

LEMMA EndOfAppend ==
  ASSUME NEW text \in Text, NEW e \in Tokens, NEW S
  PROVE  EndsIn(Append(text, e), S) <=> e \in S
BY LastOfAppend DEF EndsIn, Text

\* What part of the texts there is between a and c is found.
LEMMA InStrConcat ==
  ASSUME NEW S, NEW a \in Seq(S), NEW b \in Seq(S), NEW c \in Seq(S)
  PROVE  InStr(a \o (b \o c), b)
<1> DEFINE text == a \o (b \o c)
           i == Len(a) + 1
<1>1. Len(a) \in Nat /\ Len(b) \in Nat /\ Len(c) \in Nat
  BY Lengths
<1>2. /\ b \o c \in Seq(S) /\ Len(b \o c) = Len(b) + Len(c)
      /\ \A j \in 1 .. Len(b) + Len(c) : (b \o c)[j] = IF j <= Len(b) THEN b[j] ELSE c[j - Len(b)]
  BY ConcatProperties
<1>3. /\ text \in Seq(S) /\ Len(text) = Len(a) + Len(b \o c)
      /\ \A j \in 1 .. Len(a) + Len(b \o c) :
           text[j] = IF j <= Len(a) THEN a[j] ELSE (b \o c)[j - Len(a)]
  BY <1>2, ConcatProperties
<1> HIDE DEF text
<1>4. \A j \in 1 .. Len(b) : text[i + j - 1] = b[j]
  <2> TAKE j \in 1 .. Len(b)
  <2>1. /\ i + j - 1 \in 1 .. Len(a) + Len(b \o c) /\ ~(i + j - 1 <= Len(a))
        /\ (i + j - 1) - Len(a) = j /\ j \in 1 .. Len(b) + Len(c) /\ j <= Len(b)
    BY <1>1, <1>2
  <2> QED
    BY <1>2, <1>3, <2>1
<1>5. \A k \in i .. i + Len(b) - 1 : text[k] \in S
  <2> TAKE k \in i .. i + Len(b) - 1
  <2>1. k \in 1 .. Len(text)
    BY <1>1, <1>2, <1>3
  <2> QED
    BY <1>3, <2>1, ElementOfSeq
<1> DEFINE part == SubSeq(text, i, i + Len(b) - 1)
<1>6. /\ part \in Seq(S)
      /\ Len(part) = IF i <= i + Len(b) - 1 THEN (i + Len(b) - 1) - i + 1 ELSE 0
      /\ \A j \in 1 .. (i + Len(b) - 1) - i + 1 : part[j] = text[i + j - 1]
  <2>1. i \in Int /\ i + Len(b) - 1 \in Int
    BY <1>1
  <2> HIDE DEF i
  <2> QED
    BY <1>5, <2>1, SubSeqProperties
<1>7. Len(part) = Len(b) /\ \A j \in 1 .. Len(b) : part[j] = text[i + j - 1]
  <2> HIDE DEF part
  <2> QED
    BY <1>1, <1>6
<1>8. part = b
  <2> HIDE DEF part
  <2> QED
    BY <1>4, <1>6, <1>7, SeqEqual
<1>9. i \in 1 .. Len(text) - Len(b) + 1
  BY <1>1, <1>2, <1>3
<1> QED
  BY <1>8, <1>9 DEF InStr, text

\* A text around the place of one of its parts.
LEMMA SplitAt ==
  ASSUME NEW S, NEW text \in Seq(S), NEW n \in Nat, NEW i \in 1 .. Len(text) - n + 1
  PROVE  LET a == SubSeq(text, 1, i - 1)
             b == SubSeq(text, i, i + n - 1)
             c == SubSeq(text, i + n, Len(text))
         IN a \in Seq(S) /\ b \in Seq(S) /\ c \in Seq(S) /\ text = a \o (b \o c)
<1> DEFINE N == Len(text)
           a == SubSeq(text, 1, i - 1)
           b == SubSeq(text, i, i + n - 1)
           c == SubSeq(text, i + n, N)
<1>1. N \in Nat
  BY Lengths
<1>2. \A j \in 1 .. N : text[j] \in S
  BY ElementOfSeq
<1>3. \A l, h \in Int : l >= 1 /\ h <= N => SubSeq(text, l, h) \in Seq(S)
  <2> TAKE l, h \in Int
  <2> HAVE l >= 1 /\ h <= N
  <2>1. \A j \in l .. h : text[j] \in S
    BY <1>1, <1>2
  <2> QED
    BY <2>1, SubSeqProperties
<1>4. a \in Seq(S) /\ b \in Seq(S) /\ c \in Seq(S)
  <2> HIDE DEF N
  <2>1. i - 1 \in Int /\ i - 1 <= N /\ i \in Int /\ i >= 1 /\ i + n - 1 \in Int /\ i + n - 1 <= N
        /\ i + n \in Int /\ i + n >= 1 /\ N \in Int
    BY <1>1 DEF N
  <2> QED
    BY <1>3, <2>1
<1>5. b \o c = SubSeq(text, i, N)
  <2>1. i \in 1 .. N + 1 /\ i + n - 1 \in i - 1 .. N /\ N \in i + n - 1 .. N /\ (i + n - 1) + 1 = i + n
    BY <1>1
  <2>2. SubSeq(text, i, i + n - 1) \o SubSeq(text, (i + n - 1) + 1, N) = SubSeq(text, i, N)
    BY <2>1, ConcatAdjacentSubSeq
  <2> QED
    BY <2>1, <2>2
<1>6. a \o SubSeq(text, i, N) = SubSeq(text, 1, N)
  <2>1. 1 \in 1 .. N + 1 /\ i - 1 \in 1 - 1 .. N /\ N \in i - 1 .. N /\ (i - 1) + 1 = i
    BY <1>1
  <2>2. SubSeq(text, 1, i - 1) \o SubSeq(text, (i - 1) + 1, N) = SubSeq(text, 1, N)
    BY <2>1, ConcatAdjacentSubSeq
  <2> QED
    BY <2>1, <2>2
<1>7. SubSeq(text, 1, N) = text
  BY SubSeqFull
<1> QED
  BY <1>4, <1>5, <1>6, <1>7

LEMMA InStrSplit ==
  \A text, part \in Text :
    InStr(text, part) => \E a, c \in Text : text = a \o (part \o c)
<1> SUFFICES ASSUME NEW text \in Text, NEW part \in Text, InStr(text, part)
             PROVE  \E a, c \in Text : text = a \o (part \o c)
  OBVIOUS
<1>1. Len(part) \in Nat
  BY Lengths DEF Text
<1>2. PICK i \in 1 .. Len(text) - Len(part) + 1 : SubSeq(text, i, i + Len(part) - 1) = part
  BY DEF InStr
<1>3. LET a == SubSeq(text, 1, i - 1)
          b == SubSeq(text, i, i + Len(part) - 1)
          c == SubSeq(text, i + Len(part), Len(text))
      IN a \in Seq(Tokens) /\ b \in Seq(Tokens) /\ c \in Seq(Tokens) /\ text = a \o (b \o c)
  BY <1>1, SplitAt DEF Text
<1> QED
  BY <1>2, <1>3 DEF Text

-----------------------------------------------------------------------------
(* Words of texts put together.                                            *)

LEMMA WordsNotEmpty ==
  ASSUME NEW text \in Text, EndsIn(text, Letters)
  PROVE  WordsOf(text) # << >>
<1> DEFINE T == {s \in Text : EndsIn(s, Letters) => WordsOf(s) # << >>}
<1>1. << >> \in T
  BY EmptySeq DEF EndsIn, Text
<1>2. ASSUME NEW s \in Text, NEW e \in Tokens, s \in T
      PROVE  Append(s, e) \in T
  <2>1. Append(s, e) \in Text /\ WordsOf(s) \in Words /\ <<e>> \in Text
    BY AppendProperties, WordsType DEF Text
  <2>2. CASE e \notin Letters
    BY <2>1, <2>2, EndOfAppend
  <2>3. CASE e \in Letters /\ EndsIn(s, Letters)
    <3>1. WordsOf(Append(s, e)) = Longer(WordsOf(s), e) /\ WordsOf(s) # << >>
      BY <1>2, <2>3, WordsAppend
    <3>2. Longer(WordsOf(s), e) \in Words /\ Len(Longer(WordsOf(s), e)) = Len(WordsOf(s))
      BY <2>1, LongerWords
    <3>3. Len(WordsOf(s)) # 0
      BY <2>1, <3>1, Lengths DEF Words
    <3>4. Longer(WordsOf(s), e) # << >>
      BY <3>2, <3>3, Lengths DEF Words
    <3> QED
      BY <2>1, <3>1, <3>4
  <2>4. CASE e \in Letters /\ ~EndsIn(s, Letters)
    <3>1. WordsOf(Append(s, e)) = Append(WordsOf(s), <<e>>)
      BY <2>4, WordsAppend
    <3>2. Append(WordsOf(s), <<e>>) # << >>
      BY <2>1, AppendProperties DEF Words
    <3> QED
      BY <2>1, <3>1, <3>2
  <2> QED
    BY <2>2, <2>3, <2>4
<1>3. Text \subseteq T
  <2> HIDE DEF T
  <2> QED
    BY <1>1, <1>2, SequenceInduction DEF Text
<1> QED
  BY <1>3

LEMMA LongerConcat ==
  ASSUME NEW u \in Words, NEW v \in Words, v # << >>, NEW e \in Tokens
  PROVE  Longer(u \o v, e) = u \o Longer(v, e)
<1>1. Len(u) \in Nat /\ Len(v) \in Nat /\ Len(v) # 0
  BY Lengths DEF Words
<1>2. /\ u \o v \in Words /\ Len(u \o v) = Len(u) + Len(v)
      /\ \A k \in 1 .. Len(u) + Len(v) : (u \o v)[k] = IF k <= Len(u) THEN u[k] ELSE v[k - Len(u)]
  BY ConcatProperties DEF Words
<1>3. /\ Longer(v, e) \in Words /\ Len(Longer(v, e)) = Len(v)
      /\ \A k \in 1 .. Len(v) :
           Longer(v, e)[k] = IF k = Len(v) THEN Append(v[k], e) ELSE v[k]
  BY LongerWords
<1>4. /\ u \o Longer(v, e) \in Words /\ Len(u \o Longer(v, e)) = Len(u) + Len(v)
      /\ \A k \in 1 .. Len(u) + Len(v) :
           (u \o Longer(v, e))[k] = IF k <= Len(u) THEN u[k] ELSE Longer(v, e)[k - Len(u)]
  BY <1>3, ConcatProperties DEF Words
<1>5. /\ Longer(u \o v, e) \in Words /\ Len(Longer(u \o v, e)) = Len(u) + Len(v)
      /\ \A k \in 1 .. Len(u) + Len(v) :
           Longer(u \o v, e)[k] =
             IF k = Len(u) + Len(v) THEN Append((u \o v)[k], e) ELSE (u \o v)[k]
  <2>1. /\ Longer(u \o v, e) \in Words /\ Len(Longer(u \o v, e)) = Len(u \o v)
        /\ \A k \in 1 .. Len(u \o v) :
             Longer(u \o v, e)[k] =
               IF k = Len(u \o v) THEN Append((u \o v)[k], e) ELSE (u \o v)[k]
    BY <1>2, LongerWords
  <2> QED
    BY <1>2, <2>1
<1>6. \A k \in 1 .. Len(u) + Len(v) : Longer(u \o v, e)[k] = (u \o Longer(v, e))[k]
  <2> TAKE k \in 1 .. Len(u) + Len(v)
  <2>1. CASE k <= Len(u)
    <3>1. k # Len(u) + Len(v)
      BY <1>1, <2>1
    <3> QED
      BY <1>2, <1>4, <1>5, <2>1, <3>1
  <2>2. CASE ~(k <= Len(u))
    <3>1. k - Len(u) \in 1 .. Len(v) /\ (k = Len(u) + Len(v) <=> k - Len(u) = Len(v))
      BY <1>1, <2>2
    <3> QED
      BY <1>2, <1>3, <1>4, <1>5, <2>2, <3>1
  <2> QED
    BY <2>1, <2>2
<1> QED
  BY <1>4, <1>5, <1>6, SeqEqual DEF Words

\* A token that is no letter separates words.
LEMMA WordsApart ==
  ASSUME NEW a \in Text, NEW b \in Text, NEW x \in Tokens \ Letters
  PROVE  WordsOf(Append(a, x) \o b) = WordsOf(a) \o WordsOf(b)
<1> DEFINE A == Append(a, x)
           T == {s \in Text : /\ WordsOf(A \o s) = WordsOf(a) \o WordsOf(s)
                              /\ EndsIn(A \o s, Letters) <=> EndsIn(s, Letters)}
<1>1. A \in Text /\ WordsOf(A) = WordsOf(a) /\ ~EndsIn(A, Letters) /\ WordsOf(a) \in Words
  BY AppendProperties, WordsAppend, EndOfAppend, WordsType DEF Text
<1> HIDE DEF A
<1>2. << >> \in T
  <2>1. << >> \in Text /\ A \o << >> = A /\ WordsOf(a) \o << >> = WordsOf(a)
    BY <1>1, EmptySeq, ConcatEmptySeq DEF Text, Words
  <2> QED
    BY <1>1, <2>1, WordsEmpty DEF EndsIn
<1>3. ASSUME NEW s \in Text, NEW e \in Tokens, s \in T
      PROVE  Append(s, e) \in T
  <2>1. /\ Append(s, e) \in Text /\ WordsOf(s) \in Words /\ <<e>> \in Text
        /\ A \o s \in Text /\ A \o Append(s, e) = Append(A \o s, e)
    BY <1>1, AppendProperties, AppendToConcat, WordsType DEF Text
  <2>2. EndsIn(Append(A \o s, e), Letters) <=> EndsIn(Append(s, e), Letters)
    BY <2>1, EndOfAppend
  <2>3. WordsOf(A \o s) = WordsOf(a) \o WordsOf(s) /\ (EndsIn(A \o s, Letters) <=> EndsIn(s, Letters))
    BY <1>3
  <2>4. WordsOf(Append(A \o s, e)) = WordsOf(a) \o WordsOf(Append(s, e))
    <3>1. CASE e \notin Letters
      BY <2>1, <2>3, <3>1, WordsAppend
    <3>2. CASE e \in Letters /\ EndsIn(s, Letters)
      <4>1. WordsOf(Append(A \o s, e)) = Longer(WordsOf(A \o s), e)
        BY <2>1, <2>3, <3>2, WordsAppend
      <4>2. WordsOf(Append(s, e)) = Longer(WordsOf(s), e) /\ WordsOf(s) # << >>
        BY <3>2, WordsAppend, WordsNotEmpty
      <4> QED
        BY <1>1, <2>1, <2>3, <4>1, <4>2, LongerConcat
    <3>3. CASE e \in Letters /\ ~EndsIn(s, Letters)
      <4>1. WordsOf(Append(A \o s, e)) = Append(WordsOf(A \o s), <<e>>)
        BY <2>1, <2>3, <3>3, WordsAppend
      <4>2. WordsOf(Append(s, e)) = Append(WordsOf(s), <<e>>)
        BY <3>3, WordsAppend
      <4>3. WordsOf(a) \o Append(WordsOf(s), <<e>>) = Append(WordsOf(a) \o WordsOf(s), <<e>>)
        BY <1>1, <2>1, AppendToConcat DEF Words
      <4> QED
        BY <2>3, <4>1, <4>2, <4>3
    <3> QED
      BY <3>1, <3>2, <3>3
  <2> QED
    BY <2>1, <2>2, <2>4
<1>4. Text \subseteq T
  <2> HIDE DEF T
  <2> QED
    BY <1>2, <1>3, SequenceInduction DEF Text
<1> QED
  BY <1>4 DEF A

\* The normal form of a message has the words of the message.
LEMMA WordsOfNormal ==
  ASSUME NEW text \in Text
  PROVE  WordsOf(NormalizeMessage(text)) = WordsOf(Lower(text))
<1> DEFINE T == {s \in Text : /\ WordsOf(NormalizeMessage(s)) = WordsOf(Lower(s))
                              /\ EndsIn(NormalizeMessage(s), Letters) <=> EndsIn(s, Letters)
                              /\ EndsIn(Lower(s), Letters) <=> EndsIn(s, Letters)}
<1>1. << >> \in T
  <2>1. << >> \in Text /\ Len(<< >>) = 0
    BY EmptySeq DEF Text
  <2>2. Lower(<< >>) \in Text /\ Len(Lower(<< >>)) = 0
    BY <2>1, LowerText
  <2>3. Lower(<< >>) = << >>
    BY <2>2, Lengths DEF Text
  <2> QED
    BY <2>1, <2>3, NormalEmpty
<1>2. ASSUME NEW s \in Text, NEW e \in Tokens, s \in T
      PROVE  Append(s, e) \in T
  <2> DEFINE n == NormalizeMessage(s)
             l == Lower(s)
  <2>1. /\ Append(s, e) \in Text /\ n \in Text /\ l \in Text /\ Low(e) \in Tokens
        /\ Lower(Append(s, e)) = Append(l, Low(e)) /\ " " \in Tokens
    BY AppendProperties, NormalType, LowerText, LowerAppend, LowType, SpaceIsToken DEF Text
  <2>2. /\ EndsIn(Append(s, e), Letters) <=> e \in Letters
        /\ EndsIn(Append(l, Low(e)), Letters) <=> e \in Letters
        /\ EndsIn(Append(n, Low(e)), Letters) <=> e \in Letters
        /\ ~EndsIn(Append(n, " "), Letters)
        /\ " " \notin Letters
    <3>1. " " \notin Letters
      BY DEF Letters
    <3> QED
      BY <2>1, <3>1, EndOfAppend, LowKinds
  <2>3. /\ WordsOf(n) = WordsOf(l) /\ (EndsIn(n, Letters) <=> EndsIn(s, Letters))
        /\ EndsIn(l, Letters) <=> EndsIn(s, Letters)
    BY <1>2
  <2>4. NormalizeMessage(Append(s, e)) =
           IF e \in Plain THEN Append(n, Low(e))
           ELSE IF EndsIn(s, Tokens \ Plain) THEN n
           ELSE Append(n, " ")
    BY NormalAppend
  <2>5. WordsOf(Append(l, Low(e))) =
           IF Low(e) \notin Letters THEN WordsOf(l)
           ELSE IF EndsIn(l, Letters) THEN Longer(WordsOf(l), Low(e))
           ELSE Append(WordsOf(l), <<Low(e)>>)
    BY <2>1, WordsAppend
  <2>6. WordsOf(Append(n, Low(e))) =
           IF Low(e) \notin Letters THEN WordsOf(n)
           ELSE IF EndsIn(n, Letters) THEN Longer(WordsOf(n), Low(e))
           ELSE Append(WordsOf(n), <<Low(e)>>)
    BY <2>1, WordsAppend
  <2>7. WordsOf(Append(n, " ")) = WordsOf(n)
    BY <2>1, <2>2, WordsAppend
  <2>8. e \in Letters => e \in Plain
    BY SpaceIsToken
  <2>9. EndsIn(s, Tokens \ Plain) => ~EndsIn(s, Letters)
    BY SpaceIsToken DEF EndsIn
  <2>10. Low(e) \in Letters <=> e \in Letters
    BY LowKinds
  <2> HIDE DEF n, l
  <2>11. CASE e \in Plain
    BY <2>1, <2>2, <2>3, <2>4, <2>5, <2>6, <2>11
  <2>12. CASE e \notin Plain /\ EndsIn(s, Tokens \ Plain)
    BY <2>1, <2>2, <2>3, <2>4, <2>5, <2>8, <2>9, <2>10, <2>12
  <2>13. CASE e \notin Plain /\ ~EndsIn(s, Tokens \ Plain)
    BY <2>1, <2>2, <2>3, <2>4, <2>5, <2>7, <2>8, <2>10, <2>13
  <2> QED
    BY <2>11, <2>12, <2>13
<1>3. Text \subseteq T
  <2> HIDE DEF T
  <2> QED
    BY <1>1, <1>2, SequenceInduction DEF Text
<1> QED
  BY <1>3

-----------------------------------------------------------------------------
(* The condition of the query.                                             *)

LEMMA ConcatText == \A a, b \in Text : a \o b \in Text
BY ConcatProperties DEF Text

LEMMA Regroup == \A a, b, c \in Text : (a \o b) \o c = a \o (b \o c)
BY ConcatAssociative DEF Text

LEMMA NothingAdded == << >> \in Text /\ \A a \in Text : a \o << >> = a /\ << >> \o a = a
BY EmptySeq, ConcatEmptySeq DEF Text

LEMMA AppendText ==
  \A a \in Text, e \in Tokens : Append(a, e) \in Text /\ <<e>> \in Text /\ Append(a, e) = a \o <<e>>
<1> TAKE a \in Text, e \in Tokens
<1>1. <<e>> \in Text
  BY DEF Text
<1>2. Append(a, e) \in Text /\ Append(a, e) = a \o <<e>>
  BY AppendProperties, AppendIsConcat DEF Text
<1> QED
  BY <1>1, <1>2

LEMMA OneToken == \A e \in Tokens : Append(<< >>, e) = <<e>>
BY AppendText, NothingAdded

LEMMA AppendLast ==
  \A a, b \in Text, e \in Tokens : a \o Append(b, e) = Append(a \o b, e)
BY AppendToConcat DEF Text

LEMMA Padded ==
  ASSUME NEW text \in Text
  PROVE  /\ (<<" ">> \o text) \o <<" ">> \in Text
         /\ (<<" ">> \o text) \o <<" ">> = Append(<< >>, " ") \o Append(text, " ")
<1>1. " " \in Tokens
  BY SpaceIsToken
<1>2. <<" ">> \in Text /\ Append(<< >>, " ") = <<" ">> /\ Append(text, " ") = text \o <<" ">>
  BY <1>1, AppendText, OneToken
<1>3. /\ <<" ">> \o text \in Text
      /\ (<<" ">> \o text) \o <<" ">> = <<" ">> \o (text \o <<" ">>)
      /\ (<<" ">> \o text) \o <<" ">> \in Text
  BY <1>2, ConcatText, Regroup
<1> QED
  BY <1>2, <1>3

\* What the query finds is there, word for word.
LEMMA MatchesMentions ==
  ASSUME NEW message \in Text, NEW trigger \in Text, Lower(trigger) = trigger,
         Matches(NormalizeMessage(message), trigger)
  PROVE  Mentions(message, trigger)
<1> DEFINE n == NormalizeMessage(message)
           m == (<<" ">> \o n) \o <<" ">>
           t == (<<" ">> \o trigger) \o <<" ">>
<1>1. n \in Text /\ " " \in Tokens \ Letters /\ << >> \in Text
  BY NormalType, SpaceIsToken, EmptySeq DEF Letters, Text
<1> HIDE DEF n
<1>2. m \in Text /\ m = Append(<< >>, " ") \o Append(n, " ")
  BY <1>1, Padded
<1>3. t \in Text /\ t = Append(<< >>, " ") \o Append(trigger, " ")
  BY Padded
<1>4. InStr(m, t)
  BY DEF Matches, n
<1> HIDE DEF m, t
<1>5. PICK a \in Text, c \in Text : m = a \o (t \o c)
  BY <1>2, <1>3, <1>4, InStrSplit
<1>6. Append(n, " ") \in Text /\ Append(trigger, " ") \in Text /\ Append(<< >>, " ") \in Text
      /\ Append(trigger, " ") \o c \in Text
  BY <1>1, AppendText, ConcatText
<1>7. WordsOf(m) = WordsOf(n)
  <2>1. WordsOf(m) = WordsOf(<< >>) \o WordsOf(Append(n, " "))
    BY <1>1, <1>2, <1>6, WordsApart
  <2>2. WordsOf(Append(n, " ")) = WordsOf(n)
    BY <1>1, WordsAppend
  <2>3. WordsOf(n) \in Words
    BY <1>1, WordsType
  <2> QED
    BY <2>1, <2>2, <2>3, WordsEmpty, ConcatEmptySeq DEF Words
<1>8. m = Append(a, " ") \o (Append(trigger, " ") \o c)
  <2> DEFINE space == Append(<< >>, " ")
             tail == Append(trigger, " ")
  <2>1. space \in Text /\ tail \in Text /\ tail \o c \in Text /\ t = space \o tail
    BY <1>3, <1>6
  <2>2. a \o space = Append(a, " ")
    BY <1>1, AppendText, OneToken
  <2> HIDE DEF space, tail
  <2>3. t \o c = space \o (tail \o c)
    BY <2>1, Regroup
  <2>4. a \o (space \o (tail \o c)) = (a \o space) \o (tail \o c)
    BY <2>1, Regroup
  <2>5. m = Append(a, " ") \o (tail \o c)
    BY <1>5, <2>2, <2>3, <2>4
  <2> QED
    BY <2>5 DEF tail
<1>9. WordsOf(m) = WordsOf(a) \o (WordsOf(trigger) \o WordsOf(c))
  <2>1. WordsOf(m) = WordsOf(a) \o WordsOf(Append(trigger, " ") \o c)
    BY <1>1, <1>6, <1>8, WordsApart
  <2>2. WordsOf(Append(trigger, " ") \o c) = WordsOf(trigger) \o WordsOf(c)
    BY <1>1, WordsApart
  <2> QED
    BY <2>1, <2>2
<1>10. InStr(WordsOf(m), WordsOf(trigger))
  <2>1. WordsOf(a) \in Words /\ WordsOf(trigger) \in Words /\ WordsOf(c) \in Words
    BY WordsType
  <2> QED
    BY <1>9, <2>1, InStrConcat DEF Words
<1>11. WordsOf(Lower(message)) = WordsOf(m)
  BY <1>7, WordsOfNormal DEF n
<1> QED
  BY <1>10, <1>11 DEF Mentions

\* Letters and white space are kept.
LEMMA NormalOfPlain ==
  ASSUME NEW a \in Text, NEW b \in Text, \A i \in 1 .. Len(b) : b[i] \in Plain
  PROVE  NormalizeMessage(a \o b) = NormalizeMessage(a) \o Lower(b)
<1> DEFINE T == {s \in Text : (\A i \in 1 .. Len(s) : s[i] \in Plain) =>
                                NormalizeMessage(a \o s) = NormalizeMessage(a) \o Lower(s)}
<1>1. NormalizeMessage(a) \in Text
  BY NormalType
<1>2. << >> \in T
  <2>1. << >> \in Text /\ Len(<< >>) = 0
    BY EmptySeq DEF Text
  <2>2. Lower(<< >>) \in Text /\ Len(Lower(<< >>)) = 0
    BY <2>1, LowerText
  <2>3. Lower(<< >>) = << >>
    BY <2>2, Lengths DEF Text
  <2>4. a \o << >> = a /\ NormalizeMessage(a) \o << >> = NormalizeMessage(a)
    BY <1>1, ConcatEmptySeq DEF Text
  <2> QED
    BY <2>1, <2>3, <2>4
<1>3. ASSUME NEW s \in Text, NEW e \in Tokens, s \in T
      PROVE  Append(s, e) \in T
  <2>1. /\ Append(s, e) \in Text /\ Len(Append(s, e)) = Len(s) + 1 /\ Append(s, e)[Len(s) + 1] = e
        /\ \A i \in 1 .. Len(s) : Append(s, e)[i] = s[i]
    BY AppendProperties DEF Text
  <2> SUFFICES ASSUME \A i \in 1 .. Len(s) + 1 : Append(s, e)[i] \in Plain
               PROVE  NormalizeMessage(a \o Append(s, e)) = NormalizeMessage(a) \o Lower(Append(s, e))
    BY <2>1
  <2>2. e \in Plain /\ \A i \in 1 .. Len(s) : s[i] \in Plain
    <3>1. Len(s) \in Nat
      BY Lengths DEF Text
    <3>2. Len(s) + 1 \in 1 .. Len(s) + 1 /\ \A i \in 1 .. Len(s) : i \in 1 .. Len(s) + 1
      BY <3>1
    <3>3. e \in Plain
      BY <2>1, <3>2
    <3>4. \A i \in 1 .. Len(s) : s[i] \in Plain
      BY <2>1, <3>2
    <3> QED
      BY <3>3, <3>4
  <2>3. NormalizeMessage(a \o s) = NormalizeMessage(a) \o Lower(s)
    BY <1>3, <2>2
  <2>4. a \o s \in Text /\ a \o Append(s, e) = Append(a \o s, e)
    BY AppendToConcat DEF Text
  <2>5. NormalizeMessage(Append(a \o s, e)) = Append(NormalizeMessage(a) \o Lower(s), Low(e))
    BY <2>2, <2>3, <2>4, NormalAppend
  <2>6. Lower(Append(s, e)) = Append(Lower(s), Low(e)) /\ Lower(s) \in Text /\ Low(e) \in Tokens
    BY LowerAppend, LowerText, LowType
  <2>7. NormalizeMessage(a) \o Append(Lower(s), Low(e)) = Append(NormalizeMessage(a) \o Lower(s), Low(e))
    BY <1>1, <2>6, AppendToConcat DEF Text
  <2> QED
    BY <2>4, <2>5, <2>6, <2>7
<1>4. Text \subseteq T
  <2> HIDE DEF T
  <2> QED
    BY <1>2, <1>3, SequenceInduction DEF Text
<1> QED
  BY <1>4

\* What follows in the message follows in the normal form.
LEMMA NormalGoesOn ==
  ASSUME NEW a \in Text, NEW b \in Text
  PROVE  \E c \in Text : NormalizeMessage(a \o b) = NormalizeMessage(a) \o c
<1> DEFINE T == {s \in Text : \E c \in Text : NormalizeMessage(a \o s) = NormalizeMessage(a) \o c}
<1>1. NormalizeMessage(a) \in Text
  BY NormalType
<1>2. << >> \in T
  <2>1. << >> \in Text
    BY EmptySeq DEF Text
  <2>2. a \o << >> = a /\ NormalizeMessage(a) \o << >> = NormalizeMessage(a)
    BY <1>1, ConcatEmptySeq DEF Text
  <2> QED
    BY <2>1, <2>2
<1>3. ASSUME NEW s \in Text, NEW e \in Tokens, s \in T
      PROVE  Append(s, e) \in T
  <2>1. PICK c \in Text : NormalizeMessage(a \o s) = NormalizeMessage(a) \o c
    BY <1>3
  <2>2. Append(s, e) \in Text /\ a \o s \in Text /\ a \o Append(s, e) = Append(a \o s, e)
    BY AppendProperties, AppendToConcat DEF Text
  <2>3. NormalizeMessage(Append(a \o s, e)) \in
          {NormalizeMessage(a) \o c, Append(NormalizeMessage(a) \o c, Low(e)),
           Append(NormalizeMessage(a) \o c, " ")}
    BY <2>1, <2>2, NormalAppend
  <2>4. \A x \in Tokens : Append(c, x) \in Text
                          /\ Append(NormalizeMessage(a) \o c, x) = NormalizeMessage(a) \o Append(c, x)
    BY <1>1, AppendText, AppendLast, ConcatText
  <2>5. Low(e) \in Tokens /\ " " \in Tokens
    BY LowType, SpaceIsToken
  <2>6. \E d \in Text : NormalizeMessage(Append(a \o s, e)) = NormalizeMessage(a) \o d
    BY <2>3, <2>4, <2>5
  <2> QED
    BY <2>2, <2>6
<1>4. Text \subseteq T
  <2> HIDE DEF T
  <2> QED
    BY <1>2, <1>3, SequenceInduction DEF Text
<1> QED
  BY <1>4

\* A space or punctuation at the end of a text is a space at the end of its
\* normal form.
Gaps == Tokens \ (Letters \cup {"NL"})

LEMMA NormalOfGap ==
  ASSUME NEW text \in Text, EndsIn(text, Gaps)
  PROVE  \E w \in Text : NormalizeMessage(text) = Append(w, " ")
<1> DEFINE T == {s \in Text : EndsIn(s, Gaps) => \E w \in Text : NormalizeMessage(s) = Append(w, " ")}
<1>1. << >> \in T
  BY EmptySeq DEF EndsIn, Text
<1>2. ASSUME NEW s \in Text, NEW e \in Tokens, s \in T
      PROVE  Append(s, e) \in T
  <2>1. Append(s, e) \in Text /\ NormalizeMessage(s) \in Text
    BY AppendProperties, NormalType DEF Text
  <2> SUFFICES ASSUME e \in Gaps
               PROVE  \E w \in Text : NormalizeMessage(Append(s, e)) = Append(w, " ")
    BY <2>1, EndOfAppend
  <2>2. CASE e \in Plain
    <3>1. Low(e) = " "
      BY <2>2 DEF Gaps, Plain, Spaces, Low, Letters
    <3> QED
      BY <2>1, <2>2, <3>1, NormalAppend
  <2>3. CASE e \notin Plain /\ EndsIn(s, Tokens \ Plain)
    <3>1. NormalizeMessage(Append(s, e)) = NormalizeMessage(s)
      BY <2>3, NormalAppend
    <3>2. EndsIn(s, Gaps)
      BY <2>3 DEF EndsIn, Gaps, Plain, Spaces
    <3> QED
      BY <1>2, <3>1, <3>2
  <2>4. CASE e \notin Plain /\ ~EndsIn(s, Tokens \ Plain)
    BY <2>1, <2>4, NormalAppend
  <2> QED
    BY <2>2, <2>3, <2>4
<1>3. Text \subseteq T
  <2> HIDE DEF T
  <2> QED
    BY <1>1, <1>2, SequenceInduction DEF Text
<1> QED
  BY <1>3

\* Put together, as an operator the provers know nothing else about.
Join(a, b) == a \o b

LEMMA JoinFacts ==
  \A a, b, c \in Text : Join(a, b) \in Text /\ Join(Join(a, b), c) = Join(a, Join(b, c))
BY ConcatText, Regroup DEF Join

LEMMA RegroupFour ==
  \A a, b, c, d \in Text : a \o (b \o (c \o d)) = ((a \o b) \o c) \o d
<1>1. \A a, b, c, d \in Text : Join(a, Join(b, Join(c, d))) = Join(Join(Join(a, b), c), d)
  BY JoinFacts
<1> QED
  BY <1>1 DEF Join

LEMMA SpacesMove ==
  \A p, a \in Text : \E b \in Text : p \o (a \o p) = b \o p
<1>1. \A p, a \in Text : Join(p, a) \in Text /\ Join(p, Join(a, p)) = Join(Join(p, a), p)
  BY JoinFacts
<1>2. \A p, a \in Text : \E b \in Text : Join(p, Join(a, p)) = Join(b, p)
  BY <1>1
<1> QED
  BY <1>2 DEF Join

\* The text of a, p, z and p goes on with p after a.
GoesOnWith(a, p, z) == \E b \in Text : Join(Join(Join(a, p), z), p) = Join(a, Join(p, b))

LEMMA SpacesFollow == \A p, a, z \in Text : GoesOnWith(a, p, z)
<1> TAKE p, a, z \in Text
<1>1. Join(z, p) \in Text
  BY JoinFacts
<1>2. Join(Join(Join(a, p), z), p) = Join(a, Join(p, Join(z, p)))
  BY JoinFacts
<1> QED
  BY <1>1, <1>2 DEF GoesOnWith

LEMMA PaddedInside ==
  ASSUME NEW p \in Text, NEW n \in Text, NEW v \in Text, NEW t \in Text,
         \E w \in Text : p \o v = w \o p,
         \E z \in Text : n \o p = (v \o t) \o (p \o z)
  PROVE  InStr((p \o n) \o p, (p \o t) \o p)
<1>1. PICK w \in Text : Join(p, v) = Join(w, p)
  BY DEF Join
<1>2. PICK z \in Text : Join(n, p) = Join(Join(v, t), Join(p, z))
  BY DEF Join
<1> DEFINE padded == Join(Join(p, t), p)
<1>3. padded \in Text
  BY JoinFacts
<1>4. Join(Join(p, n), p) = Join(w, Join(padded, z))
  <2>1. Join(Join(p, n), p) = Join(p, Join(n, p))
    BY JoinFacts
  <2>2. Join(Join(v, t), Join(p, z)) = Join(v, Join(t, Join(p, z)))
    BY JoinFacts
  <2>3. Join(Join(p, v), Join(t, Join(p, z))) = Join(p, Join(v, Join(t, Join(p, z))))
    BY JoinFacts
  <2>4. Join(Join(w, p), Join(t, Join(p, z))) = Join(w, Join(p, Join(t, Join(p, z))))
    BY JoinFacts
  <2>5. Join(padded, z) = Join(p, Join(t, Join(p, z)))
    BY JoinFacts
  <2> QED
    BY <1>1, <1>2, <2>1, <2>2, <2>3, <2>4, <2>5
<1>5. InStr(w \o (padded \o z), padded)
  <2> HIDE DEF padded
  <2> QED
    BY <1>3, InStrConcat DEF Text
<1> QED
  BY <1>4, <1>5 DEF Join

LEMMA NormalAroundTrigger ==
  ASSUME NEW x \in Text, NEW s \in Text, NEW y \in Text,
         s # << >>, \A i \in 1 .. Len(s) : s[i] \in Plain,
         x = << >> \/ EndsIn(x, Gaps), y = << >> \/ y[1] \in Gaps
  PROVE  Matches(NormalizeMessage(x \o (s \o y)), Lower(s))
<1> DEFINE t == Lower(s)
           nx == NormalizeMessage(x)
           n == NormalizeMessage(x \o (s \o y))
           space == <<" ">>
<1>1. /\ " " \in Tokens /\ space \in Text /\ t \in Text /\ nx \in Text /\ x \o s \in Text
      /\ nx \o t \in Text
  <2>1. " " \in Tokens /\ t \in Text /\ nx \in Text
    BY SpaceIsToken, LowerText, NormalType
  <2>2. space \in Text
    BY <2>1, AppendText
  <2> HIDE DEF t, nx, space
  <2> QED
    BY <2>1, <2>2, ConcatText
<1>2. NormalizeMessage(x \o s) = nx \o t
  BY NormalOfPlain
<1>3. \E w \in Text : space \o nx = w \o space
  <2>1. CASE x = << >>
    BY <1>1, <2>1, NormalEmpty, NothingAdded
  <2>2. CASE EndsIn(x, Gaps)
    <3>1. PICK w \in Text : nx = Append(w, " ")
      BY <2>2, NormalOfGap
    <3>2. nx = w \o space
      BY <1>1, <3>1, AppendText
    <3> HIDE DEF nx, space
    <3>3. space \in Text
      BY <1>1
    <3>4. \E b \in Text : space \o (w \o space) = b \o space
      BY <3>3, SpacesMove, Zenon
    <3> QED
      BY <3>2, <3>4
  <2> QED
    BY <2>1, <2>2
<1>4. \E z \in Text : n \o space = (nx \o t) \o (space \o z)
  <2>1. CASE y = << >>
    <3>1. s \o y = s
      BY <2>1, NothingAdded
    <3>3. n = nx \o t
      BY <1>2, <3>1
    <3>2. space \o << >> = space /\ << >> \in Text
      BY <1>1, NothingAdded
    <3> HIDE DEF n, nx, t, space
    <3> QED
      BY <3>2, <3>3
  <2>2. CASE y # << >> /\ y[1] \in Gaps
    <3> DEFINE e == y[1]
               rest == Tail(y)
    <3>1. e \in Gaps /\ e \in Tokens /\ <<e>> \in Text /\ rest \in Text /\ y = <<e>> \o rest
      <4>1. e \in Tokens /\ rest \in Text
        BY <2>2, HeadTailProperties DEF Text, Gaps
      <4>2. <<e>> \in Text
        BY <4>1, AppendText
      <4>3. Len(y) \in Nat /\ Len(y) # 0
        BY <2>2, Lengths DEF Text
      <4>4. 1 \in 1 .. Len(y) /\ Len(y) \in 1 .. Len(y)
        BY <4>3
      <4>5. SubSeq(y, 1, Len(y)) = << y[1] >> \o SubSeq(y, 1 + 1, Len(y))
        BY <4>4, SubSeqRecursiveFirst DEF Text
      <4>6. SubSeq(y, 1, Len(y)) = y /\ Tail(y) = SubSeq(y, 2, Len(y))
        BY <2>2, SubSeqFull, TailIsSubSeq DEF Text
      <4> QED
        BY <2>2, <4>1, <4>2, <4>5, <4>6
    <3> HIDE DEF e, rest
    <3>2. x \o (s \o y) = Append(x \o s, e) \o rest /\ Append(x \o s, e) \in Text
      <4>1. Append(x \o s, e) \in Text /\ Append(x \o s, e) = (x \o s) \o <<e>>
        BY <1>1, <3>1, AppendText
      <4>2. <<e>> \in Text
        BY <3>1
      <4>3. rest \in Text
        BY <3>1
      <4>4. \A b, r \in Text : x \o (s \o (b \o r)) = ((x \o s) \o b) \o r
        BY RegroupFour
      <4> QED
        BY <3>1, <4>1, <4>2, <4>4
    <3>3. PICK z \in Text : NormalizeMessage(Append(x \o s, e) \o rest) =
                              NormalizeMessage(Append(x \o s, e)) \o z
      BY <3>1, <3>2, NormalGoesOn
    <3>4. NormalizeMessage(Append(x \o s, e)) = Append(nx \o t, " ")
      <4>1. ~EndsIn(x \o s, Tokens \ Plain)
        <5>1. Len(x) \in Nat /\ Len(s) \in Nat /\ Len(s) # 0
          BY Lengths DEF Text
        <5>2. /\ Len(x \o s) = Len(x) + Len(s)
              /\ \A k \in 1 .. Len(x) + Len(s) :
                   (x \o s)[k] = IF k <= Len(x) THEN x[k] ELSE s[k - Len(x)]
          BY ConcatProperties DEF Text
        <5>3. /\ Len(x) + Len(s) \in 1 .. Len(x) + Len(s) /\ ~(Len(x) + Len(s) <= Len(x))
              /\ (Len(x) + Len(s)) - Len(x) = Len(s) /\ Len(s) \in 1 .. Len(s)
          BY <5>1
        <5>4. (x \o s)[Len(x \o s)] = s[Len(s)]
          BY <5>2, <5>3
        <5> QED
          BY <5>3, <5>4 DEF EndsIn
      <4>2. CASE e \in Plain
        <5>1. Low(e) = " "
          BY <3>1, <4>2 DEF Gaps, Plain, Spaces, Low, Letters
        <5> QED
          BY <1>1, <1>2, <3>1, <4>2, <5>1, NormalAppend
      <4>3. CASE e \notin Plain
        BY <1>1, <1>2, <3>1, <4>1, <4>3, NormalAppend
      <4> QED
        BY <4>2, <4>3
    <3>5. n = Append(nx \o t, " ") \o z /\ Append(nx \o t, " ") = (nx \o t) \o space
      BY <1>1, <3>2, <3>3, <3>4, AppendText
    <3> HIDE DEF n, nx, t, space
    <3>6. nx \o t \in Text
      BY <1>1
    <3>7. space \in Text
      BY <1>1
    <3>8. \E b \in Text : (((nx \o t) \o space) \o z) \o space = (nx \o t) \o (space \o b)
      <4>1. GoesOnWith(nx \o t, space, z)
        BY <3>3, <3>6, <3>7, SpacesFollow
      <4> QED
        BY <4>1 DEF GoesOnWith, Join
    <3>9. n \o space = (((nx \o t) \o space) \o z) \o space
      BY <3>5, Zenon
    <3> QED
      BY <3>8, <3>9, Zenon
  <2> QED
    BY <2>1, <2>2
<1>5. n \in Text
  <2>1. s \o y \in Text
    BY ConcatText
  <2>2. x \o (s \o y) \in Text
    BY <2>1, ConcatText
  <2> QED
    BY <2>2, NormalType
<1>6. InStr((space \o n) \o space, (space \o t) \o space)
  <2> HIDE DEF n, nx, t, space
  <2>1. space \in Text
    BY <1>1
  <2>2. nx \in Text
    BY <1>1
  <2>3. t \in Text
    BY <1>1
  <2> QED
    BY <1>3, <1>4, <1>5, <2>1, <2>2, <2>3, PaddedInside, Zenon
<1> QED
  BY <1>6 DEF Matches

\* A trigger that stands in the message is found by the query.
LEMMA StandingMatches ==
  ASSUME NEW message \in Text, NEW trigger \in Text, trigger # << >>,
         \A i \in 1 .. Len(trigger) : trigger[i] \in Plain,
         Lower(trigger) = trigger, StandsIn(message, trigger)
  PROVE  Matches(NormalizeMessage(message), trigger)
<1> DEFINE M == Len(message)
           L == Len(trigger)
<1>1. M \in Nat /\ L \in Nat /\ L # 0 /\ DOMAIN message = 1 .. M
      /\ \A j \in 1 .. M : message[j] \in Tokens
  BY Lengths, ElementOfSeq DEF Text
<1>2. PICK i \in 1 .. M - L + 1 :
        /\ Lower(SubSeq(message, i, i + L - 1)) = trigger
        /\ \A j \in {i - 1, i + L} \cap DOMAIN message : message[j] \notin Letters \cup {"NL"}
  BY DEF StandsIn
<1> DEFINE x == SubSeq(message, 1, i - 1)
           s == SubSeq(message, i, i + L - 1)
           y == SubSeq(message, i + L, M)
<1>3. x \in Text /\ s \in Text /\ y \in Text /\ message = x \o (s \o y)
  BY <1>1, SplitAt DEF Text
<1>4. s # << >> /\ \A j \in 1 .. Len(s) : s[j] \in Plain
  <2> HIDE DEF s
  <2>1. Len(trigger) = Len(s) /\ \A j \in 1 .. Len(s) : trigger[j] = Low(s[j])
    BY <1>2, <1>3, LowerText DEF s
  <2>2. Len(s) # 0
    BY <1>1, <2>1
  <2>3. s # << >>
    BY <1>3, <2>2, Lengths DEF Text
  <2>4. \A j \in 1 .. Len(s) : s[j] \in Plain
    BY <2>1, LowKinds
  <2> QED
    BY <2>3, <2>4
<1>5. x = << >> \/ EndsIn(x, Gaps)
  <2>1. CASE i = 1
    <3>1. i - 1 < 1 /\ i - 1 \in Int
      BY <2>1
    <3> QED
      BY <3>1, SubSeqEmpty
  <2>2. CASE i # 1
    <3>1. i - 1 \in 1 .. M
      BY <1>1, <2>2
    <3>2. message[i - 1] \in Gaps
      BY <1>1, <1>2, <3>1 DEF Gaps
    <3>3. Len(x) = i - 1 /\ \A k \in 1 .. i - 1 : x[k] = message[k]
      <4>1. \A k \in 1 .. i - 1 : message[k] \in Tokens
        BY <1>1, <3>1
      <4>2. /\ Len(x) = IF 1 <= i - 1 THEN (i - 1) - 1 + 1 ELSE 0
            /\ \A k \in 1 .. (i - 1) - 1 + 1 : x[k] = message[1 + k - 1]
        BY <4>1, SubSeqProperties
      <4> HIDE DEF x
      <4> QED
        BY <3>1, <4>2
    <3>4. x[Len(x)] = message[i - 1]
      <4> HIDE DEF x
      <4> QED
        BY <3>1, <3>3
    <3>5. x # << >>
      <4> HIDE DEF x
      <4> QED
        BY <1>3, <3>1, <3>3, Lengths DEF Text
    <3> QED
      BY <3>2, <3>4, <3>5 DEF EndsIn
  <2> QED
    BY <2>1, <2>2
<1>6. y = << >> \/ y[1] \in Gaps
  <2>1. CASE i + L > M
    <3>1. M < i + L /\ M \in Int /\ i + L \in Int
      BY <1>1, <2>1
    <3> HIDE DEF M, L
    <3> QED
      BY <3>1, SubSeqEmpty DEF M
  <2>2. CASE ~(i + L > M)
    <3>1. i + L \in 1 .. M
      BY <1>1, <2>2
    <3>2. message[i + L] \in Gaps
      BY <1>1, <1>2, <3>1 DEF Gaps
    <3>3. y[1] = message[i + L]
      <4>1. \A k \in i + L .. M : message[k] \in Tokens
        BY <1>1, <3>1
      <4>2. \A k \in 1 .. M - (i + L) + 1 : y[k] = message[(i + L) + k - 1]
        <5>1. i + L \in Int /\ M \in Int
          BY <1>1
        <5> HIDE DEF M, L
        <5> QED
          BY <4>1, <5>1, SubSeqProperties
      <4>3. 1 \in 1 .. M - (i + L) + 1 /\ (i + L) + 1 - 1 = i + L
        BY <1>1, <3>1
      <4> HIDE DEF y
      <4> QED
        BY <4>2, <4>3
    <3> QED
      BY <3>2, <3>3
  <2> QED
    BY <2>1, <2>2
<1>7. Matches(NormalizeMessage(x \o (s \o y)), Lower(s))
  <2> HIDE DEF x, s, y
  <2> QED
    BY <1>3, <1>4, <1>5, <1>6, NormalAroundTrigger
<1> QED
  BY <1>2, <1>3, <1>7

=============================================================================

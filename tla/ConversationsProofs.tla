------------------------ MODULE ConversationsProofs ------------------------
(***************************************************************************)
(* For any number of messages and chats, any limit of the history and any  *)
(* faults: the type invariant of Conversations, RootsAgree, ParentFirst,   *)
(* ResponseIsStored and HistoryIsThePath.                                  *)
(*                                                                         *)
(* A row can only name a parent that is in the table (a reply was routed   *)
(* by the row of the message it quotes) or the question of the same turn,  *)
(* whose insert comes first; so a message being stored is the parent of no *)
(* row (NoOrphans).                                                        *)
(***************************************************************************)
EXTENDS Conversations, Recursion

-----------------------------------------------------------------------------
(***************************************************************************)
(* What the query of the history finds, in every table whose rows are      *)
(* younger than their parents: GetThreadChain is the path of replies above *)
(* a message, whatever other branches and conversations are in the table.  *)
(*                                                                         *)
(* The rows reached are the leaf and the parents of reached rows.  The     *)
(* youngest of them is the leaf, and of two that follow one another in the *)
(* table the older is the parent of the younger: in a chain of parents     *)
(* nothing comes between a row and its parent.                             *)
(***************************************************************************)

UniqueRows == \A i, j \in DOMAIN table : table[i].msg = table[j].msg => i = j

RowsNameParents == \A i \in DOMAIN table : table[i].parent = Parent(table[i].msg)

Ordered ==
  /\ table \in Seq(Rows) /\ Len(table) \in Nat /\ DOMAIN table = 1 .. Len(table)
  /\ ParentFirst /\ UniqueRows /\ RowsNameParents

LEMMA RowOfTable ==
  ASSUME table \in Seq(Rows), NEW i \in DOMAIN table
  PROVE  /\ table[i] \in Rows /\ table[i].msg \in Ids
         /\ table[i].parent \in Ids \cup {None} /\ table[i].root \in Ids
<1>1. DOMAIN table = 1 .. Len(table)
  BY LenProperties
<1>2. table[i] \in Rows
  BY <1>1, ElementOfSeq
<1> QED
  BY <1>2 DEF Rows

-----------------------------------------------------------------------------
(* The messages reached.                                                   *)

\* The rounds of the recursive query, as its definition has them.
Rounds(leaf, reached) ==
  /\ DOMAIN reached = 0 .. Len(table)
  /\ reached[0] = {leaf}
  /\ \A n \in 1 .. Len(table) :
       reached[n] = reached[n - 1] \cup
         {table[i].parent : i \in {i \in DOMAIN table : table[i].msg \in reached[n - 1]}}

LEMMA ReachedInRounds ==
  ASSUME Ordered, NEW leaf \in Ids
  PROVE  \E reached : Rounds(leaf, reached) /\ Reached(leaf) = reached[Len(table)]
<1> DEFINE N == Len(table)
           Grow(R) == R \cup {table[i].parent : i \in {i \in DOMAIN table : table[i].msg \in R}}
           S == SUBSET (Ids \cup {None})
           s == [p \in (1 .. N) \X S |-> Grow(p[2])]
           Eq(f) == f = [n \in 0 .. N |-> IF n = 0 THEN {leaf} ELSE Grow(f[n - 1])]
           reached == CHOOSE f : Eq(f)
<1>1. N \in Nat /\ {leaf} \in S
  BY DEF Ordered
<1>2. \A R \in S : Grow(R) \in S
  BY RowOfTable DEF Ordered
<1>3. IsStep(s, N, S)
  BY <1>2 DEF IsStep
<1>4. PICK f : IsRun(f, {leaf}, s, N, S)
  <2> HIDE DEF s, S, N
  <2> QED
    BY <1>1, <1>3, RecursiveFunction
<1>5. \A n \in 1 .. N : n - 1 \in 0 .. N /\ f[n - 1] \in S /\ f[n] = Grow(f[n - 1])
  <2> TAKE n \in 1 .. N
  <2> HIDE DEF S, Grow
  <2>1. n - 1 \in 0 .. N
    BY <1>1
  <2>2. f[n - 1] \in S /\ f[n] = s[<<n, f[n - 1]>>]
    BY <1>4, <2>1 DEF IsRun
  <2> QED
    BY <2>1, <2>2
<1>7. Eq(f)
  <2> HIDE DEF S, Grow
  <2>1. \A n \in 0 .. N : f[n] = IF n = 0 THEN {leaf} ELSE Grow(f[n - 1])
    BY <1>1, <1>4, <1>5 DEF IsRun
  <2>2. f = [n \in 0 .. N |-> f[n]]
    BY <1>1, <1>4 DEF IsRun
  <2> QED
    BY <2>1, <2>2
<1>8. Eq(reached)
  <2> HIDE DEF Eq
  <2> QED
    BY <1>7
<1>9. Rounds(leaf, reached)
  <2> HIDE DEF reached
  <2>1. /\ DOMAIN reached = 0 .. N
        /\ \A n \in 0 .. N : reached[n] = IF n = 0 THEN {leaf} ELSE Grow(reached[n - 1])
    <3> HIDE DEF Grow
    <3> QED
      BY <1>8
  <2>2. reached[0] = {leaf} /\ \A n \in 1 .. N : reached[n] = Grow(reached[n - 1])
    <3> HIDE DEF Grow
    <3> QED
      BY <1>1, <2>1
  <2> QED
    BY <2>1, <2>2 DEF Rounds
<1>10. Reached(leaf) = reached[N]
  BY DEF Reached
<1> QED
  BY <1>9, <1>10

\* A message with a row that is new in a round is older than the round: so
\* after as many rounds as there are rows nothing new is found.
LEMMA ReachedFacts ==
  ASSUME Ordered, NEW leaf \in Ids, Stored(leaf)
  PROVE  /\ leaf \in Reached(leaf)
         /\ \A i \in DOMAIN table : table[i].msg \in Reached(leaf) => table[i].parent \in Reached(leaf)
         /\ \A id \in Reached(leaf) :
              id = leaf \/ \E i \in DOMAIN table : table[i].msg \in Reached(leaf) /\ table[i].parent = id
<1> DEFINE N == Len(table)
<1>1. PICK reached : Rounds(leaf, reached) /\ Reached(leaf) = reached[N]
  BY ReachedInRounds
<1>2. N \in Nat /\ DOMAIN table = 1 .. N /\ N # 0
  BY DEF Ordered, Stored
<1>3. \A n \in 0 .. N - 1 :
        reached[n + 1] = reached[n] \cup
          {table[i].parent : i \in {i \in DOMAIN table : table[i].msg \in reached[n]}}
  <2> TAKE n \in 0 .. N - 1
  <2>1. n + 1 \in 1 .. N /\ (n + 1) - 1 = n
    BY <1>2
  <2> QED
    BY <1>1, <2>1 DEF Rounds
<1>4. reached[0] = {leaf}
  BY <1>1 DEF Rounds
<1> DEFINE
  Old(n) == \A i \in DOMAIN table :
              table[i].msg \in reached[n] => (n > 0 /\ table[i].msg \in reached[n - 1]) \/ i <= N - n
  Found(n) == \A id \in reached[n] :
              id = leaf \/ \E i \in DOMAIN table : table[i].msg \in reached[n] /\ table[i].parent = id
  T == {n \in Nat : n <= N => leaf \in reached[n] /\ Old(n) /\ Found(n)}
<1>5. 0 \in T
  BY <1>2, <1>4
<1>6. ASSUME NEW n \in Nat, n \in T PROVE n + 1 \in T
  <2> SUFFICES ASSUME n + 1 <= N PROVE leaf \in reached[n + 1] /\ Old(n + 1) /\ Found(n + 1)
    OBVIOUS
  <2>1. n \in 0 .. N - 1 /\ leaf \in reached[n] /\ Old(n) /\ Found(n)
    BY <1>2, <1>6
  <2>2. Old(n + 1)
    <3> SUFFICES ASSUME NEW i \in DOMAIN table, table[i].msg \in reached[n + 1],
                        table[i].msg \notin reached[n]
                 PROVE  i <= N - (n + 1)
      OBVIOUS
    <3>1. PICK j \in DOMAIN table : table[j].msg \in reached[n] /\ table[j].parent = table[i].msg
      BY <1>3, <2>1
    <3>2. i < j
      BY <3>1 DEF Ordered, ParentFirst
    <3>3. j <= N - n
      <4> SUFFICES ASSUME n > 0, table[j].msg \in reached[n - 1] PROVE FALSE
        BY <2>1, <3>1
      <4>1. n - 1 \in 0 .. N - 1 /\ (n - 1) + 1 = n
        BY <2>1
      <4>2. table[j].parent \in reached[n]
        BY <1>3, <4>1
      <4> QED
        BY <3>1, <4>2
    <3> QED
      BY <1>2, <3>2, <3>3
  <2>3. Found(n + 1)
    <3>1. \A i \in DOMAIN table : table[i].msg \in reached[n] => table[i].msg \in reached[n + 1]
      BY <1>3, <2>1
    <3>2. \A id \in reached[n + 1] :
            id \in reached[n] \/ \E i \in DOMAIN table : table[i].msg \in reached[n] /\ table[i].parent = id
      BY <1>3, <2>1
    <3> QED
      BY <2>1, <3>1, <3>2
  <2> QED
    BY <1>3, <2>1, <2>2, <2>3
<1>7. N \in T /\ N - 1 \in T
  <2> HIDE DEF T
  <2>1. Nat \subseteq T
    BY <1>5, <1>6, Induction
  <2> QED
    BY <1>2, <2>1
<1>8. leaf \in reached[N] /\ Old(N) /\ Found(N)
  BY <1>2, <1>7
<1>9. \A i \in DOMAIN table : table[i].msg \in reached[N] => table[i].msg \in reached[N - 1]
  BY <1>2, <1>8
<1>10. \A i \in DOMAIN table : table[i].msg \in reached[N] => table[i].parent \in reached[N]
  <2>1. N - 1 \in 0 .. N - 1 /\ (N - 1) + 1 = N
    BY <1>2
  <2> QED
    BY <1>3, <1>9, <2>1
<1> QED
  BY <1>1, <1>8, <1>10

-----------------------------------------------------------------------------
(* The rows of the messages reached.                                       *)

Picked(ids) == {i \in DOMAIN table : table[i].msg \in ids}

\* The youngest is the leaf.
LEMMA LeafIsYoungest ==
  ASSUME Ordered, NEW leaf \in Ids, Stored(leaf)
  PROVE  \E l \in Picked(Reached(leaf)) :
           table[l].msg = leaf /\ \A i \in Picked(Reached(leaf)) : i <= l
<1> DEFINE N == Len(table)
           I == Picked(Reached(leaf))
<1>1. PICK l \in DOMAIN table : table[l].msg = leaf
  BY DEF Stored
<1>2. l \in I
  BY <1>1, ReachedFacts DEF Picked
<1>3. N \in Nat /\ DOMAIN table = 1 .. N /\ I \subseteq 0 .. N
  BY DEF Ordered, Picked
<1>4. PICK k \in I : \A i \in I : i <= k
  <2> HIDE DEF I
  <2> QED
    BY <1>2, <1>3, Largest
<1>5. k = l
  <2> SUFFICES ASSUME k # l PROVE FALSE
    OBVIOUS
  <2>1. table[k].msg # leaf
    BY <1>1 DEF Ordered, UniqueRows, Picked
  <2>2. PICK j \in DOMAIN table : table[j].msg \in Reached(leaf) /\ table[j].parent = table[k].msg
    BY <2>1, ReachedFacts DEF Picked
  <2>3. k < j /\ j \in I
    BY <2>2 DEF Ordered, ParentFirst, Picked
  <2> QED
    BY <1>3, <1>4, <2>3
<1> QED
  BY <1>1, <1>4, <1>5

\* Between a reached row and that of its parent there is no other.
LEMMA NothingBetween ==
  ASSUME Ordered, NEW leaf \in Ids, Stored(leaf),
         NEW k \in Picked(Reached(leaf)), NEW j \in Picked(Reached(leaf)), j < k
  PROVE  \E i \in Picked(Reached(leaf)) : table[i].msg = table[k].parent /\ j <= i /\ i < k
<1> DEFINE N == Len(table)
           I == Picked(Reached(leaf))
           Gap(n, m) == m < n /\ \A i \in I : table[i].msg = table[n].parent => i < m
           Gaps == {n \in I : \E m \in I : Gap(n, m)}
<1>1. N \in Nat /\ DOMAIN table = 1 .. N /\ I \subseteq 1 .. N
  BY DEF Ordered, Picked
<1>2. ASSUME NEW T, T \subseteq I, T # {} PROVE \E x \in T : \A y \in T : y <= x
  <2>1. T \subseteq 0 .. N
    BY <1>1, <1>2
  <2> QED
    BY <1>1, <1>2, <2>1, Largest
<1>3. Gaps = {}
  <2> SUFFICES ASSUME Gaps # {} PROVE FALSE
    OBVIOUS
  <2>1. PICK n \in Gaps : \A o \in Gaps : o <= n
    BY <1>2
  <2>2. PICK o \in I : Gap(n, o)
    OBVIOUS
  \* The youngest row below n that is reached.
  <2>3. PICK m \in I : m < n /\ \A i \in I : i < n => i <= m
    <3> DEFINE Below == {i \in I : i < n}
    <3>1. o \in Below
      BY <2>2
    <3>2. PICK m \in Below : \A i \in Below : i <= m
      BY <1>2, <3>1
    <3> QED
      BY <3>2
  <2>4. table[m].msg # leaf
    <3>1. PICK l \in I : table[l].msg = leaf /\ \A i \in I : i <= l
      BY LeafIsYoungest
    <3> QED
      BY <1>1, <2>3, <3>1 DEF Ordered, UniqueRows
  <2>5. PICK c \in I : table[c].parent = table[m].msg
    BY <2>4, ReachedFacts DEF Picked
  <2>6. m < c /\ m < n
    BY <1>1, <2>3, <2>5 DEF Ordered, ParentFirst
  <2>7. c # n
    <3>1. o <= m
      BY <2>2, <2>3
    <3>2. table[m].msg = table[n].parent => m < o
      BY <2>2
    <3> QED
      BY <1>1, <2>5, <3>1, <3>2
  <2>8. n < c
    <3>1. n \in I
      BY <2>1
    <3>2. c < n => c <= m
      BY <2>3, <2>5
    <3> HIDE DEF I
    <3> QED
      BY <1>1, <2>3, <2>5, <2>6, <2>7, <3>1, <3>2
  <2>9. PICK i \in I : table[i].msg = table[c].parent /\ ~(i < n)
    <3>1. ~Gap(c, n)
      <4>1. n \in I
        BY <2>1
      <4>2. c \notin Gaps
        <5> HIDE DEF Gaps, I
        <5> QED
          BY <1>1, <2>1, <2>5, <2>8, <4>1
      <4> QED
        BY <2>5, <4>1, <4>2
    <3> QED
      BY <2>8, <3>1
  <2>10. i = m
    BY <1>1, <2>5, <2>9 DEF Ordered, UniqueRows
  <2> QED
    BY <1>1, <2>6, <2>9, <2>10
<1>4. ~Gap(k, j)
  BY <1>3
<1>5. PICK i \in I : table[i].msg = table[k].parent /\ ~(i < j)
  BY <1>4
<1>6. i < k
  BY <1>1, <1>5 DEF Ordered, ParentFirst
<1> QED
  BY <1>1, <1>5, <1>6

-----------------------------------------------------------------------------
(* The scan of the table.                                                  *)

\* The scan, as the definition of InTableOrder has it.
Scan(ids, upTo) ==
  /\ upTo \in [0 .. Len(table) -> Seq(Ids)]
  /\ upTo[0] = << >>
  /\ \A i \in 1 .. Len(table) :
       upTo[i] = IF table[i].msg \in ids THEN Append(upTo[i - 1], table[i].msg) ELSE upTo[i - 1]

LEMMA ScanExists ==
  ASSUME table \in Seq(Rows), NEW ids
  PROVE  \E upTo : Scan(ids, upTo) /\ InTableOrder(ids) = upTo[Len(table)]
<1> DEFINE N == Len(table)
           S == Seq(Ids)
           Taken(i, c) == IF table[i].msg \in ids THEN Append(c, table[i].msg) ELSE c
           s == [p \in (1 .. N) \X S |-> Taken(p[1], p[2])]
           Eq(f) == f = [i \in 0 .. N |-> IF i = 0 THEN << >> ELSE Taken(i, f[i - 1])]
           upTo == CHOOSE f : Eq(f)
<1>1. N \in Nat /\ << >> \in S /\ DOMAIN table = 1 .. N
  BY LenProperties
<1>2. \A i \in 1 .. N, c \in S : Taken(i, c) \in S
  BY <1>1, RowOfTable
<1>3. IsStep(s, N, S)
  <2> HIDE DEF Taken, S
  <2> QED
    BY <1>2 DEF IsStep
<1>4. PICK f : IsRun(f, << >>, s, N, S)
  <2> HIDE DEF s, S, N
  <2> QED
    BY <1>1, <1>3, RecursiveFunction
<1>5. \A i \in 1 .. N : i - 1 \in 0 .. N /\ f[i - 1] \in S /\ f[i] = Taken(i, f[i - 1])
  <2> TAKE i \in 1 .. N
  <2> HIDE DEF S, Taken
  <2>1. i - 1 \in 0 .. N
    BY <1>1
  <2>2. f[i - 1] \in S /\ f[i] = s[<<i, f[i - 1]>>]
    BY <1>4, <2>1 DEF IsRun
  <2> QED
    BY <2>1, <2>2
<1>6. Eq(f)
  <2> HIDE DEF S, Taken
  <2>1. \A i \in 0 .. N : f[i] = IF i = 0 THEN << >> ELSE Taken(i, f[i - 1])
    BY <1>1, <1>4, <1>5 DEF IsRun
  <2>2. f = [i \in 0 .. N |-> f[i]]
    BY <1>1, <1>4 DEF IsRun
  <2> QED
    BY <2>1, <2>2
<1>7. Eq(upTo)
  <2> HIDE DEF Eq
  <2> QED
    BY <1>6
<1>8. upTo = [i \in 0 .. N |-> upTo[i]] /\ upTo[0] = << >>
      /\ \A i \in 1 .. N : upTo[i] = Taken(i, upTo[i - 1])
  <2> HIDE DEF Taken, upTo
  <2>1. DOMAIN upTo = 0 .. N
    BY <1>7
  <2>2. \A i \in 0 .. N : upTo[i] = IF i = 0 THEN << >> ELSE Taken(i, upTo[i - 1])
    BY <1>7
  <2> QED
    BY <1>1, <1>7, <2>1, <2>2
<1>9. \A i \in 1 .. N : upTo[i - 1] \in S => upTo[i] = s[<<i, upTo[i - 1]>>]
  <2> HIDE DEF Taken, upTo, S
  <2> QED
    BY <1>8
<1>10. IsRun(upTo, << >>, s, N, S)
  <2> HIDE DEF s, S, N, upTo
  <2> QED
    BY <1>1, <1>3, <1>4, <1>8, <1>9, SameRun
<1>11. Scan(ids, upTo)
  <2> HIDE DEF upTo
  <2> QED
    BY <1>8, <1>10 DEF Scan, IsRun
<1>12. InTableOrder(ids) = upTo[N]
  BY DEF InTableOrder
<1> QED
  BY <1>11, <1>12

\* A part of the path: it begins with the oldest row reached.
PartOfPath(c, leaf, i) ==
  /\ c \in Seq(Ids)
  /\ \A e \in 1 .. Len(c) : Stored(c[e])
  /\ \A e \in 1 .. Len(c) - 1 : c[e] = Parent(c[e + 1])
  /\ c = << >> => \A k \in Picked(Reached(leaf)) : k > i
  /\ c # << >> =>
       /\ \E k \in Picked(Reached(leaf)) :
            /\ k <= i /\ c[Len(c)] = table[k].msg
            /\ \A o \in Picked(Reached(leaf)) : o <= i => o <= k
       /\ \E k \in Picked(Reached(leaf)) :
            c[1] = table[k].msg /\ \A o \in Picked(Reached(leaf)) : k <= o

LEMMA ScanStep ==
  ASSUME Ordered, NEW leaf \in Ids, Stored(leaf), NEW i \in 0 .. Len(table) - 1,
         NEW c, PartOfPath(c, leaf, i), NEW d,
         d = IF table[i + 1].msg \in Reached(leaf) THEN Append(c, table[i + 1].msg) ELSE c
  PROVE  PartOfPath(d, leaf, i + 1)
<1> DEFINE I == Picked(Reached(leaf))
           x == table[i + 1].msg
<1>1. /\ i + 1 \in DOMAIN table /\ I \subseteq 1 .. Len(table) /\ Len(table) \in Nat
      /\ x \in Ids /\ Stored(x) /\ table[i + 1].parent = Parent(x)
  BY RowOfTable DEF Ordered, Picked, Stored, RowsNameParents
<1>2. \A k \in I : k <= i + 1 <=> k <= i \/ k = i + 1
  BY <1>1
<1>3. CASE x \notin Reached(leaf)
  <2>1. i + 1 \notin I /\ d = c
    BY <1>3 DEF Picked
  <2>2. \A k \in I : (k <= i + 1 <=> k <= i) /\ (k > i => k > i + 1)
    BY <1>1, <1>2, <2>1
  <2> HIDE DEF I
  <2> QED
    BY <2>1, <2>2 DEF PartOfPath, I
<1>4. CASE x \in Reached(leaf)
  <2>1. i + 1 \in I /\ d = Append(c, x)
    BY <1>1, <1>4 DEF Picked
  <2>2. c \in Seq(Ids) /\ Len(c) \in Nat
    BY LenProperties DEF PartOfPath
  <2>3. /\ d \in Seq(Ids) /\ d # << >> /\ Len(d) = Len(c) + 1
        /\ \A e \in 1 .. Len(c) : d[e] = c[e]
        /\ d[Len(d)] = x
    <3> HIDE DEF x
    <3> QED
      BY <1>1, <2>1, <2>2, AppendProperties
  <2>4. \A e \in 1 .. Len(d) : Stored(d[e])
    BY <1>1, <2>2, <2>3 DEF PartOfPath
  <2>5. c # << >> => c[Len(c)] = Parent(x)
    <3> SUFFICES ASSUME c # << >> PROVE c[Len(c)] = Parent(x)
      OBVIOUS
    <3>1. PICK k \in I : /\ k <= i /\ c[Len(c)] = table[k].msg
                         /\ \A o \in I : o <= i => o <= k
      BY DEF PartOfPath
    <3>2. k < i + 1
      BY <1>1, <3>1
    <3>3. PICK o \in I : table[o].msg = table[i + 1].parent /\ k <= o /\ o < i + 1
      BY <2>1, <3>2, NothingBetween
    <3>4. o = k
      BY <1>1, <3>1, <3>3
    <3> QED
      BY <1>1, <3>1, <3>3, <3>4
  <2>6. \A e \in 1 .. Len(d) - 1 : d[e] = Parent(d[e + 1])
    <3> TAKE e \in 1 .. Len(d) - 1
    <3>1. e \in 1 .. Len(c) /\ d[e] = c[e]
      BY <2>2, <2>3
    <3>2. CASE e = Len(c)
      <4>1. c # << >> /\ d[e + 1] = x
        BY <2>2, <2>3, <3>1, <3>2
      <4> QED
        BY <2>5, <3>1, <3>2, <4>1
    <3>3. CASE e # Len(c)
      <4>1. e \in 1 .. Len(c) - 1 /\ e + 1 \in 1 .. Len(c)
        BY <2>2, <3>1, <3>3
      <4> QED
        BY <2>3, <3>1, <4>1 DEF PartOfPath
    <3> QED
      BY <3>2, <3>3
  <2>7. \E k \in I : k <= i + 1 /\ d[Len(d)] = table[k].msg /\ \A o \in I : o <= i + 1 => o <= k
    BY <1>1, <2>1, <2>3
  <2>8. \E k \in I : d[1] = table[k].msg /\ \A o \in I : k <= o
    <3>1. CASE c = << >>
      <4>1. d[1] = x
        BY <2>3, <3>1
      <4>2. \A o \in I : i + 1 <= o
        BY <1>1, <3>1 DEF PartOfPath
      <4> QED
        BY <2>1, <4>1, <4>2
    <3>2. CASE c # << >>
      <4>1. 1 \in 1 .. Len(c)
        BY <2>2, <3>2
      <4> QED
        BY <2>3, <3>2, <4>1 DEF PartOfPath
    <3> QED
      BY <3>1, <3>2
  <2> QED
    BY <2>3, <2>4, <2>6, <2>7, <2>8 DEF PartOfPath
<1> QED
  BY <1>3, <1>4

\* From the first message whose parent has no row to the leaf.
WholePath(c, leaf) ==
  /\ c \in Seq(Ids) /\ Len(c) \in Nat \ {0}
  /\ \A e \in 1 .. Len(c) : Stored(c[e])
  /\ \A e \in 1 .. Len(c) - 1 : c[e] = Parent(c[e + 1])
  /\ c[Len(c)] = leaf
  /\ ~Stored(Parent(c[1]))

LEMMA ChainIsWholePath ==
  ASSUME Ordered, NEW leaf \in Ids, Stored(leaf)
  PROVE  WholePath(InTableOrder(Reached(leaf)), leaf)
<1> DEFINE N == Len(table)
           I == Picked(Reached(leaf))
<1>1. PICK upTo : Scan(Reached(leaf), upTo) /\ InTableOrder(Reached(leaf)) = upTo[N]
  BY ScanExists DEF Ordered
<1>2. N \in Nat /\ I \subseteq 1 .. N
  BY DEF Ordered, Picked
<1> DEFINE T == {i \in Nat : i <= N => PartOfPath(upTo[i], leaf, i)}
<1>3. 0 \in T
  <2>1. upTo[0] = << >> /\ \A k \in I : k > 0
    BY <1>1, <1>2 DEF Scan
  <2>2. << >> \in Seq(Ids) /\ Len(<< >>) = 0
    OBVIOUS
  <2>3. \A e \in 1 .. 0 : FALSE
    OBVIOUS
  <2>4. PartOfPath(<< >>, leaf, 0)
    BY <2>1, <2>2, <2>3 DEF PartOfPath
  <2> QED
    BY <2>1, <2>4
<1>4. ASSUME NEW i \in Nat, i \in T PROVE i + 1 \in T
  <2> SUFFICES ASSUME i + 1 <= N PROVE PartOfPath(upTo[i + 1], leaf, i + 1)
    OBVIOUS
  <2>1. i \in 0 .. N - 1 /\ i + 1 \in 1 .. N /\ (i + 1) - 1 = i
    BY <1>2
  <2>2. PartOfPath(upTo[i], leaf, i)
    BY <1>4, <2>1
  <2>3. upTo[i + 1] = IF table[i + 1].msg \in Reached(leaf)
                      THEN Append(upTo[i], table[i + 1].msg) ELSE upTo[i]
    BY <1>1, <2>1 DEF Scan
  <2> QED
    BY <2>1, <2>2, <2>3, ScanStep
<1>5. PartOfPath(upTo[N], leaf, N)
  <2>1. Nat \subseteq T
    <3> HIDE DEF T
    <3> QED
      BY <1>3, <1>4, Induction
  <2> QED
    BY <1>2, <2>1
<1> DEFINE c == upTo[N]
<1>6. PICK l \in I : table[l].msg = leaf /\ \A i \in I : i <= l
  BY LeafIsYoungest
<1>7. c # << >> /\ c \in Seq(Ids) /\ Len(c) \in Nat \ {0}
  <2>1. c # << >>
    BY <1>2, <1>5, <1>6 DEF PartOfPath
  <2>2. c \in Seq(Ids)
    BY <1>5 DEF PartOfPath
  <2> HIDE DEF c
  <2> QED
    BY <2>1, <2>2, EmptySeq
<1>8. c[Len(c)] = leaf
  <2>1. PICK k \in I : c[Len(c)] = table[k].msg /\ \A o \in I : o <= N => o <= k
    BY <1>5, <1>7 DEF PartOfPath
  <2>2. k = l
    BY <1>2, <1>6, <2>1
  <2> QED
    BY <1>6, <2>1, <2>2
<1>9. ~Stored(Parent(c[1]))
  <2> SUFFICES ASSUME NEW j \in DOMAIN table, table[j].msg = Parent(c[1]) PROVE FALSE
    BY DEF Stored
  <2>1. PICK k \in I : c[1] = table[k].msg /\ \A o \in I : k <= o
    BY <1>5, <1>7 DEF PartOfPath
  <2>2. k \in DOMAIN table /\ table[k].msg \in Reached(leaf)
    BY DEF Picked
  <2>3. table[k].parent = table[j].msg /\ table[k].parent \in Reached(leaf)
    BY <2>1, <2>2, ReachedFacts DEF Ordered, RowsNameParents
  <2>4. j \in I /\ j < k
    BY <2>2, <2>3 DEF Picked, Ordered, ParentFirst
  <2> QED
    BY <1>2, <2>1, <2>4
<1> QED
  BY <1>1, <1>5, <1>7, <1>8, <1>9 DEF PartOfPath, WholePath

\* What a continuation loads.
LEMMA ThreadChain ==
  ASSUME Ordered, NEW leaf \in Ids, Stored(leaf)
  PROVE  IsPathTo(GetThreadChain(leaf), leaf)
<1> DEFINE c == InTableOrder(Reached(leaf))
           h == GetThreadChain(leaf)
<1>1. WholePath(c, leaf)
  BY ChainIsWholePath
<1>2. MaxHistory \in Int /\ Len(c) \in Nat \ {0} /\ c \in Seq(Ids) /\ DOMAIN c = 1 .. Len(c)
  BY <1>1, HistoryAssumption, LenProperties DEF WholePath
<1>3. h = MostRecent(c)
  BY DEF GetThreadChain
<1>6. h = GetThreadChain(leaf)
  OBVIOUS
<1> HIDE DEF c, h
<1>4. CASE MaxHistory < 0 \/ Len(c) <= MaxHistory
  <2>1. h = c
    BY <1>3, <1>4 DEF MostRecent
  <2>2. \/ Len(c) = MaxHistory
        \/ MaxHistory \notin 0 .. Len(c) /\ c # << >> /\ ~Stored(Parent(c[1]))
    <3>1. MaxHistory \in 0 .. Len(c) => Len(c) = MaxHistory
      <4>1. \A max \in Int, len \in Nat : max \in 0 .. len /\ (max < 0 \/ len <= max) => len = max
        OBVIOUS
      <4>2. MaxHistory \in Int /\ Len(c) \in Nat
        BY <1>2
      <4> QED
        BY <1>4, <4>1, <4>2, Zenon
    <3>2. c # << >>
      BY <1>2
    <3> QED
      BY <1>1, <3>1, <3>2 DEF WholePath
  <2>3. \A i \in DOMAIN c : Stored(c[i]) /\ c[i] = IF i = Len(c) THEN leaf ELSE Parent(c[i + 1])
    BY <1>1, <1>2 DEF WholePath
  <2> QED
    BY <1>6, <2>1, <2>2, <2>3 DEF IsPathTo
<1>5. CASE ~(MaxHistory < 0 \/ Len(c) <= MaxHistory)
  <2> DEFINE first == Len(c) - MaxHistory
  <2>1. h = SubSeq(c, first + 1, Len(c)) /\ first \in 1 .. Len(c) /\ MaxHistory \in Nat
    BY <1>2, <1>3, <1>5 DEF MostRecent
  <2>2. /\ DOMAIN h = 1 .. MaxHistory /\ Len(h) = MaxHistory
        /\ \A i \in 1 .. MaxHistory : h[i] = c[first + i]
    <3>1. \A i \in first + 1 .. Len(c) : c[i] \in Ids
      BY <1>2, <2>1
    <3>2. /\ h \in Seq(Ids) /\ Len(h) = IF first + 1 <= Len(c) THEN Len(c) - (first + 1) + 1 ELSE 0
          /\ \A i \in 1 .. Len(c) - (first + 1) + 1 : h[i] = c[first + 1 + i - 1]
      BY <1>2, <2>1, <3>1, SubSeqProperties
    <3>3. Len(h) = MaxHistory
      BY <1>2, <2>1, <3>2
    <3>4. DOMAIN h = 1 .. Len(h)
      BY <3>2, LenProperties
    <3>5. \A i \in 1 .. MaxHistory : h[i] = c[first + i]
      BY <1>2, <2>1, <3>2
    <3> QED
      BY <3>3, <3>4, <3>5
  <2>3. first \in Nat /\ MaxHistory \in Nat /\ Len(c) = first + MaxHistory
    BY <1>2, <2>1
  <2>4. ASSUME NEW i \in DOMAIN h
        PROVE  Stored(h[i]) /\ h[i] = IF i = Len(h) THEN leaf ELSE Parent(h[i + 1])
    <3> HIDE DEF first
    <3>1. i \in 1 .. MaxHistory /\ first + i \in 1 .. Len(c) /\ h[i] = c[first + i]
      BY <2>2, <2>4, <2>3
    <3>2. CASE i = Len(h)
      <4>1. first + i = Len(c)
        BY <2>2, <2>3, <3>2
      <4> QED
        BY <1>1, <3>1, <3>2, <4>1 DEF WholePath
    <3>3. CASE i # Len(h)
      <4>1. first + i \in 1 .. Len(c) - 1 /\ i + 1 \in 1 .. MaxHistory
        BY <2>2, <2>3, <3>1, <3>3
      <4>2. h[i + 1] = c[first + i + 1]
        BY <2>2, <2>3, <4>1
      <4> QED
        BY <1>1, <3>1, <3>3, <4>1, <4>2 DEF WholePath
    <3> QED
      BY <3>2, <3>3
  <2> QED
    BY <1>6, <2>2, <2>4 DEF IsPathTo
<1> QED
  BY <1>4, <1>5

LEMMA ChainType ==
  ASSUME table \in Seq(Rows), NEW leaf
  PROVE  GetThreadChain(leaf) \in Seq(Ids)
<1>1. PICK upTo : Scan(Reached(leaf), upTo) /\ InTableOrder(Reached(leaf)) = upTo[Len(table)]
  BY ScanExists
<1>2. Len(table) \in Nat
  BY LenProperties
<1> DEFINE c == InTableOrder(Reached(leaf))
<1>3. c \in Seq(Ids)
  BY <1>1, <1>2 DEF Scan
<1>4. GetThreadChain(leaf) = MostRecent(c)
  BY DEF GetThreadChain
<1> HIDE DEF c
<1>5. Len(c) \in Nat /\ MaxHistory \in Int /\ \A i \in 1 .. Len(c) : c[i] \in Ids
  BY <1>3, HistoryAssumption, ElementOfSeq, LenProperties
<1>6. CASE MaxHistory < 0 \/ Len(c) <= MaxHistory
  BY <1>3, <1>4, <1>6 DEF MostRecent
<1>7. CASE ~(MaxHistory < 0 \/ Len(c) <= MaxHistory)
  <2>1. GetThreadChain(leaf) = SubSeq(c, Len(c) - MaxHistory + 1, Len(c))
    BY <1>4, <1>7 DEF MostRecent
  <2>2. \A i \in Len(c) - MaxHistory + 1 .. Len(c) : c[i] \in Ids
    BY <1>5, <1>7
  <2> QED
    BY <1>5, <2>1, <2>2, SubSeqProperties
<1> QED
  BY <1>6, <1>7

-----------------------------------------------------------------------------
(***************************************************************************)
(* The invariants.                                                         *)
(***************************************************************************)

\* A handler on its way to the AI service has a root; that of a reply is in the
\* row of the message it replies to.
Rooted ==
  \A m \in Msgs :
    /\ pc[m] \notin {"new", "done"} => kind[m] \in {"prompt", "continuation"}
    /\ pc[m] \notin {"new", "done"} /\ kind[m] = "prompt" => root[m] = <<m, "user">>
    /\ pc[m] \notin {"new", "done"} /\ kind[m] = "continuation" =>
         \E j \in DOMAIN table : table[j].msg = quote[m] /\ table[j].root = root[m]

\* The rows of a message are stored by the last steps of its handler.
RowsLate ==
  \A i \in DOMAIN table :
    LET id == table[i].msg
    IN /\ pc[id[1]] \in {"saveAssistant", "done"}
       /\ id[2] = "assistant" => pc[id[1]] = "done"
       /\ table[i].parent = Parent(id)
       /\ kind[id[1]] \in {"prompt", "continuation"}

\* A message is only stored after its response was sent.
SentLate == \A m \in sent : pc[m] \in {"saveUser", "saveAssistant", "done"}

Sound == Rooted /\ RowsLate /\ RootsAgree /\ ParentFirst /\ UniqueRows
IInv == TypeOK /\ Sound

USE DEF message

-----------------------------------------------------------------------------
(* The operators.                                                          *)

LEMMA IdsOf ==
  ASSUME NEW id \in Ids
  PROVE  id[1] \in Msgs /\ id[2] \in Roles /\ id = <<id[1], id[2]>>
BY DEF Ids, Roles

LEMMA IdOf ==
  ASSUME NEW m \in Msgs, NEW role \in Roles
  PROVE  <<m, role>> \in Ids
BY DEF Ids

LEMMA NoneIsNoId == None \notin Ids
BY NoneAssumption DEF Ids, Roles

LEMMA ParentType ==
  ASSUME TypeOK, NEW id \in Ids
  PROVE  Parent(id) \in Ids \cup {None}
<1>1. id[1] \in Msgs /\ <<id[1], "user">> \in Ids
  BY IdsOf, IdOf DEF Roles
<1> QED
  BY <1>1 DEF TypeOK, Parent

LEMMA RowType ==
  ASSUME TypeOK, NEW i \in DOMAIN table
  PROVE  table[i] \in Rows /\ table[i].msg \in Ids /\ table[i].root \in Ids
<1>1. table \in Seq(Rows)
  BY DEF TypeOK
<1>2. DOMAIN table = 1 .. Len(table)
  BY <1>1, LenProperties
<1>3. table[i] \in Rows
  BY <1>1, <1>2, ElementOfSeq
<1> QED
  BY <1>3 DEF Rows

\* The row found by IsConversationMessage.
LEMMA ThreadRootFound ==
  ASSUME TypeOK, NEW q \in Ids, Stored(q)
  PROVE  \E j \in DOMAIN table : table[j].msg = q /\ table[j].root = ThreadRootOf(q)
<1> DEFINE j == CHOOSE i \in DOMAIN table : table[i].msg = q
<1>1. j \in DOMAIN table /\ table[j].msg = q
  BY DEF Stored
<1> QED
  BY <1>1 DEF ThreadRootOf

LEMMA Appended ==
  ASSUME TypeOK, NEW row \in Rows, table' = Append(table, row)
  PROVE  /\ table' \in Seq(Rows)
         /\ Len(table') = Len(table) + 1
         /\ DOMAIN table = 1 .. Len(table) /\ Len(table) \in Nat
         /\ DOMAIN table' = 1 .. Len(table) + 1
         /\ \A i \in DOMAIN table : i \in DOMAIN table' /\ table'[i] = table[i]
         /\ table'[Len(table) + 1] = row
BY DEF TypeOK

-----------------------------------------------------------------------------
(* The type invariant.                                                     *)

LEMMA TypeInit == Init => TypeOK
BY DEF Init, TypeOK

\* What the five ways to receive a message have in common.
Received(m, q, handler, l, r) ==
  /\ pc[m] = "new"
  /\ pc' = [pc EXCEPT ![m] = l]
  /\ chat' \in [Msgs -> Chats \cup {None}]
  /\ quote' = [quote EXCEPT ![m] = q]
  /\ kind' = [kind EXCEPT ![m] = handler]
  /\ root' = [root EXCEPT ![m] = r]
  /\ l = "ask" => handler = "prompt" /\ r = <<m, "user">>
  /\ l = "load" => /\ handler = "continuation"
                   /\ \E j \in DOMAIN table : table[j].msg = q /\ table[j].root = r
  /\ UNCHANGED <<table, history, sent, lost>>

LEMMA ReceivedMessage ==
  ASSUME TypeOK, NEW m \in Msgs, Receive(m)
  PROVE  \E q \in Ids \cup {None}, handler \in {"prompt", "continuation", "other"},
            l \in {"ask", "load", "done"}, r \in Ids \cup {None} : Received(m, q, handler, l, r)
<1>1. ASSUME NEW c \in Chats, NEW q \in Ids \cup {None}, NEW h, Arrive(m, c, q, h)
      PROVE  /\ pc[m] = "new"
             /\ chat' \in [Msgs -> Chats \cup {None}]
             /\ quote' = [quote EXCEPT ![m] = q] /\ kind' = [kind EXCEPT ![m] = h]
             /\ UNCHANGED <<table, history, sent, lost>>
  BY <1>1 DEF TypeOK, Arrive
<1>2. root[m] \in Ids \cup {None} /\ (UNCHANGED root => root' = [root EXCEPT ![m] = root[m]])
  BY DEF TypeOK
<1>3. ASSUME NEW c \in Chats, NEW q \in Ids \cup {None},
             NEW h \in {"prompt", "continuation", "other"}, Arrive(m, c, q, h),
             Goto(m, "done"), UNCHANGED root
      PROVE  Received(m, q, h, "done", root[m])
  BY <1>1, <1>2, <1>3 DEF Received, Goto
<1>4. CASE Ignore(m)
  BY <1>2, <1>3, <1>4, Zenon DEF Ignore
<1>5. CASE OtherCommand(m)
  BY <1>2, <1>3, <1>5, Zenon DEF OtherCommand
<1>6. CASE NoContinuation(m)
  BY <1>2, <1>3, <1>6, Zenon DEF NoContinuation
<1>7. CASE Prompt(m)
  <2>1. PICK c \in Chats, q \in Ids \cup {None} :
          /\ Arrive(m, c, q, "prompt")
          /\ \/ root' = [root EXCEPT ![m] = <<m, "user">>] /\ Goto(m, "ask")
             \/ Goto(m, "done") /\ UNCHANGED root
    BY <1>7, Zenon DEF Prompt
  <2>2. CASE root' = [root EXCEPT ![m] = <<m, "user">>] /\ Goto(m, "ask")
    <3>1. <<m, "user">> \in Ids
      BY IdOf DEF Roles
    <3>2. Received(m, q, "prompt", "ask", <<m, "user">>)
      BY <1>1, <2>1, <2>2 DEF Received, Goto
    <3> QED
      BY <3>1, <3>2
  <2>3. CASE Goto(m, "done") /\ UNCHANGED root
    BY <1>2, <1>3, <2>1, <2>3
  <2> QED
    BY <2>1, <2>2, <2>3
<1>8. CASE Continuation(m)
  <2>1. PICK c \in Chats, q \in Ids :
          /\ Stored(q) /\ Arrive(m, c, q, "continuation")
          /\ root' = [root EXCEPT ![m] = ThreadRootOf(q)]
          /\ Goto(m, IF IsAllowed(c) THEN "load" ELSE "done")
    BY <1>8, Zenon DEF Continuation
  <2>2. PICK j \in DOMAIN table : table[j].msg = q /\ table[j].root = ThreadRootOf(q)
    BY <2>1, ThreadRootFound
  <2>3. ThreadRootOf(q) \in Ids
    BY <2>2, RowType
  <2>4. PICK l \in {"load", "done"} : Goto(m, l)
    BY <2>1
  <2>5. Received(m, q, "continuation", l, ThreadRootOf(q))
    BY <1>1, <2>1, <2>2, <2>4 DEF Received, Goto
  <2> QED
    BY <2>3, <2>5
<1> QED
  BY <1>4, <1>5, <1>6, <1>7, <1>8 DEF Receive

LEMMA TypeReceive ==
  ASSUME TypeOK, NEW m \in Msgs, Receive(m)
  PROVE  TypeOK'
<1>1. PICK q \in Ids \cup {None}, handler \in {"prompt", "continuation", "other"},
           l \in {"ask", "load", "done"}, r \in Ids \cup {None} : Received(m, q, handler, l, r)
  BY ReceivedMessage
<1> QED
  BY <1>1 DEF TypeOK, Received

LEMMA SavedRow ==
  ASSUME TypeOK, Rooted, NEW m \in Msgs, NEW role \in Roles, SaveMessage(m, role),
         pc[m] \in {"saveUser", "saveAssistant"}
  PROVE  /\ <<m, role>> \in Ids
         /\ \/ /\ [msg |-> <<m, role>>, parent |-> Parent(<<m, role>>), root |-> root[m]] \in Rows
               /\ table' = Append(table, [msg |-> <<m, role>>, parent |-> Parent(<<m, role>>),
                                          root |-> root[m]])
               /\ ~Stored(<<m, role>>) /\ lost' = lost
            \/ /\ table' = table /\ lost' = lost \cup {<<m, role>>}
         /\ UNCHANGED <<message, root, history, sent>>
<1>1. <<m, role>> \in Ids
  BY IdOf
<1>2. root[m] \in Ids
  <2>1. CASE kind[m] = "prompt"
    <3>1. root[m] = <<m, "user">>
      BY <2>1 DEF Rooted
    <3> QED
      BY <3>1, IdOf DEF Roles
  <2>2. CASE kind[m] = "continuation"
    BY <2>2, RowType DEF Rooted
  <2> QED
    BY <2>1, <2>2 DEF Rooted
<1>3. Parent(<<m, role>>) \in Ids \cup {None}
  BY <1>1, ParentType
<1>4. [msg |-> <<m, role>>, parent |-> Parent(<<m, role>>), root |-> root[m]] \in Rows
  BY <1>1, <1>2, <1>3 DEF Rows
<1> QED
  BY <1>1, <1>4 DEF SaveMessage

LEMMA TypeStep ==
  ASSUME TypeOK, Rooted, NEW m \in Msgs, Step(m)
  PROVE  TypeOK'
<1>1. CASE LoadChain(m)
  <2>1. GetThreadChain(quote[m]) \in Seq(Ids)
    BY ChainType DEF TypeOK
  <2> QED
    BY <1>1, <2>1 DEF TypeOK, LoadChain, Goto
<1>2. CASE LoadFails(m) \/ ChatCompletion(m) \/ SendReply(m)
  BY <1>2 DEF TypeOK, LoadFails, ChatCompletion, SendReply, Goto
<1>3. ASSUME NEW role \in Roles, NEW l \in {"saveAssistant", "done"},
             pc[m] \in {"saveUser", "saveAssistant"}, SaveMessage(m, role), Goto(m, l)
      PROVE  TypeOK'
  <2>1. table' \in Seq(Rows) /\ lost' \subseteq Ids /\ UNCHANGED <<message, root, history, sent>>
    BY <1>3, SavedRow, Appended DEF TypeOK
  <2> QED
    BY <1>3, <2>1 DEF TypeOK, Goto
<1>4. CASE SaveUser(m) \/ SaveAssistant(m)
  BY <1>3, <1>4 DEF SaveUser, SaveAssistant, Roles
<1> QED
  BY <1>1, <1>2, <1>4 DEF Step

LEMMA TypeCrash == TypeOK /\ Crash => TypeOK'
BY DEF TypeOK, Crash, Ids, Roles
-----------------------------------------------------------------------------
(* Rows, roots and parents.                                                *)

LEMMA SoundInit == Init => Sound
BY DEF Init, Sound, Rooted, RowsLate, RootsAgree, ParentFirst, UniqueRows

\* The kind and the quote of a message with a row do not change any more.
LEMMA SoundReceive ==
  ASSUME TypeOK, Sound, NEW m \in Msgs, Receive(m)
  PROVE  Sound'
<1>1. PICK q \in Ids \cup {None}, handler \in {"prompt", "continuation", "other"},
           l \in {"ask", "load", "done"}, r \in Ids \cup {None} : Received(m, q, handler, l, r)
  BY ReceivedMessage
<1>2. /\ pc[m] = "new" /\ table' = table
      /\ \A n \in Msgs : n # m => /\ pc'[n] = pc[n] /\ root'[n] = root[n]
                                  /\ kind'[n] = kind[n] /\ quote'[n] = quote[n]
      /\ pc'[m] = l /\ root'[m] = r /\ kind'[m] = handler /\ quote'[m] = q
  BY <1>1 DEF Received, TypeOK
<1>3. \A i \in DOMAIN table : table[i].msg \in Ids /\ table[i].msg[1] \in Msgs /\ table[i].msg[1] # m
  BY <1>2, RowType, IdsOf DEF Sound, RowsLate
<1>4. Rooted'
  <2> SUFFICES ASSUME NEW n \in Msgs, pc'[n] \notin {"new", "done"}
               PROVE  /\ kind'[n] \in {"prompt", "continuation"}
                      /\ kind'[n] = "prompt" => root'[n] = <<n, "user">>
                      /\ kind'[n] = "continuation" =>
                           \E j \in DOMAIN table : table[j].msg = quote'[n] /\ table[j].root = root'[n]
    BY <1>2 DEF Rooted
  <2>1. CASE n = m
    BY <1>1, <1>2, <2>1 DEF Received
  <2>2. CASE n # m
    BY <1>2, <2>2 DEF Sound, Rooted
  <2> QED
    BY <2>1, <2>2
<1>5. RowsLate'
  BY <1>2, <1>3 DEF Sound, RowsLate, Parent
<1>6. RootsAgree'
  BY <1>2, <1>3 DEF Sound, RootsAgree
<1>7. ParentFirst' /\ UniqueRows'
  BY <1>2 DEF Sound, ParentFirst, UniqueRows
<1> QED
  BY <1>4, <1>5, <1>6, <1>7 DEF Sound

\* Steps that move the handler on and store nothing.
LEMMA SoundMove ==
  ASSUME TypeOK, Sound, NEW m \in Msgs,
         NEW l \in {"ask", "reply", "saveUser", "saveAssistant", "done"},
         pc[m] \notin {"new", "done"}, pc[m] = "saveAssistant" => l = "done",
         pc' = [pc EXCEPT ![m] = l], UNCHANGED <<table, kind, quote, root>>
  PROVE  Sound'
<1>1. pc'[m] = l /\ \A n \in Msgs : n # m => pc'[n] = pc[n]
  BY DEF TypeOK
<1>2. Rooted'
  BY <1>1 DEF Sound, Rooted
<1>3. RowsLate'
  <2> SUFFICES ASSUME NEW i \in DOMAIN table
               PROVE  LET id == table[i].msg
                      IN /\ pc'[id[1]] \in {"saveAssistant", "done"}
                         /\ id[2] = "assistant" => pc'[id[1]] = "done"
                         /\ table[i].parent = Parent(id)
                         /\ kind[id[1]] \in {"prompt", "continuation"}
    BY DEF RowsLate, Parent
  <2> DEFINE id == table[i].msg
  <2>1. id[1] \in Msgs
    BY RowType, IdsOf
  <2>2. /\ pc[id[1]] \in {"saveAssistant", "done"}
        /\ id[2] = "assistant" => pc[id[1]] = "done"
        /\ table[i].parent = Parent(id)
        /\ kind[id[1]] \in {"prompt", "continuation"}
    BY DEF Sound, RowsLate
  <2> QED
    BY <1>1, <2>1, <2>2
<1>4. RootsAgree' /\ ParentFirst' /\ UniqueRows'
  BY DEF Sound, RootsAgree, ParentFirst, UniqueRows
<1> QED
  BY <1>2, <1>3, <1>4 DEF Sound

\* A message that is being stored is the parent of no row: only its own answer,
\* stored later, and replies to a stored message can name it.
LEMMA NoOrphans ==
  ASSUME TypeOK, Sound, NEW m \in Msgs, NEW role \in Roles, NEW i \in DOMAIN table,
         pc[m] \in {"saveUser", "saveAssistant"},
         \/ role = "user" /\ pc[m] = "saveUser"
         \/ role = "assistant" /\ pc[m] = "saveAssistant"
  PROVE  table[i].parent # <<m, role>>
<1> SUFFICES ASSUME table[i].parent = <<m, role>> PROVE FALSE
  OBVIOUS
<1> DEFINE id == table[i].msg
<1>1. id \in Ids /\ id[1] \in Msgs /\ id[2] \in Roles
  BY RowType, IdsOf
<1>2. id[2] = "assistant" => pc[id[1]] = "done"
  BY DEF Sound, RowsLate
<1>3. Parent(id) = <<m, role>>
  BY DEF Sound, RowsLate
<1>4. ASSUME NEW j \in DOMAIN table, table[j].msg = <<m, role>>
      PROVE  FALSE
  BY <1>4 DEF Sound, RowsLate
<1>5. CASE id[2] = "assistant"
  BY <1>2, <1>3, <1>5 DEF Parent
<1>6. CASE id[2] # "assistant"
  <2>1. kind[id[1]] = "continuation" /\ quote[id[1]] = <<m, role>>
    BY <1>3, <1>6, NoneIsNoId, IdOf DEF Parent
  <2>2. \E j \in 1 .. i - 1 : table[j].msg = <<m, role>>
    BY <2>1 DEF Sound, RootsAgree
  <2>3. 1 .. i - 1 \subseteq DOMAIN table
    BY LenProperties DEF TypeOK
  <2> QED
    BY <1>4, <2>2, <2>3
<1> QED
  BY <1>5, <1>6
LEMMA SoundSave ==
  ASSUME TypeOK, Sound, NEW m \in Msgs, SaveUser(m) \/ SaveAssistant(m)
  PROVE  Sound'
<1>1. PICK role \in Roles, l \in {"saveAssistant", "done"} :
        /\ SaveMessage(m, role) /\ pc' = [pc EXCEPT ![m] = l]
        /\ pc[m] \in {"saveUser", "saveAssistant"}
        /\ \/ role = "user" /\ pc[m] = "saveUser" /\ l = "saveAssistant"
           \/ role = "assistant" /\ pc[m] = "saveAssistant" /\ l = "done"
  BY DEF SaveUser, SaveAssistant, Roles, Goto
<1> DEFINE id == <<m, role>>
           row == [msg |-> id, parent |-> Parent(id), root |-> root[m]]
           new == Len(table) + 1
<1>2. /\ id \in Ids
      /\ \/ row \in Rows /\ table' = Append(table, row) /\ ~Stored(id)
         \/ table' = table
      /\ UNCHANGED <<message, root, history, sent>>
  BY <1>1, SavedRow DEF Sound
<1>3. CASE table' = table
  BY <1>1, <1>2, <1>3, SoundMove
<1>4. CASE row \in Rows /\ table' = Append(table, row) /\ ~Stored(id)
  <2>1. /\ DOMAIN table = 1 .. Len(table) /\ Len(table) \in Nat
        /\ DOMAIN table' = 1 .. new
        /\ \A i \in DOMAIN table : i \in DOMAIN table' /\ table'[i] = table[i]
        /\ table'[new] = row
    BY <1>4, Appended
  <2>2. pc'[m] = l /\ \A n \in Msgs : n # m => pc'[n] = pc[n]
    BY <1>1 DEF TypeOK
  <2>3. \A i \in DOMAIN table : table[i].msg[1] \in Msgs
    BY RowType, IdsOf
  <2>4. \A i \in DOMAIN table' : i \in DOMAIN table \/ i = new
    BY <2>1
  <2>5. /\ kind[m] \in {"prompt", "continuation"}
        /\ kind[m] = "prompt" => root[m] = <<m, "user">>
        /\ kind[m] = "continuation" =>
             \E j \in DOMAIN table : table[j].msg = quote[m] /\ table[j].root = root[m]
    BY <1>1 DEF Sound, Rooted
  <2>6. Rooted'
    <3> SUFFICES ASSUME NEW n \in Msgs, pc'[n] \notin {"new", "done"}
                 PROVE  /\ kind[n] \in {"prompt", "continuation"}
                        /\ kind[n] = "prompt" => root[n] = <<n, "user">>
                        /\ kind[n] = "continuation" =>
                             \E j \in DOMAIN table' : /\ table'[j].msg = quote[n]
                                                      /\ table'[j].root = root[n]
      BY <1>2 DEF Rooted
    <3>1. pc[n] \notin {"new", "done"}
      BY <1>1, <2>2
    <3>2. /\ kind[n] \in {"prompt", "continuation"}
          /\ kind[n] = "prompt" => root[n] = <<n, "user">>
          /\ kind[n] = "continuation" =>
               \E j \in DOMAIN table : table[j].msg = quote[n] /\ table[j].root = root[n]
      BY <3>1 DEF Sound, Rooted
    <3> QED
      BY <2>1, <3>2
  <2>7. RowsLate'
    <3>1. kind' = kind /\ quote' = quote
      BY <1>2
    <3> SUFFICES ASSUME NEW i \in DOMAIN table'
                 PROVE  LET r == table'[i]
                        IN /\ pc'[r.msg[1]] \in {"saveAssistant", "done"}
                           /\ r.msg[2] = "assistant" => pc'[r.msg[1]] = "done"
                           /\ r.parent = Parent(r.msg)
                           /\ kind[r.msg[1]] \in {"prompt", "continuation"}
      BY <3>1 DEF RowsLate, Parent
    <3>2. CASE i = new
      BY <1>1, <2>1, <2>2, <2>5, <3>2
    <3>3. CASE i \in DOMAIN table
      <4>1. /\ pc[table[i].msg[1]] \in {"saveAssistant", "done"}
            /\ table[i].msg[2] = "assistant" => pc[table[i].msg[1]] = "done"
            /\ table[i].parent = Parent(table[i].msg)
            /\ kind[table[i].msg[1]] \in {"prompt", "continuation"}
        BY <3>3 DEF Sound, RowsLate
      <4> QED
        BY <1>1, <2>1, <2>2, <2>3, <3>3, <4>1
    <3> QED
      BY <2>4, <3>2, <3>3
  <2>8. RootsAgree'
    <3> SUFFICES ASSUME NEW i \in DOMAIN table'
                 PROVE  LET n == table'[i].msg[1]
                        IN IF kind[n] = "prompt" THEN table'[i].root = <<n, "user">>
                           ELSE \E j \in 1 .. i - 1 : /\ table'[j].msg = quote[n]
                                                      /\ table'[j].root = table'[i].root
      BY <1>2 DEF RootsAgree
    <3>1. CASE i = new
      <4>1. DOMAIN table = 1 .. i - 1
        BY <2>1, <3>1
      <4> QED
        BY <2>1, <2>5, <3>1, <4>1
    <3>2. CASE i \in DOMAIN table
      <4>1. \A j \in 1 .. i - 1 : table'[j] = table[j]
        BY <2>1, <3>2
      <4>2. LET n == table[i].msg[1]
            IN IF kind[n] = "prompt" THEN table[i].root = <<n, "user">>
               ELSE \E j \in 1 .. i - 1 : table[j].msg = quote[n] /\ table[j].root = table[i].root
        BY <3>2 DEF Sound, RootsAgree
      <4>3. table'[i] = table[i]
        BY <2>1, <3>2
      <4> QED
        BY <4>1, <4>2, <4>3
    <3> QED
      BY <2>4, <3>1, <3>2
  <2>9. ParentFirst'
    <3> SUFFICES ASSUME NEW i \in DOMAIN table', NEW j \in DOMAIN table',
                        table'[i].parent = table'[j].msg
                 PROVE  j < i
      BY DEF ParentFirst
    <3>1. CASE j \in DOMAIN table /\ i = new
      BY <2>1, <3>1
    <3>2. CASE j \in DOMAIN table /\ i \in DOMAIN table
      BY <2>1, <3>2 DEF Sound, ParentFirst
    <3>3. CASE j = new /\ i \in DOMAIN table
      BY <1>1, <2>1, <3>3, NoOrphans
    <3>4. CASE j = new /\ i = new
      <4>1. Parent(id) = id
        BY <2>1, <3>4
      <4>2. role = "user" /\ kind[m] = "continuation" /\ quote[m] = id
        BY <1>2, <4>1, NoneIsNoId DEF Parent, Roles
      <4>3. PICK k \in DOMAIN table : table[k].msg = id
        BY <2>5, <4>2
      <4>4. pc[m] \in {"saveAssistant", "done"}
        BY <4>3 DEF Sound, RowsLate
      <4> QED
        BY <1>1, <4>2, <4>4
    <3> QED
      BY <2>4, <3>1, <3>2, <3>3, <3>4
  <2>10. UniqueRows'
    <3>1. \A i \in DOMAIN table : table[i].msg # id
      BY <1>4 DEF Stored
    <3>2. table'[new].msg = id
      BY <2>1
    <3> QED
      BY <2>1, <2>4, <3>1, <3>2 DEF Sound, UniqueRows
  <2> QED
    BY <2>6, <2>7, <2>8, <2>9, <2>10 DEF Sound
<1> QED
  BY <1>2, <1>3, <1>4

LEMMA SoundStep ==
  ASSUME TypeOK, Sound, NEW m \in Msgs, Step(m)
  PROVE  Sound'
<1>1. CASE LoadChain(m) \/ LoadFails(m)
  <2>1. PICK l \in {"ask", "done"} : pc' = [pc EXCEPT ![m] = l] /\ pc[m] = "load"
    BY <1>1 DEF LoadChain, LoadFails, Goto
  <2> QED
    BY <1>1, <2>1, SoundMove DEF LoadChain, LoadFails
<1>2. CASE ChatCompletion(m)
  <2>1. PICK l \in {"reply", "done"} : pc' = [pc EXCEPT ![m] = l] /\ pc[m] = "ask"
    BY <1>2 DEF ChatCompletion, Goto
  <2> QED
    BY <1>2, <2>1, SoundMove DEF ChatCompletion
<1>3. CASE SendReply(m)
  <2>1. PICK l \in {"saveUser", "done"} : pc' = [pc EXCEPT ![m] = l] /\ pc[m] = "reply"
    BY <1>3 DEF SendReply, Goto
  <2> QED
    BY <1>3, <2>1, SoundMove DEF SendReply
<1> QED
  BY <1>1, <1>2, <1>3, SoundSave DEF Step

LEMMA SoundCrash == TypeOK /\ Sound /\ Crash => Sound'
<1> SUFFICES ASSUME TypeOK, Sound, Crash PROVE Sound'
  OBVIOUS
<1>1. /\ \A m \in Msgs : pc'[m] = IF pc[m] = "new" THEN "new" ELSE "done"
      /\ UNCHANGED <<table, message, root, history, sent>>
  BY DEF Crash
<1>2. \A i \in DOMAIN table : table[i].msg[1] \in Msgs
  BY RowType, IdsOf
<1>3. Rooted'
  BY <1>1 DEF Rooted
<1>4. RowsLate'
  BY <1>1, <1>2 DEF Sound, RowsLate, Parent
<1>5. RootsAgree' /\ ParentFirst' /\ UniqueRows'
  BY <1>1 DEF Sound, RootsAgree, ParentFirst, UniqueRows
<1> QED
  BY <1>3, <1>4, <1>5 DEF Sound

LEMMA Invariance == Spec => []IInv
<1>1. Init => IInv
  BY TypeInit, SoundInit DEF IInv
<1>2. IInv /\ UNCHANGED vars => IInv'
  BY DEF IInv, TypeOK, Sound, Rooted, RowsLate, RootsAgree, ParentFirst, UniqueRows,
         Parent, vars
<1>3. IInv /\ Next => IInv'
  BY TypeReceive, TypeStep, TypeCrash, SoundReceive, SoundStep, SoundCrash
  DEF IInv, Sound, Next
<1>4. IInv /\ [Next]_vars => IInv'
  BY <1>2, <1>3
<1> QED
  BY <1>1, <1>4, PTL DEF Spec

\* Every reachable state has its types (TypeOK); the rows in particular, whose
\* root is never NULL.
THEOREM TypeCorrect == Spec => []TypeOK
<1>1. IInv => TypeOK
  BY DEF IInv
<1> QED
  BY Invariance, <1>1, PTL

\* All rows of a conversation carry its /prompt as their root (RootsAgree).
THEOREM OneRoot == Spec => []RootsAgree
<1>1. IInv => RootsAgree
  BY DEF IInv, Sound
<1> QED
  BY Invariance, <1>1, PTL

\* A row is younger than its parent (ParentFirst): the recursive query ends,
\* and sorting by id sorts along the replies.
THEOREM ParentsFirst == Spec => []ParentFirst
<1>1. IInv => ParentFirst
  BY DEF IInv, Sound
<1> QED
  BY Invariance, <1>1, PTL

-----------------------------------------------------------------------------
(* Responses.                                                              *)

Kept == SentLate /\ ResponseIsStored

LEMMA KeptInit == Init => Kept
BY DEF Init, Kept, SentLate, ResponseIsStored

LEMMA KeptReceive ==
  ASSUME TypeOK, Kept, NEW m \in Msgs, Receive(m)
  PROVE  Kept'
<1>1. PICK q \in Ids \cup {None}, handler \in {"prompt", "continuation", "other"},
           l \in {"ask", "load", "done"}, r \in Ids \cup {None} : Received(m, q, handler, l, r)
  BY ReceivedMessage
<1>2. /\ pc[m] = "new" /\ UNCHANGED <<table, sent, lost>>
      /\ \A n \in Msgs : n # m => pc'[n] = pc[n]
  BY <1>1 DEF Received, TypeOK
<1>3. m \notin sent /\ sent \subseteq Msgs
  BY <1>2 DEF TypeOK, Kept, SentLate
<1> QED
  BY <1>2, <1>3 DEF Kept, SentLate, ResponseIsStored, Stored

LEMMA KeptStep ==
  ASSUME TypeOK, Rooted, Kept, NEW m \in Msgs, Step(m)
  PROVE  Kept'
<1> USE DEF Kept, SentLate, ResponseIsStored, Goto
<1>1. CASE LoadChain(m) \/ LoadFails(m) \/ ChatCompletion(m)
  BY <1>1 DEF TypeOK, LoadChain, LoadFails, ChatCompletion, Stored
<1>2. CASE SendReply(m)
  BY <1>2 DEF TypeOK, SendReply, Stored
<1>3. ASSUME NEW role \in Roles, SaveMessage(m, role), pc[m] \in {"saveUser", "saveAssistant"}
      PROVE  /\ \A id \in Ids : Stored(id) => Stored(id)'
             /\ lost \subseteq lost' /\ sent' = sent
             /\ Stored(<<m, role>>)' \/ <<m, role>> \in lost'
  <2> DEFINE row == [msg |-> <<m, role>>, parent |-> Parent(<<m, role>>), root |-> root[m]]
  <2>1. \/ row \in Rows /\ table' = Append(table, row) /\ lost' = lost
        \/ table' = table /\ lost' = lost \cup {<<m, role>>}
    BY <1>3, SavedRow
  <2>2. sent' = sent
    BY <1>3, SavedRow
  <2>3. CASE table' = table /\ lost' = lost \cup {<<m, role>>}
    BY <2>2, <2>3 DEF Stored
  <2>4. CASE row \in Rows /\ table' = Append(table, row) /\ lost' = lost
    <3>1. row.msg = <<m, role>>
      OBVIOUS
    <3> HIDE DEF row
    <3>2. /\ \A i \in DOMAIN table : i \in DOMAIN table' /\ table'[i] = table[i]
          /\ Len(table) + 1 \in DOMAIN table' /\ table'[Len(table) + 1] = row
      BY <2>4, Appended
    <3> QED
      BY <2>2, <2>4, <3>1, <3>2 DEF Stored
  <2> QED
    BY <2>1, <2>3, <2>4
<1>4. \A n \in sent : <<n, "assistant">> \in Ids
  BY IdOf DEF TypeOK, Roles
<1>5. CASE SaveUser(m)
  <2>1. pc' = [pc EXCEPT ![m] = "saveAssistant"]
    BY <1>5 DEF SaveUser
  <2>2. /\ \A id \in Ids : Stored(id) => Stored(id)'
        /\ lost \subseteq lost' /\ sent' = sent
    BY <1>3, <1>5 DEF SaveUser, Roles
  <2> QED
    BY <1>4, <2>1, <2>2 DEF TypeOK
<1>6. CASE SaveAssistant(m)
  <2>1. pc' = [pc EXCEPT ![m] = "done"]
    BY <1>6 DEF SaveAssistant
  <2>2. /\ \A id \in Ids : Stored(id) => Stored(id)'
        /\ lost \subseteq lost' /\ sent' = sent
        /\ Stored(<<m, "assistant">>)' \/ <<m, "assistant">> \in lost'
    BY <1>3, <1>6 DEF SaveAssistant, Roles
  <2> QED
    BY <1>4, <2>1, <2>2 DEF TypeOK
<1> QED
  BY <1>1, <1>2, <1>5, <1>6 DEF Step

LEMMA KeptCrash == TypeOK /\ Kept /\ Crash => Kept'
BY DEF TypeOK, Kept, SentLate, ResponseIsStored, Crash, Stored

LEMMA KeptNext == IInv /\ Kept /\ [Next]_vars => Kept'
<1>1. Kept /\ UNCHANGED vars => Kept'
  BY DEF Kept, SentLate, ResponseIsStored, Stored, vars
<1> QED
  BY <1>1, KeptReceive, KeptStep, KeptCrash DEF IInv, Sound, Next

\* A response whose handler has ended can be replied to, unless the insert of
\* its own row failed (ResponseIsStored).
THEOREM ResponsesStored == Spec => []ResponseIsStored
<1>1. Spec => []Kept
  BY Invariance, KeptInit, KeptNext, PTL DEF Spec
<1>2. Kept => ResponseIsStored
  BY DEF Kept
<1> QED
  BY <1>1, <1>2, PTL

-----------------------------------------------------------------------------
(* The history.                                                            *)

\* A step leaves the rows that are there as they are, and what their messages
\* reply to; a row that it adds is not that of a parent some row has missed.
RowsKept ==
  /\ \A i \in DOMAIN table :
       LET m == table[i].msg[1]
       IN i \in DOMAIN table' /\ table'[i] = table[i] /\ kind'[m] = kind[m] /\ quote'[m] = quote[m]
  /\ \A i \in DOMAIN table, j \in DOMAIN table' \ DOMAIN table : table[i].parent # table'[j].msg

LEMMA RowsKeptNext ==
  ASSUME IInv, [Next]_vars
  PROVE  RowsKept
<1>1. ASSUME table' = table, UNCHANGED <<kind, quote>>
      PROVE  RowsKept
  BY <1>1 DEF RowsKept
<1>2. ASSUME NEW m \in Msgs, Receive(m) PROVE RowsKept
  <2>1. PICK q \in Ids \cup {None}, handler \in {"prompt", "continuation", "other"},
             l \in {"ask", "load", "done"}, r \in Ids \cup {None} : Received(m, q, handler, l, r)
    BY <1>2, ReceivedMessage DEF IInv
  <2>2. /\ pc[m] = "new" /\ table' = table
        /\ \A n \in Msgs : n # m => kind'[n] = kind[n] /\ quote'[n] = quote[n]
    BY <2>1 DEF Received, TypeOK, IInv
  <2>3. \A i \in DOMAIN table : table[i].msg[1] \in Msgs /\ table[i].msg[1] # m
    BY <2>2, RowType, IdsOf DEF IInv, Sound, RowsLate
  <2> QED
    BY <2>2, <2>3 DEF RowsKept
<1>3. ASSUME NEW m \in Msgs, SaveUser(m) \/ SaveAssistant(m) PROVE RowsKept
  <2>1. PICK role \in Roles :
          /\ SaveMessage(m, role)
          /\ \/ role = "user" /\ pc[m] = "saveUser"
             \/ role = "assistant" /\ pc[m] = "saveAssistant"
    BY <1>3 DEF SaveUser, SaveAssistant, Roles
  <2> DEFINE row == [msg |-> <<m, role>>, parent |-> Parent(<<m, role>>), root |-> root[m]]
  <2>2. /\ \/ row \in Rows /\ table' = Append(table, row)
           \/ table' = table
        /\ UNCHANGED <<kind, quote>>
    BY <2>1, SavedRow DEF IInv, Sound
  <2>3. CASE row \in Rows /\ table' = Append(table, row)
    <3>1. row.msg = <<m, role>>
      OBVIOUS
    <3> HIDE DEF row
    <3>2. /\ \A i \in DOMAIN table : i \in DOMAIN table' /\ table'[i] = table[i]
          /\ \A j \in DOMAIN table' \ DOMAIN table : table'[j] = row
      BY <2>3, Appended DEF IInv
    <3>3. \A i \in DOMAIN table : table[i].parent # <<m, role>>
      BY <2>1, NoOrphans DEF IInv
    <3> QED
      BY <2>2, <3>1, <3>2, <3>3 DEF RowsKept
  <2> QED
    BY <1>1, <2>2, <2>3
<1>4. ASSUME NEW m \in Msgs, Step(m) PROVE RowsKept
  BY <1>1, <1>3, <1>4 DEF Step, LoadChain, LoadFails, ChatCompletion, SendReply
<1> QED
  BY <1>1, <1>2, <1>4 DEF Next, Crash, vars

LEMMA PathKept ==
  ASSUME IInv, RowsKept, NEW path \in Seq(Ids), NEW q, IsPathTo(path, q)
  PROVE  IsPathTo(path, q)'
<1>1. ASSUME NEW id \in Ids, Stored(id)
      PROVE  /\ Stored(id)' /\ Parent(id)' = Parent(id)
             /\ ~Stored(Parent(id)) => ~Stored(Parent(id))'
  <2>1. PICK i \in DOMAIN table : table[i].msg = id
    BY <1>1 DEF Stored
  <2>2. Stored(id)' /\ Parent(id)' = Parent(id)
    BY <2>1 DEF RowsKept, Stored, Parent
  <2>3. table[i].parent = Parent(id)
    BY <2>1 DEF IInv, Sound, RowsLate
  <2>4. PICK p : p = Parent(id)
    OBVIOUS
  <2>5. ~Stored(p) => ~Stored(p)'
    BY <2>3, <2>4 DEF RowsKept, Stored
  <2>6. Stored(Parent(id))' <=> Stored(p)'
    BY <2>2, <2>4 DEF Stored
  <2> QED
    BY <2>2, <2>4, <2>5, <2>6
<1>2. DOMAIN path = 1 .. Len(path) /\ Len(path) \in Nat /\ \A i \in DOMAIN path : path[i] \in Ids
  BY LenProperties
<1>3. \A i \in DOMAIN path :
        Stored(path[i])' /\ path[i] = IF i = Len(path) THEN q ELSE Parent(path[i + 1])'
  <2> TAKE i \in DOMAIN path
  <2>1. Stored(path[i]) /\ path[i] = IF i = Len(path) THEN q ELSE Parent(path[i + 1])
    BY DEF IsPathTo
  <2>2. i # Len(path) => i + 1 \in DOMAIN path
    BY <1>2
  <2>3. i # Len(path) => Stored(path[i + 1]) /\ path[i + 1] \in Ids
    BY <1>2, <2>2 DEF IsPathTo
  <2> QED
    BY <1>1, <1>2, <2>1, <2>3
<1>4. path # << >> /\ ~Stored(Parent(path[1])) => ~Stored(Parent(path[1]))'
  <2> SUFFICES ASSUME path # << >> PROVE ~Stored(Parent(path[1])) => ~Stored(Parent(path[1]))'
    OBVIOUS
  <2>1. 1 \in DOMAIN path
    BY <1>2
  <2>2. Stored(path[1]) /\ path[1] \in Ids
    BY <1>2, <2>1 DEF IsPathTo
  <2> QED
    BY <1>1, <2>2
<1> QED
  BY <1>3, <1>4 DEF IsPathTo

Loaded ==
  /\ HistoryIsThePath
  /\ \A m \in Msgs : pc[m] = "new" => history[m] = << >>

LEMMA LoadedInit == Init => Loaded
BY DEF Init, Loaded, HistoryIsThePath

\* The history of a message n that was loaded before.
LEMMA LoadedBefore ==
  ASSUME IInv, [Next]_vars, Loaded, NEW n \in Msgs,
         kind[n] = "continuation", history[n] # << >> \/ pc[n] \in Answering,
         history'[n] = history[n], quote'[n] = quote[n]
  PROVE  IsPathTo(history[n], quote[n])'
<1>1. PICK path, q : path = history[n] /\ q = quote[n]
  OBVIOUS
<1>2. path \in Seq(Ids) /\ IsPathTo(path, q)
  BY <1>1 DEF IInv, TypeOK, Loaded, HistoryIsThePath
<1>3. IsPathTo(path, q)'
  BY <1>2, RowsKeptNext, PathKept
<1> QED
  BY <1>1, <1>3 DEF IsPathTo

LEMMA LoadedNext == IInv /\ Loaded /\ [Next]_vars => Loaded'
<1> SUFFICES ASSUME IInv, Loaded, [Next]_vars PROVE Loaded'
  OBVIOUS
<1> DEFINE Ready(n) == kind[n] = "continuation" /\ (history[n] # << >> \/ pc[n] \in Answering)
           Good(n) == /\ Ready(n) => IsPathTo(history[n], quote[n])
                      /\ pc[n] = "new" => history[n] = << >>
<1>1. ASSUME NEW n \in Msgs, history'[n] = history[n], quote'[n] = quote[n], kind'[n] = kind[n],
             pc'[n] \in Answering => pc[n] \in Answering, pc'[n] = "new" => pc[n] = "new"
      PROVE  Good(n)'
  <2>1. Ready(n)' => IsPathTo(history[n], quote[n])'
    BY <1>1, LoadedBefore
  <2> QED
    BY <1>1, <2>1 DEF Loaded
<1>2. ASSUME NEW m \in Msgs, Receive(m), NEW n \in Msgs PROVE Good(n)'
  <2>1. PICK q \in Ids \cup {None}, handler \in {"prompt", "continuation", "other"},
             l \in {"ask", "load", "done"}, r \in Ids \cup {None} : Received(m, q, handler, l, r)
    BY <1>2, ReceivedMessage DEF IInv
  <2>2. /\ pc[m] = "new" /\ history' = history
        /\ \A o \in Msgs : o # m => kind'[o] = kind[o] /\ quote'[o] = quote[o] /\ pc'[o] = pc[o]
        /\ pc'[m] = l /\ kind'[m] = handler /\ (l = "ask" => handler = "prompt")
    BY <2>1 DEF Received, TypeOK, IInv
  <2>3. CASE n = m
    <3>1. history'[n] = << >> /\ ~Ready(n)'
      BY <2>2, <2>3 DEF Loaded, Answering
    <3> QED
      BY <3>1
  <2>4. CASE n # m
    BY <1>1, <2>2, <2>4
  <2> QED
    BY <2>3, <2>4
<1>3. ASSUME NEW m \in Msgs, LoadChain(m), NEW n \in Msgs PROVE Good(n)'
  <2>1. /\ history'[m] = GetThreadChain(quote[m]) /\ pc[m] = "load" /\ pc'[m] = "ask"
        /\ \A o \in Msgs : o # m => history'[o] = history[o] /\ pc'[o] = pc[o]
        /\ UNCHANGED <<table, kind, quote>>
    BY <1>3 DEF LoadChain, Goto, IInv, TypeOK
  <2>2. CASE n = m
    <3> SUFFICES ASSUME kind[m] = "continuation"
                 PROVE  IsPathTo(history[m], quote[m])'
      BY <2>1, <2>2
    <3>1. Ordered
      BY LenProperties DEF Ordered, IInv, TypeOK, Sound, RowsLate, RowsNameParents
    <3>2. Stored(quote[m]) /\ quote[m] \in Ids
      BY <2>1, RowType DEF IInv, Sound, Rooted, Stored
    <3>3. PICK path, q : path = GetThreadChain(quote[m]) /\ q = quote[m]
      OBVIOUS
    <3>4. IsPathTo(path, q)
      BY <3>1, <3>2, <3>3, ThreadChain
    <3>5. IsPathTo(path, q)'
      BY <2>1, <3>4 DEF IsPathTo, Stored, Parent
    <3> QED
      BY <2>1, <3>3, <3>5 DEF IsPathTo
  <2>3. CASE n # m
    BY <1>1, <2>1, <2>3
  <2> QED
    BY <2>2, <2>3
<1>4. ASSUME NEW m \in Msgs, Step(m), ~LoadChain(m), NEW n \in Msgs PROVE Good(n)'
  <2>1. /\ UNCHANGED <<history, kind, quote>> /\ pc[m] \notin {"new", "done"}
        /\ \E l \in {"reply", "saveUser", "saveAssistant", "done"} : pc' = [pc EXCEPT ![m] = l]
        /\ pc[m] = "load" => pc' = [pc EXCEPT ![m] = "done"]
    BY <1>4 DEF Step, LoadFails, ChatCompletion, SendReply, SaveUser, SaveAssistant, SaveMessage, Goto
  <2>2. /\ pc'[n] \in Answering => pc[n] \in Answering
        /\ pc'[n] = "new" => pc[n] = "new"
    BY <2>1 DEF IInv, TypeOK, Answering
  <2> QED
    BY <1>1, <2>1, <2>2
<1>5. ASSUME NEW n \in Msgs, Crash PROVE Good(n)'
  BY <1>1, <1>5 DEF Crash, Answering
<1>6. ASSUME NEW n \in Msgs, UNCHANGED vars PROVE Good(n)'
  BY <1>1, <1>6 DEF vars
<1>7. \A n \in Msgs : Good(n)'
  BY <1>2, <1>3, <1>4, <1>5, <1>6 DEF Next
<1> QED
  BY <1>7 DEF Loaded, HistoryIsThePath

\* What a continuation sends to the AI service is the path of replies above it
\* (HistoryIsThePath), whatever is stored at the same time.
THEOREM HistoriesArePaths == Spec => []HistoryIsThePath
<1>1. Spec => []Loaded
  BY Invariance, LoadedInit, LoadedNext, PTL DEF Spec
<1>2. Loaded => HistoryIsThePath
  BY DEF Loaded
<1> QED
  BY <1>1, <1>2, PTL
=============================================================================

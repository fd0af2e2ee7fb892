-------------------------- MODULE FilterStoreProofs --------------------------
(***************************************************************************)
(* For any number of handlers, chats, texts and media, and any faults: the *)
(* type invariant of FilterStore, the consistency of its tables under      *)
(* concurrent commands, failures and restarts, what becomes of the media   *)
(* files, and the refinement of FilterBook.                                *)
(*                                                                         *)
(* Consistent is inductive relative to TypeOK.  skipped never becomes      *)
(* FALSE again, so a step into a state where the tables have to be         *)
(* consistent starts from one where they are: that is Tables => Tables'.   *)
(***************************************************************************)
EXTENDS FilterStore, FiniteSetTheorems, TLAPS

\* What Consistent says of the tables.
Tables == NoStrayRows /\ UniqueTriggers /\ EveryFilterHasTrigger /\ OneResponse

-----------------------------------------------------------------------------
(* The type invariant.                                                     *)

LEMMA TypeOfType == \A r \in Replies : TypeOf(r) \in {"text", "reaction", "media"}
BY PlainAssumption, MediaAssumption DEF TypeOf, Replies

\* A handler inside a transaction holds a connection.
Connected == \A h \in Handlers : pc[h] = "tx" => conn[h] # "none"

Typed == TypeOK /\ Connected

LEMMA CleanUpType ==
  ASSUME TypeOK, NEW h \in Handlers, NEW D \in SUBSET Media, CleanUp(h, D)
  PROVE  /\ doomed' \in [Handlers -> SUBSET Media]
         /\ pc' \in [Handlers -> {"idle", "save", "begin", "tx", "cleanup"}]
         /\ cmd' \in [Handlers -> Commands \cup {NoCommand}]
         /\ \A g \in Handlers : pc'[g] = "tx" => g # h /\ pc[g] = "tx"
BY DEF TypeOK, CleanUp

LEMMA ReleaseType ==
  ASSUME Typed, NEW h \in Handlers, pc[h] = "tx", Release(h)
  PROVE  /\ conn' \in [Handlers -> {"none", "on", "off"}]
         /\ \A g \in Handlers \ {h} : conn'[g] = conn[g]
         /\ idle' \in Seq({"on", "off"})
BY DEF Typed, Connected, TypeOK, Release

LEMMA CreateType ==
  ASSUME TypeOK, NEW h \in Handlers, cmd[h].op = "create"
  PROVE  /\ cmd[h] \in CreateCommands
         /\ cmd[h].chat \in Chats /\ cmd[h].texts \in SUBSET Texts
         /\ cmd[h].texts # {} /\ cmd[h].reply \in Replies
<1>1. cmd[h] \in Commands \cup {NoCommand}
  BY DEF TypeOK
<1>2. cmd[h] \in CreateCommands
  BY <1>1 DEF Commands, StopCommands, StopAllCommands, Query, NoCommand
<1> QED
  BY <1>2 DEF CreateCommands

LEMMA SavingIsMedia ==
  ASSUME TypeOK, NEW h \in Handlers, NEW f \in {"absent", "partial", "whole"},
         files' = [files EXCEPT ![cmd[h].reply] = f]
  PROVE  files' \in [Media -> {"absent", "partial", "whole"}]
BY DEF TypeOK

LEMMA DeleteType ==
  ASSUME TypeOK, NEW h \in Handlers, NEW D \in SUBSET Live, NEW left \in SUBSET triggers,
         DeleteFilters(h, D, left)
  PROVE  /\ Live' \subseteq Ids
         /\ filters' \in [Live' -> [chat : Chats, type : {"text", "reaction", "media"}]]
         /\ triggers' \subseteq Ids \X Texts
         /\ responses' \subseteq Ids \X Replies
         /\ skipped' \in BOOLEAN
<1>1. Live' = Live \ D
  BY DEF DeleteFilters, Live
<1>2. \A i \in Live \ D : filters'[i] = filters[i]
  BY DEF DeleteFilters
<1>3. filters' \in [Live' -> [chat : Chats, type : {"text", "reaction", "media"}]]
  BY <1>1, <1>2 DEF TypeOK, DeleteFilters
<1>4. /\ triggers' \subseteq triggers
      /\ responses' \subseteq responses
  BY DEF DeleteFilters
<1>5. skipped' \in BOOLEAN
  BY Zenon DEF DeleteFilters, TypeOK
<1> QED
  BY <1>1, <1>3, <1>4, <1>5 DEF TypeOK

LEMMA InsertType ==
  ASSUME TypeOK, NEW h \in Handlers, InsertRows(h)
  PROVE  /\ Live' \subseteq Ids
         /\ filters' \in [Live' -> [chat : Chats, type : {"text", "reaction", "media"}]]
         /\ triggers' \subseteq Ids \X Texts
         /\ responses' \subseteq Ids \X Replies
<1>1. /\ cmd[h].chat \in Chats /\ cmd[h].texts \in SUBSET Texts /\ cmd[h].reply \in Replies
  BY CreateType DEF InsertRows
<1>2. PICK i \in Ids :
        /\ filters' = [k \in Live \cup {i} |->
                          IF k = i THEN [chat |-> cmd[h].chat,
                                         type |-> TypeOf(cmd[h].reply)]
                                   ELSE filters[k]]
        /\ triggers' = triggers \cup ({i} \X cmd[h].texts)
        /\ responses' = responses \cup {<<i, cmd[h].reply>>}
  BY DEF InsertRows
<1>3. Live' = Live \cup {i}
  BY <1>2 DEF Live
<1>4. [chat |-> cmd[h].chat, type |-> TypeOf(cmd[h].reply)]
        \in [chat : Chats, type : {"text", "reaction", "media"}]
  BY <1>1, TypeOfType
<1>5. filters' \in [Live' -> [chat : Chats, type : {"text", "reaction", "media"}]]
  BY <1>2, <1>3, <1>4 DEF TypeOK
<1> QED
  BY <1>1, <1>2, <1>3, <1>5 DEF TypeOK

LEMMA TypedInit == Init => Typed
<1> SUFFICES ASSUME Init PROVE Typed
  OBVIOUS
<1>1. Live = {}
  BY DEF Init, Live
<1>2. filters \in [Live -> [chat : Chats, type : {"text", "reaction", "media"}]]
  BY <1>1 DEF Init
<1>3. idle \in Seq({"on", "off"})
  BY DEF Init
<1> QED
  BY <1>1, <1>2, <1>3 DEF Init, Typed, TypeOK, Connected

\* A transaction ends: its handler holds no connection and is outside "tx".
LEMMA EndTx ==
  ASSUME Typed, NEW h \in Handlers, NEW D \in SUBSET Media, pc[h] = "tx",
         Release(h), CleanUp(h, D),
         /\ Live' \subseteq Ids
         /\ filters' \in [Live' -> [chat : Chats, type : {"text", "reaction", "media"}]]
         /\ triggers' \subseteq Ids \X Texts
         /\ responses' \subseteq Ids \X Replies
         /\ skipped' \in BOOLEAN,
         UNCHANGED files
  PROVE  Typed'
<1>1. files' \in [Media -> {"absent", "partial", "whole"}]
  BY DEF Typed, TypeOK
<1>2. Connected'
  BY CleanUpType, ReleaseType DEF Typed, Connected
<1>3. TypeOK'
  BY CleanUpType, ReleaseType, <1>1 DEF Typed, TypeOK
<1> QED
  BY <1>2, <1>3 DEF Typed

\* A step that touches neither the tables nor the pool.
LEMMA OtherStep ==
  ASSUME Typed, NEW h \in Handlers, UNCHANGED <<tables, idle, conn, skipped>>,
         files' \in [Media -> {"absent", "partial", "whole"}],
         pc' \in [Handlers -> {"idle", "save", "begin", "tx", "cleanup"}],
         cmd' \in [Handlers -> Commands \cup {NoCommand}],
         doomed' \in [Handlers -> SUBSET Media],
         \A g \in Handlers : pc'[g] = "tx" => pc[g] = "tx"
  PROVE  Typed'
<1>1. TypeOK'
  BY DEF Typed, TypeOK, tables, Live
<1>2. Connected'
  BY DEF Typed, Connected
<1> QED
  BY <1>1, <1>2 DEF Typed

LEMMA TypedStep ==
  ASSUME Typed, NEW h \in Handlers, Step(h)
  PROVE  Typed'
<1> USE DEF Typed
<1>1. CASE Receive(h)
  <2>1. PICK k \in Commands :
          /\ cmd' = [cmd EXCEPT ![h] = k]
          /\ pc' = [pc EXCEPT ![h] = IF k.op = "create" /\ k.reply \in Media
                                     THEN "save" ELSE "begin"]
    BY <1>1 DEF Receive
  <2> QED
    BY <1>1, <2>1, OtherStep DEF Receive, TypeOK
<1>2. CASE SaveMedia(h)
  BY <1>2, OtherStep, SavingIsMedia DEF SaveMedia, TypeOK
<1>3. CASE SaveFails(h)
  <2>1. PICK f \in {files[cmd[h].reply], "partial"} :
          files' = [files EXCEPT ![cmd[h].reply] = f]
    BY <1>3 DEF SaveFails
  <2>2. files' \in [Media -> {"absent", "partial", "whole"}]
    BY <2>1 DEF TypeOK
  <2> QED
    BY <1>3, <2>2, OtherStep, CleanUpType DEF SaveFails
<1>4. CASE DeleteMedia(h)
  <2>1. PICK m \in doomed[h] :
          files' = [files EXCEPT ![m] = "absent"] /\ CleanUp(h, doomed[h] \ {m})
    BY <1>4 DEF DeleteMedia
  <2>2. doomed[h] \ {m} \in SUBSET Media
    BY DEF TypeOK
  <2>3. files' \in [Media -> {"absent", "partial", "whole"}]
    BY <2>1 DEF TypeOK
  <2> QED
    BY <1>4, <2>1, <2>2, <2>3, OtherStep, CleanUpType DEF DeleteMedia
<1>5. CASE DeleteFails(h)
  <2>1. PICK m \in doomed[h] : CleanUp(h, doomed[h] \ {m})
    BY <1>5 DEF DeleteFails
  <2>2. doomed[h] \ {m} \in SUBSET Media
    BY DEF TypeOK
  <2>3. files' \in [Media -> {"absent", "partial", "whole"}]
    BY <1>5 DEF DeleteFails, TypeOK
  <2> QED
    BY <1>5, <2>1, <2>2, <2>3, OtherStep, CleanUpType DEF DeleteFails
<1>6. CASE Begin(h)
  <2>1. conn' \in [Handlers -> {"none", "on", "off"}] /\ conn'[h] # "none"
    <3>1. idle # << >> => idle[Len(idle)] \in {"on", "off"}
      BY DEF TypeOK
    <3> QED
      BY <1>6, <3>1 DEF Begin, TypeOK
  <2>2. idle' \in Seq({"on", "off"})
    <3>1. idle # << >> => SubSeq(idle, 1, Len(idle) - 1) \in Seq({"on", "off"})
      BY DEF TypeOK
    <3> QED
      BY <1>6, <3>1 DEF Begin, TypeOK
  <2>3. /\ pc' \in [Handlers -> {"idle", "save", "begin", "tx", "cleanup"}]
        /\ \A g \in Handlers \ {h} : pc'[g] = pc[g] /\ conn'[g] = conn[g]
    BY <1>6 DEF Begin, TypeOK
  <2>4. TypeOK'
    BY <1>6, <2>1, <2>2, <2>3 DEF Begin, TypeOK, tables, Live
  <2>5. Connected'
    BY <2>1, <2>3 DEF Connected
  <2> QED
    BY <2>4, <2>5
<1>7. CASE InsertRows(h)
  <2>1. skipped' \in BOOLEAN
    BY <1>7 DEF InsertRows, TypeOK
  <2> QED
    BY <1>7, <2>1, InsertType, EndTx, {} \in SUBSET Media DEF InsertRows
<1>8. CASE CreateRejected(h)
  <2>1. {cmd[h].reply} \cap Media \in SUBSET Media
    OBVIOUS
  <2> QED
    BY <1>8, <2>1, EndTx DEF CreateRejected, TypeOK, tables, Live
<1>9. CASE RemoveTrigger(h)
  <2>1. PICK t \in triggers :
          LET left == triggers \ {t}
              last == \A u \in left : u[1] # t[1]
          IN /\ t[1] \in FiltersOf(cmd[h].chat)
             /\ DeleteFilters(h, IF last THEN {t[1]} ELSE {}, left)
             /\ CleanUp(h, IF last THEN {m \in MediaOf(t[1]) : LastReference(m)} ELSE {})
    BY <1>9 DEF RemoveTrigger
  <2> DEFINE left == triggers \ {t}
             last == \A u \in left : u[1] # t[1]
             D == IF last THEN {t[1]} ELSE {}
             M == IF last THEN {m \in MediaOf(t[1]) : LastReference(m)} ELSE {}
  <2>2. D \in SUBSET Live /\ left \in SUBSET triggers
    BY <2>1 DEF FiltersOf
  <2>3. M \in SUBSET Media
    BY DEF MediaOf
  <2>4. DeleteFilters(h, D, left) /\ CleanUp(h, M)
    BY <2>1
  <2> HIDE DEF D, M, left, last
  <2> QED
    BY <1>9, <2>2, <2>3, <2>4, DeleteType, EndTx DEF RemoveTrigger
<1>10. CASE RemoveAllFilters(h)
  <2> DEFINE D == FiltersOf(cmd[h].chat)
             M == {m \in Media : /\ \E r \in ReferencesTo(m) : r[1] \in D
                                 /\ \A r \in responses' : r[2] # m}
  <2>1. D \in SUBSET Live /\ M \in SUBSET Media
    BY DEF FiltersOf
  <2>2. DeleteFilters(h, D, triggers) /\ CleanUp(h, M)
    BY <1>10 DEF RemoveAllFilters
  <2> HIDE DEF D, M
  <2> QED
    BY <1>10, <2>1, <2>2, DeleteType, EndTx DEF RemoveAllFilters
<1>11. CASE NoChange(h)
  BY <1>11, EndTx, {} \in SUBSET Media DEF NoChange, TypeOK, tables, Live
<1> QED
  BY <1>1, <1>2, <1>3, <1>4, <1>5, <1>6, <1>7, <1>8, <1>9, <1>10, <1>11
     DEF Step, CreateTextFilter, CreateReactionFilter, CreateMediaFilter

LEMMA TypedNext == Typed /\ [Next]_vars => Typed'
<1> SUFFICES ASSUME Typed, [Next]_vars PROVE Typed'
  OBVIOUS
<1>1. CASE \E h \in Handlers : Step(h)
  BY <1>1, TypedStep
<1>2. CASE Crash
  <2>1. files' \in [Media -> {"absent", "partial", "whole"}]
    BY <1>2 DEF Crash, Typed, TypeOK
  <2>2. idle' \in Seq({"on", "off"})
    BY <1>2 DEF Crash
  <2> QED
    BY <1>2, <2>1, <2>2 DEF Crash, Typed, TypeOK, Connected, tables, Live
<1>3. CASE UNCHANGED vars
  BY <1>3 DEF vars, Typed, TypeOK, Connected, Live
<1> QED
  BY <1>1, <1>2, <1>3 DEF Next

\* Every variable keeps its type: whatever the handlers do, a filter row has a
\* chat and a type, and a handler in a transaction holds a connection.
THEOREM TypeCorrect == Spec => []TypeOK
<1>1. Spec => []Typed
  BY TypedInit, TypedNext, PTL DEF Spec
<1>2. Typed => TypeOK
  BY DEF Typed
<1> QED
  BY <1>1, <1>2, PTL

-----------------------------------------------------------------------------
(* The tables stay consistent.                                             *)

\* A new filter: its id is free, its triggers are new in the chat, and no row
\* of an earlier filter carries its id.
LEMMA InsertKeepsTables ==
  ASSUME Typed, Tables, NEW h \in Handlers, InsertRows(h)
  PROVE  Tables'
<1> USE DEF Tables
<1>1. /\ cmd[h] \in CreateCommands
      /\ cmd[h].texts # {} /\ cmd[h].reply \in Replies
  BY CreateType DEF InsertRows, Typed
<1>2. PICK i \in Ids :
        /\ CanInsert(h, i)
        /\ filters' = [k \in Live \cup {i} |->
                          IF k = i THEN [chat |-> cmd[h].chat,
                                         type |-> TypeOf(cmd[h].reply)]
                                   ELSE filters[k]]
        /\ triggers' = triggers \cup ({i} \X cmd[h].texts)
        /\ responses' = responses \cup {<<i, cmd[h].reply>>}
  BY DEF InsertRows
<1>3. i \notin Live
  <2>1. i \in Nat /\ \A k \in Live : k < i
    BY <1>2, BoundsAssumption DEF CanInsert, IsNextId, Ids
  <2> QED
    BY <2>1
<1>4. /\ Live' = Live \cup {i}
      /\ \A k \in Live : filters'[k] = filters[k]
      /\ filters'[i].chat = cmd[h].chat /\ filters'[i].type = TypeOf(cmd[h].reply)
  BY <1>2, <1>3 DEF Live
<1>5. NoStrayRows'
  BY <1>2, <1>4 DEF NoStrayRows
<1>6. UniqueTriggers'
  <2> SUFFICES ASSUME NEW t \in triggers', NEW u \in triggers', t[2] = u[2],
                      filters'[t[1]].chat = filters'[u[1]].chat
               PROVE  t = u
    BY DEF UniqueTriggers
  <2>1. CASE t \in triggers /\ u \in triggers
    BY <2>1, <1>4 DEF UniqueTriggers, NoStrayRows
  <2>2. CASE t \in {i} \X cmd[h].texts /\ u \in {i} \X cmd[h].texts
    BY <2>2
  <2>3. ASSUME NEW old \in triggers, NEW new \in {i} \X cmd[h].texts, old[2] = new[2],
               filters'[old[1]].chat = filters'[new[1]].chat
        PROVE  FALSE
    <3>1. old[1] \in Live /\ filters[old[1]].chat = cmd[h].chat /\ old[2] \in cmd[h].texts
      BY <2>3, <1>4 DEF NoStrayRows
    <3> QED
      BY <3>1, <1>2 DEF CanInsert, Duplicate, FiltersOf
  <2> QED
    BY <2>1, <2>2, <2>3, <1>2
<1>7. EveryFilterHasTrigger'
  <2> SUFFICES ASSUME NEW k \in Live' PROVE \E t \in triggers' : t[1] = k
    BY DEF EveryFilterHasTrigger
  <2>1. CASE k \in Live
    BY <2>1, <1>2 DEF EveryFilterHasTrigger
  <2>2. CASE k = i
    <3>1. PICK x \in cmd[h].texts : TRUE
      BY <1>1
    <3>2. <<i, x>> \in triggers' /\ <<i, x>>[1] = k
      BY <1>2, <2>2, <3>1
    <3> QED
      BY <3>2
  <2> QED
    BY <2>1, <2>2, <1>4
<1>8. OneResponse'
  <2> SUFFICES ASSUME NEW k \in Live'
               PROVE  /\ \E r \in responses' : r[1] = k /\ TypeOf(r[2]) = filters'[k].type
                      /\ \A r, s \in responses' : r[1] = k /\ s[1] = k => r = s
    BY DEF OneResponse, TypeOf
  <2>1. \A r \in responses : r[1] # i
    BY <1>3 DEF NoStrayRows
  <2>2. CASE k \in Live
    BY <2>2, <1>2, <1>3, <1>4 DEF OneResponse
  <2>3. CASE k = i
    <3>1. /\ <<i, cmd[h].reply>> \in responses'
          /\ \A r \in responses' : r[1] = i => r = <<i, cmd[h].reply>>
      BY <2>1, <1>2
    <3> QED
      BY <3>1, <2>3, <1>4
  <2> QED
    BY <2>2, <2>3, <1>4
<1> QED
  BY <1>5, <1>6, <1>7, <1>8

\* Filters are deleted with their rows (or not at all), and every filter that
\* stays keeps a trigger.
LEMMA DeleteKeepsTables ==
  ASSUME Typed, Tables, NEW h \in Handlers, NEW D \in SUBSET Live,
         NEW left \in SUBSET triggers, DeleteFilters(h, D, left), ~skipped',
         \A i \in Live \ D : \E t \in left : t[1] = i
  PROVE  Tables'
<1> USE DEF Tables
<1>1. Live' = Live \ D /\ \A i \in Live \ D : filters'[i] = filters[i]
  BY DEF DeleteFilters, Live
<1>2. /\ triggers' = {t \in left : t[1] \notin D}
      /\ responses' = {r \in responses : r[1] \notin D}
  <2>1. CASE conn[h] = "on"
    BY <2>1 DEF DeleteFilters
  <2>2. CASE conn[h] # "on"
    <3>1. D = {} /\ triggers' = left /\ responses' = responses
      BY <2>2 DEF DeleteFilters
    <3> QED
      BY <3>1
  <2> QED
    BY <2>1, <2>2
<1>3. NoStrayRows'
  BY <1>1, <1>2 DEF NoStrayRows
<1>4. UniqueTriggers'
  BY <1>1, <1>2 DEF UniqueTriggers
<1>5. EveryFilterHasTrigger'
  BY <1>1, <1>2 DEF EveryFilterHasTrigger
<1>6. OneResponse'
  BY <1>1, <1>2 DEF OneResponse, TypeOf
<1> QED
  BY <1>3, <1>4, <1>5, <1>6

LEMMA TablesStep ==
  ASSUME Typed, Tables, NEW h \in Handlers, Step(h), ~skipped'
  PROVE  Tables'
<1>1. CASE UNCHANGED tables
  BY <1>1 DEF tables, Tables, NoStrayRows, UniqueTriggers, EveryFilterHasTrigger,
              OneResponse, Live, TypeOf
<1>2. CASE InsertRows(h)
  BY <1>2, InsertKeepsTables
<1>3. CASE RemoveTrigger(h)
  <2>1. PICK t \in triggers :
          LET left == triggers \ {t}
              last == \A u \in left : u[1] # t[1]
          IN /\ t[1] \in FiltersOf(cmd[h].chat)
             /\ DeleteFilters(h, IF last THEN {t[1]} ELSE {}, left)
    BY <1>3 DEF RemoveTrigger
  <2> DEFINE left == triggers \ {t}
             last == \A u \in left : u[1] # t[1]
             D == IF last THEN {t[1]} ELSE {}
  <2>2. D \in SUBSET Live /\ left \in SUBSET triggers /\ DeleteFilters(h, D, left)
    BY <2>1 DEF FiltersOf
  <2>3. \A i \in Live \ D : \E u \in left : u[1] = i
    <3> SUFFICES ASSUME NEW i \in Live \ D PROVE \E u \in left : u[1] = i
      OBVIOUS
    <3>1. CASE i = t[1]
      BY <3>1
    <3>2. CASE i # t[1]
      BY <3>2 DEF Tables, EveryFilterHasTrigger
    <3> QED
      BY <3>1, <3>2
  <2> HIDE DEF D, left, last
  <2> QED
    BY <2>2, <2>3, DeleteKeepsTables
<1>4. CASE RemoveAllFilters(h)
  <2> DEFINE D == FiltersOf(cmd[h].chat)
  <2>1. D \in SUBSET Live /\ DeleteFilters(h, D, triggers)
    BY <1>4 DEF FiltersOf, RemoveAllFilters
  <2>2. \A i \in Live \ D : \E t \in triggers : t[1] = i
    BY DEF Tables, EveryFilterHasTrigger
  <2> HIDE DEF D
  <2> QED
    BY <2>1, <2>2, DeleteKeepsTables
<1> QED
  BY <1>1, <1>2, <1>3, <1>4
     DEF Step, Receive, SaveMedia, SaveFails, DeleteMedia, DeleteFails, Begin, NoChange,
         CreateTextFilter, CreateReactionFilter, CreateMediaFilter, CreateRejected

\* skipped is never reset.
LEMMA SkippedStays == Typed /\ [Next]_vars /\ skipped => skipped'
BY DEF Next, Step, Receive, SaveMedia, SaveFails, DeleteMedia, DeleteFails, Begin, NoChange,
       CreateTextFilter, CreateReactionFilter, CreateMediaFilter, InsertRows, CreateRejected,
       RemoveTrigger, RemoveAllFilters, DeleteFilters, Crash, vars

\* No interleaving of /filter, /stop and /stopall, no failed transaction and no
\* restart leaves a stray row, a trigger with two filters in a chat, or a
\* filter without a trigger or without its response: the transactions of
\* repository.go:28-339, on a connection that enforces foreign keys.
THEOREM TablesConsistent == Spec => []Consistent
<1>1. Init => Consistent
  BY DEF Init, Consistent, NoStrayRows, UniqueTriggers, EveryFilterHasTrigger, OneResponse, Live
<1>2. Typed /\ Consistent /\ [Next]_vars => Consistent'
  <2> SUFFICES ASSUME Typed, Consistent, [Next]_vars, ~skipped' PROVE Tables'
    BY DEF Consistent, Tables
  <2>1. Tables
    BY SkippedStays DEF Consistent, Tables
  <2>2. CASE \E h \in Handlers : Step(h)
    BY <2>1, <2>2, TablesStep
  <2>3. CASE Crash \/ UNCHANGED vars
    BY <2>1, <2>3 DEF Crash, vars, tables, Tables, NoStrayRows, UniqueTriggers,
                      EveryFilterHasTrigger, OneResponse, Live, TypeOf
  <2> QED
    BY <2>2, <2>3 DEF Next
<1> QED
  BY <1>1, <1>2, TypedInit, TypedNext, PTL DEF Spec

-----------------------------------------------------------------------------
(***************************************************************************)
(* Files.  What /stop and /stopall choose to delete is in use nowhere when *)
(* they commit, and no file is left behind that nobody answers for.        *)
(*                                                                         *)
(* Two facts carry it.  A handler has files to delete in its last phase    *)
(* only, and one to save for a creation only (Tidy).  The rows that are    *)
(* counted are finitely many (Countable), so a file with one reference is  *)
(* the reply of one filter.                                                *)
(***************************************************************************)

Tidy == \A h \in Handlers : /\ pc[h] # "cleanup" => doomed[h] = {}
                            /\ pc[h] = "save" => cmd[h].op = "create"

Countable == IsFiniteSet(responses)

Kept == Tidy /\ Countable

-----------------------------------------------------------------------------
(* A file in use is in a row of table filter_media_resp.                   *)

LEMMA InUseRow ==
  ASSUME NEW m \in Media
  PROVE  InUse(m) <=> \E i \in Live : /\ filters[i].type = "media"
                                     /\ \E r \in responses : r[1] = i /\ r[2] = m
BY DEF InUse, MediaOf

LEMMA InUseRowNext ==
  ASSUME NEW m \in Media
  PROVE  InUse(m)' <=> \E i \in Live' : /\ filters'[i].type = "media"
                                       /\ \E r \in responses' : r[1] = i /\ r[2] = m
BY DEF InUse, MediaOf

\* LastReference holds of a file with one row.
LEMMA OneRow ==
  ASSUME Countable, NEW m \in Media
  PROVE  LastReference(m) <=> \E s \in responses : \A r \in responses : r[2] = m <=> r = s
<1>1. IsFiniteSet(ReferencesTo(m))
  BY FS_Subset DEF Countable, ReferencesTo
<1>2. LastReference(m) <=> \E s : ReferencesTo(m) = {s}
  BY <1>1, FS_Singleton DEF LastReference
<1>3. ASSUME NEW s, ReferencesTo(m) = {s}
      PROVE  s \in responses /\ \A r \in responses : r[2] = m <=> r = s
  BY <1>3 DEF ReferencesTo
<1>4. ASSUME NEW s \in responses, \A r \in responses : r[2] = m <=> r = s
      PROVE  ReferencesTo(m) = {s}
  BY <1>4 DEF ReferencesTo
<1> QED
  BY <1>2, <1>3, <1>4

-----------------------------------------------------------------------------
(* Tidy and Countable.                                                     *)

LEMMA KeptInit == Init => Kept
BY FS_EmptySet DEF Init, Kept, Tidy, Countable

LEMMA CleanUpTidy ==
  ASSUME Typed, Tidy, NEW h \in Handlers, NEW D, CleanUp(h, D)
  PROVE  Tidy'
BY DEF Typed, TypeOK, Tidy, CleanUp

LEMMA TidyStep ==
  ASSUME Typed, Tidy, NEW h \in Handlers, Step(h)
  PROVE  Tidy'
<1>1. CASE Receive(h)
  <2>1. /\ pc[h] = "idle" /\ doomed' = doomed
        /\ \A g \in Handlers \ {h} : pc'[g] = pc[g] /\ cmd'[g] = cmd[g]
        /\ pc'[h] = "save" => cmd'[h].op = "create"
    BY <1>1 DEF Receive, Typed, TypeOK
  <2> QED
    BY <2>1 DEF Tidy
<1>2. CASE SaveMedia(h) \/ Begin(h)
  BY <1>2 DEF SaveMedia, Begin, Typed, TypeOK, Tidy
<1>3. CASE SaveFails(h) \/ DeleteMedia(h) \/ DeleteFails(h) \/ InsertRows(h)
           \/ CreateRejected(h) \/ NoChange(h)
  BY <1>3, CleanUpTidy DEF SaveFails, DeleteMedia, DeleteFails, InsertRows, CreateRejected, NoChange
<1>4. CASE RemoveTrigger(h) \/ RemoveAllFilters(h)
  <2>1. \E D : CleanUp(h, D)
    BY <1>4 DEF RemoveTrigger, RemoveAllFilters
  <2> QED
    BY <2>1, CleanUpTidy
<1> QED
  BY <1>1, <1>2, <1>3, <1>4 DEF Step, CreateTextFilter, CreateReactionFilter, CreateMediaFilter

\* A handler decides for itself what it deletes.
LEMMA OthersKept ==
  ASSUME Typed, NEW g \in Handlers, Step(g), NEW h \in Handlers \ {g}
  PROVE  doomed'[h] = doomed[h] /\ pc'[h] = pc[h] /\ cmd'[h] = cmd[h]
<1>1. ASSUME NEW D, CleanUp(g, D)
      PROVE  doomed'[h] = doomed[h] /\ pc'[h] = pc[h] /\ cmd'[h] = cmd[h]
  BY <1>1 DEF CleanUp, Typed, TypeOK
<1>2. CASE RemoveTrigger(g) \/ RemoveAllFilters(g)
  <2>1. \E D : CleanUp(g, D)
    BY <1>2 DEF RemoveTrigger, RemoveAllFilters
  <2> QED
    BY <1>1, <2>1
<1>3. CASE SaveFails(g) \/ DeleteMedia(g) \/ DeleteFails(g) \/ InsertRows(g)
           \/ CreateRejected(g) \/ NoChange(g)
  BY <1>1, <1>3 DEF SaveFails, DeleteMedia, DeleteFails, InsertRows, CreateRejected, NoChange
<1>4. CASE Receive(g)
  BY <1>4 DEF Receive, Typed, TypeOK
<1>5. CASE SaveMedia(g) \/ Begin(g)
  BY <1>5 DEF SaveMedia, Begin, Typed, TypeOK
<1> QED
  BY <1>2, <1>3, <1>4, <1>5 DEF Step, CreateTextFilter, CreateReactionFilter, CreateMediaFilter

LEMMA CountableStep ==
  ASSUME Countable, NEW h \in Handlers, Step(h)
  PROVE  Countable'
<1>1. CASE InsertRows(h)
  <2>1. PICK i \in Ids : responses' = responses \cup {<<i, cmd[h].reply>>}
    BY <1>1 DEF InsertRows
  <2> QED
    BY <2>1, FS_AddElement DEF Countable
<1>2. CASE RemoveTrigger(h) \/ RemoveAllFilters(h)
  <2>1. responses' \in SUBSET responses
    BY <1>2 DEF RemoveTrigger, RemoveAllFilters, DeleteFilters
  <2> QED
    BY <2>1, FS_Subset DEF Countable
<1>3. CASE UNCHANGED responses
  BY <1>3 DEF Countable
<1> QED
  BY <1>1, <1>2, <1>3
     DEF Step, Receive, SaveMedia, SaveFails, DeleteMedia, DeleteFails, Begin, NoChange,
         CreateTextFilter, CreateReactionFilter, CreateMediaFilter, CreateRejected, tables

LEMMA KeptNext == Typed /\ Kept /\ [Next]_vars => Kept'
<1> SUFFICES ASSUME Typed, Kept, [Next]_vars PROVE Kept'
  OBVIOUS
<1>1. CASE \E h \in Handlers : Step(h)
  BY <1>1, TidyStep, CountableStep DEF Kept
<1>2. CASE Crash
  BY <1>2 DEF Crash, Kept, Tidy, Countable, tables
<1>3. CASE UNCHANGED vars
  BY <1>3 DEF vars, Kept, Tidy, Countable
<1> QED
  BY <1>1, <1>2, <1>3 DEF Next

-----------------------------------------------------------------------------
(* What removals choose to delete.                                         *)

\* A /stop that removes the last trigger of filter i, and how its rows go.
LEMMA RemovedTrigger ==
  ASSUME Typed, NEW h \in Handlers, RemoveTrigger(h)
  PROVE  \E i \in Live, D \in SUBSET Live, left \in SUBSET triggers :
           /\ DeleteFilters(h, D, left) /\ D \in {{}, {i}}
           /\ doomed' = [doomed EXCEPT ![h] = IF D = {} THEN {} ELSE {m \in MediaOf(i) : LastReference(m)}]
<1>1. PICK t \in triggers :
        LET left == triggers \ {t}
            last == \A u \in left : u[1] # t[1]
        IN /\ t[1] \in FiltersOf(cmd[h].chat)
           /\ DeleteFilters(h, IF last THEN {t[1]} ELSE {}, left)
           /\ CleanUp(h, IF last THEN {m \in MediaOf(t[1]) : LastReference(m)} ELSE {})
  BY DEF RemoveTrigger
<1> DEFINE left == triggers \ {t}
           D == IF \A u \in left : u[1] # t[1] THEN {t[1]} ELSE {}
<1>2. t[1] \in Live /\ left \in SUBSET triggers
  BY <1>1 DEF FiltersOf
<1>3. DeleteFilters(h, D, left) /\ D \in {{}, {t[1]}}
  BY <1>1
<1>4. doomed' = [doomed EXCEPT ![h] = IF D = {} THEN {} ELSE {m \in MediaOf(t[1]) : LastReference(m)}]
  BY <1>1 DEF CleanUp
<1> HIDE DEF D, left
<1> QED
  BY <1>2, <1>3, <1>4

LEMMA StopUnused ==
  ASSUME Typed, Countable, NEW h \in Handlers, RemoveTrigger(h), NEW m \in doomed'[h]
  PROVE  ~InUse(m)'
<1>1. PICK i \in Live, D \in SUBSET Live, left \in SUBSET triggers :
        /\ DeleteFilters(h, D, left) /\ D \in {{}, {i}}
        /\ doomed' = [doomed EXCEPT ![h] = IF D = {} THEN {} ELSE {n \in MediaOf(i) : LastReference(n)}]
  BY RemovedTrigger
<1>2. D = {i} /\ m \in MediaOf(i) /\ LastReference(m)
  BY <1>1 DEF Typed, TypeOK
<1>3. m \in Media /\ \E r \in responses : r[1] = i /\ r[2] = m
  BY <1>2 DEF MediaOf
<1>4. PICK s \in responses : \A r \in responses : r[2] = m <=> r = s
  BY <1>2, <1>3, OneRow
<1>5. s[1] = i
  BY <1>3, <1>4
<1>6. responses' \subseteq responses /\ i \notin Live'
  BY <1>1, <1>2 DEF DeleteFilters, Live
<1> QED
  BY <1>3, <1>4, <1>5, <1>6, InUseRowNext

LEMMA StopAllUnused ==
  ASSUME Typed, NEW h \in Handlers, RemoveAllFilters(h), NEW m \in doomed'[h]
  PROVE  ~InUse(m)'
<1>1. m \in Media /\ \A r \in responses' : r[2] # m
  BY DEF RemoveAllFilters, CleanUp, Typed, TypeOK
<1> QED
  BY <1>1, InUseRowNext

\* When a /stop or a /stopall commits, the files it is going to delete are the
\* reply of no filter in any chat (repository.go:272, repository.go:329).
THEOREM RemovalsChooseUnused == Spec => StopDoomsUnused
<1> DEFINE Chosen == \A h \in Handlers :
             (pc[h] = "tx" /\ cmd[h].op \in {"stop", "stopall"}) => \A m \in doomed'[h] : ~InUse(m)'
<1>1. Typed /\ Kept /\ [Next]_vars => Chosen
  <2> SUFFICES ASSUME Typed, Kept, [Next]_vars,
                      NEW h \in Handlers, pc[h] = "tx", cmd[h].op \in {"stop", "stopall"},
                      NEW m \in doomed'[h]
               PROVE  ~InUse(m)'
    OBVIOUS
  <2>1. doomed[h] = {}
    BY DEF Kept, Tidy
  <2>2. CASE RemoveTrigger(h) \/ RemoveAllFilters(h)
    BY <2>2, StopUnused, StopAllUnused DEF Kept
  <2>3. CASE NoChange(h)
    BY <2>3 DEF NoChange, CleanUp, Typed, TypeOK
  <2>4. ASSUME NEW g \in Handlers, Step(g), g # h PROVE FALSE
    BY <2>1, <2>4, OthersKept
  <2>5. CASE Crash \/ UNCHANGED vars
    BY <2>1, <2>5 DEF Crash, vars
  <2>6. Step(h) => RemoveTrigger(h) \/ RemoveAllFilters(h) \/ NoChange(h)
    BY DEF Step, Receive, SaveMedia, SaveFails, DeleteMedia, DeleteFails, Begin,
           CreateTextFilter, CreateReactionFilter, CreateMediaFilter, CreateRejected
  <2> QED
    BY <2>2, <2>3, <2>4, <2>5, <2>6 DEF Next
<1>2. Spec => []Typed
  BY TypedInit, TypedNext, PTL DEF Spec
<1>3. Spec => []Kept
  BY <1>2, KeptInit, KeptNext, PTL DEF Spec
<1>4. [][Chosen]_vars => StopDoomsUnused
  BY DEF StopDoomsUnused
<1> HIDE DEF Chosen
<1> QED
  BY <1>1, <1>2, <1>3, <1>4, PTL DEF Spec

-----------------------------------------------------------------------------
(* Nothing is left behind.                                                 *)

\* Handler h is about to give file m a filter.
Saving(h, m) == pc[h] \in {"begin", "tx"} /\ cmd[h].op = "create" /\ cmd[h].reply = m

\* The part of Tracked that handler h answers for.
Answers(h, m) == Saving(h, m) \/ m \in doomed[h]

LEMMA TrackedBy ==
  ASSUME NEW m \in Media
  PROVE  Tracked(m) <=> InUse(m) \/ \E h \in Handlers : Answers(h, m)
BY DEF Tracked, Answers, Saving

LEMMA TrackedByNext ==
  ASSUME NEW m \in Media
  PROVE  Tracked(m)' <=> InUse(m)' \/ \E h \in Handlers : Answers(h, m)'
BY DEF Tracked, Answers, Saving

\* A handler goes on answering for a file unless its own step ends that.
LEMMA OthersAnswer ==
  ASSUME Typed, NEW m \in Media, NEW g \in Handlers, Step(g),
         NEW h \in Handlers \ {g}, Answers(h, m)
  PROVE  Answers(h, m)'
BY OthersKept DEF Answers, Saving

\* The new filter replies with the file its handler saved.
LEMMA InsertTracks ==
  ASSUME Typed, NEW m \in Media, NEW h \in Handlers, InsertRows(h), Tidy,
         InUse(m) \/ Answers(h, m)
  PROVE  InUse(m)'
<1>1. PICK i \in Ids :
        /\ CanInsert(h, i)
        /\ filters' = [k \in Live \cup {i} |->
                         IF k = i THEN [chat |-> cmd[h].chat, type |-> TypeOf(cmd[h].reply)]
                                  ELSE filters[k]]
        /\ responses' = responses \cup {<<i, cmd[h].reply>>}
  BY DEF InsertRows
<1>2. i \notin Live /\ Live' = Live \cup {i}
  BY <1>1 DEF CanInsert, IsNextId, Live, Typed, TypeOK, Ids
<1>3. CASE InUse(m)
  <2>1. PICK k \in Live : filters[k].type = "media" /\ \E r \in responses : r[1] = k /\ r[2] = m
    BY <1>3, InUseRow
  <2>2. k \in Live' /\ filters'[k] = filters[k]
    BY <1>1, <1>2
  <2> QED
    BY <1>1, <2>1, <2>2, InUseRowNext
<1>4. CASE Answers(h, m)
  <2>1. cmd[h].reply = m
    BY <1>4 DEF Answers, Saving, InsertRows, Tidy
  <2>2. filters'[i].type = "media" /\ i \in Live' /\ <<i, m>> \in responses'
    BY <1>1, <1>2, <2>1 DEF TypeOf
  <2> QED
    BY <2>2, InUseRowNext
<1> QED
  BY <1>3, <1>4

\* With foreign keys a removal takes the rows of its filters along and no
\* other, so a file out of use is one of a filter removed.
LEMMA DeleteLoses ==
  ASSUME Typed, NEW h \in Handlers, NEW D \in SUBSET Live, NEW left \in SUBSET triggers,
         DeleteFilters(h, D, left), ~skipped', NEW m \in Media, InUse(m), ~InUse(m)'
  PROVE  /\ responses' = {r \in responses : r[1] \notin D}
         /\ \E i \in D : m \in MediaOf(i)
<1>1. Live' = Live \ D /\ \A k \in Live \ D : filters'[k] = filters[k]
  BY DEF DeleteFilters, Live
<1>2. D # {}
  <2> SUFFICES ASSUME D = {} PROVE FALSE
    OBVIOUS
  <2>1. responses' = responses
    BY DEF DeleteFilters
  <2> QED
    BY <1>1, <2>1, InUseRow, InUseRowNext
<1>3. responses' = {r \in responses : r[1] \notin D}
  BY <1>2 DEF DeleteFilters
<1>4. PICK k \in Live : m \in MediaOf(k)
  BY DEF InUse
<1>5. filters[k].type = "media" /\ \E r \in responses : r[1] = k /\ r[2] = m
  BY <1>4 DEF MediaOf
<1>6. k \in D
  BY <1>1, <1>3, <1>5, InUseRowNext
<1> QED
  BY <1>3, <1>4, <1>6

\* While the tables are consistent, a file of a filter that /stop removes and
\* no other filter uses has one reference, and is deleted.
LEMMA StopTracks ==
  ASSUME Typed, Tables, Countable, NEW m \in Media, NEW h \in Handlers,
         RemoveTrigger(h), ~skipped', InUse(m)
  PROVE  InUse(m)' \/ m \in doomed'[h]
<1> SUFFICES ASSUME ~InUse(m)' PROVE m \in doomed'[h]
  OBVIOUS
<1>1. PICK i \in Live, D \in SUBSET Live, left \in SUBSET triggers :
        /\ DeleteFilters(h, D, left) /\ D \in {{}, {i}}
        /\ doomed' = [doomed EXCEPT ![h] = IF D = {} THEN {} ELSE {n \in MediaOf(i) : LastReference(n)}]
  BY RemovedTrigger
<1>2. D = {i} /\ m \in MediaOf(i) /\ responses' = {r \in responses : r[1] # i}
  <2>1. responses' = {r \in responses : r[1] \notin D} /\ \E k \in D : m \in MediaOf(k)
    BY <1>1, DeleteLoses
  <2> QED
    BY <1>1, <2>1
<1>3. PICK s \in responses : s[1] = i /\ s[2] = m
  BY <1>2 DEF MediaOf
<1>4. ASSUME NEW r \in responses, r[2] = m PROVE r = s
  <2>1. r[1] \in Live /\ r = <<r[1], m>>
    BY <1>4 DEF Typed, TypeOK, Tables, NoStrayRows
  <2>2. PICK q \in responses : q[1] = r[1] /\ TypeOf(q[2]) = filters[r[1]].type
    BY <2>1 DEF Tables, OneResponse
  <2>3. q = r
    BY <2>1, <2>2 DEF Tables, OneResponse
  <2>4. filters[r[1]].type = "media"
    BY <1>4, <2>2, <2>3 DEF TypeOf
  <2>5. r[1] = i
    <3>1. Live' = Live \ {i} /\ \A k \in Live \ {i} : filters'[k] = filters[k]
      BY <1>1, <1>2 DEF DeleteFilters, Live
    <3> QED
      BY <1>2, <1>4, <2>1, <2>4, <3>1, InUseRowNext
  <2> QED
    BY <1>3, <2>5 DEF Tables, OneResponse
<1>5. LastReference(m)
  BY <1>3, <1>4, OneRow
<1> QED
  BY <1>1, <1>2, <1>5 DEF Typed, TypeOK

LEMMA StopAllTracks ==
  ASSUME Typed, Tables, NEW m \in Media, NEW h \in Handlers,
         RemoveAllFilters(h), ~skipped', InUse(m)
  PROVE  InUse(m)' \/ m \in doomed'[h]
<1> SUFFICES ASSUME ~InUse(m)' PROVE m \in doomed'[h]
  OBVIOUS
<1> DEFINE D == FiltersOf(cmd[h].chat)
<1>1. D \in SUBSET Live /\ DeleteFilters(h, D, triggers)
  BY DEF RemoveAllFilters, FiltersOf
<1>2. Live' = Live \ D /\ \A k \in Live \ D : filters'[k] = filters[k]
  BY <1>1 DEF DeleteFilters, Live
<1>3. doomed' = [doomed EXCEPT ![h] =
                   {n \in Media : /\ \E r \in ReferencesTo(n) : r[1] \in D
                                  /\ \A r \in responses' : r[2] # n}]
  BY DEF RemoveAllFilters, CleanUp
<1> HIDE DEF D
<1>4. responses' = {r \in responses : r[1] \notin D} /\ \E i \in D : m \in MediaOf(i)
  BY <1>1, DeleteLoses
<1>5. \E r \in ReferencesTo(m) : r[1] \in D
  BY <1>4 DEF MediaOf, ReferencesTo
<1>6. ASSUME NEW r \in responses', r[2] = m PROVE FALSE
  <2>1. r \in responses /\ r[1] \in Live \ D
    BY <1>4, <1>6 DEF Tables, NoStrayRows
  <2>2. PICK q \in responses : q[1] = r[1] /\ TypeOf(q[2]) = filters[r[1]].type
    BY <2>1 DEF Tables, OneResponse
  <2>3. q = r
    BY <2>1, <2>2 DEF Tables, OneResponse
  <2>4. filters[r[1]].type = "media"
    BY <1>6, <2>2, <2>3 DEF TypeOf
  <2> QED
    BY <1>2, <1>6, <2>1, <2>4, InUseRowNext
<1> QED
  BY <1>3, <1>5, <1>6 DEF Typed, TypeOK

\* A file in use stays so or becomes one that is deleted.
LEMMA UseTracked ==
  ASSUME Typed, Tables, Kept, NEW m \in Media, NEW h \in Handlers, Step(h),
         ~skipped', InUse(m)
  PROVE  InUse(m)' \/ m \in doomed'[h]
<1>1. CASE UNCHANGED tables
  BY <1>1, InUseRow, InUseRowNext DEF tables, Live
<1>2. CASE InsertRows(h)
  BY <1>2, InsertTracks DEF Kept
<1>3. CASE RemoveTrigger(h) \/ RemoveAllFilters(h)
  BY <1>3, StopTracks, StopAllTracks DEF Kept
<1> QED
  BY <1>1, <1>2, <1>3
     DEF Step, Receive, SaveMedia, SaveFails, DeleteMedia, DeleteFails, Begin, NoChange,
         CreateTextFilter, CreateReactionFilter, CreateMediaFilter, CreateRejected

\* A handler that answers for a file goes on to, gives it a filter, or ends
\* with the file gone.
LEMMA AnswerTracked ==
  ASSUME Typed, Kept, NEW m \in Media, NEW h \in Handlers, Step(h), ~DeleteFails(h),
         Answers(h, m)
  PROVE  InUse(m)' \/ Answers(h, m)' \/ files'[m] # "whole"
<1>1. CASE Receive(h) \/ SaveMedia(h) \/ SaveFails(h)
  BY <1>1 DEF Receive, SaveMedia, SaveFails, Answers, Saving, Kept, Tidy
<1>2. CASE DeleteMedia(h)
  <2>1. m \in doomed[h]
    BY <1>2 DEF DeleteMedia, Answers, Saving
  <2>2. PICK n \in doomed[h] : files' = [files EXCEPT ![n] = "absent"] /\ CleanUp(h, doomed[h] \ {n})
    BY <1>2 DEF DeleteMedia
  <2>3. n # m => m \in doomed'[h]
    BY <2>1, <2>2 DEF CleanUp, Typed, TypeOK
  <2>4. n = m => files'[m] = "absent"
    BY <2>2 DEF Typed, TypeOK
  <2> QED
    BY <2>3, <2>4 DEF Answers
<1>3. CASE Begin(h)
  BY <1>3 DEF Begin, Answers, Saving, Kept, Tidy, Typed, TypeOK
<1>4. CASE InsertRows(h)
  BY <1>4, InsertTracks DEF Kept
<1>5. CASE CreateRejected(h)
  <2>1. cmd[h].reply = m
    BY <1>5 DEF CreateRejected, Answers, Saving, Kept, Tidy
  <2>2. m \in doomed'[h]
    BY <1>5, <2>1 DEF CreateRejected, CleanUp, Typed, TypeOK
  <2> QED
    BY <2>2 DEF Answers
<1>6. CASE RemoveTrigger(h) \/ RemoveAllFilters(h) \/ NoChange(h)
  BY <1>6 DEF RemoveTrigger, RemoveAllFilters, NoChange, Answers, Saving, Kept, Tidy
<1> QED
  BY <1>1, <1>2, <1>3, <1>4, <1>5, <1>6
     DEF Step, CreateTextFilter, CreateReactionFilter, CreateMediaFilter

\* A file that was not whole is made whole by the handler that answers for it.
LEMMA WholeTracked ==
  ASSUME Typed, Kept, NEW m \in Media, NEW h \in Handlers, Step(h),
         files[m] # "whole", files'[m] = "whole"
  PROVE  Answers(h, m)'
<1>1. CASE SaveMedia(h)
  <2>1. cmd[h].reply = m
    BY <1>1 DEF SaveMedia, Typed, TypeOK
  <2>2. cmd[h].op = "create"
    BY <1>1 DEF SaveMedia, Kept, Tidy
  <2> QED
    BY <1>1, <2>1, <2>2 DEF SaveMedia, Answers, Saving, Typed, TypeOK
<1>2. CASE SaveFails(h)
  BY <1>2 DEF SaveFails, Typed, TypeOK
<1>3. CASE DeleteMedia(h)
  BY <1>3 DEF DeleteMedia, Typed, TypeOK
<1>4. CASE UNCHANGED files
  BY <1>4
<1> QED
  BY <1>1, <1>2, <1>3, <1>4
     DEF Step, Receive, DeleteFails, Begin, CreateTextFilter, CreateReactionFilter,
         CreateMediaFilter, InsertRows, CreateRejected, RemoveTrigger, RemoveAllFilters, NoChange

\* Every step but a failed Delete keeps a whole file tracked.
LEMMA StepTracks ==
  ASSUME Typed, Tables, Kept, NEW m \in Media, NEW h \in Handlers, Step(h),
         ~DeleteFails(h), ~skipped',
         files[m] # "whole" \/ Tracked(m), files'[m] = "whole"
  PROVE  Tracked(m)'
<1>1. CASE files[m] # "whole"
  BY <1>1, WholeTracked, TrackedByNext
<1>2. CASE InUse(m)
  <2>1. CASE InUse(m)'
    BY <2>1, TrackedByNext
  <2>2. CASE m \in doomed'[h]
    BY <2>2 DEF Tracked
  <2> QED
    BY <1>2, <2>1, <2>2, UseTracked
<1>3. ASSUME NEW g \in Handlers, Answers(g, m) PROVE Tracked(m)'
  <2>1. CASE g = h
    <3>1. InUse(m)' \/ Answers(h, m)'
      BY <1>3, <2>1, AnswerTracked
    <3> QED
      BY <3>1, TrackedByNext
  <2>2. CASE g # h
    BY <1>3, <2>2, OthersAnswer, TrackedByNext
  <2> QED
    BY <2>1, <2>2
<1> QED
  BY <1>1, <1>2, <1>3, TrackedBy

\* While foreign keys are enforced, whatever the commands of all chats do to a
\* file, it ends as the reply of a filter, in the hands of a handler, or gone:
\* only a crash or a Delete that fails leaves it behind (handler.go:459,
\* repository.go:240-339).
THEOREM NothingLeaks == Spec => NoLeak
<1> DEFINE Careful == \A m \in Media :
             (files[m] # "whole" \/ Tracked(m)) /\ files'[m] = "whole" /\ ~Tracked(m)'
               => skipped' \/ Crash \/ \E h \in Handlers : DeleteFails(h)
<1>1. Typed /\ Consistent /\ Kept /\ [Next]_vars => [Careful]_vars
  <2> SUFFICES ASSUME Typed, Consistent, Kept, Next, NEW m \in Media,
                      files[m] # "whole" \/ Tracked(m), files'[m] = "whole",
                      ~skipped', ~Crash, \A h \in Handlers : ~DeleteFails(h)
               PROVE  Tracked(m)'
    OBVIOUS
  <2>1. Tables
    BY SkippedStays DEF Consistent, Tables
  <2> QED
    BY <2>1, StepTracks DEF Next
<1>2. Spec => []Typed
  BY TypedInit, TypedNext, PTL DEF Spec
<1>3. Spec => []Kept
  BY <1>2, KeptInit, KeptNext, PTL DEF Spec
<1>4. [][Careful]_vars => NoLeak
  BY DEF NoLeak
<1> HIDE DEF Careful
<1> QED
  BY <1>1, <1>2, <1>3, <1>4, TablesConsistent, PTL DEF Spec

-----------------------------------------------------------------------------
(***************************************************************************)
(* The book.  Until a delete leaves rows behind, the filter commands       *)
(* implement FilterBook, whatever the connections of the pool.             *)
(*                                                                         *)
(* Such tables are a book: each trigger of a chat is in one row and leads  *)
(* to one reply (Faithful).  This needs only what holds of filters that    *)
(* exist (Coherent), and so survives the delete that leaves rows behind:   *)
(* that step, too, is a step of the book.                                  *)
(***************************************************************************)

Coherent == UniqueTriggers /\ OneResponse

\* Every trigger row gives its reply to its text in the chat of its filter.
Key(t) == <<filters[t[1]].chat, t[2]>>

Faithful ==
  /\ bookOfTables = [p \in DOMAIN bookOfTables |-> bookOfTables[p]]
  /\ DOMAIN bookOfTables = {Key(t) : t \in Matchable}
  /\ \A t \in Matchable, s \in responses : t[1] = s[1] => bookOfTables[Key(t)] = s[2]

-----------------------------------------------------------------------------
(* A delete on any connection.                                             *)

\* What is left of filters D, and of their triggers, can be matched no more.
LEMMA DeleteLeft ==
  ASSUME Tables, NEW h \in Handlers, NEW D \in SUBSET Live,
         NEW left \in SUBSET triggers, DeleteFilters(h, D, left)
  PROVE  /\ Live' = Live \ D
         /\ \A i \in Live \ D : filters'[i] = filters[i]
         /\ triggers' \subseteq triggers /\ responses' \subseteq responses
         /\ \A s \in responses : s[1] \notin D => s \in responses'
         /\ Matchable' = {t \in left : t[1] \notin D}
<1>1. Live' = Live \ D /\ \A i \in Live \ D : filters'[i] = filters[i]
  BY DEF DeleteFilters, Live
<1>2. \A t \in left : t \in triggers /\ t[1] \in Live
  BY DEF Tables, NoStrayRows
<1>3. CASE conn[h] = "on"
  <2>1. /\ triggers' = {t \in left : t[1] \notin D}
        /\ responses' = {s \in responses : s[1] \notin D}
    BY <1>3 DEF DeleteFilters
  <2> QED
    BY <1>1, <1>2, <2>1 DEF Matchable
<1>4. CASE conn[h] # "on"
  <2>1. triggers' = left /\ responses' = responses
    BY <1>4 DEF DeleteFilters
  <2> QED
    BY <1>1, <1>2, <2>1 DEF Matchable
<1> QED
  BY <1>3, <1>4

LEMMA DeleteKeepsCoherent ==
  ASSUME Tables, NEW h \in Handlers, NEW D \in SUBSET Live,
         NEW left \in SUBSET triggers, DeleteFilters(h, D, left)
  PROVE  Coherent'
<1>1. /\ Live' = Live \ D
      /\ \A i \in Live \ D : filters'[i] = filters[i]
      /\ triggers' \subseteq triggers /\ responses' \subseteq responses
      /\ \A s \in responses : s[1] \notin D => s \in responses'
  BY DeleteLeft
<1>2. UniqueTriggers'
  BY <1>1 DEF UniqueTriggers, Tables
<1>3. OneResponse'
  BY <1>1 DEF OneResponse, TypeOf, Tables
<1> QED
  BY <1>2, <1>3 DEF Coherent

LEMMA CoherentNext == Typed /\ Tables /\ [Next]_vars => Coherent'
<1> SUFFICES ASSUME Typed, Tables, [Next]_vars PROVE Coherent'
  OBVIOUS
<1>1. CASE UNCHANGED tables
  BY <1>1 DEF tables, Tables, Coherent, UniqueTriggers, OneResponse, Live, TypeOf
<1>2. ASSUME NEW h \in Handlers, InsertRows(h) PROVE Coherent'
  BY <1>2, InsertKeepsTables DEF Tables, Coherent
<1>3. ASSUME NEW h \in Handlers, RemoveTrigger(h) PROVE Coherent'
  <2>1. PICK t \in triggers :
          LET left == triggers \ {t}
              last == \A u \in left : u[1] # t[1]
          IN /\ t[1] \in FiltersOf(cmd[h].chat)
             /\ DeleteFilters(h, IF last THEN {t[1]} ELSE {}, left)
    BY <1>3 DEF RemoveTrigger
  <2> DEFINE left == triggers \ {t}
             D == IF \A u \in left : u[1] # t[1] THEN {t[1]} ELSE {}
  <2>2. D \in SUBSET Live /\ left \in SUBSET triggers /\ DeleteFilters(h, D, left)
    BY <2>1 DEF FiltersOf
  <2> HIDE DEF D, left
  <2> QED
    BY <2>2, DeleteKeepsCoherent
<1>4. ASSUME NEW h \in Handlers, RemoveAllFilters(h) PROVE Coherent'
  <2>1. FiltersOf(cmd[h].chat) \in SUBSET Live
    BY DEF FiltersOf
  <2>2. DeleteFilters(h, FiltersOf(cmd[h].chat), triggers)
    BY <1>4 DEF RemoveAllFilters
  <2> QED
    BY <2>1, <2>2, DeleteKeepsCoherent
<1> QED
  BY <1>1, <1>2, <1>3, <1>4
     DEF Next, Step, Receive, SaveMedia, SaveFails, DeleteMedia, DeleteFails, Begin, NoChange,
         CreateTextFilter, CreateReactionFilter, CreateMediaFilter, CreateRejected, Crash, vars, tables

-----------------------------------------------------------------------------
(* Coherent tables are a book.                                             *)

LEMMA BookIsFunction == bookOfTables = [p \in DOMAIN bookOfTables |-> bookOfTables[p]]
<1> DEFINE S == {<<filters[t[1]].chat, t[2]>> : t \in Matchable}
           e(p) == CHOOSE r \in Replies :
                     \E t \in Matchable : /\ filters[t[1]].chat = p[1] /\ t[2] = p[2]
                                          /\ <<t[1], r>> \in responses
<1>1. bookOfTables = [p \in S |-> e(p)]
  BY DEF bookOfTables
<1> HIDE DEF S, e
<1> QED
  BY <1>1

LEMMA BookIsFaithful == TypeOK /\ Coherent => Faithful
<1> SUFFICES ASSUME TypeOK, Coherent PROVE Faithful
  OBVIOUS
<1>1. DOMAIN bookOfTables = {Key(t) : t \in Matchable}
  BY DEF bookOfTables, Key
<1>2. ASSUME NEW t \in Matchable, NEW s \in responses, t[1] = s[1]
      PROVE  bookOfTables[Key(t)] = s[2]
  <2> DEFINE P(r) == \E u \in Matchable : /\ filters[u[1]].chat = Key(t)[1] /\ u[2] = Key(t)[2]
                                          /\ <<u[1], r>> \in responses
  <2>1. t[1] \in Live /\ s = <<t[1], s[2]>> /\ s[2] \in Replies
    BY <1>2 DEF TypeOK, Matchable
  <2>2. P(s[2])
    BY <2>1 DEF Key
  <2>3. ASSUME NEW r \in Replies, P(r) PROVE r = s[2]
    <3>1. PICK u \in Matchable : /\ filters[u[1]].chat = Key(t)[1] /\ u[2] = Key(t)[2]
                                /\ <<u[1], r>> \in responses
      BY <2>3
    <3>2. u = t
      BY <3>1 DEF Key, Coherent, UniqueTriggers, Matchable
    <3>3. <<t[1], r>> = s
      BY <1>2, <2>1, <3>1, <3>2 DEF Coherent, OneResponse
    <3> QED
      BY <2>1, <3>3
  <2>4. (CHOOSE r \in Replies : P(r)) = s[2]
    <3> HIDE DEF P
    <3> QED
      BY <2>1, <2>2, <2>3
  <2>5. Key(t) \in DOMAIN bookOfTables
    BY <1>1
  <2> QED
    BY <2>4, <2>5 DEF bookOfTables, Key
<1> QED
  BY <1>1, <1>2, BookIsFunction DEF Faithful

LEMMA TriggerAnswered ==
  ASSUME Tables, NEW t \in triggers
  PROVE  t \in Matchable /\ t[1] \in Live /\ \E s \in responses : s[1] = t[1]
BY DEF Tables, NoStrayRows, OneResponse, Matchable

-----------------------------------------------------------------------------
(* The steps of the book.                                                  *)

LEMMA InsertDefines ==
  ASSUME TypeOK, Tables, Faithful, Faithful', NEW h \in Handlers, InsertRows(h)
  PROVE  Book!Define(cmd[h].chat, cmd[h].texts, cmd[h].reply)
<1> DEFINE c == cmd[h].chat
           T == cmd[h].texts
           r == cmd[h].reply
<1>1. PICK i \in Ids :
        /\ CanInsert(h, i)
        /\ filters' = [k \in Live \cup {i} |->
                         IF k = i THEN [chat |-> c, type |-> TypeOf(r)] ELSE filters[k]]
        /\ triggers' = triggers \cup ({i} \X T)
        /\ responses' = responses \cup {<<i, r>>}
  BY DEF InsertRows
<1>2. i \notin Live
  BY <1>1 DEF CanInsert, IsNextId, TypeOK, Ids
<1>2a. Matchable = triggers /\ Matchable' = triggers'
  <2>1. \A t \in triggers : t[1] \in Live
    BY TriggerAnswered
  <2>2. Live' = Live \cup {i}
    BY <1>1 DEF Live
  <2>3. \A t \in triggers' : t[1] \in Live'
    BY <1>1, <2>1, <2>2
  <2> QED
    BY <2>1, <2>3 DEF Matchable
<1>3. \A x \in T : <<c, x>> \notin DOMAIN bookOfTables
  <2>1. \A t \in triggers, x \in T : Key(t) # <<c, x>>
    BY <1>1, TriggerAnswered DEF CanInsert, Duplicate, FiltersOf, Key
  <2>2. DOMAIN bookOfTables = {Key(t) : t \in triggers}
    BY <1>2a DEF Faithful
  <2> QED
    BY <2>1, <2>2
<1>4. \A t \in triggers : Key(t)' = Key(t)
  BY <1>1, <1>2, TriggerAnswered DEF Key
<1>5. \A x \in T : <<i, x>> \in triggers' /\ Key(<<i, x>>)' = <<c, x>>
  BY <1>1 DEF Key
<1>6. DOMAIN bookOfTables' = DOMAIN bookOfTables \cup ({c} \X T)
  <2>1. DOMAIN bookOfTables' = {Key(t)' : t \in triggers'}
    BY <1>2a DEF Faithful
  <2>2. ASSUME NEW t \in triggers' PROVE Key(t)' \in DOMAIN bookOfTables \cup ({c} \X T)
    <3>1. CASE t \in triggers
      BY <1>2a, <1>4, <3>1 DEF Faithful
    <3>2. CASE t \in {i} \X T
      <4>1. PICK x \in T : t = <<i, x>>
        BY <3>2
      <4> QED
        BY <1>5, <4>1
    <3> QED
      BY <1>1, <3>1, <3>2
  <2>3. ASSUME NEW t \in triggers PROVE Key(t) \in DOMAIN bookOfTables'
    BY <1>1, <1>4, <2>1
  <2>4. ASSUME NEW x \in T PROVE <<c, x>> \in DOMAIN bookOfTables'
    BY <1>5, <2>1
  <2> QED
    BY <1>2a, <2>1, <2>2, <2>3, <2>4 DEF Faithful
<1>7. ASSUME NEW p \in DOMAIN bookOfTables PROVE bookOfTables'[p] = bookOfTables[p]
  <2>1. PICK t \in triggers : p = Key(t)
    BY <1>2a DEF Faithful
  <2>2. PICK s \in responses : s[1] = t[1]
    BY TriggerAnswered
  <2>3. t \in triggers' /\ s \in responses' /\ Key(t)' = p
    BY <1>1, <1>4, <2>1
  <2> QED
    BY <1>2a, <2>1, <2>2, <2>3 DEF Faithful
<1>8. ASSUME NEW x \in T PROVE bookOfTables'[<<c, x>>] = r
  <2>1. <<i, r>> \in responses' /\ <<i, x>>[1] = <<i, r>>[1] /\ <<i, r>>[2] = r
    BY <1>1
  <2>2. <<i, x>> \in Matchable' /\ Key(<<i, x>>)' = <<c, x>>
    BY <1>2a, <1>5
  <2>3. bookOfTables'[Key(<<i, x>>)'] = <<i, r>>[2]
    BY <2>1, <2>2 DEF Faithful
  <2> QED
    BY <2>1, <2>2, <2>3
<1>9. bookOfTables' = [p \in DOMAIN bookOfTables' |-> bookOfTables'[p]]
  BY DEF Faithful
<1> QED
  BY <1>3, <1>6, <1>7, <1>8, <1>9 DEF Book!Define

\* What is left of the book when filters D and all triggers but left go.
LEMMA DeleteLeaves ==
  ASSUME Tables, Faithful, Faithful', NEW h \in Handlers,
         NEW D \in SUBSET Live, NEW left \in SUBSET triggers, DeleteFilters(h, D, left)
  PROVE  bookOfTables' = [p \in {Key(t) : t \in {u \in left : u[1] \notin D}} |-> bookOfTables[p]]
<1>1. /\ \A i \in Live \ D : filters'[i] = filters[i]
      /\ \A s \in responses : s[1] \notin D => s \in responses'
      /\ Matchable' = {u \in left : u[1] \notin D}
  BY DeleteLeft
<1>2. \A t \in Matchable' : t \in triggers /\ t[1] \in Live \ D /\ Key(t)' = Key(t)
  BY <1>1, TriggerAnswered DEF Key
<1>3. DOMAIN bookOfTables' = {Key(t) : t \in Matchable'}
  <2>1. DOMAIN bookOfTables' = {Key(t)' : t \in Matchable'}
    BY DEF Faithful
  <2> QED
    BY <1>2, <2>1
<1>4. ASSUME NEW t \in Matchable' PROVE bookOfTables'[Key(t)] = bookOfTables[Key(t)]
  <2>1. t \in triggers /\ t \in Matchable
    BY <1>2, TriggerAnswered
  <2>2. PICK s \in responses : s[1] = t[1]
    BY <2>1, TriggerAnswered
  <2>3. s \in responses'
    BY <1>1, <1>2, <2>2
  <2>4. bookOfTables[Key(t)] = s[2]
    BY <2>1, <2>2 DEF Faithful
  <2>5. bookOfTables'[Key(t)'] = s[2]
    BY <2>2, <2>3 DEF Faithful
  <2> QED
    BY <1>2, <2>4, <2>5
<1>5. bookOfTables' = [p \in DOMAIN bookOfTables' |-> bookOfTables'[p]]
  BY DEF Faithful
<1> QED
  BY <1>1, <1>3, <1>4, <1>5

LEMMA StopForgets ==
  ASSUME Tables, Faithful, Faithful', NEW h \in Handlers, RemoveTrigger(h)
  PROVE  Book!Forget(cmd[h].chat, cmd[h].text)
<1>0. Matchable = triggers
  BY TriggerAnswered DEF Matchable
<1>1. PICK t \in triggers :
        LET left == triggers \ {t}
            last == \A u \in left : u[1] # t[1]
        IN /\ t[1] \in FiltersOf(cmd[h].chat) /\ t[2] = cmd[h].text
           /\ DeleteFilters(h, IF last THEN {t[1]} ELSE {}, left)
  BY DEF RemoveTrigger
<1> DEFINE left == triggers \ {t}
           D == IF \A u \in left : u[1] # t[1] THEN {t[1]} ELSE {}
<1>2. D \in SUBSET Live /\ left \in SUBSET triggers /\ DeleteFilters(h, D, left)
  BY <1>1 DEF FiltersOf
<1>3. {u \in left : u[1] \notin D} = left
  OBVIOUS
<1>4. Key(t) = <<cmd[h].chat, cmd[h].text>>
  BY <1>1 DEF Key, FiltersOf
<1>5. \A u \in left : Key(u) # Key(t)
  BY TriggerAnswered DEF Key, Tables, UniqueTriggers
<1>6. {Key(u) : u \in left} = DOMAIN bookOfTables \ {Key(t)}
  BY <1>0, <1>5 DEF Faithful
<1>7. bookOfTables' = [p \in {Key(u) : u \in {v \in left : v[1] \notin D}} |-> bookOfTables[p]]
  <2> HIDE DEF D, left
  <2> QED
    BY <1>2, DeleteLeaves
<1>8. bookOfTables' = [p \in DOMAIN bookOfTables \ {Key(t)} |-> bookOfTables[p]]
  BY <1>3, <1>6, <1>7
<1>9. Key(t) \in DOMAIN bookOfTables
  BY <1>0 DEF Faithful
<1> QED
  BY <1>4, <1>8, <1>9 DEF Book!Forget

LEMMA StopAllClears ==
  ASSUME Tables, Faithful, Faithful', NEW h \in Handlers, RemoveAllFilters(h)
  PROVE  Book!Clear(cmd[h].chat)
<1> DEFINE c == cmd[h].chat
           D == FiltersOf(c)
<1>0. Matchable = triggers
  BY TriggerAnswered DEF Matchable
<1>1. D \in SUBSET Live /\ DeleteFilters(h, D, triggers)
  BY DEF RemoveAllFilters, FiltersOf
<1>2. bookOfTables' = [p \in {Key(t) : t \in {u \in triggers : u[1] \notin D}} |-> bookOfTables[p]]
  <2> HIDE DEF D
  <2> QED
    BY <1>1, DeleteLeaves
<1>3. \A t \in triggers : t[1] \notin D <=> Key(t)[1] # c
  BY TriggerAnswered DEF FiltersOf, Key
<1>4. {Key(t) : t \in {u \in triggers : u[1] \notin D}} = {q \in DOMAIN bookOfTables : q[1] # c}
  BY <1>0, <1>3 DEF Faithful
<1> QED
  BY <1>2, <1>4 DEF Book!Clear

LEMMA RemovalType ==
  ASSUME TypeOK, NEW h \in Handlers
  PROVE  /\ cmd[h].op = "stop" => cmd[h].chat \in Chats /\ cmd[h].text \in Texts
         /\ cmd[h].op = "stopall" => cmd[h].chat \in Chats
<1>1. cmd[h] \in Commands \cup {NoCommand}
  BY DEF TypeOK
<1>2. cmd[h].op = "stop" => cmd[h] \in StopCommands
  BY <1>1 DEF Commands, CreateCommands, StopAllCommands, Query, NoCommand
<1>3. cmd[h].op = "stopall" => cmd[h] \in StopAllCommands
  BY <1>1 DEF Commands, CreateCommands, StopCommands, Query, NoCommand
<1> QED
  BY <1>2, <1>3 DEF StopCommands, StopAllCommands

LEMMA BookStep ==
  ASSUME Typed, Tables, Faithful, Faithful', [Next]_vars
  PROVE  [Book!Next]_bookOfTables
<1>0. TypeOK
  BY DEF Typed
<1>1. CASE UNCHANGED tables
  BY <1>1 DEF tables, bookOfTables, Matchable, Live
<1>2. ASSUME NEW h \in Handlers, InsertRows(h) PROVE Book!Next
  <2>1. cmd[h].chat \in Chats /\ cmd[h].texts \in (SUBSET Texts) \ {{}} /\ cmd[h].reply \in Replies
    BY <1>0, <1>2, CreateType DEF InsertRows
  <2> QED
    BY <1>0, <1>2, <2>1, InsertDefines DEF Book!Next
<1>3. ASSUME NEW h \in Handlers, RemoveTrigger(h) PROVE Book!Next
  <2>1. cmd[h].chat \in Chats /\ cmd[h].text \in Texts
    BY <1>0, <1>3, RemovalType DEF RemoveTrigger
  <2> QED
    BY <1>3, <2>1, StopForgets DEF Book!Next
<1>4. ASSUME NEW h \in Handlers, RemoveAllFilters(h) PROVE Book!Next
  <2>1. cmd[h].chat \in Chats
    BY <1>0, <1>4, RemovalType DEF RemoveAllFilters
  <2> QED
    BY <1>4, <2>1, StopAllClears DEF Book!Next
<1> QED
  BY <1>1, <1>2, <1>3, <1>4
     DEF Next, Step, Receive, SaveMedia, SaveFails, DeleteMedia, DeleteFails, Begin, NoChange,
         CreateTextFilter, CreateReactionFilter, CreateMediaFilter, CreateRejected, Crash, vars, tables

\* /filter, /stop and /stopall change the book of a chat one command at a time,
\* over any number of connections: a command defines, forgets or clears what it
\* names, or fails and changes nothing (repository.go:28-339).  So it goes until
\* a delete without the pragma has left rows behind, that delete included.
THEOREM BookRefined == Spec => ImplementsBook
<1>1. Init => Book!Init
  BY DEF Init, Book!Init, bookOfTables, Matchable
<1>2. Spec => []Typed
  BY TypedInit, TypedNext, PTL DEF Spec
<1>3. Consistent /\ ~skipped => Tables /\ Coherent
  BY DEF Consistent, Tables, Coherent
<1>4. Typed /\ Coherent => Faithful
  BY BookIsFaithful DEF Typed
<1>5. Typed /\ Tables /\ [Next]_vars => Coherent'
  BY CoherentNext
<1>6. Typed /\ Tables /\ Faithful /\ Faithful' /\ [Next]_vars
        => [skipped \/ Book!Next]_bookOfTables
  BY BookStep
<1> QED
  BY <1>1, <1>2, <1>3, <1>4, <1>5, <1>6, TablesConsistent, PTL DEF Spec, ImplementsBook
=============================================================================

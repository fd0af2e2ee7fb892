----------------------------- MODULE FilterStore -----------------------------
(***************************************************************************)
(* The filters of the bot: the SQLite tables that hold them, the directory *)
(* that holds the media files they reply with, and the goroutines that     *)
(* execute /filter, /stop and /stopall on both.                            *)
(*                                                                         *)
(* bot.Setup starts one goroutine per message, so any number of commands   *)
(* run at once.  A command is a sequence of steps on two stores that no    *)
(* common lock protects:                                                   *)
(*                                                                         *)
(*   /filter (media)   save the file -> transaction [-> delete the file]   *)
(*   /filter (other)   transaction                                         *)
(*   /stop, /stopall   transaction -> delete the files it found unused     *)
(*                                                                         *)
(* A transaction is one atomic step, or fails: SQLite in WAL mode gives a  *)
(* transaction a snapshot and refuses its first write when another one     *)
(* has committed since.  What is not atomic is the choice of connection:   *)
(* `PRAGMA foreign_keys = ON` is executed once, on whichever connection of *)
(* the pool runs it, and it is a property of that connection alone.        *)
(***************************************************************************)
EXTENDS Naturals, Sequences, FiniteSets

CONSTANTS
  Handlers,     \* goroutines that process a message at the same time
  Chats,        \* group chats
  Texts,        \* normalised trigger texts
  Media,        \* names of media files: SHA-512 of the content + extension
  Plain,        \* the non-media responses in use: "text", "reaction"
  MaxFilterId,  \* bound: the largest row id of table filters
  MaxConns,     \* bound: connections open at once (the code sets no limit)
  Faults        \* what the environment may do: "save", "db", "delete", "crash"

ASSUME PlainAssumption == Plain \subseteq {"text", "reaction"}
ASSUME MediaAssumption == Media \cap {"text", "reaction"} = {}
ASSUME BoundsAssumption == MaxFilterId \in Nat \ {0} /\ MaxConns \in Nat \ {0}
ASSUME FaultsAssumption == Faults \subseteq {"save", "db", "delete", "crash"}

VARIABLES
  filters,      \* table filters: row id -> chat and response type
  triggers,     \* table filter_triggers: <<filter id, text>>
  responses,    \* tables filter_{text,media,reaction}_resp: <<filter id, reply>>
  files,        \* the media directory: what each name holds
  idle,         \* idle connections of the pool, the last one is reused first
  pc,           \* where each handler is
  cmd,          \* the command it executes
  conn,         \* foreign_keys on the connection its transaction holds
  doomed,       \* files it still has to delete
  skipped       \* history: a filter was deleted and its rows were not

tables == <<filters, triggers, responses>>
handlers == <<pc, cmd, conn, doomed>>
vars == <<filters, triggers, responses, files, idle, pc, cmd, conn, doomed, skipped>>

-----------------------------------------------------------------------------
Ids == 1 .. MaxFilterId
Replies == Plain \cup Media

\* Mutant of TypeOf: the hash itself is stored as the response type.
TypeOfHash(r) == r

\* The response table (and response_type) of a reply; a file is its own reply.
TypeOf(r) == IF r \in Media THEN "media" ELSE r

\* Commands as they reach the repository: parsed, validated and normalised.
\* repeated: the trigger list names one text twice.
CreateCommands == [op : {"create"}, chat : Chats, texts : (SUBSET Texts) \ {{}},
                   repeated : BOOLEAN, reply : Replies]
StopCommands == [op : {"stop"}, chat : Chats, text : Texts]
StopAllCommands == [op : {"stopall"}, chat : Chats]
Query == [op |-> "query"]        \* any handler that only reads the database
NoCommand == [op |-> "none"]
Commands == CreateCommands \cup StopCommands \cup StopAllCommands \cup {Query}

Live == DOMAIN filters
\* Mutant of FiltersOf: WHERE chat_id = ? is missing.
FiltersOfAnyChat(c) == Live
FiltersOf(c) == {i \in Live : filters[i].chat = c}
ReferencesTo(m) == {r \in responses : r[2] = m}    \* CountMediaResponsesByHash

TypeOK ==
  /\ Live \subseteq Ids
  /\ filters \in [Live -> [chat : Chats, type : {"text", "reaction", "media"}]]
  /\ triggers \subseteq Ids \X Texts
  /\ responses \subseteq Ids \X Replies
  /\ files \in [Media -> {"absent", "partial", "whole"}]
  /\ idle \in Seq({"on", "off"})
  /\ pc \in [Handlers -> {"idle", "save", "begin", "tx", "cleanup"}]
  /\ cmd \in [Handlers -> Commands \cup {NoCommand}]
  /\ conn \in [Handlers -> {"none", "on", "off"}]
  /\ doomed \in [Handlers -> SUBSET Media]
  /\ skipped \in BOOLEAN

Init ==
  /\ filters = << >> /\ triggers = {} /\ responses = {}
  /\ files = [m \in Media |-> "absent"]
  /\ idle = <<"on">>
  /\ pc = [h \in Handlers |-> "idle"]
  /\ cmd = [h \in Handlers |-> NoCommand]
  /\ conn = [h \in Handlers |-> "none"]
  /\ doomed = [h \in Handlers |-> {}]
  /\ skipped = FALSE

-----------------------------------------------------------------------------
(* The goroutine of a message reaches its command, and ends.               *)

Receive(h) ==
  /\ pc[h] = "idle"
  /\ \E k \in Commands :
       /\ cmd' = [cmd EXCEPT ![h] = k]
       /\ pc' = [pc EXCEPT ![h] = IF k.op = "create" /\ k.reply \in Media
                                  THEN "save" ELSE "begin"]
  /\ UNCHANGED <<tables, files, idle, conn, doomed, skipped>>

\* The handler goes on to delete the files D, or returns when there are none.
CleanUp(h, D) ==
  /\ doomed' = [doomed EXCEPT ![h] = D]
  /\ pc' = [pc EXCEPT ![h] = IF D = {} THEN "idle" ELSE "cleanup"]
  /\ cmd' = [cmd EXCEPT ![h] = IF D = {} THEN NoCommand ELSE @]

-----------------------------------------------------------------------------
(* Media files.                                                            *)

SaveMedia(h) ==
  /\ pc[h] = "save"
  /\ files' = [files EXCEPT ![cmd[h].reply] = "whole"]
  /\ pc' = [pc EXCEPT ![h] = "begin"]
  /\ UNCHANGED <<tables, idle, cmd, conn, doomed, skipped>>

\* The write fails before or after the file is truncated; nothing is undone.
SaveFails(h) ==
  /\ "save" \in Faults
  /\ pc[h] = "save"
  /\ \E f \in {files[cmd[h].reply], "partial"} :
       files' = [files EXCEPT ![cmd[h].reply] = f]
  /\ CleanUp(h, {})
  /\ UNCHANGED <<tables, idle, conn, skipped>>

DeleteMedia(h) ==
  /\ pc[h] = "cleanup"
  /\ \E m \in doomed[h] :
       /\ files' = [files EXCEPT ![m] = "absent"]
       /\ CleanUp(h, doomed[h] \ {m})
  /\ UNCHANGED <<tables, idle, conn, skipped>>

\* The error of Delete is logged and the handler goes on.
DeleteFails(h) ==
  /\ "delete" \in Faults
  /\ pc[h] = "cleanup"
  /\ \E m \in doomed[h] : CleanUp(h, doomed[h] \ {m})
  /\ UNCHANGED <<tables, files, idle, conn, skipped>>

-----------------------------------------------------------------------------
(* The connection pool of database/sql: reuse the connection that was      *)
(* returned last, open one when none is idle, keep at most two idle.  Only *)
(* the connection opened by database.Open has executed the pragma.         *)

Open == Len(idle) + Cardinality({h \in Handlers : conn[h] # "none"})

Begin(h) ==
  /\ pc[h] = "begin"
  /\ \/ /\ idle # << >>
        /\ conn' = [conn EXCEPT ![h] = idle[Len(idle)]]
        /\ idle' = SubSeq(idle, 1, Len(idle) - 1)
     \/ /\ idle = << >>
        /\ Open < MaxConns
        /\ conn' = [conn EXCEPT ![h] = "off"]
        /\ UNCHANGED idle
  /\ pc' = [pc EXCEPT ![h] = "tx"]
  /\ UNCHANGED <<tables, files, cmd, doomed, skipped>>

\* Commit or rollback: the connection goes back to the pool or is closed.
Release(h) ==
  /\ conn' = [conn EXCEPT ![h] = "none"]
  /\ idle' = IF Len(idle) < 2 THEN Append(idle, conn[h]) ELSE idle

-----------------------------------------------------------------------------
(* Repository transactions.                                                *)

\* SQLite gives a new row one more than the largest id in the table, so the
\* id of a deleted filter is given out again when it was the largest.
IsNextId(i) == (\A k \in Live : k < i) /\ (i = 1 \/ i - 1 \in Live)

\* Mutant of Duplicate: the check inside the transaction is missing.
DuplicateUnchecked(c, T) == FALSE

Duplicate(c, T) == \E t \in triggers : t[1] \in FiltersOf(c) /\ t[2] \in T

\* The primary keys and UNIQUE constraints the inserts have to satisfy.
KeysFree(i, T, r) ==
  /\ \A t \in triggers : ~(t[1] = i /\ t[2] \in T)
  /\ \A s \in responses : ~(s[1] = i /\ TypeOf(s[2]) = TypeOf(r))

CanInsert(h, i) ==
  /\ ~Duplicate(cmd[h].chat, cmd[h].texts)
  /\ ~cmd[h].repeated
  /\ IsNextId(i)
  /\ KeysFree(i, cmd[h].texts, cmd[h].reply)

InsertRows(h) ==
  /\ pc[h] = "tx" /\ cmd[h].op = "create"
  /\ \E i \in Ids :
       /\ CanInsert(h, i)
       /\ filters' = [k \in Live \cup {i} |->
                        IF k = i THEN [chat |-> cmd[h].chat,
                                       type |-> TypeOf(cmd[h].reply)]
                                 ELSE filters[k]]
       /\ triggers' = triggers \cup ({i} \X cmd[h].texts)
       /\ responses' = responses \cup {<<i, cmd[h].reply>>}
  /\ Release(h)
  /\ CleanUp(h, {})
  /\ UNCHANGED <<files, skipped>>

CreateTextFilter(h) == cmd[h].op = "create" /\ cmd[h].reply = "text" /\ InsertRows(h)
CreateReactionFilter(h) == cmd[h].op = "create" /\ cmd[h].reply = "reaction" /\ InsertRows(h)
CreateMediaFilter(h) == cmd[h].op = "create" /\ cmd[h].reply \in Media /\ InsertRows(h)

\* Mutant of CreateRejected: the saved file is not cleaned up.
CreateRejectedNoCleanup(h) ==
  /\ pc[h] = "tx" /\ cmd[h].op = "create"
  /\ "db" \in Faults \/ \A i \in Ids : ~CanInsert(h, i)
  /\ Release(h)
  /\ CleanUp(h, {})
  /\ UNCHANGED <<tables, files, skipped>>

\* Every error of a creation rolls back, and a media handler then deletes the
\* file it saved.
CreateRejected(h) ==
  /\ pc[h] = "tx" /\ cmd[h].op = "create"
  /\ "db" \in Faults \/ \A i \in Ids : ~CanInsert(h, i)
  /\ Release(h)
  /\ CleanUp(h, {cmd[h].reply} \cap Media)
  /\ UNCHANGED <<tables, files, skipped>>

\* DELETE FROM filters for the rows D on the connection of h: ON DELETE
\* CASCADE takes their triggers and responses along only where the connection
\* enforces foreign keys.  left: the triggers before the cascade.
DeleteFilters(h, D, left) ==
  /\ filters' = [i \in Live \ D |-> filters[i]]
  /\ IF conn[h] = "on"
     THEN /\ triggers' = {t \in left : t[1] \notin D}
          /\ responses' = {r \in responses : r[1] \notin D}
          /\ UNCHANGED skipped
     ELSE /\ triggers' = left
          /\ UNCHANGED responses
          /\ skipped' = (skipped \/ D # {})

\* The media response of filter i, if its type is media.
MediaOf(i) == {r[2] : r \in {s \in responses :
                              filters[i].type = "media" /\ s[1] = i /\ s[2] \in Media}}

\* Mutant of LastReference: files are not reference-counted.
EveryReference(m) == TRUE

\* Counted before the filter is deleted, over the filters of all chats.
LastReference(m) == Cardinality(ReferencesTo(m)) = 1

RemoveTrigger(h) ==
  /\ pc[h] = "tx" /\ cmd[h].op = "stop"
  /\ \E t \in triggers :
       /\ t[1] \in FiltersOf(cmd[h].chat) /\ t[2] = cmd[h].text
       /\ LET left == triggers \ {t}
              last == \A u \in left : u[1] # t[1]
          IN /\ DeleteFilters(h, IF last THEN {t[1]} ELSE {}, left)
             /\ CleanUp(h, IF last
                           THEN {m \in MediaOf(t[1]) : LastReference(m)}
                           ELSE {})
  /\ Release(h)
  /\ UNCHANGED files

RemoveAllFilters(h) ==
  /\ pc[h] = "tx" /\ cmd[h].op = "stopall"
  /\ DeleteFilters(h, FiltersOf(cmd[h].chat), triggers)
  /\ CleanUp(h, {m \in Media : /\ \E r \in ReferencesTo(m) : r[1] \in FiltersOf(cmd[h].chat)
                               /\ \A r \in responses' : r[2] # m})
  /\ Release(h)
  /\ UNCHANGED files

\* A removal that finds no such trigger or meets a database error, and a
\* handler that only reads: the tables stay as they are.
NoChange(h) ==
  /\ pc[h] = "tx"
  /\ \/ cmd[h].op = "query"
     \/ cmd[h].op = "stop" /\ ~Duplicate(cmd[h].chat, {cmd[h].text})
     \/ cmd[h].op \in {"stop", "stopall"} /\ "db" \in Faults
  /\ Release(h)
  /\ CleanUp(h, {})
  /\ UNCHANGED <<tables, files, skipped>>

-----------------------------------------------------------------------------
\* The process dies and starts again: committed rows and files stay, a file
\* that was being written may be torn, every handler is gone, and Open runs
\* the pragma on the first connection of a new pool.
Crash ==
  /\ "crash" \in Faults
  /\ \E torn \in SUBSET {cmd[h].reply : h \in {g \in Handlers : pc[g] = "save"}} :
       files' = [m \in Media |-> IF m \in torn THEN "partial" ELSE files[m]]
  /\ idle' = <<"on">>
  /\ pc' = [h \in Handlers |-> "idle"]
  /\ cmd' = [h \in Handlers |-> NoCommand]
  /\ conn' = [h \in Handlers |-> "none"]
  /\ doomed' = [h \in Handlers |-> {}]
  /\ UNCHANGED <<tables, skipped>>

Step(h) ==
  \/ Receive(h) \/ SaveMedia(h) \/ SaveFails(h) \/ DeleteMedia(h) \/ DeleteFails(h)
  \/ Begin(h)
  \/ CreateTextFilter(h) \/ CreateReactionFilter(h) \/ CreateMediaFilter(h)
  \/ CreateRejected(h)
  \/ RemoveTrigger(h) \/ RemoveAllFilters(h) \/ NoChange(h)

Next == (\E h \in Handlers : Step(h)) \/ Crash

Spec == Init /\ [][Next]_vars

-----------------------------------------------------------------------------
(* Properties.  A filter deleted on a connection that does not enforce     *)
(* foreign keys leaves its rows behind (skipped), and what the tables hold *)
(* is then no longer what the schema promises: the invariants say that     *)
(* nothing else, no interleaving, failure or crash, can break it.          *)

\* Every trigger and response row belongs to a filter that exists: what
\* ON DELETE CASCADE in 002_filters.up.sql is for.
NoStrayRows ==
  /\ \A t \in triggers : t[1] \in Live
  /\ \A r \in responses : r[1] \in Live

\* A trigger text belongs to at most one filter of a chat: the check of the
\* Create transactions, the schema has no constraint for it.
UniqueTriggers ==
  \A t, u \in triggers :
    (t[2] = u[2] /\ t[1] \in Live /\ u[1] \in Live /\ filters[t[1]].chat = filters[u[1]].chat)
      => t = u

\* A filter can be matched and removed: it has a trigger (RemoveTrigger deletes
\* it with the last one).
EveryFilterHasTrigger == \A i \in Live : \E t \in triggers : t[1] = i

\* A filter has one response, in the table its response_type names.
OneResponse ==
  \A i \in Live :
    /\ \E r \in responses : r[1] = i /\ TypeOf(r[2]) = filters[i].type
    /\ \A r, s \in responses : r[1] = i /\ s[1] = i => r = s

\* The tables stay consistent under any interleaving, failure and restart of
\* the commands, as long as the pool used no connection without the pragma
\* for a delete.
Consistent ==
  skipped \/ (NoStrayRows /\ UniqueTriggers /\ EveryFilterHasTrigger /\ OneResponse)

\* Some filter, of any chat, replies with file m.
InUse(m) == \E i \in Live : m \in MediaOf(i)

\* Somebody answers for file m: a filter replies with it, a handler is about
\* to make it a filter's reply, or a handler is about to delete it.
Tracked(m) ==
  \/ InUse(m)
  \/ \E h \in Handlers :
       \/ pc[h] \in {"begin", "tx"} /\ cmd[h].op = "create" /\ cmd[h].reply = m
       \/ m \in doomed[h]

\* No interleaving of creations and removals leaks a media file: a complete
\* file nobody answers for is left only by a crash, by a failed Delete, or by
\* a missing cascade.
NoLeak ==
  [][\A m \in Media :
       (files[m] # "whole" \/ Tracked(m)) /\ files'[m] = "whole" /\ ~Tracked(m)'
         => skipped' \/ Crash \/ \E h \in Handlers : DeleteFails(h)]_vars

\* Handler h, whose command is one of ops, removes file m from the disk.
Removes(h, ops, m) ==
  /\ pc[h] = "cleanup" /\ cmd[h].op \in ops
  /\ m \in doomed[h] /\ m \notin doomed'[h]
  /\ files[m] # "absent" /\ files'[m] = "absent"

\* The files /stop and /stopall are going to delete are, when their transaction
\* commits, used by no filter of any chat: the reference counts, taken before
\* the delete in one and after it in the other, are right (repository.go:272,
\* repository.go:329).
StopDoomsUnused ==
  [][\A h \in Handlers :
       (pc[h] = "tx" /\ cmd[h].op \in {"stop", "stopall"})
         => \A m \in doomed'[h] : ~InUse(m)']_vars

\* "The check and deletion SHALL happen before the transaction is committed to
\* prevent race conditions" (media-storage/spec.md:26): /stop and /stopall
\* delete a file only if no filter replies with it.
StopKeepsSharedMedia ==
  [][\A h \in Handlers, m \in Media :
       Removes(h, {"stop", "stopall"}, m) => ~InUse(m)]_vars

\* The cleanup after a failed creation deletes the file only if no filter
\* replies with it (handler.go:459).
FailedCreateKeepsSharedMedia ==
  [][\A h \in Handlers, m \in Media :
       Removes(h, {"create"}, m) => ~InUse(m)]_vars

\* The book the tables stand for: FindMatchingFilters joins triggers with
\* filters and responses in the same way.
Matchable == {t \in triggers : t[1] \in Live}

bookOfTables ==
  [p \in {<<filters[t[1]].chat, t[2]>> : t \in Matchable} |->
     CHOOSE r \in Replies :
       \E t \in Matchable : /\ filters[t[1]].chat = p[1] /\ t[2] = p[2]
                            /\ <<t[1], r>> \in responses]

Book == INSTANCE FilterBook WITH book <- bookOfTables

\* The filter commands implement the book: a command changes the triggers it
\* names, all of them at once, and no others, over any number of connections.
\* A delete without the pragma takes the filter out of the book like any other;
\* only what is done once its rows are left behind is not promised, when a
\* filter that gets the old id gets the old rows too.
ImplementsBook == Book!Init /\ [][skipped \/ Book!Next]_bookOfTables
=============================================================================

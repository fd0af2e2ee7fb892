---------------------------- MODULE Conversations ----------------------------
(***************************************************************************)
(* The conversations with the AI: how a message is routed to its handler,  *)
(* the table conversation_messages, and what of it a reply sends to the AI *)
(* service as history.                                                     *)
(*                                                                         *)
(* Every message has a goroutine of its own.  It reads the table twice, to *)
(* find out that it is a continuation and to load the history, then waits  *)
(* for the AI service, shows the response in the chat and only then stores *)
(* its two rows, with the thread root it read at the start.                *)
(*                                                                         *)
(* Abstracted:                                                             *)
(*  - a message is its id: <<m, "user">> for what a user wrote and         *)
(*    <<m, "assistant">> for the response to it;                           *)
(*  - tools and the job queue are a delay in "ask" (ChatMemory has them);  *)
(*  - the filter and memory commands end at once (FilterStore, ChatMemory);*)
(*  - a user replies to messages of the same chat.                         *)
(***************************************************************************)
EXTENDS Integers, Sequences, FiniteSets

CONSTANTS
  Msgs,        \* messages users write
  Chats,
  Groups,      \* the chats that are groups, the others are direct
  Allowed,     \* the chats that may use the assistant, {} for all of them
  MaxHistory,  \* openai_max_history
  Faults,      \* "api", "db", "net", "crash"
  None         \* no message

ASSUME GroupsAssumption == Groups \subseteq Chats
ASSUME HistoryAssumption == MaxHistory \in Int
ASSUME FaultsAssumption == Faults \subseteq {"api", "db", "net", "crash"}
ASSUME NoneAssumption == None \notin Msgs \X {"user", "assistant"}

VARIABLES
  table,       \* conversation_messages, in the order of its ids
  pc,          \* where the handler of each message is
  chat,        \* the chat it was written in
  kind,        \* the handler it was routed to
  quote,       \* the message it replies to, or None
  root,        \* threadRootID of its handler
  history,     \* the chain it sends to the AI service, << >> before
  sent,        \* messages whose response is in the chat
  lost         \* history: messages that will have no row

message == <<chat, kind, quote>>
vars == <<table, pc, message, root, history, sent, lost>>

-----------------------------------------------------------------------------
Roles == {"user", "assistant"}
Ids == Msgs \X Roles

Rows == [msg : Ids, parent : Ids \cup {None}, root : Ids]

Stored(id) == \E i \in DOMAIN table : table[i].msg = id

TypeOK ==
  /\ table \in Seq(Rows)
  /\ pc \in [Msgs -> {"new", "load", "ask", "reply", "saveUser", "saveAssistant", "done"}]
  /\ chat \in [Msgs -> Chats \cup {None}]
  /\ kind \in [Msgs -> {"none", "prompt", "continuation", "other"}]
  /\ quote \in [Msgs -> Ids \cup {None}]
  /\ root \in [Msgs -> Ids \cup {None}]
  /\ history \in [Msgs -> Seq(Ids)]
  /\ sent \subseteq Msgs
  /\ lost \subseteq Ids

Init ==
  /\ table = << >>
  /\ pc = [m \in Msgs |-> "new"]
  /\ chat = [m \in Msgs |-> None]
  /\ kind = [m \in Msgs |-> "none"]
  /\ quote = [m \in Msgs |-> None]
  /\ root = [m \in Msgs |-> None]
  /\ history = [m \in Msgs |-> << >>]
  /\ sent = {}
  /\ lost = {}

Goto(m, l) == pc' = [pc EXCEPT ![m] = l]

-----------------------------------------------------------------------------
(* A message arrives and is routed.                                        *)

IsAllowed(c) == Allowed = {} \/ c \in Allowed

\* What a user of chat c sees and can reply to.
Quotable(c) ==
  {id \in Ids : /\ chat[id[1]] = c
                /\ id[2] = "assistant" => id[1] \in sent}

\* What a user writes: a command or any other text.
Texts == {"/prompt", "/memory", "/filter", "/stop", "text"}

\* A group has more commands than a direct chat, where the text of a /filter is
\* a text like any other.
Commands(c) ==
  IF c \in Groups THEN {"/prompt", "/memory", "/filter", "/stop"}
                  ELSE {"/prompt", "/memory"}

Arrive(m, c, q, handler) ==
  /\ pc[m] = "new"
  /\ q \in Quotable(c) \cup {None}
  /\ chat' = [chat EXCEPT ![m] = c]
  /\ quote' = [quote EXCEPT ![m] = q]
  /\ kind' = [kind EXCEPT ![m] = handler]
  /\ UNCHANGED <<table, history, sent, lost>>

\* A message of a special contact or of another kind of chat, or one that
\* cannot be fetched.
Ignore(m) ==
  /\ \E c \in Chats, q \in Ids \cup {None} : Arrive(m, c, q, "other")
  /\ Goto(m, "done")
  /\ UNCHANGED root

\* A /prompt starts a conversation, also when it replies to a message.
Prompt(m) ==
  \E c \in Chats, q \in Ids \cup {None} :
    /\ Arrive(m, c, q, "prompt")
    /\ \/ /\ IsAllowed(c)
          /\ root' = [root EXCEPT ![m] = <<m, "user">>]
          /\ Goto(m, "ask")
       \/ \* The chat is not in the allowlist, or the prompt is empty.
          /\ Goto(m, "done")
          /\ UNCHANGED root

OtherCommand(m) ==
  /\ \E c \in Chats, q \in Ids \cup {None} :
       Commands(c) \ {"/prompt"} # {} /\ Arrive(m, c, q, "other")
  /\ Goto(m, "done")
  /\ UNCHANGED root

\* Mutant of ThreadRootOf: the message replied to becomes the root.
ThreadRootOfQuote(q) == q

\* Mutant of ThreadRootOf: the query selects another column.
ThreadRootOfParent(q) == table[CHOOSE i \in DOMAIN table : table[i].msg = q].parent

\* The root in the row of q.
ThreadRootOf(q) == table[CHOOSE i \in DOMAIN table : table[i].msg = q].root

\* A text that is no command and replies to a message of a conversation.
Continuation(m) ==
  \E c \in Chats, q \in Ids :
    /\ Texts \ Commands(c) # {} /\ Stored(q)
    /\ Arrive(m, c, q, "continuation")
    /\ root' = [root EXCEPT ![m] = ThreadRootOf(q)]
    /\ Goto(m, IF IsAllowed(c) THEN "load" ELSE "done")

\* A text that continues no conversation, or the table cannot be read: filters
\* are matched in a group, a direct chat gets the help text.
NoContinuation(m) ==
  /\ \E c \in Chats, q \in Ids \cup {None} :
       /\ q = None \/ ~Stored(q) \/ "db" \in Faults
       /\ Arrive(m, c, q, "other")
  /\ Goto(m, "done")
  /\ UNCHANGED root

-----------------------------------------------------------------------------
(* The history of a continuation.                                          *)

\* Mutant of MostRecent: the limit takes the oldest rows.
Oldest(chain) == SubSeq(chain, 1, IF MaxHistory < Len(chain) THEN MaxHistory ELSE Len(chain))

\* ORDER BY id DESC LIMIT MaxHistory, put back in ascending order; SQLite takes
\* a negative limit for none.
MostRecent(chain) ==
  IF MaxHistory < 0 \/ Len(chain) <= MaxHistory THEN chain
  ELSE SubSeq(chain, Len(chain) - MaxHistory + 1, Len(chain))

\* The recursive query: the leaf and, again and again, the parents in the rows
\* of the messages found so far.
Reached(leaf) ==
  LET reached[n \in 0 .. Len(table)] ==
        IF n = 0 THEN {leaf}
        ELSE reached[n - 1] \cup
             {table[i].parent : i \in {i \in DOMAIN table : table[i].msg \in reached[n - 1]}}
  IN reached[Len(table)]

\* The messages among ids that have a row, in the order of the rows.
InTableOrder(ids) ==
  LET upTo[i \in 0 .. Len(table)] ==
        IF i = 0 THEN << >>
        ELSE IF table[i].msg \in ids THEN Append(upTo[i - 1], table[i].msg) ELSE upTo[i - 1]
  IN upTo[Len(table)]

GetThreadChain(leaf) == MostRecent(InTableOrder(Reached(leaf)))

LoadChain(m) ==
  /\ pc[m] = "load"
  /\ history' = [history EXCEPT ![m] = GetThreadChain(quote[m])]
  /\ Goto(m, "ask")
  /\ UNCHANGED <<table, message, root, sent, lost>>

\* The user is told that the history cannot be retrieved.
LoadFails(m) ==
  /\ "db" \in Faults
  /\ pc[m] = "load"
  /\ Goto(m, "done")
  /\ UNCHANGED <<table, message, root, history, sent, lost>>

-----------------------------------------------------------------------------
(* The AI service, the response and its rows.                              *)

ChatCompletion(m) ==
  /\ pc[m] = "ask"
  /\ \/ Goto(m, "reply")
     \/ "api" \in Faults /\ Goto(m, "done")
  /\ UNCHANGED <<table, message, root, history, sent, lost>>

SendReply(m) ==
  /\ pc[m] = "reply"
  /\ \/ sent' = sent \cup {m} /\ Goto(m, "saveUser")
     \/ "net" \in Faults /\ Goto(m, "done") /\ UNCHANGED sent
  /\ UNCHANGED <<table, message, root, history, lost>>

\* The message that the row of id names as its parent.
Parent(id) ==
  IF id[2] = "assistant" THEN <<id[1], "user">>
  ELSE IF kind[id[1]] = "continuation" THEN quote[id[1]] ELSE None

\* An error, of the database or because msg_id is not unique, is only logged.
SaveMessage(m, role) ==
  LET id == <<m, role>>
  IN /\ \/ /\ ~Stored(id)
           /\ table' = Append(table, [msg |-> id, parent |-> Parent(id), root |-> root[m]])
           /\ UNCHANGED lost
        \/ /\ "db" \in Faults \/ Stored(id)
           /\ lost' = lost \cup {id}
           /\ UNCHANGED table
     /\ UNCHANGED <<message, root, history, sent>>

\* Mutant of SaveUser: an error ends the handler.
SaveUserOrStop(m) ==
  /\ pc[m] = "saveUser" /\ SaveMessage(m, "user")
  /\ Goto(m, IF lost' = lost THEN "saveAssistant" ELSE "done")

SaveUser(m) ==
  pc[m] = "saveUser" /\ SaveMessage(m, "user") /\ Goto(m, "saveAssistant")

\* Mutant of SaveAssistant: a row that was not stored is tried again.
SaveAssistantAndRetry(m) ==
  /\ pc[m] = "saveAssistant" /\ SaveMessage(m, "assistant")
  /\ Goto(m, IF Stored(<<m, "user">>) THEN "done" ELSE "saveUser")

SaveAssistant(m) ==
  pc[m] = "saveAssistant" /\ SaveMessage(m, "assistant") /\ Goto(m, "done")

-----------------------------------------------------------------------------
\* The process dies and starts again: the table stays, every handler is gone.
Crash ==
  /\ "crash" \in Faults
  /\ \E m \in Msgs : pc[m] \notin {"new", "done"}
  /\ pc' = [m \in Msgs |-> IF pc[m] = "new" THEN "new" ELSE "done"]
  /\ lost' = lost \cup {<<m, "user">> : m \in {n \in Msgs : pc[n] = "saveUser"}}
                  \cup {<<m, "assistant">> : m \in {n \in Msgs : pc[n] \in {"saveUser", "saveAssistant"}}}
  /\ UNCHANGED <<table, message, root, history, sent>>

Receive(m) ==
  Ignore(m) \/ Prompt(m) \/ OtherCommand(m) \/ Continuation(m) \/ NoContinuation(m)

Step(m) ==
  \/ LoadChain(m) \/ LoadFails(m) \/ ChatCompletion(m) \/ SendReply(m)
  \/ SaveUser(m) \/ SaveAssistant(m)

Next == (\E m \in Msgs : Receive(m) \/ Step(m)) \/ Crash

Spec == Init /\ [][Next]_vars

-----------------------------------------------------------------------------
(* Properties.                                                             *)

\* Each message of the path is the parent of the next one, q is the last; the
\* first one has no parent with a row, unless the limit is reached before.
IsPathTo(path, q) ==
  /\ \A i \in DOMAIN path :
       Stored(path[i]) /\ path[i] = IF i = Len(path) THEN q ELSE Parent(path[i + 1])
  /\ \/ Len(path) = MaxHistory
     \/ MaxHistory \notin 0 .. Len(path) /\ path # << >> /\ ~Stored(Parent(path[1]))

\* The history is loaded.
Answering == {"ask", "reply", "saveUser", "saveAssistant"}

\* "The chain is ordered chronologically and capped by openai_max_history"
\* (docs/dev/storage.md): what a continuation sends to the AI service is the
\* path of replies above it, up to the first message that was never stored,
\* and of a longer one the end.  Neither another branch of the conversation
\* nor rows that other handlers store meanwhile get into it, and the order of
\* the row ids is that of the path.
HistoryIsThePath ==
  \A m \in Msgs :
    kind[m] = "continuation" /\ (history[m] # << >> \/ pc[m] \in Answering) =>
      IsPathTo(history[m], quote[m])

\* All rows of a conversation carry its /prompt as their root, although a
\* handler reads the root long before it stores its rows and the rows in
\* between may be lost: the rows of a prompt carry the prompt, those of a reply
\* the root of the row they reply to, which was stored before them.
RootsAgree ==
  \A i \in DOMAIN table :
    LET m == table[i].msg[1]
    IN IF kind[m] = "prompt" THEN table[i].root = <<m, "user">>
       ELSE \E j \in 1 .. i - 1 : table[j].msg = quote[m] /\ table[j].root = table[i].root

\* A row is younger than its parent: the recursive query comes to an end, and
\* sorting by id puts a question before its answer and an answer before the
\* replies to it, whatever handlers run at the same time and fail.
ParentFirst ==
  \A i, j \in DOMAIN table : table[i].parent = table[j].msg => j < i

\* When its handler has ended, a response in the chat can be replied to, unless
\* the very insert of its row has failed: that of the question above it may
\* fail (handler.go:789).
ResponseIsStored ==
  \A m \in sent :
    pc[m] = "done" /\ <<m, "assistant">> \notin lost => Stored(<<m, "assistant">>)
=============================================================================

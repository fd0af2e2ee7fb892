----------------------------- MODULE ChatMemory -----------------------------
(***************************************************************************)
(* The AI memory of one chat: the file memory.md, the handlers of /prompt  *)
(* (and of replies that continue a conversation) with their tool loop, and *)
(* the handlers of /memory show, clear, enable and disable.                *)
(*                                                                         *)
(* Every message has a goroutine of its own.  A /prompt with memory, and   *)
(* the removal of /memory clear, run as jobs of the chat's executor, one   *)
(* at a time; everything else, the reads of /memory show and clear and the *)
(* enabled flag among it, interleaves with them freely.  The executor is   *)
(* the contract SerialExecutor, which ChatWorkers implements; of its       *)
(* Shutdown, after which the process goes on serving messages, registry    *)
(* keeps what a handler can notice.                                        *)
(*                                                                         *)
(* A checksum stands for the content it is taken of.  The chat is allowed  *)
(* to use the assistant and the assistant is configured.                   *)
(***************************************************************************)
EXTENDS Naturals, Sequences, FiniteSets

CONSTANTS
  Msgs,        \* messages sent to the bot
  Kinds,       \* what they may be: "prompt", "show", "clear", "enable", "disable"
  Lines,       \* lines of text the AI writes
  MaxLines,    \* maxBytes, in lines
  MaxTurns,    \* maxToolIterations
  MaxCalls,    \* bound: tool calls in one completion
  Faults,      \* "api", "io", "db", "net", "stop", "crash"
  None,        \* no file, no token, no job, no quote
  Torn         \* what a half-written file holds

ASSUME KindsAssumption == Kinds \subseteq {"prompt", "show", "clear", "enable", "disable"}
ASSUME BoundsAssumption == MaxLines \in Nat /\ MaxTurns \in Nat /\ MaxCalls \in Nat \ {0}
ASSUME FaultsAssumption == Faults \subseteq {"api", "io", "db", "net", "stop", "crash"}

VARIABLES
  file,        \* memory.md
  tmp,         \* memory.md.tmp
  enabled,     \* chat_settings: memory.enabled, TRUE when there is no row
  token,       \* memory_read_tokens: message -> content it saw, or None
  rows,        \* conversation_messages: <<message, role>>
  line, running, submitted,   \* the chat's executor
  registry,    \* "open", "stopped", or "left": stopped, and the worker is gone
  pc,          \* where the handler of each message is
  kind,        \* what the message is
  quote,       \* what it replies to, <<message, role>>, or None
  tools,       \* memoryEnabled, as read when the handler started
  seen,        \* readToken of the tool handler, content of /memory clear
  turns,       \* completions of the tool loop so far
  calls,       \* tool calls of the completion still to execute
  todo,        \* the text being written
  mark,        \* the reaction the response asks for: MemoryWritten, MemoryRead
  answer,      \* what the user is told
  saved        \* history: messages that have changed the file

disk == <<file, tmp>>
database == <<enabled, token, rows>>
executor == <<line, running, submitted, registry>>
message == <<kind, quote>>
loop == <<seen, turns, calls, todo, mark>>
vars == <<disk, database, executor, message, loop, pc, tools, answer, saved>>

-----------------------------------------------------------------------------
Chat == "chat"
Executor == INSTANCE SerialExecutor WITH
  Jobs <- Msgs, Chats <- {Chat}, ChatOf <- [m \in Msgs |-> Chat]

Empty == << >>
Contents == UNION {[1 .. n -> Lines] : n \in 0 .. MaxLines}

\* A missing file is read as the empty memory.
Text(f) == IF f = None THEN Empty ELSE f

ASSUME NoneAssumption == None \notin Msgs
ASSUME TornAssumption == Torn # None /\ Torn \notin Contents

TypeOK ==
  /\ file \in Contents \cup {None, Torn}
  /\ tmp \in Contents \cup {None, Torn}
  /\ enabled \in BOOLEAN
  /\ token \in [Msgs -> Contents \cup {None, Torn}]
  /\ rows \subseteq Msgs \X {"user", "assistant"}
  /\ line \in [{Chat} -> Seq(Msgs)]
  /\ running \in [{Chat} -> Msgs \cup {None}]
  /\ submitted \subseteq Msgs
  /\ registry \in {"open", "stopped", "left"}
  /\ pc \in [Msgs -> {"new", "prompt", "read", "set", "run", "send", "queued", "ask",
                      "tools", "append", "tmp", "rename", "clear", "remove", "say", "reply",
                      "saveUser", "saveAssistant", "done"}]
  /\ kind \in [Msgs -> Kinds \cup {None}]
  /\ quote \in [Msgs -> (Msgs \X {"user", "assistant"}) \cup {None}]
  /\ tools \in [Msgs -> BOOLEAN]
  /\ seen \in [Msgs -> Contents \cup {Torn}]
  /\ turns \in [Msgs -> 0 .. MaxTurns]
  /\ calls \in [Msgs -> 0 .. MaxCalls]
  /\ todo \in [Msgs -> Contents \cup {<<x>> : x \in Lines}]
  /\ mark \in [Msgs -> {"none", "read", "written"}]
  /\ answer \in [Msgs -> {"none", "response", "sorry", "failed", "shown", "cleared",
                          "enabled", "disabled"}]
  /\ saved \subseteq Msgs

Init ==
  /\ file = None /\ tmp = None
  /\ enabled = TRUE
  /\ token = [m \in Msgs |-> None]
  /\ rows = {}
  /\ Executor!Init
  /\ registry = "open"
  /\ pc = [m \in Msgs |-> "new"]
  /\ kind = [m \in Msgs |-> None]
  /\ quote = [m \in Msgs |-> None]
  /\ tools = [m \in Msgs |-> FALSE]
  /\ seen = [m \in Msgs |-> Empty]
  /\ turns = [m \in Msgs |-> 0]
  /\ calls = [m \in Msgs |-> 0]
  /\ todo = [m \in Msgs |-> Empty]
  /\ mark = [m \in Msgs |-> "none"]
  /\ answer = [m \in Msgs |-> "none"]
  /\ saved = {}

Goto(m, l) == pc' = [pc EXCEPT ![m] = l]
Answer(m, a) == answer' = [answer EXCEPT ![m] = a]

-----------------------------------------------------------------------------
(* The read tokens.                                                        *)

\* The user has the AI response to q on the screen.
Visible(q) == answer[q] = "response" /\ pc[q] \in {"saveUser", "saveAssistant", "done"}

\* Mutant of Parent: the row of m is taken to be there already.
ParentOfUnsaved(m) ==
  IF quote[m] # None /\ {quote[m], <<quote[m][1], "user">>} \subseteq rows
  THEN quote[m][1] ELSE None

\* The prompt above m in its conversation, as far as the rows from m up to it
\* are in the table.
Parent(m) ==
  IF quote[m] # None /\ {<<m, "user">>, quote[m], <<quote[m][1], "user">>} \subseteq rows
  THEN quote[m][1] ELSE None

\* GetReadToken: the token of m, or of its nearest ancestor that has one.
TokenOf(m) ==
  IF token[m] # None \/ Parent(m) = None THEN token[m]
  ELSE LET up[n \in 0 .. Cardinality(Msgs)] ==
             IF n = 0 THEN m ELSE IF up[n - 1] = None THEN None ELSE Parent(up[n - 1])
           hits == {n \in DOMAIN up : up[n] # None /\ token[up[n]] # None}
       IN IF hits = {} THEN None
          ELSE token[up[CHOOSE n \in hits : \A k \in hits : n <= k]]

\* isChecksumValid: the memory was read, has not changed since, and the caller
\* holds what was read.
TokenValid(m) == TokenOf(m) # None /\ TokenOf(m) = Text(file) /\ TokenOf(m) = seen[m]

\* Read saves the token of m, whoever calls it.
SaveToken(m) == token' = [token EXCEPT ![m] = Text(file)]

-----------------------------------------------------------------------------
(* The message arrives and is dispatched.                                  *)

\* A reply to a message that is in the table, a user's or the assistant's,
\* continues its conversation.  A reply to any other message, one whose rows are
\* not stored yet among them, is no message for the assistant and left out.
Receive(m) ==
  /\ pc[m] = "new"
  /\ \E k \in Kinds, q \in rows \cup {None} :
       /\ k = "prompt" \/ q = None
       /\ kind' = [kind EXCEPT ![m] = k]
       /\ quote' = [quote EXCEPT ![m] = q]
       /\ Goto(m, IF k = "prompt" THEN "prompt"
                  ELSE IF k \in {"show", "clear"} THEN "read" ELSE "set")
  /\ UNCHANGED <<disk, database, executor, loop, tools, answer, saved>>

\* A setting that cannot be read counts as memory being off.
CheckEnabled(m) ==
  /\ pc[m] = "prompt"
  /\ \E e \in {enabled} \cup (IF "db" \in Faults THEN {FALSE} ELSE {}) :
       /\ tools' = [tools EXCEPT ![m] = e]
       /\ Goto(m, IF e THEN "run" ELSE "ask")
  /\ UNCHANGED <<disk, database, executor, message, loop, answer, saved>>

\* The conversation a reply continues cannot be loaded.
HistoryFails(m) ==
  /\ "db" \in Faults
  /\ pc[m] = "prompt" /\ quote[m] # None
  /\ Answer(m, "sorry") /\ Goto(m, "done")
  /\ UNCHANGED <<disk, database, executor, message, loop, tools, saved>>

SetEnabled(m) ==
  /\ pc[m] = "set"
  /\ \/ /\ enabled' = (kind[m] = "enable")
        /\ Answer(m, IF kind[m] = "enable" THEN "enabled" ELSE "disabled")
     \/ /\ "db" \in Faults
        /\ Answer(m, "failed")
        /\ UNCHANGED enabled
  /\ Goto(m, "say")
  /\ UNCHANGED <<disk, token, rows, executor, message, loop, tools, saved>>

\* /memory show and clear read before, and not as, a job of the chat.
ReadForCommand(m) ==
  /\ pc[m] = "read"
  /\ SaveToken(m)
  /\ seen' = [seen EXCEPT ![m] = Text(file)]
  /\ IF kind[m] = "show" THEN Answer(m, "shown") /\ Goto(m, "say")
                         ELSE Goto(m, "run") /\ UNCHANGED answer
  /\ UNCHANGED <<disk, enabled, rows, executor, message, turns, calls, todo, mark, tools, saved>>

ReadForCommandFails(m) ==
  /\ Faults \cap {"io", "db"} # {}
  /\ pc[m] = "read"
  /\ Answer(m, "failed") /\ Goto(m, "say")
  /\ UNCHANGED <<disk, database, executor, message, loop, tools, saved>>

\* The confirmation is sent, or an error that is only logged.
Say(m) ==
  /\ pc[m] = "say"
  /\ Goto(m, "done")
  /\ UNCHANGED <<disk, database, executor, message, loop, tools, answer, saved>>

-----------------------------------------------------------------------------
(* The job of the chat's executor.                                         *)

\* Run reads the flag, and has or makes the worker of the chat.
CheckStopped(m) ==
  /\ pc[m] = "run" /\ registry = "open"
  /\ Goto(m, "send")
  /\ UNCHANGED <<disk, database, executor, message, loop, tools, answer, saved>>

Failure(m) == IF kind[m] = "prompt" THEN "sorry" ELSE "failed"

\* Run returns ErrRegistryStopped.
RunRefused(m) ==
  /\ pc[m] = "run" /\ registry # "open"
  /\ Answer(m, Failure(m)) /\ Goto(m, "done")
  /\ UNCHANGED <<disk, database, executor, message, loop, tools, saved>>

\* The flag is not read again.  A job that waits for room in the channel is
\* in the line too.
Enqueue(m) ==
  /\ pc[m] = "send"
  /\ Executor!Submit(m)
  /\ Goto(m, "queued")
  /\ UNCHANGED <<disk, database, registry, message, loop, tools, answer, saved>>

StartJob(m) ==
  /\ pc[m] = "queued" /\ Head(line[Chat]) = m /\ registry # "left"
  /\ Executor!Start(Chat)
  /\ Goto(m, IF kind[m] = "prompt" THEN "ask" ELSE "clear")
  /\ UNCHANGED <<disk, database, registry, message, loop, tools, answer, saved>>

\* Shutdown begins, on a signal.
SetStopped ==
  /\ "stop" \in Faults /\ registry = "open"
  /\ registry' = "stopped"
  /\ UNCHANGED <<disk, database, line, running, submitted, message, loop, pc, tools, answer, saved>>

\* The worker that Shutdown has closed has drained its channel.
WorkerLeaves ==
  /\ registry = "stopped" /\ running[Chat] = None /\ line[Chat] = << >>
  /\ registry' = "left"
  /\ UNCHANGED <<disk, database, line, running, submitted, message, loop, pc, tools, answer, saved>>

\* fn returns, and its variables go: the job of m, if m has one, is over.
Return(m, a, l) ==
  /\ Answer(m, a) /\ Goto(m, l)
  /\ IF running[Chat] = m THEN Executor!Finish(Chat) /\ UNCHANGED registry
                          ELSE UNCHANGED executor
  /\ turns' = [turns EXCEPT ![m] = 0]
  /\ todo' = [todo EXCEPT ![m] = Empty]
  /\ UNCHANGED <<seen, calls, mark>>

\* Mutant of ClearChecked: Clear trusts the content read before the job.
ClearUnchecked(m) ==
  /\ pc[m] = "clear"
  /\ Goto(m, "remove")
  /\ UNCHANGED <<disk, database, executor, message, loop, tools, answer, saved>>

ClearChecked(m) ==
  /\ pc[m] = "clear" /\ TokenValid(m)
  /\ Goto(m, "remove")
  /\ UNCHANGED <<disk, database, executor, message, loop, tools, answer, saved>>

\* Clear returns a message and no error.
ClearRefused(m) ==
  /\ pc[m] = "clear" /\ ~TokenValid(m)
  /\ Return(m, "cleared", "say")
  /\ UNCHANGED <<disk, database, message, tools, saved>>

ClearRemoves(m) ==
  /\ pc[m] = "remove"
  /\ file' = None
  /\ saved' = saved \cup {m}
  /\ Return(m, "cleared", "say")
  /\ UNCHANGED <<tmp, database, message, tools>>

ClearFails(m) ==
  /\ Faults \cap {"io", "db"} # {}
  /\ pc[m] \in {"clear", "remove"}
  /\ Return(m, "failed", "done")
  /\ UNCHANGED <<disk, database, message, tools, saved>>

-----------------------------------------------------------------------------
(* ChatCompletion: ask the model until it answers without calling a tool.  *)

FinalAnswer(m) ==
  /\ pc[m] = "ask"
  /\ Return(m, "response", "reply")
  /\ UNCHANGED <<disk, database, message, tools, saved>>

\* Mutant of MayCallTools: the loop has no limit.
MayAlwaysCallTools(m) == tools[m]

\* The iteration count allows one more round of tool calls.
MayCallTools(m) == tools[m] /\ turns[m] < MaxTurns

CallTools(m) ==
  /\ pc[m] = "ask" /\ MayCallTools(m)
  /\ turns' = [turns EXCEPT ![m] = IF @ < MaxTurns THEN @ + 1 ELSE @]
  /\ \E n \in 1 .. MaxCalls : calls' = [calls EXCEPT ![m] = n]
  /\ Goto(m, "tools")
  /\ UNCHANGED <<disk, database, executor, message, seen, todo, mark, tools, answer, saved>>

\* The model calls a tool once too often, or has none to call.
LoopFails(m) ==
  /\ pc[m] = "ask" /\ ~MayCallTools(m)
  /\ Return(m, "sorry", "done")
  /\ UNCHANGED <<disk, database, message, tools, saved>>

\* The request fails, the response is empty, or fn panics.
ApiFails(m) ==
  /\ "api" \in Faults
  /\ pc[m] = "ask"
  /\ Return(m, "sorry", "done")
  /\ UNCHANGED <<disk, database, message, tools, saved>>

-----------------------------------------------------------------------------
(* The tool calls of a completion, one after the other.                    *)

\* Mutant of CallDone: the last tool call decides about the reaction.
CallDoneLast(m, mk) ==
  /\ calls' = [calls EXCEPT ![m] = @ - 1]
  /\ Goto(m, IF calls[m] = 1 THEN "ask" ELSE "tools")
  /\ mark' = [mark EXCEPT ![m] = mk]
  /\ UNCHANGED <<turns, tools, answer, message, executor>>

\* The call is answered; the last one leads to the next completion.
CallDone(m, mk) ==
  /\ calls' = [calls EXCEPT ![m] = @ - 1]
  /\ Goto(m, IF calls[m] = 1 THEN "ask" ELSE "tools")
  /\ mark' = [mark EXCEPT ![m] = IF @ = "written" THEN @ ELSE mk]
  /\ UNCHANGED <<turns, tools, answer, message, executor>>

ReadMemory(m) ==
  /\ pc[m] = "tools"
  /\ SaveToken(m)
  /\ seen' = [seen EXCEPT ![m] = Text(file)]
  /\ CallDone(m, "read")
  /\ UNCHANGED <<disk, enabled, rows, todo, saved>>

\* An unknown tool or arguments that are not JSON.
BadCall(m) ==
  /\ pc[m] = "tools"
  /\ CallDone(m, mark[m])
  /\ UNCHANGED <<disk, database, seen, todo, saved>>

\* A refusal, never read, changed since or too large, is text for the model
\* and no error: the loop notes a write.
Refused(m) ==
  /\ pc[m] = "tools"
  /\ CallDone(m, "written")
  /\ UNCHANGED <<disk, database, seen, todo, saved>>

UpdateMemory(m) ==
  /\ pc[m] = "tools" /\ TokenValid(m)
  /\ \E c \in Contents : todo' = [todo EXCEPT ![m] = c]
  /\ Goto(m, "tmp")
  /\ UNCHANGED <<disk, database, executor, message, seen, turns, calls, mark, tools, answer, saved>>

AppendMemory(m) ==
  /\ pc[m] = "tools" /\ TokenValid(m)
  /\ \E x \in Lines : todo' = [todo EXCEPT ![m] = <<x>>]
  /\ Goto(m, "append")
  /\ UNCHANGED <<disk, database, executor, message, seen, turns, calls, mark, tools, answer, saved>>

\* Mutant of AppendReads: the size of the whole text is not checked.
AppendReadsUnbounded(m) ==
  /\ pc[m] = "append"
  /\ SaveToken(m)
  /\ IF seen[m] = Text(file)
     THEN /\ todo' = [todo EXCEPT ![m] = Text(file) \o todo[m]]
          /\ Goto(m, "tmp")
          /\ UNCHANGED <<turns, calls, mark, tools, answer, message, executor>>
     ELSE /\ CallDone(m, "written")
          /\ UNCHANGED todo
  /\ UNCHANGED <<disk, enabled, rows, seen, saved>>

\* Append reads again, with a token, and hands the whole text to Write, which
\* checks the caller's copy against the new token.
AppendReads(m) ==
  /\ pc[m] = "append"
  /\ SaveToken(m)
  /\ LET whole == Text(file) \o todo[m]
     IN IF seen[m] = Text(file) /\ whole \in Contents
        THEN /\ todo' = [todo EXCEPT ![m] = whole]
             /\ Goto(m, "tmp")
             /\ UNCHANGED <<turns, calls, mark, tools, answer, message, executor>>
        ELSE /\ CallDone(m, "written")
             /\ UNCHANGED todo
  /\ UNCHANGED <<disk, enabled, rows, seen, saved>>

\* Mutant of WriteTmp: the temporary file is opened and not written.
WriteTmpTorn(m) ==
  /\ pc[m] = "tmp"
  /\ tmp' = Torn
  /\ Goto(m, "rename")
  /\ UNCHANGED <<file, database, executor, message, loop, tools, answer, saved>>

WriteTmp(m) ==
  /\ pc[m] = "tmp"
  /\ tmp' = todo[m]
  /\ Goto(m, "rename")
  /\ UNCHANGED <<file, database, executor, message, loop, tools, answer, saved>>

RenameTmp(m) ==
  /\ pc[m] = "rename"
  /\ file' = tmp /\ tmp' = None
  /\ saved' = saved \cup {m}
  /\ CallDone(m, "written")
  /\ UNCHANGED <<database, seen, todo>>

\* A file or the table of tokens fails: an error for the model, no write noted.
ToolFails(m) ==
  /\ Faults \cap {"io", "db"} # {}
  /\ pc[m] \in {"tools", "append", "tmp", "rename"}
  /\ tmp' \in CASE pc[m] = "tmp" -> {tmp, Torn}
                [] pc[m] = "rename" -> {tmp, None}
                [] OTHER -> {tmp}
  /\ CallDone(m, mark[m])
  /\ UNCHANGED <<file, database, seen, todo, saved>>

-----------------------------------------------------------------------------
(* The response is sent, its reaction after it, and then stored.           *)

\* The reaction says what mark asks for; if it cannot be sent, an error is
\* logged and nothing else changes.
Reply(m) ==
  /\ pc[m] = "reply"
  /\ Goto(m, "saveUser")
  /\ UNCHANGED <<disk, database, executor, message, loop, tools, answer, saved>>

ReplyFails(m) ==
  /\ "net" \in Faults
  /\ pc[m] = "reply"
  /\ Answer(m, "failed") /\ Goto(m, "done")
  /\ UNCHANGED <<disk, database, executor, message, loop, tools, saved>>

\* An error of SaveMessage is logged and the handler goes on.
SaveRow(m, role) ==
  /\ rows' \in {rows \cup {<<m, role>>}} \cup (IF "db" \in Faults THEN {rows} ELSE {})
  /\ UNCHANGED <<disk, enabled, token, executor, message, loop, tools, answer, saved>>

SaveUser(m) == pc[m] = "saveUser" /\ SaveRow(m, "user") /\ Goto(m, "saveAssistant")
SaveAssistant(m) == pc[m] = "saveAssistant" /\ SaveRow(m, "assistant") /\ Goto(m, "done")

-----------------------------------------------------------------------------
\* The process dies and starts again: files and tables stay, a temporary file
\* that was being written may be torn, every handler and job is gone and the
\* registry is a new one.
Crash ==
  /\ "crash" \in Faults
  /\ \E m \in Msgs : pc[m] \notin {"new", "done"}
  /\ tmp' \in {tmp} \cup (IF \E m \in Msgs : pc[m] = "tmp" THEN {Torn} ELSE {})
  /\ pc' = [m \in Msgs |-> IF pc[m] = "new" THEN "new" ELSE "done"]
  /\ answer' = [m \in Msgs |-> IF pc[m] \in {"reply", "say"} THEN "none" ELSE answer[m]]
  /\ line' = [c \in {Chat} |-> << >>]
  /\ running' = [c \in {Chat} |-> None]
  /\ registry' = "open"
  /\ UNCHANGED <<file, database, submitted, message, loop, tools, saved>>

CommandStep(m) ==
  \/ CheckEnabled(m) \/ HistoryFails(m) \/ SetEnabled(m)
  \/ ReadForCommand(m) \/ ReadForCommandFails(m) \/ Say(m)
JobStep(m) ==
  \/ CheckStopped(m) \/ RunRefused(m) \/ Enqueue(m) \/ StartJob(m)
  \/ ClearChecked(m) \/ ClearRefused(m) \/ ClearRemoves(m) \/ ClearFails(m)
  \/ FinalAnswer(m) \/ CallTools(m) \/ LoopFails(m) \/ ApiFails(m)
ToolStep(m) ==
  \/ ReadMemory(m) \/ BadCall(m) \/ Refused(m) \/ UpdateMemory(m)
  \/ AppendMemory(m) \/ AppendReads(m) \/ WriteTmp(m) \/ RenameTmp(m) \/ ToolFails(m)
ReplyStep(m) == Reply(m) \/ ReplyFails(m) \/ SaveUser(m) \/ SaveAssistant(m)

Step(m) == CommandStep(m) \/ JobStep(m) \/ ToolStep(m) \/ ReplyStep(m)

ShutdownStep == SetStopped \/ WorkerLeaves

Next == (\E m \in Msgs : Receive(m) \/ Step(m)) \/ ShutdownStep \/ Crash

Spec == Init /\ [][Next]_vars

\* The Go scheduler runs every handler that can run, and a job in the channel
\* of a worker that has not left is executed (ChatWorkers!QueuedRunReturns);
\* the AI service answers every request: an assumption, the code sets no
\* timeout.  Nothing forces a message, a signal or a crash to come, or a
\* stopped worker to leave.
FairSpec == Spec /\ \A m \in Msgs : WF_vars(Step(m))

-----------------------------------------------------------------------------
(* Properties.                                                             *)

\* memory.md never holds a half-written text, whatever fails and whenever the
\* process dies (memory.go:127, "atomically replaces").
NeverTorn == file # Torn

\* The memory is a compare-and-swap register: no command and no tool call
\* replaces or removes text its author has not read, although /memory show and
\* /memory clear read outside the job queue (ports.go:28).
Register == INSTANCE MemoryRegister WITH
  Users <- Msgs, memory <- Text(file), known <- seen
ImplementsRegister == Register!Spec

\* No tool call passes the check of isChecksumValid before its own message has
\* read the memory.  GetReadToken searches the whole conversation, but the
\* message joins the conversation only when its tools have finished.
NoBlindWrite ==
  [][\A m \in Msgs :
       pc[m] = "tools" /\ pc'[m] \in {"append", "tmp"} => token[m] # None]_vars

\* The handler of every message ends, although the messages wait for one job
\* queue and the model may want to call tools for ever, unless its job was sent
\* when the worker of the chat had left: Run waits for that job for ever
\* (ChatWorkers!EveryRunReturns).
HandlersEnd ==
  \A m \in Msgs : (pc[m] # "new") ~> (pc[m] = "done" \/ (registry = "left" /\ pc[m] = "queued"))

\* A turn that has changed the memory and got its response is reported as one
\* that wrote, whatever tools ran before, after or in between and failed
\* (handler.go:1054).
SavedIsMarked == \A m \in Msgs : (Visible(m) /\ m \in saved) => mark[m] = "written"

\* "Deletes the memory file for this chat." (docs/user/memory.md): when the job
\* of a /memory clear ends that is answered "Memory cleared.", it is empty.
ClearClears ==
  [][\A m \in Msgs : answer[m] # "cleared" /\ answer'[m] = "cleared"
                       => Text(file') = Empty]_vars
=============================================================================

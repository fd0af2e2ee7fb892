# A TLA+ model of patrizio-bot

Patrizio is a Delta Chat bot. In group chats it answers messages that contain a
trigger with a text, a media file or a reaction (`/filter`, `/stop`,
`/stopall`, `/filters`); in groups and direct chats it talks to an
OpenAI-compatible service (`/prompt`, and replies that continue a conversation)
and keeps a memory file per chat for it (`/memory`). This directory models the
parts of the program that have state, checks them with TLC and proves the main
safety properties with TLAPS.

    tlc -workers 2 -config FilterStoreMedia.cfg MCFilterStore.tla
    tlapm FilterStoreProofs.tla

## The system

`bot.Setup` (bot.go:23) starts **one goroutine per message**. No lock orders
these goroutines; what they share is one SQLite database behind a
`database/sql` pool, one media directory, one memory file per chat, and the
registry of chat workers.

| component | state | operations | talks to | what makes it correct |
|---|---|---|---|---|
| filters (`sqlite/repository.go`, `database/queries`) | five tables | Create{Text,Media,Reaction}Filter, RemoveTrigger, RemoveAllFilters, ListFilters, FindMatchingFilters | the pool | no row without its filter; one filter per trigger and chat; one reply per filter; a command changes all it names or nothing |
| filter handlers (`bot/handler.go`) | none of their own | `/filter`, `/stop`, `/stopall`, `/filters`, matching | filters, media, messenger | no media file is lost while a filter uses it, none is left behind |
| media storage (`storage/storage.go`) | files named by content hash | Save, Delete, Path, Exists, Read | file system | see the handlers |
| chat workers (`bot/chat_workers.go`) | map chat → worker, a channel per worker, stopped flag | Run, Shutdown | the handlers of `/prompt`, `/memory clear`, the signal goroutine of main | one job per chat at a time, in order, each at most once; every caller gets an answer |
| AI memory (`storage/memory.go`, read tokens) | memory.md and its temporary file per chat, read tokens per message | Read, Write, Append, Clear, IsEnabled, SetEnabled | file system, database | nothing is overwritten unread; no torn file |
| tool loop (`openai/client.go`, `tools/memory`) | readToken, counters and flags of one turn | ChatCompletion, Handle | AI service, AI memory | it ends; it reports what it did |
| prompt and memory handlers (`bot/handler.go`) | none of their own | handlePromptCommand, handleThreadContinuation, handleMemoryCommand | all of the above | every handler ends |
| conversations (`sqlite/conversation.go`) | table of messages with parents and roots | SaveMessage, GetThreadChain, IsConversationMessage | the pool, the handlers of `/prompt` and replies | a reply finds its conversation; the history sent is the path above it; one root per conversation |
| chat settings (`sqlite/chat_settings.go`) | key/value rows | Get, Set, Delete | the pool | – |
| trigger matching (`domain/filter.go`, `filter_matching.sql`) | none | NormalizeMessage, ValidateTrigger, the INSTR query | – | whole words, case-insensitive |
| command parser (`domain/command.go`) | none | Parse* | – | what the documents write is read as meant; what is stored can be removed |
| router (`processMessage`, `handleGroupMessage`, `handleDMMessage`) | none | choose a handler | all handlers | a command is one in its kind of chat only; a reply continues a conversation exactly if its parent is stored |
| messenger, configuration, `database.Open`, `main` | connections | RPC, start-up, shutdown | – | – |

What is hard here: two commands on the same chat or the same file at once;
two stores (tables and files) with no common transaction; a pragma that holds
for one pooled connection; memory read outside the job queue and changed inside
it; a shutdown that races with calls; failures between two steps; a crash. The
full list, each item at its line, is `hazards` in PROJECT.json.

## Modules

    FilterBook  <-- refines --  FilterStore  <-- MCFilterStore, FilterStoreProofs
    SerialExecutor  <-- refines --  ChatWorkers  <-- MCChatWorkers, ChatWorkersProofs
         ^ instance
    MemoryRegister  <-- refines --  ChatMemory  <-- ChatMemoryProofs
    Conversations  <-- MCConversations
    Conversations, Recursion  <-- ConversationsProofs
    FilterText  <-- FilterChat  <-- MCFilterChat
    FilterText, Recursion  <-- FilterTextFacts  <-- FilterCommandFacts
    FilterChat, FilterCommandFacts  <-- FilterChatProofs

Recursion, FilterTextFacts and FilterCommandFacts hold lemmas only.

**FilterStore** – the tables (`filters`, `triggers`, `responses`), the media
directory (`files`), the idle connections of the pool (`idle`) and a program
counter per handler. A handler receives a command (`Receive`), saves its file
(`SaveMedia`, `SaveFails`), obtains a connection (`Begin`), executes its
transaction in one step (`CreateTextFilter`, `CreateReactionFilter`,
`CreateMediaFilter`, `CreateRejected`, `RemoveTrigger`, `RemoveAllFilters`,
`NoChange`) and deletes the files it has to (`DeleteMedia`, `DeleteFails`).
`Crash` ends all handlers and keeps the stores. A transaction is atomic because
SQLite in WAL mode gives it a snapshot and refuses its first write when another
has committed since; that refusal, like every other database error, is the
disjunct `"db" \in Faults`. So two things are SQLite's and not shown here: that
of two overlapping transactions only one commits, and that the inserts of one
command are undone together. Row ids are given out as SQLite does without
AUTOINCREMENT (`IsNextId`: largest id plus one), so ids are reused. The pool
reuses the connection returned last, opens one when none is idle and keeps two:
`idle` starts as `<<"on">>`, the connection `database.Open` ran the pragma on;
every other one does not enforce foreign keys, and `DeleteFilters` cascades or
not accordingly. `skipped` records that a delete went uncascaded: after that
the tables are not what the schema says, and `Consistent` speaks of everything
else that could go wrong. **FilterBook** is the promise to the users: a map
from chat and trigger to reply; its three actions define, forget or clear.

**ChatWorkers** – the registry. A call of `Run` checks the flag
(`CheckStopped`), gets its worker under the mutex (`GetOrCreate`), sends
(`Send`), and waits (`GetResult`, `CtxDone`). A worker receives a job
(`TakeJob`), looks at its context and answers a cancelled one at once
(`CheckContext`), starts `fn` (`StartFn`) and sends its result (`FinishJob`, also
for a panic); `phase` says how far it is. The context may be cancelled between
any two of these steps. On `done` the worker drains and leaves (`SeeDone`,
`Exit`). `SetStopped`,
`CloseWorkers`, `AllExited` and `ShutdownTimeout` are Shutdown. A worker is
named by the call that created it, so that only the code's map makes it unique.
`sent` and `accepted` are history. **SerialExecutor** is the contract of
`domain.ChatExecutor`: a line of jobs per chat, one of them running.

**ChatMemory** – one chat: the file and its temporary file, the enabled flag,
the read tokens, which messages have conversation rows, and the handlers of
`/prompt`, replies, and `/memory show, clear, enable, disable`. The executor is
an instance of SerialExecutor, so the module composes with ChatWorkers through
the contract ChatWorkers is shown to implement. Of its Shutdown, which the
contract does not speak of, `registry` keeps what a handler notices: a `Run` that
finds it stopped is refused (`RunRefused`), one that has passed the check
(`CheckStopped`) sends its job all the same (`Enqueue`), and once the worker has
drained its channel and left (`WorkerLeaves`) such a job is never executed. A
reply continues a conversation from any stored row, a user's or the assistant's
(`Receive`). A checksum stands for the
content it is taken of. Every tool call is a step of its own, a write three
(check, temporary file, rename), an append four. A refused write and a failed
one differ as in the code: the first returns text and no error. `mark` is
the reaction the response asks for; whether the messenger delivers it is only
logged, and `Reply` is the text. A new token
can be inherited along stored conversation rows (`Parent`, `TokenOf`) as
GetReadToken does. **MemoryRegister** is the promise: a compare-and-swap
register.

**Conversations** – the router and the table `conversation_messages`, for any
messages and chats. A message arrives (`Receive`: by its chat, its text and
what it replies to it is ignored, a prompt, another command, a continuation or
nothing of these), loads its history (`LoadChain`), waits for the AI service
(`ChatCompletion`), shows the response (`SendReply`) and stores two rows
(`SaveUser`, `SaveAssistant`), each of which may fail alone. The root a reply
stores is the one it read when it arrived (`root`). `GetThreadChain` is the
recursive query (`Reached`), its order (`InTableOrder`) and its limit
(`MostRecent`). `lost` remembers which inserts failed
or were cut off by a crash. ChatMemory has the same handlers from the side of
the memory: there a response and its rows are what read tokens are searched
along, here the tools are a delay.

**FilterText** and **FilterChat** – texts. A text is a sequence of tokens
(`Tokens`: two letters, one of them in two cases, a space, a line break, the
punctuation the parsers know and one that stands for the rest, keywords).
FilterText has the functions of `domain/command.go` for `/filter`
and `/stop` and those of `domain/filter.go`, the padded comparison of the query
(`Matches`), and next to them what the documents speak of without reference to
the code: the words of a text (`WordsOf`), a trigger whose words follow one
another (`Mentions`), the written form of a command (`FilterCommand`).
The loops of the code are recursive functions over the positions of a text; a
round of the loop over a list of triggers is `NextTrigger`.
FilterChat is one group chat, one message at a time: what a message adds to the
stored triggers, removes or matches. Which of them are stored concurrently is
FilterStore's matter.

An operator whose comment begins with "Mutant of" is not part of the model: it
is the form a plausible bug would give to the definition that follows it, kept
to show that the properties notice.

## Runs

| run | instance | shows |
|---|---|---|
| FilterStoreMedia | 2 handlers, 2 chats, 2 triggers, 1 file, 2 filter ids, 2 connections, all faults | `Consistent`, `NoLeak`, `StopDoomsUnused` |
| FilterStoreBook | 2 handlers, 2 chats, 2 triggers, text and reaction, 2 ids, 2 connections, database errors and crashes | `ImplementsBook` |
| FilterStoreMediaRace | 2 handlers, 1 connection, no faults | **violated** `StopKeepsSharedMedia` |
| FilterStoreFailedCreate | 1 handler, no faults | **violated** `FailedCreateKeepsSharedMedia` |
| FilterStoreStrayRows | 2 handlers, 2 connections, no faults | **violated** `NoStrayRows` |
| ChatWorkers | 3 calls on one chat, buffer 1, one cancellable, fairness | `SerialPerChat`, `ShutdownDrains`, `AbandonedNotRun`, `ImplementsExecutor`, `RunReturns`, `QueuedRunReturns` |
| ChatWorkersLateRun | 2 calls on one chat, 1 on another, no cancellation | **violated** `EveryRunReturns` |
| ChatMemory | 2 messages of any kind, 2 completions of up to 2 calls, all faults, fairness | `NeverTorn`, `SavedIsMarked`, `ImplementsRegister`, `NoBlindWrite`, `HandlersEnd` |
| ChatMemoryClearKept | 2 messages, no faults | **violated** `ClearClears` |
| Conversations | 3 messages, a group and a direct chat of which the group is allowed, history of at most 3 rows, all faults | `HistoryIsThePath`, `RootsAgree`, `ParentFirst`, `ResponseIsStored` |
| FilterChat | 1 filter; all messages of up to 3 tokens, all arguments of up to 4, all commands of up to 2 triggers in the documented syntax | `OnlyWholeWords`, `StandingIsFound`, `WrittenIsRead`, `EveryTriggerCanBeStopped` |
| FilterChatLines | 1 filter, messages of up to 3 tokens | **violated** `WordIsFound` |

The type invariant of each component is checked in its largest run. The
violated properties are statements of the repository's documents and comments
the code does not keep; the traces are short enough to become tests:

* A `/stop` or `/stopall` chooses the file to delete inside its transaction and
  deletes it after the commit; a `/filter` with the same media in between keeps
  a filter without file. `StopDoomsUnused` shows that the choice is right.
* A `/filter` with media that is rejected, for instance because its trigger
  exists, deletes the file although other filters use it (handler.go:459).
* The second connection of the pool does not enforce foreign keys.
* A `Run` that read the stopped flag before a shutdown may wait for ever.
  (A worker may also be created after Shutdown closed the others.)
* `/memory clear` says "Memory cleared." when Clear refused.
* A word at the end of a line, or next to a tab, is no match: punctuation is
  replaced by a space, white space is kept, and the query pads with spaces.

Behaviour the model shows and no run is spent on: a job whose context is
cancelled after its worker has looked at it is executed although its `Run` has
returned (chat_workers.go:43-47; `AbandonedNotRun` says what holds: a job
abandoned before that look is not executed); the bookmark reaction also
appears after a refused write and does not appear when a turn writes and then
fails; a prompt waiting in the queue uses the memory tools although memory was
turned off meanwhile; without memory prompts are not serialised; a reply sent
before the response is stored is no continuation. Of texts: two spaces where a
trigger has one do not match ("good, morning" and `good morning`); an unquoted
trigger ends at a space only, so `/filter hello`, line break, `Hi there` makes
the trigger "hello, line break, hi"; `/filter a`, two spaces, `react:x` makes a
text reply; blank phrases are accepted as triggers; a `)` inside quotes closes
the list; a comma after a phrase may be missing; a text `/filter` that replies
to any message is refused as if that were media; a message with two triggers of
one filter gets its reply twice. A listing by `/filters` reads in separate
statements while ids are reused, so it may show the triggers of one filter with
the reply of another. A negative `openai_max_history` is no limit, zero no
history.

Bounds. Two handlers meet every pair of steps; a third would only add a second
interferer to properties that relate two. Two triggers are needed for a filter
with several, two chats for sharing a file, and one file because names are
content hashes and two files interact in nothing. `MaxFilterId` 2 gives reuse
of an id, two references to a file, and two filters of one chat or of two that
compete for triggers. `MaxConns` bounds what the code leaves
unbounded; 2 is one connection with the pragma and one without. Three calls on
one chat are one in execution, one in a full buffer and one blocked; calls of
different chats share nothing but the flag and the map, and the proofs have any
number of chats. Two messages of ChatMemory are one that works and one that
interferes, or a prompt and its continuation; what needs a longer conversation
(`NoBlindWrite`) and what needs more interferers (`ImplementsRegister`) is
proved. `MaxCalls` bounds the tool calls in one completion; `MaxTurns` is a
constant of the code. Three messages of Conversations have six rows: a path of
six, longer than the limit of three, or two replies to one response that
interleave. Two letters with one in two cases make words that differ, contain
one another or differ in case only; three tokens of a message put a trigger
between two neighbours, four arguments are two phrases or a list of two.
`MaxFilters` is 1: another filter does not change how a message is compared
with a trigger. Symmetry is used in Conversations, whose properties are safety
properties and whose messages the cfg treats alike.

Deadlock is checked for FilterStore and FilterChat, where messages come for
ever. ChatWorkers, ChatMemory and Conversations have finitely many calls and messages: they stop when all are
done, and the liveness properties of the first two say that it is not before.

Fairness. Each goroutine that can run is run (weak fairness per call, worker or
handler). `Send` gets strong fairness: a Go channel queues blocked senders in
order. Nothing forces a signal, a cancellation, a timeout, a fault or a new
message, nor the worker of a stopped registry to leave. Two assumptions are not
the code's: a job ends (`FinishJob`), and the
AI service answers (`FinalAnswer`, `ApiFails` or `CallTools` happens): the
client sets no timeout. In ChatMemory weak fairness starts a queued job only
while `registry # "left"`, which is what `QueuedRunReturns` has of the registry:
a job in the channel before the workers are closed is answered. After the signal
main goes on serving (main.go:41-48), so a job that is sent later than its worker
left has no one to execute it, and its handler waits for ever: `HandlersEnd`
excludes exactly that handler, and `EveryRunReturns` is the run that shows it.

## Theorems

For every value of the constants that satisfies the named assumptions:

* `FilterStoreProofs`: `Spec => []TypeOK`; `Spec => []Consistent`. The type
  invariant needs that a handler inside a transaction holds a connection
  (`Connected`). `Consistent` speaks of the tables only while no delete has left
  rows behind (`~skipped`). `skipped` never becomes FALSE again, so a step that
  ends in `~skipped` starts from consistent tables: with foreign keys enforced a
  delete takes exactly the rows of its filters along, an insert finds no rows
  under its new id, and the check for duplicates in the transaction keeps
  triggers unique. `Consistent` is inductive relative to the type invariant.
  `Spec => StopDoomsUnused`; `Spec => NoLeak`. A handler
  has files to delete in its last phase only, and saves one for a creation only
  (`Tidy`), so each phase answers for the file until a filter does. That a file
  counted once is the reply of one filter needs finitely many rows
  (`Countable`). A removal loses no file because consistent tables give every
  reference a filter whose type names its table. Like `Consistent`, `NoLeak`
  speaks of runs in which no delete left rows behind.
  `Spec => ImplementsBook`, for any number of connections: every step from a
  state in which no delete has left rows behind is a step of the book or leaves
  the book alone. Tables whose existing filters have unique triggers and one
  response (`Coherent`) lead every trigger of a chat to one reply (`Faithful`).
  An insert is then a Define, the removal of a trigger a Forget whether or not
  its filter goes with it, `/stopall` a Clear. A delete on a connection that does
  not enforce foreign keys leaves stray rows, but not in the way of `Coherent`,
  because they belong to no filter: it is still a Forget or a Clear.
  Only after it is nothing promised, and cannot be: a later filter that gets the
  old id gets the old triggers with it (`FilterStoreStrayRows` shows such rows).
* `ChatWorkersProofs`: `Spec => []TypeOK`; `Spec => []SerialPerChat`;
  `Spec => AbandonedNotRun`. `SerialPerChat` is not inductive: it needs that a job
  is only in the channel or the hands of the worker its call obtained, that
  this is the worker the map holds for its chat (`Routed`), and `AbandonedNotRun`
  needs that a job is in one place at most (`HeldOnce`), that a job still held
  has no result (`Unanswered`) and was sent by its call (`SentFirst`).
  `Spec => ImplementsExecutor`; `Spec => []ShutdownDrains`.
  A worker serves the chat of the call that created it (`Home`), so a step of
  one worker changes the line of one chat, and a call that has not passed its
  send is not in the history (`Unsent`). Until the workers are closed none has
  left (`Alive`); a job without result is held by a worker that has not left
  (`Pending`), because a worker leaves only with empty hands and an empty
  channel.
* `ChatMemoryProofs`: `Spec => []TypeOK`; `Spec => []NeverTorn`;
  `Spec => []SavedIsMarked`; `Spec => NoBlindWrite`;
  `Spec => ImplementsRegister`, every step of the handlers being a Read, a
  Replace or a stutter of the register. The type invariant needs that the
  completion still has the call being executed (`Called`) and that a text on
  its way to the file is within the bound (`Bounded`). The rest is mutual
  exclusion: whoever has tools or removes the file is the one running job
  (`Serial`), so from the check of the token to the change the message knows
  what the file holds (`Fresh`), and the temporary file that is renamed is the
  one this message wrote to the end (`Written`). It uses that `Torn` is no text
  and `None` no message. `NoBlindWrite`
  needs that a message whose response is not shown has no row (`Unsaved`): the
  search for an inherited token starts at a row that is not there yet, so only
  the message's own token is found. `SavedIsMarked` needs that only a prompt is
  answered by the assistant and that a prompt that wrote is marked from that
  step on (`Marked`); a `/memory clear` writes too and has no mark.
* `ConversationsProofs`: `Spec => []TypeOK`; `Spec => []RootsAgree`;
  `Spec => []ParentFirst`; `Spec => []ResponseIsStored`.
  `RootsAgree` needs that a handler on its way to the AI service holds the root
  found in the row of the message it replies to, a row that stays (`Rooted`);
  `ParentFirst` that a message being stored is the parent of no row
  (`NoOrphans`), which follows from where the handlers of stored messages are
  (`RowsLate`); `ResponseIsStored` that a handler that has shown its response is
  about to store it or done (`SentLate`).
  `Spec => []HistoryIsThePath`. What is reached from a message is closed under
  parents and its youngest row is the message itself; rows are unique and
  younger than their parents, so of two reached rows that follow one another in
  the table the older is the parent of the younger, and what the query returns
  is the path above the message whatever other branches and conversations the
  table holds. A history that is loaded stays the path because the table only
  grows and no row that is added is the parent of one that is there
  (`RowsKept`, from `NoOrphans`).
* `FilterChatProofs`: `Spec => []TypeOK`; `Spec => []OnlyWholeWords`;
  `Spec => []StandingIsFound`; `Spec => []EveryTriggerCanBeStopped`;
  `Spec => []WrittenIsRead`, for texts of any length over `Tokens`, any number
  of filters and every command in the documented syntax
  (`CommandsAssumption`: triggers of letters and spaces, a response without
  white space around it that does not look like a reaction). The inductive
  invariant `Sound` says that what is stored is valid and in lower case, once
  per text, and that what was matched is what the query finds in the table as
  it is now. The rest is about the operators:
  `FilterTextFacts` has that normalising a message keeps its words
  (`NormalizeMessage` and `WordsOf` take one token at a time), that a match of
  the padded texts begins and ends at the end of a word, so the words of the
  trigger follow one another in the message, and that a trigger standing
  between spaces and punctuation is found;
  `FilterCommandFacts` that the parsers return texts whatever was typed, that
  a quoted phrase is read to its closing quote, and that a written list of
  triggers is read one trigger at a time: what is left to read after n triggers
  (`Rests`) is what the loop of the parser has before it in its n-th round
  (`TriggerScan`).
* `Recursion`: the library states induction for an operator as parameter, which
  none of the provers can instantiate. Here it is stated for sets (a set with 0
  that is closed under successor contains every natural number, from the
  library's theorem on smallest elements), and a recursive function over
  0 .. n whose step is a function has the values of its equation. The proofs
  about scans define the set of lengths for which the claim holds and cite it.

Every safety invariant and action property the passing runs check is also
proved. Only model-checked: the liveness properties `RunReturns`,
`QueuedRunReturns` and `HandlersEnd` (fairness and ENABLED are out of
the prover's reach). The violated properties are of course not theorems.

## Not modelled

The parsing of `/prompt` and `/memory` (one comparison each; the result is an
input of the models), the content of messages and prompts, missing
configuration (refused before any state is touched), downloads, display names,
more than one Delta Chat account (message and chat ids of two accounts may
coincide; the tables do not tell them apart), letters outside the alphabet of
FilterText (Unicode case folding, `\b` of the command pattern next to letters
that are not ASCII), the migrations, configuration, and the RPC layer. The
result of ListFilters is read by nobody in the models.

## Plan

Done: FilterStore with FilterBook, ChatWorkers with SerialExecutor, ChatMemory
with MemoryRegister, Conversations, FilterText with FilterChat, and the theorems
above. What is left:

1. ListFilters as a sequence of reads beside the commands of FilterStore.
2. The transactions of FilterStore as snapshots: the reads, the first write that
   SQLite refuses when the snapshot is out of date, and the commit as steps of
   their own.
3. With these, the theorems they call for; and, as statements about the code
   that hold for some constants only, what each violated property still
   promises (`StopKeepsSharedMedia` without concurrent creations, `WordIsFound`
   for messages on one line).

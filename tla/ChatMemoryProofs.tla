-------------------------- MODULE ChatMemoryProofs --------------------------
(***************************************************************************)
(* For any number of messages, lines and turns, and any faults: the type   *)
(* invariant of ChatMemory, memory.md is never torn, no tool writes before *)
(* its message has read, a turn that wrote says so, and ChatMemory         *)
(* implements MemoryRegister.                                              *)
(*                                                                         *)
(* All of it rests on the job queue: whoever is between the check of a     *)
(* token and the change of the file is the one job that runs, so neither   *)
(* the file nor its temporary copy moves in between (Serial, Fresh,        *)
(* Written).                                                               *)
(***************************************************************************)
EXTENDS ChatMemory, TLAPS

\* Tools, and the steps of /memory clear, run in the job of their message.
Serial ==
  \A m \in Msgs :
    \/ pc[m] \in {"tools", "append", "tmp", "rename", "clear", "remove"}
    \/ pc[m] = "ask" /\ tools[m]
    => running[Chat] = m

\* The completion still has the call that is being executed.
Called == \A m \in Msgs : pc[m] \in {"tools", "append", "tmp", "rename"} => calls[m] # 0

\* Between the check and the change, the message knows what the file holds.
Fresh == \A m \in Msgs :
  pc[m] \in {"append", "tmp", "rename", "remove"} => seen[m] = Text(file)

\* What is written is a whole text within the bound.
Bounded == \A m \in Msgs : pc[m] \in {"tmp", "rename"} => todo[m] \in Contents

\* What is renamed is what the message has written.
Written == \A m \in Msgs : pc[m] = "rename" => tmp = todo[m]

Typed == TypeOK /\ Called /\ Bounded
Held == Serial /\ Fresh /\ Written /\ NeverTorn

-----------------------------------------------------------------------------
(* The operators.                                                          *)

LEMMA EmptyInContents == Empty \in Contents
<1>1. 0 \in 0 .. MaxLines
  BY BoundsAssumption
<1>2. Empty \in [1 .. 0 -> Lines]
  BY DEF Empty
<1> QED
  BY <1>1, <1>2 DEF Contents

LEMMA TextType ==
  ASSUME NEW f \in Contents \cup {None, Torn}
  PROVE  Text(f) \in Contents \cup {Torn}
BY EmptyInContents DEF Text

LEMMA CallDoneType ==
  ASSUME Typed, NEW m \in Msgs, NEW mk \in {"none", "read", "written"},
         pc[m] \in {"tools", "append", "tmp", "rename"}, CallDone(m, mk)
  PROVE  /\ calls' \in [Msgs -> 0 .. MaxCalls]
         /\ pc' = [pc EXCEPT ![m] = IF calls[m] = 1 THEN "ask" ELSE "tools"]
         /\ mark' \in [Msgs -> {"none", "read", "written"}]
         /\ Called'
         /\ \A n \in Msgs : pc'[n] \in {"tmp", "rename"} => n # m /\ pc[n] = pc'[n]
<1>1. /\ calls[m] \in 0 .. MaxCalls /\ calls[m] # 0 /\ MaxCalls \in Nat
      /\ calls' = [calls EXCEPT ![m] = calls[m] - 1]
      /\ pc' = [pc EXCEPT ![m] = IF calls[m] = 1 THEN "ask" ELSE "tools"]
  BY BoundsAssumption DEF Typed, TypeOK, Called, CallDone, Goto
<1>2. calls[m] - 1 \in 0 .. MaxCalls
  BY <1>1
<1>3. calls' \in [Msgs -> 0 .. MaxCalls]
  BY <1>1, <1>2 DEF Typed, TypeOK
<1>4. mark' \in [Msgs -> {"none", "read", "written"}]
  BY DEF Typed, TypeOK, CallDone
<1>5. Called'
  BY <1>1 DEF Typed, TypeOK, Called
<1>6. \A n \in Msgs : pc'[n] \in {"tmp", "rename"} => n # m /\ pc[n] = pc'[n]
  BY <1>1 DEF Typed, TypeOK
<1> QED
  BY <1>1, <1>3, <1>4, <1>5, <1>6

LEMMA SaveTokenType ==
  ASSUME TypeOK, NEW m \in Msgs, SaveToken(m)
  PROVE  token' \in [Msgs -> Contents \cup {None, Torn}]
BY TextType DEF TypeOK, SaveToken

LEMMA ReturnType ==
  ASSUME TypeOK, NEW m \in Msgs,
         NEW a \in {"none", "response", "sorry", "failed", "shown", "cleared",
                    "enabled", "disabled"},
         NEW l \in {"reply", "say", "done"}, Return(m, a, l)
  PROVE  /\ answer' \in [Msgs -> {"none", "response", "sorry", "failed", "shown",
                                  "cleared", "enabled", "disabled"}]
         /\ pc' = [pc EXCEPT ![m] = l]
         /\ line' = line /\ submitted' = submitted /\ registry' = registry
         /\ turns' \in [Msgs -> 0 .. MaxTurns]
         /\ todo' = [todo EXCEPT ![m] = Empty]
         /\ UNCHANGED <<seen, calls, mark>>
         /\ running' \in [{Chat} -> Msgs \cup {None}]
         /\ running[Chat] # m => running' = running
BY BoundsAssumption DEF TypeOK, Return, Answer, Goto, executor, Executor!Finish

-----------------------------------------------------------------------------
(* The type invariant.                                                     *)

LEMMA TypedInit == Init => Typed
<1> SUFFICES ASSUME Init PROVE Typed
  OBVIOUS
<1>1. 0 \in 0 .. MaxTurns /\ 0 \in 0 .. MaxCalls
  BY BoundsAssumption
<1>2. TypeOK
  BY <1>1, EmptyInContents DEF Init, TypeOK, Executor!Init, Chat
<1>3. Called
  BY DEF Init, Called
<1>4. Bounded
  BY DEF Init, Bounded
<1> QED
  BY <1>2, <1>3, <1>4 DEF Typed

USE DEF disk, database, executor, message, loop

LEMMA TypedReceive ==
  ASSUME Typed, NEW m \in Msgs, Receive(m)
  PROVE  Typed'
BY DEF Typed, TypeOK, Called, Bounded, Receive, Goto

LEMMA TypedCommand ==
  ASSUME Typed, NEW m \in Msgs, CommandStep(m)
  PROVE  Typed'
<1> USE DEF Typed, TypeOK, Called, Bounded, Goto, Answer
<1>1. CASE CheckEnabled(m)
  <2>1. PICK e \in BOOLEAN : tools' = [tools EXCEPT ![m] = e] /\ Goto(m, IF e THEN "run" ELSE "ask")
    BY <1>1 DEF CheckEnabled
  <2> QED
    BY <1>1, <2>1 DEF CheckEnabled
<1>2. CASE HistoryFails(m)
  BY <1>2 DEF HistoryFails
<1>3. CASE SetEnabled(m)
  BY <1>3 DEF SetEnabled
<1>4. CASE ReadForCommand(m)
  <2>1. /\ token' \in [Msgs -> Contents \cup {None, Torn}]
        /\ Text(file) \in Contents \cup {Torn}
    BY <1>4, SaveTokenType, TextType DEF ReadForCommand
  <2> QED
    BY <1>4, <2>1 DEF ReadForCommand
<1>5. CASE ReadForCommandFails(m)
  BY <1>5 DEF ReadForCommandFails
<1>6. CASE Say(m)
  BY <1>6 DEF Say
<1> QED
  BY <1>1, <1>2, <1>3, <1>4, <1>5, <1>6 DEF CommandStep

LEMMA TypedReturn ==
  ASSUME Typed, NEW m \in Msgs,
         NEW a \in {"none", "response", "sorry", "failed", "shown", "cleared",
                    "enabled", "disabled"},
         NEW l \in {"reply", "say", "done"}, Return(m, a, l),
         file' \in {file, None}, saved' \subseteq Msgs,
         UNCHANGED <<tmp, database, message, tools>>
  PROVE  Typed'
<1>1. TypeOK
  BY DEF Typed
<1>2. /\ answer' \in [Msgs -> {"none", "response", "sorry", "failed", "shown",
                                "cleared", "enabled", "disabled"}]
      /\ pc' = [pc EXCEPT ![m] = l]
      /\ line' = line /\ submitted' = submitted /\ registry' = registry
      /\ turns' \in [Msgs -> 0 .. MaxTurns]
      /\ todo' = [todo EXCEPT ![m] = Empty]
      /\ UNCHANGED <<seen, calls, mark>>
      /\ running' \in [{Chat} -> Msgs \cup {None}]
  BY <1>1, ReturnType
<1>3. TypeOK'
  BY <1>1, <1>2, EmptyInContents DEF TypeOK
<1>4. Called' /\ Bounded'
  BY <1>1, <1>2 DEF Typed, TypeOK, Called, Bounded
<1> QED
  BY <1>3, <1>4 DEF Typed

LEMMA TypedJob ==
  ASSUME Typed, NEW m \in Msgs, JobStep(m)
  PROVE  Typed'
<1> USE DEF Typed, TypeOK, Called, Bounded, Goto
<1>1. CASE Enqueue(m)
  BY <1>1 DEF Enqueue, Executor!Submit, Chat
<1>12. CASE CheckStopped(m)
  BY <1>12 DEF CheckStopped
<1>2. CASE RunRefused(m)
  BY <1>2 DEF RunRefused, Answer, Failure
<1>3. CASE StartJob(m)
  BY <1>3 DEF StartJob, Executor!Start, Chat
<1>4. CASE ClearChecked(m)
  BY <1>4 DEF ClearChecked
<1>5. CASE ClearRefused(m)
  <2> HIDE DEF Typed, TypeOK, Called, Bounded, Goto
  <2>1. saved \subseteq Msgs
    BY DEF Typed, TypeOK
  <2> QED
    BY <1>5, <2>1, TypedReturn DEF ClearRefused
<1>6. CASE ClearRemoves(m)
  <2> HIDE DEF Typed, TypeOK, Called, Bounded, Goto
  <2>1. saved \subseteq Msgs
    BY DEF Typed, TypeOK
  <2> QED
    BY <1>6, <2>1, TypedReturn DEF ClearRemoves
<1>7. CASE ClearFails(m)
  <2> HIDE DEF Typed, TypeOK, Called, Bounded, Goto
  <2>1. saved \subseteq Msgs
    BY DEF Typed, TypeOK
  <2> QED
    BY <1>7, <2>1, TypedReturn DEF ClearFails
<1>8. CASE FinalAnswer(m)
  <2> HIDE DEF Typed, TypeOK, Called, Bounded, Goto
  <2>1. saved \subseteq Msgs
    BY DEF Typed, TypeOK
  <2> QED
    BY <1>8, <2>1, TypedReturn DEF FinalAnswer
<1>9. CASE CallTools(m)
  <2>1. turns' \in [Msgs -> 0 .. MaxTurns]
    BY <1>9, BoundsAssumption DEF CallTools
  <2>2. PICK n \in 1 .. MaxCalls : calls' = [calls EXCEPT ![m] = n]
    BY <1>9 DEF CallTools
  <2>3. n \in 0 .. MaxCalls /\ n # 0
    BY <2>2, BoundsAssumption
  <2> QED
    BY <1>9, <2>1, <2>2, <2>3 DEF CallTools
<1>10. CASE LoopFails(m)
  <2> HIDE DEF Typed, TypeOK, Called, Bounded, Goto
  <2>1. saved \subseteq Msgs
    BY DEF Typed, TypeOK
  <2> QED
    BY <1>10, <2>1, TypedReturn DEF LoopFails
<1>11. CASE ApiFails(m)
  <2> HIDE DEF Typed, TypeOK, Called, Bounded, Goto
  <2>1. saved \subseteq Msgs
    BY DEF Typed, TypeOK
  <2> QED
    BY <1>11, <2>1, TypedReturn DEF ApiFails
<1> QED
  BY <1>1, <1>2, <1>3, <1>4, <1>5, <1>6, <1>7, <1>8, <1>9, <1>10, <1>11, <1>12 DEF JobStep

LEMMA TypedTool ==
  ASSUME Typed, NEW m \in Msgs, ToolStep(m)
  PROVE  Typed'
<1> USE DEF Typed, TypeOK, Bounded
<1>1. CASE ReadMemory(m)
  BY <1>1, SaveTokenType, TextType, CallDoneType DEF ReadMemory, CallDone
<1>2. CASE BadCall(m)
  BY <1>2, CallDoneType DEF BadCall, CallDone
<1>3. CASE Refused(m)
  BY <1>3, CallDoneType DEF Refused, CallDone
<1>4. CASE UpdateMemory(m)
  BY <1>4 DEF UpdateMemory, Goto, Called
<1>5. CASE AppendMemory(m)
  BY <1>5 DEF AppendMemory, Goto, Called
<1>6. CASE AppendReads(m)
  <2>1. token' \in [Msgs -> Contents \cup {None, Torn}]
    BY <1>6, SaveTokenType DEF AppendReads
  <2> DEFINE whole == Text(file) \o todo[m]
  <2>2. CASE seen[m] = Text(file) /\ whole \in Contents
    <3>1. /\ todo' = [todo EXCEPT ![m] = whole] /\ Goto(m, "tmp")
          /\ UNCHANGED <<turns, calls, mark, tools, answer, message, executor>>
      BY <1>6, <2>2 DEF AppendReads
    <3> HIDE DEF whole
    <3> QED
      BY <1>6, <2>1, <2>2, <3>1 DEF AppendReads, Goto, Called
  <2>3. CASE ~(seen[m] = Text(file) /\ whole \in Contents)
    <3>1. CallDone(m, "written") /\ UNCHANGED todo
      BY <1>6, <2>3 DEF AppendReads
    <3> QED
      BY <1>6, <2>1, <3>1, CallDoneType DEF AppendReads, CallDone
  <2> QED
    BY <2>2, <2>3
<1>7. CASE WriteTmp(m)
  BY <1>7 DEF WriteTmp, Goto, Called
<1>8. CASE RenameTmp(m)
  BY <1>8, CallDoneType DEF RenameTmp, CallDone
<1>9. CASE ToolFails(m)
  BY <1>9, CallDoneType DEF ToolFails, CallDone
<1> QED
  BY <1>1, <1>2, <1>3, <1>4, <1>5, <1>6, <1>7, <1>8, <1>9 DEF ToolStep

LEMMA TypedReply ==
  ASSUME Typed, NEW m \in Msgs, ReplyStep(m)
  PROVE  Typed'
<1> USE DEF Typed, TypeOK, Called, Bounded, Goto
<1>1. CASE Reply(m)
  BY <1>1 DEF Reply
<1>2. CASE ReplyFails(m)
  BY <1>2 DEF ReplyFails, Answer
<1>3. CASE SaveUser(m)
  BY <1>3 DEF SaveUser, SaveRow
<1>4. CASE SaveAssistant(m)
  BY <1>4 DEF SaveAssistant, SaveRow
<1> QED
  BY <1>1, <1>2, <1>3, <1>4 DEF ReplyStep

LEMMA TypedShutdown == Typed /\ ShutdownStep => Typed'
BY DEF Typed, TypeOK, Called, Bounded, ShutdownStep, SetStopped, WorkerLeaves

LEMMA TypedCrash == Typed /\ Crash => Typed'
BY DEF Typed, TypeOK, Called, Bounded, Crash

LEMMA TypedNext == Typed /\ [Next]_vars => Typed'
<1>1. Typed /\ UNCHANGED vars => Typed'
  BY DEF Typed, TypeOK, Called, Bounded, vars
<1> QED
  BY <1>1, TypedReceive, TypedCommand, TypedJob, TypedTool, TypedReply, TypedShutdown, TypedCrash
  DEF Next, Step

\* Every variable keeps its type (TypeOK), whatever the handlers of any number
\* of messages do and whatever fails.
THEOREM TypeCorrect == Spec => []TypeOK
<1>1. Typed => TypeOK
  BY DEF Typed
<1> QED
  BY TypedInit, TypedNext, <1>1, PTL DEF Spec

-----------------------------------------------------------------------------
(* Mutual exclusion of the jobs, and what it protects.                     *)

LEMMA HeldInit == Init => Held
BY TornAssumption DEF Init, Held, Serial, Fresh, Written, NeverTorn

LEMMA HeldReceive ==
  ASSUME Typed, Held, NEW m \in Msgs, Receive(m)
  PROVE  Held'
BY DEF Typed, TypeOK, Held, Serial, Fresh, Written, NeverTorn, Receive, Goto

LEMMA HeldCommand ==
  ASSUME Typed, Held, NEW m \in Msgs, CommandStep(m)
  PROVE  Held'
<1> USE DEF Typed, TypeOK, Held, Serial, Fresh, Written, NeverTorn, Goto
<1>1. CASE CheckEnabled(m)
  <2>1. PICK e \in BOOLEAN : tools' = [tools EXCEPT ![m] = e] /\ Goto(m, IF e THEN "run" ELSE "ask")
    BY <1>1 DEF CheckEnabled
  <2> QED
    BY <1>1, <2>1 DEF CheckEnabled
<1>2. CASE HistoryFails(m)
  BY <1>2 DEF HistoryFails
<1>3. CASE SetEnabled(m)
  BY <1>3 DEF SetEnabled
<1>4. CASE ReadForCommand(m)
  BY <1>4 DEF ReadForCommand
<1>5. CASE ReadForCommandFails(m)
  BY <1>5 DEF ReadForCommandFails
<1>6. CASE Say(m)
  BY <1>6 DEF Say
<1> QED
  BY <1>1, <1>2, <1>3, <1>4, <1>5, <1>6 DEF CommandStep

\* A job that returns leaves the file to nobody.
LEMMA HeldReturn ==
  ASSUME Typed, Held, NEW m \in Msgs,
         NEW a \in {"none", "response", "sorry", "failed", "shown", "cleared",
                    "enabled", "disabled"},
         NEW l \in {"reply", "say", "done"}, Return(m, a, l),
         UNCHANGED <<disk, tools>>
  PROVE  Held'
<1>1. /\ pc' = [pc EXCEPT ![m] = l]
      /\ seen' = seen /\ todo' = [todo EXCEPT ![m] = Empty]
      /\ running[Chat] # m => running' = running
  BY ReturnType DEF Typed
<1> QED
  BY <1>1 DEF Typed, TypeOK, Held, Serial, Fresh, Written, NeverTorn

LEMMA HeldJob ==
  ASSUME Typed, Held, NEW m \in Msgs, JobStep(m)
  PROVE  Held'
<1> USE DEF Typed, TypeOK, Held, Serial, Fresh, Written, NeverTorn
<1>1. CASE Enqueue(m)
  BY <1>1 DEF Enqueue, Executor!Submit, Goto
<1>12. CASE CheckStopped(m)
  BY <1>12 DEF CheckStopped, Goto
<1>2. CASE RunRefused(m)
  BY <1>2 DEF RunRefused, Goto
<1>3. CASE StartJob(m)
  <2>1. /\ running[Chat] = None /\ running' = [running EXCEPT ![Chat] = m]
        /\ Goto(m, IF kind[m] = "prompt" THEN "ask" ELSE "clear")
        /\ UNCHANGED <<disk, loop, tools>>
    BY <1>3 DEF StartJob, Executor!Start
  <2> QED
    BY <2>1, NoneAssumption DEF Goto, Chat
<1>4. CASE ClearChecked(m)
  <2>1. seen[m] = Text(file)
    BY <1>4 DEF ClearChecked, TokenValid
  <2> QED
    BY <1>4, <2>1 DEF ClearChecked, Goto
<1>5. CASE ClearRefused(m)
  BY <1>5, HeldReturn DEF ClearRefused
<1>6. CASE ClearRemoves(m)
  <2>1. /\ pc' = [pc EXCEPT ![m] = "say"]
        /\ running[Chat] = m
        /\ file' = None /\ UNCHANGED <<tmp, seen, tools>>
        /\ todo' = [todo EXCEPT ![m] = Empty]
    BY <1>6, ReturnType DEF ClearRemoves
  <2>2. \A n \in Msgs \ {m} :
          /\ pc[n] \notin {"tools", "append", "tmp", "rename", "clear", "remove"}
          /\ ~(pc[n] = "ask" /\ tools[n])
    BY <2>1
  <2> QED
    BY <2>1, <2>2, TornAssumption
<1>7. CASE ClearFails(m)
  BY <1>7, HeldReturn DEF ClearFails
<1>8. CASE FinalAnswer(m)
  BY <1>8, HeldReturn DEF FinalAnswer
<1>9. CASE CallTools(m)
  BY <1>9 DEF CallTools, MayCallTools, Goto
<1>10. CASE LoopFails(m)
  BY <1>10, HeldReturn DEF LoopFails
<1>11. CASE ApiFails(m)
  BY <1>11, HeldReturn DEF ApiFails
<1> QED
  BY <1>1, <1>2, <1>3, <1>4, <1>5, <1>6, <1>7, <1>8, <1>9, <1>10, <1>11, <1>12 DEF JobStep

LEMMA HeldTool ==
  ASSUME Typed, Held, NEW m \in Msgs, ToolStep(m)
  PROVE  Held'
<1> USE DEF Typed, TypeOK, Held, Serial, Fresh, Written, NeverTorn
<1>1. /\ running[Chat] = m
      /\ \A n \in Msgs \ {m} :
           /\ pc[n] \notin {"tools", "append", "tmp", "rename", "clear", "remove"}
           /\ ~(pc[n] = "ask" /\ tools[n])
  BY DEF ToolStep, ReadMemory, BadCall, Refused, UpdateMemory, AppendMemory,
         AppendReads, WriteTmp, RenameTmp, ToolFails
\* A call that is done leaves nobody to hold on to the file.
<1>2. ASSUME NEW mk \in {"none", "read", "written"}, CallDone(m, mk), file' # Torn
      PROVE  Held'
  BY <1>1, <1>2 DEF CallDone, Goto
<1>3. CASE ReadMemory(m)
  BY <1>2, <1>3 DEF ReadMemory
<1>4. CASE BadCall(m)
  BY <1>2, <1>4 DEF BadCall
<1>5. CASE Refused(m)
  BY <1>2, <1>5 DEF Refused
<1>6. CASE UpdateMemory(m)
  <2>1. seen[m] = Text(file)
    BY <1>6 DEF UpdateMemory, TokenValid
  <2> QED
    BY <1>1, <1>6, <2>1 DEF UpdateMemory, Goto
<1>7. CASE AppendMemory(m)
  <2>1. seen[m] = Text(file)
    BY <1>7 DEF AppendMemory, TokenValid
  <2> QED
    BY <1>1, <1>7, <2>1 DEF AppendMemory, Goto
<1>8. CASE AppendReads(m)
  <2>1. CASE CallDone(m, "written")
    BY <1>2, <1>8, <2>1 DEF AppendReads
  <2>2. CASE ~CallDone(m, "written")
    <3>1. seen[m] = Text(file) /\ Goto(m, "tmp") /\ UNCHANGED <<disk, seen, tools, executor>>
      BY <1>8, <2>2 DEF AppendReads
    <3> QED
      BY <1>1, <3>1 DEF Goto
  <2> QED
    BY <2>1, <2>2
<1>9. CASE WriteTmp(m)
  BY <1>1, <1>9 DEF WriteTmp, Goto
<1>10. CASE RenameTmp(m)
  <2>1. file' \in Contents
    BY <1>10 DEF RenameTmp, Bounded
  <2> QED
    BY <1>2, <1>10, <2>1, TornAssumption DEF RenameTmp
<1>11. CASE ToolFails(m)
  BY <1>2, <1>11 DEF ToolFails
<1> QED
  BY <1>3, <1>4, <1>5, <1>6, <1>7, <1>8, <1>9, <1>10, <1>11 DEF ToolStep

LEMMA HeldReply ==
  ASSUME Typed, Held, NEW m \in Msgs, ReplyStep(m)
  PROVE  Held'
<1> USE DEF Typed, TypeOK, Held, Serial, Fresh, Written, NeverTorn, Goto
<1>1. CASE Reply(m)
  BY <1>1 DEF Reply
<1>2. CASE ReplyFails(m)
  BY <1>2 DEF ReplyFails
<1>3. CASE SaveUser(m)
  BY <1>3 DEF SaveUser, SaveRow
<1>4. CASE SaveAssistant(m)
  BY <1>4 DEF SaveAssistant, SaveRow
<1> QED
  BY <1>1, <1>2, <1>3, <1>4 DEF ReplyStep

LEMMA HeldShutdown == Typed /\ Held /\ ShutdownStep => Held'
BY DEF Typed, TypeOK, Held, Serial, Fresh, Written, NeverTorn, ShutdownStep, SetStopped,
       WorkerLeaves

LEMMA HeldCrash == Typed /\ Held /\ Crash => Held'
BY DEF Typed, TypeOK, Held, Serial, Fresh, Written, NeverTorn, Crash

LEMMA HeldNext == Typed /\ Held /\ [Next]_vars => Held'
<1>1. Held /\ UNCHANGED vars => Held'
  BY DEF Held, Serial, Fresh, Written, NeverTorn, vars
<1> QED
  BY <1>1, HeldReceive, HeldCommand, HeldJob, HeldTool, HeldReply, HeldShutdown, HeldCrash
  DEF Next, Step

LEMMA Invariance == Spec => [](Typed /\ Held)
<1>1. Init => Typed /\ Held
  BY TypedInit, HeldInit
<1>2. Typed /\ Held /\ [Next]_vars => (Typed /\ Held)'
  BY TypedNext, HeldNext
<1> QED
  BY <1>1, <1>2, PTL DEF Spec

\* memory.md never holds a half-written text (NeverTorn): only a temporary file
\* whose text was written to the end is ever renamed to it.
THEOREM Whole == Spec => []NeverTorn
<1>1. Held => NeverTorn
  BY DEF Held
<1> QED
  BY Invariance, <1>1, PTL

-----------------------------------------------------------------------------
(* The refinement: the memory is a compare-and-swap register.              *)

LEMMA RegisterInit == Init => Register!Init
BY DEF Init, Register!Init, Text

LEMMA RegisterStep ==
  ASSUME Typed, Held, NEW m \in Msgs, Receive(m) \/ Step(m)
  PROVE  [Register!Next]_Register!vars
<1> DEFINE Same == file' = file /\ seen' = seen
<1>1. Same => UNCHANGED Register!vars
  BY DEF Register!vars
<1>2. ASSUME file' = file, seen' = [seen EXCEPT ![m] = Text(file)]
      PROVE  Register!Read(m)
  BY <1>2 DEF Register!Read
<1>3. ASSUME seen[m] = Text(file), Text(file') \in Contents, seen' = seen
      PROVE  Register!Replace(m)
  BY <1>3 DEF Register!Replace
<1>4. CASE ReadForCommand(m)
  BY <1>2, <1>4 DEF ReadForCommand, Register!Next
<1>5. CASE ReadMemory(m)
  BY <1>2, <1>5 DEF ReadMemory, Register!Next
<1>6. CASE ClearRemoves(m)
  <2>1. seen[m] = Text(file) /\ file' = None /\ seen' = seen
    BY <1>6 DEF Held, Fresh, ClearRemoves, Return
  <2> QED
    BY <1>3, <2>1, EmptyInContents DEF Text, Register!Next
<1>7. CASE RenameTmp(m)
  <2>1. seen[m] = Text(file) /\ file' \in Contents /\ seen' = seen
    BY <1>7 DEF Typed, Bounded, Held, Fresh, Written, RenameTmp
  <2>2. Text(file') \in Contents
    BY <2>1, EmptyInContents DEF Text
  <2> QED
    BY <1>3, <2>1, <2>2 DEF Register!Next
<1>8. CASE Receive(m) \/ ReplyStep(m)
  <2>1. Same
    BY <1>8 DEF Receive, ReplyStep, Reply, ReplyFails, SaveUser, SaveAssistant, SaveRow
  <2> QED
    BY <1>1, <2>1
<1>9. CASE CommandStep(m) /\ ~ReadForCommand(m)
  <2>1. Same
    BY <1>9 DEF CommandStep, CheckEnabled, HistoryFails, SetEnabled,
                ReadForCommandFails, Say
  <2> QED
    BY <1>1, <2>1
<1>10. CASE JobStep(m) /\ ~ClearRemoves(m)
  <2>1. Same
    BY <1>10 DEF JobStep, Enqueue, CheckStopped, RunRefused, StartJob, ClearChecked, ClearRefused,
                 ClearFails, FinalAnswer, CallTools, LoopFails, ApiFails, Return
  <2> QED
    BY <1>1, <2>1
<1>11. CASE ToolStep(m) /\ ~ReadMemory(m) /\ ~RenameTmp(m)
  <2>1. Same
    BY <1>11 DEF ToolStep, BadCall, Refused, UpdateMemory, AppendMemory,
                 AppendReads, WriteTmp, ToolFails
  <2> QED
    BY <1>1, <2>1
<1> QED
  BY <1>4, <1>5, <1>6, <1>7, <1>8, <1>9, <1>10, <1>11 DEF Step

\* The memory is a compare-and-swap register (ImplementsRegister): no command
\* and no tool call replaces or removes text its author has not read.
THEOREM RegisterRefined == Spec => ImplementsRegister
<1>1. Typed /\ Held /\ [Next]_vars => [Register!Next]_Register!vars
  <2>1. UNCHANGED vars \/ ShutdownStep \/ Crash => UNCHANGED Register!vars
    BY DEF vars, ShutdownStep, SetStopped, WorkerLeaves, Crash, Register!vars
  <2> QED
    BY <2>1, RegisterStep DEF Next
<1> QED
  BY Invariance, RegisterInit, <1>1, PTL DEF Spec, ImplementsRegister, Register!Spec
-----------------------------------------------------------------------------
(* A message has no ancestors while its tools run.                         *)

\* The row of a message is stored when its tools have finished.
Unsaved ==
  \A m \in Msgs : pc[m] \notin {"saveAssistant", "done"} => <<m, "user">> \notin rows

LEMMA UnsavedInit == Init => Unsaved
BY DEF Init, Unsaved

LEMMA UnsavedStep ==
  ASSUME Typed, Unsaved, NEW m \in Msgs, Receive(m) \/ Step(m)
  PROVE  Unsaved'
<1> USE DEF Typed, TypeOK, Unsaved, Goto
<1>1. CASE SaveUser(m)
  <2>1. rows' \in {rows \cup {<<m, "user">>}, rows} /\ pc' = [pc EXCEPT ![m] = "saveAssistant"]
    BY <1>1 DEF SaveUser, SaveRow
  <2> QED
    BY <2>1
<1>2. CASE SaveAssistant(m)
  <2>1. /\ rows' \in {rows \cup {<<m, "assistant">>}, rows}
        /\ pc' = [pc EXCEPT ![m] = "done"]
    BY <1>2 DEF SaveAssistant, SaveRow
  <2>2. \A n \in Msgs : <<n, "user">> \in rows' => <<n, "user">> \in rows
    BY <2>1
  <2> QED
    BY <2>1, <2>2, <1>2 DEF SaveAssistant
<1>3. CASE Reply(m) \/ ReplyFails(m)
  BY <1>3 DEF Reply, ReplyFails
<1>4. CASE Receive(m)
  BY <1>4 DEF Receive
<1>5. CASE CommandStep(m)
  BY <1>5 DEF CommandStep, CheckEnabled, HistoryFails, SetEnabled, ReadForCommand,
              ReadForCommandFails, Say
<1>6. CASE JobStep(m)
  BY <1>6 DEF JobStep, Enqueue, CheckStopped, RunRefused, StartJob, ClearChecked, ClearRefused,
              ClearRemoves, ClearFails, FinalAnswer, CallTools, LoopFails, ApiFails, Return
<1>7. CASE ToolStep(m)
  BY <1>7 DEF ToolStep, ReadMemory, BadCall, Refused, UpdateMemory, AppendMemory,
              AppendReads, WriteTmp, RenameTmp, ToolFails, CallDone
<1> QED
  BY <1>1, <1>2, <1>3, <1>4, <1>5, <1>6, <1>7 DEF Step, ReplyStep

LEMMA UnsavedNext == Typed /\ Unsaved /\ [Next]_vars => Unsaved'
<1>1. Unsaved /\ UNCHANGED vars => Unsaved'
  BY DEF Unsaved, vars
<1>2. Typed /\ Unsaved /\ (ShutdownStep \/ Crash) => Unsaved'
  BY DEF Typed, TypeOK, Unsaved, ShutdownStep, SetStopped, WorkerLeaves, Crash
<1> QED
  BY <1>1, <1>2, UnsavedStep DEF Next

\* Without ancestors, the token of a message is its own.
LEMMA TokenIsOwn ==
  ASSUME NEW m \in Msgs, <<m, "user">> \notin rows, TokenValid(m)
  PROVE  token[m] # None
<1>1. Parent(m) = None
  BY DEF Parent
<1> QED
  BY <1>1 DEF TokenValid, TokenOf

\* No tool call passes the check of isChecksumValid before its own message has
\* read the memory (NoBlindWrite), whatever its conversation has read.
THEOREM NeverBlind == Spec => NoBlindWrite
<1> DEFINE Blindless ==
      \A m \in Msgs : pc[m] = "tools" /\ pc'[m] \in {"append", "tmp"} => token[m] # None
<1>1. Typed /\ Unsaved /\ [Next]_vars => Blindless
  <2> SUFFICES ASSUME Typed, Unsaved, [Next]_vars, NEW m \in Msgs,
                      pc[m] = "tools", pc'[m] \in {"append", "tmp"}
               PROVE  token[m] # None
    OBVIOUS
  <2>1. <<m, "user">> \notin rows
    BY DEF Unsaved
  <2>2. UpdateMemory(m) \/ AppendMemory(m)
    <3> USE DEF Typed, TypeOK, Goto
    <3>1. ~UNCHANGED vars /\ ~ShutdownStep /\ ~Crash
      BY DEF vars, ShutdownStep, SetStopped, WorkerLeaves, Crash
    <3>2. PICK n \in Msgs : Receive(n) \/ Step(n)
      BY <3>1 DEF Next
    <3>3. ASSUME NEW l, pc' = [pc EXCEPT ![n] = l] PROVE l \in {"append", "tmp"} /\ n = m
      BY <3>3
    <3>4. ~Receive(n) /\ ~CommandStep(n)
      BY <3>3 DEF Receive, CommandStep, CheckEnabled, HistoryFails, SetEnabled,
                  ReadForCommand, ReadForCommandFails, Say
    <3>5. ~JobStep(n)
      BY <3>3 DEF JobStep, Enqueue, CheckStopped, RunRefused, StartJob, ClearChecked, ClearRefused,
                  ClearRemoves, ClearFails, FinalAnswer, CallTools, LoopFails, ApiFails, Return
    <3>6. ~ReplyStep(n)
      BY <3>3 DEF ReplyStep, Reply, ReplyFails, SaveUser, SaveAssistant
    <3>7. ToolStep(n) /\ n = m
      BY <3>2, <3>3, <3>4, <3>5, <3>6
      DEF Step, ToolStep, ReadMemory, BadCall, Refused, UpdateMemory, AppendMemory,
          AppendReads, WriteTmp, RenameTmp, ToolFails, CallDone
    <3> QED
      BY <3>3, <3>7
      DEF ToolStep, ReadMemory, BadCall, Refused, AppendReads, WriteTmp, RenameTmp,
          ToolFails, CallDone
  <2>3. TokenValid(m)
    BY <2>2 DEF UpdateMemory, AppendMemory
  <2> QED
    BY <2>1, <2>3, TokenIsOwn
<1>2. Spec => []Typed
  BY Invariance, PTL
<1>3. Spec => []Unsaved
  BY <1>2, UnsavedInit, UnsavedNext, PTL DEF Spec
<1> QED
  BY <1>1, <1>2, <1>3, PTL DEF Spec, NoBlindWrite

-----------------------------------------------------------------------------
(* A turn that wrote says so.                                              *)

\* A message that was answered by the assistant, or is on its way to it, is a
\* prompt; what has changed the file for a prompt has left its mark.
Marked ==
  \A m \in Msgs :
    /\ pc[m] = "new" => m \notin saved /\ answer[m] = "none"
    /\ pc[m] \in {"prompt", "ask", "tools", "append", "tmp", "rename"} => kind[m] = "prompt"
    /\ pc[m] \in {"read", "set", "clear", "remove"} => kind[m] # "prompt"
    /\ answer[m] = "response" => kind[m] = "prompt"
    /\ m \in saved /\ kind[m] = "prompt" => mark[m] = "written"

LEMMA MarkedInit == Init => Marked
BY DEF Init, Marked

LEMMA MarkedCallDone ==
  ASSUME Typed, Marked, NEW m \in Msgs, NEW mk \in {"none", "read", "written"},
         CallDone(m, mk), pc[m] \in {"tools", "append", "tmp", "rename"},
         saved' = saved \/ (mk = "written" /\ saved' = saved \cup {m})
  PROVE  Marked'
BY DEF Typed, TypeOK, Marked, CallDone, Goto

LEMMA MarkedReturn ==
  ASSUME Typed, Marked, NEW m \in Msgs,
         NEW a \in {"response", "sorry", "failed", "cleared"},
         NEW l \in {"reply", "say", "done"}, Return(m, a, l), kind' = kind,
         a = "response" => kind[m] = "prompt",
         saved' = saved \/ (kind[m] # "prompt" /\ saved' = saved \cup {m})
  PROVE  Marked'
<1>1. pc' = [pc EXCEPT ![m] = l] /\ answer' = [answer EXCEPT ![m] = a] /\ mark' = mark
  BY DEF Return, Goto, Answer
<1> QED
  BY <1>1 DEF Typed, TypeOK, Marked

LEMMA MarkedReceive ==
  ASSUME Typed, Marked, NEW m \in Msgs, Receive(m)
  PROVE  Marked'
BY DEF Typed, TypeOK, Marked, Receive, Goto

LEMMA MarkedStep ==
  ASSUME Typed, Marked, NEW m \in Msgs, Step(m)
  PROVE  Marked'
<1>1. CASE CommandStep(m)
  <2>1. CASE HistoryFails(m) \/ Say(m)
    BY <2>1 DEF Typed, TypeOK, Marked, Goto, HistoryFails, Say, Answer
  <2>2. CASE ReadForCommand(m) \/ ReadForCommandFails(m)
    BY <2>2 DEF Typed, TypeOK, Marked, Goto, ReadForCommand, ReadForCommandFails, Answer
  <2>3. CASE SetEnabled(m)
    BY <2>3 DEF Typed, TypeOK, Marked, Goto, SetEnabled, Answer
  <2>4. CASE CheckEnabled(m)
    <3>1. PICK l \in {"run", "ask"} : pc' = [pc EXCEPT ![m] = l]
      BY <2>4 DEF CheckEnabled, Goto
    <3> QED
      BY <2>4, <3>1 DEF Typed, TypeOK, Marked, CheckEnabled
  <2> QED
    BY <1>1, <2>1, <2>2, <2>3, <2>4 DEF CommandStep
<1>2. CASE JobStep(m)
  <2>1. CASE CheckStopped(m) \/ Enqueue(m) \/ StartJob(m) \/ ClearChecked(m)
    BY <2>1 DEF Typed, TypeOK, Marked, Goto, CheckStopped, Enqueue, StartJob, ClearChecked
  <2>2. CASE RunRefused(m)
    BY <2>2 DEF Typed, TypeOK, Marked, Goto, RunRefused, Answer, Failure
  <2>3. CASE ClearRefused(m)
    BY <2>3, MarkedReturn DEF ClearRefused
  <2>4. CASE ClearRemoves(m)
    <3>1. kind[m] # "prompt"
      BY <2>4 DEF ClearRemoves, Marked
    <3> QED
      BY <2>4, <3>1, MarkedReturn DEF ClearRemoves
  <2>5. CASE ClearFails(m)
    BY <2>5, MarkedReturn DEF ClearFails
  <2>6. CASE FinalAnswer(m)
    <3>1. kind[m] = "prompt"
      BY <2>6 DEF FinalAnswer, Marked
    <3> QED
      BY <2>6, <3>1, MarkedReturn DEF FinalAnswer
  <2>7. CASE LoopFails(m) \/ ApiFails(m)
    BY <2>7, MarkedReturn DEF LoopFails, ApiFails
  <2>8. CASE CallTools(m)
    BY <2>8 DEF Typed, TypeOK, Marked, Goto, CallTools
  <2> QED
    BY <1>2, <2>1, <2>2, <2>3, <2>4, <2>5, <2>6, <2>7, <2>8 DEF JobStep
<1>3. CASE ToolStep(m)
  <2>1. CASE UpdateMemory(m) \/ AppendMemory(m) \/ WriteTmp(m)
    BY <2>1 DEF Typed, TypeOK, Marked, Goto, UpdateMemory, AppendMemory, WriteTmp
  <2>2. CASE AppendReads(m) /\ ~CallDone(m, "written")
    BY <2>2 DEF Typed, TypeOK, Marked, Goto, AppendReads
  <2>3. CASE AppendReads(m) /\ CallDone(m, "written")
    BY <2>3, MarkedCallDone DEF AppendReads
  <2>4. CASE ReadMemory(m) \/ BadCall(m) \/ Refused(m) \/ RenameTmp(m) \/ ToolFails(m)
    <3>1. mark[m] \in {"none", "read", "written"}
      BY DEF Typed, TypeOK
    <3> QED
      BY <2>4, <3>1, MarkedCallDone DEF ReadMemory, BadCall, Refused, RenameTmp, ToolFails
  <2> QED
    BY <1>3, <2>1, <2>2, <2>3, <2>4 DEF ToolStep
<1>4. CASE ReplyStep(m)
  BY <1>4 DEF Typed, TypeOK, Marked, Goto, ReplyStep, Reply, ReplyFails, SaveUser,
              SaveAssistant, SaveRow, Answer
<1> QED
  BY <1>1, <1>2, <1>3, <1>4 DEF Step

LEMMA MarkedNext == Typed /\ Marked /\ [Next]_vars => Marked'
<1>1. Marked /\ UNCHANGED vars => Marked'
  BY DEF Marked, vars
<1>2. Marked /\ ShutdownStep => Marked'
  BY DEF Marked, ShutdownStep, SetStopped, WorkerLeaves
<1>3. ASSUME Typed, Marked, Crash PROVE Marked'
  <2>1. /\ saved' = saved /\ kind' = kind /\ mark' = mark
        /\ \A m \in Msgs : pc'[m] = IF pc[m] = "new" THEN "new" ELSE "done"
        /\ \A m \in Msgs : answer'[m] \in {"none", answer[m]}
    BY <1>3 DEF Crash
  <2> QED
    BY <1>3, <2>1 DEF Marked
<1> QED
  BY <1>1, <1>2, <1>3, MarkedReceive, MarkedStep DEF Next

\* A turn that has changed the memory and got its response is reported as one
\* that wrote (SavedIsMarked), however many tools ran and failed around it.
THEOREM WritesReported == Spec => []SavedIsMarked
<1>1. Marked /\ Typed => SavedIsMarked
  BY DEF Marked, SavedIsMarked, Visible
<1>2. Spec => []Typed
  BY Invariance, PTL
<1>3. Spec => []Marked
  BY <1>2, MarkedInit, MarkedNext, PTL DEF Spec
<1> QED
  BY <1>1, <1>2, <1>3, PTL
=============================================================================

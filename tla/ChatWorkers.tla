----------------------------- MODULE ChatWorkers -----------------------------
(***************************************************************************)
(* ChatWorkerRegistry: one goroutine per chat executes the jobs that the   *)
(* goroutines of the messages hand it through a buffered channel, and a    *)
(* signal handler shuts the registry down while they do.                   *)
(*                                                                         *)
(* A job is one call of Run.  A worker is named by the job whose Run       *)
(* created it, so that nothing in the model, only the code's map and       *)
(* mutex, makes the worker of a chat unique.                               *)
(***************************************************************************)
EXTENDS Naturals, Sequences, FiniteSets

CONSTANTS
  Jobs,         \* calls of Run
  Chats,        \* chat ids
  ChatOf,       \* the chat each call names
  BufSize,      \* capacity of a worker's channel
  Cancellable,  \* jobs whose context may be cancelled
  None          \* no worker, no job

ASSUME ChatOfAssumption == ChatOf \in [Jobs -> Chats]
ASSUME BufSizeAssumption == BufSize \in Nat \ {0}
ASSUME NoneAssumption == None \notin Jobs

VARIABLES
  stopped,    \* r.stopped
  sd,         \* where Shutdown is
  worker,     \* r.workers: chat -> worker
  wstate,     \* the goroutine of each worker
  closed,     \* workers whose done channel is closed
  queue,      \* the channel of each worker
  current,    \* the job a worker has received and is in runJob with
  phase,      \* how far in runJob it is, while it has a job
  pc,         \* where each call of Run is
  at,         \* the worker the call obtained
  result,     \* the job's result channel
  ret,        \* what Run returned
  cancelled,  \* contexts cancelled so far
  sent,       \* history: jobs ever put in a channel
  accepted    \* history: those that were when Shutdown closed the workers

registry == <<stopped, sd, worker, closed>>
loops == <<wstate, queue, current, phase>>
calls == <<pc, at, ret>>
vars == <<registry, loops, calls, result, cancelled, sent, accepted>>

-----------------------------------------------------------------------------
TypeOK ==
  /\ stopped \in BOOLEAN
  /\ sd \in {"no", "flagged", "waiting", "ok", "timeout"}
  /\ worker \in [Chats -> Jobs \cup {None}]
  /\ wstate \in [Jobs -> {"none", "select", "drain", "exited"}]
  /\ closed \subseteq Jobs
  /\ queue \in [Jobs -> Seq(Jobs)]
  /\ current \in [Jobs -> Jobs \cup {None}]
  /\ phase \in [Jobs -> {"check", "start", "fn"}]
  /\ pc \in [Jobs -> {"new", "lookup", "send", "wait", "returned"}]
  /\ at \in [Jobs -> Jobs \cup {None}]
  /\ \A j \in Jobs : pc[j] \in {"send", "wait"} => at[j] # None
  /\ result \in [Jobs -> {"none", "done", "cancelled"}]
  /\ ret \in [Jobs -> {"none", "done", "cancelled", "stopped"}]
  /\ cancelled \subseteq Jobs
  /\ sent \subseteq Jobs
  /\ accepted \subseteq Jobs

Init ==
  /\ stopped = FALSE /\ sd = "no"
  /\ worker = [c \in Chats |-> None]
  /\ wstate = [w \in Jobs |-> "none"]
  /\ closed = {}
  /\ queue = [w \in Jobs |-> << >>]
  /\ current = [w \in Jobs |-> None]
  /\ phase = [w \in Jobs |-> "check"]
  /\ pc = [j \in Jobs |-> "new"]
  /\ at = [j \in Jobs |-> None]
  /\ result = [j \in Jobs |-> "none"]
  /\ ret = [j \in Jobs |-> "none"]
  /\ cancelled = {} /\ sent = {} /\ accepted = {}

-----------------------------------------------------------------------------
(* Run, in the goroutine of the message.                                   *)

Return(j, r) ==
  /\ pc' = [pc EXCEPT ![j] = "returned"]
  /\ ret' = [ret EXCEPT ![j] = r]
  /\ UNCHANGED at

\* The atomic flag is read before, and not under, the mutex.
CheckStopped(j) ==
  /\ pc[j] = "new"
  /\ IF stopped THEN Return(j, "stopped")
                ELSE pc' = [pc EXCEPT ![j] = "lookup"] /\ UNCHANGED <<at, ret>>
  /\ UNCHANGED <<registry, loops, result, cancelled, sent, accepted>>

\* Mutant of WorkerFor: the map is not looked up under the mutex.
WorkerAlwaysNew(j) == j

\* Mutant of WorkerFor: the missing entry of the map is returned as it is.
WorkerNeverNew(j) == worker[ChatOf[j]]

\* The worker the map holds for the chat of j, or a new one.
WorkerFor(j) == IF worker[ChatOf[j]] # None THEN worker[ChatOf[j]] ELSE j

\* Under the mutex.
GetOrCreate(j) ==
  /\ pc[j] = "lookup"
  /\ at' = [at EXCEPT ![j] = WorkerFor(j)]
  /\ worker' = [worker EXCEPT ![ChatOf[j]] = WorkerFor(j)]
  /\ wstate' = [wstate EXCEPT ![j] = IF WorkerFor(j) = j THEN "select" ELSE @]
  /\ pc' = [pc EXCEPT ![j] = "send"]
  /\ UNCHANGED <<stopped, sd, closed, queue, current, phase, ret, result, cancelled, sent, accepted>>

Send(j) ==
  /\ pc[j] = "send"
  /\ Len(queue[at[j]]) < BufSize
  /\ queue' = [queue EXCEPT ![at[j]] = Append(@, j)]
  /\ sent' = sent \cup {j}
  /\ pc' = [pc EXCEPT ![j] = "wait"]
  /\ UNCHANGED <<registry, wstate, current, phase, at, ret, result, cancelled, accepted>>

\* Either select of Run takes the ctx.Done case.
CtxDone(j) ==
  /\ pc[j] \in {"send", "wait"} /\ j \in cancelled
  /\ Return(j, "cancelled")
  /\ UNCHANGED <<registry, loops, result, cancelled, sent, accepted>>

GetResult(j) ==
  /\ pc[j] = "wait" /\ result[j] # "none"
  /\ Return(j, result[j])
  /\ UNCHANGED <<registry, loops, result, cancelled, sent, accepted>>

Cancel(j) ==
  /\ j \in Cancellable \ cancelled
  /\ cancelled' = cancelled \cup {j}
  /\ UNCHANGED <<registry, loops, calls, result, sent, accepted>>

-----------------------------------------------------------------------------
(* loop and runJob, in the goroutine of worker w.                          *)

\* Receive the next job.  In the select of the loop Go may pick this case even
\* when done is closed.
TakeJob(w) ==
  /\ wstate[w] \in {"select", "drain"} /\ current[w] = None
  /\ queue[w] # << >>
  /\ queue' = [queue EXCEPT ![w] = Tail(@)]
  /\ current' = [current EXCEPT ![w] = Head(queue[w])]
  /\ phase' = [phase EXCEPT ![w] = "check"]
  /\ UNCHANGED <<registry, wstate, calls, result, cancelled, sent, accepted>>

\* Mutant of CheckContext: the context of the job is not looked at.
CheckNothing(w) ==
  /\ current[w] # None /\ phase[w] = "check"
  /\ phase' = [phase EXCEPT ![w] = "start"]
  /\ UNCHANGED <<registry, wstate, queue, current, calls, result, cancelled, sent, accepted>>

\* A job whose context is cancelled is answered and not executed.
CheckContext(w) ==
  /\ current[w] # None /\ phase[w] = "check"
  /\ IF current[w] \in cancelled
     THEN /\ result' = [result EXCEPT ![current[w]] = "cancelled"]
          /\ current' = [current EXCEPT ![w] = None]
          /\ UNCHANGED phase
     ELSE /\ phase' = [phase EXCEPT ![w] = "start"]
          /\ UNCHANGED <<current, result>>
  /\ UNCHANGED <<registry, wstate, queue, calls, cancelled, sent, accepted>>

\* fn is called with the context as it is now: cancelled since the check, it
\* does not keep fn from starting.
StartFn(w) ==
  /\ current[w] # None /\ phase[w] = "start"
  /\ phase' = [phase EXCEPT ![w] = "fn"]
  /\ UNCHANGED <<registry, wstate, queue, current, calls, result, cancelled, sent, accepted>>

\* Mutant of FinishJob: a panic is recovered but no result is sent.
FinishJobSilently(w) ==
  /\ current[w] # None /\ phase[w] = "fn"
  /\ current' = [current EXCEPT ![w] = None]
  /\ UNCHANGED <<registry, wstate, queue, phase, calls, result, cancelled, sent, accepted>>

\* fn returns or panics: the caller gets a result either way.
FinishJob(w) ==
  /\ current[w] # None /\ phase[w] = "fn"
  /\ result' = [result EXCEPT ![current[w]] = "done"]
  /\ current' = [current EXCEPT ![w] = None]
  /\ UNCHANGED <<registry, wstate, queue, phase, calls, cancelled, sent, accepted>>

SeeDone(w) ==
  /\ wstate[w] = "select" /\ current[w] = None /\ w \in closed
  /\ wstate' = [wstate EXCEPT ![w] = "drain"]
  /\ UNCHANGED <<registry, queue, current, phase, calls, result, cancelled, sent, accepted>>

\* Mutant of Exit: the worker leaves without draining its channel.
ExitUndrained(w) ==
  /\ wstate[w] = "drain" /\ current[w] = None
  /\ wstate' = [wstate EXCEPT ![w] = "exited"]
  /\ UNCHANGED <<registry, queue, current, phase, calls, result, cancelled, sent, accepted>>

Exit(w) ==
  /\ wstate[w] = "drain" /\ current[w] = None /\ queue[w] = << >>
  /\ wstate' = [wstate EXCEPT ![w] = "exited"]
  /\ UNCHANGED <<registry, queue, current, phase, calls, result, cancelled, sent, accepted>>

-----------------------------------------------------------------------------
(* Shutdown, once, in the goroutine of the signal handler.                 *)

SetStopped ==
  /\ sd = "no"
  /\ stopped' = TRUE /\ sd' = "flagged"
  /\ UNCHANGED <<worker, closed, loops, calls, result, cancelled, sent, accepted>>

\* Under the mutex: the workers that exist now.
CloseWorkers ==
  /\ sd = "flagged"
  /\ closed' = {worker[c] : c \in Chats} \ {None}
  /\ sd' = "waiting"
  /\ accepted' = sent
  /\ UNCHANGED <<stopped, worker, loops, calls, result, cancelled, sent>>

\* r.wg is zero: no worker goroutine is left.
AllExited ==
  /\ sd = "waiting"
  /\ \A w \in Jobs : wstate[w] \in {"none", "exited"}
  /\ sd' = "ok"
  /\ UNCHANGED <<stopped, worker, closed, loops, calls, result, cancelled, sent, accepted>>

ShutdownTimeout ==
  /\ sd = "waiting"
  /\ sd' = "timeout"
  /\ UNCHANGED <<stopped, worker, closed, loops, calls, result, cancelled, sent, accepted>>

-----------------------------------------------------------------------------
CallStep(j) == CheckStopped(j) \/ GetOrCreate(j) \/ Send(j) \/ CtxDone(j) \/ GetResult(j)
WorkerStep(w) ==
  TakeJob(w) \/ CheckContext(w) \/ StartFn(w) \/ FinishJob(w) \/ SeeDone(w) \/ Exit(w)
ShutdownStep == SetStopped \/ CloseWorkers \/ AllExited \/ ShutdownTimeout

Next ==
  \/ \E j \in Jobs : CallStep(j) \/ Cancel(j) \/ WorkerStep(j)
  \/ ShutdownStep

Spec == Init /\ [][Next]_vars

\* The Go scheduler runs every goroutine that can run.  A sender blocked on a
\* full channel waits in the channel's FIFO queue, so no other sender
\* overtakes it for ever: strong fairness.  fn terminates: an assumption on
\* the jobs (FinishJob).  Nothing forces a signal, a timeout or a cancellation.
Fairness ==
  /\ \A j \in Jobs : /\ WF_vars(CheckStopped(j)) /\ WF_vars(GetOrCreate(j))
                     /\ SF_vars(Send(j))
                     /\ WF_vars(CtxDone(j) \/ GetResult(j))
                     /\ WF_vars(WorkerStep(j))
  /\ WF_vars(CloseWorkers)

FairSpec == Spec /\ Fairness

-----------------------------------------------------------------------------
(* Properties.                                                             *)

\* The fn of worker w is executing.
Executes(w) == current[w] # None /\ phase[w] = "fn"

\* Two jobs of one chat are never executed at the same time, although workers
\* are created on demand and by whoever comes first (ports.go:90).
SerialPerChat ==
  \A v, w \in Jobs :
    (Executes(v) /\ Executes(w) /\ ChatOf[current[v]] = ChatOf[current[w]]) => v = w

\* A worker has found the context of j alive: fn is about to start, or runs.
Begun(j) == \E w \in Jobs : current[w] = j /\ phase[w] \in {"start", "fn"}

\* A job whose Run has returned before a worker has looked at its context is
\* never executed ("cancelled queued job must not execute",
\* chat_workers_test.go:116).  A cancellation after the look comes too late: Run
\* returns and fn starts none the less (chat_workers.go:43-47).
AbandonedNotRun ==
  [][\A j \in Jobs : ret[j] # "none" /\ ~Begun(j) => ~Begun(j)']_vars

\* When Shutdown reports success every job that was in a channel or executing
\* when it closed the workers has its result (chat_workers.go:123).
ShutdownDrains == sd = "ok" => \A j \in accepted : result[j] # "none"

\* Until a shutdown begins every call of Run returns, whatever the other calls
\* do and however small the buffer is.
RunReturns ==
  \A j \in Jobs : pc[j] = "lookup" ~> (ret[j] # "none" \/ stopped)

\* A call whose job is in the channel before Shutdown closes the workers
\* returns, whether the worker executes the job, drains it or drops it.
QueuedRunReturns ==
  \A j \in Jobs : (j \in sent /\ sd \in {"no", "flagged"}) ~> ret[j] # "none"

\* A job that is received and whose fn has not started is still waiting.
Waiting(w) ==
  (IF current[w] # None /\ ~Executes(w) THEN <<current[w]>> ELSE << >>) \o queue[w]

Running(w) == IF Executes(w) THEN current[w] ELSE None

\* The line of each chat is what waits at the worker the map holds for it.
lineOfChat ==
  [c \in Chats |-> IF worker[c] = None THEN << >> ELSE Waiting(worker[c])]
runningInChat ==
  [c \in Chats |-> IF worker[c] = None THEN None ELSE Running(worker[c])]

Executor == INSTANCE SerialExecutor WITH line <- lineOfChat, running <- runningInChat,
                                         submitted <- sent

\* The registry implements the executor's contract: one job of a chat at a
\* time, in the order they were queued, each at most once.
ImplementsExecutor == Executor!Spec

\* "Drain buffered jobs so every Run() caller receives a result."
\* (chat_workers.go:56)
EveryRunReturns == \A j \in Jobs : pc[j] = "lookup" ~> ret[j] # "none"
=============================================================================

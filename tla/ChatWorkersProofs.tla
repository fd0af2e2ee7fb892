-------------------------- MODULE ChatWorkersProofs --------------------------
(***************************************************************************)
(* For any number of calls, chats and workers and any buffer size: the     *)
(* type invariant of ChatWorkers, mutual exclusion within a chat, that a   *)
(* job abandoned before its context is looked at is not executed, the      *)
(* refinement of SerialExecutor, and what a Shutdown answers.              *)
(*                                                                         *)
(* Exclusion follows from Routed: whatever a worker holds, in its channel  *)
(* or in execution, is for a chat the map gives to that worker, and the    *)
(* map never gives a chat to another one.  AbandonedNotRun needs Fresh: a  *)
(* job is held once, and unanswered while it is, so its Run can only have  *)
(* returned because the context was cancelled, and the worker that looks   *)
(* at such a context drops the job.                                        *)
(***************************************************************************)
EXTENDS ChatWorkers, TLAPS

Positions(w) == 1 .. Len(queue[w])

\* Callers and jobs are at the worker of their chat.
Routed ==
  /\ \A j \in Jobs : pc[j] \in {"send", "wait"} => at[j] = worker[ChatOf[j]] /\ at[j] # None
  /\ \A w \in Jobs : \A n \in Positions(w) : worker[ChatOf[queue[w][n]]] = w
  /\ \A w \in Jobs : current[w] # None => worker[ChatOf[current[w]]] = w

\* A job is in the worker's channel at most once, and not while it is executed.
HeldOnce ==
  \A w \in Jobs : /\ \A m, n \in Positions(w) : queue[w][m] = queue[w][n] => m = n
                  /\ \A n \in Positions(w) : queue[w][n] # current[w]

\* A job that a worker holds has no result; its Run waits, or has returned as
\* cancelled.
Unsettled(j) ==
  /\ pc[j] \in {"wait", "returned"}
  /\ result[j] = "none"
  /\ ret[j] = "none" \/ j \in cancelled

Unanswered ==
  \A w \in Jobs : /\ \A n \in Positions(w) : Unsettled(queue[w][n])
                  /\ current[w] # None => Unsettled(current[w])

\* What was not sent has no result, and what has not returned returned nothing.
SentFirst ==
  \A j \in Jobs : /\ pc[j] \in {"new", "lookup", "send"} => result[j] = "none"
                  /\ pc[j] # "returned" => ret[j] = "none"

Fresh == HeldOnce /\ Unanswered /\ SentFirst

IInv == TypeOK /\ Routed /\ Fresh

-----------------------------------------------------------------------------
LEMMA InitIInv == Init => IInv
<1> SUFFICES ASSUME Init PROVE IInv
  OBVIOUS
<1>1. \A w \in Jobs : queue[w] = << >> /\ Positions(w) = {}
  BY DEF Init, Positions
<1>2. TypeOK
  <2>1. queue \in [Jobs -> Seq(Jobs)]
    <3>1. << >> \in Seq(Jobs)
      OBVIOUS
    <3> QED
      BY <3>1 DEF Init
  <2>2. stopped \in BOOLEAN
    BY Zenon DEF Init
  <2> QED
    BY <2>1, <2>2 DEF Init, TypeOK
<1>3. Routed
  BY <1>1 DEF Init, Routed
<1>4. Fresh
  BY <1>1, NoneAssumption DEF Init, Fresh, HeldOnce, Unanswered, SentFirst
<1> QED
  BY <1>2, <1>3, <1>4 DEF IInv

LEMMA TypeStep == TypeOK /\ [Next]_vars => TypeOK'
<1> SUFFICES ASSUME TypeOK, [Next]_vars PROVE TypeOK'
  OBVIOUS
<1> USE ChatOfAssumption, NoneAssumption DEF TypeOK, registry, loops, calls
<1>1. ASSUME NEW j \in Jobs, CallStep(j) PROVE TypeOK'
  <2>1. CASE CheckStopped(j)
    <3>0. \/ pc' = [pc EXCEPT ![j] = "returned"] /\ ret' = [ret EXCEPT ![j] = "stopped"]
          \/ pc' = [pc EXCEPT ![j] = "lookup"] /\ ret' = ret
      BY <2>1, Zenon DEF CheckStopped, Return
    <3>1. /\ pc' \in [Jobs -> {"new", "lookup", "send", "wait", "returned"}]
          /\ ret' \in [Jobs -> {"none", "done", "cancelled", "stopped"}]
          /\ \A i \in Jobs : pc'[i] \in {"send", "wait"} => pc'[i] = pc[i]
      <4>1. CASE pc' = [pc EXCEPT ![j] = "returned"] /\ ret' = [ret EXCEPT ![j] = "stopped"]
        BY <4>1
      <4>2. CASE pc' = [pc EXCEPT ![j] = "lookup"] /\ ret' = ret
        BY <4>2
      <4> QED
        BY <3>0, <4>1, <4>2
    <3>2. UNCHANGED <<stopped, sd, worker, closed, wstate, queue, current, phase, at, result,
                      cancelled, sent, accepted>>
      BY <2>1 DEF CheckStopped, Return
    <3> QED
      BY <3>1, <3>2
  <2>2. CASE GetOrCreate(j)
    <3>1. WorkerFor(j) \in Jobs /\ WorkerFor(j) # None
      BY DEF WorkerFor
    <3> QED
      BY <2>2, <3>1 DEF GetOrCreate
  <2>3. CASE Send(j)
    <3>1. \A w \in Jobs : Append(queue[w], j) \in Seq(Jobs)
      OBVIOUS
    <3>2. queue' \in [Jobs -> Seq(Jobs)]
      BY <2>3, <3>1 DEF Send
    <3> QED
      BY <2>3, <3>2 DEF Send
  <2>4. CASE CtxDone(j)
    BY <2>4 DEF CtxDone, Return
  <2>5. CASE GetResult(j)
    BY <2>5 DEF GetResult, Return
  <2> QED
    BY <1>1, <2>1, <2>2, <2>3, <2>4, <2>5 DEF CallStep
<1>2. ASSUME NEW j \in Jobs, Cancel(j) PROVE TypeOK'
  BY <1>2 DEF Cancel
<1>3. ASSUME NEW w \in Jobs, WorkerStep(w) PROVE TypeOK'
  <2>1. CASE TakeJob(w)
    <3>1. Head(queue[w]) \in Jobs /\ Tail(queue[w]) \in Seq(Jobs)
      BY <2>1 DEF TakeJob
    <3> QED
      BY <2>1, <3>1 DEF TakeJob
  <2>2. CASE CheckContext(w)
    BY <2>2 DEF CheckContext
  <2>3. CASE StartFn(w)
    BY <2>3 DEF StartFn
  <2>4. CASE FinishJob(w)
    BY <2>4 DEF FinishJob
  <2>5. CASE SeeDone(w)
    BY <2>5 DEF SeeDone
  <2>6. CASE Exit(w)
    BY <2>6 DEF Exit
  <2> QED
    BY <1>3, <2>1, <2>2, <2>3, <2>4, <2>5, <2>6 DEF WorkerStep
<1>4. ASSUME ShutdownStep PROVE TypeOK'
  <2>1. stopped' \in BOOLEAN
    BY <1>4, Zenon DEF ShutdownStep, SetStopped, CloseWorkers, AllExited, ShutdownTimeout
  <2>2. closed' \subseteq Jobs
    BY <1>4 DEF ShutdownStep, SetStopped, CloseWorkers, AllExited, ShutdownTimeout
  <2> QED
    BY <1>4, <2>1, <2>2 DEF ShutdownStep, SetStopped, CloseWorkers, AllExited, ShutdownTimeout
<1>5. CASE UNCHANGED vars
  BY <1>5 DEF vars
<1> QED
  BY <1>1, <1>2, <1>3, <1>4, <1>5 DEF Next

\* What a receive from, and a send to, the channel of a worker do to it.
LEMMA TakenJob ==
  ASSUME IInv, NEW w \in Jobs, TakeJob(w)
  PROVE  /\ Head(queue[w]) \in Jobs
         /\ 1 \in Positions(w) /\ Head(queue[w]) = queue[w][1]
         /\ \A n \in 1 .. Len(queue'[w]) : n + 1 \in Positions(w) /\ queue'[w][n] = queue[w][n + 1]
         /\ \A v \in Jobs \ {w} : queue'[v] = queue[v]
BY DEF IInv, TypeOK, TakeJob, Positions

LEMMA SentJob ==
  ASSUME IInv, NEW j \in Jobs, Send(j)
  PROVE  /\ at[j] \in Jobs
         /\ Len(queue'[at[j]]) = Len(queue[at[j]]) + 1
         /\ queue'[at[j]][Len(queue[at[j]]) + 1] = j
         /\ \A n \in Positions(at[j]) : queue'[at[j]][n] = queue[at[j]][n]
         /\ \A v \in Jobs \ {at[j]} : queue'[v] = queue[v]
<1>1. at[j] \in Jobs
  BY DEF IInv, TypeOK, Routed, Send
<1> QED
  BY <1>1 DEF IInv, TypeOK, Send, Positions

LEMMA RoutedStep == IInv /\ [Next]_vars => Routed'
<1> SUFFICES ASSUME IInv, [Next]_vars PROVE Routed'
  OBVIOUS
<1> USE ChatOfAssumption, NoneAssumption
<1>0. TypeOK /\ Routed
  BY DEF IInv
<1>1. ASSUME NEW j \in Jobs, CallStep(j) PROVE Routed'
  <2>1. CASE CheckStopped(j) \/ CtxDone(j) \/ GetResult(j)
    BY <1>0, <2>1 DEF CheckStopped, CtxDone, GetResult, Return, Routed, TypeOK, Positions,
                      registry, loops, calls
  <2>2. CASE GetOrCreate(j)
    <3>1. /\ WorkerFor(j) \in Jobs /\ WorkerFor(j) # None
          /\ worker[ChatOf[j]] # None => WorkerFor(j) = worker[ChatOf[j]]
      BY <1>0 DEF WorkerFor, TypeOK
    <3>2. \A c \in Chats : worker[c] # None => worker'[c] = worker[c]
      BY <1>0, <2>2, <3>1 DEF GetOrCreate, TypeOK
    <3>3. worker'[ChatOf[j]] = WorkerFor(j) /\ at'[j] = WorkerFor(j)
      BY <1>0, <2>2 DEF GetOrCreate, TypeOK
    <3>4. \A i \in Jobs \ {j} : pc'[i] = pc[i] /\ at'[i] = at[i]
      BY <1>0, <2>2 DEF GetOrCreate, TypeOK
    <3>5. UNCHANGED <<queue, current>>
      BY <2>2 DEF GetOrCreate
    <3>6. \A i \in Jobs : pc'[i] \in {"send", "wait"} => at'[i] = worker'[ChatOf[i]] /\ at'[i] # None
      BY <1>0, <3>1, <3>2, <3>3, <3>4 DEF Routed, TypeOK
    <3>7. \A w \in Jobs : \A n \in Positions(w) : worker'[ChatOf[queue[w][n]]] = w
      <4>1. \A w \in Jobs : \A n \in Positions(w) : queue[w][n] \in Jobs
        BY <1>0 DEF TypeOK, Positions
      <4> QED
        BY <1>0, <3>2, <4>1 DEF Routed
    <3>8. \A w \in Jobs : current[w] # None => worker'[ChatOf[current[w]]] = w
      BY <1>0, <3>2 DEF Routed, TypeOK
    <3> QED
      BY <3>5, <3>6, <3>7, <3>8 DEF Routed, Positions
  <2>3. CASE Send(j)
    <3>1. UNCHANGED <<worker, current, at>> /\ pc[j] = "send"
      BY <2>3 DEF Send, registry
    <3>2. \A i \in Jobs \ {j} : pc'[i] = pc[i]
      BY <1>0, <2>3 DEF Send, TypeOK
    <3>3. at[j] = worker[ChatOf[j]] /\ at[j] # None
      BY <1>0, <3>1 DEF Routed
    <3>4. \A i \in Jobs : pc'[i] \in {"send", "wait"} => at[i] = worker[ChatOf[i]] /\ at[i] # None
      BY <1>0, <3>2, <3>3 DEF Routed
    <3>5. ASSUME NEW w \in Jobs, NEW n \in 1 .. Len(queue'[w])
          PROVE  worker[ChatOf[queue'[w][n]]] = w
      <4>1. CASE w # at[j]
        BY <4>1, <1>0, <2>3, SentJob, <3>5 DEF Routed, Positions
      <4>2. CASE w = at[j] /\ n \in Positions(w)
        BY <4>2, <1>0, <2>3, SentJob DEF Routed
      <4>3. CASE w = at[j] /\ n \notin Positions(w)
        <5>1. Len(queue[w]) \in Nat
          BY <1>0 DEF TypeOK
        <5>2. n = Len(queue[w]) + 1
          BY <4>3, <5>1, <3>5, <2>3, SentJob DEF Positions
        <5>3. queue'[w][n] = j
          BY <5>2, <4>3, <2>3, SentJob
        <5> QED
          BY <5>3, <3>3, <4>3
      <4> QED
        BY <4>1, <4>2, <4>3
    <3> QED
      BY <1>0, <3>1, <3>4, <3>5 DEF Routed, Positions
  <2> QED
    BY <1>1, <2>1, <2>2, <2>3 DEF CallStep
<1>2. ASSUME NEW w \in Jobs, WorkerStep(w) PROVE Routed'
  <2>1. CASE TakeJob(w)
    <3>1. UNCHANGED <<worker, pc, at>>
      BY <2>1 DEF TakeJob, registry, calls
    <3>2. \A v \in Jobs : \A n \in 1 .. Len(queue'[v]) : worker[ChatOf[queue'[v][n]]] = v
      BY <1>0, <2>1, TakenJob DEF Routed, Positions
    <3>3. \A v \in Jobs : current'[v] # None => worker[ChatOf[current'[v]]] = v
      <4>1. worker[ChatOf[Head(queue[w])]] = w
        BY <1>0, <2>1, TakenJob DEF Routed
      <4>2. \A v \in Jobs : current'[v] = current[v] \/ (v = w /\ current'[v] = Head(queue[w]))
        BY <1>0, <2>1 DEF TakeJob, TypeOK
      <4> QED
        BY <1>0, <4>1, <4>2 DEF Routed
    <3> QED
      BY <1>0, <3>1, <3>2, <3>3 DEF Routed, Positions
  <2>2. CASE CheckContext(w) \/ FinishJob(w)
    <3>1. UNCHANGED <<worker, pc, at, queue>>
      BY <2>2 DEF CheckContext, FinishJob, registry, calls
    <3>2. \A v \in Jobs : current'[v] = current[v] \/ current'[v] = None
      BY <1>0, <2>2 DEF CheckContext, FinishJob, TypeOK
    <3> QED
      BY <1>0, <3>1, <3>2 DEF Routed, Positions
  <2>3. CASE StartFn(w) \/ SeeDone(w) \/ Exit(w)
    BY <1>0, <2>3 DEF StartFn, SeeDone, Exit, Routed, Positions, registry, calls
  <2> QED
    BY <1>2, <2>1, <2>2, <2>3 DEF WorkerStep
<1>3. ASSUME NEW j \in Jobs, Cancel(j) PROVE Routed'
  BY <1>0, <1>3 DEF Cancel, Routed, Positions, registry, loops, calls
<1>4. CASE ShutdownStep \/ UNCHANGED vars
  BY <1>0, <1>4 DEF ShutdownStep, SetStopped, CloseWorkers, AllExited, ShutdownTimeout, vars,
                    Routed, Positions, registry, loops, calls
<1> QED
  BY <1>1, <1>2, <1>3, <1>4 DEF Next

\* A job is in the channel of one worker only, and executed by it.
LEMMA HeldByOne ==
  ASSUME TypeOK, Routed, NEW v \in Jobs, NEW w \in Jobs, NEW n \in Positions(w)
  PROVE  /\ queue[w][n] \in Jobs
         /\ \A m \in Positions(v) : queue[v][m] = queue[w][n] => v = w
         /\ current[v] = queue[w][n] => v = w
<1>1. queue[w][n] \in Jobs
  BY DEF TypeOK, Positions
<1> QED
  BY <1>1, NoneAssumption DEF Routed

\* A call never settles, or abandons uncancelled, a job that a worker holds.
LEMMA CallKeepsUnsettled ==
  ASSUME TypeOK, SentFirst, NEW j \in Jobs, CallStep(j) \/ Cancel(j)
  PROVE  /\ \A i \in Jobs : Unsettled(i) => Unsettled(i)'
         /\ SentFirst'
<1> USE DEF Unsettled, SentFirst, TypeOK, calls, loops, registry
<1>1. CASE CheckStopped(j)
  BY <1>1 DEF CheckStopped, Return
<1>2. CASE GetOrCreate(j)
  BY <1>2 DEF GetOrCreate
<1>3. CASE Send(j)
  BY <1>3 DEF Send
<1>4. CASE CtxDone(j)
  BY <1>4 DEF CtxDone, Return
<1>5. CASE GetResult(j)
  BY <1>5 DEF GetResult, Return
<1>6. CASE Cancel(j)
  BY <1>6 DEF Cancel
<1> QED
  BY <1>1, <1>2, <1>3, <1>4, <1>5, <1>6 DEF CallStep

\* A worker settles the job it has in hand and no other, and a step that takes
\* a job in hand settles none.
LEMMA FreshKept ==
  ASSUME IInv, UNCHANGED <<queue, current>>,
         \A i \in Jobs : Unsettled(i) => Unsettled(i)', SentFirst'
  PROVE  Fresh'
<1>1. TypeOK /\ Fresh
  BY DEF IInv
<1>2. /\ \A w \in Jobs : \A n \in Positions(w) : queue[w][n] \in Jobs
      /\ \A w \in Jobs : current[w] # None => current[w] \in Jobs
  BY <1>1 DEF TypeOK, Positions
<1>3. HeldOnce'
  BY <1>1 DEF Fresh, HeldOnce, Positions
<1>4. Unanswered'
  <2>1. \A w \in Jobs : \A n \in Positions(w) : Unsettled(queue[w][n])'
    BY <1>1, <1>2 DEF Fresh, Unanswered, Unsettled
  <2>2. \A w \in Jobs : current[w] # None => Unsettled(current[w])'
    BY <1>1, <1>2 DEF Fresh, Unanswered, Unsettled
  <2> QED
    BY <2>1, <2>2 DEF Unanswered, Unsettled, Positions
<1> QED
  BY <1>3, <1>4 DEF Fresh

LEMMA FreshSend == ASSUME IInv, NEW j \in Jobs, Send(j) PROVE Fresh'
<1>0. TypeOK /\ Fresh /\ HeldOnce /\ Unanswered /\ SentFirst
  BY DEF IInv, Fresh
<1>1. /\ \A i \in Jobs : Unsettled(i) => Unsettled(i)'
      /\ SentFirst'
  BY <1>0, CallKeepsUnsettled DEF CallStep
<1>2. UNCHANGED current /\ ~Unsettled(j) /\ Unsettled(j)'
  <2>1. pc[j] = "send" /\ pc'[j] = "wait" /\ UNCHANGED <<current, result, ret, cancelled>>
    BY <1>0 DEF Send, TypeOK
  <2> QED
    BY <1>0, <2>1 DEF Unsettled, SentFirst
<1>3. ASSUME NEW w \in Jobs, NEW n \in 1 .. Len(queue'[w])
      PROVE  \/ n \in Positions(w) /\ queue'[w][n] = queue[w][n]
             \/ n = Len(queue[w]) + 1 /\ queue'[w][n] = j
  <2>1. Len(queue[w]) \in Nat
    BY <1>0 DEF TypeOK
  <2>2. CASE w = at[j]
    BY <1>3, <2>1, <2>2, SentJob DEF Positions
  <2>3. CASE w # at[j]
    BY <1>3, <2>1, <2>3, SentJob DEF Positions
  <2> QED
    BY <2>2, <2>3
<1>4. /\ \A w \in Jobs : \A n \in Positions(w) : queue[w][n] \in Jobs /\ queue[w][n] # j
      /\ \A w \in Jobs : current[w] # j /\ (current[w] # None => current[w] \in Jobs)
  <2>1. \A w \in Jobs : \A n \in Positions(w) : queue[w][n] \in Jobs /\ queue[w][n] # j
    BY <1>0, <1>2 DEF TypeOK, Positions, Unanswered
  <2>2. \A w \in Jobs : current[w] # j
    BY <1>0, <1>2, NoneAssumption DEF Unanswered
  <2> QED
    BY <1>0, <2>1, <2>2 DEF TypeOK
<1>5. HeldOnce'
  <2>1. ASSUME NEW w \in Jobs, NEW m \in 1 .. Len(queue'[w]), NEW n \in 1 .. Len(queue'[w]),
               queue'[w][m] = queue'[w][n]
        PROVE  m = n
    BY <1>0, <1>3, <1>4, <2>1 DEF HeldOnce
  <2>2. \A w \in Jobs : \A n \in 1 .. Len(queue'[w]) : queue'[w][n] # current[w]
    BY <1>0, <1>3, <1>4 DEF HeldOnce
  <2> QED
    BY <1>2, <2>1, <2>2 DEF HeldOnce, Positions
<1>6. Unanswered'
  <2>1. ASSUME NEW w \in Jobs, NEW n \in 1 .. Len(queue'[w])
        PROVE  \E i \in Jobs : i = queue'[w][n] /\ Unsettled(i)'
    <3>1. PICK i \in Jobs : i = queue'[w][n] /\ (i = j \/ Unsettled(i))
      BY <1>0, <1>3, <1>4, <2>1 DEF Unanswered
    <3>2. Unsettled(i)'
      BY <1>1, <1>2, <3>1
    <3> QED
      BY <3>1, <3>2
  <2>2. ASSUME NEW w \in Jobs, current[w] # None PROVE Unsettled(current[w])'
    <3>1. PICK i \in Jobs : i = current[w] /\ Unsettled(i)
      BY <1>0, <1>4, <2>2 DEF Unanswered
    <3>2. Unsettled(i)'
      BY <1>1, <3>1
    <3> QED
      BY <1>2, <3>1, <3>2 DEF Unsettled
  <2> QED
    BY <1>2, <2>1, <2>2 DEF Unanswered, Unsettled, Positions
<1> QED
  BY <1>1, <1>5, <1>6 DEF Fresh

LEMMA FreshTake == ASSUME IInv, NEW w \in Jobs, TakeJob(w) PROVE Fresh'
<1>0. TypeOK /\ Routed /\ HeldOnce /\ Unanswered /\ SentFirst
  BY DEF IInv, Fresh
<1>1. PICK j \in Jobs : j = Head(queue[w]) /\ 1 \in Positions(w) /\ j = queue[w][1]
  BY TakenJob
<1>2. /\ UNCHANGED <<pc, ret, result, cancelled>>
      /\ current[w] = None /\ current' = [current EXCEPT ![w] = j]
  BY <1>1 DEF TakeJob, calls
<1>3. \A v \in Jobs : current'[v] = IF v = w THEN j ELSE current[v]
  BY <1>0, <1>2 DEF TypeOK
<1>4. ASSUME NEW v \in Jobs, NEW n \in 1 .. Len(queue'[v])
      PROVE  /\ queue'[v][n] # j
             /\ \/ v = w /\ n + 1 \in Positions(w) /\ queue'[v][n] = queue[w][n + 1]
                \/ v # w /\ n \in Positions(v) /\ queue'[v][n] = queue[v][n]
  <2>1. CASE v = w
    <3>1. n + 1 \in Positions(w) /\ queue'[w][n] = queue[w][n + 1]
      BY <1>4, <2>1, TakenJob
    <3>2. n + 1 # 1
      BY <1>4
    <3>3. queue[w][n + 1] # queue[w][1]
      BY <1>0, <1>1, <3>1, <3>2 DEF HeldOnce
    <3> QED
      BY <1>1, <2>1, <3>1, <3>3
  <2>2. CASE v # w
    <3>1. n \in Positions(v) /\ queue'[v][n] = queue[v][n]
      BY <1>4, <2>2, TakenJob DEF Positions
    <3> QED
      BY <1>0, <1>1, <2>2, <3>1, HeldByOne
  <2> QED
    BY <2>1, <2>2
<1>5. HeldOnce'
  <2>1. ASSUME NEW v \in Jobs, NEW m \in 1 .. Len(queue'[v]), NEW n \in 1 .. Len(queue'[v]),
               queue'[v][m] = queue'[v][n]
        PROVE  m = n
    <3>1. CASE v = w
      <4>1. m + 1 = n + 1
        BY <1>0, <1>4, <2>1, <3>1 DEF HeldOnce
      <4> QED
        BY <4>1
    <3>2. CASE v # w
      BY <1>0, <1>4, <2>1, <3>2 DEF HeldOnce
    <3> QED
      BY <3>1, <3>2
  <2>2. \A v \in Jobs : \A n \in 1 .. Len(queue'[v]) : queue'[v][n] # current'[v]
    BY <1>0, <1>3, <1>4 DEF HeldOnce
  <2> QED
    BY <2>1, <2>2 DEF HeldOnce, Positions
<1>6. Unanswered'
  <2>1. \A v \in Jobs : \A n \in 1 .. Len(queue'[v]) : Unsettled(queue'[v][n])
    BY <1>0, <1>4 DEF Unanswered
  <2>2. \A v \in Jobs : current'[v] # None => Unsettled(current'[v])
    BY <1>0, <1>1, <1>3 DEF Unanswered
  <2> QED
    BY <1>2, <2>1, <2>2 DEF Unanswered, Unsettled, Positions
<1>7. SentFirst'
  BY <1>0, <1>2 DEF SentFirst
<1> QED
  BY <1>5, <1>6, <1>7 DEF Fresh

\* The job in hand gets its result and leaves the hand.
LEMMA FreshLetGo ==
  ASSUME IInv, NEW w \in Jobs, NEW r, current[w] # None,
         current' = [current EXCEPT ![w] = None],
         result' = [result EXCEPT ![current[w]] = r],
         UNCHANGED <<queue, pc, ret, cancelled>>
  PROVE  Fresh'
<1> USE NoneAssumption
<1>0. TypeOK /\ Routed /\ HeldOnce /\ Unanswered /\ SentFirst
  BY DEF IInv, Fresh
<1>1. PICK h \in Jobs : h = current[w]
  BY <1>0 DEF TypeOK
<1>2. /\ \A i \in Jobs \ {h} : result'[i] = result[i]
      /\ \A v \in Jobs : current'[v] = IF v = w THEN None ELSE current[v]
  BY <1>0, <1>1 DEF TypeOK
<1>3. \A v \in Jobs : \A n \in Positions(v) : queue[v][n] \in Jobs /\ queue[v][n] # h
  BY <1>0, <1>1, HeldByOne DEF HeldOnce
<1>4. \A v \in Jobs : current'[v] # None => current'[v] \in Jobs /\ current'[v] # h
  <2>1. \A v \in Jobs : current[v] # None => current[v] \in Jobs /\ worker[ChatOf[current[v]]] = v
    BY <1>0 DEF TypeOK, Routed
  <2> QED
    BY <1>1, <1>2, <2>1
<1>5. \A i \in Jobs : i # h /\ Unsettled(i) => Unsettled(i)'
  BY <1>2 DEF Unsettled
<1>6. HeldOnce'
  BY <1>0, <1>2, <1>3 DEF HeldOnce, Positions
<1>7. Unanswered'
  <2>1. ASSUME NEW v \in Jobs, NEW n \in Positions(v) PROVE Unsettled(queue[v][n])'
    <3>1. PICK i \in Jobs : i = queue[v][n] /\ i # h /\ Unsettled(i)
      BY <1>0, <1>3, <2>1 DEF Unanswered
    <3>2. Unsettled(i)'
      BY <1>5, <3>1
    <3> QED
      BY <3>1, <3>2 DEF Unsettled
  <2>2. ASSUME NEW v \in Jobs, current'[v] # None PROVE Unsettled(current[v])'
    <3>1. PICK i \in Jobs : i = current[v] /\ i # h /\ Unsettled(i)
      BY <1>0, <1>2, <1>4, <2>2 DEF Unanswered
    <3>2. Unsettled(i)'
      BY <1>5, <3>1
    <3>3. current'[v] = i
      BY <1>2, <2>2, <3>1
    <3> QED
      BY <3>1, <3>2, <3>3 DEF Unsettled
  <2>3. \A v \in Jobs : current'[v] # None => current'[v] = current[v]
    BY <1>2
  <2> QED
    BY <2>1, <2>2, <2>3 DEF Unanswered, Unsettled, Positions
<1>8. SentFirst'
  <2>1. pc[h] \in {"wait", "returned"}
    BY <1>0, <1>1 DEF Unanswered, Unsettled
  <2> QED
    BY <1>0, <1>2, <2>1 DEF SentFirst
<1> QED
  BY <1>6, <1>7, <1>8 DEF Fresh

LEMMA FreshStep == IInv /\ [Next]_vars => Fresh'
<1> SUFFICES ASSUME IInv, [Next]_vars PROVE Fresh'
  OBVIOUS
<1>0. TypeOK /\ SentFirst
  BY DEF IInv, Fresh
<1>1. ASSUME NEW j \in Jobs, CallStep(j) \/ Cancel(j) PROVE Fresh'
  <2>1. CASE Send(j)
    BY <2>1, FreshSend
  <2>2. CASE CheckStopped(j) \/ GetOrCreate(j) \/ CtxDone(j) \/ GetResult(j) \/ Cancel(j)
    <3>1. UNCHANGED <<queue, current>>
      BY <2>2 DEF CheckStopped, GetOrCreate, CtxDone, GetResult, Cancel, loops
    <3> QED
      BY <1>0, <1>1, <3>1, CallKeepsUnsettled, FreshKept
  <2> QED
    BY <1>1, <2>1, <2>2 DEF CallStep
<1>2. ASSUME UNCHANGED <<queue, current, pc, ret, result, cancelled>> PROVE Fresh'
  BY <1>0, <1>2, FreshKept DEF Unsettled, SentFirst
<1>3. ASSUME NEW w \in Jobs, WorkerStep(w) PROVE Fresh'
  <2>1. CASE TakeJob(w)
    BY <2>1, FreshTake
  <2>2. CASE CheckContext(w)
    <3>1. CASE current[w] \in cancelled
      BY <2>2, <3>1, FreshLetGo DEF CheckContext, calls
    <3>2. CASE current[w] \notin cancelled
      BY <1>2, <2>2, <3>2 DEF CheckContext, calls
    <3> QED
      BY <3>1, <3>2
  <2>3. CASE FinishJob(w)
    BY <2>3, FreshLetGo DEF FinishJob, calls
  <2>4. CASE StartFn(w) \/ SeeDone(w) \/ Exit(w)
    BY <1>2, <2>4 DEF StartFn, SeeDone, Exit, calls
  <2> QED
    BY <1>3, <2>1, <2>2, <2>3, <2>4 DEF WorkerStep
<1>4. CASE ShutdownStep \/ UNCHANGED vars
  BY <1>2, <1>4 DEF ShutdownStep, SetStopped, CloseWorkers, AllExited, ShutdownTimeout, vars,
                    loops, calls
<1> QED
  BY <1>1, <1>3, <1>4 DEF Next

LEMMA InductiveInvariant == Spec => []IInv
<1>1. IInv /\ [Next]_vars => IInv'
  BY TypeStep, RoutedStep, FreshStep DEF IInv
<1> QED
  BY <1>1, InitIInv, PTL DEF Spec

-----------------------------------------------------------------------------
\* The registry's state keeps its type, however Run and Shutdown interleave.
THEOREM TypeCorrect == Spec => []TypeOK
<1>1. IInv => TypeOK
  BY DEF IInv
<1> QED
  BY <1>1, InductiveInvariant, PTL

\* "For a given chatID only one fn runs at a time" (ports.go:90): whoever
\* creates the worker of a chat, at most one job of the chat is in execution.
THEOREM Exclusion == Spec => []SerialPerChat
<1>1. IInv => SerialPerChat
  BY DEF IInv, Routed, SerialPerChat, Executes
<1> QED
  BY <1>1, InductiveInvariant, PTL

\* A job whose Run returned before a worker looked at its context is never
\* executed (chat_workers.go:43).
THEOREM AbandonedAreNotRun == Spec => AbandonedNotRun
<1> DEFINE A == \A j \in Jobs : ret[j] # "none" /\ ~Begun(j) => ~Begun(j)'
<1>1. IInv /\ [Next]_vars => [A]_vars
  <2> SUFFICES ASSUME IInv, Next, NEW j \in Jobs, ret[j] # "none", ~Begun(j), Begun(j)'
               PROVE  FALSE
    OBVIOUS
  <2>0. TypeOK /\ Unanswered
    BY DEF IInv, Fresh
  <2>1. PICK w \in Jobs : current'[w] = j /\ phase'[w] \in {"start", "fn"}
    BY DEF Begun
  <2>2. current[w] # j \/ phase[w] = "check"
    BY <2>0 DEF Begun, TypeOK
  <2>3. PICK v \in Jobs : TakeJob(v) \/ CheckContext(v) \/ StartFn(v) \/ FinishJob(v)
    BY <2>1, <2>2
       DEF Next, CallStep, CheckStopped, GetOrCreate, Send, CtxDone, GetResult, Cancel,
           WorkerStep, SeeDone, Exit, ShutdownStep, SetStopped, CloseWorkers, AllExited,
           ShutdownTimeout, loops
  <2>4. ~TakeJob(v)
    BY <2>0, <2>1, <2>2 DEF TakeJob, TypeOK
  <2>5. ~StartFn(v) /\ ~FinishJob(v)
    BY <2>0, <2>1, <2>2, NoneAssumption DEF StartFn, FinishJob, TypeOK
  <2>6. CheckContext(v)
    BY <2>3, <2>4, <2>5
  <2>7. current[w] = j /\ phase[w] = "check" /\ w = v /\ j \notin cancelled
    BY <2>0, <2>1, <2>2, <2>6, NoneAssumption DEF CheckContext, TypeOK
  <2>8. Unsettled(j)
    BY <2>0, <2>7, NoneAssumption DEF Unanswered
  <2> QED
    BY <2>7, <2>8 DEF Unsettled
<1> QED
  BY <1>1, InductiveInvariant, PTL DEF Spec, AbandonedNotRun

-----------------------------------------------------------------------------
(***************************************************************************)
(* The registry implements SerialExecutor, the contract that ChatMemory    *)
(* builds on, and a successful Shutdown has answered every job it found.   *)
(*                                                                         *)
(* A worker serves the chat of the call that created it (Home), so what it *)
(* holds is the line of this chat and of no other.  A job without result   *)
(* is in the hands of a worker that has not left yet (Pending), because a  *)
(* worker leaves only with an empty channel, and until the workers are     *)
(* closed none has left (Alive).                                           *)
(***************************************************************************)

Home == \A c \in Chats : worker[c] # None => ChatOf[worker[c]] = c

Unsent == \A j \in Jobs : pc[j] \in {"new", "lookup", "send"} => j \notin sent

Mapped == Home /\ Unsent

\* Before the workers are closed.
Open == sd \in {"no", "flagged"}

Alive == Open => /\ closed = {}
                 /\ \A w \in Jobs : wstate[w] \in {"none", "select"}
                 /\ \A c \in Chats : worker[c] # None => wstate[worker[c]] = "select"

Holds(w, j) == current[w] = j \/ \E n \in Positions(w) : queue[w][n] = j

Pending ==
  \A j \in Jobs :
    j \in accepted \/ (Open /\ j \in sent) =>
      result[j] # "none" \/ \E w \in Jobs : wstate[w] \in {"select", "drain"} /\ Holds(w, j)

Drained == Alive /\ Pending /\ ShutdownDrains

USE DEF registry, loops, calls

-----------------------------------------------------------------------------
(* The map and the history.                                                *)

LEMMA MappedInit == Init => Mapped
BY DEF Init, Mapped, Home, Unsent

LEMMA MappedStep == TypeOK /\ Mapped /\ [Next]_vars => Mapped'
<1> SUFFICES ASSUME TypeOK, Mapped, [Next]_vars PROVE Mapped'
  OBVIOUS
<1> USE ChatOfAssumption, NoneAssumption DEF TypeOK, Mapped, Home, Unsent
<1>1. ASSUME NEW j \in Jobs, GetOrCreate(j) PROVE Mapped'
  <2>1. /\ WorkerFor(j) \in Jobs
        /\ ChatOf[WorkerFor(j)] = ChatOf[j]
    BY DEF WorkerFor
  <2>2. worker' = [worker EXCEPT ![ChatOf[j]] = WorkerFor(j)]
    BY <1>1 DEF GetOrCreate
  <2>3. Home'
    BY <2>1, <2>2
  <2>4. Unsent'
    BY <1>1 DEF GetOrCreate
  <2> QED
    BY <2>3, <2>4
<1>2. ASSUME NEW j \in Jobs, CheckStopped(j) \/ Send(j) \/ CtxDone(j) \/ GetResult(j) \/ Cancel(j)
      PROVE  Mapped'
  <2>1. worker' = worker
    BY <1>2 DEF CheckStopped, Send, CtxDone, GetResult, Cancel
  <2>2. Unsent'
    BY <1>2 DEF CheckStopped, Send, CtxDone, GetResult, Cancel, Return
  <2> QED
    BY <2>1, <2>2
<1>3. ASSUME NEW w \in Jobs, WorkerStep(w) PROVE Mapped'
  BY <1>3 DEF WorkerStep, TakeJob, CheckContext, StartFn, FinishJob, SeeDone, Exit
<1>4. CASE ShutdownStep \/ UNCHANGED vars
  BY <1>4 DEF ShutdownStep, SetStopped, CloseWorkers, AllExited, ShutdownTimeout, vars
<1> QED
  BY <1>1, <1>2, <1>3, <1>4 DEF Next, CallStep

\* The channel of a worker that holds anything is the line of one chat.
LEMMA WorkerOfOneChat ==
  ASSUME TypeOK, Routed, Mapped, NEW w \in Jobs,
         current[w] # None \/ queue[w] # << >>
  PROVE  /\ ChatOf[w] \in Chats /\ worker[ChatOf[w]] = w
         /\ \A c \in Chats \ {ChatOf[w]} : worker[c] # w
<1>1. PICK j \in Jobs : worker[ChatOf[j]] = w
  <2>1. CASE current[w] # None
    BY <2>1 DEF TypeOK, Routed
  <2>2. CASE queue[w] # << >>
    <3>1. 1 \in Positions(w) /\ queue[w][1] \in Jobs
      BY <2>2 DEF TypeOK, Positions
    <3> QED
      BY <3>1 DEF Routed
  <2> QED
    BY <2>1, <2>2
<1>2. ChatOf[j] \in Chats /\ ChatOf[w] \in Chats
  BY ChatOfAssumption
<1> QED
  BY <1>1, <1>2, NoneAssumption DEF Mapped, Home

-----------------------------------------------------------------------------
(* The refinement, step by step.                                           *)

LEMMA ExecutorInit == Init => Executor!Init
<1> SUFFICES ASSUME Init PROVE Executor!Init
  OBVIOUS
<1>1. lineOfChat = [c \in Chats |-> << >>]
  BY DEF Init, lineOfChat
<1>2. runningInChat = [c \in Chats |-> None]
  BY DEF Init, runningInChat
<1> QED
  BY <1>1, <1>2 DEF Init, Executor!Init

\* What waits at a worker, by what it holds.
LEMMA WaitingIs ==
  ASSUME TypeOK, NEW w \in Jobs
  PROVE  /\ Waiting(w) \in Seq(Jobs)
         /\ current[w] = None \/ Executes(w) => Waiting(w) = queue[w]
         /\ current[w] # None /\ ~Executes(w) => /\ Waiting(w) # << >>
                                                 /\ Head(Waiting(w)) = current[w]
                                                 /\ Tail(Waiting(w)) = queue[w]
<1>1. queue[w] \in Seq(Jobs)
  BY DEF TypeOK
<1>2. CASE current[w] = None \/ Executes(w)
  <2>1. Waiting(w) = << >> \o queue[w]
    BY <1>2 DEF Waiting
  <2>2. << >> \o queue[w] = queue[w]
    BY <1>1
  <2> QED
    BY <1>1, <1>2, <2>1, <2>2
<1>3. CASE current[w] # None /\ ~Executes(w)
  <2>1. PICK h \in Jobs : h = current[w]
    BY <1>3 DEF TypeOK
  <2>2. Waiting(w) = << h >> \o queue[w]
    BY <1>3, <2>1 DEF Waiting
  <2>3. << h >> \o queue[w] \in Seq(Jobs) /\ << h >> \o queue[w] # << >>
    BY <1>1
  <2>4. Head(<< h >> \o queue[w]) = h
    BY <1>1
  <2>5. Tail(<< h >> \o queue[w]) = queue[w]
    BY <1>1
  <2> QED
    BY <1>3, <2>1, <2>2, <2>3, <2>4, <2>5
<1> QED
  BY <1>2, <1>3

\* A step at one worker changes the line of its chat as it changes what waits
\* there, and the lines of the other chats not at all.
LEMMA LineOfWorker ==
  ASSUME TypeOK, NEW w \in Jobs, NEW c \in Chats,
         worker[c] = w, \A d \in Chats \ {c} : worker[d] # w, UNCHANGED worker,
         \A v \in Jobs \ {w} : queue'[v] = queue[v] /\ current'[v] = current[v] /\ phase'[v] = phase[v]
  PROVE  /\ lineOfChat[c] = Waiting(w) /\ runningInChat[c] = Running(w)
         /\ lineOfChat' = [lineOfChat EXCEPT ![c] = Waiting(w)']
         /\ runningInChat' = [runningInChat EXCEPT ![c] = Running(w)']
<1> USE NoneAssumption
<1>1. lineOfChat[c] = Waiting(w) /\ runningInChat[c] = Running(w)
  BY DEF lineOfChat, runningInChat
<1>2. ASSUME NEW v \in Jobs \ {w} PROVE Waiting(v)' = Waiting(v) /\ Running(v)' = Running(v)
  BY DEF Waiting, Running, Executes
<1>3. \A d \in Chats \ {c} : worker[d] = None \/ worker[d] \in Jobs \ {w}
  BY DEF TypeOK
<1>4. lineOfChat' = [lineOfChat EXCEPT ![c] = Waiting(w)']
  <2>1. \A d \in Chats : (IF worker[d] = None THEN << >> ELSE Waiting(worker[d])')
                           = IF d = c THEN Waiting(w)' ELSE lineOfChat[d]
    <3>1. ASSUME NEW d \in Chats \ {c}, worker[d] # None
          PROVE  Waiting(worker[d])' = lineOfChat[d]
      <4>1. PICK v \in Jobs \ {w} : v = worker[d] /\ v = worker'[d]
        BY <1>3, <3>1
      <4>2. Waiting(v)' = Waiting(v)
        BY <1>2
      <4>3. lineOfChat[d] = Waiting(v)
        BY <3>1, <4>1 DEF lineOfChat
      <4> QED
        BY <4>1, <4>2, <4>3 DEF Waiting, Executes
    <3>2. Waiting(worker[c])' = Waiting(w)'
      BY DEF Waiting, Executes
    <3>3. \A d \in Chats : worker[d] = None => lineOfChat[d] = << >>
      BY DEF lineOfChat
    <3> QED
      BY <3>1, <3>2, <3>3
  <2>2. lineOfChat' = [d \in Chats |-> IF d = c THEN Waiting(w)' ELSE lineOfChat[d]]
    BY <2>1 DEF lineOfChat
  <2> HIDE DEF lineOfChat
  <2>3. lineOfChat = [d \in Chats |-> lineOfChat[d]]
    BY DEF lineOfChat
  <2> QED
    BY <2>2, <2>3
<1>5. runningInChat' = [runningInChat EXCEPT ![c] = Running(w)']
  <2>1. \A d \in Chats : (IF worker[d] = None THEN None ELSE Running(worker[d])')
                           = IF d = c THEN Running(w)' ELSE runningInChat[d]
    <3>1. ASSUME NEW d \in Chats \ {c}, worker[d] # None
          PROVE  Running(worker[d])' = runningInChat[d]
      <4>1. PICK v \in Jobs \ {w} : v = worker[d] /\ v = worker'[d]
        BY <1>3, <3>1
      <4>2. Running(v)' = Running(v)
        BY <1>2
      <4>3. runningInChat[d] = Running(v)
        BY <3>1, <4>1 DEF runningInChat
      <4> QED
        BY <4>1, <4>2, <4>3 DEF Running, Executes
    <3>2. Running(worker[c])' = Running(w)'
      BY DEF Running, Executes
    <3>3. \A d \in Chats : worker[d] = None => runningInChat[d] = None
      BY DEF runningInChat
    <3> QED
      BY <3>1, <3>2, <3>3
  <2>2. runningInChat' = [d \in Chats |-> IF d = c THEN Running(w)' ELSE runningInChat[d]]
    BY <2>1 DEF runningInChat
  <2>3. runningInChat = [d \in Chats |-> runningInChat[d]]
    BY DEF runningInChat
  <2> QED
    BY <2>2, <2>3
<1> QED
  BY <1>1, <1>4, <1>5

\* The line is a function on the chats: an exception with the same value is none.
LEMMA SameLine ==
  ASSUME NEW c \in Chats
  PROVE  /\ [lineOfChat EXCEPT ![c] = lineOfChat[c]] = lineOfChat
         /\ [runningInChat EXCEPT ![c] = runningInChat[c]] = runningInChat
BY DEF lineOfChat, runningInChat

LEMMA SubmitStep ==
  ASSUME IInv, Mapped, NEW j \in Jobs, Send(j)
  PROVE  Executor!Submit(j)
<1>0. TypeOK /\ Routed
  BY DEF IInv
<1>1. PICK w \in Jobs, c \in Chats : w = at[j] /\ c = ChatOf[j] /\ worker[c] = w /\ w # None
  BY <1>0, ChatOfAssumption, NoneAssumption DEF Routed, TypeOK, Send
<1>2. \A d \in Chats \ {c} : worker[d] # w
  BY <1>0, <1>1 DEF Mapped, Home
<1>3. /\ queue' = [queue EXCEPT ![w] = Append(queue[w], j)]
      /\ UNCHANGED <<worker, current, phase>> /\ sent' = sent \cup {j}
  BY <1>1 DEF Send
<1>4. /\ queue[w] \in Seq(Jobs) /\ queue'[w] = Append(queue[w], j)
      /\ \A v \in Jobs \ {w} : queue'[v] = queue[v]
  BY <1>0, <1>3 DEF TypeOK
<1>5. Waiting(w)' = Append(Waiting(w), j) /\ Running(w)' = Running(w)
  <2> DEFINE held == IF current[w] # None /\ ~Executes(w) THEN <<current[w]>> ELSE << >>
  <2>1. held \in Seq(Jobs)
    BY <1>0 DEF TypeOK
  <2>2. Waiting(w) = held \o queue[w] /\ Waiting(w)' = held \o Append(queue[w], j)
    BY <1>3, <1>4 DEF Waiting, Executes
  <2> HIDE DEF held
  <2>3. held \o Append(queue[w], j) = Append(held \o queue[w], j)
    BY <1>4, <2>1
  <2>4. Running(w)' = Running(w)
    BY <1>3 DEF Running, Executes
  <2> QED
    BY <2>2, <2>3, <2>4
<1>6. /\ lineOfChat' = [lineOfChat EXCEPT ![c] = Append(lineOfChat[c], j)]
      /\ runningInChat' = runningInChat
  <2>1. /\ lineOfChat[c] = Waiting(w) /\ runningInChat[c] = Running(w)
        /\ lineOfChat' = [lineOfChat EXCEPT ![c] = Waiting(w)']
        /\ runningInChat' = [runningInChat EXCEPT ![c] = Running(w)']
    BY <1>0, <1>1, <1>2, <1>3, <1>4, LineOfWorker
  <2> QED
    BY <1>5, <2>1, SameLine
<1>7. j \notin sent
  BY DEF Mapped, Unsent, Send
<1> QED
  BY <1>1, <1>3, <1>6, <1>7 DEF Executor!Submit

LEMMA CreateStep ==
  ASSUME IInv, Mapped, NEW j \in Jobs, GetOrCreate(j)
  PROVE  UNCHANGED <<lineOfChat, runningInChat, sent>>
<1>0. TypeOK /\ Routed
  BY DEF IInv
<1>1. PICK c \in Chats : c = ChatOf[j]
  BY ChatOfAssumption
<1>2. /\ worker' = [worker EXCEPT ![c] = WorkerFor(j)]
      /\ UNCHANGED <<queue, current, phase, sent>>
  BY <1>1 DEF GetOrCreate
<1>3. CASE worker[c] # None
  <2>1. worker' = worker
    BY <1>0, <1>1, <1>2, <1>3 DEF WorkerFor, TypeOK
  <2> QED
    BY <1>2, <2>1 DEF lineOfChat, runningInChat, Waiting, Running, Executes
<1>4. CASE worker[c] = None
  <2>1. worker' = [worker EXCEPT ![c] = j]
    BY <1>1, <1>2, <1>4 DEF WorkerFor
  <2>2. current[j] = None /\ queue[j] = << >>
    BY <1>0, <1>1, <1>4, NoneAssumption, WorkerOfOneChat
  <2>3. Waiting(j) = << >> /\ Running(j) = None
    BY <1>0, <2>2, WaitingIs DEF Running, Executes
  <2>4. \A d \in Chats : worker'[d] = IF d = c THEN j ELSE worker[d]
    BY <1>0, <2>1 DEF TypeOK
  <2>5. /\ \A d \in Chats : (IF worker'[d] = None THEN << >> ELSE Waiting(worker'[d]))
                              = IF worker[d] = None THEN << >> ELSE Waiting(worker[d])
        /\ \A d \in Chats : (IF worker'[d] = None THEN None ELSE Running(worker'[d]))
                              = IF worker[d] = None THEN None ELSE Running(worker[d])
    BY <1>4, <2>3, <2>4, NoneAssumption
  <2>6. /\ lineOfChat' = [d \in Chats |-> IF worker'[d] = None THEN << >> ELSE Waiting(worker'[d])]
        /\ runningInChat' = [d \in Chats |-> IF worker'[d] = None THEN None ELSE Running(worker'[d])]
    BY <1>2 DEF lineOfChat, runningInChat, Waiting, Running, Executes
  <2> QED
    BY <1>2, <2>5, <2>6 DEF lineOfChat, runningInChat
<1> QED
  BY <1>3, <1>4

\* What a step of runJob does to the line and to the job that runs.
LEMMA WorkerLine ==
  ASSUME IInv, Mapped, NEW w \in Jobs,
         TakeJob(w) \/ CheckContext(w) \/ StartFn(w) \/ FinishJob(w)
  PROVE  \E c \in Chats :
           /\ lineOfChat[c] = Waiting(w) /\ runningInChat[c] = Running(w)
           /\ lineOfChat' = [lineOfChat EXCEPT ![c] = Waiting(w)']
           /\ runningInChat' = [runningInChat EXCEPT ![c] = Running(w)']
           /\ UNCHANGED sent
<1>0. TypeOK /\ Routed
  BY DEF IInv
<1>1. /\ UNCHANGED <<worker, sent>> /\ (current[w] # None \/ queue[w] # << >>)
      /\ \A v \in Jobs \ {w} : queue'[v] = queue[v] /\ current'[v] = current[v] /\ phase'[v] = phase[v]
  BY <1>0 DEF TakeJob, CheckContext, StartFn, FinishJob, TypeOK
<1>2. PICK c \in Chats : c = ChatOf[w] /\ worker[c] = w /\ \A d \in Chats \ {c} : worker[d] # w
  BY <1>0, <1>1, WorkerOfOneChat
<1> QED
  BY <1>0, <1>1, <1>2, LineOfWorker

LEMMA RunJobStep ==
  ASSUME IInv, Mapped, NEW w \in Jobs,
         TakeJob(w) \/ CheckContext(w) \/ StartFn(w) \/ FinishJob(w)
  PROVE  \/ UNCHANGED <<lineOfChat, runningInChat, sent>>
         \/ \E c \in Chats : Executor!Start(c) \/ Executor!Drop(c) \/ Executor!Finish(c)
<1>0. TypeOK
  BY DEF IInv
<1>1. TypeOK'
  BY <1>0, TypeStep DEF Next, WorkerStep
<1>2. PICK c \in Chats :
           /\ lineOfChat[c] = Waiting(w) /\ runningInChat[c] = Running(w)
           /\ lineOfChat' = [lineOfChat EXCEPT ![c] = Waiting(w)']
           /\ runningInChat' = [runningInChat EXCEPT ![c] = Running(w)']
           /\ UNCHANGED sent
  BY WorkerLine
<1>3. CASE TakeJob(w)
  <2>1. /\ current[w] = None /\ queue[w] # << >> /\ queue[w] \in Seq(Jobs)
        /\ queue'[w] = Tail(queue[w]) /\ current'[w] = Head(queue[w]) /\ phase'[w] = "check"
    BY <1>0, <1>3 DEF TakeJob, TypeOK
  <2>2. Head(queue[w]) \in Jobs /\ << Head(queue[w]) >> \o Tail(queue[w]) = queue[w]
    BY <2>1
  <2>3. Waiting(w) = queue[w] /\ Running(w) = None
    BY <1>0, <2>1, WaitingIs DEF Running, Executes
  <2>4. Waiting(w)' = queue[w] /\ Running(w)' = None
    BY <2>1, <2>2, NoneAssumption DEF Waiting, Running, Executes
  <2> QED
    BY <1>2, <2>3, <2>4, SameLine
<1>4. CASE CheckContext(w)
  <2>1. current[w] # None /\ phase[w] = "check" /\ queue'[w] = queue[w]
    BY <1>4 DEF CheckContext
  <2>2. /\ Waiting(w) # << >> /\ Tail(Waiting(w)) = queue[w] /\ Running(w) = None
    BY <1>0, <2>1, WaitingIs DEF Running, Executes
  <2>3. CASE current[w] \in cancelled
    <3>1. current'[w] = None
      BY <1>0, <1>4, <2>3 DEF CheckContext, TypeOK
    <3>2. Waiting(w)' = << >> \o queue[w] /\ Running(w)' = None
      BY <2>1, <3>1 DEF Waiting, Running, Executes
    <3>3. << >> \o queue[w] = queue[w]
      BY <1>0 DEF TypeOK
    <3> QED
      BY <1>2, <2>2, <3>2, <3>3, SameLine DEF Executor!Drop
  <2>4. CASE current[w] \notin cancelled
    <3>1. current'[w] = current[w] /\ phase'[w] = "start"
      BY <1>0, <1>4, <2>4 DEF CheckContext, TypeOK
    <3>2. Waiting(w)' = Waiting(w) /\ Running(w)' = Running(w)
      BY <2>1, <3>1 DEF Waiting, Running, Executes
    <3> QED
      BY <1>2, <3>2, SameLine
  <2> QED
    BY <2>3, <2>4
<1>5. CASE StartFn(w)
  <2>1. /\ current[w] # None /\ phase[w] = "start" /\ queue'[w] = queue[w]
        /\ current'[w] = current[w] /\ phase'[w] = "fn"
    BY <1>0, <1>5 DEF StartFn, TypeOK
  <2>2. /\ Waiting(w) # << >> /\ Head(Waiting(w)) = current[w] /\ Tail(Waiting(w)) = queue[w]
        /\ Running(w) = None
    BY <1>0, <2>1, WaitingIs DEF Running, Executes
  <2>3. Waiting(w)' = << >> \o queue[w] /\ Running(w)' = current[w]
    BY <2>1 DEF Waiting, Running, Executes
  <2>4. << >> \o queue[w] = queue[w]
    BY <1>0 DEF TypeOK
  <2> QED
    BY <1>2, <2>2, <2>3, <2>4 DEF Executor!Start
<1>6. CASE FinishJob(w)
  <2>1. current[w] # None /\ phase[w] = "fn" /\ queue'[w] = queue[w] /\ current'[w] = None
    BY <1>0, <1>6 DEF FinishJob, TypeOK
  <2>2. Waiting(w) = queue[w] /\ Running(w) # None
    BY <1>0, <2>1, WaitingIs DEF Running, Executes
  <2>3. Waiting(w)' = << >> \o queue[w] /\ Running(w)' = None
    BY <2>1 DEF Waiting, Running, Executes
  <2>4. << >> \o queue[w] = queue[w]
    BY <1>0 DEF TypeOK
  <2>5. lineOfChat' = lineOfChat
    BY <1>2, <2>2, <2>3, <2>4, SameLine
  <2>6. runningInChat[c] # None /\ runningInChat' = [runningInChat EXCEPT ![c] = None]
    BY <1>2, <2>2, <2>3
  <2> QED
    BY <1>2, <2>5, <2>6 DEF Executor!Finish
<1> QED
  BY <1>3, <1>4, <1>5, <1>6

\* The registry implements the executor's contract (ports.go:90), which is all
\* that the handlers of ChatMemory use of it.
THEOREM ExecutorRefined == Spec => ImplementsExecutor
<1>1. IInv /\ Mapped /\ [Next]_vars => [Executor!Next]_(Executor!vars)
  <2> SUFFICES ASSUME IInv, Mapped, [Next]_vars PROVE [Executor!Next]_(Executor!vars)
    OBVIOUS
  <2>1. ASSUME NEW j \in Jobs, Send(j) PROVE Executor!Next
    BY <2>1, SubmitStep DEF Executor!Next
  <2>2. ASSUME NEW j \in Jobs, GetOrCreate(j) PROVE UNCHANGED Executor!vars
    BY <2>2, CreateStep DEF Executor!vars
  <2>3. ASSUME NEW w \in Jobs, TakeJob(w) \/ CheckContext(w) \/ StartFn(w) \/ FinishJob(w)
        PROVE  [Executor!Next]_(Executor!vars)
    BY <2>3, RunJobStep DEF Executor!Next, Executor!vars
  <2>4. ASSUME UNCHANGED <<worker, queue, current, phase, sent>> PROVE UNCHANGED Executor!vars
    BY <2>4 DEF Executor!vars, lineOfChat, runningInChat, Waiting, Running, Executes
  <2>5. ASSUME NEW j \in Jobs,
               \/ CheckStopped(j) \/ CtxDone(j) \/ GetResult(j) \/ Cancel(j)
               \/ SeeDone(j) \/ Exit(j)
        PROVE  UNCHANGED <<worker, queue, current, phase, sent>>
    BY <2>5 DEF CheckStopped, CtxDone, GetResult, Cancel, SeeDone, Exit
  <2>6. CASE ShutdownStep \/ UNCHANGED vars
    BY <2>4, <2>6 DEF ShutdownStep, SetStopped, CloseWorkers, AllExited, ShutdownTimeout, vars
  <2> QED
    BY <2>1, <2>2, <2>3, <2>4, <2>5, <2>6 DEF Next, CallStep, WorkerStep
<1>2. Spec => []Mapped
  <2>1. Spec => []TypeOK
    BY TypeCorrect
  <2> QED
    BY <2>1, MappedInit, MappedStep, PTL DEF Spec
<1> QED
  BY <1>1, <1>2, InductiveInvariant, ExecutorInit, PTL DEF Spec, ImplementsExecutor, Executor!Spec

-----------------------------------------------------------------------------
(* What Shutdown waits for.                                                *)

LEMMA DrainedInit == Init => Drained
BY DEF Init, Drained, Alive, Pending, Open, ShutdownDrains

LEMMA AliveStep == TypeOK /\ Alive /\ [Next]_vars => Alive'
<1> SUFFICES ASSUME TypeOK, Alive, [Next]_vars PROVE Alive'
  OBVIOUS
<1> USE ChatOfAssumption, NoneAssumption DEF TypeOK, Alive, Open
<1>1. ASSUME NEW j \in Jobs, GetOrCreate(j) PROVE Alive'
  <2>1. /\ WorkerFor(j) \in Jobs
        /\ WorkerFor(j) # j => WorkerFor(j) = worker[ChatOf[j]]
    BY DEF WorkerFor
  <2>2. /\ worker' = [worker EXCEPT ![ChatOf[j]] = WorkerFor(j)]
        /\ wstate' = [wstate EXCEPT ![j] = IF WorkerFor(j) = j THEN "select" ELSE @]
        /\ UNCHANGED <<sd, closed>>
    BY <1>1 DEF GetOrCreate
  <2> QED
    BY <2>1, <2>2
<1>2. ASSUME NEW j \in Jobs, CheckStopped(j) \/ Send(j) \/ CtxDone(j) \/ GetResult(j) \/ Cancel(j)
      PROVE  Alive'
  BY <1>2 DEF CheckStopped, Send, CtxDone, GetResult, Cancel
<1>3. ASSUME NEW w \in Jobs, WorkerStep(w) PROVE Alive'
  BY <1>3 DEF WorkerStep, TakeJob, CheckContext, StartFn, FinishJob, SeeDone, Exit
<1>4. CASE ShutdownStep \/ UNCHANGED vars
  BY <1>4 DEF ShutdownStep, SetStopped, CloseWorkers, AllExited, ShutdownTimeout, vars
<1> QED
  BY <1>1, <1>2, <1>3, <1>4 DEF Next, CallStep

\* A step that keeps the channels, the jobs in execution and the results, and
\* ends no worker, keeps Pending, unless it sends a job.
LEMMA PendingKept ==
  ASSUME TypeOK, Pending, UNCHANGED <<queue, current, result, sent>>,
         \A w \in Jobs : wstate[w] \in {"select", "drain"} => wstate'[w] \in {"select", "drain"},
         \/ UNCHANGED <<accepted, sd>>
         \/ Open /\ ~Open' /\ accepted' = sent
         \/ accepted' = accepted /\ (Open' => Open)
  PROVE  Pending'
BY DEF Pending, Holds, Positions, Open

LEMMA PendingSend ==
  ASSUME IInv, Alive, Pending, NEW j \in Jobs, Send(j)
  PROVE  Pending'
<1>0. TypeOK /\ Routed
  BY DEF IInv
<1>1. /\ UNCHANGED <<current, result, wstate, sd, accepted>>
      /\ sent' = sent \cup {j} /\ pc[j] = "send"
  BY DEF Send
<1>2. at[j] \in Jobs /\ at[j] = worker[ChatOf[j]] /\ ChatOf[j] \in Chats
  BY <1>0, <1>1, ChatOfAssumption DEF Routed, TypeOK
<1>3. ASSUME NEW w \in Jobs, NEW i \in Jobs, Holds(w, i) PROVE Holds(w, i)'
  <2>1. CASE current[w] = i
    BY <1>1, <2>1 DEF Holds
  <2>2. CASE \E n \in Positions(w) : queue[w][n] = i
    <3>1. PICK n \in Positions(w) : queue[w][n] = i
      BY <2>2
    <3>2. Len(queue[w]) \in Nat /\ Len(queue'[w]) \in Nat
      BY <1>0, TypeStep DEF TypeOK, Next, CallStep
    <3>3. n \in 1 .. Len(queue'[w]) /\ queue'[w][n] = i
      <4>1. CASE w = at[j]
        BY <3>1, <3>2, <4>1, SentJob DEF Positions
      <4>2. CASE w # at[j]
        BY <3>1, <4>2, SentJob DEF Positions
      <4> QED
        BY <4>1, <4>2
    <3> QED
      BY <3>3 DEF Holds, Positions
  <2> QED
    BY <1>3, <2>1, <2>2 DEF Holds
<1>4. PICK a \in Jobs : a = at[j]
  BY <1>2
<1>5. Holds(a, j)' /\ (Open => wstate[a] = "select")
  <2>1. Len(queue[a]) \in Nat
    BY <1>0 DEF TypeOK
  <2>2. Len(queue[a]) + 1 \in Positions(a)' /\ queue'[a][Len(queue[a]) + 1] = j
    BY <1>4, <2>1, SentJob DEF Positions
  <2> QED
    BY <1>2, <1>4, <2>2, NoneAssumption DEF Holds, Alive
<1> SUFFICES ASSUME NEW i \in Jobs, i \in accepted \/ (Open /\ i \in sent'), result[i] = "none"
             PROVE  \E w \in Jobs : wstate[w] \in {"select", "drain"} /\ Holds(w, i)'
  BY <1>1 DEF Pending, Open
<1>6. CASE i \in accepted \/ (Open /\ i \in sent)
  <2>1. PICK w \in Jobs : wstate[w] \in {"select", "drain"} /\ Holds(w, i)
    BY <1>6 DEF Pending
  <2> QED
    BY <1>3, <2>1
<1>7. CASE i = j /\ Open
  BY <1>5, <1>7
<1> QED
  BY <1>1, <1>6, <1>7

LEMMA PendingTake ==
  ASSUME IInv, Pending, NEW w \in Jobs, TakeJob(w)
  PROVE  Pending'
<1>0. TypeOK
  BY DEF IInv
<1>1. PICK h \in Jobs : h = Head(queue[w]) /\ h = queue[w][1] /\ Len(queue[w]) \in Nat
  BY <1>0, TakenJob DEF TypeOK
<1>2. /\ UNCHANGED <<wstate, result, sent, sd, accepted>>
      /\ current[w] = None /\ current' = [current EXCEPT ![w] = h]
  BY <1>1 DEF TakeJob
<1>3. ASSUME NEW v \in Jobs, NEW i \in Jobs, Holds(v, i) PROVE Holds(v, i)'
  <2>1. CASE current[v] = i
    <3>1. current'[v] = i
      BY <1>0, <1>2, <2>1, NoneAssumption DEF TypeOK
    <3> QED
      BY <3>1 DEF Holds
  <2>2. CASE \E n \in Positions(v) : queue[v][n] = i
    <3>1. PICK n \in Positions(v) : queue[v][n] = i
      BY <2>2
    <3>2. CASE v = w /\ n # 1
      <4>1. n - 1 \in 1 .. Len(Tail(queue[w])) /\ Tail(queue[w])[n - 1] = queue[w][n]
        BY <1>0, <3>1, <3>2 DEF TypeOK, Positions
      <4>2. queue'[w] = Tail(queue[w])
        BY <1>0 DEF TypeOK, TakeJob
      <4> QED
        BY <3>1, <3>2, <4>1, <4>2 DEF Holds, Positions
    <3>3. CASE v = w /\ n = 1
      <4>1. current'[w] = h /\ i = h
        BY <1>0, <1>1, <1>2, <3>1, <3>3 DEF TypeOK
      <4> QED
        BY <3>3, <4>1 DEF Holds
    <3>4. CASE v # w
      BY <3>1, <3>4, TakenJob DEF Holds, Positions
    <3> QED
      BY <3>2, <3>3, <3>4
  <2> QED
    BY <1>3, <2>1, <2>2 DEF Holds
<1> SUFFICES ASSUME NEW i \in Jobs, i \in accepted \/ (Open /\ i \in sent), result[i] = "none"
             PROVE  \E v \in Jobs : wstate[v] \in {"select", "drain"} /\ Holds(v, i)'
  BY <1>2 DEF Pending, Open
<1>4. PICK v \in Jobs : wstate[v] \in {"select", "drain"} /\ Holds(v, i)
  BY DEF Pending
<1> QED
  BY <1>3, <1>4

\* A worker lets go of a job only with a result for it.
LEMMA PendingLetGo ==
  ASSUME IInv, Pending, NEW w \in Jobs, NEW r, r # "none", current[w] # None,
         current' = [current EXCEPT ![w] = None],
         result' = [result EXCEPT ![current[w]] = r],
         UNCHANGED <<queue, wstate, sent, sd, accepted>>
  PROVE  Pending'
<1>0. TypeOK
  BY DEF IInv
<1>1. PICK h \in Jobs : h = current[w]
  BY <1>0 DEF TypeOK
<1>2. ASSUME NEW v \in Jobs, NEW i \in Jobs \ {h}, Holds(v, i) PROVE Holds(v, i)'
  BY <1>0, <1>1, <1>2 DEF Holds, Positions, TypeOK
<1>3. /\ result'[h] # "none"
      /\ \A i \in Jobs \ {h} : result'[i] = result[i]
  BY <1>0, <1>1 DEF TypeOK
<1> SUFFICES ASSUME NEW i \in Jobs, i \in accepted \/ (Open /\ i \in sent), result'[i] = "none"
             PROVE  \E v \in Jobs : wstate[v] \in {"select", "drain"} /\ Holds(v, i)'
  BY <1>1 DEF Pending, Open
<1>4. i # h /\ result[i] = "none"
  BY <1>3
<1>5. PICK v \in Jobs : wstate[v] \in {"select", "drain"} /\ Holds(v, i)
  BY <1>4 DEF Pending
<1> QED
  BY <1>2, <1>4, <1>5

\* A worker leaves with empty hands.
LEMMA PendingExit ==
  ASSUME TypeOK, Pending, NEW w \in Jobs, Exit(w)
  PROVE  Pending'
<1>1. /\ wstate' = [wstate EXCEPT ![w] = "exited"]
      /\ UNCHANGED <<queue, current, result, sent, sd, accepted>>
      /\ current[w] = None /\ queue[w] = << >>
  BY DEF Exit
<1>2. \A j \in Jobs : ~Holds(w, j)
  BY <1>1, NoneAssumption DEF Holds, Positions
<1>3. \A v \in Jobs \ {w} : wstate'[v] = wstate[v]
  BY <1>1 DEF TypeOK
<1>4. \A v, j \in Jobs : Holds(v, j) => Holds(v, j)'
  BY <1>1 DEF Holds, Positions
<1> QED
  BY <1>1, <1>2, <1>3, <1>4 DEF Pending, Open

LEMMA DrainedStep == IInv /\ Drained /\ [Next]_vars => Drained'
<1> SUFFICES ASSUME IInv, Drained, [Next]_vars PROVE Drained'
  OBVIOUS
<1>0. TypeOK /\ Alive /\ Pending /\ ShutdownDrains
  BY DEF IInv, Drained
<1>1. Alive'
  BY <1>0, AliveStep
<1>2. Pending'
  <2>1. ASSUME NEW j \in Jobs, CallStep(j) \/ Cancel(j) PROVE Pending'
    <3>1. CASE Send(j)
      BY <1>0, <3>1, PendingSend
    <3>2. CASE GetOrCreate(j)
      BY <1>0, <3>2, PendingKept DEF GetOrCreate, TypeOK
    <3>3. CASE CheckStopped(j) \/ CtxDone(j) \/ GetResult(j) \/ Cancel(j)
      BY <1>0, <3>3, PendingKept DEF CheckStopped, CtxDone, GetResult, Cancel
    <3> QED
      BY <2>1, <3>1, <3>2, <3>3 DEF CallStep
  <2>2. ASSUME NEW w \in Jobs, SeeDone(w) \/ StartFn(w) PROVE Pending'
    BY <1>0, <2>2, PendingKept DEF SeeDone, StartFn, TypeOK
  <2>3. ASSUME NEW w \in Jobs,
               TakeJob(w) \/ CheckContext(w) \/ FinishJob(w) \/ Exit(w)
        PROVE  Pending'
    <3>1. CASE TakeJob(w) \/ Exit(w)
      BY <1>0, <3>1, PendingTake, PendingExit
    <3>2. CASE FinishJob(w)
      BY <1>0, <3>2, PendingLetGo DEF FinishJob
    <3>3. CASE CheckContext(w) /\ current[w] \in cancelled
      BY <1>0, <3>3, PendingLetGo DEF CheckContext
    <3>4. CASE CheckContext(w) /\ current[w] \notin cancelled
      BY <1>0, <3>4, PendingKept DEF CheckContext
    <3> QED
      BY <2>3, <3>1, <3>2, <3>3, <3>4
  <2>4. CASE SetStopped \/ AllExited \/ ShutdownTimeout \/ CloseWorkers
    BY <1>0, <2>4, PendingKept DEF SetStopped, AllExited, ShutdownTimeout, CloseWorkers, Open
  <2>5. CASE UNCHANGED vars
    BY <1>0, <2>5, PendingKept DEF vars
  <2> QED
    BY <2>1, <2>2, <2>3, <2>4, <2>5 DEF Next, WorkerStep, ShutdownStep
<1>3. ShutdownDrains'
  <2>1. \A j \in Jobs : result[j] # "none" => result'[j] # "none"
    <3>1. \A j \in Jobs : \/ result'[j] = result[j]
                          \/ result'[j] \in {"done", "cancelled"}
      BY <1>0 DEF TypeOK, Next, CallStep, CheckStopped, GetOrCreate, Send, CtxDone, GetResult, Cancel,
                  WorkerStep, TakeJob, CheckContext, StartFn, FinishJob, SeeDone, Exit, ShutdownStep, SetStopped,
                  CloseWorkers, AllExited, ShutdownTimeout, vars
    <3> QED
      BY <3>1
  <2>2. CASE AllExited
    <3>1. \A j \in accepted : result[j] # "none"
      BY <1>0, <2>2 DEF Pending, AllExited, TypeOK
    <3> QED
      BY <2>2, <3>1 DEF AllExited, ShutdownDrains
  <2>3. CASE ~AllExited
    <3>1. sd' = "ok" => sd = "ok" /\ accepted' = accepted
      BY <2>3 DEF Next, CallStep, CheckStopped, GetOrCreate, Send, CtxDone, GetResult, Cancel,
                  WorkerStep, TakeJob, CheckContext, StartFn, FinishJob, SeeDone, Exit, ShutdownStep, SetStopped,
                  CloseWorkers, ShutdownTimeout, vars
    <3> QED
      BY <1>0, <2>1, <3>1 DEF ShutdownDrains, TypeOK
  <2> QED
    BY <2>2, <2>3
<1> QED
  BY <1>1, <1>2, <1>3 DEF Drained

\* When Shutdown returns without error, every job that was in a channel or
\* executing when it closed the workers has its result (chat_workers.go:123).
THEOREM ShutdownAnswers == Spec => []ShutdownDrains
<1>1. Drained => ShutdownDrains
  BY DEF Drained
<1> QED
  BY <1>1, InductiveInvariant, DrainedInit, DrainedStep, PTL DEF Spec
=============================================================================

---------------------------- MODULE SerialExecutor ----------------------------
(***************************************************************************)
(* The contract of domain.ChatExecutor: "for a given chatID only one fn    *)
(* runs at a time; different chatIDs run in parallel".  Each chat has a    *)
(* line of jobs; the first of the line runs when nothing of the chat does, *)
(* or is dropped because its caller gave up; no job runs twice.  There are *)
(* no workers, channels or shutdown here: ChatWorkers implements this.     *)
(***************************************************************************)
EXTENDS Sequences

CONSTANTS Jobs, Chats, ChatOf, None

VARIABLES
  line,       \* chat -> jobs submitted and not yet run or dropped, in order
  running,    \* chat -> the job that runs, or None
  submitted   \* every job ever submitted

vars == <<line, running, submitted>>

Init ==
  /\ line = [c \in Chats |-> << >>]
  /\ running = [c \in Chats |-> None]
  /\ submitted = {}

Submit(j) ==
  /\ j \notin submitted
  /\ submitted' = submitted \cup {j}
  /\ line' = [line EXCEPT ![ChatOf[j]] = Append(@, j)]
  /\ UNCHANGED running

Start(c) ==
  /\ running[c] = None /\ line[c] # << >>
  /\ running' = [running EXCEPT ![c] = Head(line[c])]
  /\ line' = [line EXCEPT ![c] = Tail(@)]
  /\ UNCHANGED submitted

Drop(c) ==
  /\ running[c] = None /\ line[c] # << >>
  /\ line' = [line EXCEPT ![c] = Tail(@)]
  /\ UNCHANGED <<running, submitted>>

Finish(c) ==
  /\ running[c] # None
  /\ running' = [running EXCEPT ![c] = None]
  /\ UNCHANGED <<line, submitted>>

Next == (\E j \in Jobs : Submit(j)) \/ \E c \in Chats : Start(c) \/ Drop(c) \/ Finish(c)

Spec == Init /\ [][Next]_vars
=============================================================================

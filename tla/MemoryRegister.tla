--------------------------- MODULE MemoryRegister ---------------------------
(***************************************************************************)
(* What domain.MemoryRepository promises of the memory of one chat: a      *)
(* reader learns all of it, and a writer replaces all of it only when what *)
(* the writer knows is still what it holds (compare and swap).  A writer   *)
(* that never read knows the empty memory.  No files, tokens, steps or     *)
(* failures here: ChatMemory implements this.                              *)
(***************************************************************************)
CONSTANTS
  Users,      \* the messages whose handlers use the memory
  Contents,   \* what the memory may hold
  Empty       \* what it holds when there is no file

VARIABLES
  memory,     \* the content
  known       \* what each user last read

vars == <<memory, known>>

Init == memory = Empty /\ known = [u \in Users |-> Empty]

Read(u) ==
  /\ known' = [known EXCEPT ![u] = memory]
  /\ UNCHANGED memory

Replace(u) ==
  /\ known[u] = memory
  /\ memory' \in Contents
  /\ UNCHANGED known

Next == \E u \in Users : Read(u) \/ Replace(u)

Spec == Init /\ [][Next]_vars
=============================================================================

------------------------------ MODULE FilterBook ------------------------------
(***************************************************************************)
(* What the filter commands promise the members of a chat: a book that     *)
(* gives each trigger of a chat at most one reply.  /filter defines new    *)
(* triggers all at once or none of them, /stop forgets one trigger and     *)
(* leaves every other alone, /stopall forgets those of its chat.  There    *)
(* are no filter rows, transactions or connections here: FilterStore is    *)
(* shown to implement this module.                                         *)
(***************************************************************************)
EXTENDS Naturals

CONSTANTS Chats, Texts, Replies

VARIABLE book    \* <<chat, text>> -> reply

Init == book = << >>

Define(c, T, r) ==
  /\ \A t \in T : <<c, t>> \notin DOMAIN book
  /\ book' = [p \in DOMAIN book \cup ({c} \X T) |->
                IF p \in DOMAIN book THEN book[p] ELSE r]

Forget(c, t) ==
  /\ <<c, t>> \in DOMAIN book
  /\ book' = [p \in DOMAIN book \ {<<c, t>>} |-> book[p]]

Clear(c) == book' = [p \in {q \in DOMAIN book : q[1] # c} |-> book[p]]

Next ==
  \E c \in Chats :
    \/ \E T \in (SUBSET Texts) \ {{}}, r \in Replies : Define(c, T, r)
    \/ \E t \in Texts : Forget(c, t)
    \/ Clear(c)

Spec == Init /\ [][Next]_book
=============================================================================

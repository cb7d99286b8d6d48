----------------------------- MODULE WorkLedger -----------------------------
(***************************************************************************)
(* What the group queue promises its callers, without flags, counters or   *)
(* waiting lists: work that was accepted for a group stays owed until it   *)
(* is begun, except that scheduled tasks may be dropped; at most one item  *)
(* of a group runs at a time, at most Slots items run in total, and        *)
(* nothing begins once the ledger is closed.                               *)
(***************************************************************************)
EXTENDS Naturals, FiniteSets

CONSTANTS Groups, Work, Droppable, Slots

VARIABLES
  owed,     \* set of <<group, work item>> accepted and not begun
  running,  \* set of <<group, work item>> begun and not ended
  closed    \* no item begins any more

lvars == <<owed, running, closed>>

Items == Groups \X Work

LInit == owed = {} /\ running = {} /\ closed = FALSE

\* Work is accepted; accepting what is already owed changes nothing.
Accept(x) ==
  /\ ~closed
  /\ owed' = owed \cup {x}
  /\ UNCHANGED <<running, closed>>

\* Some items end and at most one item begins, in one step.
EndAndBegin(ended, begun) ==
  /\ ended \subseteq running
  /\ begun \cap (running \ ended) = {}
  /\ Cardinality(begun) <= 1
  /\ begun # {} => ~closed
  /\ running' = (running \ ended) \cup begun
  /\ \A x, y \in running' : x[1] = y[1] => x = y
  /\ Cardinality(running') <= Slots
  /\ owed' = owed \ begun
  /\ UNCHANGED closed

\* The droppable work of a group is cancelled.
Drop(g) ==
  /\ owed' = {x \in owed : x[1] # g \/ x[2] \notin Droppable}
  /\ UNCHANGED <<running, closed>>

Close == closed' = TRUE /\ UNCHANGED <<owed, running>>

LNext ==
  \/ \E x \in Items : Accept(x)
  \/ \E ended \in SUBSET running : \E b \in {{}} \cup {{x} : x \in Items} : EndAndBegin(ended, b)
  \/ \E g \in Groups : Drop(g)
  \/ Close

LSpec == LInit /\ [][LNext]_lvars
=============================================================================

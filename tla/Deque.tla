------------------------------- MODULE Deque -------------------------------
(***************************************************************************)
(* What a list promises its users: a sequence of elements that grows and   *)
(* shrinks at both ends.  LinkedList implements it.                        *)
(***************************************************************************)
EXTENDS Sequences, Naturals

CONSTANTS
  Batches,    \* the sequences of elements added by one call
  None        \* what taking from an empty list returns

VARIABLES
  items,      \* the elements, in order
  out         \* what the last pop() or shift() returned

dequeVars == <<items, out>>

Init == items = <<>> /\ out = None

Push(es) == items' = items \o es /\ UNCHANGED out

\* The batch keeps its own order.
Unshift(es) == items' = es \o items /\ UNCHANGED out

Pop ==
  /\ items # <<>>
  /\ out' = items[Len(items)]
  /\ items' = SubSeq(items, 1, Len(items) - 1)

Shift ==
  /\ items # <<>>
  /\ out' = Head(items)
  /\ items' = Tail(items)

TakeFromEmpty ==
  /\ items = <<>>
  /\ out' = None
  /\ UNCHANGED items

Next ==
  \/ \E es \in Batches : Push(es) \/ Unshift(es)
  \/ Pop \/ Shift \/ TakeFromEmpty

Spec == Init /\ [][Next]_dequeVars
=============================================================================

----------------------------- MODULE LinkedList -----------------------------
(***************************************************************************)
(* The doubly linked list of src/containers/list.ts, in which the pool     *)
(* keeps its unused resources and PromiseQueue its waiting functions.      *)
(*                                                                         *)
(* push() and unshift() take any number of elements and link them one by   *)
(* one: the elements of a call that are not linked yet are in pushing or   *)
(* unshifting, and nothing else happens until there are none.  A node that *)
(* left the list keeps its fields until it is made anew.                   *)
(***************************************************************************)
EXTENDS Integers, Sequences, FiniteSets

CONSTANTS
  Nodes,      \* the nodes that may exist
  Elements,
  Batches,    \* the arguments of one push() or unshift()
  MaxSize,    \* bounds the list
  None

ASSUME ListAssumption ==
  /\ Batches \subseteq Seq(Elements)
  /\ MaxSize \in Nat
  /\ None \notin Nodes

VARIABLES
  head, tail, size,
  element, next, previous,  \* the fields of the nodes
  pushing, unshifting,      \* what the call in progress has yet to link
  out,        \* what the last pop() or shift() returned
  chain       \* auxiliary: the nodes of the list in order

listVars == <<head, tail, size, element, next, previous>>
vars == <<listVars, pushing, unshifting, out, chain>>

Init ==
  /\ head = None /\ tail = None /\ size = 0
  /\ element \in [Nodes -> Elements]
  /\ next = [n \in Nodes |-> None]
  /\ previous = [n \in Nodes |-> None]
  /\ pushing = <<>> /\ unshifting = <<>>
  /\ out = None
  /\ chain = <<>>

Linked(n) == \E i \in DOMAIN chain : chain[i] = n
Unlinked == {n \in Nodes : ~Linked(n)}
Idle == pushing = <<>> /\ unshifting = <<>>

\* A field of a node that may not be there.
With(field, n, m) == [k \in Nodes |-> IF k = n THEN m ELSE field[k]]

-----------------------------------------------------------------------------
(* push() and unshift()                                                    *)

Push(es) ==
  /\ Idle
  /\ size + Len(es) <= MaxSize
  /\ pushing' = es
  /\ UNCHANGED <<listVars, unshifting, out, chain>>

\* Mutant: the old tail does not get its successor.
NextOfPushedOnly(n) == With(next, n, None)

NextOfPushed(n) == With(With(next, tail, n), n, None)

PushOne ==
  /\ pushing # <<>>
  /\ pushing' = Tail(pushing)
  /\ size' = size + 1
  /\ \E n \in Unlinked :
       /\ element' = [element EXCEPT ![n] = Head(pushing)]
       /\ previous' = With(previous, n, tail)
       /\ next' = NextOfPushed(n)
       /\ head' = IF tail = None THEN n ELSE head
       /\ tail' = n
       /\ chain' = Append(chain, n)
  /\ UNCHANGED <<unshifting, out>>

Unshift(es) ==
  /\ Idle
  /\ size + Len(es) <= MaxSize
  /\ unshifting' = es
  /\ UNCHANGED <<listVars, pushing, out, chain>>

\* Mutant: the first of the batch is linked first.
FirstFirst(es) == <<Head(es), Tail(es)>>

\* The element to link next, and the rest: the last one comes first.
LastFirst(es) == <<es[Len(es)], SubSeq(es, 1, Len(es) - 1)>>

UnshiftOne ==
  /\ unshifting # <<>>
  /\ unshifting' = LastFirst(unshifting)[2]
  /\ size' = size + 1
  /\ \E n \in Unlinked :
       /\ element' = [element EXCEPT ![n] = LastFirst(unshifting)[1]]
       /\ next' = With(next, n, head)
       /\ previous' = With(With(previous, head, n), n, None)
       /\ tail' = IF head = None THEN n ELSE tail
       /\ head' = n
       /\ chain' = <<n>> \o chain
  /\ UNCHANGED <<pushing, out>>

-----------------------------------------------------------------------------
(* pop() and shift()                                                       *)

\* Mutant: the node is returned, not its element.
NodeOf(n) == n

ElementOf(n) == element[n]

Pop ==
  /\ Idle
  /\ tail # None
  /\ size' = size - 1
  /\ out' = ElementOf(tail)
  /\ tail' = previous[tail]
  /\ next' = With(next, tail', None)
  /\ head' = IF tail' = None THEN None ELSE head
  /\ chain' = SubSeq(chain, 1, Len(chain) - 1)
  /\ UNCHANGED <<element, previous, pushing, unshifting>>

\* Mutant: the new head still refers to the old one.
PreviousKept(n) == previous

PreviousCut(n) == With(previous, n, None)

Shift ==
  /\ Idle
  /\ head # None
  /\ size' = size - 1
  /\ out' = ElementOf(head)
  /\ head' = next[head]
  /\ previous' = PreviousCut(head')
  /\ tail' = IF head' = None THEN None ELSE tail
  /\ chain' = Tail(chain)
  /\ UNCHANGED <<element, next, pushing, unshifting>>

PopEmpty ==
  /\ Idle
  /\ tail = None
  /\ out' = None
  /\ UNCHANGED <<listVars, pushing, unshifting, chain>>

ShiftEmpty ==
  /\ Idle
  /\ head = None
  /\ out' = None
  /\ UNCHANGED <<listVars, pushing, unshifting, chain>>

-----------------------------------------------------------------------------
Next ==
  \/ \E es \in Batches : Push(es) \/ Unshift(es)
  \/ PushOne \/ UnshiftOne
  \/ Pop \/ Shift \/ PopEmpty \/ ShiftEmpty

Spec == Init /\ [][Next]_vars

-----------------------------------------------------------------------------
(* Safety                                                                  *)

Last == Len(chain)

TypeOK ==
  /\ head \in Nodes \union {None} /\ tail \in Nodes \union {None}
  /\ size \in Nat
  /\ element \in [Nodes -> Elements]
  /\ next \in [Nodes -> Nodes \union {None}]
  /\ previous \in [Nodes -> Nodes \union {None}]
  /\ pushing \in Seq(Elements) /\ unshifting \in Seq(Elements)
  /\ out \in Elements \union {None}
  /\ chain \in Seq(Nodes)

\* No node is in the list twice, so that following next always ends.
NoCycle == \A i, j \in DOMAIN chain : chain[i] = chain[j] => i = j

\* head, tail and size are those of the same sequence of nodes, also when the
\* list becomes empty from either end.
EndsAgree ==
  /\ size = Last
  /\ head = IF chain = <<>> THEN None ELSE chain[1]
  /\ tail = IF chain = <<>> THEN None ELSE chain[Last]

\* The forward and the backward links are each other's mirror image, and no
\* node of the list refers to one that left it.
LinksAgree ==
  \A i \in DOMAIN chain :
    /\ next[chain[i]] = IF i = Last THEN None ELSE chain[i + 1]
    /\ previous[chain[i]] = IF i = 1 THEN None ELSE chain[i - 1]

WellLinked == NoCycle /\ EndsAgree /\ LinksAgree

Items == [i \in DOMAIN chain |-> element[chain[i]]]

\* What the iterator yields, following next from head until there is no node.
Iterated ==
  LET node[i \in 1..MaxSize + 1] ==
        IF i = 1 THEN head
        ELSE IF node[i - 1] = None THEN None ELSE next[node[i - 1]]
  IN  [i \in 1..Cardinality({j \in 1..MaxSize + 1 : node[j] # None})
         |-> element[node[i]]]

\* Iterating the list, as destroyAll() does with the unused resources, yields
\* its elements, each once.
IteratesItems == Iterated = Items

Contract == INSTANCE Deque WITH items <- unshifting \o Items \o pushing

\* The list is a sequence that changes at its ends only: a batch goes in as a
\* whole and in order, and what one end or the other takes is what is there.
ImplementsDeque == Contract!Spec
=============================================================================

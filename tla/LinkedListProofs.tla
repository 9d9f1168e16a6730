-------------------------- MODULE LinkedListProofs --------------------------
(***************************************************************************)
(* Proofs about LinkedList: the links of any list stay well formed, and    *)
(* the list is a deque.                                                    *)
(***************************************************************************)
EXTENDS LinkedList, SequenceTheorems, FiniteSetTheorems, WellFoundedInduction, TLAPS

\* A call links all of its elements before the next one begins.
OneCall == pushing = <<>> \/ unshifting = <<>>

Inv == TypeOK /\ OneCall /\ WellLinked

\* The places of a chain are numbered, and the list is empty exactly when it
\* has neither head nor tail.
LEMMA ChainFacts ==
  ASSUME Inv
  PROVE  /\ Last \in Nat
         /\ DOMAIN chain = 1..Last
         /\ \A i \in 1..Last : chain[i] \in Nodes
         /\ chain = <<>> <=> Last = 0
         /\ chain = <<>> <=> head = None
         /\ chain = <<>> <=> tail = None
<1>1. chain \in Seq(Nodes)
  BY DEF Inv, TypeOK
<1>2. /\ Last \in Nat
      /\ DOMAIN chain = 1..Last
      /\ \A i \in 1..Last : chain[i] \in Nodes
  BY <1>1, LenProperties, ElementOfSeq DEF Last
<1>3. chain = <<>> <=> Last = 0
  BY <1>1, EmptySeq DEF Last
<1> QED
  BY <1>2, <1>3, ListAssumption DEF Inv, WellLinked, EndsAgree

LEMMA InitInv == Init => Inv
<1> SUFFICES ASSUME Init PROVE Inv
  OBVIOUS
<1>1. /\ chain \in Seq(Nodes) /\ pushing \in Seq(Elements) /\ unshifting \in Seq(Elements)
      /\ Last = 0 /\ DOMAIN chain = {}
  BY EmptySeq DEF Init, Last
<1>2. TypeOK
  BY <1>1 DEF Init, TypeOK
<1>3. WellLinked
  BY <1>1 DEF Init, WellLinked, NoCycle, EndsAgree, LinksAgree
<1> QED BY <1>2, <1>3 DEF Inv, OneCall, Init

\* A node that joins the list at its end.
LEMMA PushOneInv == ASSUME Inv, PushOne PROVE Inv'
<1> USE ListAssumption
<1>1. PICK n \in Unlinked :
        /\ element' = [element EXCEPT ![n] = Head(pushing)]
        /\ previous' = With(previous, n, tail)
        /\ next' = NextOfPushed(n)
        /\ head' = IF tail = None THEN n ELSE head
        /\ tail' = n
        /\ chain' = Append(chain, n)
  BY DEF PushOne
<1>2. n \in Nodes /\ \A i \in 1..Last : chain[i] # n
  BY ChainFacts DEF Unlinked, Linked
<1>3. /\ chain' \in Seq(Nodes)
      /\ Last' = Last + 1
      /\ DOMAIN chain' = 1..Last + 1
      /\ \A i \in 1..Last : chain'[i] = chain[i]
      /\ chain'[Last + 1] = n
  BY <1>1, <1>2, AppendProperties, LenProperties DEF Inv, TypeOK, Last
<1>4. chain' # <<>>
  BY <1>3, ChainFacts, EmptySeq
<1>5. Head(pushing) \in Elements /\ Tail(pushing) \in Seq(Elements)
  BY HeadTailProperties DEF PushOne, Inv, TypeOK
<1>6. TypeOK'
  BY <1>1, <1>2, <1>3, <1>5 DEF Inv, TypeOK, PushOne, With, NextOfPushed
<1>7. NoCycle'
  BY <1>2, <1>3, ChainFacts DEF Inv, WellLinked, NoCycle
<1>8. EndsAgree'
  BY <1>1, <1>3, <1>4, ChainFacts DEF PushOne, Inv, WellLinked, EndsAgree
<1>9. LinksAgree'
  <2> SUFFICES ASSUME NEW i \in 1..Last + 1
               PROVE  /\ next'[chain'[i]] = IF i = Last + 1 THEN None ELSE chain'[i + 1]
                      /\ previous'[chain'[i]] = IF i = 1 THEN None ELSE chain'[i - 1]
    BY <1>3 DEF LinksAgree
  <2>1. CASE i = Last + 1
    BY <1>1, <1>2, <1>3, <2>1, ChainFacts
       DEF Inv, WellLinked, EndsAgree, With, NextOfPushed
  <2>2. CASE i = Last
    <3>1. i \in DOMAIN chain /\ chain[i] = tail /\ tail # None /\ tail \in Nodes /\ tail # n
      BY <1>2, <2>2, ChainFacts DEF Inv, WellLinked, EndsAgree
    <3>2. next'[tail] = n /\ previous'[tail] = previous[tail]
      BY <1>1, <1>2, <3>1 DEF With, NextOfPushed
    <3> QED
      BY <1>3, <2>2, <3>1, <3>2, ChainFacts DEF Inv, WellLinked, LinksAgree
  <2>3. CASE i < Last
    <3>1. i \in DOMAIN chain /\ i + 1 \in 1..Last /\ chain[i] # tail
      BY <2>3, ChainFacts DEF Inv, WellLinked, NoCycle, EndsAgree
    <3>2. chain[i] # n /\ chain[i] \in Nodes
      BY <1>2, <3>1, ChainFacts
    <3>3. next'[chain[i]] = next[chain[i]] /\ previous'[chain[i]] = previous[chain[i]]
      BY <1>1, <3>1, <3>2 DEF With, NextOfPushed
    <3>4. /\ next[chain[i]] = chain[i + 1]
          /\ previous[chain[i]] = IF i = 1 THEN None ELSE chain[i - 1]
      BY <2>3, <3>1, ChainFacts DEF Inv, WellLinked, LinksAgree
    <3>5. chain'[i + 1] = chain[i + 1] /\ chain'[i] = chain[i]
      BY <1>3, <3>1, ChainFacts
    <3>6. i # 1 => chain'[i - 1] = chain[i - 1]
      BY <1>3, <2>3, ChainFacts
    <3> QED
      BY <2>3, <3>3, <3>4, <3>5, <3>6, ChainFacts
  <2> QED BY <2>1, <2>2, <2>3, ChainFacts
<1>10. OneCall'
  BY EmptySeq DEF PushOne, Inv, OneCall
<1> QED BY <1>6, <1>7, <1>8, <1>9, <1>10 DEF Inv, WellLinked

\* A node that joins the list at its front.
LEMMA UnshiftOneInv == ASSUME Inv, UnshiftOne PROVE Inv'
<1> USE ListAssumption
<1>1. PICK n \in Unlinked :
        /\ element' = [element EXCEPT ![n] = LastFirst(unshifting)[1]]
        /\ next' = With(next, n, head)
        /\ previous' = With(With(previous, head, n), n, None)
        /\ tail' = IF head = None THEN n ELSE tail
        /\ head' = n
        /\ chain' = <<n>> \o chain
  BY DEF UnshiftOne
<1>2. n \in Nodes /\ \A i \in 1..Last : chain[i] # n
  BY ChainFacts DEF Unlinked, Linked
<1>3. /\ chain' \in Seq(Nodes)
      /\ Last' = Last + 1
      /\ DOMAIN chain' = 1..Last + 1
      /\ \A i \in 1..Last : chain'[i + 1] = chain[i]
      /\ chain'[1] = n
  <2>1. <<n>> \in Seq(Nodes) /\ Len(<<n>>) = 1 /\ <<n>>[1] = n
    BY <1>2
  <2>2. chain \in Seq(Nodes)
    BY DEF Inv, TypeOK
  <2>3. /\ chain' \in Seq(Nodes)
        /\ Len(chain') = 1 + Last
        /\ \A i \in 1..1 + Last : chain'[i] = IF i <= 1 THEN <<n>>[i] ELSE chain[i - 1]
    BY <1>1, <2>1, <2>2, ConcatProperties DEF Last
  <2> QED BY <2>1, <2>3, LenProperties, ChainFacts DEF Last
<1>4. chain' # <<>>
  BY <1>3, ChainFacts, EmptySeq
<1>5. LastFirst(unshifting)[1] \in Elements /\ LastFirst(unshifting)[2] \in Seq(Elements)
  <2>1. unshifting \in Seq(Elements) /\ Len(unshifting) \in Nat \ {0}
    BY EmptySeq DEF UnshiftOne, Inv, TypeOK
  <2>2. \A i \in 1..Len(unshifting) - 1 : unshifting[i] \in Elements
    BY <2>1, ElementOfSeq
  <2>3. SubSeq(unshifting, 1, Len(unshifting) - 1) \in Seq(Elements)
    BY <2>1, <2>2, SubSeqProperties
  <2> QED BY <2>1, <2>3, ElementOfSeq DEF LastFirst
<1>6. TypeOK'
  BY <1>1, <1>2, <1>3, <1>5 DEF Inv, TypeOK, UnshiftOne, With
<1>7. \A i \in 2..Last + 1 : chain'[i] = chain[i - 1] /\ i - 1 \in 1..Last
  BY <1>3, ChainFacts
<1>8. NoCycle'
  <2> SUFFICES ASSUME NEW i \in 1..Last + 1, NEW j \in 1..Last + 1, chain'[i] = chain'[j]
               PROVE  i = j
    BY <1>3 DEF NoCycle
  <2>1. CASE i = 1 \/ j = 1
    BY <1>2, <1>3, <1>7, <2>1, ChainFacts
  <2>2. CASE i # 1 /\ j # 1
    BY <1>7, <2>2, ChainFacts DEF Inv, WellLinked, NoCycle
  <2> QED BY <2>1, <2>2
<1>9. EndsAgree'
  BY <1>1, <1>3, <1>4, ChainFacts DEF UnshiftOne, Inv, WellLinked, EndsAgree
<1>10. LinksAgree'
  <2> SUFFICES ASSUME NEW i \in 1..Last + 1
               PROVE  /\ next'[chain'[i]] = IF i = Last + 1 THEN None ELSE chain'[i + 1]
                      /\ previous'[chain'[i]] = IF i = 1 THEN None ELSE chain'[i - 1]
    BY <1>3 DEF LinksAgree
  <2>1. CASE i = 1
    <3>1. next'[n] = head /\ previous'[n] = None
      BY <1>1, <1>2 DEF With
    <3>2. head = IF Last = 0 THEN None ELSE chain'[2]
      BY <1>7, ChainFacts DEF Inv, WellLinked, EndsAgree
    <3> QED BY <1>3, <2>1, <3>1, <3>2, ChainFacts
  <2>2. CASE i # 1
    <3>1. /\ chain'[i] = chain[i - 1] /\ i - 1 \in 1..Last
          /\ chain[i - 1] # n /\ chain[i - 1] \in Nodes
      BY <1>2, <1>7, <2>2, ChainFacts
    <3>2. /\ next[chain[i - 1]] = IF i - 1 = Last THEN None ELSE chain[i]
          /\ previous[chain[i - 1]] = IF i - 1 = 1 THEN None ELSE chain[i - 2]
      BY <3>1, ChainFacts DEF Inv, WellLinked, LinksAgree
    <3>3. next'[chain[i - 1]] = next[chain[i - 1]]
      BY <1>1, <3>1 DEF With
    <3>4. i # Last + 1 => chain'[i + 1] = chain[i]
      BY <1>3, <2>2, ChainFacts
    <3>5. previous'[chain[i - 1]] = IF i = 2 THEN n ELSE previous[chain[i - 1]]
      <4>1. chain[i - 1] = head <=> i = 2
        BY <3>1, ChainFacts DEF Inv, WellLinked, EndsAgree, NoCycle
      <4> QED BY <1>1, <3>1, <4>1 DEF With
    <3>6. i # 2 => chain'[i - 1] = chain[i - 2]
      BY <1>7, <2>2, ChainFacts
    <3> QED BY <1>3, <2>2, <3>1, <3>2, <3>3, <3>4, <3>5, <3>6, ChainFacts
  <2> QED BY <2>1, <2>2
<1>11. OneCall'
  BY EmptySeq DEF UnshiftOne, Inv, OneCall
<1> QED BY <1>6, <1>8, <1>9, <1>10, <1>11 DEF Inv, WellLinked

\* The tail leaves: its predecessor, if it has one, becomes the tail.
LEMMA PopInv == ASSUME Inv, Pop PROVE Inv'
<1> USE ListAssumption
<1>1. Last \in Nat \ {0} /\ tail = chain[Last] /\ tail \in Nodes
  BY ChainFacts DEF Pop, Inv, WellLinked, EndsAgree
<1>2. /\ chain' \in Seq(Nodes)
      /\ Last' = Last - 1
      /\ DOMAIN chain' = 1..Last - 1
      /\ \A i \in 1..Last - 1 : chain'[i] = chain[i]
  <2>1. \A i \in 1..Last - 1 : chain[i] \in Nodes
    BY <1>1, ChainFacts
  <2>2. /\ chain' \in Seq(Nodes)
        /\ Len(chain') = IF 1 <= Last - 1 THEN Last - 1 - 1 + 1 ELSE 0
        /\ \A i \in 1..Last - 1 - 1 + 1 : chain'[i] = chain[1 + i - 1]
    BY <1>1, <2>1, SubSeqProperties DEF Pop, Last
  <2>3. Last' = Last - 1
    <3>1. Last' = Len(chain')
      BY DEF Last
    <3>2. Len(chain') = Last - 1
      BY <1>1, <2>2
    <3> QED BY <3>1, <3>2
  <2>4. \A i \in 1..Last - 1 : i \in 1..Last - 1 - 1 + 1 /\ 1 + i - 1 = i
    BY <1>1
  <2>5. DOMAIN chain' = 1..Last'
    BY <2>2, LenProperties DEF Last
  <2> QED BY <2>2, <2>3, <2>4, <2>5
<1>3. chain' = <<>> <=> Last = 1
  BY <1>1, <1>2, EmptySeq DEF Last
<1>4. tail' = IF Last = 1 THEN None ELSE chain[Last - 1]
  BY <1>1, ChainFacts DEF Pop, Inv, WellLinked, LinksAgree
<1>5. tail' = None <=> Last = 1
  BY <1>1, <1>4, ChainFacts
<1>6. TypeOK'
  <2>1. tail' \in Nodes \union {None}
    BY <1>1, <1>4, ChainFacts
  <2>2. size' \in Nat
    BY <1>1 DEF Pop, Inv, WellLinked, EndsAgree
  <2> QED BY <1>1, <1>2, <2>1, <2>2 DEF Inv, TypeOK, Pop, With, ElementOf
<1>7. NoCycle'
  BY <1>1, <1>2, ChainFacts DEF Inv, WellLinked, NoCycle
<1>8. EndsAgree'
  <2>1. size' = Last'
    BY <1>1, <1>2 DEF Pop, Inv, WellLinked, EndsAgree
  <2>2. head' = IF chain' = <<>> THEN None ELSE chain'[1]
    BY <1>1, <1>2, <1>3, <1>5, ChainFacts DEF Pop, Inv, WellLinked, EndsAgree
  <2>3. tail' = IF chain' = <<>> THEN None ELSE chain'[Last']
    BY <1>1, <1>2, <1>3, <1>4
  <2> QED BY <2>1, <2>2, <2>3 DEF EndsAgree
<1>9. LinksAgree'
  <2> SUFFICES ASSUME NEW i \in 1..Last - 1
               PROVE  /\ next'[chain'[i]] = IF i = Last - 1 THEN None ELSE chain'[i + 1]
                      /\ previous'[chain'[i]] = IF i = 1 THEN None ELSE chain'[i - 1]
    BY <1>2 DEF LinksAgree
  <2>1. /\ i \in 1..Last /\ chain[i] \in Nodes /\ chain'[i] = chain[i]
        /\ next[chain[i]] = chain[i + 1]
        /\ previous[chain[i]] = IF i = 1 THEN None ELSE chain[i - 1]
    BY <1>1, <1>2, ChainFacts DEF Inv, WellLinked, LinksAgree
  <2>2. previous'[chain[i]] = IF i = 1 THEN None ELSE chain'[i - 1]
    BY <1>1, <1>2, <2>1 DEF Pop
  <2>3. chain[i] = tail' <=> i = Last - 1
    BY <1>1, <1>4, <2>1, ChainFacts DEF Inv, WellLinked, NoCycle
  <2>4. next'[chain[i]] = IF i = Last - 1 THEN None ELSE next[chain[i]]
    BY <2>1, <2>3 DEF Pop, With
  <2>5. i # Last - 1 => chain'[i + 1] = chain[i + 1]
    BY <1>1, <1>2
  <2> QED BY <2>1, <2>2, <2>4, <2>5
<1>10. OneCall'
  BY DEF Pop, Inv, OneCall
<1> QED BY <1>6, <1>7, <1>8, <1>9, <1>10 DEF Inv, WellLinked

\* The head leaves: its successor, if it has one, becomes the head.
LEMMA ShiftInv == ASSUME Inv, Shift PROVE Inv'
<1> USE ListAssumption
<1>1. Last \in Nat \ {0} /\ head = chain[1] /\ head \in Nodes
  BY ChainFacts DEF Shift, Inv, WellLinked, EndsAgree
<1>2. /\ chain' \in Seq(Nodes)
      /\ Last' = Last - 1
      /\ DOMAIN chain' = 1..Last - 1
      /\ \A i \in 1..Last - 1 : chain'[i] = chain[i + 1]
  BY <1>1, ChainFacts, HeadTailProperties, LenProperties DEF Shift, Inv, TypeOK, Last
<1>3. chain' = <<>> <=> Last = 1
  BY <1>1, <1>2, EmptySeq DEF Last
<1>4. head' = IF Last = 1 THEN None ELSE chain[2]
  BY <1>1, ChainFacts DEF Shift, Inv, WellLinked, LinksAgree
<1>5. head' = None <=> Last = 1
  BY <1>1, <1>4, ChainFacts
<1>6. TypeOK'
  <2>1. head' \in Nodes \union {None}
    BY <1>1, <1>4, ChainFacts
  <2>2. size' \in Nat
    BY <1>1 DEF Shift, Inv, WellLinked, EndsAgree
  <2> QED BY <1>1, <1>2, <2>1, <2>2 DEF Inv, TypeOK, Shift, With, PreviousCut, ElementOf
<1>7. NoCycle'
  <2> SUFFICES ASSUME NEW i \in 1..Last - 1, NEW j \in 1..Last - 1, chain'[i] = chain'[j]
               PROVE  i = j
    BY <1>2 DEF NoCycle
  <2>1. /\ i + 1 \in DOMAIN chain /\ j + 1 \in DOMAIN chain
        /\ chain[i + 1] = chain[j + 1]
    BY <1>1, <1>2, ChainFacts
  <2>2. i + 1 = j + 1
    BY <2>1 DEF Inv, WellLinked, NoCycle
  <2> QED BY <2>2
<1>8. EndsAgree'
  <2>1. size' = Last'
    BY <1>1, <1>2 DEF Shift, Inv, WellLinked, EndsAgree
  <2>2. head' = IF chain' = <<>> THEN None ELSE chain'[1]
    BY <1>1, <1>2, <1>3, <1>4
  <2>3. tail' = IF chain' = <<>> THEN None ELSE chain'[Last']
    BY <1>1, <1>2, <1>3, <1>5, ChainFacts DEF Shift, Inv, WellLinked, EndsAgree
  <2> QED BY <2>1, <2>2, <2>3 DEF EndsAgree
<1>9. LinksAgree'
  <2> SUFFICES ASSUME NEW i \in 1..Last - 1
               PROVE  /\ next'[chain'[i]] = IF i = Last - 1 THEN None ELSE chain'[i + 1]
                      /\ previous'[chain'[i]] = IF i = 1 THEN None ELSE chain'[i - 1]
    BY <1>2 DEF LinksAgree
  <2>1. /\ i + 1 \in 1..Last /\ chain[i + 1] \in Nodes /\ chain'[i] = chain[i + 1]
        /\ next[chain[i + 1]] = IF i + 1 = Last THEN None ELSE chain[i + 2]
        /\ previous[chain[i + 1]] = chain[i]
    <3>1. i + 1 \in 1..Last /\ i + 1 # 1 /\ (i + 1) + 1 = i + 2 /\ (i + 1) - 1 = i
      BY <1>1
    <3>2. i + 1 \in DOMAIN chain /\ chain[i + 1] \in Nodes
      BY <3>1, ChainFacts
    <3>3. /\ next[chain[i + 1]] = IF i + 1 = Last THEN None ELSE chain[(i + 1) + 1]
          /\ previous[chain[i + 1]] = IF i + 1 = 1 THEN None ELSE chain[(i + 1) - 1]
      BY <3>2 DEF Inv, WellLinked, LinksAgree
    <3> QED BY <1>2, <3>1, <3>2, <3>3
  <2>2. next'[chain[i + 1]] = IF i = Last - 1 THEN None ELSE chain'[i + 1]
    BY <1>1, <1>2, <2>1 DEF Shift
  <2>3. chain[i + 1] = head' <=> i = 1
    BY <1>1, <1>4, <2>1, ChainFacts DEF Inv, WellLinked, NoCycle
  <2>4. previous'[chain[i + 1]] = IF i = 1 THEN None ELSE previous[chain[i + 1]]
    BY <2>1, <2>3 DEF Shift, With, PreviousCut
  <2>5. i # 1 => chain'[i - 1] = chain[i]
    BY <1>1, <1>2
  <2> QED BY <2>1, <2>2, <2>4, <2>5
<1>10. OneCall'
  BY DEF Shift, Inv, OneCall
<1> QED BY <1>6, <1>7, <1>8, <1>9, <1>10 DEF Inv, WellLinked

\* The steps that leave the nodes alone.
LEMMA QuietInv ==
  ASSUME Inv,
         \/ \E es \in Batches : Push(es) \/ Unshift(es)
         \/ PopEmpty \/ ShiftEmpty \/ UNCHANGED vars
  PROVE  Inv'
<1>1. UNCHANGED <<listVars, chain>>
  BY DEF Push, Unshift, PopEmpty, ShiftEmpty, vars, listVars
<1>2. WellLinked'
  BY <1>1 DEF Inv, WellLinked, NoCycle, EndsAgree, LinksAgree, Last, listVars
<1>3. TypeOK' /\ OneCall'
  BY <1>1, ListAssumption
     DEF Inv, TypeOK, OneCall, Push, Unshift, PopEmpty, ShiftEmpty, Idle, vars, listVars
<1> QED BY <1>2, <1>3 DEF Inv

LEMMA NextInv == Inv /\ [Next]_vars => Inv'
BY PushOneInv, UnshiftOneInv, PopInv, ShiftInv, QuietInv DEF Next

\* Whatever ends elements come in and go out at, the nodes stay a doubly
\* linked list: both directions agree, there is no cycle, and head, tail and
\* size fit.
THEOREM ListInvariant == Spec => []Inv
<1>1. Init => Inv
  BY InitInv
<1>2. Inv /\ [Next]_vars => Inv'
  BY NextInv
<1> QED BY <1>1, <1>2, PTL DEF Spec

\* The fields of the list and of its nodes keep their types.
THEOREM ListTypeOK == Spec => []TypeOK
<1>1. Inv => TypeOK
  BY DEF Inv
<1> QED BY <1>1, ListInvariant, PTL

\* The links are always well formed.
THEOREM ListWellLinked == Spec => []WellLinked
<1>1. Inv => WellLinked
  BY DEF Inv
<1> QED BY <1>1, ListInvariant, PTL
-----------------------------------------------------------------------------
(* Iteration                                                               *)

\* The room the bound leaves is kept for what a call has yet to link.
Room == size + Len(pushing) + Len(unshifting) <= MaxSize

LEMMA RoomKept == Inv /\ Room /\ [Next]_vars => Room'
<1> SUFFICES ASSUME Inv, Room, [Next]_vars PROVE Room'
  OBVIOUS
<1>1. /\ size \in Nat /\ MaxSize \in Nat
      /\ pushing \in Seq(Elements) /\ unshifting \in Seq(Elements)
      /\ Len(pushing) \in Nat /\ Len(unshifting) \in Nat
      /\ (Idle => Len(pushing) = 0 /\ Len(unshifting) = 0)
  BY ListAssumption, LenProperties, EmptySeq DEF Inv, TypeOK, Idle
<1>2. ASSUME NEW es \in Batches, Push(es) \/ Unshift(es) PROVE Room'
  <2>1. es \in Seq(Elements) /\ Len(es) \in Nat
    BY ListAssumption, LenProperties
  <2> QED BY <1>1, <1>2, <2>1 DEF Push, Unshift, Room, listVars
<1>3. CASE PushOne
  <2>1. /\ pushing # <<>> /\ pushing' = Tail(pushing)
        /\ size' = size + 1 /\ unshifting' = unshifting
    BY <1>3 DEF PushOne
  <2>2. Len(Tail(pushing)) = Len(pushing) - 1
    BY <1>1, <2>1, HeadTailProperties
  <2> QED BY <1>1, <2>1, <2>2 DEF Room
<1>4. CASE UnshiftOne
  <2>1. /\ unshifting # <<>> /\ unshifting' = SubSeq(unshifting, 1, Len(unshifting) - 1)
        /\ size' = size + 1 /\ pushing' = pushing
    BY <1>4 DEF UnshiftOne, LastFirst
  <2>2. Len(unshifting) \in Nat \ {0}
    BY <1>1, <2>1, EmptySeq
  <2> DEFINE m == Len(unshifting) - 1
  <2>3. m \in Nat /\ m <= Len(unshifting)
    BY <2>2
  <2>4. Len(SubSeq(unshifting, 1, m)) = m
    <3> HIDE DEF m
    <3>1. \A i \in 1..m : unshifting[i] \in Elements
      BY <1>1, <2>2, <2>3, ElementOfSeq
    <3>2. 1 \in Int /\ m \in Int /\ (m - 1) + 1 = m
      BY <2>3
    <3>3. Len(SubSeq(unshifting, 1, m)) = IF 1 <= m THEN m - 1 + 1 ELSE 0
      BY <3>1, <3>2, SubSeqProperties
    <3> QED BY <2>3, <3>3
  <2>5. Len(unshifting') = Len(unshifting) - 1 /\ Len(pushing') = Len(pushing)
    BY <2>1, <2>4
  <2>6. size' = size + 1 /\ size \in Nat /\ MaxSize \in Nat /\ Len(pushing) \in Nat
    BY <1>1, <2>1
  <2>7. size' + Len(pushing') + Len(unshifting') = size + Len(pushing) + Len(unshifting)
    BY <2>2, <2>5, <2>6
  <2> QED BY <2>7 DEF Room
<1>5. CASE Pop \/ Shift
  BY <1>1, <1>5 DEF Pop, Shift, Room
<1>6. CASE PopEmpty \/ ShiftEmpty \/ UNCHANGED vars
  BY <1>6 DEF PopEmpty, ShiftEmpty, vars, listVars, Room
<1> QED BY <1>2, <1>3, <1>4, <1>5, <1>6 DEF Next

\* Every set of natural numbers has a least one.
LEMMA Least ==
  ASSUME NEW T \in SUBSET Nat, T # {}
  PROVE  \E m \in T : \A n \in T : m <= n
<1>1. \E R : /\ IsWellFoundedOn(R, Nat)
             /\ \A m, n \in Nat : <<n, m>> \in R <=> n < m
  <2>1. IsWellFoundedOn(OpToRel(<, Nat), Nat)
    BY NatLessThanWellFounded
  <2>2. \A m, n \in Nat : <<n, m>> \in OpToRel(<, Nat) <=> n < m
    BY DEF OpToRel
  <2> QED BY <2>1, <2>2, Zenon
<1>2. PICK R : /\ IsWellFoundedOn(R, Nat)
               /\ \A m, n \in Nat : <<n, m>> \in R <=> n < m
  BY <1>1
<1>3. PICK m \in T : \A n \in T : ~(<<n, m>> \in R)
  BY <1>2, WFMin
<1>4. ASSUME NEW n \in T PROVE m <= n
  <2>1. m \in Nat /\ n \in Nat
    OBVIOUS
  <2>2. ~(n < m)
    BY <1>2, <1>3, <2>1
  <2> QED BY <2>1, <2>2
<1> QED BY <1>4

\* The nodes the iterator reaches, one after the other.
Step(f) ==
  [i \in 1..MaxSize + 1 |->
     IF i = 1 THEN head
     ELSE IF f[i - 1] = None THEN None ELSE next[f[i - 1]]]

Reached == [i \in 1..MaxSize + 1 |-> IF i <= Last THEN chain[i] ELSE None]

LEMMA ReachedSteps == Inv /\ Room => Reached = Step(Reached)
<1> SUFFICES ASSUME Inv, Room PROVE Reached = Step(Reached)
  OBVIOUS
<1>1. /\ Last \in Nat /\ MaxSize \in Nat
      /\ DOMAIN chain = 1..Last
      /\ \A i \in 1..Last : chain[i] # None
      /\ chain = <<>> <=> Last = 0
  BY ChainFacts, ListAssumption
<1>2. head = IF Last = 0 THEN None ELSE chain[1]
  BY <1>1 DEF Inv, WellLinked, EndsAgree
<1>3. \A i \in 1..Last : next[chain[i]] = IF i = Last THEN None ELSE chain[i + 1]
  BY <1>1 DEF Inv, WellLinked, LinksAgree
<1>4. ASSUME NEW i \in 1..MaxSize + 1
      PROVE  Reached[i] = IF i = 1 THEN head
                          ELSE IF Reached[i - 1] = None THEN None ELSE next[Reached[i - 1]]
  <2>1. CASE i = 1
    BY <1>1, <1>2, <2>1 DEF Reached
  <2>2. CASE i # 1
    <3>1. i - 1 \in 1..MaxSize + 1 /\ i \in Int /\ i > 1
      BY <1>1, <2>2
    <3>2. Reached[i - 1] = IF i - 1 <= Last THEN chain[i - 1] ELSE None
      BY <3>1 DEF Reached
    <3>3. Reached[i] = IF i <= Last THEN chain[i] ELSE None
      BY DEF Reached
    <3>4. CASE i - 1 <= Last
      <4>1. i - 1 \in 1..Last /\ chain[i - 1] # None
        BY <1>1, <3>1, <3>4
      <4>2. next[chain[i - 1]] = IF i - 1 = Last THEN None ELSE chain[(i - 1) + 1]
        BY <1>3, <4>1
      <4>3. (i - 1) + 1 = i /\ (i - 1 = Last <=> ~(i <= Last))
        BY <1>1, <3>1, <3>4
      <4>4. next[chain[i - 1]] = Reached[i]
        BY <3>3, <4>2, <4>3
      <4> QED BY <2>2, <3>2, <3>4, <4>1, <4>4
    <3>5. CASE ~(i - 1 <= Last)
      BY <1>1, <2>2, <3>1, <3>2, <3>3, <3>5
    <3> QED BY <3>4, <3>5
  <2> QED BY <2>1, <2>2
<1> QED BY <1>4 DEF Step, Reached

\* There is one way to go on from head.
LEMMA OneWay ==
  ASSUME MaxSize \in Nat, NEW f, NEW g, f = Step(f), g = Step(g)
  PROVE  f = g
<1> DEFINE S == 1..MaxSize + 1
           T == {i \in S : f[i] # g[i]}
<1>1. /\ f = [i \in S |-> f[i]] /\ g = [i \in S |-> g[i]]
      /\ \A i \in S : /\ f[i] = Step(f)[i] /\ g[i] = Step(g)[i]
  BY DEF Step
<1>2. CASE T = {}
  <2>1. \A i \in S : f[i] = g[i]
    BY <1>2
  <2> QED BY <1>1, <2>1
<1>3. CASE T # {}
  <2>1. T \in SUBSET Nat
    OBVIOUS
  <2>2. PICK m \in T : \A n \in T : m <= n
    BY <1>3, <2>1, Least
  <2>3. m \in S /\ f[m] # g[m] /\ m \in Nat
    BY <2>2
  <2>4. Step(f)[m] # Step(g)[m]
    BY <1>1, <2>3
  <2>5. m # 1 /\ f[m - 1] # g[m - 1]
    BY <2>3, <2>4 DEF Step
  <2>6. m - 1 \in S
    BY <2>3, <2>5
  <2>7. m - 1 \in T
    BY <2>5, <2>6
  <2> QED BY <2>2, <2>3, <2>7
<1> QED BY <1>2, <1>3

LEMMA Iterates == Inv /\ Room => IteratesItems
<1> SUFFICES ASSUME Inv, Room PROVE IteratesItems
  OBVIOUS
<1> DEFINE node == CHOOSE f : f = Step(f)
           S == 1..MaxSize + 1
<1>1. MaxSize \in Nat
  BY ListAssumption
<1>2. node = Step(node)
  BY ReachedSteps
<1>3. node = Reached
  BY <1>1, <1>2, ReachedSteps, OneWay
<1>4. Iterated = [i \in 1..Cardinality({j \in S : node[j] # None}) |-> element[node[i]]]
  BY DEF Iterated, Step
<1> HIDE DEF node
<1>5. /\ Last \in Nat /\ DOMAIN chain = 1..Last
      /\ \A i \in 1..Last : chain[i] # None
      /\ Last <= MaxSize
  <2>1. Last \in Nat /\ DOMAIN chain = 1..Last /\ \A i \in 1..Last : chain[i] # None
    BY ChainFacts, ListAssumption
  <2>2. size = Last /\ Len(pushing) \in Nat /\ Len(unshifting) \in Nat
    BY LenProperties DEF Inv, TypeOK, WellLinked, EndsAgree
  <2> QED BY <1>1, <2>1, <2>2 DEF Room
<1>6. {j \in S : node[j] # None} = 1..Last
  BY <1>1, <1>3, <1>5 DEF Reached
<1>7. Cardinality(1..Last) = Last
  BY <1>5, FS_Interval
<1>8. \A i \in 1..Last : node[i] = chain[i]
  BY <1>1, <1>3, <1>5 DEF Reached
<1>9. Iterated = [i \in 1..Last |-> element[chain[i]]]
  BY <1>4, <1>6, <1>7, <1>8
<1> QED BY <1>5, <1>9 DEF IteratesItems, Items

\* Iterating the list yields its elements in order, however the links came
\* about: next leads from head through the chain and then to nothing, and a
\* function with the equation of the iterator is the only one, since two would
\* differ first where nothing lets them.
THEOREM ListIteratesItems == Spec => []IteratesItems
<1>1. Init => Room
  BY ListAssumption DEF Init, Room
<1>2. Inv /\ Room /\ [Next]_vars => Room'
  BY RoomKept
<1> QED BY <1>1, <1>2, Iterates, ListInvariant, PTL DEF Spec

-----------------------------------------------------------------------------
(* The list is a deque.                                                    *)

ItemsMap ==
  /\ Items \in Seq(Elements)
  /\ Len(Items) = Last
  /\ \A i \in 1..Last : Items[i] = element[chain[i]]

LEMMA ItemsFacts == Inv => ItemsMap
<1> SUFFICES ASSUME Inv PROVE ItemsMap
  OBVIOUS
<1>1. \A i \in 1..Last : element[chain[i]] \in Elements
  BY ChainFacts DEF Inv, TypeOK
<1>2. Items = [i \in 1..Last |-> element[chain[i]]]
  BY ChainFacts DEF Items
<1>3. Items \in [1..Last -> Elements]
  BY <1>1, <1>2
<1>4. Items \in Seq(Elements)
  BY <1>3, ChainFacts, SeqDef
<1>5. Len(Items) = Last
  <2>1. DOMAIN Items = 1..Last /\ DOMAIN Items = 1..Len(Items) /\ Len(Items) \in Nat
    BY <1>3, <1>4, LenProperties
  <2> QED BY <2>1, ChainFacts
<1> QED BY <1>2, <1>4, <1>5 DEF ItemsMap

\* The two ends of a list that is not empty.
LEMMA TakenItems ==
  ASSUME Inv, chain # <<>>
  PROVE  /\ Items # <<>>
         /\ element[head] = Head(Items)
         /\ element[tail] = Items[Len(Items)]
<1>1. ItemsMap
  BY ItemsFacts
<1>2. Last \in Nat \ {0} /\ head = chain[1] /\ tail = chain[Last]
  BY ChainFacts DEF Inv, WellLinked, EndsAgree
<1>3. Items # <<>> /\ Items[1] = element[head] /\ Items[Len(Items)] = element[tail]
  BY <1>1, <1>2, EmptySeq DEF ItemsMap
<1> QED BY <1>1, <1>3 DEF ItemsMap

\* A new node at the end is a new item at the end.
LEMMA PushOneItems ==
  ASSUME Inv, Inv', PushOne
  PROVE  Items' = Items \o <<Head(pushing)>>
<1>1. PICK n \in Unlinked :
        /\ element' = [element EXCEPT ![n] = Head(pushing)]
        /\ chain' = Append(chain, n)
  BY DEF PushOne
<1>2. n \in Nodes /\ \A i \in 1..Last : chain[i] # n
  BY ChainFacts DEF Unlinked, Linked
<1>3. /\ Last' = Last + 1
      /\ \A i \in 1..Last : chain'[i] = chain[i]
      /\ chain'[Last + 1] = n
  BY <1>1, <1>2, AppendProperties DEF Inv, TypeOK, Last
<1>4. ItemsMap /\ ItemsMap'
  BY ItemsFacts, PTL
<1>5. Head(pushing) \in Elements
  BY HeadTailProperties DEF PushOne, Inv, TypeOK
<1>6. <<Head(pushing)>> \in Seq(Elements)
  BY <1>5
<1>7. /\ Items \o <<Head(pushing)>> \in Seq(Elements)
      /\ Len(Items \o <<Head(pushing)>>) = Last + 1
      /\ \A i \in 1..Last : (Items \o <<Head(pushing)>>)[i] = Items[i]
      /\ (Items \o <<Head(pushing)>>)[Last + 1] = Head(pushing)
  <2>1. Items \in Seq(Elements) /\ Len(Items) = Last /\ Last \in Nat
    BY <1>4, ChainFacts DEF ItemsMap
  <2>2. Len(<<Head(pushing)>>) = 1 /\ <<Head(pushing)>>[1] = Head(pushing)
    OBVIOUS
  <2>3. /\ Items \o <<Head(pushing)>> \in Seq(Elements)
        /\ Len(Items \o <<Head(pushing)>>) = Last + 1
        /\ \A i \in 1..Last + 1 : (Items \o <<Head(pushing)>>)[i] =
              IF i <= Last THEN Items[i] ELSE <<Head(pushing)>>[i - Last]
    BY <1>6, <2>1, <2>2, ConcatProperties
  <2> QED BY <2>1, <2>2, <2>3
<1>8. ASSUME NEW i \in 1..Last + 1
      PROVE  Items'[i] = (Items \o <<Head(pushing)>>)[i]
  <2>1. Items'[i] = element'[chain'[i]]
    BY <1>3, <1>4 DEF ItemsMap
  <2>2. CASE i = Last + 1
    BY <1>1, <1>2, <1>3, <1>7, <2>1, <2>2 DEF Inv, TypeOK
  <2>3. CASE i \in 1..Last
    <3>1. chain'[i] = chain[i] /\ chain[i] # n /\ element'[chain[i]] = element[chain[i]]
      BY <1>1, <1>2, <1>3, <2>3, ChainFacts DEF Inv, TypeOK
    <3> QED BY <1>4, <1>7, <2>1, <2>3, <3>1 DEF ItemsMap
  <2>4. i = Last + 1 \/ i \in 1..Last
    <3>1. Last \in Nat
      BY ChainFacts
    <3> QED BY <3>1
  <2> QED BY <2>2, <2>3, <2>4
<1>9. Items' \in Seq(Elements) /\ Len(Items') = Last + 1
  BY <1>3, <1>4 DEF ItemsMap
<1> QED BY <1>7, <1>8, <1>9, SeqEqual

\* A new node at the front is a new item at the front.
LEMMA UnshiftOneItems ==
  ASSUME Inv, Inv', UnshiftOne, NEW e \in Elements, e = LastFirst(unshifting)[1]
  PROVE  Items' = <<e>> \o Items
<1>1. PICK n \in Unlinked :
        /\ element' = [element EXCEPT ![n] = e]
        /\ chain' = <<n>> \o chain
  BY DEF UnshiftOne
<1>2. n \in Nodes /\ \A i \in 1..Last : chain[i] # n
  BY ChainFacts DEF Unlinked, Linked
<1>3. /\ Last' = Last + 1
      /\ \A i \in 1..Last : chain'[i + 1] = chain[i]
      /\ chain'[1] = n
  <2>1. <<n>> \in Seq(Nodes) /\ Len(<<n>>) = 1 /\ <<n>>[1] = n
    BY <1>2
  <2>2. chain \in Seq(Nodes)
    BY DEF Inv, TypeOK
  <2>3. /\ Len(chain') = 1 + Last
        /\ \A i \in 1..1 + Last : chain'[i] = IF i <= 1 THEN <<n>>[i] ELSE chain[i - 1]
    BY <1>1, <2>1, <2>2, ConcatProperties DEF Last
  <2> QED BY <2>1, <2>3, ChainFacts DEF Last
<1>4. ItemsMap /\ ItemsMap'
  BY ItemsFacts, PTL
<1>5. <<e>> \in Seq(Elements)
  OBVIOUS
<1>6. /\ <<e>> \o Items \in Seq(Elements)
      /\ Len(<<e>> \o Items) = Last + 1
      /\ (<<e>> \o Items)[1] = e
      /\ \A i \in 2..Last + 1 : (<<e>> \o Items)[i] = Items[i - 1]
  <2>1. Items \in Seq(Elements) /\ Len(Items) = Last /\ Last \in Nat
    BY <1>4, ChainFacts DEF ItemsMap
  <2>2. Len(<<e>>) = 1 /\ <<e>>[1] = e
    OBVIOUS
  <2>3. /\ <<e>> \o Items \in Seq(Elements)
        /\ Len(<<e>> \o Items) = 1 + Last
        /\ \A i \in 1..1 + Last : (<<e>> \o Items)[i] =
              IF i <= 1 THEN <<e>>[i] ELSE Items[i - 1]
    BY <1>5, <2>1, <2>2, ConcatProperties
  <2> QED BY <2>1, <2>2, <2>3
<1>7. ASSUME NEW i \in 1..Last + 1
      PROVE  Items'[i] = (<<e>> \o Items)[i]
  <2>1. Items'[i] = element'[chain'[i]]
    BY <1>3, <1>4 DEF ItemsMap
  <2>2. CASE i = 1
    BY <1>1, <1>2, <1>3, <1>6, <2>1, <2>2 DEF Inv, TypeOK
  <2>3. CASE i # 1
    <3>1. i - 1 \in 1..Last /\ chain'[i] = chain[i - 1]
      <4>1. i - 1 \in 1..Last /\ (i - 1) + 1 = i
        BY <2>3, ChainFacts
      <4> QED BY <1>3, <4>1
    <3>2. element'[chain[i - 1]] = element[chain[i - 1]]
      BY <1>1, <1>2, <3>1, ChainFacts DEF Inv, TypeOK
    <3>3. i \in 2..Last + 1
      BY <2>3, ChainFacts
    <3> QED BY <1>4, <1>6, <2>1, <3>1, <3>2, <3>3 DEF ItemsMap
  <2> QED BY <2>2, <2>3
<1>8. Items' \in Seq(Elements) /\ Len(Items') = Last + 1
  BY <1>3, <1>4 DEF ItemsMap
<1> QED BY <1>6, <1>7, <1>8, SeqEqual

Mapped == unshifting \o Items \o pushing

\* The parts of the deque are sequences of elements, and outside a call the
\* deque is what is linked.
MappedParts ==
  /\ Items \in Seq(Elements)
  /\ pushing \in Seq(Elements) /\ unshifting \in Seq(Elements)
  /\ Idle => Mapped = Items

LEMMA MappedFacts == Inv => MappedParts
<1> SUFFICES ASSUME Inv PROVE MappedParts
  OBVIOUS
<1>1. Items \in Seq(Elements) /\ pushing \in Seq(Elements) /\ unshifting \in Seq(Elements)
  BY ItemsFacts DEF ItemsMap, Inv, TypeOK
<1>2. ASSUME Idle PROVE Mapped = Items
  <2>1. <<>> \o Items = Items /\ Items \o <<>> = Items
    BY <1>1, ConcatEmptySeq
  <2> QED BY <1>2, <2>1 DEF Idle, Mapped
<1> QED BY <1>1, <1>2 DEF MappedParts

\* A sequence that is not empty is its head before its tail.
LEMMA HeadFirst ==
  ASSUME NEW S, NEW s \in Seq(S), s # <<>>
  PROVE  s = <<Head(s)>> \o Tail(s)
<1>1. Head(s) \in S /\ Tail(s) \in Seq(S) /\ Len(Tail(s)) = Len(s) - 1
  BY HeadTailProperties
<1>2. Len(s) \in Nat \ {0} /\ Head(s) = s[1]
  BY LenProperties, EmptySeq
<1>3. \A i \in 1..Len(s) - 1 : Tail(s)[i] = s[i + 1]
  BY <1>1, HeadTailProperties
<1>4. <<Head(s)>> \in Seq(S) /\ Len(<<Head(s)>>) = 1 /\ <<Head(s)>>[1] = Head(s)
  BY <1>1
<1>5. /\ <<Head(s)>> \o Tail(s) \in Seq(S)
      /\ Len(<<Head(s)>> \o Tail(s)) = 1 + (Len(s) - 1)
      /\ \A i \in 1..1 + (Len(s) - 1) : (<<Head(s)>> \o Tail(s))[i] =
            IF i <= 1 THEN <<Head(s)>>[i] ELSE Tail(s)[i - 1]
  BY <1>1, <1>4, ConcatProperties
<1>6. ASSUME NEW i \in 1..Len(s) PROVE s[i] = (<<Head(s)>> \o Tail(s))[i]
  <2>1. i \in 1..1 + (Len(s) - 1)
    BY <1>2
  <2>2. CASE i = 1
    BY <1>2, <1>4, <1>5, <2>1, <2>2
  <2>3. CASE i # 1
    <3>1. i - 1 \in 1..Len(s) - 1 /\ (i - 1) + 1 = i
      BY <1>2, <2>3
    <3>2. (<<Head(s)>> \o Tail(s))[i] = Tail(s)[i - 1]
      BY <1>2, <1>5, <2>1, <2>3
    <3> QED BY <1>3, <3>1, <3>2
  <2> QED BY <2>2, <2>3
<1>7. Len(s) = Len(<<Head(s)>> \o Tail(s))
  BY <1>2, <1>5
<1> QED BY <1>5, <1>6, <1>7, SeqEqual

\* A sequence that is not empty is what comes before its last element, and it.
LEMMA LastAfter ==
  ASSUME NEW S, NEW s \in Seq(S), s # <<>>
  PROVE  /\ s[Len(s)] \in S
         /\ SubSeq(s, 1, Len(s) - 1) \in Seq(S)
         /\ s = SubSeq(s, 1, Len(s) - 1) \o <<s[Len(s)]>>
<1>0. PICK n \in Nat \ {0} : n = Len(s)
  BY LenProperties, EmptySeq
<1>1. PICK f, e : f = SubSeq(s, 1, n - 1) /\ e = s[n]
  OBVIOUS
<1>2. e \in S /\ \A i \in 1..n - 1 : s[i] \in S
  <2>1. \A i \in 1..Len(s) : s[i] \in S
    BY ElementOfSeq
  <2> QED BY <1>0, <1>1, <2>1
<1>3. /\ f \in Seq(S) /\ Len(f) = n - 1
      /\ \A i \in 1..n - 1 : f[i] = s[i]
  <2>1. 1 \in Int /\ n - 1 \in Int
    OBVIOUS
  <2>2. /\ f \in Seq(S)
        /\ Len(f) = IF 1 <= n - 1 THEN (n - 1) - 1 + 1 ELSE 0
        /\ \A i \in 1..(n - 1) - 1 + 1 : f[i] = s[1 + i - 1]
    BY <1>1, <1>2, <2>1, SubSeqProperties
  <2>3. Len(f) = n - 1 /\ (n - 1) - 1 + 1 = n - 1
    BY <2>2
  <2>4. ASSUME NEW i \in 1..n - 1 PROVE f[i] = s[i]
    <3>1. 1 + i - 1 = i
      OBVIOUS
    <3> QED BY <2>2, <2>3, <3>1
  <2> QED BY <2>2, <2>3, <2>4
<1>4. <<e>> \in Seq(S) /\ Len(<<e>>) = 1 /\ <<e>>[1] = e
  BY <1>2
<1>5. /\ f \o <<e>> \in Seq(S)
      /\ Len(f \o <<e>>) = (n - 1) + 1
      /\ \A i \in 1..(n - 1) + 1 : (f \o <<e>>)[i] =
            IF i <= n - 1 THEN f[i] ELSE <<e>>[i - (n - 1)]
  BY <1>3, <1>4, ConcatProperties
<1>6. ASSUME NEW i \in 1..n PROVE s[i] = (f \o <<e>>)[i]
  <2>1. i \in 1..(n - 1) + 1
    OBVIOUS
  <2>2. CASE i = n
    <3>1. i - (n - 1) = 1 /\ ~(i <= n - 1)
      BY <2>2
    <3>2. (f \o <<e>>)[i] = <<e>>[1]
      BY <1>5, <2>1, <3>1
    <3> QED BY <1>1, <1>4, <2>2, <3>2
  <2>3. CASE i # n
    <3>1. i \in 1..n - 1 /\ i <= n - 1
      BY <2>3
    <3> QED BY <1>3, <1>5, <2>1, <3>1
  <2> QED BY <2>2, <2>3
<1>7. s = f \o <<e>>
  <2>1. Len(s) = Len(f \o <<e>>)
    BY <1>0, <1>5
  <2> QED BY <1>0, <1>5, <1>6, <2>1, SeqEqual
<1> QED BY <1>0, <1>1, <1>2, <1>3, <1>7

\* Linking one more element of a push() leaves the deque as it is.
LEMMA PushOneMapped ==
  ASSUME Inv, Inv', PushOne
  PROVE  Mapped' = Mapped /\ out' = out
<1>1. MappedParts
  BY MappedFacts
<1>2. Items' = Items \o <<Head(pushing)>>
  BY PushOneItems
<1>3. /\ pushing # <<>> /\ pushing' = Tail(pushing)
      /\ unshifting = <<>> /\ unshifting' = <<>> /\ out' = out
  BY DEF PushOne, Inv, OneCall
<1>4. pushing = <<Head(pushing)>> \o Tail(pushing)
  BY <1>1, <1>3, HeadFirst DEF MappedParts
<1>5. <<Head(pushing)>> \in Seq(Elements) /\ Tail(pushing) \in Seq(Elements)
  BY <1>1, <1>3, HeadTailProperties DEF MappedParts
<1>6. (Items \o <<Head(pushing)>>) \o Tail(pushing) = Items \o pushing
  BY <1>1, <1>4, <1>5, ConcatAssociative DEF MappedParts
<1>7. Items \in Seq(Elements) /\ Items \o <<Head(pushing)>> \in Seq(Elements)
  BY <1>1, <1>5, ConcatProperties DEF MappedParts
<1>8. /\ <<>> \o Items = Items
      /\ <<>> \o (Items \o <<Head(pushing)>>) = Items \o <<Head(pushing)>>
  BY <1>7, ConcatEmptySeq
<1>9. Mapped = Items \o pushing
  BY <1>3, <1>8 DEF Mapped
<1>10. Mapped' = (Items \o <<Head(pushing)>>) \o Tail(pushing)
  BY <1>2, <1>3, <1>8 DEF Mapped
<1> QED BY <1>3, <1>6, <1>9, <1>10

\* Linking one more element of an unshift() leaves the deque as it is, because
\* the last element of the batch is linked first.
LEMMA UnshiftOneMapped ==
  ASSUME Inv, Inv', UnshiftOne
  PROVE  Mapped' = Mapped /\ out' = out
<1> DEFINE e == unshifting[Len(unshifting)]
           rest == SubSeq(unshifting, 1, Len(unshifting) - 1)
<1>1. MappedParts
  BY MappedFacts
<1>2. /\ unshifting # <<>> /\ unshifting' = rest
      /\ pushing = <<>> /\ pushing' = <<>> /\ out' = out
  BY DEF UnshiftOne, LastFirst, Inv, OneCall
<1>3. e \in Elements /\ rest \in Seq(Elements) /\ unshifting = rest \o <<e>>
  BY <1>1, <1>2, LastAfter DEF MappedParts
<1>4. e = LastFirst(unshifting)[1]
  BY DEF LastFirst
<1> HIDE DEF e, rest
<1>5. Items' = <<e>> \o Items
  BY <1>3, <1>4, UnshiftOneItems
<1>6. <<e>> \in Seq(Elements) /\ Items \in Seq(Elements)
  BY <1>1, <1>3 DEF MappedParts
<1>7. (rest \o <<e>>) \o Items = rest \o (<<e>> \o Items)
  BY <1>3, <1>6, ConcatAssociative
<1>8. (rest \o <<e>>) \o Items \in Seq(Elements)
  <2>1. rest \o <<e>> \in Seq(Elements)
    BY <1>3, <1>6, ConcatProperties
  <2> QED BY <1>6, <2>1, ConcatProperties
<1>9. ((rest \o <<e>>) \o Items) \o <<>> = (rest \o <<e>>) \o Items
  BY <1>8, ConcatEmptySeq
<1>10. Mapped = (rest \o <<e>>) \o Items
  BY <1>2, <1>3, <1>9 DEF Mapped
<1>11. Mapped' = rest \o (<<e>> \o Items)
  BY <1>2, <1>5, <1>7, <1>9 DEF Mapped
<1> QED BY <1>2, <1>7, <1>10, <1>11

\* pop() and shift() take one item.
LEMMA PopItems ==
  ASSUME Inv, Inv', Pop
  PROVE  Items' = SubSeq(Items, 1, Len(Items) - 1)
<1>1. ItemsMap /\ ItemsMap'
  BY ItemsFacts, PTL
<1>2. Last \in Nat \ {0} /\ chain \in Seq(Nodes) /\ chain # <<>>
  BY ChainFacts DEF Pop, Inv, TypeOK
<1>3. chain' = SubSeq(chain, 1, Last - 1) /\ element' = element
  BY DEF Pop, Last
<1>4. Last' = Last - 1 /\ \A i \in 1..Last - 1 : chain'[i] = chain[i]
  <2>1. \A i \in 1..Last - 1 : chain[i] \in Nodes
    BY <1>2, ChainFacts
  <2>2. 1 \in Int /\ Last - 1 \in Int
    BY <1>2
  <2>3. /\ Len(chain') = IF 1 <= Last - 1 THEN (Last - 1) - 1 + 1 ELSE 0
        /\ \A i \in 1..(Last - 1) - 1 + 1 : chain'[i] = chain[1 + i - 1]
    BY <1>3, <2>1, <2>2, SubSeqProperties
  <2>4. Len(chain') = Last - 1 /\ (Last - 1) - 1 + 1 = Last - 1
    BY <1>2, <2>3
  <2>5. ASSUME NEW i \in 1..Last - 1 PROVE chain'[i] = chain[i]
    <3>1. 1 + i - 1 = i
      OBVIOUS
    <3> QED BY <2>3, <2>4, <3>1
  <2> QED BY <2>4, <2>5 DEF Last
<1>5. /\ SubSeq(Items, 1, Len(Items) - 1) \in Seq(Elements)
      /\ Items = SubSeq(Items, 1, Len(Items) - 1) \o <<Items[Len(Items)]>>
      /\ <<Items[Len(Items)]>> \in Seq(Elements)
  BY <1>1, <1>2, TakenItems, LastAfter DEF ItemsMap
<1>6. /\ Len(SubSeq(Items, 1, Len(Items) - 1)) = Last - 1
      /\ \A i \in 1..Last - 1 : SubSeq(Items, 1, Len(Items) - 1)[i] = Items[i]
  <2> DEFINE f == SubSeq(Items, 1, Len(Items) - 1)
             x == <<Items[Len(Items)]>>
  <2>1. f \in Seq(Elements) /\ x \in Seq(Elements) /\ Items = f \o x /\ Len(x) = 1
    BY <1>5
  <2> HIDE DEF f, x
  <2>2. /\ Len(f \o x) = Len(f) + Len(x)
        /\ \A i \in 1..Len(f) + Len(x) :
             (f \o x)[i] = IF i <= Len(f) THEN f[i] ELSE x[i - Len(f)]
    BY <2>1, ConcatProperties
  <2>3. Len(f) \in Nat /\ Len(f) = Last - 1
    BY <1>1, <1>2, <2>1, <2>2, LenProperties DEF ItemsMap
  <2>4. \A i \in 1..Last - 1 : f[i] = Items[i]
    BY <1>2, <2>1, <2>2, <2>3
  <2> QED BY <2>3, <2>4 DEF f
<1>7. ASSUME NEW i \in 1..Last - 1
      PROVE  Items'[i] = SubSeq(Items, 1, Len(Items) - 1)[i]
  <2>1. Items'[i] = element'[chain'[i]]
    BY <1>1, <1>4 DEF ItemsMap
  <2>2. i \in 1..Last
    BY <1>2
  <2> QED BY <1>1, <1>3, <1>4, <1>6, <2>1, <2>2 DEF ItemsMap
<1>8. Items' \in Seq(Elements) /\ Len(Items') = Last - 1
  BY <1>1, <1>4 DEF ItemsMap
<1> QED BY <1>5, <1>6, <1>7, <1>8, SeqEqual

LEMMA ShiftItems ==
  ASSUME Inv, Inv', Shift
  PROVE  Items' = Tail(Items)
<1>1. ItemsMap /\ ItemsMap'
  BY ItemsFacts, PTL
<1>2. Last \in Nat \ {0} /\ chain \in Seq(Nodes) /\ chain # <<>>
  BY ChainFacts DEF Shift, Inv, TypeOK
<1>3. chain' = Tail(chain) /\ element' = element
  BY DEF Shift
<1>4. Last' = Last - 1 /\ \A i \in 1..Last - 1 : chain'[i] = chain[i + 1]
  BY <1>2, <1>3, HeadTailProperties DEF Last
<1>5. /\ Tail(Items) \in Seq(Elements)
      /\ Len(Tail(Items)) = Last - 1
      /\ \A i \in 1..Last - 1 : Tail(Items)[i] = Items[i + 1]
  BY <1>1, <1>2, TakenItems, HeadTailProperties DEF ItemsMap
<1>6. ASSUME NEW i \in 1..Last - 1 PROVE Items'[i] = Tail(Items)[i]
  <2>1. Items'[i] = element'[chain'[i]]
    BY <1>1, <1>4 DEF ItemsMap
  <2>2. i + 1 \in 1..Last
    BY <1>2
  <2> QED BY <1>1, <1>3, <1>4, <1>5, <2>1, <2>2 DEF ItemsMap
<1>7. Items' \in Seq(Elements) /\ Len(Items') = Last - 1
  BY <1>1, <1>4 DEF ItemsMap
<1> QED BY <1>5, <1>6, <1>7, SeqEqual

-----------------------------------------------------------------------------
(* Every step of the list is a step of the deque, or none.                 *)

LEMMA InitMapped == Init => Contract!Init
<1> SUFFICES ASSUME Init PROVE Contract!Init
  OBVIOUS
<1>1. MappedParts /\ ItemsMap
  BY InitInv, MappedFacts, ItemsFacts
<1>2. Mapped = Items
  BY <1>1 DEF MappedParts, Init, Idle
<1>3. Len(Items) = 0
  BY <1>1, EmptySeq DEF ItemsMap, Init, Last
<1>4. Items = <<>>
  BY <1>1, <1>3, EmptySeq DEF ItemsMap
<1> QED BY <1>2, <1>4 DEF Contract!Init, Mapped, Init

\* A call of push() or unshift() adds its whole batch.
LEMMA CallMapped ==
  ASSUME Inv, Inv', NEW es \in Batches, Push(es) \/ Unshift(es)
  PROVE  Contract!Next
<1>1. MappedParts /\ es \in Seq(Elements)
  BY MappedFacts, ListAssumption
<1>2. Idle /\ Mapped = Items /\ out' = out /\ Items' = Items
  BY <1>1 DEF MappedParts, Push, Unshift, listVars, Items
<1>3. CASE Push(es)
  <2>1. Mapped' = (<<>> \o Items) \o es
    BY <1>2, <1>3 DEF Mapped, Push, Idle
  <2>2. <<>> \o Items = Items
    BY <1>1, ConcatEmptySeq DEF MappedParts
  <2>3. Contract!Push(es)
    BY <1>2, <2>1, <2>2 DEF Contract!Push, Mapped
  <2> QED BY <2>3 DEF Contract!Next
<1>4. CASE Unshift(es)
  <2>1. Mapped' = (es \o Items) \o <<>>
    BY <1>2, <1>4 DEF Mapped, Unshift, Idle
  <2>2. es \o Items \in Seq(Elements)
    BY <1>1, ConcatProperties DEF MappedParts
  <2>3. (es \o Items) \o <<>> = es \o Items
    BY <2>2, ConcatEmptySeq
  <2>4. Contract!Unshift(es)
    BY <1>2, <2>1, <2>3 DEF Contract!Unshift, Mapped
  <2> QED BY <2>4 DEF Contract!Next
<1> QED BY <1>3, <1>4

\* pop() and shift() take what is at their end.
LEMMA TakeMapped ==
  ASSUME Inv, Inv', Pop \/ Shift
  PROVE  Contract!Next
<1>1. MappedParts /\ MappedParts'
  BY MappedFacts, PTL
<1>2. Idle /\ Idle' /\ chain # <<>>
  BY ChainFacts DEF Pop, Shift, Idle
<1>3. Mapped = Items /\ Mapped' = Items'
  BY <1>1, <1>2 DEF MappedParts
<1>4. /\ Items # <<>>
      /\ element[head] = Head(Items)
      /\ element[tail] = Items[Len(Items)]
  BY <1>2, TakenItems
<1>5. CASE Pop
  <2>1. Items' = SubSeq(Items, 1, Len(Items) - 1) /\ out' = Items[Len(Items)]
    BY <1>4, <1>5, PopItems DEF Pop, ElementOf
  <2>2. Contract!Pop
    BY <1>3, <1>4, <2>1 DEF Contract!Pop, Mapped
  <2> QED BY <2>2 DEF Contract!Next
<1>6. CASE Shift
  <2>1. Items' = Tail(Items) /\ out' = Head(Items)
    BY <1>4, <1>6, ShiftItems DEF Shift, ElementOf
  <2>2. Contract!Shift
    BY <1>3, <1>4, <2>1 DEF Contract!Shift, Mapped
  <2> QED BY <2>2 DEF Contract!Next
<1> QED BY <1>5, <1>6

\* Taking from the empty list returns nothing.
LEMMA EmptyMapped ==
  ASSUME Inv, Inv', PopEmpty \/ ShiftEmpty
  PROVE  Contract!Next
<1>1. MappedParts /\ MappedParts' /\ ItemsMap
  BY MappedFacts, ItemsFacts, PTL
<1>2. Idle /\ Idle' /\ chain = <<>> /\ out' = None /\ Items' = Items
  BY ChainFacts DEF PopEmpty, ShiftEmpty, Idle, listVars, Items
<1>3. Len(Items) = 0
  BY <1>1, <1>2, EmptySeq DEF ItemsMap, Last
<1>4. Items = <<>> /\ Mapped = Items /\ Mapped' = Items
  BY <1>1, <1>2, <1>3, EmptySeq DEF ItemsMap, MappedParts
<1>5. Contract!TakeFromEmpty
  BY <1>2, <1>4 DEF Contract!TakeFromEmpty, Mapped
<1> QED BY <1>5 DEF Contract!Next

LEMMA NextMapped ==
  ASSUME Inv, Inv', [Next]_vars
  PROVE  [Contract!Next]_(Contract!dequeVars)
<1>1. CASE PushOne
  BY <1>1, PushOneMapped DEF Mapped, Contract!dequeVars
<1>2. CASE UnshiftOne
  BY <1>2, UnshiftOneMapped DEF Mapped, Contract!dequeVars
<1>3. CASE \E es \in Batches : Push(es) \/ Unshift(es)
  BY <1>3, CallMapped
<1>4. CASE Pop \/ Shift
  BY <1>4, TakeMapped
<1>5. CASE PopEmpty \/ ShiftEmpty
  BY <1>5, EmptyMapped
<1>6. CASE UNCHANGED vars
  BY <1>6 DEF vars, listVars, Contract!dequeVars, Items
<1> QED BY <1>1, <1>2, <1>3, <1>4, <1>5, <1>6 DEF Next

\* The list implements the deque: a batch goes in whole and in order although
\* its elements are linked one by one, and whichever end an element is taken
\* from, the links and ends of the list lead to the one that is there.
THEOREM ListImplementsDeque == Spec => ImplementsDeque
<1>1. Inv /\ Inv' /\ [Next]_vars => [Contract!Next]_(Contract!dequeVars)
  BY NextMapped
<1> QED
  BY <1>1, InitMapped, ListInvariant, PTL DEF Spec, ImplementsDeque, Contract!Spec
=============================================================================

-------------------------- MODULE RpcBackendProofs ---------------------------
(***************************************************************************)
(* Proofs about RpcBackend.  The backend uses its pool through get(),      *)
(* return() and destroyAll() only, so the invariant proved of the pool in  *)
(* ResourcePoolProofs is an invariant of the backend; what is left to      *)
(* prove is that the constructor's call holds its channel as long as the   *)
(* server may send on it (first part), and what end() does to those who    *)
(* wait for a result and to those who are sending one (second part, with   *)
(* the invariant of the promise map taken from PromiseMapProofs in the     *)
(* same way).                                                              *)
(***************************************************************************)
EXTENDS RpcBackend, FiniteSetTheorems, TLAPS

Proved == INSTANCE ResourcePoolProofs WITH
  Callers <- Puts \union {Con}, Closers <- {"end"}, Resources <- Chans,
  MaxResources <- 2, CreateMayFail <- TRUE

Messages == {<<t>> : t \in Tasks \union Notices}

\* The constructor's chain has its channel, and end() has not put it back.
ConHolds ==
  con \in {"asserting", "subscribing", "consuming"}
    /\ ending \in {"idle", "cancelling", "cancelled"} => call[Con] = "holding"

\* end() begins when the constructor's chain has ended.
EndAfterCon == ending # "idle" => con = "consuming"

\* There is a consumer only between basic.consume and basic.cancel.
ConsumerLives ==
  consuming => con \in {"subscribing", "consuming"} /\ ending \in {"idle", "cancelling"}

\* consumeOk is the first message of all, and cancelOk is sent once, when
\* nothing consumes any more.
NoticesInOrder ==
  /\ queue \in Seq({<<t>> : t \in Tasks})
  /\ wire \in Seq(Messages)
  /\ \A i \in 1..Len(wire) :
       /\ wire[i][1] = "consumeOk" => i = 1 /\ con = "subscribing"
       /\ wire[i][1] = "cancelOk" =>
            /\ ending = "cancelling" /\ ~consuming
            /\ \A j \in 1..Len(wire) : wire[j][1] = "cancelOk" => j = i

\* The pool's invariant gives who has which channel, the rest when.
IInv ==
  /\ Proved!Inv
  /\ ConHolds /\ EndAfterCon /\ ConsumerLives /\ NoticesInOrder

-----------------------------------------------------------------------------
(* The pool is used as it is meant to be                                   *)

LEMMA PoolFits == Proved!PoolAssumption
<1>1. IsFiniteSet(Puts \union {Con})
  BY RpcAssumption, FS_AddElement
<1>2. Proved!IsFiniteSet(Puts \union {Con}) /\ Proved!IsFiniteSet(Chans)
  BY <1>1, RpcAssumption DEF IsFiniteSet, Proved!IsFiniteSet
<1>3. Proved!Cardinality(Chans) = Cardinality(Chans)
  BY DEF Cardinality, Proved!Cardinality, IsFiniteSet, Proved!IsFiniteSet
<1>4. Cardinality(Chans) \in Nat
  BY RpcAssumption, FS_CardinalityType
<1> QED BY <1>2, <1>3, <1>4, RpcAssumption DEF Proved!PoolAssumption

\* A step of the pool's own operations, for whoever makes it.
LEMMA PoolSteps ==
  ASSUME NEW c \in Puts \union {Con},
         \/ Pool!Get(c) \/ Pool!CreateOk(c) \/ Pool!CreateFail(c)
         \/ Pool!Acquire(c) \/ Pool!Return(c)
         \/ Pool!DestroyNow("end") \/ Pool!DestroyLater("end") \/ Pool!DestroyResume("end")
  PROVE  Proved!Next
<1>1. CASE Pool!Get(c)
  <2>1. Proved!Get(c)
    BY <1>1 DEF Pool!Get, Pool!GetUnused, Pool!GetCreate, Pool!GetWait, Pool!MayCreate,
       Pool!Counted, Pool!PushBack, Pool!poolVars, Pool!callVars, Pool!worldVars,
       Proved!Get, Proved!GetUnused, Proved!GetCreate, Proved!GetWait, Proved!MayCreate,
       Proved!Counted, Proved!PushBack, Proved!poolVars, Proved!callVars, Proved!worldVars
  <2> QED BY <2>1 DEF Proved!Next
<1>2. CASE Pool!CreateOk(c) \/ Pool!CreateFail(c) \/ Pool!Acquire(c)
  <2>1. Proved!CreateOk(c) \/ Proved!CreateFail(c) \/ Proved!Acquire(c)
    BY <1>2 DEF Pool!CreateOk, Pool!CreateFail, Pool!Acquire, Pool!poolVars, Pool!callVars,
       Pool!worldVars, Proved!CreateOk, Proved!CreateFail, Proved!Acquire,
       Proved!poolVars, Proved!callVars, Proved!worldVars
  <2> QED BY <2>1 DEF Proved!Next, Proved!Serve
<1>3. CASE Pool!Return(c)
  <2>1. Proved!Return(c)
    BY <1>3 DEF Pool!Return, Pool!ReturnToWaiter, Pool!ReturnToUnused, Pool!SomeoneWaits,
       Pool!ShiftWaiting, Pool!NotifyIfEmpty, Pool!PushUnused, Pool!poolVars,
       Pool!callVars, Pool!worldVars,
       Proved!Return, Proved!ReturnToWaiter, Proved!ReturnToUnused, Proved!SomeoneWaits,
       Proved!ShiftWaiting, Proved!NotifyIfEmpty, Proved!PushUnused, Proved!poolVars,
       Proved!callVars, Proved!worldVars
  <2> QED BY <2>1 DEF Proved!Next, Proved!Serve
<1>4. CASE Pool!DestroyNow("end") \/ Pool!DestroyLater("end") \/ Pool!DestroyResume("end")
  <2>1. Proved!Destroy("end")
    BY <1>4 DEF Pool!DestroyNow, Pool!DestroyLater, Pool!DestroyResume, Pool!Collect,
       Pool!ForgetUnused, Pool!ToSet, Pool!poolVars, Pool!callVars, Pool!worldVars,
       Proved!Destroy, Proved!DestroyNow, Proved!DestroyLater, Proved!DestroyResume,
       Proved!Collect, Proved!ForgetUnused, Proved!ToSet, Proved!poolVars,
       Proved!callVars, Proved!worldVars
  <2> QED BY <2>1 DEF Proved!Next
<1> QED BY <1>1, <1>2, <1>3, <1>4

LEMMA PoolStutters == ASSUME UNCHANGED poolVars PROVE UNCHANGED Proved!vars
BY DEF poolVars, Proved!vars, Proved!poolVars, Proved!callVars, Proved!worldVars

LEMMA PoolStep == ASSUME [Next]_vars PROVE [Proved!Next]_(Proved!vars)
<1>1. CASE UNCHANGED vars
  BY <1>1, PoolStutters DEF vars
<1>2. CASE Call
  BY <1>2, PoolSteps, PoolStutters DEF Call, ConConnect, EndReject, Get, Delete, Put
<1>3. CASE Microtask
  <2>1. CASE ConAssert \/ DoResolve \/ EndMicrotask
    BY <2>1, PoolSteps, PoolStutters DEF ConAssert, DoResolve, EndMicrotask, EndReturn,
       EndResume
  <2>2. CASE \E g \in Gets : FinishGet(g)
    BY <2>2, PoolStutters DEF FinishGet
  <2>3. CASE \E w \in Puts : PutMicrotask(w)
    BY <2>3, PoolSteps DEF PutMicrotask, PutAssert, FinishPut, CutGranted
  <2> QED BY <1>3, <2>1, <2>2, <2>3 DEF Microtask
<1>4. CASE Event
  <2>1. CASE Consume \/ Cancel \/ Hear \/ ServerCancel
    BY <2>1, PoolStutters DEF Consume, Cancel, Hear, ConsumeOk, OnMessage, OnCancel,
       CancelOk, ServerCancel
  <2>2. CASE Created
    BY <2>2, PoolSteps DEF Created
  <2>3. CASE \E w \in Puts : PutEvent(w)
    BY <2>3, PoolSteps, PoolStutters DEF PutEvent, PutSend, Cut
  <2>4. CASE \E t \in Tasks : WorkerReport(t) \/ Evict(t)
    BY <2>4, PoolStutters DEF WorkerReport, Evict
  <2> QED BY <1>4, <2>1, <2>2, <2>3, <2>4 DEF Event, Due
<1>5. CASE EndDestroy \/ EndClose
  BY <1>5, PoolSteps, PoolStutters DEF EndDestroy, EndClose
<1> QED BY <1>1, <1>2, <1>3, <1>4, <1>5 DEF Next

LEMMA PoolInvStep == ASSUME IInv, [Next]_vars PROVE Proved!Inv'
BY PoolFits, PoolStep, Proved!NextInv DEF IInv, Proved!NextInv

-----------------------------------------------------------------------------
(* The constructor's call                                                  *)

\* Whoever heads the queue of the pool holds nothing.
LEMMA HeadWaits ==
  ASSUME Proved!Inv, waiting # <<>>
  PROVE  call[Head(waiting)] = "waiting"
<1>1. waiting \in Seq(Puts \union {Con})
  BY DEF Proved!Inv, Proved!TypeOK
<1>2. 1 \in DOMAIN waiting /\ Head(waiting) = waiting[1]
  BY <1>1
<1>3. Head(waiting) \in Proved!ToSet(waiting)
  BY <1>2 DEF Proved!ToSet
<1> QED BY <1>3 DEF Proved!Inv, Proved!QueueExact

\* Nobody but its owner gives a channel back.
LEMMA HoldingStays ==
  ASSUME Proved!Inv, call[Con] = "holding", NEW c \in Puts \union {Con},
         \/ Pool!Get(c) \/ Pool!CreateOk(c) \/ Pool!CreateFail(c) \/ Pool!Acquire(c)
         \/ c # Con /\ Pool!Return(c)
         \/ Pool!DestroyNow("end") \/ Pool!DestroyLater("end") \/ Pool!DestroyResume("end")
         \/ UNCHANGED poolVars
  PROVE  call'[Con] = "holding"
<1>1. call \in [Puts \union {Con} -> Proved!CallStates]
  BY DEF Proved!Inv, Proved!TypeOK
<1>2. CASE c # Con /\ Pool!ReturnToWaiter(c)
  BY <1>1, <1>2, HeadWaits DEF Pool!ReturnToWaiter, Pool!SomeoneWaits
<1>3. CASE c # Con /\ Pool!ReturnToUnused(c)
  BY <1>1, <1>3 DEF Pool!ReturnToUnused
<1>4. CASE Pool!Get(c) \/ Pool!CreateOk(c) \/ Pool!CreateFail(c) \/ Pool!Acquire(c)
  BY <1>1, <1>4 DEF Pool!Get, Pool!GetUnused, Pool!GetCreate, Pool!GetWait,
     Pool!CreateOk, Pool!CreateFail, Pool!Acquire
<1>5. CASE Pool!DestroyNow("end") \/ Pool!DestroyLater("end") \/ Pool!DestroyResume("end")
  BY <1>5 DEF Pool!DestroyNow, Pool!DestroyLater, Pool!DestroyResume, Pool!Collect,
     Pool!callVars
<1>6. CASE UNCHANGED poolVars
  BY <1>6 DEF poolVars
<1> QED BY <1>2, <1>3, <1>4, <1>5, <1>6 DEF Pool!Return

-----------------------------------------------------------------------------
(* The wire                                                                *)

\* A message at its end leaves the rest of the wire as it is.
LEMMA Appended ==
  ASSUME wire \in Seq(Messages), NEW m \in Messages, wire' = Append(wire, m)
  PROVE  /\ wire' \in Seq(Messages)
         /\ Len(wire') = Len(wire) + 1 /\ Len(wire) \in Nat
         /\ wire'[Len(wire) + 1] = m
         /\ \A i \in 1..Len(wire) : wire'[i] = wire[i]
OBVIOUS

\* What is read from its front moves the rest up.
LEMMA Shifted ==
  ASSUME wire \in Seq(Messages), wire # <<>>, wire' = Tail(wire)
  PROVE  /\ wire' \in Seq(Messages)
         /\ Len(wire) \in Nat \ {0} /\ Len(wire') = Len(wire) - 1
         /\ Head(wire) = wire[1]
         /\ \A i \in 1..Len(wire') : wire'[i] = wire[i + 1] /\ i + 1 \in 1..Len(wire)
OBVIOUS

LEMMA ArriveInOrder ==
  ASSUME NoticesInOrder, NEW t \in Tasks, NEW exists, Arrive(t, exists),
         UNCHANGED <<con, ending, consuming>>
  PROVE  NoticesInOrder'
<1>1. <<t>> \in Messages /\ t \notin Notices
  BY RpcAssumption DEF Messages
<1>2. queue' \in Seq({<<u>> : u \in Tasks})
  BY DEF NoticesInOrder, Arrive
<1>3. CASE wire' = wire
  BY <1>2, <1>3 DEF NoticesInOrder
<1>4. CASE wire' = Append(wire, <<t>>)
  <2>1. /\ wire' \in Seq(Messages)
        /\ Len(wire') = Len(wire) + 1 /\ Len(wire) \in Nat
        /\ wire'[Len(wire) + 1] = <<t>>
        /\ \A i \in 1..Len(wire) : wire'[i] = wire[i]
    BY <1>1, <1>4, Appended DEF NoticesInOrder
  <2>2. \A i \in 1..Len(wire') : i \in 1..Len(wire) \/ wire'[i][1] \notin Notices
    BY <1>1, <2>1
  <2> QED BY <1>2, <2>1, <2>2 DEF NoticesInOrder, Notices
<1> QED BY <1>3, <1>4 DEF Arrive

LEMMA ReadInOrder ==
  ASSUME NoticesInOrder, wire # <<>>, wire' = Tail(wire),
         UNCHANGED <<queue, consuming>>,
         \/ Head(wire) = <<"consumeOk">> /\ UNCHANGED ending
         \/ Head(wire) = <<"cancelOk">> /\ UNCHANGED con
         \/ UNCHANGED <<con, ending>>
  PROVE  NoticesInOrder'
<1>1. /\ wire' \in Seq(Messages)
      /\ Len(wire) \in Nat \ {0} /\ Len(wire') = Len(wire) - 1
      /\ Head(wire) = wire[1]
      /\ \A i \in 1..Len(wire') : wire'[i] = wire[i + 1] /\ i + 1 \in 1..Len(wire)
  BY Shifted DEF NoticesInOrder
<1>2. \A i \in 1..Len(wire') : wire'[i][1] # "consumeOk"
  BY <1>1 DEF NoticesInOrder
<1>3. Head(wire) = <<"cancelOk">> => \A i \in 1..Len(wire') : wire'[i][1] # "cancelOk"
  BY <1>1 DEF NoticesInOrder
<1>4. CASE UNCHANGED ending
  BY <1>1, <1>2, <1>4 DEF NoticesInOrder
<1>5. CASE Head(wire) = <<"cancelOk">>
  BY <1>1, <1>2, <1>3, <1>5 DEF NoticesInOrder
<1> QED BY <1>4, <1>5

-----------------------------------------------------------------------------
(* The steps                                                               *)

Rest == ConHolds /\ EndAfterCon /\ ConsumerLives /\ NoticesInOrder

LEMMA QuietInv ==
  ASSUME IInv, UNCHANGED <<con, ending, consuming>>,
         call[Con] = "holding" => call'[Con] = "holding",
         NoticesInOrder'
  PROVE  Rest'
BY DEF IInv, Rest, ConHolds, EndAfterCon, ConsumerLives

LEMMA ConInv ==
  ASSUME IInv, ConConnect \/ ConAssert \/ Consume \/ ConsumeOk
  PROVE  Rest'
<1> USE DEF IInv, Rest, ConHolds, EndAfterCon, ConsumerLives
<1>1. CASE ConConnect
  BY <1>1 DEF ConConnect, NoticesInOrder, serverVars
<1>2. CASE ConAssert
  <2>1. call'[Con] = "holding"
    BY <1>2 DEF ConAssert, Pool!Acquire, Proved!Inv, Proved!TypeOK
  <2> QED BY <1>2, <2>1 DEF ConAssert, NoticesInOrder, serverVars
<1>3. CASE Consume
  <2>1. <<"consumeOk">> \in Messages /\ \A t \in Tasks : <<t>> \in Messages
    BY DEF Messages, Notices
  <2>2. queue \in Seq(Messages)
    BY <2>1 DEF NoticesInOrder
  <2>3. /\ wire' \in Seq(Messages)
        /\ wire'[1] = <<"consumeOk">>
        /\ \A i \in 1..Len(wire') : i = 1 \/ wire'[i] \in {<<t>> : t \in Tasks}
    <3>1. wire' = <<<<"consumeOk">>>> \o queue
      BY <1>3 DEF Consume
    <3>2. Len(wire') = Len(queue) + 1 /\ Len(queue) \in Nat
      BY <2>2, <3>1
    <3>3. \A i \in 1..Len(queue) : wire'[i + 1] = queue[i] /\ queue[i] \in {<<t>> : t \in Tasks}
      BY <2>1, <2>2, <3>1 DEF NoticesInOrder
    <3>4. \A i \in 1..Len(wire') : i = 1 \/ (i - 1 \in 1..Len(queue) /\ i = (i - 1) + 1)
      BY <3>2
    <3> QED BY <2>1, <2>2, <3>1, <3>3, <3>4
  <2>4. \A i \in 1..Len(wire') : i = 1 \/ wire'[i][1] \notin Notices
    BY <2>3, RpcAssumption
  <2>5. NoticesInOrder'
    BY <1>3, <2>3, <2>4 DEF Consume, NoticesInOrder, Notices
  <2>6. ending = "idle" /\ ending' = ending
    BY <1>3 DEF Consume
  <2> QED BY <1>3, <2>5, <2>6 DEF Consume, poolVars
<1>4. CASE ConsumeOk
  <2>1. NoticesInOrder'
    BY <1>4, ReadInOrder DEF ConsumeOk
  <2>2. con = "subscribing"
    BY <1>4 DEF ConsumeOk, NoticesInOrder
  <2> QED BY <1>4, <2>1, <2>2 DEF ConsumeOk, poolVars
<1> QED BY <1>1, <1>2, <1>3, <1>4

LEMMA EndInv ==
  ASSUME IInv, EndReject \/ Cancel \/ CancelOk \/ EndReturn \/ EndDestroy \/ EndClose
  PROVE  Rest'
<1> USE DEF IInv, Rest, ConHolds, EndAfterCon, ConsumerLives
<1>1. CASE EndReject
  BY <1>1 DEF EndReject, NoticesInOrder, serverVars, poolVars
<1>2. CASE Cancel
  <2>1. <<"cancelOk">> \in Messages
    BY DEF Messages, Notices
  <2>2. /\ wire' \in Seq(Messages)
        /\ Len(wire') = Len(wire) + 1 /\ Len(wire) \in Nat
        /\ wire'[Len(wire) + 1] = <<"cancelOk">>
        /\ \A i \in 1..Len(wire) : wire'[i] = wire[i]
    BY <1>2, <2>1, Appended DEF Cancel, NoticesInOrder
  <2>3. \A i \in 1..Len(wire) : wire[i][1] # "cancelOk"
    <3>1. \A i \in 1..Len(wire) : wire[i] # <<"cancelOk">>
      <4>1. DOMAIN wire = 1..Len(wire)
        BY DEF NoticesInOrder
      <4>2. \A i \in DOMAIN wire : wire[i] # <<"cancelOk">>
        BY <1>2 DEF Cancel
      <4> QED BY <4>1, <4>2
    <3>2. \A m \in Messages : m[1] = "cancelOk" => m = <<"cancelOk">>
      BY DEF Messages
    <3> QED BY <3>1, <3>2 DEF NoticesInOrder
  <2>4. NoticesInOrder'
    BY <1>2, <2>2, <2>3 DEF Cancel, NoticesInOrder
  <2> QED BY <1>2, <2>4 DEF Cancel, poolVars
<1>3. CASE CancelOk
  <2>1. NoticesInOrder'
    BY <1>3, ReadInOrder DEF CancelOk
  <2>2. ending = "cancelling" /\ ~consuming
    BY <1>3 DEF CancelOk, NoticesInOrder
  <2> QED BY <1>3, <2>1, <2>2 DEF CancelOk, poolVars
<1>4. CASE EndReturn
  BY <1>4 DEF EndReturn, CancelDone, NoticesInOrder, serverVars
<1>5. CASE EndDestroy
  BY <1>5 DEF EndDestroy, NoticesInOrder, serverVars
<1>6. CASE EndClose
  BY <1>6 DEF EndClose, NoticesInOrder, serverVars
<1> QED BY <1>1, <1>2, <1>3, <1>4, <1>5, <1>6

LEMMA PutInv ==
  ASSUME IInv, NEW w \in Puts, Put(w) \/ PutMicrotask(w) \/ PutEvent(w)
  PROVE  Rest'
<1>1. w # Con
  BY RpcAssumption DEF Ops
<1>2. CASE Put(w) \/ PutMicrotask(w) \/ Cut(w)
  <2>0. UNCHANGED <<con, ending, serverVars>>
    BY <1>2 DEF Put, PutMicrotask, PutAssert, FinishPut, CutGranted, Cut
  <2>1. NoticesInOrder'
    BY <2>0 DEF IInv, NoticesInOrder, serverVars
  <2>2. call[Con] = "holding" => call'[Con] = "holding"
    BY <1>1, <1>2, HoldingStays DEF IInv, Put, PutMicrotask, PutAssert, FinishPut,
       CutGranted, Cut
  <2> QED BY <2>0, <2>1, <2>2, QuietInv DEF serverVars
<1>3. CASE PutSend(w)
  <2>1. TaskOf[w] \in Tasks
    BY RpcAssumption DEF Ops
  <2>2. NoticesInOrder'
    BY <1>3, <2>1, ArriveInOrder DEF IInv, PutSend
  <2> QED BY <1>3, <2>2, QuietInv DEF PutSend, poolVars
<1> QED BY <1>2, <1>3 DEF PutEvent

LEMMA ClientInv ==
  ASSUME IInv,
         \/ \E g \in Gets : Get(g) \/ FinishGet(g)
         \/ \E d \in Deletes : Delete(d)
         \/ DoResolve \/ EndResume \/ Created
         \/ \E t \in Tasks : Evict(t)
  PROVE  Rest'
<1>1. UNCHANGED <<con, ending, serverVars>>
  BY DEF Get, FinishGet, Delete, DoResolve, EndResume, Created, Evict
<1>2. NoticesInOrder'
  BY <1>1 DEF IInv, NoticesInOrder, serverVars
<1>3. call[Con] = "holding" => call'[Con] = "holding"
  BY HoldingStays DEF IInv, Get, FinishGet, Delete, DoResolve, EndResume, Created, Evict
<1> QED BY <1>1, <1>2, <1>3, QuietInv DEF serverVars

LEMMA ServerInv ==
  ASSUME IInv,
         OnMessage \/ OnCancel \/ ServerCancel \/ \E t \in Tasks : WorkerReport(t)
  PROVE  Rest'
<1>1. CASE OnMessage \/ OnCancel
  <2>1. NoticesInOrder'
    BY <1>1, ReadInOrder DEF IInv, OnMessage, OnCancel
  <2> QED BY <1>1, <2>1, QuietInv DEF OnMessage, OnCancel, poolVars
<1>2. CASE ServerCancel
  <2>1. <<"cancelled">> \in Messages
    BY DEF Messages, Notices
  <2>2. /\ wire' \in Seq(Messages)
        /\ Len(wire') = Len(wire) + 1 /\ Len(wire) \in Nat
        /\ wire'[Len(wire) + 1] = <<"cancelled">>
        /\ \A i \in 1..Len(wire) : wire'[i] = wire[i]
    BY <1>2, <2>1, Appended DEF IInv, ServerCancel, NoticesInOrder
  <2>3. \A i \in 1..Len(wire') : wire'[i][1] \in {"consumeOk", "cancelOk"} =>
          i \in 1..Len(wire)
    BY <2>2
  <2>4. NoticesInOrder'
    BY <1>2, <2>2, <2>3 DEF IInv, ServerCancel, NoticesInOrder
  <2> QED BY <1>2, <2>4 DEF IInv, Rest, ConHolds, EndAfterCon, ConsumerLives,
          ServerCancel, poolVars
<1>3. CASE \E t \in Tasks : WorkerReport(t)
  <2>1. NoticesInOrder'
    BY <1>3, ArriveInOrder DEF IInv, WorkerReport
  <2> QED BY <1>3, <2>1, QuietInv DEF WorkerReport, poolVars
<1> QED BY <1>1, <1>2, <1>3

-----------------------------------------------------------------------------
LEMMA InitIInv == Init => IInv
<1> SUFFICES ASSUME Init PROVE IInv
  OBVIOUS
<1>1. Proved!Init
  BY DEF Init, Pool!Init, Proved!Init
<1>2. Proved!Inv
  BY <1>1, PoolFits, Proved!InitInv DEF Proved!InitInv
<1>3. Rest
  BY DEF Init, Rest, ConHolds, EndAfterCon, ConsumerLives, NoticesInOrder
<1> QED BY <1>2, <1>3 DEF IInv, Rest

LEMMA NextIInv == IInv /\ [Next]_vars => IInv'
<1> SUFFICES ASSUME IInv, [Next]_vars PROVE IInv'
  OBVIOUS
<1>1. Proved!Inv'
  BY PoolInvStep
<1>2. Rest'
  <2>1. CASE UNCHANGED vars
    BY <2>1 DEF vars, poolVars, serverVars, IInv, Rest, ConHolds, EndAfterCon,
       ConsumerLives, NoticesInOrder
  <2>2. CASE Call
    BY <2>2, ConInv, EndInv, ClientInv, PutInv DEF Call
  <2>3. CASE Microtask
    BY <2>3, ConInv, EndInv, ClientInv, PutInv DEF Microtask, EndMicrotask
  <2>4. CASE Event
    BY <2>4, ConInv, EndInv, ClientInv, PutInv, ServerInv DEF Event, Due, Hear
  <2>5. CASE EndDestroy \/ EndClose
    BY <2>5, EndInv
  <2> QED BY <2>1, <2>2, <2>3, <2>4, <2>5 DEF Next
<1> QED BY <1>1, <1>2 DEF IInv, Rest

\* Who has which channel, and in what order the constructor and end() go on.
THEOREM RpcInvariant == Spec => []IInv
<1>1. Init => IInv
  BY InitIInv
<1>2. IInv /\ [Next]_vars => IInv'
  BY NextIInv
<1> QED BY <1>1, <1>2, PTL DEF Spec

\* The channel the server sends results on is in the hands of the constructor's
\* call: no put() can get it, and destroyAll() cannot close it, as long as there
\* is a consumer.
THEOREM RpcConsumerKeepsItsChannel == Spec => []ConsumerKeepsItsChannel
<1>1. IInv => ConsumerKeepsItsChannel
  <2> SUFFICES ASSUME IInv, consuming PROVE ConsumerKeepsItsChannel
    BY DEF ConsumerKeepsItsChannel
  <2>1. call[Con] = "holding"
    BY DEF IInv, ConHolds, ConsumerLives
  <2>2. Con \in Proved!Owners
    BY <2>1 DEF Proved!Owners
  <2>3. got[Con] # None /\ got[Con] \in Proved!Held
    BY <2>2 DEF IInv, Proved!Inv, Proved!Custody, Proved!GotIffOwner, Proved!Held
  <2>4. got[Con] \notin destroyed
    BY <2>3 DEF IInv, Proved!Inv, Proved!Custody, Proved!DestroyedIsGone
  <2>5. ASSUME NEW w \in Puts, got[w] = got[Con] PROVE FALSE
    <3>1. w \in Proved!Owners /\ w # Con
      BY <2>3, <2>5, RpcAssumption
         DEF IInv, Proved!Inv, Proved!Custody, Proved!GotIffOwner, Ops
    <3> QED BY <2>2, <2>5, <3>1
            DEF IInv, Proved!Inv, Proved!Custody, Proved!UniqueOwner
  <2> QED BY <2>1, <2>4, <2>5 DEF ConsumerKeepsItsChannel
<1> QED BY <1>1, RpcInvariant, PTL

-----------------------------------------------------------------------------
(* The calls made of the backend.                                          *)

Known == INSTANCE PromiseMapProofs WITH
  Keys <- Tasks, Values <- {"value"}, HasTimeout <- TRUE, MaxStale <- 0,
  Uses <- {"delete", "rejectAll", "pending", "settled"}

\* What delete() may have cut off from its promise: nothing is promised of it.
Deleted(t) == \E d \in Deletes : TaskOf[d] = t /\ op[d] = "done"

OpStates == {"idle", "connecting", "asserting", "draining", "sent", "awaiting",
             "done", "cut"}

Types ==
  /\ op \in [Ops -> OpStates]
  /\ heard \in [Gets -> Promises \union {None}]
  /\ sends \in [Puts -> 0..MaxSends]
  /\ con \in {"idle", "connecting", "asserting", "subscribing", "consuming"}
  /\ ending \in {"idle", "cancelling", "cancelled", "returned", "destroying", "closed"}
  /\ asserted \in BOOLEAN /\ consuming \in BOOLEAN
  /\ reports \in [Tasks -> 0..MaxReports]
  /\ missed \subseteq Tasks /\ late \subseteq Gets /\ spared \subseteq Puts

\* A put() that has not sent its message may still do so.
SendsLeft ==
  \A w \in Puts :
    /\ op[w] \in {"idle", "connecting", "asserting"} => sends[w] = 0
    /\ op[w] = "draining" => sends[w] < MaxSends

-----------------------------------------------------------------------------
LEMMA MapFits == Known!MapAssumption
BY RpcAssumption DEF Known!MapAssumption

LEMMA MapSteps ==
  ASSUME \/ \E t \in Tasks :
              \/ Map!Get(t) \/ Map!Resolve(t, "value") \/ Map!Delete(t)
              \/ Map!TimerFire(t)
         \/ Map!RejectAll
         \/ \E p \in Promises : Map!DoResolve(p)
  PROVE  Known!Next
<1>1. CASE \E t \in Tasks : Map!Get(t)
  <2>1. \E t \in Tasks : Known!Get(t)
    BY <1>1 DEF Map!Get, Map!has, Map!Fresh, Map!Settled, Map!WaitingEntry,
       Known!Get, Known!has, Known!Fresh, Known!Settled, Known!WaitingEntry
  <2> QED BY <2>1 DEF Known!Next
<1>2. CASE \E t \in Tasks : Map!Resolve(t, "value")
  <2>1. \E t \in Tasks : Known!Resolve(t, "value")
    BY <1>2 DEF Map!Resolve, Map!ResolveWaiting, Map!ResolveUnasked, Map!MaySettle,
       Map!has, Map!isPending, Map!Fresh, Map!Settled, Map!SettledEntry,
       Known!Resolve, Known!ResolveWaiting, Known!ResolveUnasked, Known!MaySettle,
       Known!has, Known!isPending, Known!Fresh, Known!Settled, Known!SettledEntry
  <2> QED BY <2>1 DEF Known!Next
<1>3. CASE \E t \in Tasks : Map!Delete(t)
  <2>1. \E t \in Tasks : Known!Delete(t)
    BY <1>3 DEF Map!Delete, Map!DoDelete, Map!hasData, Map!NoData, Map!WithoutPromise,
       Map!WithoutData, Known!Delete, Known!DoDelete, Known!hasData, Known!NoData,
       Known!WithoutPromise, Known!WithoutData
  <2> QED BY <2>1 DEF Known!Next
<1>4. CASE \E t \in Tasks : Map!TimerFire(t)
  <2>1. \E t \in Tasks : Known!TimerFire(t)
    BY <1>4 DEF Map!TimerFire, Map!NoMicrotask, Map!DoDelete, Map!NoData,
       Map!WithoutPromise, Map!WithoutData, Known!TimerFire, Known!NoMicrotask,
       Known!DoDelete, Known!NoData, Known!WithoutPromise, Known!WithoutData
  <2> QED BY <2>1 DEF Known!Next, Known!Timer
<1>5. CASE Map!RejectAll
  <2>1. Known!RejectAll
    BY <1>5 DEF Map!RejectAll, Map!ToReject, Map!isPending, Map!SettledEntry,
       Map!RejectedByAll, Known!RejectAll, Known!ToReject, Known!isPending,
       Known!SettledEntry, Known!RejectedByAll
  <2> QED BY <2>1 DEF Known!Next
<1>6. CASE \E p \in Promises : Map!DoResolve(p)
  <2>1. \E p \in Promises : Known!DoResolve(p)
    BY <1>6 DEF Map!DoResolve, Map!DoResolveOk, Map!DoResolveFail, Map!SetStatus,
       Map!WithStatus, Known!DoResolve, Known!DoResolveOk, Known!DoResolveFail,
       Known!SetStatus, Known!WithStatus
  <2> QED BY <2>1 DEF Known!Next
<1> QED BY <1>1, <1>2, <1>3, <1>4, <1>5, <1>6

LEMMA MapStutters == ASSUME UNCHANGED mapVars PROVE UNCHANGED Known!vars
BY DEF mapVars, Known!vars, Known!mapVars, Known!promiseVars

LEMMA TasksOf == \A o \in Ops : TaskOf[o] \in Tasks
BY RpcAssumption

LEMMA MapStep == ASSUME [Next]_vars PROVE [Known!Next]_(Known!vars)
<1>1. CASE UNCHANGED vars
  BY <1>1, MapStutters DEF vars
<1>2. CASE Call
  <2>1. CASE EndReject
    BY <2>1, MapSteps, MapStutters DEF EndReject, RejectAll
  <2>2. CASE \E g \in Gets : Get(g)
    BY <2>2, TasksOf, MapSteps, MapStutters DEF Get, Ops
  <2>3. CASE \E d \in Deletes : Delete(d)
    BY <2>3, TasksOf, MapSteps, MapStutters DEF Delete, Ops
  <2>4. CASE ConConnect \/ \E w \in Puts : Put(w)
    BY <2>4, MapStutters DEF ConConnect, Put
  <2> QED BY <1>2, <2>1, <2>2, <2>3, <2>4 DEF Call
<1>3. CASE Microtask
  <2>1. CASE DoResolve
    BY <2>1, MapSteps DEF DoResolve
  <2>2. CASE ConAssert \/ EndMicrotask \/ \E g \in Gets : FinishGet(g)
    BY <2>2, MapStutters DEF ConAssert, EndMicrotask, EndReturn, EndResume, FinishGet
  <2>3. CASE \E w \in Puts : PutMicrotask(w)
    BY <2>3, MapStutters DEF PutMicrotask, PutAssert, FinishPut, CutGranted
  <2> QED BY <1>3, <2>1, <2>2, <2>3 DEF Microtask
<1>4. CASE Event
  <2>1. CASE OnMessage
    BY <2>1, MapSteps DEF OnMessage, Take
  <2>2. CASE OnCancel
    BY <2>2, MapSteps, MapStutters DEF OnCancel, RejectAll
  <2>3. CASE \E t \in Tasks : Evict(t)
    BY <2>3, MapSteps DEF Evict
  <2>4. CASE Consume \/ Cancel \/ ConsumeOk \/ CancelOk \/ Created \/ ServerCancel
    BY <2>4, MapStutters DEF Consume, Cancel, ConsumeOk, CancelOk, Created, ServerCancel
  <2>5. CASE (\E w \in Puts : PutEvent(w)) \/ \E t \in Tasks : WorkerReport(t)
    BY <2>5, MapStutters DEF PutEvent, PutSend, Cut, WorkerReport
  <2> QED BY <1>4, <2>1, <2>2, <2>3, <2>4, <2>5 DEF Event, Due, Hear
<1>5. CASE EndDestroy \/ EndClose
  BY <1>5, MapStutters DEF EndDestroy, EndClose
<1> QED BY <1>1, <1>2, <1>3, <1>4, <1>5 DEF Next

-----------------------------------------------------------------------------
(* Types                                                                   *)

LEMMA Declared ==
  /\ Gets \subseteq Ops /\ Deletes \subseteq Ops /\ Puts \subseteq Ops
  /\ MaxReports \in Nat /\ MaxSends \in Nat \ {0}
BY RpcAssumption DEF Ops

LEMMA TypesStep ==
  ASSUME Types, SendsLeft, Known!Inv', [Next]_vars PROVE (Types /\ SendsLeft)'
<1> USE Declared DEF Types, SendsLeft, OpStates
<1>1. CASE UNCHANGED vars
  BY <1>1 DEF vars, serverVars, callVars, historyVars
<1>2. CASE ConConnect \/ ConAssert \/ Consume \/ ConsumeOk
  BY <1>2 DEF ConConnect, ConAssert, Consume, ConsumeOk, serverVars, callVars, historyVars
<1>3. CASE OnMessage \/ OnCancel \/ DoResolve \/ Created
  BY <1>3 DEF OnMessage, OnCancel, DoResolve, Created, serverVars, callVars, historyVars
<1>4. ASSUME NEW g \in Gets, Get(g) \/ FinishGet(g) PROVE (Types /\ SendsLeft)'
  <2>1. heard' \in [Gets -> Promises \union {None}]
    <3>1. TaskOf[g] \in Tasks
      BY TasksOf
    <3>2. promises'[TaskOf[g]] \in Promises \union {None}
      BY <3>1 DEF Known!Inv, Known!TypeOK
    <3> QED BY <1>4, <3>2 DEF Get, FinishGet
  <2>2. op' \in [Ops -> OpStates] /\ \A w \in Puts : op'[w] = op[w] \/ op'[w] \in {"awaiting", "done"}
    BY <1>4 DEF Get, FinishGet, Goto
  <2> QED BY <1>4, <2>1, <2>2 DEF Get, FinishGet, serverVars, historyVars
<1>5. ASSUME NEW d \in Deletes, Delete(d) PROVE (Types /\ SendsLeft)'
  <2>1. TaskOf[d] \in Tasks
    BY TasksOf
  <2>2. op' \in [Ops -> OpStates] /\ \A w \in Puts : op'[w] = op[w] \/ op'[w] = "done"
    BY <1>5 DEF Delete, Goto
  <2> QED BY <1>5, <2>1, <2>2 DEF Delete, serverVars
<1>6. ASSUME NEW w \in Puts, Put(w) \/ PutMicrotask(w) \/ Cut(w) PROVE (Types /\ SendsLeft)'
  <2>1. UNCHANGED <<heard, sends, con, ending, serverVars, historyVars>>
    BY <1>6 DEF Put, PutMicrotask, PutAssert, FinishPut, CutGranted, Cut
  <2>2. /\ op' \in [Ops -> OpStates]
        /\ \A v \in Puts \ {w} : op'[v] = op[v]
        /\ \/ op'[w] \in {"sent", "done", "cut"}
           \/ op[w] \in {"idle", "connecting"} /\ op'[w] \in {"connecting", "asserting"}
    BY <1>6 DEF Put, PutMicrotask, PutAssert, FinishPut, CutGranted, Cut, Goto
  <2> QED BY <2>1, <2>2 DEF serverVars, historyVars
<1>7. ASSUME NEW w \in Puts, PutSend(w) PROVE (Types /\ SendsLeft)'
  <2>1. sends[w] + 1 \in 0..MaxSends /\ sends' = [sends EXCEPT ![w] = @ + 1]
    BY <1>7 DEF PutSend
  <2>2. /\ op' \in [Ops -> OpStates]
        /\ \A v \in Puts \ {w} : op'[v] = op[v]
        /\ op'[w] = "sent" \/ (op'[w] = "draining" /\ sends'[w] < MaxSends)
    <3>1. CASE Goto(w, "sent")
      BY <3>1 DEF Goto
    <3>2. CASE Goto(w, "draining") /\ sends'[w] < MaxSends
      BY <3>2 DEF Goto
    <3> QED BY <1>7, <3>1, <3>2 DEF PutSend
  <2>3. TaskOf[w] \in Tasks
    BY TasksOf
  <2>4. missed' \subseteq Tasks /\ asserted' \in BOOLEAN
    BY <1>7, <2>3 DEF PutSend, Arrive
  <2>5. UNCHANGED <<heard, con, ending, consuming, reports, late, spared>>
    BY <1>7 DEF PutSend
  <2>6. SendsLeft'
    BY <2>1, <2>2
  <2> QED BY <2>1, <2>2, <2>4, <2>5, <2>6
<1>8. CASE EndReject \/ Cancel \/ CancelOk \/ EndReturn \/ EndResume \/ EndClose
  BY <1>8 DEF EndReject, Cancel, CancelOk, EndReturn, EndResume, EndClose, serverVars,
     callVars, historyVars
<1>9. CASE EndDestroy
  BY <1>9 DEF EndDestroy, serverVars, callVars
<1>10. ASSUME NEW t \in Tasks, WorkerReport(t) \/ Evict(t) PROVE (Types /\ SendsLeft)'
  <2>1. reports' \in [Tasks -> 0..MaxReports]
    BY <1>10 DEF WorkerReport, Evict, serverVars
  <2>2. missed' \subseteq Tasks
    BY <1>10 DEF WorkerReport, Evict, Arrive
  <2>3. UNCHANGED <<callVars, con, ending, asserted, consuming, late, spared>>
    BY <1>10 DEF WorkerReport, Evict, serverVars
  <2> QED BY <2>1, <2>2, <2>3 DEF callVars
<1>11. CASE ServerCancel
  BY <1>11 DEF ServerCancel, callVars, historyVars
<1> QED BY <1>1, <1>2, <1>3, <1>4, <1>5, <1>6, <1>7, <1>8, <1>9, <1>10, <1>11
        DEF Next, Call, Microtask, EndMicrotask, Event, Due, Hear, PutEvent

-----------------------------------------------------------------------------
(* end() and those who are sending                                         *)

Connecting == {"creating", "waiting", "granted"}
Sending == {"asserting", "draining", "sent"}

\* A put() has a channel exactly while it sends.
PutOwns ==
  \A w \in Puts :
    /\ op[w] = "connecting" <=> call[w] \in Connecting
    /\ op[w] \in Sending <=> call[w] = "holding"

\* destroyAll() goes on when nothing is in use any more, and the connection is
\* closed after it: whoever was sending then has sent.
SparedFirst ==
  /\ destroying["end"] \in {"notified", "done"} => \A w \in spared : op[w] = "done"
  /\ \A w \in spared : op[w] \in Sending \union {"done"}
  /\ ending = "closed" => destroying["end"] = "done"

\* What an operation of the pool does to its caller, to the others, and to a
\* waiting destroyAll().
LEMMA PoolEffect ==
  ASSUME Proved!Inv, NEW c \in Puts \union {Con}
  PROVE
    /\ Pool!Get(c) =>
         /\ call'[c] \in Connecting
         /\ \A b \in Puts \ {c} : call'[b] = call[b]
         /\ destroying' = destroying
    /\ Pool!CreateOk(c) =>
         /\ call[c] = "creating" /\ call'[c] = "granted"
         /\ \A b \in Puts \ {c} : call'[b] = call[b]
         /\ destroying' = destroying
    /\ Pool!CreateFail(c) =>
         /\ call[c] = "creating" /\ call'[c] = "idle"
         /\ \A b \in Puts \ {c} : call'[b] = call[b]
         /\ destroying' = destroying
    /\ Pool!Acquire(c) =>
         /\ call[c] = "granted" /\ call'[c] = "holding"
         /\ \A b \in Puts \ {c} : call'[b] = call[b]
         /\ destroying' = destroying
    /\ Pool!Return(c) =>
         /\ call[c] = "holding" /\ call'[c] = "idle"
         /\ \A b \in Puts \ {c} :
              call'[b] = call[b] \/ (call[b] = "waiting" /\ call'[b] = "granted")
         /\ \/ destroying' = destroying
            \/ destroying["end"] = "awaitEmpty" /\ inUse' = {}
            \/ destroying'["end"] = destroying["end"]
<1> USE DEF Connecting
<1>1. call \in [Puts \union {Con} -> Proved!CallStates]
  BY DEF Proved!Inv, Proved!TypeOK
<1>2. Pool!Get(c) =>
         /\ call'[c] \in Connecting
         /\ \A b \in Puts \ {c} : call'[b] = call[b]
         /\ destroying' = destroying
  BY <1>1 DEF Pool!Get, Pool!GetUnused, Pool!GetCreate, Pool!GetWait
<1>3. Pool!CreateOk(c) =>
         /\ call[c] = "creating" /\ call'[c] = "granted"
         /\ \A b \in Puts \ {c} : call'[b] = call[b]
         /\ destroying' = destroying
  BY <1>1 DEF Pool!CreateOk
<1>4. Pool!CreateFail(c) =>
         /\ call[c] = "creating" /\ call'[c] = "idle"
         /\ \A b \in Puts \ {c} : call'[b] = call[b]
         /\ destroying' = destroying
  BY <1>1 DEF Pool!CreateFail
<1>5. Pool!Acquire(c) =>
         /\ call[c] = "granted" /\ call'[c] = "holding"
         /\ \A b \in Puts \ {c} : call'[b] = call[b]
         /\ destroying' = destroying
  BY <1>1 DEF Pool!Acquire
<1>6. Pool!ReturnToUnused(c) =>
         /\ call[c] = "holding" /\ call'[c] = "idle"
         /\ \A b \in Puts \ {c} : call'[b] = call[b]
         /\ \/ destroying["end"] = "awaitEmpty" /\ inUse' = {}
            \/ destroying'["end"] = destroying["end"]
  BY <1>1 DEF Pool!ReturnToUnused, Pool!NotifyIfEmpty
<1>7. Pool!ReturnToWaiter(c) =>
         /\ call[c] = "holding" /\ call'[c] = "idle"
         /\ \A b \in Puts \ {c} :
              call'[b] = call[b] \/ (call[b] = "waiting" /\ call'[b] = "granted")
         /\ destroying' = destroying
  <2> SUFFICES ASSUME Pool!ReturnToWaiter(c)
      PROVE  /\ call[c] = "holding" /\ call'[c] = "idle"
             /\ \A b \in Puts \ {c} :
                  call'[b] = call[b] \/ (call[b] = "waiting" /\ call'[b] = "granted")
             /\ destroying' = destroying
    OBVIOUS
  <2>1. call[Head(waiting)] = "waiting"
    BY HeadWaits DEF Pool!ReturnToWaiter, Pool!SomeoneWaits
  <2>2. call' = [call EXCEPT ![c] = "idle", ![Head(waiting)] = "granted"]
    BY DEF Pool!ReturnToWaiter
  <2> QED BY <1>1, <2>1, <2>2 DEF Pool!ReturnToWaiter
<1> QED BY <1>2, <1>3, <1>4, <1>5, <1>6, <1>7 DEF Pool!Return

\* When the last channel leaves inUse nobody is sending.
LEMMA EmptyMeansSent ==
  ASSUME Proved!Inv, inUse = {}, NEW w \in Puts PROVE call[w] # "holding"
BY DEF Proved!Inv, Proved!Custody, Proved!InUseExact

LEMMA EmptyMeansSentAfter ==
  ASSUME Proved!Inv', inUse' = {}, NEW w \in Puts PROVE call'[w] # "holding"
BY DEF Proved!Inv, Proved!Custody, Proved!InUseExact

PutsInv == PutOwns /\ SparedFirst

\* A step that leaves the puts and the pool alone, and the connection open.
LEMMA QuietPuts ==
  ASSUME PutsInv, \A w \in Puts : op'[w] = op[w] /\ call'[w] = call[w],
         spared \subseteq Puts, spared' = spared,
         destroying'["end"] = destroying["end"],
         ending' # "closed" \/ ending' = ending
  PROVE  PutsInv'
BY DEF PutsInv, PutOwns, SparedFirst

LEMMA PutPuts ==
  ASSUME PutsInv, Types, Proved!Inv, Proved!Inv',
         NEW w \in Puts, Put(w) \/ PutMicrotask(w) \/ PutEvent(w)
  PROVE  PutsInv'
<1> USE Declared DEF Types, Sending, Connecting
<1>1. ending' = ending /\ spared' = spared /\ spared \subseteq Puts
  BY DEF Put, PutMicrotask, PutAssert, FinishPut, CutGranted, PutEvent, PutSend, Cut,
     historyVars
<1>2. \A v \in Puts \ {w} : op'[v] = op[v]
  BY DEF Put, PutMicrotask, PutAssert, FinishPut, CutGranted, PutEvent, PutSend, Cut, Goto
<1>3. CASE Put(w)
  <2>1. op[w] = "idle" /\ op'[w] = "connecting"
    BY <1>3 DEF Put, Goto
  <2>2. /\ call'[w] \in Connecting /\ destroying' = destroying
        /\ \A b \in Puts \ {w} : call'[b] = call[b]
    BY <1>3, PoolEffect DEF Put
  <2> QED BY <1>1, <1>2, <2>1, <2>2 DEF PutsInv, PutOwns, SparedFirst
<1>4. CASE PutAssert(w) \/ CutGranted(w)
  <2>1. op[w] = "connecting" /\ op'[w] = "asserting"
    BY <1>4 DEF PutAssert, CutGranted, Goto
  <2>2. /\ call'[w] = "holding" /\ destroying' = destroying
        /\ \A b \in Puts \ {w} : call'[b] = call[b]
    BY <1>4, PoolEffect DEF PutAssert, CutGranted
  <2> QED BY <1>1, <1>2, <2>1, <2>2 DEF PutsInv, PutOwns, SparedFirst
<1>5. CASE PutSend(w)
  <2>1. op[w] \in Sending /\ op[w] # "sent" /\ op'[w] \in Sending /\ ending # "closed"
    BY <1>5 DEF PutSend, Goto
  <2>2. call' = call /\ destroying' = destroying
    BY <1>5 DEF PutSend, poolVars
  <2> QED BY <1>1, <1>2, <2>1, <2>2 DEF PutsInv, PutOwns, SparedFirst
<1>6. CASE op[w] = "connecting" /\ Cut(w)
  <2>1. op'[w] = "cut" /\ ending = "closed"
    BY <1>6 DEF Cut, Goto
  <2>2. /\ call'[w] = "idle" /\ destroying' = destroying
        /\ \A b \in Puts \ {w} : call'[b] = call[b]
    BY <1>6, PoolEffect DEF Cut
  <2> QED BY <1>1, <1>2, <1>6, <2>1, <2>2 DEF PutsInv, PutOwns, SparedFirst
<1>7. CASE FinishPut(w) \/ (op[w] # "connecting" /\ Cut(w))
  <2>1. /\ Pool!Return(w)
        /\ \/ op'[w] = "done"
           \/ op'[w] = "cut" /\ op[w] \in {"asserting", "draining"} /\ ending = "closed"
    BY <1>7 DEF FinishPut, Cut, Goto
  <2>2. /\ call[w] = "holding" /\ call'[w] = "idle"
        /\ \A b \in Puts \ {w} :
             call'[b] = call[b] \/ (call[b] = "waiting" /\ call'[b] = "granted")
        /\ \/ destroying' = destroying
           \/ destroying["end"] = "awaitEmpty" /\ inUse' = {}
           \/ destroying'["end"] = destroying["end"]
    BY <2>1, PoolEffect
  <2>3. PutOwns'
    BY <1>2, <2>1, <2>2 DEF PutsInv, PutOwns
  <2>4. op'[w] = "cut" => w \notin spared /\ destroying'["end"] = destroying["end"]
    BY <2>1, <2>2 DEF PutsInv, SparedFirst
  <2>5. \A v \in spared : op'[v] \in Sending \union {"done"}
    BY <1>1, <1>2, <2>1, <2>4 DEF PutsInv, SparedFirst
  <2>6. CASE destroying'["end"] = destroying["end"]
    BY <1>1, <1>2, <2>1, <2>3, <2>4, <2>5, <2>6 DEF PutsInv, SparedFirst
  <2>7. CASE destroying["end"] = "awaitEmpty" /\ inUse' = {}
    <3>1. \A v \in spared : op'[v] = "done"
      BY <1>1, <2>3, <2>5, <2>7, EmptyMeansSentAfter DEF PutOwns
    <3> QED BY <1>1, <2>3, <2>5, <2>7, <3>1 DEF PutsInv, SparedFirst
  <2> QED BY <2>2, <2>6, <2>7
<1> QED BY <1>3, <1>4, <1>5, <1>6, <1>7 DEF PutMicrotask, PutEvent

LEMMA PoolMovesPuts ==
  ASSUME PutsInv, Types, Proved!Inv,
         ConConnect \/ ConAssert \/ EndReturn \/ Created,
         destroying["end"] # "awaitEmpty" \/ ~EndReturn
  PROVE  PutsInv'
<1> USE DEF Types
<1>1. /\ op' = op /\ spared' = spared /\ spared \subseteq Puts
      /\ ending' # "closed" \/ ending' = ending
  BY DEF ConConnect, ConAssert, EndReturn, Created, callVars, historyVars
<1>2. /\ \A w \in Puts : call'[w] = call[w] \/ (call[w] \in Connecting /\ call'[w] \in Connecting)
      /\ destroying'["end"] = destroying["end"]
  <2>1. Con \notin Puts
    BY RpcAssumption DEF Ops
  <2>2. CASE ConConnect \/ ConAssert
    BY <2>1, <2>2, PoolEffect DEF ConConnect, ConAssert
  <2>3. CASE EndReturn
    <3>1. Pool!Return(Con) /\ destroying["end"] # "awaitEmpty"
      BY <2>3 DEF EndReturn
    <3> QED BY <2>1, <3>1, PoolEffect DEF Connecting
  <2>4. CASE Created
    <3>1. PICK c \in Puts \union {Con} : Pool!CreateOk(c)
      BY <2>4 DEF Created
    <3> QED BY <3>1, PoolEffect DEF Connecting
  <2> QED BY <2>2, <2>3, <2>4
<1>3. \A w \in Puts : call'[w] = "holding" <=> call[w] = "holding"
  BY <1>2 DEF Connecting
<1> QED BY <1>1, <1>2, <1>3 DEF PutsInv, PutOwns, SparedFirst

LEMMA DestroyPuts ==
  ASSUME PutsInv, Types, Proved!Inv, EndDestroy \/ EndResume \/ EndClose
  PROVE  PutsInv'
<1> USE DEF Types
<1>0. destroying \in [{"end"} -> Proved!CloserStates]
  BY DEF Proved!Inv, Proved!TypeOK
<1>1. op' = op /\ call' = call
  BY DEF EndDestroy, EndResume, EndClose, Pool!DestroyNow, Pool!DestroyLater,
     Pool!DestroyResume, Pool!Collect, Pool!callVars, callVars, poolVars
<1>2. PutOwns'
  BY <1>1 DEF PutsInv, PutOwns
<1>3. CASE EndDestroy
  <2>1. spared' = {w \in Puts : op[w] \in Sending} /\ ending' = "destroying"
    BY <1>3 DEF EndDestroy, Sending
  <2>2. CASE Pool!DestroyNow("end")
    <3>1. \A w \in Puts : op[w] \notin Sending
      BY <2>2, EmptyMeansSent DEF Pool!DestroyNow, PutsInv, PutOwns
    <3> QED BY <1>1, <1>2, <2>1, <3>1 DEF PutsInv, SparedFirst
  <2>3. CASE Pool!DestroyLater("end")
    <3>1. destroying'["end"] = "awaitEmpty"
      BY <1>0, <2>3 DEF Pool!DestroyLater
    <3> QED BY <1>1, <1>2, <2>1, <3>1 DEF PutsInv, SparedFirst
  <2> QED BY <1>3, <2>2, <2>3 DEF EndDestroy
<1>4. CASE EndResume
  <2>1. destroying["end"] = "notified" /\ destroying'["end"] = "done"
    BY <1>0, <1>4 DEF EndResume, Pool!DestroyResume, Pool!Collect
  <2>2. UNCHANGED <<ending, spared>>
    BY <1>4 DEF EndResume, historyVars
  <2> QED BY <1>1, <1>2, <2>1, <2>2 DEF PutsInv, SparedFirst
<1>5. CASE EndClose
  <2>1. destroying["end"] = "done" /\ UNCHANGED <<destroying, spared>>
    BY <1>5 DEF EndClose, DestroyDone, poolVars, historyVars
  <2> QED BY <1>1, <1>2, <2>1 DEF PutsInv, SparedFirst
<1> QED BY <1>3, <1>4, <1>5

\* destroyAll() is called once, by end(), after return().
DestroyedByEnd ==
  ending \in {"idle", "cancelling", "cancelled", "returned"} => destroying["end"] = "idle"

LEMMA DestroyedByEndStep ==
  ASSUME DestroyedByEnd, Types, IInv, [Next]_vars PROVE DestroyedByEnd'
<1> USE DEF DestroyedByEnd, Types
<1>0. destroying \in [{"end"} -> Proved!CloserStates]
  BY DEF IInv, Proved!Inv, Proved!TypeOK
<1>1. ASSUME NEW c \in Puts \union {Con}, Pool!Get(c) \/ Pool!CreateOk(c) \/
               Pool!CreateFail(c) \/ Pool!Acquire(c) \/ Pool!Return(c)
      PROVE  destroying["end"] = "idle" => destroying'["end"] = "idle"
  BY <1>1, PoolEffect DEF IInv
<1>2. CASE UNCHANGED vars
  BY <1>2 DEF vars, poolVars
<1>3. CASE Call
  BY <1>1, <1>3 DEF Call, ConConnect, EndReject, Get, Delete, Put, poolVars
<1>4. CASE Microtask
  <2>1. CASE ConAssert \/ DoResolve \/ \E g \in Gets : FinishGet(g)
    BY <1>1, <2>1 DEF ConAssert, DoResolve, FinishGet, poolVars
  <2>2. CASE EndReturn
    BY <1>1, <2>2 DEF EndReturn, CancelDone
  <2>3. CASE EndResume
    BY <2>3 DEF EndResume, Pool!DestroyResume
  <2>4. CASE \E w \in Puts : PutMicrotask(w)
    BY <1>1, <2>4 DEF PutMicrotask, PutAssert, FinishPut, CutGranted
  <2> QED BY <1>4, <2>1, <2>2, <2>3, <2>4 DEF Microtask, EndMicrotask
<1>5. CASE Event
  <2>1. CASE Consume \/ Cancel \/ ConsumeOk \/ OnMessage \/ OnCancel \/ ServerCancel
    BY <2>1 DEF Consume, Cancel, ConsumeOk, OnMessage, OnCancel, ServerCancel, poolVars
  <2>5. CASE CancelOk
    <3>1. Head(wire) = wire[1] /\ 1 \in 1..Len(wire)
      BY <2>5 DEF CancelOk, IInv, NoticesInOrder
    <3>2. ending = "cancelling"
      BY <2>5, <3>1 DEF CancelOk, IInv, NoticesInOrder
    <3> QED BY <2>5, <3>2 DEF CancelOk, poolVars
  <2>2. CASE Created
    BY <1>1, <2>2 DEF Created
  <2>3. CASE \E w \in Puts : PutEvent(w)
    BY <1>1, <2>3 DEF PutEvent, PutSend, Cut, poolVars
  <2>4. CASE \E t \in Tasks : WorkerReport(t) \/ Evict(t)
    BY <2>4 DEF WorkerReport, Evict, poolVars
  <2> QED BY <1>5, <2>1, <2>2, <2>3, <2>4, <2>5 DEF Event, Due, Hear
<1>6. CASE EndDestroy \/ EndClose
  BY <1>6 DEF EndDestroy, EndClose
<1> QED BY <1>2, <1>3, <1>4, <1>5, <1>6 DEF Next

LEMMA PutsStep ==
  ASSUME PutsInv, DestroyedByEnd, Types, Proved!Inv, Proved!Inv', [Next]_vars
  PROVE  PutsInv'
<1>0. spared \subseteq Puts
  BY DEF Types
<1>1. CASE UNCHANGED vars
  BY <1>0, <1>1, QuietPuts DEF vars, poolVars, callVars, historyVars
<1>2. ASSUME NEW o \in Gets \union Deletes, \A b \in Ops \ {o} : op'[b] = op[b]
      PROVE  \A w \in Puts : op'[w] = op[w]
  BY <1>2, RpcAssumption DEF Ops
<1>3. ASSUME NEW g \in Gets, Get(g) \/ FinishGet(g) PROVE PutsInv'
  <2>1. \A w \in Puts : op'[w] = op[w]
    BY <1>2, <1>3 DEF Get, FinishGet, Goto, Types
  <2> QED BY <1>0, <1>3, <2>1, QuietPuts DEF Get, FinishGet, poolVars, historyVars
<1>4. ASSUME NEW d \in Deletes, Delete(d) PROVE PutsInv'
  <2>1. \A w \in Puts : op'[w] = op[w]
    BY <1>2, <1>4 DEF Delete, Goto, Types
  <2> QED BY <1>0, <1>4, <2>1, QuietPuts DEF Delete, poolVars
<1>5. ASSUME NEW w \in Puts, Put(w) \/ PutMicrotask(w) \/ PutEvent(w) PROVE PutsInv'
  BY <1>5, PutPuts
<1>6. CASE ConConnect \/ ConAssert \/ EndReturn \/ Created
  <2>1. EndReturn => destroying["end"] = "idle"
    BY DEF EndReturn, CancelDone, DestroyedByEnd
  <2> QED BY <1>6, <2>1, PoolMovesPuts
<1>7. CASE EndDestroy \/ EndResume \/ EndClose
  BY <1>7, DestroyPuts
<1>8. CASE EndReject \/ Consume \/ Cancel \/ Hear \/ DoResolve \/ ServerCancel
  BY <1>0, <1>8, QuietPuts DEF EndReject, Consume, Cancel, Hear, ConsumeOk, OnMessage,
     OnCancel, CancelOk, DoResolve, ServerCancel, poolVars, callVars, historyVars
<1>9. ASSUME NEW t \in Tasks, WorkerReport(t) \/ Evict(t) PROVE PutsInv'
  BY <1>0, <1>9, QuietPuts DEF WorkerReport, Evict, poolVars, callVars
<1> QED BY <1>1, <1>3, <1>4, <1>5, <1>6, <1>7, <1>8, <1>9
        DEF Next, Call, Microtask, EndMicrotask, Event, Due

-----------------------------------------------------------------------------
(* end() and those who wait                                                *)

Plain == \A p \in Promises : value[p] = "value"

\* As long as nobody deleted the task, a result that is being taken is that of
\* the task's promise ...
TakenForItsTask ==
  \A p \in Promises : pstate[p] = "running" =>
    \E t \in Tasks : keyOf[p] = t /\ (Deleted(t) \/ promises[t] = p)

\* ... and the entry of a promise that is waited for says so.
MarkedPending ==
  \A t \in Tasks : data[t].functions # None => Deleted(t) \/ data[t].status = "Pending"

\* A get() awaits the promise of its task.
AwaitsItsTask ==
  \A g \in Gets :
    op[g] = "awaiting" => heard[g] \in Promises /\ keyOf[heard[g]] = TaskOf[g]

Waiting == Plain /\ TakenForItsTask /\ MarkedPending /\ AwaitsItsTask

WaitInv == Waiting /\ EndLeavesNone

\* What ends has ended.
LEMMA DoneStays ==
  ASSUME Types, [Next]_vars, NEW o \in Ops, op[o] = "done" PROVE op'[o] = "done"
<1> USE DEF Types
<1>1. CASE UNCHANGED vars
  BY <1>1 DEF vars, callVars
<1>2. CASE Call
  <2>1. CASE ConConnect \/ EndReject
    BY <2>1 DEF ConConnect, EndReject, callVars
  <2>2. CASE \E g \in Gets : Get(g)
    BY <2>2 DEF Get, Goto
  <2>3. CASE \E d \in Deletes : Delete(d)
    BY <2>3 DEF Delete, Goto
  <2>4. CASE \E w \in Puts : Put(w)
    BY <2>4 DEF Put, Goto
  <2> QED BY <1>2, <2>1, <2>2, <2>3, <2>4 DEF Call
<1>3. CASE Microtask
  <2>1. CASE ConAssert \/ DoResolve \/ EndMicrotask
    BY <2>1 DEF ConAssert, DoResolve, EndMicrotask, EndReturn, EndResume, callVars
  <2>2. CASE \E g \in Gets : FinishGet(g)
    BY <2>2 DEF FinishGet, Goto
  <2>3. CASE \E w \in Puts : PutMicrotask(w)
    BY <2>3 DEF PutMicrotask, PutAssert, FinishPut, CutGranted, Goto
  <2> QED BY <1>3, <2>1, <2>2, <2>3 DEF Microtask
<1>4. CASE Event
  <2>1. CASE Consume \/ Cancel \/ Hear \/ Created \/ ServerCancel
    BY <2>1 DEF Consume, Cancel, Hear, ConsumeOk, OnMessage, OnCancel, CancelOk, Created,
       ServerCancel, callVars
  <2>2. CASE \E w \in Puts : PutEvent(w)
    <3>1. PICK w \in Puts : PutSend(w) \/ Cut(w)
      BY <2>2 DEF PutEvent
    <3>2. op[w] # "done" /\ \E st \in {"sent", "draining", "cut"} : Goto(w, st)
      BY <3>1 DEF PutSend, Cut
    <3> QED BY <3>2 DEF Goto
  <2>3. CASE \E t \in Tasks : WorkerReport(t) \/ Evict(t)
    BY <2>3 DEF WorkerReport, Evict, callVars
  <2> QED BY <1>4, <2>1, <2>2, <2>3 DEF Event, Due
<1>5. CASE EndDestroy \/ EndClose
  BY <1>5 DEF EndDestroy, EndClose, callVars
<1> QED BY <1>1, <1>2, <1>3, <1>4, <1>5 DEF Next

\* A get() has its result, or none yet.
Results == result \in [Gets -> {"none", "value", "rejected"}]

LEMMA ResultsStep ==
  ASSUME Results, Waiting, Known!Inv, [Next]_vars PROVE Results'
<1>1. CASE UNCHANGED result
  BY <1>1 DEF Results
<1>2. CASE \E g \in Gets : FinishGet(g)
  <2>1. PICK g \in Gets : FinishGet(g)
    BY <1>2
  <2>2. value[heard[g]] = "value"
    BY <2>1 DEF FinishGet, Waiting, Plain, AwaitsItsTask
  <2> QED BY <2>1, <2>2 DEF FinishGet, Results
<1>3. [Next]_vars => UNCHANGED result \/ \E g \in Gets : FinishGet(g)
  BY DEF vars, callVars, Next, Call, ConConnect, EndReject, Get, Delete, Put, Microtask,
     ConAssert, DoResolve, EndMicrotask, EndReturn, EndResume, PutMicrotask, PutAssert,
     FinishPut, CutGranted, Event, Due, Consume, Cancel, Hear, ConsumeOk, OnMessage,
     OnCancel, CancelOk, Created, PutEvent, PutSend, Cut, ServerCancel, WorkerReport,
     Evict, EndDestroy, EndClose
<1> QED BY <1>1, <1>2, <1>3

LEMMA DeletedStays ==
  ASSUME Types, [Next]_vars PROVE \A t \in Tasks : Deleted(t) => Deleted(t)'
BY DoneStays, Declared DEF Deleted

LEMMA QuietWait ==
  ASSUME WaitInv, \A t \in Tasks : Deleted(t) => Deleted(t)',
         \A g \in Gets : TaskOf[g] \in Tasks,
         UNCHANGED <<mapVars, heard, late>>,
         \A g \in Gets : op'[g] = op[g],
         ending' # "idle" => ending # "idle"
  PROVE  WaitInv'
<1>1. Waiting'
  BY DEF WaitInv, Waiting, Plain, TakenForItsTask, MarkedPending, AwaitsItsTask, mapVars
<1>2. EndLeavesNone'
  BY DEF WaitInv, EndLeavesNone, Deleted, mapVars
<1> QED BY <1>1, <1>2 DEF WaitInv

\* Steps of the map that begin nobody's wait: what was open may be no more.
LEMMA MapWait ==
  ASSUME EndLeavesNone, Waiting, Waiting', \A t \in Tasks : Deleted(t) => Deleted(t)',
         \A g \in Gets : TaskOf[g] \in Tasks,
         UNCHANGED <<heard, late, ending>>,
         \A g \in Gets : op'[g] = op[g],
         \A g \in Gets : op[g] = "awaiting" /\ pstate'[heard[g]] = "open" =>
           pstate[heard[g]] = "open"
  PROVE  EndLeavesNone'
BY DEF EndLeavesNone, Deleted

LEMMA GetWait ==
  ASSUME WaitInv, Types, Known!Inv, Known!Inv', [Next]_vars, NEW g \in Gets, Get(g)
  PROVE  WaitInv'
<1> DEFINE t == TaskOf[g]
<1> USE Declared DEF Types
<1>1. t \in Tasks
  BY TasksOf
<1>2. \A u \in Tasks : Deleted(u) => Deleted(u)'
  BY DeletedStays
<1>3. /\ op' = [op EXCEPT ![g] = "awaiting"]
      /\ heard' = [heard EXCEPT ![g] = promises'[t]]
      /\ ending' = ending
      /\ late' = IF ending = "idle" THEN late ELSE late \union {g}
  BY DEF Get, Goto
<1>4. promises'[t] \in Promises /\ keyOf'[promises'[t]] = t
  <2>1. promises'[t] # None
    <3>1. CASE Map!has(t) /\ UNCHANGED mapVars
      BY <3>1 DEF Map!has, mapVars
    <3>2. CASE Map!Get(t)
      BY <1>1, <3>2, RpcAssumption DEF Map!Get, Map!Fresh, Known!Inv, Known!TypeOK
    <3> QED BY <3>1, <3>2 DEF Get
  <2> QED BY <1>1, <2>1 DEF Known!Inv, Known!TypeOK, Known!MapConsistent,
          Known!OwnedHasData, Known!has
<1>5. \A b \in Gets : op[b] = "awaiting" =>
        keyOf'[heard[b]] = keyOf[heard[b]] /\ pstate'[heard[b]] = pstate[heard[b]]
  <2>1. CASE UNCHANGED mapVars
    BY <2>1 DEF mapVars
  <2>2. CASE Map!Get(t) /\ FirstName
    <3>1. PICK p \in Map!Fresh : /\ pstate' = [pstate EXCEPT ![p] = "open"]
                                 /\ keyOf' = [keyOf EXCEPT ![p] = t]
      BY <2>2 DEF Map!Get
    <3>2. pstate'[p] # pstate[p]
      BY <3>1 DEF Map!Fresh, Map!Settled, Known!Inv, Known!TypeOK
    <3>3. \A b \in Gets : heard[b] # p
      BY <2>2, <3>1, <3>2 DEF FirstName, Usable
    <3> QED BY <3>1, <3>3 DEF Waiting, WaitInv, AwaitsItsTask, Known!Inv, Known!TypeOK
  <2> QED BY <2>1, <2>2 DEF Get
<1>6. (Plain /\ TakenForItsTask /\ MarkedPending)'
  <2>1. CASE UNCHANGED mapVars
    BY <1>2, <2>1 DEF mapVars, WaitInv, Waiting, Plain, TakenForItsTask, MarkedPending
  <2>2. CASE Map!Get(t)
    <3>1. PICK p \in Map!Fresh : /\ promises' = [promises EXCEPT ![t] = p]
                                 /\ data' = [data EXCEPT ![t] = Map!WaitingEntry(p)]
                                 /\ pstate' = [pstate EXCEPT ![p] = "open"]
                                 /\ keyOf' = [keyOf EXCEPT ![p] = t]
      BY <2>2 DEF Map!Get
    <3>2. promises[t] = None /\ value' = value /\ p \in Promises
      BY <2>2 DEF Map!Get, Map!has, Map!Fresh
    <3>3. \A q \in Promises : pstate'[q] = "running" => pstate[q] = "running" /\ q # p
      BY <3>1, <3>2 DEF Known!Inv, Known!TypeOK
    <3>4. TakenForItsTask'
      <4> SUFFICES ASSUME NEW q \in Promises, pstate'[q] = "running"
          PROVE  \E u \in Tasks : keyOf'[q] = u /\ (Deleted(u)' \/ promises'[u] = q)
        BY DEF TakenForItsTask
      <4>1. PICK u \in Tasks : keyOf[q] = u /\ (Deleted(u) \/ promises[u] = q)
        BY <3>3 DEF WaitInv, Waiting, TakenForItsTask
      <4>2. keyOf'[q] = u
        BY <3>1, <3>3, <4>1 DEF Known!Inv, Known!TypeOK
      <4>3. promises[u] = q => promises'[u] = q
        BY <3>1, <3>2, RpcAssumption DEF Known!Inv, Known!TypeOK
      <4> QED BY <1>2, <4>1, <4>2, <4>3
    <3>5. MarkedPending'
      <4>1. data'[t].status = "Pending"
        BY <1>1, <3>1 DEF Map!WaitingEntry, Known!Inv, Known!TypeOK
      <4>2. \A u \in Tasks \ {t} : data'[u] = data[u]
        BY <3>1 DEF Known!Inv, Known!TypeOK
      <4> QED BY <1>2, <4>1, <4>2 DEF WaitInv, Waiting, MarkedPending
    <3> QED BY <3>2, <3>4, <3>5 DEF WaitInv, Waiting, Plain
  <2> QED BY <2>1, <2>2 DEF Get
<1>7. Waiting'
  <2>1. \A b \in Gets : op'[b] = "awaiting" =>
          heard'[b] \in Promises /\ keyOf'[heard'[b]] = TaskOf[b]
    <3>1. \A b \in Gets \ {g} : op'[b] = op[b] /\ heard'[b] = heard[b]
      BY <1>3
    <3>2. heard'[g] = promises'[t]
      BY <1>3
    <3> QED BY <1>4, <1>5, <3>1, <3>2 DEF WaitInv, Waiting, AwaitsItsTask
  <2> QED BY <1>6, <2>1 DEF Waiting, AwaitsItsTask
<1>8. EndLeavesNone'
  <2> SUFFICES ASSUME ending' # "idle", NEW b \in Gets \ late',
                      op'[b] = "awaiting", pstate'[heard'[b]] = "open"
      PROVE  Deleted(TaskOf[b])'
    BY DEF EndLeavesNone, Deleted
  <2>1. b # g /\ b \notin late /\ op[b] = "awaiting" /\ heard'[b] = heard[b]
    BY <1>3
  <2>2. Deleted(TaskOf[b])
    BY <1>3, <1>5, <2>1 DEF WaitInv, EndLeavesNone, Deleted
  <2> QED BY <1>2, <2>2, TasksOf
<1> QED BY <1>7, <1>8 DEF WaitInv

\* Messages and timers come when nothing is being taken.
LEMMA NothingRuns ==
  ASSUME Plain, Map!NoMicrotask PROVE \A p \in Promises : pstate[p] # "running"
BY DEF Plain, Map!NoMicrotask

LEMMA MessageWait ==
  ASSUME WaitInv, Types, Known!Inv, [Next]_vars, NoMicrotask, OnMessage
  PROVE  WaitInv'
<1> DEFINE t == Head(wire)[1]
<1>1. t \in Tasks /\ Map!Resolve(t, "value") /\ FirstName
  BY DEF OnMessage, Take
<1>2. \A u \in Tasks : Deleted(u) => Deleted(u)'
  BY DeletedStays
<1>3. UNCHANGED <<op, heard, late, ending>>
  BY DEF OnMessage, callVars, historyVars
<1>4. \A p \in Promises : pstate[p] # "running"
  BY NothingRuns DEF NoMicrotask, WaitInv, Waiting
<1>5. PICK p \in Promises :
        /\ pstate' = [pstate EXCEPT ![p] = "running"]
        /\ value' = [value EXCEPT ![p] = "value"]
        /\ keyOf'[p] = t /\ promises'[t] = p
        /\ \A b \in Gets : op[b] = "awaiting" => keyOf'[heard[b]] = keyOf[heard[b]]
  <2>1. CASE Map!ResolveWaiting(t, "value")
    <3> DEFINE p == data[t].functions
    <3>1. p # None /\ pstate' = [pstate EXCEPT ![p] = "running"]
      BY <2>1 DEF Map!ResolveWaiting
    <3>2. value' = [value EXCEPT ![p] = "value"] /\ UNCHANGED <<promises, keyOf>>
      BY <2>1 DEF Map!ResolveWaiting
    <3>3. promises[t] = p /\ keyOf[p] = t
      BY <1>1, <3>1 DEF Known!Inv, Known!MapConsistent, Known!FunctionsAreOpen
    <3>4. p \in Promises
      BY <1>1, <3>1, <3>3 DEF Known!Inv, Known!TypeOK
    <3> HIDE DEF p
    <3> QED BY <3>1, <3>2, <3>3, <3>4
  <2>2. CASE Map!ResolveUnasked(t, "value")
    <3>1. PICK p \in Map!Fresh : /\ promises' = [promises EXCEPT ![t] = p]
                                 /\ pstate' = [pstate EXCEPT ![p] = "running"]
                                 /\ keyOf' = [keyOf EXCEPT ![p] = t]
                                 /\ value' = [value EXCEPT ![p] = "value"]
      BY <2>2 DEF Map!ResolveUnasked
    <3>2. p \in Promises /\ pstate'[p] # pstate[p]
      BY <1>4, <3>1 DEF Map!Fresh, Known!Inv, Known!TypeOK
    <3>3. \A b \in Gets : heard[b] # p
      BY <1>1, <3>1, <3>2 DEF FirstName, Usable
    <3>4. keyOf'[p] = t /\ promises'[t] = p
      BY <1>1, <3>1, <3>2 DEF Known!Inv, Known!TypeOK
    <3>5. \A b \in Gets : op[b] = "awaiting" => keyOf'[heard[b]] = keyOf[heard[b]]
      BY <3>1, <3>3 DEF WaitInv, Waiting, AwaitsItsTask, Known!Inv, Known!TypeOK
    <3> QED BY <3>1, <3>2, <3>4, <3>5
  <2> QED BY <1>1, <2>1, <2>2 DEF Map!Resolve
<1>6. Plain'
  BY <1>5 DEF WaitInv, Waiting, Plain
<1>7. TakenForItsTask'
  BY <1>1, <1>4, <1>5 DEF TakenForItsTask, Known!Inv, Known!TypeOK
<1>8. MarkedPending'
  <2>1. data' = [data EXCEPT ![t] = Map!SettledEntry(t, "Pending")]
    BY <1>1 DEF Map!Resolve
  <2>2. data'[t].status = "Pending" /\ \A u \in Tasks \ {t} : data'[u] = data[u]
    BY <1>1, <2>1 DEF Map!SettledEntry, Known!Inv, Known!TypeOK
  <2> QED BY <1>2, <2>2 DEF WaitInv, Waiting, MarkedPending
<1>9. AwaitsItsTask'
  BY <1>3, <1>5 DEF WaitInv, Waiting, AwaitsItsTask
<1>10. \A b \in Gets : op[b] = "awaiting" /\ pstate'[heard[b]] = "open" =>
         pstate[heard[b]] = "open"
  BY <1>5 DEF WaitInv, Waiting, AwaitsItsTask, Known!Inv, Known!TypeOK
<1>11. Waiting'
  BY <1>6, <1>7, <1>8, <1>9 DEF Waiting
<1>12. \A b \in Gets : TaskOf[b] \in Tasks
  BY TasksOf, Declared
<1>13. EndLeavesNone'
  BY <1>2, <1>3, <1>10, <1>11, <1>12, MapWait DEF WaitInv
<1> QED BY <1>11, <1>13 DEF WaitInv

\* Steps that leave every promise with its key and begin none.
LEMMA SettlingWait ==
  ASSUME WaitInv, Types, Known!Inv, [Next]_vars,
         UNCHANGED <<heard, keyOf, value, late>>,
         \A g \in Gets : op'[g] = op[g],
         \A p \in Promises : pstate'[p] = pstate[p] \/ pstate'[p] \in {"rejected", "fulfilled"},
         \A u \in Tasks : promises'[u] = promises[u] \/ Deleted(u)' \/
                            (\A p \in Promises : pstate'[p] # "running"),
         MarkedPending'
  PROVE  Waiting' /\ (UNCHANGED ending => EndLeavesNone')
<1>1. \A u \in Tasks : Deleted(u) => Deleted(u)'
  BY DeletedStays
<1>2. Plain' /\ AwaitsItsTask'
  BY DEF WaitInv, Waiting, Plain, AwaitsItsTask
<1>3. TakenForItsTask'
  BY <1>1 DEF WaitInv, Waiting, TakenForItsTask
<1>4. Waiting'
  BY <1>2, <1>3 DEF Waiting
<1>5. \A g \in Gets : TaskOf[g] \in Tasks
  BY TasksOf, Declared
<1>6. \A g \in Gets : op[g] = "awaiting" /\ pstate'[heard[g]] = "open" =>
        pstate[heard[g]] = "open"
  BY DEF WaitInv, Waiting, AwaitsItsTask
<1>7. UNCHANGED ending => EndLeavesNone'
  BY <1>1, <1>4, <1>5, <1>6, MapWait DEF WaitInv
<1> QED BY <1>4, <1>7

LEMMA RejectWait ==
  ASSUME WaitInv, Types, Known!Inv, [Next]_vars, EndReject \/ OnCancel
  PROVE  WaitInv'
<1>0. \A u \in Tasks : Deleted(u) => Deleted(u)'
  BY DeletedStays
<1>1. RejectAll /\ UNCHANGED <<op, heard, late>>
  BY DEF EndReject, OnCancel, callVars, historyVars
<1>2. /\ UNCHANGED <<keyOf, value, promises>>
      /\ \A p \in Promises : pstate'[p] = pstate[p] \/ pstate'[p] = "rejected"
      /\ \A p \in Promises : Map!RejectedByAll(p) => pstate'[p] = "rejected"
      /\ \A u \in Tasks : data'[u] = data[u] \/ data'[u] = Map!SettledEntry(u, "Rejected")
  <2>1. CASE Map!RejectAll
    BY <2>1 DEF Map!RejectAll
  <2>2. CASE (\A t \in Tasks : ~Map!ToReject(t)) /\ UNCHANGED mapVars
    BY <2>2 DEF mapVars, Map!RejectedByAll
  <2> QED BY <1>1, <2>1, <2>2 DEF RejectAll
<1>3. MarkedPending'
  BY <1>0, <1>2 DEF Map!SettledEntry, WaitInv, Waiting, MarkedPending
<1>4. Waiting' /\ (UNCHANGED ending => EndLeavesNone')
  BY <1>1, <1>2, <1>3, SettlingWait
<1>5. ASSUME NEW g \in Gets, op[g] = "awaiting", pstate'[heard[g]] = "open"
      PROVE  Deleted(TaskOf[g])
  <2> DEFINE p == heard[g]
             t == TaskOf[g]
  <2>1. p \in Promises /\ keyOf[p] = t /\ t \in Tasks
    BY <1>5, TasksOf, Declared DEF WaitInv, Waiting, AwaitsItsTask
  <2>2. pstate[p] = "open"
    BY <1>2, <1>5, <2>1
  <2>3. data[t].functions = p
    BY <2>1, <2>2 DEF Known!Inv, Known!MapConsistent, Known!NoStrandedGetter
  <2>4. p # None
    BY <2>1, RpcAssumption
  <2>5. ~Map!ToReject(t)
    BY <1>2, <1>5, <2>1, <2>3 DEF Map!RejectedByAll
  <2> QED BY <2>1, <2>3, <2>4, <2>5
          DEF WaitInv, Waiting, MarkedPending, Map!ToReject, Map!isPending
<1>6. EndLeavesNone'
  <2> SUFFICES ASSUME NEW g \in Gets, op'[g] = "awaiting", pstate'[heard'[g]] = "open"
      PROVE  Deleted(TaskOf[g])'
    BY DEF EndLeavesNone, Deleted
  <2> QED BY <1>0, <1>1, <1>5, TasksOf, Declared
<1> QED BY <1>4, <1>6 DEF WaitInv

LEMMA DropWait ==
  ASSUME WaitInv, Types, Known!Inv, [Next]_vars, NEW t \in Tasks, Map!DoDelete(t),
         Deleted(t)' \/ Map!NoMicrotask,
         UNCHANGED <<heard, late, ending>>,
         \A g \in Gets : op'[g] = op[g]
  PROVE  WaitInv'
<1>1. \A u \in Tasks : Deleted(u) => Deleted(u)'
  BY DeletedStays
<1>2. /\ UNCHANGED <<keyOf, value>>
      /\ \A p \in Promises : pstate'[p] = pstate[p] \/ pstate'[p] = "rejected"
      /\ \A u \in Tasks \ {t} : promises'[u] = promises[u] /\ data'[u] = data[u]
      /\ data'[t].functions = None
  BY DEF Map!DoDelete, Map!WithoutPromise, Map!WithoutData, Map!NoData, Known!Inv,
     Known!TypeOK
<1>3. MarkedPending'
  BY <1>1, <1>2 DEF WaitInv, Waiting, MarkedPending
<1>4. Map!NoMicrotask => \A p \in Promises : pstate'[p] # "running"
  BY <1>2, NothingRuns DEF WaitInv, Waiting
<1> QED BY <1>2, <1>3, <1>4, SettlingWait DEF WaitInv

LEMMA TakenWait ==
  ASSUME WaitInv, Types, Known!Inv, [Next]_vars, DoResolve
  PROVE  WaitInv'
<1>1. \A u \in Tasks : Deleted(u) => Deleted(u)'
  BY DeletedStays
<1>2. UNCHANGED <<op, heard, late, ending>>
  BY DEF DoResolve, callVars, historyVars
<1>3. PICK p \in Promises : Map!DoResolve(p)
  BY DEF DoResolve
<1>4. /\ pstate[p] = "running" /\ pstate' = [pstate EXCEPT ![p] = "fulfilled"]
      /\ data' = [data EXCEPT ![keyOf[p]] = Map!WithStatus(@, "Fulfilled")]
      /\ UNCHANGED <<promises, keyOf, value>>
  BY <1>3 DEF Map!DoResolve, Map!DoResolveOk, Map!DoResolveFail, Map!SetStatus, WaitInv,
     Waiting, Plain
<1>5. PICK t \in Tasks : keyOf[p] = t /\ (Deleted(t) \/ promises[t] = p)
  BY <1>4 DEF WaitInv, Waiting, TakenForItsTask
<1>6. promises[t] = p => data[t].functions = None
  BY <1>4 DEF Known!Inv, Known!MapConsistent, Known!FunctionsAreOpen
<1>7. /\ \A u \in Tasks \ {t} : data'[u] = data[u]
      /\ data'[t].functions = data[t].functions
  BY <1>4, <1>5 DEF Map!WithStatus, Known!Inv, Known!TypeOK
<1>8. MarkedPending'
  BY <1>1, <1>5, <1>6, <1>7 DEF WaitInv, Waiting, MarkedPending
<1>9. \A q \in Promises : pstate'[q] = pstate[q] \/ pstate'[q] = "fulfilled"
  BY <1>4 DEF Known!Inv, Known!TypeOK
<1> QED BY <1>2, <1>4, <1>8, <1>9, SettlingWait DEF WaitInv

\* A get() that ends waits no more.
LEMMA EndedWait ==
  ASSUME WaitInv, Types, [Next]_vars, NEW g \in Gets, FinishGet(g) PROVE WaitInv'
<1>1. \A u \in Tasks : Deleted(u) => Deleted(u)'
  BY DeletedStays
<1>2. /\ UNCHANGED <<mapVars, late, ending>>
      /\ op'[g] = "done"
      /\ \A b \in Gets \ {g} : op'[b] = op[b] /\ heard'[b] = heard[b]
  BY Declared DEF FinishGet, Goto, historyVars, Types
<1>3. Waiting'
  BY <1>1, <1>2 DEF WaitInv, Waiting, Plain, TakenForItsTask, MarkedPending, AwaitsItsTask,
     mapVars
<1>4. EndLeavesNone'
  <2> SUFFICES ASSUME ending' # "idle", NEW b \in Gets \ late',
                      op'[b] = "awaiting", pstate'[heard'[b]] = "open"
      PROVE  Deleted(TaskOf[b])'
    BY DEF EndLeavesNone, Deleted
  <2>1. Deleted(TaskOf[b])
    BY <1>2 DEF WaitInv, EndLeavesNone, Deleted, mapVars
  <2> QED BY <1>1, <2>1, TasksOf, Declared
<1> QED BY <1>3, <1>4 DEF WaitInv

LEMMA DeleteWait ==
  ASSUME WaitInv, Types, Known!Inv, [Next]_vars, NEW d \in Deletes, Delete(d)
  PROVE  WaitInv'
<1>1. \A u \in Tasks : Deleted(u) => Deleted(u)'
  BY DeletedStays
<1>2. /\ op'[d] = "done" /\ UNCHANGED <<heard, late, ending>>
      /\ \A g \in Gets : op'[g] = op[g]
  BY Declared, RpcAssumption DEF Delete, Goto, Types
<1>3. TaskOf[d] \in Tasks /\ \A g \in Gets : TaskOf[g] \in Tasks
  BY TasksOf, Declared
<1>4. Deleted(TaskOf[d])'
  BY <1>2 DEF Deleted
<1>5. CASE Map!Delete(TaskOf[d])
  <2>1. Map!DoDelete(TaskOf[d])
    BY <1>5 DEF Map!Delete
  <2> QED BY <1>2, <1>3, <1>4, <2>1, DropWait
<1>6. CASE UNCHANGED mapVars
  BY <1>1, <1>2, <1>3, <1>6, QuietWait
<1> QED BY <1>5, <1>6 DEF Delete

LEMMA WaitStep ==
  ASSUME IInv, WaitInv, Types, Known!Inv, Known!Inv', [Next]_vars PROVE WaitInv'
<1>1. \A u \in Tasks : Deleted(u) => Deleted(u)'
  BY DeletedStays
<1>2. \A g \in Gets : TaskOf[g] \in Tasks
  BY TasksOf, Declared
<1>3. ASSUME UNCHANGED <<mapVars, heard, late>>, \A g \in Gets : op'[g] = op[g],
             ending' # "idle" => ending # "idle"
      PROVE  WaitInv'
  BY <1>1, <1>2, <1>3, QuietWait
<1>4. CASE UNCHANGED vars
  BY <1>3, <1>4 DEF vars, callVars, historyVars
<1>5. ASSUME NEW w \in Puts, Put(w) \/ PutMicrotask(w) \/ PutEvent(w) PROVE WaitInv'
  <2>1. UNCHANGED <<mapVars, heard, late, ending>> /\ \A b \in Ops \ {w} : op'[b] = op[b]
    BY <1>5 DEF Put, PutMicrotask, PutAssert, FinishPut, CutGranted, PutEvent, PutSend, Cut,
       Goto, historyVars, Types
  <2>2. \A g \in Gets : op'[g] = op[g]
    BY <2>1, Declared, RpcAssumption
  <2> QED BY <1>3, <2>1, <2>2
<1>6. CASE Call
  <2>1. CASE ConConnect
    BY <1>3, <2>1 DEF ConConnect, callVars, historyVars
  <2>2. CASE EndReject
    BY <2>2, RejectWait
  <2>3. CASE \E g \in Gets : Get(g)
    BY <2>3, GetWait
  <2>4. CASE \E d \in Deletes : Delete(d)
    BY <2>4, DeleteWait
  <2>5. CASE \E w \in Puts : Put(w)
    BY <1>5, <2>5
  <2> QED BY <1>6, <2>1, <2>2, <2>3, <2>4, <2>5 DEF Call
<1>7. CASE Microtask
  <2>1. CASE ConAssert
    BY <1>3, <2>1 DEF ConAssert, callVars, historyVars
  <2>2. CASE EndMicrotask
    BY <1>3, <2>2 DEF EndMicrotask, EndReturn, EndResume, CancelDone, callVars, historyVars
  <2>3. CASE DoResolve
    BY <2>3, TakenWait
  <2>4. CASE \E g \in Gets : FinishGet(g)
    BY <2>4, EndedWait
  <2>5. CASE \E w \in Puts : PutMicrotask(w)
    BY <1>5, <2>5
  <2> QED BY <1>7, <2>1, <2>2, <2>3, <2>4, <2>5 DEF Microtask
<1>8. CASE NoMicrotask /\ Event
  <2>1. CASE Consume \/ Cancel \/ ConsumeOk \/ Created \/ ServerCancel
    BY <1>3, <2>1 DEF Consume, Cancel, ConsumeOk, Created, ServerCancel, callVars,
       historyVars
  <2>2. CASE CancelOk
    <3>1. Head(wire) = wire[1] /\ 1 \in 1..Len(wire)
      BY <2>2 DEF CancelOk, IInv, NoticesInOrder
    <3>2. ending # "idle"
      BY <2>2, <3>1 DEF CancelOk, IInv, NoticesInOrder
    <3> QED BY <1>3, <2>2, <3>2 DEF CancelOk, callVars, historyVars
  <2>3. CASE OnMessage
    BY <1>8, <2>3, MessageWait
  <2>4. CASE OnCancel
    BY <2>4, RejectWait
  <2>5. CASE \E w \in Puts : PutEvent(w)
    BY <1>5, <2>5
  <2>6. CASE \E t \in Tasks : WorkerReport(t)
    BY <1>3, <2>6 DEF WorkerReport, callVars
  <2>7. CASE \E t \in Tasks : Evict(t)
    <3>1. PICK t \in Tasks : Evict(t)
      BY <2>7
    <3>2. Map!DoDelete(t) /\ Map!NoMicrotask
      BY <3>1 DEF Evict, Map!TimerFire
    <3>3. UNCHANGED <<heard, late, ending, op>>
      BY <3>1 DEF Evict, callVars
    <3> QED BY <3>2, <3>3, DropWait
  <2> QED BY <1>8, <2>1, <2>2, <2>3, <2>4, <2>5, <2>6, <2>7 DEF Event, Due, Hear
<1>9. CASE EndDestroy \/ EndClose
  BY <1>3, <1>9 DEF EndDestroy, EndClose, callVars, historyVars
<1> QED BY <1>4, <1>6, <1>7, <1>8, <1>9 DEF Next

-----------------------------------------------------------------------------
(* The theorems                                                            *)

\* What the pool and the map guarantee, and what the calls make of it.
CallsInv ==
  /\ IInv /\ Known!Inv
  /\ Types /\ SendsLeft
  /\ DestroyedByEnd /\ PutsInv /\ WaitInv /\ Results

LEMMA InitCallsInv == Init => CallsInv
<1> SUFFICES ASSUME Init PROVE CallsInv
  OBVIOUS
<1>1. IInv
  BY InitIInv
<1>2. Known!Init
  BY DEF Init, Map!Init, Known!Init, Map!NoData, Known!NoData
<1>3. Known!Inv
  BY <1>2, MapFits, Known!InitInv DEF Known!InitInv
<1>4. Types /\ SendsLeft
  <2>1. op \in [Ops -> OpStates] /\ heard \in [Gets -> Promises \union {None}]
    BY DEF Init, OpStates
  <2>2. sends \in [Puts -> 0..MaxSends] /\ reports \in [Tasks -> 0..MaxReports]
    BY Declared DEF Init
  <2>3. \A w \in Puts : op[w] = "idle" /\ sends[w] = 0
    BY Declared DEF Init
  <2> QED BY <2>1, <2>2, <2>3 DEF Init, Types, SendsLeft
<1>5. DestroyedByEnd
  BY DEF Init, Pool!Init, DestroyedByEnd
<1>6. PutsInv
  BY Declared DEF Init, Pool!Init, PutsInv, PutOwns, SparedFirst, Sending, Connecting
<1>7. WaitInv
  BY Declared DEF Init, Map!Init, Map!NoData, WaitInv, Waiting, Plain, TakenForItsTask,
     MarkedPending, AwaitsItsTask, EndLeavesNone
<1>8. Results
  BY DEF Init, Results
<1> QED BY <1>1, <1>3, <1>4, <1>5, <1>6, <1>7, <1>8 DEF CallsInv

LEMMA NextCallsInv == CallsInv /\ [Next]_vars => CallsInv'
<1> SUFFICES ASSUME CallsInv, [Next]_vars PROVE CallsInv'
  OBVIOUS
<1> USE DEF CallsInv
<1>1. IInv'
  BY NextIInv
<1>2. Known!Inv'
  BY MapStep, MapFits, Known!NextInv DEF Known!NextInv
<1>3. (Types /\ SendsLeft)'
  BY <1>2, TypesStep
<1>4. DestroyedByEnd'
  BY DestroyedByEndStep
<1>5. PutsInv'
  BY <1>1, PutsStep DEF IInv
<1>6. WaitInv'
  BY <1>2, WaitStep
<1>7. Results'
  BY ResultsStep DEF WaitInv
<1> QED BY <1>1, <1>2, <1>3, <1>4, <1>5, <1>6, <1>7

\* Whose each promise and each channel is, for every call in progress.
THEOREM RpcCallsInvariant == Spec => []CallsInv
<1>1. CallsInv /\ [Next]_vars => CallsInv'
  BY NextCallsInv
<1> QED BY <1>1, InitCallsInv, PTL DEF Spec

\* Type correctness, of the pool and the map as well.
THEOREM RpcTypeOK == Spec => []TypeOK
<1>1. CallsInv => TypeOK
  <2> SUFFICES ASSUME CallsInv PROVE TypeOK
    OBVIOUS
  <2>1. Pool!TypeOK
    BY DEF CallsInv, IInv, Proved!Inv, Proved!TypeOK, Proved!CallStates,
       Proved!CloserStates, Pool!TypeOK, Pool!CallStates, Pool!CloserStates
  <2>2. Map!TypeOK
    BY DEF CallsInv, Known!Inv, Known!TypeOK, Known!Entries, Known!NoData, Known!Status,
       Known!PromiseStates, Map!TypeOK, Map!Entries, Map!NoData, Map!Status,
       Map!PromiseStates
  <2> QED BY <2>1, <2>2 DEF CallsInv, Types, Results, OpStates, TypeOK
<1> QED BY <1>1, RpcCallsInvariant, PTL

\* end() leaves nobody waiting: the rejectAll() with which it begins reaches every
\* get() made before it whose task was not deleted.
THEOREM RpcEndLeavesNone == Spec => []EndLeavesNone
<1>1. CallsInv => EndLeavesNone
  BY DEF CallsInv, WaitInv
<1> QED BY <1>1, RpcCallsInvariant, PTL

\* end() closes the connection only after every put() that had its channel when
\* destroyAll() was called has sent its message.
THEOREM RpcPutsSurvive == Spec => []PutsSurvive
<1>1. CallsInv => PutsSurvive
  BY DEF CallsInv, PutsInv, SparedFirst, Sending, PutsSurvive
<1> QED BY <1>1, RpcCallsInvariant, PTL
-----------------------------------------------------------------------------
(* The backend as a service                                                *)

Taken == {"running", "fulfilled"}

\* Results come from where they were reported, all the way: what waits at the
\* server, what is on the wire, and what the map was resolved with.
Sourced ==
  /\ \A i \in 1..Len(queue) : Reported(queue[i][1])
  /\ \A i \in 1..Len(wire) : wire[i][1] \in Tasks => Reported(wire[i][1])
  /\ \A p \in Promises : pstate[p] \in Taken => keyOf[p] \in Tasks /\ Reported(keyOf[p])

\* A put() that awaits "drain", or ends, has sent its message.
SentFirst == \A w \in Puts : op[w] \in {"draining", "sent"} => sends[w] > 0

\* The consumer's channel is put back before destroyAll().
ConGone == ending \in {"returned", "destroying", "closed"} => call[Con] = "idle"

ServiceInv == Sourced /\ SentFirst /\ ConGone

LEMMA ReportedStays ==
  ASSUME Types, [Next]_vars PROVE \A t \in Tasks : Reported(t) => Reported(t)'
<1>1. \/ UNCHANGED <<reports, sends>>
      \/ \E t \in Tasks : UNCHANGED sends /\ reports' = [reports EXCEPT ![t] = @ + 1]
      \/ \E w \in Puts : UNCHANGED reports /\ sends' = [sends EXCEPT ![w] = @ + 1]
  BY DEF vars, callVars, serverVars, Next, Call, ConConnect, EndReject, Get, Delete, Put,
     Microtask, ConAssert, DoResolve, EndMicrotask, EndReturn, EndResume, FinishGet,
     PutMicrotask, PutAssert, FinishPut, CutGranted, Event, Due, Consume, Cancel, Hear,
     ConsumeOk, OnMessage, OnCancel, CancelOk, Created, PutEvent, PutSend, Cut,
     ServerCancel, WorkerReport, Evict, EndDestroy, EndClose
<1>2. /\ \A t \in Tasks : reports[t] > 0 => reports'[t] > 0
      /\ \A w \in Puts : sends[w] > 0 => sends'[w] > 0
  BY <1>1, Declared DEF Types
<1> QED BY <1>2 DEF Reported, Delivered

-----------------------------------------------------------------------------
(* Where results come from                                                 *)

\* What the wire and the map have, they had before, or it has been reported.
LEMMA SourcedFrom ==
  ASSUME Sourced, IInv, \A t \in Tasks : Reported(t) => Reported(t)',
         \A i \in 1..Len(queue') :
           queue'[i][1] \in Tasks /\
             (Reported(queue[i][1])' \/ \E j \in 1..Len(queue) : queue[j] = queue'[i]),
         \A i \in 1..Len(wire') :
           \/ wire'[i][1] \in Tasks => Reported(wire[i][1])'
           \/ \E j \in 1..Len(wire) : wire[j] = wire'[i]
           \/ \E j \in 1..Len(queue) : queue[j] = wire'[i],
         \A p \in Promises : pstate'[p] \in Taken =>
           \/ pstate[p] \in Taken /\ keyOf'[p] = keyOf[p]
           \/ keyOf'[p] \in Tasks /\ Reported(keyOf'[p])
  PROVE  Sourced'
<1>1. \A i \in 1..Len(queue') : Reported(queue[i][1])'
  BY DEF Sourced
<1>2. \A i \in 1..Len(wire') : wire'[i][1] \in Tasks => Reported(wire[i][1])'
  BY DEF Sourced
<1>3. \A p \in Promises :
        pstate'[p] \in Taken => keyOf'[p] \in Tasks /\ Reported(keyOf[p])'
  BY DEF Sourced
<1> QED BY <1>1, <1>2, <1>3 DEF Sourced

QueueSame == \A i \in 1..Len(queue') :
  queue'[i][1] \in Tasks /\ \E j \in 1..Len(queue) : queue[j] = queue'[i]

MapSame == \A p \in Promises :
  pstate'[p] \in Taken => pstate[p] \in Taken /\ keyOf'[p] = keyOf[p]

LEMMA QueueKept == ASSUME IInv, UNCHANGED queue PROVE QueueSame
BY DEF IInv, NoticesInOrder, QueueSame

LEMMA MapKept ==
  ASSUME Known!Inv,
         \/ UNCHANGED mapVars \/ RejectAll
         \/ \E t \in Tasks : Map!DoDelete(t) \/ (Map!Get(t) /\ FirstName)
         \/ DoResolve
  PROVE  MapSame
<1> USE DEF MapSame, Taken
<1>1. CASE UNCHANGED mapVars
  BY <1>1 DEF mapVars
<1>2. CASE Map!RejectAll
  BY <1>2 DEF Map!RejectAll
<1>3. CASE \E t \in Tasks : Map!DoDelete(t)
  BY <1>3 DEF Map!DoDelete
<1>4. CASE \E t \in Tasks : Map!Get(t)
  BY <1>4 DEF Map!Get, Map!Fresh, Known!Inv, Known!TypeOK
<1>5. CASE DoResolve
  BY <1>5 DEF DoResolve, Map!DoResolve, Map!DoResolveOk, Map!DoResolveFail, Known!Inv,
     Known!TypeOK
<1> QED BY <1>1, <1>2, <1>3, <1>4, <1>5 DEF RejectAll

\* A message that arrives is one that was reported.
LEMMA ArriveSourced ==
  ASSUME Sourced, IInv, Known!Inv, \A u \in Tasks : Reported(u) => Reported(u)',
         NEW t \in Tasks, NEW exists, Arrive(t, exists), Reported(t)', UNCHANGED mapVars
  PROVE  Sourced'
<1>1. <<t>> \in Messages /\ <<t>>[1] = t
  BY DEF Messages
<1>2. queue \in Seq({<<u>> : u \in Tasks}) /\ wire \in Seq(Messages)
  BY DEF IInv, NoticesInOrder
<1>3. \A i \in 1..Len(queue) : queue[i][1] \in Tasks
  BY <1>2
<1>4. \A i \in 1..Len(queue') :
        queue'[i] = <<t>> \/ \E j \in 1..Len(queue) : queue[j] = queue'[i]
  <2>1. CASE queue' = queue
    BY <2>1
  <2>2. CASE queue' = Append(queue, <<t>>)
    BY <1>2, <2>2
  <2> QED BY <2>1, <2>2 DEF Arrive
<1>5. \A i \in 1..Len(wire') :
        wire'[i] = <<t>> \/ \E j \in 1..Len(wire) : wire[j] = wire'[i]
  <2>1. CASE wire' = wire
    BY <2>1
  <2>2. CASE wire' = Append(wire, <<t>>)
    BY <1>1, <1>2, <2>2
  <2> QED BY <2>1, <2>2 DEF Arrive
<1>6. MapSame
  BY MapKept
<1> QED BY <1>1, <1>3, <1>4, <1>5, <1>6, SourcedFrom DEF MapSame

\* What is read off the wire is one message of those on it; if it is a result
\* the map is resolved with it.
LEMMA HearSourced ==
  ASSUME Sourced, IInv, Known!Inv, Types, \A u \in Tasks : Reported(u) => Reported(u)',
         Hear
  PROVE  Sourced'
<1>1. wire # <<>> /\ wire' = Tail(wire) /\ UNCHANGED queue
  BY DEF Hear, ConsumeOk, OnMessage, OnCancel, CancelOk
<1>2. /\ Len(wire) \in Nat \ {0} /\ Head(wire) = wire[1]
      /\ \A i \in 1..Len(wire') : wire'[i] = wire[i + 1] /\ i + 1 \in 1..Len(wire)
  BY <1>1, Shifted DEF IInv, NoticesInOrder
<1>3. QueueSame
  BY <1>1, QueueKept
<1>4. ASSUME NEW p \in Promises, pstate'[p] \in Taken
      PROVE  \/ pstate[p] \in Taken /\ keyOf'[p] = keyOf[p]
             \/ keyOf'[p] \in Tasks /\ Reported(keyOf'[p])
  <2>1. CASE ConsumeOk \/ OnCancel \/ CancelOk
    BY <1>4, <2>1, MapKept DEF ConsumeOk, OnCancel, CancelOk, MapSame
  <2>2. CASE OnMessage
    <3> DEFINE t == Head(wire)[1]
    <3>1. t \in Tasks /\ Map!Resolve(t, "value") /\ Reported(t)
      BY <1>2, <2>2 DEF OnMessage, Take, Sourced
    <3>2. CASE Map!ResolveWaiting(t, "value")
      <4>1. /\ pstate' = [pstate EXCEPT ![data[t].functions] = "running"]
            /\ keyOf' = keyOf /\ keyOf[data[t].functions] = t
        BY <3>1, <3>2 DEF Map!ResolveWaiting, Known!Inv, Known!MapConsistent,
           Known!FunctionsAreOpen
      <4> QED BY <1>4, <3>1, <4>1 DEF Known!Inv, Known!TypeOK
    <3>3. CASE Map!ResolveUnasked(t, "value")
      <4>1. PICK q \in Map!Fresh : /\ pstate' = [pstate EXCEPT ![q] = "running"]
                                   /\ keyOf' = [keyOf EXCEPT ![q] = t]
        BY <3>3 DEF Map!ResolveUnasked
      <4> QED BY <1>4, <3>1, <4>1 DEF Known!Inv, Known!TypeOK
    <3> QED BY <3>1, <3>2, <3>3 DEF Map!Resolve
  <2> QED BY <2>1, <2>2 DEF Hear
<1> QED BY <1>2, <1>3, <1>4, SourcedFrom DEF QueueSame

\* The consumer is sent what waited for it; notices come after what is there.
LEMMA ServerSourced ==
  ASSUME Sourced, IInv, Known!Inv, \A u \in Tasks : Reported(u) => Reported(u)',
         Consume \/ Cancel \/ ServerCancel
  PROVE  Sourced'
<1>1. queue \in Seq({<<u>> : u \in Tasks}) /\ wire \in Seq(Messages)
  BY DEF IInv, NoticesInOrder
<1>2. MapSame
  BY MapKept DEF Consume, Cancel, ServerCancel
<1>3. QueueSame
  BY QueueKept DEF Consume, Cancel, ServerCancel, QueueSame
<1>4. \A i \in 1..Len(wire') :
        \/ wire'[i][1] \in Notices
        \/ \E j \in 1..Len(wire) : wire[j] = wire'[i]
        \/ \E j \in 1..Len(queue) : queue[j] = wire'[i]
  <2>1. CASE Consume
    <3>1. wire' = <<<<"consumeOk">>>> \o queue
      BY <2>1 DEF Consume
    <3>2. /\ wire'[1] = <<"consumeOk">> /\ Len(wire') = Len(queue) + 1 /\ Len(queue) \in Nat
          /\ \A i \in 1..Len(queue) : wire'[i + 1] = queue[i]
      BY <1>1, <3>1
    <3>3. \A i \in 1..Len(wire') : i = 1 \/ (i - 1 \in 1..Len(queue) /\ i = (i - 1) + 1)
      BY <3>2
    <3>4. \A i \in 1..Len(wire') : i = 1 \/ queue[i - 1] = wire'[i]
      BY <3>2, <3>3
    <3> QED BY <3>2, <3>3, <3>4 DEF Notices
  <2>2. ASSUME NEW n \in Notices, wire' = Append(wire, <<n>>) PROVE <1>4
    <3>1. <<n>> \in Messages /\ <<n>>[1] = n
      BY DEF Messages
    <3>2. /\ Len(wire') = Len(wire) + 1 /\ Len(wire) \in Nat
          /\ wire'[Len(wire) + 1] = <<n>>
          /\ \A i \in 1..Len(wire) : wire'[i] = wire[i]
      BY <1>1, <2>2, <3>1, Appended
    <3>3. \A i \in 1..Len(wire') : i = Len(wire) + 1 \/ i \in 1..Len(wire)
      BY <3>2
    <3> QED BY <3>1, <3>2, <3>3
  <2> QED BY <2>1, <2>2 DEF Cancel, ServerCancel, Notices
<1>5. \A i \in 1..Len(wire') :
        \/ wire'[i][1] \in Tasks => Reported(wire[i][1])'
        \/ \E j \in 1..Len(wire) : wire[j] = wire'[i]
        \/ \E j \in 1..Len(queue) : queue[j] = wire'[i]
  BY <1>4, RpcAssumption
<1> QED BY <1>2, <1>3, <1>5, SourcedFrom DEF MapSame, QueueSame

LEMMA SourcedStep ==
  ASSUME Sourced, CallsInv, [Next]_vars PROVE Sourced'
<1> USE DEF CallsInv
<1>1. \A t \in Tasks : Reported(t) => Reported(t)'
  BY ReportedStays
<1>2. ASSUME UNCHANGED <<wire, queue>>, MapSame PROVE Sourced'
  BY <1>1, <1>2, QueueKept, SourcedFrom DEF QueueSame, MapSame
<1>3. CASE UNCHANGED vars
  BY <1>2, <1>3, MapKept DEF vars, serverVars
<1>4. CASE Call
  <2>1. CASE ConConnect \/ EndReject \/ \E w \in Puts : Put(w)
    BY <1>2, <2>1, MapKept DEF ConConnect, EndReject, Put, serverVars
  <2>2. CASE \E g \in Gets : Get(g)
    BY <1>2, <2>2, MapKept, TasksOf, Declared DEF Get, serverVars
  <2>3. CASE \E d \in Deletes : Delete(d)
    BY <1>2, <2>3, MapKept, TasksOf, Declared DEF Delete, Map!Delete, serverVars
  <2> QED BY <1>4, <2>1, <2>2, <2>3 DEF Call
<1>5. CASE Microtask
  <2>1. CASE ConAssert \/ EndMicrotask \/ \E g \in Gets : FinishGet(g)
    BY <1>2, <2>1, MapKept DEF ConAssert, EndMicrotask, EndReturn, EndResume, FinishGet,
       serverVars
  <2>2. CASE DoResolve
    BY <1>2, <2>2, MapKept DEF DoResolve, serverVars
  <2>3. CASE \E w \in Puts : PutMicrotask(w)
    BY <1>2, <2>3, MapKept DEF PutMicrotask, PutAssert, FinishPut, CutGranted, serverVars
  <2> QED BY <1>5, <2>1, <2>2, <2>3 DEF Microtask
<1>6. CASE Event
  <2>1. CASE Consume \/ Cancel \/ ServerCancel
    BY <1>1, <2>1, ServerSourced
  <2>2. CASE Hear
    BY <1>1, <2>2, HearSourced
  <2>3. CASE Created \/ \E w \in Puts : Cut(w)
    BY <1>2, <2>3, MapKept DEF Created, Cut, serverVars
  <2>4. ASSUME NEW w \in Puts, PutSend(w) PROVE Sourced'
    <3>1. TaskOf[w] \in Tasks /\ sends'[w] > 0
      BY <2>4, TasksOf, Declared DEF PutSend, Types
    <3>2. Reported(TaskOf[w])'
      BY <3>1 DEF Reported, Delivered
    <3> QED BY <1>1, <2>4, <3>1, <3>2, ArriveSourced DEF PutSend
  <2>5. ASSUME NEW t \in Tasks, WorkerReport(t) PROVE Sourced'
    <3>1. reports'[t] > 0
      BY <2>5, Declared DEF WorkerReport, Types
    <3>2. Reported(t)'
      BY <3>1 DEF Reported
    <3> QED BY <1>1, <2>5, <3>2, ArriveSourced DEF WorkerReport
  <2>6. CASE \E t \in Tasks : Evict(t)
    BY <1>2, <2>6, MapKept DEF Evict, Map!TimerFire, serverVars
  <2> QED BY <1>6, <2>1, <2>2, <2>3, <2>4, <2>5, <2>6 DEF Event, Due, PutEvent
<1>7. CASE EndDestroy \/ EndClose
  BY <1>2, <1>7, MapKept DEF EndDestroy, EndClose, serverVars
<1> QED BY <1>3, <1>4, <1>5, <1>6, <1>7 DEF Next
-----------------------------------------------------------------------------
(* The steps of the service                                                *)

Outcomes == [c \in Ops |-> Outcome(c)]
Using == {w \in Puts : call[w] = "holding"}
Reports == [t \in Tasks |-> IF Reported(t) THEN {"value"} ELSE {}]

\* What the service sees of a call.
LEMMA OutcomeOf ==
  /\ \A c \in Ops :
       /\ op[c] = "idle" => Outcome(c) = "unmade"
       /\ op[c] \in Sending \union {"connecting", "awaiting"} => Outcome(c) = "pending"
       /\ op[c] = "cut" => Outcome(c) = "rejected"
       /\ op[c] = "done" => Outcome(c) = IF c \in Gets THEN result[c] ELSE "resolved"
  /\ \A c \in Ops :
       /\ op'[c] = "idle" => Outcome(c)' = "unmade"
       /\ op'[c] \in Sending \union {"connecting", "awaiting"} => Outcome(c)' = "pending"
       /\ op'[c] = "cut" => Outcome(c)' = "rejected"
       /\ op'[c] = "done" => Outcome(c)' = IF c \in Gets THEN result'[c] ELSE "resolved"
BY DEF Outcome, Sending

\* A call changes its own outcome only.
LEMMA OutcomesStep ==
  ASSUME NEW c \in Ops, \A b \in Ops \ {c} : op'[b] = op[b],
         \A g \in Gets \ {c} : result'[g] = result[g]
  PROVE  Outcomes' = [Outcomes EXCEPT ![c] = Outcome(c)']
<1>1. \A b \in Ops \ {c} : Outcome(b)' = Outcome(b)
  BY DEF Outcome
<1> QED BY <1>1 DEF Outcomes

LEMMA OutcomesSame == ASSUME UNCHANGED <<op, result>> PROVE Outcomes' = Outcomes
BY DEF Outcomes, Outcome

LEMMA ReportsSame == ASSUME UNCHANGED <<reports, sends>> PROVE Reports' = Reports
BY DEF Reports, Reported, Delivered

\* What is learned of a task is all that changes.
LEMMA ReportsStep ==
  ASSUME NEW t \in Tasks, Reported(t)',
         \A u \in Tasks \ {t} : Reported(u)' <=> Reported(u)
  PROVE  Reports' = [Reports EXCEPT ![t] = @ \union {"value"}]
BY DEF Reports

LEMMA ClosingSame ==
  ASSUME UNCHANGED ending \/ (ending # "closed" /\ ending' # "closed"),
         destroying'["end"] = destroying["end"]
  PROVE  Closing' = Closing
BY DEF Closing

\* The barred variables of the contract.
contract == <<Outcomes, Using, Delivered, Reports, Closing>>

LEMMA ContractVars ==
  /\ UNCHANGED contract => UNCHANGED Service!contractVars
  /\ Service!Requests = Ops
BY DEF Service!contractVars, contract, Outcomes, Using, Reports, Service!Requests, Ops

LEMMA ServiceSteps ==
  ASSUME \/ \E c \in Ops : Service!Make(c) \/ Service!Begin(c)
         \/ \E g \in Gets : Service!RejectGet(g) \/ Service!ResolveGet(g, "value")
         \/ \E d \in Deletes : Service!ResolveDelete(d)
         \/ \E w \in Puts : \/ Service!ResolvePut(w) \/ Service!RejectPut(w)
                            \/ Service!Deliver(w, "value")
         \/ \E t \in Tasks : Service!Report(t, "value")
         \/ Service!End \/ Service!Close
  PROVE  Service!Next
BY ContractVars DEF Service!Next

\* Steps that do not show.
LEMMA QuietService ==
  ASSUME UNCHANGED <<op, result, reports, sends>>,
         \A w \in Puts : call'[w] = "holding" <=> call[w] = "holding",
         Closing' = Closing
  PROVE  UNCHANGED contract
BY OutcomesSame, ReportsSame DEF contract, Using, Delivered

LEMMA GetService ==
  ASSUME CallsInv, ServiceInv, NEW g \in Gets, Get(g) \/ FinishGet(g) PROVE Service!Next
<1> USE Declared DEF CallsInv, Types
<1>1. g \in Ops /\ g \notin Puts /\ TaskOf[g] \in Tasks
  BY TasksOf, RpcAssumption
<1>2. /\ \A b \in Ops \ {g} : op'[b] = op[b]
      /\ \A b \in Gets \ {g} : result'[b] = result[b]
      /\ UNCHANGED <<poolVars, sends, reports, ending>>
  BY DEF Get, FinishGet, Goto, serverVars, Results
<1>3. Outcomes' = [Outcomes EXCEPT ![g] = Outcome(g)']
  BY <1>1, <1>2, OutcomesStep
<1>4. UNCHANGED <<Using, Delivered, Reports, Closing>>
  BY <1>2, ReportsSame, ClosingSame DEF poolVars, Using, Delivered
<1>5. g \notin Using /\ Using' = Using \ {g}
  BY <1>1, <1>4 DEF Using
<1>6. CASE Get(g)
  <2>1. Outcomes[g] = "unmade" /\ Outcome(g)' = "pending"
    BY <1>1, <1>6, OutcomeOf DEF Get, Goto, Outcomes
  <2>2. Service!Make(g)
    BY <1>3, <1>4, <2>1 DEF Service!Make, Outcomes, Using, Reports
  <2> QED BY <1>1, <2>2, ServiceSteps
<1>7. CASE FinishGet(g)
  <2>1. /\ Outcomes[g] = "pending" /\ Outcome(g)' = result'[g]
        /\ result'[g] = IF pstate[heard[g]] = "fulfilled" THEN value[heard[g]] ELSE "rejected"
    BY <1>1, <1>7, OutcomeOf DEF FinishGet, Goto, Outcomes, Results
  <2>2. heard[g] \in Promises /\ keyOf[heard[g]] = TaskOf[g] /\ value[heard[g]] = "value"
    BY <1>7 DEF FinishGet, WaitInv, Waiting, AwaitsItsTask, Plain
  <2>3. CASE pstate[heard[g]] = "fulfilled"
    <3>1. Reported(TaskOf[g])
      BY <2>2, <2>3 DEF ServiceInv, Sourced, Taken
    <3>2. "value" \in Reports[TaskOf[g]]
      BY <1>1, <3>1 DEF Reports
    <3>3. Service!ResolveGet(g, "value")
      BY <1>3, <1>4, <1>5, <2>1, <2>2, <2>3, <3>2
         DEF Service!ResolveGet, Service!Settle, Outcomes, Using, Reports
    <3> QED BY <3>3, ServiceSteps
  <2>4. CASE pstate[heard[g]] # "fulfilled"
    <3>1. Service!RejectGet(g)
      BY <1>3, <1>4, <1>5, <2>1, <2>4
         DEF Service!RejectGet, Service!Settle, Outcomes, Using, Reports
    <3> QED BY <3>1, ServiceSteps
  <2> QED BY <2>3, <2>4
<1> QED BY <1>6, <1>7

LEMMA DeleteService ==
  ASSUME CallsInv, NEW d \in Deletes, Delete(d) PROVE Service!Next
<1> USE Declared DEF CallsInv, Types
<1>1. d \in Ops /\ d \notin Puts /\ d \notin Gets
  BY RpcAssumption
<1>2. /\ \A b \in Ops \ {d} : op'[b] = op[b]
      /\ UNCHANGED <<poolVars, result, sends, reports, ending>>
  BY DEF Delete, Goto, serverVars
<1>3. Outcomes' = [Outcomes EXCEPT ![d] = Outcome(d)']
  BY <1>1, <1>2, OutcomesStep
<1>4. UNCHANGED <<Using, Delivered, Reports, Closing>>
  BY <1>2, ReportsSame, ClosingSame DEF poolVars, Using, Delivered
<1>5. Using' = Using \ {d}
  BY <1>1, <1>4 DEF Using
<1>6. Outcomes[d] = "unmade" /\ Outcome(d)' = "resolved"
  BY <1>1, OutcomeOf DEF Delete, Goto, Outcomes
<1>7. Service!ResolveDelete(d)
  BY <1>3, <1>4, <1>5, <1>6 DEF Service!ResolveDelete, Service!Settle, Outcomes, Using, Reports
<1> QED BY <1>7, ServiceSteps

-----------------------------------------------------------------------------
\* When the last user of the pool gives its channel back, the destroyAll() that
\* awaits this goes on.
LEMMA ReturnNotifies ==
  ASSUME Proved!Inv, NEW c \in Puts \union {Con}, Pool!Return(c)
  PROVE  \/ destroying'["end"] = destroying["end"]
         \/ /\ destroying["end"] = "awaitEmpty" /\ destroying'["end"] = "notified"
            /\ inUse' = {}
<1>1. CASE Pool!ReturnToWaiter(c)
  BY <1>1 DEF Pool!ReturnToWaiter
<1>2. CASE Pool!ReturnToUnused(c)
  BY <1>2 DEF Pool!ReturnToUnused, Pool!NotifyIfEmpty
<1> QED BY <1>1, <1>2 DEF Pool!Return

LEMMA PutService ==
  ASSUME CallsInv, CallsInv', ServiceInv, NEW w \in Puts,
         Put(w) \/ PutMicrotask(w) \/ PutEvent(w)
  PROVE  Service!Next
<1> USE Declared DEF CallsInv, Types, IInv, Sending
<1>1. w \in Ops /\ w \notin Gets /\ TaskOf[w] \in Tasks
  BY TasksOf, RpcAssumption
<1>2. /\ \A b \in Ops \ {w} : op'[b] = op[b]
      /\ UNCHANGED <<result, reports, ending>>
  BY DEF Put, PutMicrotask, PutAssert, FinishPut, CutGranted, PutEvent, PutSend, Cut, Goto,
     serverVars
<1>3. Outcomes' = [Outcomes EXCEPT ![w] = Outcome(w)']
  BY <1>1, <1>2, OutcomesStep
<1>4. /\ \A v \in Puts : v \in Using <=> op[v] \in Sending
      /\ \A v \in Puts : v \in Using' <=> op'[v] \in Sending
      /\ Using \subseteq Puts /\ Using' \subseteq Puts
  BY DEF Using, PutsInv, PutOwns
<1>5. ~PutSend(w) => UNCHANGED <<Delivered, Reports>>
  BY <1>2, ReportsSame DEF Delivered, Put, PutMicrotask, PutAssert, FinishPut, CutGranted,
     PutEvent, Cut
<1>6. destroying'["end"] = destroying["end"] => Closing' = Closing
  BY <1>2, ClosingSame
<1>7. CASE Put(w)
  <2>1. op[w] = "idle" /\ op'[w] = "connecting" /\ destroying' = destroying
    BY <1>1, <1>7, PoolEffect DEF Put, Goto
  <2>2. Outcomes[w] = "unmade" /\ Outcome(w)' = "pending"
    BY <1>1, <2>1, OutcomeOf DEF Outcomes
  <2>3. Using' = Using
    BY <1>2, <1>4, <2>1
  <2>4. ~PutSend(w)
    BY <2>1 DEF PutSend
  <2>5. Service!Make(w)
    BY <1>3, <1>5, <1>6, <2>1, <2>2, <2>3, <2>4
       DEF Service!Make, Outcomes, Using, Reports
  <2> QED BY <1>1, <2>5, ServiceSteps
<1>8. CASE PutAssert(w) \/ CutGranted(w)
  <2>1. op[w] = "connecting" /\ op'[w] = "asserting" /\ destroying' = destroying
    BY <1>1, <1>8, PoolEffect DEF PutAssert, CutGranted, Goto
  <2>2. Outcomes[w] = "pending" /\ Outcome(w)' = "pending"
    BY <1>1, <2>1, OutcomeOf DEF Outcomes
  <2>3. Outcomes' = Outcomes
    BY <1>1, <1>3, <2>2 DEF Outcomes
  <2>4. Using' = Using \union {w}
    BY <1>2, <1>4, <2>1
  <2>5. ~PutSend(w)
    BY <2>1 DEF PutSend
  <2>6. Service!Begin(w)
    BY <1>5, <1>6, <2>1, <2>2, <2>3, <2>4, <2>5
       DEF Service!Begin, Outcomes, Using, Reports
  <2> QED BY <1>1, <2>6, ServiceSteps
<1>9. CASE PutSend(w)
  <2>1. op[w] \in {"asserting", "draining"} /\ op'[w] \in {"draining", "sent"}
    BY <1>1, <1>9 DEF PutSend, Goto
  <2>2. Outcomes[w] = "pending" /\ Outcome(w)' = "pending"
    BY <1>1, <2>1, OutcomeOf DEF Outcomes
  <2>3. Outcomes' = Outcomes
    BY <1>1, <1>3, <2>2 DEF Outcomes
  <2>4. w \in Using /\ UNCHANGED <<Using, destroying>>
    BY <1>4, <1>9, <2>1 DEF PutSend, poolVars, Using
  <2>5. sends'[w] > 0 /\ \A v \in Puts \ {w} : sends'[v] = sends[v]
    BY <1>9 DEF PutSend
  <2>6. Delivered' = Delivered \union {w}
    BY <2>5 DEF Delivered
  <2>7. Reports' = [Reports EXCEPT ![TaskOf[w]] = @ \union {"value"}]
    <3>1. Reported(TaskOf[w])'
      BY <2>6 DEF Reported
    <3>2. \A u \in Tasks \ {TaskOf[w]} : Reported(u)' <=> Reported(u)
      BY <1>2, <2>6 DEF Reported
    <3> QED BY <1>1, <3>1, <3>2, ReportsStep
  <2>8. Closing # "closed"
    BY <1>9 DEF PutSend, Closing
  <2>9. Service!Deliver(w, "value")
    BY <1>6, <2>3, <2>4, <2>6, <2>7, <2>8
       DEF Service!Deliver, Service!Learn, Outcomes, Using, Reports
  <2> QED BY <2>9, ServiceSteps
<1>10. CASE FinishPut(w) \/ Cut(w)
  <2>1. /\ op[w] # "idle" /\ op[w] \in Sending \union {"connecting"}
        /\ op'[w] = IF FinishPut(w) THEN "done" ELSE "cut"
    BY <1>1, <1>10 DEF FinishPut, Cut, Goto
  <2>2. /\ Outcomes[w] = "pending"
        /\ Outcome(w)' = IF FinishPut(w) THEN "resolved" ELSE "rejected"
    BY <1>1, <2>1, OutcomeOf DEF Outcomes
  <2>3. Using' = Using \ {w}
    BY <1>2, <1>4, <2>1
  <2>4. ~PutSend(w)
    BY <2>1 DEF PutSend, Goto
  <2>5. \/ destroying'["end"] = destroying["end"]
        \/ /\ destroying["end"] = "awaitEmpty" /\ destroying'["end"] = "notified"
           /\ inUse' = {}
    BY <1>10, PoolEffect, ReturnNotifies DEF FinishPut, Cut
  <2>6. Closing' = Closing \/ (Closing = "draining" /\ Using' = {} /\ Closing' = "drained")
    <3>1. inUse' = {} => Using' = {}
      BY EmptyMeansSentAfter DEF Using
    <3>2. CASE ending = "closed"
      BY <1>2, <3>2 DEF Closing
    <3>3. CASE ending # "closed"
      BY <1>2, <1>6, <2>5, <3>1, <3>3 DEF Closing
    <3> QED BY <3>2, <3>3
  <2>7. CASE FinishPut(w)
    <3>1. w \in Delivered
      BY <2>7 DEF FinishPut, ServiceInv, SentFirst, Delivered
    <3>2. Service!ResolvePut(w)
      BY <1>3, <1>5, <2>2, <2>3, <2>4, <2>6, <2>7, <3>1
         DEF Service!ResolvePut, Service!Settle, Outcomes, Using, Reports
    <3> QED BY <3>2, ServiceSteps
  <2>8. CASE ~FinishPut(w)
    <3>0. ending = "closed"
      BY <1>10, <2>8 DEF Cut
    <3>1. Closing = "closed"
      BY <3>0 DEF Closing
    <3>2. Service!RejectPut(w)
      BY <1>3, <1>5, <2>2, <2>3, <2>4, <2>6, <2>8, <3>1
         DEF Service!RejectPut, Service!Settle, Outcomes, Using, Reports
    <3> QED BY <3>2, ServiceSteps
  <2> QED BY <2>7, <2>8
<1> QED BY <1>7, <1>8, <1>9, <1>10 DEF PutMicrotask, PutEvent
-----------------------------------------------------------------------------
\* end() waits for those who have a channel: nobody else has one by then, as
\* the constructor has put its own back.
LEMMA DestroyService ==
  ASSUME CallsInv, CallsInv', ServiceInv, EndDestroy PROVE Service!Next
<1> USE DEF CallsInv, Types, IInv
<1>0. destroying \in [{"end"} -> Proved!CloserStates]
  BY DEF Proved!Inv, Proved!TypeOK
<1>1. UNCHANGED <<op, result, reports, sends, call>>
  BY DEF EndDestroy, Pool!DestroyNow, Pool!DestroyLater, Pool!Collect, Pool!callVars,
     callVars, serverVars
<1>2. UNCHANGED <<Outcomes, Using, Delivered, Reports>>
  BY <1>1, OutcomesSame, ReportsSame DEF Using, Delivered
<1>3. ending = "returned" /\ ending' = "destroying" /\ destroying["end"] = "idle"
  BY DEF EndDestroy, DestroyedByEnd
<1>4. Closing = "open"
  BY <1>3 DEF Closing
<1>5. Using = {} <=> inUse = {}
  <2>1. call[Con] # "holding"
    BY <1>3 DEF ServiceInv, ConGone
  <2>2. inUse = {got[c] : c \in {b \in Puts \union {Con} : call[b] = "holding"}}
    BY DEF Proved!Inv, Proved!Custody, Proved!InUseExact
  <2> QED BY <2>1, <2>2 DEF Using
<1>6. Closing' = IF Using = {} THEN "drained" ELSE "draining"
  <2>1. CASE Pool!DestroyNow("end")
    <3>1. inUse = {} /\ destroying'["end"] = "done"
      BY <1>0, <2>1 DEF Pool!DestroyNow, Pool!Collect
    <3> QED BY <1>3, <1>5, <3>1 DEF Closing
  <2>2. CASE Pool!DestroyLater("end")
    <3>1. inUse # {} /\ destroying'["end"] = "awaitEmpty"
      BY <1>0, <2>2 DEF Pool!DestroyLater
    <3> QED BY <1>3, <1>5, <3>1 DEF Closing
  <2> QED BY <2>1, <2>2 DEF EndDestroy
<1>7. Service!End
  BY <1>2, <1>4, <1>6 DEF Service!End, Outcomes, Using, Reports
<1> QED BY <1>7, ServiceSteps

LEMMA CloseService ==
  ASSUME CallsInv, EndClose PROVE Service!Next
<1>1. UNCHANGED <<Outcomes, Using, Delivered, Reports>>
  BY OutcomesSame, ReportsSame DEF EndClose, callVars, serverVars, poolVars, Using, Delivered
<1>2. Closing = "drained" /\ Closing' = "closed"
  BY DEF EndClose, DestroyDone, Closing
<1>3. Service!Close
  BY <1>1, <1>2 DEF Service!Close, Outcomes, Using, Reports
<1> QED BY <1>3, ServiceSteps

\* What the constructor, the rest of end(), the map and the server do does not
\* show.
LEMMA OthersService ==
  ASSUME CallsInv,
         \/ ConConnect \/ ConAssert \/ EndReject \/ EndReturn \/ EndResume \/ Created
         \/ DoResolve \/ Consume \/ Cancel \/ Hear \/ ServerCancel
         \/ \E t \in Tasks : Evict(t)
  PROVE  UNCHANGED contract
<1> USE DEF CallsInv, Types, IInv
<1>0. destroying \in [{"end"} -> Proved!CloserStates]
  BY DEF Proved!Inv, Proved!TypeOK
<1>1. UNCHANGED <<op, result, reports, sends>>
  BY DEF ConConnect, ConAssert, EndReject, EndReturn, EndResume, Created, DoResolve,
     Consume, Cancel, Hear, ConsumeOk, OnMessage, OnCancel, CancelOk, ServerCancel, Evict,
     callVars, serverVars
<1>2. UNCHANGED ending \/ (ending # "closed" /\ ending' # "closed")
  <2>1. CASE CancelOk
    <3>1. Head(wire) = wire[1] /\ 1 \in 1..Len(wire)
      BY <2>1 DEF CancelOk, NoticesInOrder
    <3>2. ending = "cancelling"
      BY <2>1, <3>1 DEF CancelOk, NoticesInOrder
    <3> QED BY <2>1, <3>2 DEF CancelOk
  <2>2. CASE ~CancelOk
    BY <2>2 DEF ConConnect, ConAssert, EndReject, EndReturn, CancelDone, EndResume, Created,
       DoResolve, Consume, Cancel, Hear, ConsumeOk, OnMessage, OnCancel, ServerCancel, Evict
  <2> QED BY <2>1, <2>2
<1>3. CASE UNCHANGED poolVars
  BY <1>1, <1>2, <1>3, ClosingSame, QuietService DEF poolVars
<1>4. CASE ConConnect \/ ConAssert \/ Created
  <2>1. /\ \A w \in Puts : call'[w] = call[w] \/ (call[w] \in Connecting /\ call'[w] \in Connecting)
        /\ destroying' = destroying
    <3>1. Con \notin Puts
      BY RpcAssumption DEF Ops
    <3>2. CASE ConConnect \/ ConAssert
      BY <3>1, <3>2, PoolEffect DEF ConConnect, ConAssert
    <3>3. CASE Created
      <4>1. PICK c \in Puts \union {Con} : Pool!CreateOk(c)
        BY <3>3 DEF Created
      <4> QED BY <4>1, PoolEffect DEF Connecting
    <3> QED BY <1>4, <3>2, <3>3
  <2> QED BY <1>1, <1>2, <2>1, ClosingSame, QuietService DEF Connecting
<1>5. CASE EndReturn
  <2>1. Pool!Return(Con) /\ destroying["end"] = "idle"
    BY <1>5 DEF EndReturn, CancelDone, DestroyedByEnd
  <2>2. /\ \A w \in Puts : call'[w] = call[w] \/ (call[w] = "waiting" /\ call'[w] = "granted")
        /\ destroying'["end"] = destroying["end"]
    BY <2>1, PoolEffect, ReturnNotifies, RpcAssumption DEF Ops
  <2> QED BY <1>1, <1>2, <2>2, ClosingSame, QuietService
<1>6. CASE EndResume
  <2>1. /\ destroying["end"] = "notified" /\ destroying'["end"] = "done"
        /\ UNCHANGED <<call, ending>>
    BY <1>0, <1>6 DEF EndResume, Pool!DestroyResume, Pool!Collect, Pool!callVars
  <2>2. Closing' = Closing
    BY <2>1 DEF Closing
  <2> QED BY <1>1, <2>1, <2>2, QuietService
<1> QED BY <1>3, <1>4, <1>5, <1>6 DEF EndReject, DoResolve, Consume, Cancel, Hear,
       ConsumeOk, OnMessage, OnCancel, CancelOk, ServerCancel, Evict

\* A worker's report is a result learned.
LEMMA WorkerService ==
  ASSUME CallsInv, NEW t \in Tasks, WorkerReport(t) PROVE Service!Next
<1>1. UNCHANGED <<op, result, sends, call, destroying, ending>>
  BY DEF WorkerReport, callVars, poolVars
<1>2. UNCHANGED <<Outcomes, Using, Delivered, Closing>>
  BY <1>1, OutcomesSame, ClosingSame DEF Using, Delivered
<1>3. Reports' = [Reports EXCEPT ![t] = @ \union {"value"}]
  <2>1. reports'[t] > 0 /\ \A u \in Tasks \ {t} : reports'[u] = reports[u]
    BY Declared DEF WorkerReport, CallsInv, Types
  <2>2. Reported(t)' /\ \A u \in Tasks \ {t} : Reported(u)' <=> Reported(u)
    BY <1>2, <2>1 DEF Reported
  <2> QED BY <2>2, ReportsStep
<1>4. Service!Report(t, "value")
  BY <1>2, <1>3 DEF Service!Report, Service!Learn, Outcomes, Using, Reports
<1> QED BY <1>4, ServiceSteps
-----------------------------------------------------------------------------
LEMMA SentFirstStep ==
  ASSUME CallsInv, SentFirst, [Next]_vars PROVE SentFirst'
<1> USE Declared DEF CallsInv, Types, SentFirst
<1>1. ASSUME UNCHANGED sends, \A w \in Puts : op'[w] = op[w] \/ op'[w] \notin {"draining", "sent"}
      PROVE  SentFirst'
  BY <1>1
<1>2. CASE UNCHANGED vars
  BY <1>1, <1>2 DEF vars, callVars
<1>3. CASE Call
  BY <1>1, <1>3 DEF Call, ConConnect, EndReject, Get, Delete, Put, Goto, callVars
<1>4. CASE Microtask
  BY <1>1, <1>4 DEF Microtask, ConAssert, DoResolve, EndMicrotask, EndReturn, EndResume,
     FinishGet, PutMicrotask, PutAssert, FinishPut, CutGranted, Goto, callVars
<1>5. CASE Event
  <2>1. CASE Consume \/ Cancel \/ Hear \/ Created \/ ServerCancel
               \/ \E t \in Tasks : WorkerReport(t) \/ Evict(t)
    BY <1>1, <2>1 DEF Consume, Cancel, Hear, ConsumeOk, OnMessage, OnCancel, CancelOk,
       Created, ServerCancel, WorkerReport, Evict, callVars
  <2>2. ASSUME NEW w \in Puts, PutSend(w) PROVE SentFirst'
    <3>1. sends' = [sends EXCEPT ![w] = @ + 1] /\ \A v \in Puts \ {w} : op'[v] = op[v]
      BY <2>2 DEF PutSend, Goto
    <3>2. sends'[w] > 0
      BY <3>1
    <3> QED BY <3>1, <3>2
  <2>3. CASE \E w \in Puts : Cut(w)
    BY <1>1, <2>3 DEF Cut, Goto
  <2> QED BY <1>5, <2>1, <2>2, <2>3 DEF Event, Due, PutEvent
<1>6. CASE EndDestroy \/ EndClose
  BY <1>1, <1>6 DEF EndDestroy, EndClose, callVars
<1> QED BY <1>2, <1>3, <1>4, <1>5, <1>6 DEF Next

\* The constructor's chain makes one get(), and end() comes after it.
LEMMA ConGoneStep ==
  ASSUME CallsInv, ConGone, [Next]_vars PROVE ConGone'
<1> USE DEF CallsInv, IInv, ConGone
<1>0. Con \notin Puts /\ call \in [Puts \union {Con} -> Proved!CallStates]
  BY RpcAssumption DEF Ops, Proved!Inv, Proved!TypeOK
<1>1. ASSUME UNCHANGED call, UNCHANGED ending \/ ending \in {"returned", "destroying"}
      PROVE  ConGone'
  BY <1>1
<1>2. CASE ConConnect \/ ConAssert
  BY <1>2 DEF ConConnect, ConAssert, EndAfterCon
<1>3. ASSUME NEW c \in Puts, Pool!Get(c) \/ Pool!CreateFail(c) \/ Pool!Acquire(c) \/
               Pool!Return(c), UNCHANGED ending
      PROVE  ConGone'
  <2>1. call[Con] = "idle" => call'[Con] = "idle"
    <3>1. CASE Pool!ReturnToWaiter(c)
      BY <1>0, <3>1, HeadWaits DEF Pool!ReturnToWaiter, Pool!SomeoneWaits
    <3>2. CASE Pool!ReturnToUnused(c)
      BY <1>0, <3>2 DEF Pool!ReturnToUnused
    <3>3. CASE Pool!Get(c) \/ Pool!CreateFail(c) \/ Pool!Acquire(c)
      BY <1>0, <3>3 DEF Pool!Get, Pool!GetUnused, Pool!GetCreate, Pool!GetWait,
         Pool!CreateFail, Pool!Acquire
    <3> QED BY <1>3, <3>1, <3>2, <3>3 DEF Pool!Return
  <2> QED BY <1>3, <2>1
<1>4. CASE Created
  BY <1>0, <1>4 DEF Created, Pool!CreateOk
<1>5. CASE EndReturn
  <2>1. call'[Con] = "idle"
    <3>1. CASE Pool!ReturnToWaiter(Con)
      BY <1>0, <3>1, HeadWaits DEF Pool!ReturnToWaiter, Pool!SomeoneWaits
    <3>2. CASE Pool!ReturnToUnused(Con)
      BY <1>0, <3>2 DEF Pool!ReturnToUnused
    <3> QED BY <1>5, <3>1, <3>2 DEF EndReturn, Pool!Return
  <2> QED BY <2>1
<1>6. CASE EndDestroy \/ EndClose \/ EndResume
  BY <1>1, <1>6 DEF EndDestroy, EndClose, EndResume, Pool!DestroyNow, Pool!DestroyLater,
     Pool!DestroyResume, Pool!Collect, Pool!callVars, poolVars
<1>7. CASE UNCHANGED vars \/ EndReject \/ DoResolve \/ Consume \/ Cancel \/ Hear
             \/ ServerCancel
             \/ (\E g \in Gets : Get(g) \/ FinishGet(g)) \/ (\E d \in Deletes : Delete(d))
             \/ (\E w \in Puts : PutSend(w)) \/ \E t \in Tasks : WorkerReport(t) \/ Evict(t)
  <2>1. UNCHANGED call
    BY <1>7 DEF vars, EndReject, DoResolve, Consume, Cancel, Hear, ConsumeOk, OnMessage,
       OnCancel, CancelOk, ServerCancel, Get, FinishGet, Delete, PutSend, WorkerReport,
       Evict, poolVars
  <2>2. UNCHANGED ending \/ ending' \in {"cancelling", "cancelled"}
    BY <1>7 DEF vars, EndReject, DoResolve, Consume, Cancel, Hear, ConsumeOk, OnMessage,
       OnCancel, CancelOk, ServerCancel, Get, FinishGet, Delete, PutSend, WorkerReport,
       Evict
  <2> QED BY <2>1, <2>2
<1>8. CASE \E w \in Puts : Put(w) \/ PutMicrotask(w) \/ Cut(w)
  BY <1>3, <1>8 DEF Put, PutMicrotask, PutAssert, FinishPut, CutGranted, Cut
<1> QED BY <1>2, <1>4, <1>5, <1>6, <1>7, <1>8
        DEF Next, Call, Microtask, EndMicrotask, Event, Due, PutEvent

LEMMA InitServiceInv == Init => ServiceInv
<1> SUFFICES ASSUME Init PROVE ServiceInv
  OBVIOUS
<1>1. Sourced
  BY DEF Init, Map!Init, Sourced, Taken
<1> QED BY <1>1, Declared DEF Init, ServiceInv, SentFirst, ConGone

LEMMA NextServiceInv ==
  ASSUME CallsInv, ServiceInv, [Next]_vars PROVE ServiceInv'
BY SourcedStep, SentFirstStep, ConGoneStep DEF ServiceInv

LEMMA InitService == Init => Service!Init
<1> SUFFICES ASSUME Init PROVE Service!Init
  OBVIOUS
<1>1. \A c \in Ops : Outcome(c) = "unmade"
  BY DEF Init, Outcome
<1>2. Delivered = {} /\ \A t \in Tasks : ~Reported(t)
  BY DEF Init, Delivered, Reported
<1>3. \A w \in Puts : call[w] # "holding"
  BY Declared DEF Init, Pool!Init
<1>4. Closing = "open"
  BY DEF Init, Pool!Init, Closing
<1> QED BY <1>1, <1>2, <1>3, <1>4 DEF Service!Init, Service!Requests, Ops

LEMMA NextService ==
  ASSUME CallsInv, CallsInv', ServiceInv, [Next]_vars
  PROVE  [Service!Next]_(Service!contractVars)
<1>1. CASE UNCHANGED vars
  <2>1. UNCHANGED <<op, result, reports, sends, call, ending, destroying>>
    BY <1>1 DEF vars, poolVars, callVars, serverVars
  <2> QED BY <2>1, QuietService, ClosingSame, ContractVars
<1>2. CASE Call
  BY <1>2, GetService, DeleteService, PutService, OthersService, ContractVars DEF Call
<1>3. CASE Microtask
  BY <1>3, GetService, PutService, OthersService, ContractVars DEF Microtask, EndMicrotask
<1>4. CASE Event
  BY <1>4, PutService, OthersService, WorkerService, ContractVars DEF Event, Due
<1>5. CASE EndDestroy \/ EndClose
  BY <1>5, DestroyService, CloseService
<1> QED BY <1>1, <1>2, <1>3, <1>4, <1>5 DEF Next

\* The backend keeps what the interface promises: a get() is answered by results
\* reported on its own task, a put() resolves when its message was sent and is
\* rejected by a closed connection only, and end() closes the connection when
\* nobody has a channel any more.
THEOREM RpcImplementsService == Spec => ImplementsService
<1>1. Init => CallsInv /\ ServiceInv
  BY InitCallsInv, InitServiceInv
<1>2. CallsInv /\ ServiceInv /\ [Next]_vars => (CallsInv /\ ServiceInv)'
  BY NextCallsInv, NextServiceInv
<1>3. CallsInv /\ ServiceInv /\ CallsInv' /\ [Next]_vars =>
        [Service!Next]_(Service!contractVars)
  BY NextService
<1>4. Init => Service!Init
  BY InitService
<1> QED BY <1>1, <1>2, <1>3, <1>4, PTL DEF Spec, ImplementsService, Service!Spec

\* And its channels are passed round as PoolContract says.
THEOREM RpcPoolKeepsContract == Spec => Proved!ImplementsContract
<1>1. Init => Proved!Init
  BY DEF Init, Pool!Init, Proved!Init
<1>2. [Next]_vars => [Proved!Next]_(Proved!vars)
  BY PoolStep
<1>3. Spec => Proved!Spec
  BY <1>1, <1>2, PTL DEF Spec, Proved!Spec
<1> QED BY <1>3, PoolFits, Proved!PoolImplementsContract
=============================================================================

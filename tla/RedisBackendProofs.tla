------------------------- MODULE RedisBackendProofs --------------------------
(***************************************************************************)
(* Proofs about the connections of RedisBackend.  The backend uses its     *)
(* pool through get(), return() and destroyAll() only, so the invariant    *)
(* proved of the pool in ResourcePoolProofs is an invariant of the         *)
(* backend.  What is left to prove is when each call holds its connection, *)
(* and that the subscriber's is held as long as it is in subscriber mode.  *)
(***************************************************************************)
EXTENDS RedisBackend, FiniteSetTheorems, TLAPS

Proved == INSTANCE ResourcePoolProofs WITH
  Callers <- Ops \union {Sub}, Closers <- {"end"}, Resources <- Conns,
  MaxResources <- 2, CreateMayFail <- FALSE

Connecting == {"creating", "waiting", "granted"}
Working == {"asking", "replied", "awaiting"}
Messages == {<<"ack">>, <<"unack">>} \union (Tasks \X {"success", "other"})

OpsTyped == op \in [Ops -> OpStates] /\ late \subseteq Gets

\* A call waits for the pool, or has its connection, or has given it back.
OpsOwn ==
  \A o \in Ops :
    /\ op[o] = "connecting" <=> call[o] \in Connecting
    /\ call[o] = "holding" <=> op[o] \in Working /\ o \notin late
    /\ o \in late => op[o] \notin {"idle", "connecting"}

\* The subscriber has its connection, and end() has not put it back.
SubHolds ==
  sub \in {"subscribing", "confirmed", "listening"}
    /\ ending \in {"idle", "unsubscribing", "unsubscribed"} => call[Sub] = "holding"

\* end() begins when the subscriber listens.
EndAfterSub == ending # "idle" => sub = "listening"

\* Only the subscriber's connection is in subscriber mode, and only between
\* PSUBSCRIBE and PUNSUBSCRIBE.
PatternsLive ==
  patterns # {} =>
    /\ patterns = {got[Sub]}
    /\ sub \in {"subscribing", "confirmed", "listening"}
    /\ ending \in {"idle", "unsubscribing"}

\* Each acknowledgement is sent once.
AcksInOrder ==
  /\ wire \in Seq(Messages)
  /\ \A i \in 1..Len(wire) :
       /\ wire[i] = <<"ack">> =>
            /\ sub = "subscribing" /\ patterns # {}
            /\ \A j \in 1..Len(wire) : wire[j] = <<"ack">> => j = i
       /\ wire[i] = <<"unack">> =>
            /\ ending = "unsubscribing" /\ patterns = {}
            /\ \A j \in 1..Len(wire) : wire[j] = <<"unack">> => j = i

\* What concerns the calls, and what concerns the subscriber.
CallsRest == OpsTyped /\ OpsOwn
SubRest == SubHolds /\ EndAfterSub /\ PatternsLive /\ AcksInOrder

IInv == Proved!Inv /\ CallsRest /\ SubRest

-----------------------------------------------------------------------------
(* The pool is used as it is meant to be                                   *)

LEMMA PoolFits == Proved!PoolAssumption
<1>1. IsFiniteSet(Ops \union {Sub})
  BY BackendAssumption, FS_AddElement
<1>2. Proved!IsFiniteSet(Ops \union {Sub}) /\ Proved!IsFiniteSet(Conns)
  BY <1>1, BackendAssumption DEF IsFiniteSet, Proved!IsFiniteSet
<1>3. Proved!Cardinality(Conns) = Cardinality(Conns)
  BY DEF Cardinality, Proved!Cardinality, IsFiniteSet, Proved!IsFiniteSet
<1>4. Cardinality(Conns) \in Nat
  BY BackendAssumption, FS_CardinalityType
<1> QED BY <1>2, <1>3, <1>4, BackendAssumption DEF Proved!PoolAssumption

\* A step of the pool's own operations, for whoever makes it.
LEMMA PoolSteps ==
  ASSUME NEW c \in Ops \union {Sub},
         \/ Pool!Get(c) \/ Pool!CreateOk(c) \/ Pool!Acquire(c) \/ Pool!Return(c)
         \/ Pool!DestroyNow("end") \/ Pool!DestroyLater("end") \/ Pool!DestroyResume("end")
  PROVE  Proved!Next
<1>1. CASE Pool!Get(c)
  <2>1. Proved!Get(c)
    BY <1>1 DEF Pool!Get, Pool!GetUnused, Pool!GetCreate, Pool!GetWait, Pool!MayCreate,
       Pool!Counted, Pool!PushBack, Pool!poolVars, Pool!callVars, Pool!worldVars,
       Proved!Get, Proved!GetUnused, Proved!GetCreate, Proved!GetWait, Proved!MayCreate,
       Proved!Counted, Proved!PushBack, Proved!poolVars, Proved!callVars, Proved!worldVars
  <2> QED BY <2>1 DEF Proved!Next
<1>2. CASE Pool!CreateOk(c) \/ Pool!Acquire(c)
  <2>1. Proved!CreateOk(c) \/ Proved!Acquire(c)
    BY <1>2 DEF Pool!CreateOk, Pool!Acquire, Pool!poolVars, Pool!callVars,
       Pool!worldVars, Proved!CreateOk, Proved!Acquire, Proved!poolVars, Proved!callVars,
       Proved!worldVars
  <2> QED BY <2>1 DEF Proved!Next, Proved!Serve
<1>3. CASE Pool!Return(c)
  <2>1. Proved!Return(c)
    BY <1>3 DEF Pool!Return, Pool!ReturnToWaiter, Pool!ReturnToUnused, Pool!SomeoneWaits,
       Pool!ShiftWaiting, Pool!NotifyIfEmpty, Pool!PushUnused, Pool!poolVars,
       Pool!callVars, Pool!worldVars,
       Proved!Return, Proved!ReturnToWaiter, Proved!ReturnToUnused, Proved!SomeoneWaits,
       Proved!ShiftWaiting, Proved!NotifyIfEmpty, Proved!PushUnused, Proved!poolVars,
       Proved!callVars, Proved!worldVars
  <2> QED BY <2>1 DEF Proved!Next, Proved!Serve
<1>4. CASE Pool!DestroyNow("end") \/ Pool!DestroyLater("end") \/ Pool!DestroyResume("end")
  <2>1. Proved!Destroy("end")
    BY <1>4 DEF Pool!DestroyNow, Pool!DestroyLater, Pool!DestroyResume, Pool!Collect,
       Pool!ForgetUnused, Pool!ToSet, Pool!poolVars, Pool!callVars, Pool!worldVars,
       Proved!Destroy, Proved!DestroyNow, Proved!DestroyLater, Proved!DestroyResume,
       Proved!Collect, Proved!ForgetUnused, Proved!ToSet, Proved!poolVars,
       Proved!callVars, Proved!worldVars
  <2> QED BY <2>1 DEF Proved!Next
<1> QED BY <1>1, <1>2, <1>3, <1>4

LEMMA PoolStutters == ASSUME UNCHANGED poolVars PROVE UNCHANGED Proved!vars
BY DEF poolVars, Proved!vars, Proved!poolVars, Proved!callVars, Proved!worldVars

\* The actions of the backend by what they do to the pool.
GetsConnection(c) == Pool!Get(c) \/ Pool!CreateOk(c) \/ Pool!Acquire(c)
DestroysAll ==
  Pool!DestroyNow("end") \/ Pool!DestroyLater("end") \/ Pool!DestroyResume("end")

LEMMA GetsInOps == Gets \subseteq Ops /\ Deletes \subseteq Ops /\ Puts \subseteq Ops
BY DEF Ops

LEMMA PoolStep == ASSUME [Next]_vars PROVE [Proved!Next]_(Proved!vars)
<1>1. CASE UNCHANGED vars
  BY <1>1, PoolStutters DEF vars
<1>2. CASE SubStep
  BY <1>2, PoolSteps, PoolStutters DEF SubStep, SubConnect, SubSend, Psubscribed,
     Acknowledged, Attach, OnMessage, Unheard
<1>3. CASE EndStep
  BY <1>3, PoolSteps, PoolStutters DEF EndStep, EndUnsubscribe, Punsubscribed,
     Unacknowledged, EndReturn, EndDestroy, EndResume
<1>4. CASE Created \/ DoResolve \/ Evict \/ \E t \in Tasks : WorkerReport(t)
  BY <1>4, PoolSteps, PoolStutters DEF Created, DoResolve, Evict, WorkerReport
<1>5. CASE \E o \in Ops : OpStep(o)
  BY <1>5, PoolSteps, PoolStutters DEF OpStep, Call, Send, Answer, FinishReplied, Finish,
     GiveBack
<1>6. CASE \E g \in Gets : GetStep(g)
  BY <1>6, GetsInOps, PoolSteps, PoolStutters DEF GetStep, GetListening, GetAwait,
     FinishHeard, HearListening, IgnoreReplied, TimeOut, Finish, GiveBack
<1> QED BY <1>1, <1>2, <1>3, <1>4, <1>5, <1>6 DEF Next

LEMMA PoolInvStep == ASSUME IInv, [Next]_vars PROVE Proved!Inv'
BY PoolFits, PoolStep, Proved!NextInv DEF IInv, Proved!NextInv

\* Whoever heads the queue of the pool holds nothing.
LEMMA HeadWaits ==
  ASSUME Proved!Inv, waiting # <<>>
  PROVE  call[Head(waiting)] = "waiting"
<1>1. waiting \in Seq(Ops \union {Sub})
  BY DEF Proved!Inv, Proved!TypeOK
<1>2. 1 \in DOMAIN waiting /\ Head(waiting) = waiting[1]
  BY <1>1
<1>3. Head(waiting) \in Proved!ToSet(waiting)
  BY <1>2 DEF Proved!ToSet
<1> QED BY <1>3 DEF Proved!Inv, Proved!QueueExact

\* What an operation of the pool does to its caller and to the others: at most
\* one of those who wait gets a connection by it.
LEMMA PoolEffect ==
  ASSUME Proved!Inv, NEW c \in Ops \union {Sub}
  PROVE
    /\ Pool!Get(c) =>
         /\ call[c] = "idle" /\ call'[c] \in Connecting
         /\ \A b \in (Ops \union {Sub}) \ {c} : call'[b] = call[b] /\ got'[b] = got[b]
    /\ Pool!CreateOk(c) =>
         /\ call[c] = "creating" /\ call'[c] = "granted"
         /\ \A b \in (Ops \union {Sub}) \ {c} : call'[b] = call[b] /\ got'[b] = got[b]
    /\ Pool!Acquire(c) =>
         /\ call[c] = "granted" /\ call'[c] = "holding"
         /\ \A b \in (Ops \union {Sub}) \ {c} : call'[b] = call[b] /\ got'[b] = got[b]
    /\ Pool!Return(c) =>
         /\ call[c] = "holding" /\ call'[c] = "idle"
         /\ \A b \in (Ops \union {Sub}) \ {c} :
              \/ call'[b] = call[b] /\ got'[b] = got[b]
              \/ call[b] = "waiting" /\ call'[b] = "granted"
<1> USE DEF Connecting
<1>1. call \in [Ops \union {Sub} -> Proved!CallStates]
      /\ got \in [Ops \union {Sub} -> Conns \union {None}]
  BY DEF Proved!Inv, Proved!TypeOK
<1>2. Pool!Get(c) =>
         /\ call[c] = "idle" /\ call'[c] \in Connecting
         /\ \A b \in (Ops \union {Sub}) \ {c} : call'[b] = call[b] /\ got'[b] = got[b]
  BY <1>1 DEF Pool!Get, Pool!GetUnused, Pool!GetCreate, Pool!GetWait
<1>3. Pool!CreateOk(c) =>
         /\ call[c] = "creating" /\ call'[c] = "granted"
         /\ \A b \in (Ops \union {Sub}) \ {c} : call'[b] = call[b] /\ got'[b] = got[b]
  BY <1>1 DEF Pool!CreateOk
<1>4. Pool!Acquire(c) =>
         /\ call[c] = "granted" /\ call'[c] = "holding"
         /\ \A b \in (Ops \union {Sub}) \ {c} : call'[b] = call[b] /\ got'[b] = got[b]
  BY <1>1 DEF Pool!Acquire
<1>5. Pool!ReturnToUnused(c) =>
         /\ call[c] = "holding" /\ call'[c] = "idle"
         /\ \A b \in (Ops \union {Sub}) \ {c} : call'[b] = call[b] /\ got'[b] = got[b]
  BY <1>1 DEF Pool!ReturnToUnused
<1>6. ASSUME Pool!ReturnToWaiter(c)
      PROVE  /\ call[c] = "holding" /\ call'[c] = "idle"
             /\ \A b \in (Ops \union {Sub}) \ {c} :
                  \/ call'[b] = call[b] /\ got'[b] = got[b]
                  \/ call[b] = "waiting" /\ call'[b] = "granted"
  <2>1. call[Head(waiting)] = "waiting"
    BY <1>6, HeadWaits DEF Pool!ReturnToWaiter, Pool!SomeoneWaits
  <2>2. /\ call[c] = "holding"
        /\ call' = [call EXCEPT ![c] = "idle", ![Head(waiting)] = "granted"]
        /\ got' = [got EXCEPT ![c] = None, ![Head(waiting)] = got[c]]
    BY <1>6 DEF Pool!ReturnToWaiter
  <2> QED BY <1>1, <2>1, <2>2
<1> QED BY <1>2, <1>3, <1>4, <1>5, <1>6 DEF Pool!Return

LEMMA DestroyEffect ==
  ASSUME DestroysAll PROVE call' = call /\ got' = got
BY DEF DestroysAll, Pool!DestroyNow, Pool!DestroyLater, Pool!DestroyResume, Pool!Collect,
   Pool!callVars

-----------------------------------------------------------------------------
(* The calls                                                               *)

\* The others do nothing, but one of them may be given a connection.
OthersStay(o) ==
  \A b \in Ops \ {o} :
    /\ op'[b] = op[b] /\ (b \in late' <=> b \in late)
    /\ call'[b] = call[b] \/ (call[b] \in Connecting /\ call'[b] \in Connecting)

LEMMA OneCall ==
  ASSUME CallsRest, OpsTyped', NEW o \in Ops, OthersStay(o),
         op'[o] = "connecting" <=> call'[o] \in Connecting,
         call'[o] = "holding" <=> op'[o] \in Working /\ o \notin late',
         o \in late' => op'[o] \notin {"idle", "connecting"}
  PROVE  CallsRest'
<1>1. ASSUME NEW b \in Ops \ {o}
      PROVE  /\ op'[b] = "connecting" <=> call'[b] \in Connecting
             /\ call'[b] = "holding" <=> op'[b] \in Working /\ b \notin late'
             /\ b \in late' => op'[b] \notin {"idle", "connecting"}
  BY DEF OthersStay, CallsRest, OpsOwn, Connecting
<1> QED BY <1>1 DEF CallsRest, OpsOwn

LEMMA QuietCalls ==
  ASSUME CallsRest, op' = op, late' = late,
         \A b \in Ops : call'[b] = call[b] \/ (call[b] \in Connecting /\ call'[b] \in Connecting)
  PROVE  CallsRest'
<1>1. OpsTyped'
  BY DEF CallsRest, OpsTyped
<1>2. ASSUME NEW b \in Ops
      PROVE  /\ op'[b] = "connecting" <=> call'[b] \in Connecting
             /\ call'[b] = "holding" <=> op'[b] \in Working /\ b \notin late'
             /\ b \in late' => op'[b] \notin {"idle", "connecting"}
  BY DEF CallsRest, OpsOwn, Connecting
<1> QED BY <1>1, <1>2 DEF CallsRest, OpsOwn

LEMMA OpCalls ==
  ASSUME Proved!Inv, CallsRest, NEW o \in Ops, OpStep(o) PROVE CallsRest'
<1> USE DEF OpStates
<1>0. Deletes \intersect Gets = {} /\ Puts \intersect Gets = {} /\ o \in Ops \union {Sub}
  BY BackendAssumption
<1>1. CASE Call(o) \/ Send(o)
  <2>1. /\ UNCHANGED late
        /\ op'[o] = "connecting" \/ op'[o] = "asking"
        /\ op' = [op EXCEPT ![o] = op'[o]]
    BY <1>1 DEF Call, Send, Goto, CallsRest, OpsTyped
  <2>2. op[o] \in {"idle", "connecting"}
    BY <1>1 DEF Call, Send
  <2>3. /\ op'[o] = "connecting" <=> call'[o] \in Connecting
        /\ op'[o] = "asking" <=> call'[o] = "holding"
        /\ \A b \in Ops \ {o} : call'[b] = call[b]
    BY <1>0, <1>1, PoolEffect DEF Call, Send, Goto, CallsRest, OpsTyped, Connecting
  <2>4. OpsTyped' /\ OthersStay(o)
    BY <2>1, <2>3 DEF CallsRest, OpsTyped, OthersStay
  <2>5. o \notin late'
    BY <2>1, <2>2 DEF CallsRest, OpsOwn
  <2> QED BY <2>1, <2>3, <2>4, <2>5, OneCall DEF Working
<1>2. CASE Answer(o)
  <2>1. /\ op[o] = "asking" /\ op' = [op EXCEPT ![o] = "replied"]
        /\ UNCHANGED <<late, call>>
    BY <1>2 DEF Answer, Goto, poolVars
  <2>2. OpsTyped' /\ OthersStay(o) /\ op'[o] = "replied"
    BY <2>1 DEF CallsRest, OpsTyped, OthersStay
  <2> QED BY <2>1, <2>2, OneCall DEF CallsRest, OpsOwn, Working
<1>3. CASE FinishReplied(o)
  <2>1. op' = [op EXCEPT ![o] = "done"] /\ late' = late /\ Pool!Return(o)
    BY <1>3 DEF FinishReplied, Finish, GiveBack, Goto
  <2>2. /\ call'[o] = "idle"
        /\ \A b \in Ops \ {o} : call'[b] = call[b] \/ (call[b] = "waiting" /\ call'[b] = "granted")
    BY <1>0, <2>1, PoolEffect
  <2>3. OpsTyped' /\ OthersStay(o) /\ op'[o] = "done"
    BY <2>1, <2>2 DEF CallsRest, OpsTyped, OthersStay, Connecting
  <2> QED BY <2>1, <2>2, <2>3, OneCall DEF Working, Connecting
<1> QED BY <1>1, <1>2, <1>3 DEF OpStep

LEMMA GetCalls ==
  ASSUME Proved!Inv, CallsRest, NEW g \in Gets, GetStep(g) PROVE CallsRest'
<1> USE DEF OpStates
<1>0. g \in Ops /\ g \in Ops \union {Sub}
  BY GetsInOps
<1>1. CASE GetListening(g) \/ HearListening(g)
  <2>1. /\ op[g] \in {"idle", "listening"}
        /\ op'[g] \in {"listening", "done"} /\ op' = [op EXCEPT ![g] = op'[g]]
        /\ UNCHANGED <<late, call>>
    BY <1>0, <1>1 DEF GetListening, HearListening, Goto, poolVars, CallsRest, OpsTyped
  <2>2. OpsTyped' /\ OthersStay(g)
    BY <2>1 DEF CallsRest, OpsTyped, OthersStay
  <2> QED BY <1>0, <2>1, <2>2, OneCall DEF CallsRest, OpsOwn, Working
<1>2. CASE GetAwait(g) \/ IgnoreReplied(g)
  <2>1. /\ op[g] = "replied" /\ UNCHANGED <<late, call>>
        /\ op'[g] \in {"awaiting", "done"} /\ op' = [op EXCEPT ![g] = op'[g]]
        /\ op'[g] = "done" <=> g \in late
    BY <1>0, <1>2 DEF GetAwait, IgnoreReplied, Goto, poolVars, CallsRest, OpsTyped
  <2>2. OpsTyped' /\ OthersStay(g)
    BY <2>1 DEF CallsRest, OpsTyped, OthersStay
  <2> QED BY <1>0, <2>1, <2>2, OneCall DEF CallsRest, OpsOwn, Working
<1>3. CASE FinishHeard(g) \/ TimeOut(g)
  <2>1. /\ Pool!Return(g) /\ op[g] \in Working
        /\ op'[g] = "done" \/ (op'[g] = op[g] /\ g \in late')
        /\ op' = [op EXCEPT ![g] = op'[g]]
        /\ late' = late \/ late' = late \union {g}
    BY <1>0, <1>3 DEF FinishHeard, TimeOut, Finish, GiveBack, Goto, CallsRest, OpsTyped,
       Working
  <2>2. /\ call'[g] = "idle"
        /\ \A b \in Ops \ {g} : call'[b] = call[b] \/ (call[b] = "waiting" /\ call'[b] = "granted")
    BY <1>0, <2>1, PoolEffect
  <2>3. OpsTyped'
    BY <2>1 DEF CallsRest, OpsTyped, Working
  <2>4. OthersStay(g)
    BY <2>1, <2>2 DEF CallsRest, OpsTyped, OthersStay, Connecting
  <2> QED BY <1>0, <2>1, <2>2, <2>3, <2>4, OneCall DEF Working, Connecting
<1> QED BY <1>1, <1>2, <1>3 DEF GetStep

LEMMA CallsStep == ASSUME IInv, [Next]_vars PROVE CallsRest'
<1> USE DEF IInv
<1>0. Sub \notin Ops
  BY BackendAssumption
<1>1. CASE UNCHANGED vars
  BY <1>1, QuietCalls DEF vars, callVars, poolVars
<1>2. CASE SubConnect \/ SubSend \/ EndReturn
  <2>1. /\ op' = op /\ late' = late
        /\ Pool!Get(Sub) \/ Pool!Acquire(Sub) \/ Pool!Return(Sub)
    BY <1>2 DEF SubConnect, SubSend, EndReturn, callVars
  <2>2. \A b \in Ops : call'[b] = call[b] \/ (call[b] = "waiting" /\ call'[b] = "granted")
    BY <1>0, <2>1, PoolEffect
  <2> QED BY <2>1, <2>2, QuietCalls DEF Connecting
<1>3. CASE Created
  <2>1. PICK c \in Ops \union {Sub} : Pool!CreateOk(c)
    BY <1>3 DEF Created
  <2>2. \A b \in Ops : call'[b] = call[b] \/ (call[b] = "creating" /\ call'[b] = "granted")
    BY <2>1, PoolEffect
  <2> QED BY <1>3, <2>2, QuietCalls DEF Created, callVars, Connecting
<1>4. CASE Psubscribed \/ Acknowledged \/ Attach \/ OnMessage \/ Unheard
  BY <1>4, QuietCalls DEF Psubscribed, Acknowledged, Attach, OnMessage, Unheard, callVars,
     poolVars
<1>5. CASE EndUnsubscribe \/ Punsubscribed \/ Unacknowledged
  BY <1>5, QuietCalls DEF EndUnsubscribe, Punsubscribed, Unacknowledged, callVars, poolVars
<1>6. CASE EndDestroy \/ EndResume
  BY <1>6, DestroyEffect, QuietCalls DEF EndDestroy, EndResume, DestroysAll, callVars
<1>7. CASE DoResolve \/ Evict \/ \E t \in Tasks : WorkerReport(t)
  BY <1>7, QuietCalls DEF DoResolve, Evict, WorkerReport, callVars, poolVars
<1> QED BY <1>1, <1>2, <1>3, <1>4, <1>5, <1>6, <1>7, OpCalls, GetCalls
        DEF Next, SubStep, EndStep

-----------------------------------------------------------------------------
(* The wire                                                                *)

\* The two acknowledgements and the reports are told apart by their lengths.
LEMMA MessagesDiffer ==
  /\ <<"ack">> \in Messages /\ <<"unack">> \in Messages /\ <<"ack">> # <<"unack">>
  /\ \A m \in Tasks \X {"success", "other"} :
       m \in Messages /\ m # <<"ack">> /\ m # <<"unack">>
  /\ \A m \in Messages : Len(m) = 2 => m \in Tasks \X {"success", "other"}
BY DEF Messages

\* A message at its end leaves the rest of the wire as it is.
LEMMA Appended ==
  ASSUME wire \in Seq(Messages), NEW m \in Messages, wire' = Append(wire, m)
  PROVE  /\ wire' \in Seq(Messages)
         /\ Len(wire') = Len(wire) + 1 /\ Len(wire) \in Nat
         /\ wire'[Len(wire) + 1] = m
         /\ \A i \in 1..Len(wire) : wire'[i] = wire[i]
OBVIOUS

\* What is read from its front moves the rest up.
LEMMA Shifted ==
  ASSUME wire \in Seq(Messages), wire # <<>>, wire' = Tail(wire)
  PROVE  /\ wire' \in Seq(Messages)
         /\ Len(wire) \in Nat \ {0} /\ Len(wire') = Len(wire) - 1
         /\ Head(wire) = wire[1] /\ 1 \in 1..Len(wire)
         /\ \A i \in 1..Len(wire') : wire'[i] = wire[i + 1] /\ i + 1 \in 1..Len(wire)
OBVIOUS

\* An acknowledgement joins a wire without any.
LEMMA FirstAck ==
  ASSUME wire \in Seq(Messages), NEW a \in {<<"ack">>, <<"unack">>},
         wire' = Append(wire, a),
         \A i \in 1..Len(wire) : wire[i] # <<"ack">> /\ wire[i] # <<"unack">>
  PROVE  /\ wire' \in Seq(Messages)
         /\ \A i \in 1..Len(wire') : wire'[i] \in {<<"ack">>, <<"unack">>} =>
              /\ wire'[i] = a
              /\ \A j \in 1..Len(wire') : wire'[j] = a => j = i
<1>1. a \in Messages
  BY MessagesDiffer
<1>2. /\ wire' \in Seq(Messages)
      /\ Len(wire') = Len(wire) + 1 /\ Len(wire) \in Nat
      /\ wire'[Len(wire) + 1] = a
      /\ \A i \in 1..Len(wire) : wire'[i] = wire[i]
  BY <1>1, Appended
<1>3. ASSUME NEW i \in 1..Len(wire'), wire'[i] \in {<<"ack">>, <<"unack">>}
      PROVE  i = Len(wire) + 1
  <2>1. i \notin 1..Len(wire)
    BY <1>2, <1>3
  <2> QED BY <1>2, <2>1
<1> QED BY <1>2, <1>3

LEMMA ReadAcks ==
  ASSUME AcksInOrder, wire # <<>>, wire' = Tail(wire), UNCHANGED patterns,
         \/ Head(wire) = <<"ack">> /\ UNCHANGED ending
         \/ Head(wire) = <<"unack">> /\ UNCHANGED sub
         \/ UNCHANGED <<sub, ending>>
  PROVE  AcksInOrder'
<1>1. /\ wire' \in Seq(Messages)
      /\ Len(wire) \in Nat \ {0} /\ Len(wire') = Len(wire) - 1
      /\ Head(wire) = wire[1] /\ 1 \in 1..Len(wire)
      /\ \A i \in 1..Len(wire') : wire'[i] = wire[i + 1] /\ i + 1 \in 1..Len(wire)
  BY Shifted DEF AcksInOrder
<1>2. Head(wire) = <<"ack">> => \A i \in 1..Len(wire') : wire'[i] # <<"ack">>
  BY <1>1 DEF AcksInOrder
<1>3. Head(wire) = <<"unack">> => \A i \in 1..Len(wire') : wire'[i] # <<"unack">>
  BY <1>1 DEF AcksInOrder
<1>4. ASSUME NEW m \in {<<"ack">>, <<"unack">>}, NEW i \in 1..Len(wire'), wire'[i] = m
      PROVE  \A j \in 1..Len(wire') : wire'[j] = m => j = i
  <2> SUFFICES ASSUME NEW j \in 1..Len(wire'), wire'[j] = m PROVE j = i
    OBVIOUS
  <2>1. /\ i + 1 \in 1..Len(wire) /\ wire[i + 1] = m
        /\ j + 1 \in 1..Len(wire) /\ wire[j + 1] = m
    BY <1>1, <1>4
  <2>2. j + 1 = i + 1
    BY <2>1 DEF AcksInOrder
  <2> QED BY <2>2
<1>5. ASSUME NEW i \in 1..Len(wire'), wire'[i] = <<"ack">>
      PROVE  sub' = "subscribing" /\ patterns' # {}
  <2>1. i + 1 \in 1..Len(wire) /\ wire[i + 1] = <<"ack">>
    BY <1>1, <1>5
  <2>2. sub = "subscribing" /\ patterns # {}
    BY <2>1 DEF AcksInOrder
  <2> QED BY <1>2, <1>5, <2>2
<1>6. ASSUME NEW i \in 1..Len(wire'), wire'[i] = <<"unack">>
      PROVE  ending' = "unsubscribing" /\ patterns' = {}
  <2>1. i + 1 \in 1..Len(wire) /\ wire[i + 1] = <<"unack">>
    BY <1>1, <1>6
  <2>2. ending = "unsubscribing" /\ patterns = {}
    BY <2>1 DEF AcksInOrder
  <2> QED BY <1>3, <1>6, <2>2
<1> QED BY <1>1, <1>4, <1>5, <1>6 DEF AcksInOrder

LEMMA ReportedAcks ==
  ASSUME AcksInOrder, UNCHANGED <<sub, ending>>, NEW t \in Tasks,
         NEW st \in {"success", "other"}, Report(t, st)
  PROVE  AcksInOrder' /\ patterns' = patterns
<1>1. patterns' = patterns
  BY DEF Report
<1>2. CASE wire' = wire
  BY <1>1, <1>2 DEF AcksInOrder
<1>3. CASE wire' = Append(wire, <<t, st>>)
  <2>1. <<t, st>> \in Messages /\ <<t, st>> # <<"ack">> /\ <<t, st>> # <<"unack">>
    BY MessagesDiffer
  <2>2. /\ wire' \in Seq(Messages)
        /\ Len(wire') = Len(wire) + 1 /\ Len(wire) \in Nat
        /\ wire'[Len(wire) + 1] = <<t, st>>
        /\ \A i \in 1..Len(wire) : wire'[i] = wire[i]
    BY <1>3, <2>1, Appended DEF AcksInOrder
  <2>3. \A i \in 1..Len(wire') :
          i \in 1..Len(wire) \/ (wire'[i] # <<"ack">> /\ wire'[i] # <<"unack">>)
    <3>1. \A i \in 1..Len(wire') : i \in 1..Len(wire) \/ i = Len(wire) + 1
      BY <2>2
    <3> QED BY <2>1, <2>2, <3>1
  <2>4. ASSUME NEW a \in {<<"ack">>, <<"unack">>}, NEW i \in 1..Len(wire'), wire'[i] = a
        PROVE  /\ i \in 1..Len(wire) /\ wire[i] = a
               /\ \A j \in 1..Len(wire') : wire'[j] = a => j \in 1..Len(wire) /\ wire[j] = a
    BY <2>2, <2>3, <2>4
  <2>5. ASSUME NEW i \in 1..Len(wire'), wire'[i] = <<"ack">>
        PROVE  /\ sub = "subscribing" /\ patterns # {}
               /\ \A j \in 1..Len(wire') : wire'[j] = <<"ack">> => j = i
    BY <2>4, <2>5 DEF AcksInOrder
  <2>6. ASSUME NEW i \in 1..Len(wire'), wire'[i] = <<"unack">>
        PROVE  /\ ending = "unsubscribing" /\ patterns = {}
               /\ \A j \in 1..Len(wire') : wire'[j] = <<"unack">> => j = i
    BY <2>4, <2>6 DEF AcksInOrder
  <2> QED BY <1>1, <2>2, <2>5, <2>6 DEF AcksInOrder
<1> QED BY <1>1, <1>2, <1>3 DEF Report

-----------------------------------------------------------------------------
(* The subscriber                                                          *)

\* Nobody but its owner gives a connection back.
LEMMA HoldingStays ==
  ASSUME Proved!Inv, call[Sub] = "holding", NEW c \in Ops \union {Sub},
         \/ Pool!Get(c) \/ Pool!CreateOk(c) \/ Pool!Acquire(c)
         \/ c # Sub /\ Pool!Return(c)
         \/ DestroysAll
         \/ UNCHANGED poolVars
  PROVE  call'[Sub] = "holding" /\ got'[Sub] = got[Sub]
BY PoolEffect, DestroyEffect DEF poolVars

LEMMA QuietSub ==
  ASSUME SubRest, UNCHANGED <<sub, ending, patterns>>, AcksInOrder',
         call[Sub] = "holding" => call'[Sub] = "holding" /\ got'[Sub] = got[Sub]
  PROVE  SubRest'
BY DEF SubRest, SubHolds, EndAfterSub, PatternsLive

LEMMA SubSub == ASSUME IInv, SubStep PROVE SubRest'
<1> USE DEF IInv, SubRest, SubHolds, EndAfterSub
<1>1. CASE SubConnect
  BY <1>1 DEF SubConnect, PatternsLive, AcksInOrder, serverVars
<1>2. CASE SubSend
  <2>1. call'[Sub] = "holding"
    BY <1>2, PoolEffect DEF SubSend
  <2> QED BY <1>2, <2>1 DEF SubSend, PatternsLive, AcksInOrder, serverVars
<1>3. CASE Psubscribed
  <2>1. /\ patterns = {} /\ patterns' = {got[Sub]} /\ got' = got /\ call' = call
        /\ sub = "subscribing" /\ UNCHANGED <<sub, ending>>
        /\ wire' = Append(wire, <<"ack">>)
    BY <1>3 DEF Psubscribed, poolVars
  <2>2. ending = "idle"
    BY <2>1
  <2>3. \A i \in 1..Len(wire) : wire[i] # <<"ack">> /\ wire[i] # <<"unack">>
    BY <2>1, <2>2 DEF AcksInOrder
  <2>4. /\ wire' \in Seq(Messages)
        /\ \A i \in 1..Len(wire') : wire'[i] \in {<<"ack">>, <<"unack">>} =>
             /\ wire'[i] = <<"ack">>
             /\ \A j \in 1..Len(wire') : wire'[j] = <<"ack">> => j = i
    BY <2>1, <2>3, FirstAck DEF AcksInOrder
  <2>5. AcksInOrder'
    BY <2>1, <2>4, MessagesDiffer DEF AcksInOrder
  <2> QED BY <2>1, <2>2, <2>5 DEF PatternsLive
<1>4. CASE Acknowledged
  <2>1. AcksInOrder'
    BY <1>4, ReadAcks DEF Acknowledged
  <2>2. 1 \in 1..Len(wire) /\ wire[1] = <<"ack">>
    BY <1>4 DEF Acknowledged, AcksInOrder
  <2>3. sub = "subscribing"
    BY <2>2 DEF AcksInOrder
  <2> QED BY <1>4, <2>1, <2>3 DEF Acknowledged, PatternsLive, poolVars
<1>5. CASE Attach
  BY <1>5 DEF Attach, PatternsLive, AcksInOrder, poolVars, serverVars
<1>6. CASE OnMessage \/ Unheard
  <2>1. AcksInOrder'
    BY <1>6, ReadAcks DEF OnMessage, Unheard
  <2> QED BY <1>6, <2>1, QuietSub DEF OnMessage, Unheard, poolVars
<1> QED BY <1>1, <1>2, <1>3, <1>4, <1>5, <1>6 DEF SubStep

LEMMA EndSub == ASSUME IInv, EndStep PROVE SubRest'
<1> USE DEF IInv, SubRest, SubHolds, EndAfterSub
<1>1. CASE EndUnsubscribe
  <2>1. AcksInOrder'
    BY <1>1 DEF EndUnsubscribe, AcksInOrder, serverVars
  <2> QED BY <1>1, <2>1 DEF EndUnsubscribe, PatternsLive, poolVars, serverVars
<1>2. CASE Punsubscribed
  <2>1. /\ patterns # {} /\ patterns' = {} /\ got' = got /\ call' = call
        /\ ending = "unsubscribing" /\ UNCHANGED <<sub, ending>>
        /\ wire' = Append(wire, <<"unack">>)
    BY <1>2 DEF Punsubscribed, poolVars
  <2>2. \A i \in 1..Len(wire) : wire[i] # <<"ack">> /\ wire[i] # <<"unack">>
    BY <2>1 DEF AcksInOrder
  <2>3. /\ wire' \in Seq(Messages)
        /\ \A i \in 1..Len(wire') : wire'[i] \in {<<"ack">>, <<"unack">>} =>
             /\ wire'[i] = <<"unack">>
             /\ \A j \in 1..Len(wire') : wire'[j] = <<"unack">> => j = i
    BY <2>1, <2>2, FirstAck DEF AcksInOrder
  <2>4. AcksInOrder'
    BY <2>1, <2>3, MessagesDiffer DEF AcksInOrder
  <2> QED BY <2>1, <2>4 DEF PatternsLive
<1>3. CASE Unacknowledged
  <2>1. AcksInOrder'
    BY <1>3, ReadAcks DEF Unacknowledged
  <2>2. 1 \in 1..Len(wire) /\ wire[1] = <<"unack">>
    BY <1>3 DEF Unacknowledged, AcksInOrder
  <2>3. ending = "unsubscribing" /\ patterns = {}
    BY <2>2 DEF AcksInOrder
  <2> QED BY <1>3, <2>1, <2>3 DEF Unacknowledged, PatternsLive, poolVars
<1>4. CASE EndReturn \/ EndDestroy
  <2>1. /\ ending \notin {"idle", "unsubscribing"} /\ ending' \in {"returned", "destroying"}
        /\ UNCHANGED <<sub, serverVars>>
    BY <1>4 DEF EndReturn, EndAwaited, EndDestroy
  <2> QED BY <2>1 DEF PatternsLive, AcksInOrder, serverVars
<1>5. CASE EndResume
  <2>1. call' = call /\ got' = got
    BY <1>5, DestroyEffect DEF EndResume, DestroysAll
  <2>2. AcksInOrder'
    BY <1>5 DEF EndResume, AcksInOrder, serverVars
  <2> QED BY <1>5, <2>1, <2>2, QuietSub DEF EndResume, serverVars
<1> QED BY <1>1, <1>2, <1>3, <1>4, <1>5 DEF EndStep

LEMMA OpSub ==
  ASSUME IInv, Created \/ (\E o \in Ops : OpStep(o)) \/ \E g \in Gets : GetStep(g)
  PROVE  SubRest'
<1>0. Sub \notin Ops /\ Statuses \subseteq {"success", "other"}
  BY BackendAssumption
<1>1. UNCHANGED <<sub, ending>>
  BY DEF Created, OpStep, Call, Send, Answer, FinishReplied, Finish, GetStep, GetListening,
     GetAwait, FinishHeard, HearListening, IgnoreReplied, TimeOut
<1>2. call[Sub] = "holding" => call'[Sub] = "holding" /\ got'[Sub] = got[Sub]
  <2>1. CASE Created
    BY <2>1, HoldingStays DEF Created, IInv
  <2>2. CASE \E o \in Ops : OpStep(o)
    BY <1>0, <2>2, HoldingStays DEF OpStep, Call, Send, Answer, FinishReplied, Finish,
       GiveBack, IInv
  <2>3. CASE \E g \in Gets : GetStep(g)
    BY <1>0, <2>3, GetsInOps, HoldingStays DEF GetStep, GetListening, GetAwait, FinishHeard,
       HearListening, IgnoreReplied, TimeOut, Finish, GiveBack, IInv
  <2> QED BY <2>1, <2>2, <2>3
<1>3. CASE UNCHANGED serverVars
  BY <1>1, <1>2, <1>3, QuietSub DEF IInv, SubRest, AcksInOrder, serverVars
<1>4. ASSUME NEW o \in Ops, Answer(o) PROVE SubRest'
  <2>1. CASE UNCHANGED <<patterns, wire>>
    BY <1>1, <1>2, <2>1, QuietSub DEF IInv, SubRest, AcksInOrder
  <2>2. CASE Report(TaskOf[o], "success")
    <3>1. TaskOf[o] \in Tasks
      BY BackendAssumption
    <3> QED BY <1>1, <1>2, <2>2, <3>1, QuietSub, ReportedAcks DEF IInv, SubRest
  <2> QED BY <1>4, <2>1, <2>2 DEF Answer, serverVars
<1> QED BY <1>3, <1>4 DEF Created, OpStep, Call, Send, FinishReplied, Finish, GetStep,
        GetListening, GetAwait, FinishHeard, HearListening, IgnoreReplied, TimeOut

LEMMA WorldSub ==
  ASSUME IInv, DoResolve \/ Evict \/ \E t \in Tasks : WorkerReport(t) PROVE SubRest'
<1>1. UNCHANGED <<sub, ending, poolVars>>
  BY DEF DoResolve, Evict, WorkerReport
<1>2. CASE DoResolve \/ Evict
  BY <1>1, <1>2, QuietSub DEF DoResolve, Evict, IInv, SubRest, AcksInOrder, poolVars,
     serverVars
<1>3. CASE \E t \in Tasks : WorkerReport(t)
  <2>1. PICK t \in Tasks, st \in {"success", "other"} : Report(t, st)
    BY <1>3, BackendAssumption DEF WorkerReport
  <2> QED BY <1>1, <2>1, QuietSub, ReportedAcks DEF IInv, SubRest, poolVars
<1> QED BY <1>2, <1>3

-----------------------------------------------------------------------------
(* The theorems                                                            *)

LEMMA InitIInv == Init => IInv
<1> SUFFICES ASSUME Init PROVE IInv
  OBVIOUS
<1>1. Proved!Init
  BY DEF Init, Pool!Init, Proved!Init
<1>2. Proved!Inv
  BY <1>1, PoolFits, Proved!InitInv DEF Proved!InitInv
<1>3. CallsRest
  BY DEF Init, Pool!Init, CallsRest, OpsTyped, OpsOwn, OpStates, Connecting, Working
<1>4. SubRest
  BY DEF Init, SubRest, SubHolds, EndAfterSub, PatternsLive, AcksInOrder
<1> QED BY <1>2, <1>3, <1>4 DEF IInv

LEMMA NextIInv == IInv /\ [Next]_vars => IInv'
<1> SUFFICES ASSUME IInv, [Next]_vars PROVE IInv'
  OBVIOUS
<1>1. SubRest'
  <2>1. CASE UNCHANGED vars
    BY <2>1 DEF vars, poolVars, serverVars, IInv, SubRest, SubHolds, EndAfterSub,
       PatternsLive, AcksInOrder
  <2> QED BY <2>1, SubSub, EndSub, OpSub, WorldSub DEF Next
<1> QED BY <1>1, PoolInvStep, CallsStep DEF IInv

\* Who has which connection, and in what order the subscriber and end() go on.
THEOREM RedisInvariant == Spec => []IInv
<1>1. IInv /\ [Next]_vars => IInv'
  BY NextIInv
<1> QED BY <1>1, InitIInv, PTL DEF Spec

\* use() and returnAfter() pair up in every call, timeouts and late answers
\* included: a call has a connection exactly while it works.
THEOREM RedisConnectionWhileNeeded == Spec => []ConnectionWhileNeeded
<1>1. IInv => ConnectionWhileNeeded
  BY DEF IInv, CallsRest, OpsOwn, Working, ConnectionWhileNeeded
<1> QED BY <1>1, RedisInvariant, PTL

\* No command goes out on the connection in subscriber mode or on a closed one.
THEOREM RedisOnlyPlainConnections == Spec => []OnlyPlainConnections
<1>1. IInv => OnlyPlainConnections
  <2> SUFFICES ASSUME IInv, NEW o \in Ops, call[o] \in {"granted", "holding"}
      PROVE  got[o] \notin patterns \union destroyed
    BY DEF OnlyPlainConnections
  <2>0. o # Sub
    BY BackendAssumption
  <2>1. o \in Proved!Owners
    BY DEF Proved!Owners
  <2>2. got[o] \in Proved!Held
    BY <2>1 DEF Proved!Held
  <2>3. got[o] \notin destroyed
    BY <2>2 DEF IInv, Proved!Inv, Proved!Custody, Proved!DestroyedIsGone
  <2>4. ASSUME got[o] \in patterns PROVE FALSE
    <3>1. patterns = {got[Sub]} /\ call[Sub] = "holding"
      BY <2>4 DEF IInv, SubRest, PatternsLive, SubHolds
    <3>2. Sub \in Proved!Owners
      BY <3>1 DEF Proved!Owners
    <3> QED BY <2>0, <2>1, <2>4, <3>1, <3>2
            DEF IInv, Proved!Inv, Proved!Custody, Proved!UniqueOwner
  <2> QED BY <2>3, <2>4
<1> QED BY <1>1, RedisInvariant, PTL
=============================================================================

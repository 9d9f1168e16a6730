-------------------------- MODULE RedisCallsProofs ---------------------------
(***************************************************************************)
(* Proofs about what the calls of RedisBackend are answered: nothing but   *)
(* reports of their own task, and no wake-up is lost between GET and the   *)
(* wait.  The invariant of the promise map is taken from PromiseMapProofs, *)
(* in the same way as that of the pool in RedisBackendProofs.              *)
(***************************************************************************)
EXTENDS RedisBackendProofs

Known == INSTANCE PromiseMapProofs WITH
  Keys <- Tasks, Values <- {"value"}, HasTimeout <- TRUE, MaxStale <- 0,
  Uses <- {"delete", "pending", "settled"}

Reports == {"success", "other"}
Reported(t, st) == \E i \in 1..Len(reports[t]) : reports[t][i] = st

Types ==
  /\ reply \in [Gets -> Reports \union {"none"}]
  /\ heard \in [Gets -> Promises \union {None}]
  /\ result \in [Gets -> Reports \union {"none", "rejected", "timeout"}]
  /\ payload \in [Promises -> Reports \union {"none"}]
  /\ sub \in {"idle", "connecting", "subscribing", "confirmed", "listening"}
  /\ ending \in {"idle", "unsubscribing", "unsubscribed", "returned", "destroying"}
  /\ store \in [Tasks -> Reports \union {"none"}]
  /\ reports \in [Tasks -> Seq(Reports)]
  /\ patterns \subseteq Conns /\ missed \subseteq Tasks

\* What was stored, sent, answered or taken was reported, on the same task.
Sources ==
  /\ \A t \in Tasks : store[t] # "none" => Reported(t, store[t])
  /\ \A i \in 1..Len(wire) : Len(wire[i]) = 2 => Reported(wire[i][1], wire[i][2])
  /\ \A g \in Gets : reply[g] # "none" => Reported(TaskOf[g], reply[g])
  /\ \A g \in Gets : result[g] \in Reports => Reported(TaskOf[g], result[g])
  /\ \A p \in Promises : pstate[p] \in {"running", "fulfilled"} =>
       /\ keyOf[p] \in Tasks /\ payload[p] \in Reports
       /\ Reported(keyOf[p], payload[p])

\* The promise a get() has is that of its task, even if it was long dropped from
\* the map.
Hears ==
  \A g \in Gets :
    /\ heard[g] # None => /\ heard[g] \in Promises
                          /\ keyOf[heard[g]] = TaskOf[g]
                          /\ pstate[heard[g]] # "unborn"
    /\ op[g] \in {"awaiting", "listening"} => heard[g] # None

\* The success of a task is stored, was not missed, and is not being deleted.
Sure(t) ==
  /\ store[t] = "success" /\ t \notin missed
  /\ \A d \in Deletes : ~(TaskOf[d] = t /\ op[d] = "asking")

OnWire(t) == \E i \in 1..Len(wire) : wire[i] = <<t, "success">>
Waited(t) == Map!has(t) /\ pstate[promises[t]] = "open"

\* Somebody is about to wait, since GET came too early.
Unaware(t) ==
  \E g \in Gets : TaskOf[g] = t /\ op[g] = "replied" /\ reply[g] # "success"

\* Between GET and the wait the success comes by the wire, or it has come and its
\* promise, in the map, is what listen() will find.
Wakes ==
  \A t \in Tasks : Sure(t) =>
    OnWire(t) \/ (~Waited(t) /\ (Unaware(t) => Map!has(t)))

CallsInv == IInv /\ Known!Inv /\ Types /\ Sources /\ Hears /\ Wakes

-----------------------------------------------------------------------------
(* The map is used as it is meant to be                                    *)

LEMMA MapFits == Known!MapAssumption
BY BackendAssumption DEF Known!MapAssumption

LEMMA MapSteps ==
  ASSUME \/ \E t \in Tasks : Map!Get(t) \/ Map!Resolve(t, "value") \/ Map!Delete(t)
         \/ Map!Timer
         \/ \E p \in Promises : Map!DoResolve(p)
  PROVE  Known!Next
<1>1. CASE \E t \in Tasks : Map!Get(t)
  <2>1. \E t \in Tasks : Known!Get(t)
    BY <1>1 DEF Map!Get, Map!has, Map!Fresh, Map!Settled, Map!WaitingEntry,
       Known!Get, Known!has, Known!Fresh, Known!Settled, Known!WaitingEntry
  <2> QED BY <2>1 DEF Known!Next
<1>2. CASE \E t \in Tasks : Map!Resolve(t, "value")
  <2>1. \E t \in Tasks : Known!Resolve(t, "value")
    BY <1>2 DEF Map!Resolve, Map!ResolveWaiting, Map!ResolveUnasked, Map!MaySettle,
       Map!has, Map!isPending, Map!Fresh, Map!Settled, Map!SettledEntry,
       Known!Resolve, Known!ResolveWaiting, Known!ResolveUnasked, Known!MaySettle,
       Known!has, Known!isPending, Known!Fresh, Known!Settled, Known!SettledEntry
  <2> QED BY <2>1 DEF Known!Next
<1>3. CASE \E t \in Tasks : Map!Delete(t)
  <2>1. \E t \in Tasks : Known!Delete(t)
    BY <1>3 DEF Map!Delete, Map!DoDelete, Map!hasData, Map!NoData, Map!WithoutPromise,
       Map!WithoutData, Known!Delete, Known!DoDelete, Known!hasData, Known!NoData,
       Known!WithoutPromise, Known!WithoutData
  <2> QED BY <2>1 DEF Known!Next
<1>4. CASE Map!Timer
  <2>1. Known!Timer
    BY <1>4 DEF Map!Timer, Map!TimerFire, Map!StaleTimerFire, Map!NoMicrotask,
       Map!DoDelete, Map!NoData, Map!WithoutPromise, Map!WithoutData, Known!Timer,
       Known!TimerFire, Known!StaleTimerFire, Known!NoMicrotask, Known!DoDelete,
       Known!NoData, Known!WithoutPromise, Known!WithoutData
  <2> QED BY <2>1 DEF Known!Next
<1>5. CASE \E p \in Promises : Map!DoResolve(p)
  <2>1. \E p \in Promises : Known!DoResolve(p)
    BY <1>5 DEF Map!DoResolve, Map!DoResolveOk, Map!DoResolveFail, Map!SetStatus,
       Map!WithStatus, Known!DoResolve, Known!DoResolveOk, Known!DoResolveFail,
       Known!SetStatus, Known!WithStatus
  <2> QED BY <2>1 DEF Known!Next
<1> QED BY <1>1, <1>2, <1>3, <1>4, <1>5

LEMMA MapStutters ==
  ASSUME UNCHANGED <<promises, data, stale, pstate, keyOf, value>>
  PROVE  UNCHANGED Known!vars
BY DEF Known!vars, Known!mapVars, Known!promiseVars

LEMMA TasksOf == \A o \in Ops : TaskOf[o] \in Tasks
BY BackendAssumption

\* What is at the head of the wire when onMessage() is called.
LEMMA HeadIsReport ==
  ASSUME AcksInOrder, wire # <<>>, Len(Head(wire)) = 2
  PROVE  /\ Head(wire) = wire[1] /\ 1 \in 1..Len(wire)
         /\ Head(wire)[1] \in Tasks /\ Head(wire)[2] \in Reports
         /\ Head(wire) = <<Head(wire)[1], Head(wire)[2]>>
<1>1. Head(wire) = wire[1] /\ 1 \in 1..Len(wire) /\ Head(wire) \in Messages
  BY DEF AcksInOrder
<1>2. Head(wire) \in Tasks \X {"success", "other"}
  BY <1>1, MessagesDiffer
<1> QED BY <1>1, <1>2 DEF Reports

LEMMA MapStep ==
  ASSUME AcksInOrder, [Next]_vars PROVE [Known!Next]_(Known!vars)
<1>1. CASE UNCHANGED vars
  BY <1>1, MapStutters DEF vars, mapVars
<1>2. CASE OnMessage
  <2>1. Head(wire)[1] \in Tasks
    BY <1>2, HeadIsReport DEF OnMessage
  <2>2. Map!Resolve(Head(wire)[1], "value")
    BY <1>2 DEF OnMessage, Accept
  <2> QED BY <2>1, <2>2, MapSteps
<1>3. CASE SubStep /\ ~OnMessage
  BY <1>3, MapStutters DEF SubStep, SubConnect, SubSend, Psubscribed, Acknowledged, Attach,
     Unheard, mapVars
<1>4. CASE EndStep \/ Created \/ \E t \in Tasks : WorkerReport(t)
  BY <1>4, MapStutters DEF EndStep, EndUnsubscribe, Punsubscribed, Unacknowledged,
     EndReturn, EndDestroy, EndResume, Created, WorkerReport, mapVars
<1>5. CASE DoResolve \/ Evict
  BY <1>5, MapSteps DEF DoResolve, Evict
<1>6. CASE \E o \in Ops : OpStep(o)
  BY <1>6, TasksOf, MapSteps, MapStutters DEF OpStep, Call, Send, Answer, FinishReplied,
     Finish, mapVars
<1>7. CASE \E g \in Gets : GetStep(g)
  BY <1>7, TasksOf, GetsInOps, MapSteps, MapStutters DEF GetStep, GetListening, GetAwait,
     Listen, FinishHeard, HearListening, IgnoreReplied, TimeOut, Finish, mapVars
<1> QED BY <1>1, <1>2, <1>3, <1>4, <1>5, <1>6, <1>7 DEF Next

-----------------------------------------------------------------------------
(* What the operations of the map do                                       *)

\* Nothing begins: promises settle, and may be dropped from the map.
Settles ==
  /\ keyOf' = keyOf
  /\ \A p \in Promises :
       \/ pstate'[p] = pstate[p] \/ pstate'[p] = "rejected"
       \/ pstate[p] = "running" /\ pstate'[p] = "fulfilled"
  /\ \A t \in Tasks : promises'[t] = promises[t] \/ promises'[t] = None

LEMMA StutterSettles ==
  ASSUME UNCHANGED mapVars PROVE Settles /\ payload' = payload
BY DEF mapVars, Settles

LEMMA DropSettles ==
  ASSUME Known!Inv, NEW t \in Tasks, Map!DoDelete(t)
  PROVE  Settles /\ \A u \in Tasks \ {t} : promises'[u] = promises[u]
BY DEF Map!DoDelete, Map!WithoutPromise, Settles, Known!Inv, Known!TypeOK

LEMMA TakenSettles ==
  ASSUME Known!Inv, NEW p \in Promises, Map!DoResolve(p)
  PROVE  Settles /\ promises' = promises
BY DEF Map!DoResolve, Map!DoResolveOk, Map!DoResolveFail, Settles, Known!Inv, Known!TypeOK

\* A promise that is made anew is nobody's.
LEMMA NewIsUnheard ==
  ASSUME Hears, KeepHeard, NEW p \in Map!Fresh, pstate'[p] \in {"open", "running"}
  PROVE  \A g \in Gets : heard[g] # p
<1> SUFFICES ASSUME NEW g \in Gets, heard[g] = p PROVE FALSE
  OBVIOUS
<1>1. p # None
  BY BackendAssumption DEF Map!Fresh
<1>2. pstate[p] \in Map!Settled
  BY <1>1 DEF Hears, Map!Fresh
<1> QED BY <1>1, <1>2 DEF KeepHeard, Map!Settled

LEMMA GetEffect ==
  ASSUME Known!Inv, Hears, KeepHeard, NEW t \in Tasks, Map!Get(t)
  PROVE  \E p \in Promises :
           /\ ~Map!has(t)
           /\ promises'[t] = p /\ keyOf'[p] = t /\ pstate'[p] = "open"
           /\ \A u \in Tasks \ {t} : promises'[u] = promises[u]
           /\ \A q \in Promises \ {p} : pstate'[q] = pstate[q] /\ keyOf'[q] = keyOf[q]
           /\ \A u \in Tasks : promises[u] # p
           /\ \A g \in Gets : heard[g] # p
<1>1. PICK p \in Map!Fresh : /\ promises' = [promises EXCEPT ![t] = p]
                             /\ pstate' = [pstate EXCEPT ![p] = "open"]
                             /\ keyOf' = [keyOf EXCEPT ![p] = t]
  BY DEF Map!Get
<1>2. p \in Promises /\ \A u \in Tasks : promises[u] # p
  BY DEF Map!Fresh
<1>3. /\ promises'[t] = p /\ keyOf'[p] = t /\ pstate'[p] = "open"
      /\ \A u \in Tasks \ {t} : promises'[u] = promises[u]
      /\ \A q \in Promises \ {p} : pstate'[q] = pstate[q] /\ keyOf'[q] = keyOf[q]
  BY <1>1, <1>2 DEF Known!Inv, Known!TypeOK
<1>4. \A g \in Gets : heard[g] # p
  BY <1>3, NewIsUnheard
<1>5. ~Map!has(t)
  BY DEF Map!Get
<1> QED BY <1>2, <1>3, <1>4, <1>5

LEMMA ResolveEffect ==
  ASSUME Known!Inv, Hears, KeepHeard, NEW t \in Tasks, Map!Resolve(t, "value")
  PROVE  \E p \in Promises :
           /\ promises'[t] = p /\ keyOf'[p] = t
           /\ pstate[p] # "running" /\ pstate'[p] = "running"
           /\ \A u \in Tasks \ {t} : promises'[u] = promises[u] /\ promises[u] # p
           /\ \A q \in Promises \ {p} : pstate'[q] = pstate[q] /\ keyOf'[q] = keyOf[q]
           /\ \A g \in Gets : heard[g] = p => keyOf[p] = t
<1>1. CASE Map!ResolveWaiting(t, "value")
  <2> DEFINE p == data[t].functions
  <2>1. p # None /\ pstate' = [pstate EXCEPT ![p] = "running"]
    BY <1>1 DEF Map!ResolveWaiting
  <2>2. UNCHANGED <<promises, keyOf>>
    BY <1>1 DEF Map!ResolveWaiting
  <2>3. promises[t] = p /\ pstate[p] = "open" /\ keyOf[p] = t
    BY <2>1 DEF Known!Inv, Known!MapConsistent, Known!FunctionsAreOpen
  <2>4. p \in Promises
    BY <2>1, <2>3 DEF Known!Inv, Known!TypeOK
  <2>5. ASSUME NEW u \in Tasks \ {t} PROVE promises[u] # p
    BY <2>1, <2>3, <2>5 DEF Known!Inv, Known!MapConsistent, Known!OwnedHasData, Known!has
  <2> HIDE DEF p
  <2>6. pstate'[p] = "running" /\ \A q \in Promises \ {p} : pstate'[q] = pstate[q]
    BY <2>1, <2>4 DEF Known!Inv, Known!TypeOK
  <2> QED BY <2>2, <2>3, <2>4, <2>5, <2>6
<1>2. CASE Map!ResolveUnasked(t, "value")
  <2>1. PICK p \in Map!Fresh : /\ promises' = [promises EXCEPT ![t] = p]
                               /\ pstate' = [pstate EXCEPT ![p] = "running"]
                               /\ keyOf' = [keyOf EXCEPT ![p] = t]
    BY <1>2 DEF Map!ResolveUnasked
  <2>2. /\ p \in Promises /\ pstate[p] # "running"
        /\ \A u \in Tasks : promises[u] # p
    BY DEF Map!Fresh, Map!Settled
  <2>3. /\ promises'[t] = p /\ keyOf'[p] = t /\ pstate'[p] = "running"
        /\ \A u \in Tasks \ {t} : promises'[u] = promises[u]
        /\ \A q \in Promises \ {p} : pstate'[q] = pstate[q] /\ keyOf'[q] = keyOf[q]
    BY <2>1, <2>2 DEF Known!Inv, Known!TypeOK
  <2>4. \A g \in Gets : heard[g] # p
    BY <2>3, NewIsUnheard
  <2> QED BY <2>2, <2>3, <2>4
<1> QED BY <1>1, <1>2 DEF Map!Resolve

-----------------------------------------------------------------------------
(* What a report does                                                      *)

LEMMA ReportEffect ==
  ASSUME Types, AcksInOrder, NEW t \in Tasks, NEW st \in Reports, Report(t, st)
  PROVE  /\ reports' \in [Tasks -> Seq(Reports)]
         /\ \A u \in Tasks, r \in Reports : Reported(u, r) => Reported(u, r)'
         /\ Reported(t, st)'
         /\ store' \in [Tasks -> Reports \union {"none"}]
         /\ store'[t] = st /\ \A u \in Tasks \ {t} : store'[u] = store[u]
         /\ missed' \subseteq Tasks /\ patterns' = patterns
         /\ \/ wire' = wire /\ missed' = missed \union {t}
            \/ wire' = Append(wire, <<t, st>>) /\ missed' = missed
<1>1. reports' = [reports EXCEPT ![t] = Append(reports[t], st)]
  BY DEF Report
<1>2. reports[t] \in Seq(Reports) /\ Append(reports[t], st) \in Seq(Reports)
  BY DEF Types
<1>3. reports' \in [Tasks -> Seq(Reports)]
  BY <1>1, <1>2 DEF Types
<1>4. /\ Len(reports'[t]) = Len(reports[t]) + 1 /\ Len(reports[t]) \in Nat
      /\ \A i \in 1..Len(reports[t]) : reports'[t][i] = reports[t][i]
      /\ reports'[t][Len(reports[t]) + 1] = st
      /\ \A u \in Tasks \ {t} : reports'[u] = reports[u]
  BY <1>1, <1>2 DEF Types
<1>5. \A u \in Tasks, r \in Reports : Reported(u, r) => Reported(u, r)'
  BY <1>4 DEF Reported
<1>6. Reported(t, st)'
  BY <1>4 DEF Reported
<1> QED BY <1>3, <1>5, <1>6 DEF Report, Types

\* A report joins the others at the end of the wire.
LEMMA WireGrows ==
  ASSUME AcksInOrder, NEW m \in Messages, wire' = Append(wire, m)
  PROVE  /\ \A u \in Tasks : OnWire(u) => OnWire(u)'
         /\ \A i \in 1..Len(wire') : wire'[i] = m \/ \E j \in 1..Len(wire) : wire'[i] = wire[j]
         /\ \E i \in 1..Len(wire') : wire'[i] = m
<1>1. /\ Len(wire') = Len(wire) + 1 /\ Len(wire) \in Nat
      /\ wire'[Len(wire) + 1] = m
      /\ \A i \in 1..Len(wire) : wire'[i] = wire[i]
  BY Appended DEF AcksInOrder
<1>2. \A u \in Tasks : OnWire(u) => OnWire(u)'
  BY <1>1 DEF OnWire
<1> QED BY <1>1, <1>2

LEMMA WireShrinks ==
  ASSUME AcksInOrder, wire # <<>>, wire' = Tail(wire)
  PROVE  /\ \A u \in Tasks : OnWire(u) => OnWire(u)' \/ Head(wire) = <<u, "success">>
         /\ \A i \in 1..Len(wire') : \E j \in 1..Len(wire) : wire'[i] = wire[j]
<1>1. /\ Len(wire) \in Nat \ {0} /\ Len(wire') = Len(wire) - 1
      /\ Head(wire) = wire[1]
      /\ \A i \in 1..Len(wire') : wire'[i] = wire[i + 1] /\ i + 1 \in 1..Len(wire)
  BY Shifted DEF AcksInOrder
<1>2. ASSUME NEW u \in Tasks, NEW i \in 1..Len(wire), wire[i] = <<u, "success">>, i # 1
      PROVE  OnWire(u)'
  <2>1. i - 1 \in 1..Len(wire') /\ wire'[i - 1] = wire[i]
    BY <1>1, <1>2
  <2> QED BY <1>2, <2>1 DEF OnWire
<1> QED BY <1>1, <1>2 DEF OnWire

-----------------------------------------------------------------------------
(* What keeps the invariants                                               *)

Answers == Sources /\ Hears /\ Wakes

LEMMA KeepSources ==
  ASSUME Sources, Types, Settles, UNCHANGED <<store, reports, reply, payload>>,
         \A i \in 1..Len(wire') : Len(wire'[i]) = 2 => \E j \in 1..Len(wire) : wire'[i] = wire[j],
         \A g \in Gets : result'[g] \in Reports =>
           result'[g] = result[g] \/ Reported(TaskOf[g], result'[g])
  PROVE  Sources'
<1>1. \A t, st : Reported(t, st) <=> Reported(t, st)'
  BY DEF Reported
<1>2. /\ \A t \in Tasks : store'[t] # "none" => Reported(t, store[t])'
      /\ \A g \in Gets : reply'[g] # "none" => Reported(TaskOf[g], reply[g])'
  BY <1>1 DEF Sources
<1>3. \A i \in 1..Len(wire') : Len(wire'[i]) = 2 => Reported(wire[i][1], wire[i][2])'
  BY DEF Sources, Reported
<1>4. \A g \in Gets : result'[g] \in Reports => Reported(TaskOf[g], result[g])'
  BY DEF Sources, Reported
<1>5. \A p \in Promises : pstate'[p] \in {"running", "fulfilled"} =>
        keyOf'[p] \in Tasks /\ payload'[p] \in Reports /\ Reported(keyOf[p], payload[p])'
  BY DEF Settles, Sources, Reported
<1> QED BY <1>2, <1>3, <1>4, <1>5 DEF Sources

LEMMA KeepHears ==
  ASSUME Hears, Settles,
         \A g \in Gets : heard'[g] = heard[g] \/ heard'[g] = None,
         \A g \in Gets : op'[g] \in {"awaiting", "listening"} =>
           op[g] \in {"awaiting", "listening"} /\ heard'[g] = heard[g]
  PROVE  Hears'
BY DEF Hears, Settles

LEMMA KeepWakes ==
  ASSUME Wakes,
         \A t \in Tasks : Sure(t)' => Sure(t),
         \A t \in Tasks : Sure(t)' /\ OnWire(t) => OnWire(t)' \/ (~Waited(t)' /\ Map!has(t)'),
         \A t \in Tasks : Waited(t)' => Waited(t),
         \A t \in Tasks : Sure(t)' /\ Unaware(t)' => Unaware(t) /\ (Map!has(t) => Map!has(t)')
  PROVE  Wakes'
BY DEF Wakes

\* Deleting takes its time, and once it is over the success is gone.
SureStays ==
  /\ UNCHANGED store /\ missed \subseteq missed'
  /\ \A d \in Deletes : op[d] = "asking" => op'[d] = "asking"

LEMMA KeepSure ==
  ASSUME SureStays, NEW t \in Tasks PROVE Sure(t)' => Sure(t)
BY DEF SureStays, Sure

LEMMA KeepWaited ==
  ASSUME Settles, Known!Inv, NEW t \in Tasks PROVE Waited(t)' => Waited(t)
<1> SUFFICES ASSUME Map!has(t)', pstate'[promises'[t]] = "open" PROVE Waited(t)
  BY DEF Waited
<1>1. promises'[t] = promises[t] /\ promises[t] # None
  BY DEF Map!has, Settles
<1>2. promises[t] \in Promises
  BY <1>1 DEF Known!Inv, Known!TypeOK
<1> QED BY <1>1, <1>2 DEF Settles, Waited, Map!has

\* A step without reports or new waits, of whoever makes it.
LEMMA QuietAnswers ==
  ASSUME Answers, Types, Known!Inv, UNCHANGED <<mapVars, store, reports, reply>>,
         missed \subseteq missed',
         \A i \in 1..Len(wire') : Len(wire'[i]) = 2 => \E j \in 1..Len(wire) : wire'[i] = wire[j],
         \A t \in Tasks : OnWire(t) => OnWire(t)' \/ t \in missed',
         \A g \in Gets : result'[g] \in Reports =>
           result'[g] = result[g] \/ Reported(TaskOf[g], result'[g]),
         \A g \in Gets : heard'[g] = heard[g] \/ heard'[g] = None,
         \A g \in Gets : op'[g] \in {"awaiting", "listening"} =>
           op[g] \in {"awaiting", "listening"} /\ heard'[g] = heard[g],
         \A o \in Gets \union Deletes :
           op'[o] = op[o] \/ (op[o] # "asking" /\ op'[o] # "replied")
             \/ (o \in Gets /\ op'[o] # "replied")
  PROVE  Answers'
<1> USE DEF Answers
<1>1. Settles /\ payload' = payload
  BY StutterSettles
<1>2. Sources'
  BY <1>1, KeepSources
<1>3. Hears'
  BY <1>1, KeepHears
<1>4. SureStays
  <2>1. \A d \in Deletes : d \notin Gets
    BY BackendAssumption
  <2> QED BY <2>1 DEF SureStays
<1>5. \A t \in Tasks : Sure(t)' => Sure(t) /\ t \notin missed'
  BY <1>4, KeepSure DEF Sure
<1>6. \A t \in Tasks : Waited(t)' => Waited(t)
  BY <1>1, KeepWaited
<1>7. \A t \in Tasks : Map!has(t)' <=> Map!has(t)
  BY DEF mapVars, Map!has
<1>8. \A t \in Tasks : Unaware(t)' => Unaware(t)
  BY DEF Unaware
<1>9. Wakes'
  BY <1>5, <1>6, <1>7, <1>8, KeepWakes
<1> QED BY <1>2, <1>3, <1>9

-----------------------------------------------------------------------------
(* Types                                                                   *)

\* Whatever a get() takes from the promise it awaits.
LEMMA OutcomeTyped ==
  ASSUME Types, Hears, NEW g \in Gets, op[g] \in {"awaiting", "listening"}
  PROVE  Outcome(heard[g]) \in Reports \union {"none", "rejected"}
BY DEF Outcome, Hears, Types

LEMMA ListenTyped ==
  ASSUME Types, Known!Inv', NEW g \in Gets, Listen(g)
  PROVE  heard' \in [Gets -> Promises \union {None}] /\ payload' = payload
<1>1. TaskOf[g] \in Tasks
  BY TasksOf, GetsInOps
<1>2. promises'[TaskOf[g]] \in Promises \union {None}
  BY <1>1 DEF Known!Inv, Known!TypeOK
<1> QED BY <1>2 DEF Listen, Types, mapVars

LEMMA TypesStep ==
  ASSUME IInv, Types, Hears, Known!Inv', [Next]_vars PROVE Types'
<1>1. CASE UNCHANGED vars
  BY <1>1 DEF Types, vars, mapVars, callVars, serverVars
<1>2. CASE SubConnect \/ SubSend \/ Acknowledged \/ Attach
  BY <1>2 DEF Types, SubConnect, SubSend, Acknowledged, Attach, mapVars, callVars,
     serverVars
<1>3. CASE Psubscribed
  <2>1. Sub \in Proved!Owners
    BY <1>3 DEF Psubscribed, IInv, SubRest, SubHolds, EndAfterSub, Proved!Owners
  <2>2. got[Sub] \in Conns
    BY <2>1 DEF IInv, Proved!Inv, Proved!TypeOK, Proved!Custody, Proved!GotIffOwner,
       Proved!Owners
  <2> QED BY <1>3, <2>2 DEF Types, Psubscribed, mapVars, callVars
<1>4. CASE OnMessage
  <2>1. Head(wire)[2] \in Reports
    BY <1>4, HeadIsReport DEF OnMessage, IInv, SubRest
  <2>2. payload' \in [Promises -> Reports \union {"none"}]
    BY <1>4, <2>1 DEF Types, OnMessage
  <2> QED BY <1>4, <2>2 DEF Types, OnMessage, callVars
<1>5. CASE Unheard
  <2>1. Head(wire)[1] \in Tasks
    BY <1>5, HeadIsReport DEF Unheard, IInv, SubRest
  <2> QED BY <1>5, <2>1 DEF Types, Unheard, mapVars, callVars
<1>6. CASE EndUnsubscribe \/ Punsubscribed \/ Unacknowledged \/ EndReturn \/ EndDestroy
           \/ EndResume
  BY <1>6 DEF Types, EndUnsubscribe, Punsubscribed, Unacknowledged, EndReturn, EndDestroy,
     EndResume, mapVars, callVars, serverVars
<1>7. CASE Created \/ DoResolve \/ Evict
  BY <1>7 DEF Types, Created, DoResolve, Evict, mapVars, callVars, serverVars
<1>8. ASSUME NEW t \in Tasks, WorkerReport(t) PROVE Types'
  <2>1. PICK st \in Reports : Report(t, st)
    BY <1>8, BackendAssumption DEF WorkerReport, Reports
  <2> QED BY <1>8, <2>1, ReportEffect DEF IInv, SubRest, Types, WorkerReport, mapVars,
             callVars
<1>9. ASSUME NEW o \in Ops, Call(o) \/ Send(o) PROVE Types'
  BY <1>9 DEF Types, Call, Send, mapVars, serverVars
<1>10. ASSUME NEW o \in Ops, Answer(o) PROVE Types'
  <2>1. TaskOf[o] \in Tasks
    BY TasksOf
  <2>2. UNCHANGED <<mapVars, heard, result, sub, ending>>
    BY <1>10 DEF Answer
  <2>3. CASE reply' = [reply EXCEPT ![o] = store[TaskOf[o]]] /\ UNCHANGED serverVars
    BY <2>1, <2>2, <2>3 DEF Types, mapVars, serverVars
  <2>4. CASE /\ store' = [store EXCEPT ![TaskOf[o]] = "none"]
             /\ UNCHANGED <<reply, reports, patterns, wire, missed>>
    BY <2>2, <2>4 DEF Types, mapVars
  <2>5. CASE Report(TaskOf[o], "success") /\ UNCHANGED reply
    BY <2>1, <2>2, <2>5, ReportEffect DEF IInv, SubRest, Types, mapVars, Reports
  <2> QED BY <1>10, <2>3, <2>4, <2>5 DEF Answer
<1>11. ASSUME NEW o \in Ops, FinishReplied(o) PROVE Types'
  BY <1>11 DEF Types, FinishReplied, Finish, mapVars, serverVars, Reports
<1>12. ASSUME NEW g \in Gets, GetListening(g) \/ GetAwait(g) PROVE Types'
  <2>1. heard' \in [Gets -> Promises \union {None}] /\ payload' = payload
    BY <1>12, ListenTyped DEF GetListening, GetAwait
  <2> QED BY <1>12, <2>1 DEF Types, GetListening, GetAwait, serverVars
<1>13. ASSUME NEW g \in Gets, FinishHeard(g) \/ HearListening(g) PROVE Types'
  <2>1. Outcome(heard[g]) \in Reports \union {"none", "rejected"}
    BY <1>13, OutcomeTyped DEF FinishHeard, HearListening
  <2>2. result' \in [Gets -> Reports \union {"none", "rejected", "timeout"}]
    BY <1>13, <2>1 DEF Types, FinishHeard, Finish, HearListening
  <2>3. UNCHANGED <<mapVars, reply, sub, ending, serverVars>> /\ Forget(g)
    BY <1>13 DEF FinishHeard, Finish, HearListening
  <2> QED BY <2>2, <2>3 DEF Types, Forget, mapVars, serverVars
<1>14. ASSUME NEW g \in Gets, IgnoreReplied(g) \/ TimeOut(g) PROVE Types'
  BY <1>14 DEF Types, IgnoreReplied, TimeOut, Finish, Forget, mapVars, serverVars
<1> QED BY <1>1, <1>2, <1>3, <1>4, <1>5, <1>6, <1>7, <1>8, <1>9, <1>10, <1>11, <1>12, <1>13,
           <1>14
        DEF Next, SubStep, EndStep, OpStep, GetStep

-----------------------------------------------------------------------------
(* Answers                                                                 *)

\* Acknowledgements come and go between the reports.
LEMMA AcksPass ==
  ASSUME AcksInOrder, NEW m \in {<<"ack">>, <<"unack">>},
         \/ wire' = wire
         \/ wire' = Append(wire, m)
         \/ wire # <<>> /\ Head(wire) = m /\ wire' = Tail(wire)
  PROVE  /\ \A i \in 1..Len(wire') : Len(wire'[i]) = 2 => \E j \in 1..Len(wire) : wire'[i] = wire[j]
         /\ \A t \in Tasks : OnWire(t) => OnWire(t)'
<1>1. m \in Messages /\ Len(m) # 2 /\ \A t \in Tasks : m # <<t, "success">>
  BY MessagesDiffer
<1>2. CASE wire' = wire
  BY <1>2 DEF OnWire
<1>3. CASE wire' = Append(wire, m)
  BY <1>1, <1>3, WireGrows
<1>4. CASE wire # <<>> /\ Head(wire) = m /\ wire' = Tail(wire)
  BY <1>1, <1>4, WireShrinks
<1> QED BY <1>2, <1>3, <1>4

\* The subscriber, but for onMessage(), end() and the pool.
LEMMA QuietStep ==
  ASSUME IInv, Types, Known!Inv, Answers,
         UNCHANGED vars \/ (SubStep /\ ~OnMessage) \/ EndStep \/ Created
  PROVE  Answers'
<1> USE DEF IInv, SubRest
<1>1. UNCHANGED <<mapVars, callVars, store, reports>>
  BY DEF vars, SubStep, SubConnect, SubSend, Psubscribed, Acknowledged, Attach, Unheard,
     EndStep, EndUnsubscribe, Punsubscribed, Unacknowledged, EndReturn, EndDestroy,
     EndResume, Created, serverVars
<1>2. CASE Unheard
  <2>1. /\ wire # <<>> /\ wire' = Tail(wire) /\ missed' = missed \union {Head(wire)[1]}
        /\ Len(Head(wire)) = 2
    BY <1>2 DEF Unheard
  <2>2. /\ \A t \in Tasks : OnWire(t) => OnWire(t)' \/ t \in missed'
        /\ \A i \in 1..Len(wire') : \E j \in 1..Len(wire) : wire'[i] = wire[j]
    BY <2>1, HeadIsReport, WireShrinks
  <2> QED BY <1>1, <2>1, <2>2, QuietAnswers DEF callVars
<1>3. CASE ~Unheard
  <2>1. missed' = missed
    BY <1>3 DEF vars, SubStep, SubConnect, SubSend, Psubscribed, Acknowledged, Attach,
       EndStep, EndUnsubscribe, Punsubscribed, Unacknowledged, EndReturn, EndDestroy,
       EndResume, Created, serverVars
  <2>2. \E m \in {<<"ack">>, <<"unack">>} :
          \/ wire' = wire
          \/ wire' = Append(wire, m)
          \/ wire # <<>> /\ Head(wire) = m /\ wire' = Tail(wire)
    BY <1>3 DEF vars, SubStep, SubConnect, SubSend, Psubscribed, Acknowledged, Attach,
       EndStep, EndUnsubscribe, Punsubscribed, Unacknowledged, EndReturn, EndDestroy,
       EndResume, Created, serverVars
  <2>3. /\ \A i \in 1..Len(wire') : Len(wire'[i]) = 2 => \E j \in 1..Len(wire) : wire'[i] = wire[j]
        /\ \A t \in Tasks : OnWire(t) => OnWire(t)'
    BY <2>2, AcksPass
  <2> QED BY <1>1, <2>1, <2>3, QuietAnswers DEF callVars
<1> QED BY <1>2, <1>3

\* What a get() takes from its promise was reported on its task.
LEMMA OutcomeReported ==
  ASSUME Types, Hears, Sources, NEW g \in Gets, op[g] \in {"awaiting", "listening"},
         Outcome(heard[g]) \in Reports
  PROVE  Reported(TaskOf[g], Outcome(heard[g]))
<1>1. heard[g] \in Promises /\ keyOf[heard[g]] = TaskOf[g]
  BY DEF Hears
<1>2. pstate[heard[g]] = "fulfilled" /\ Outcome(heard[g]) = payload[heard[g]]
  BY DEF Outcome, Reports
<1> QED BY <1>1, <1>2 DEF Sources

LEMMA QuietCall ==
  ASSUME IInv, Types, Known!Inv, Answers, NEW o \in Ops, Call(o) \/ FinishReplied(o)
  PROVE  Answers'
<1> USE DEF IInv, CallsRest, OpsTyped
<1>1. /\ UNCHANGED <<mapVars, heard, reply, serverVars>>
      /\ op[o] \in {"idle", "replied"} /\ op'[o] \in {"connecting", "done"}
      /\ \A b \in Ops \ {o} : op'[b] = op[b]
  BY DEF Call, FinishReplied, Finish, Goto
<1>2. \A g \in Gets : result'[g] \in Reports =>
        result'[g] = result[g] \/ Reported(TaskOf[g], result'[g])
  <2>1. CASE Call(o)
    BY <2>1 DEF Call
  <2>2. CASE FinishReplied(o) /\ o \in Gets
    <3>1. Reported(TaskOf[o], "success")
      BY <2>2 DEF FinishReplied, Final, Answers, Sources
    <3>2. result' = [result EXCEPT ![o] = "success"]
      BY <2>2 DEF FinishReplied, Finish
    <3> QED BY <3>1, <3>2 DEF Types
  <2>3. CASE FinishReplied(o) /\ o \notin Gets
    BY <2>3 DEF FinishReplied, Finish
  <2> QED BY <2>1, <2>2, <2>3
<1>3. \A t \in Tasks : OnWire(t) => OnWire(t)'
  BY <1>1 DEF OnWire, serverVars
<1> QED BY <1>1, <1>2, <1>3, GetsInOps, QuietAnswers DEF serverVars

LEMMA QuietGet ==
  ASSUME IInv, Types, Known!Inv, Answers, NEW g \in Gets,
         IgnoreReplied(g) \/ FinishHeard(g) \/ HearListening(g) \/ TimeOut(g)
  PROVE  Answers'
<1> USE DEF IInv, CallsRest, OpsTyped
<1>0. g \in Ops
  BY GetsInOps
<1>1. /\ UNCHANGED <<mapVars, reply, serverVars>>
      /\ \/ op[g] \in {"replied", "awaiting", "listening"} /\ op'[g] = "done"
         \/ op[g] \in {"asking", "replied"} /\ op'[g] = op[g]
      /\ \A b \in Ops \ {g} : op'[b] = op[b]
      /\ heard' = heard \/ Forget(g)
  BY <1>0 DEF IgnoreReplied, FinishHeard, HearListening, TimeOut, Finish, Goto
<1>2. \A b \in Gets : heard'[b] = heard[b] \/ (b = g /\ heard'[b] = None)
  BY <1>1 DEF Forget, Types
<1>3. \A b \in Gets : result'[b] \in Reports =>
        result'[b] = result[b] \/ Reported(TaskOf[b], result'[b])
  <2>1. CASE IgnoreReplied(g)
    BY <2>1 DEF IgnoreReplied
  <2>2. CASE FinishHeard(g) \/ HearListening(g)
    <3>1. result' = [result EXCEPT ![g] = Outcome(heard[g])]
      BY <2>2 DEF FinishHeard, HearListening, Finish
    <3>2. Outcome(heard[g]) \in Reports => Reported(TaskOf[g], Outcome(heard[g]))
      BY <2>2, OutcomeReported DEF FinishHeard, HearListening, Answers
    <3> QED BY <3>1, <3>2 DEF Types
  <2>3. CASE TimeOut(g)
    BY <2>3 DEF TimeOut, Finish, Types, Reports
  <2> QED BY <2>1, <2>2, <2>3
<1>4. \A t \in Tasks : OnWire(t) => OnWire(t)'
  BY <1>1 DEF OnWire, serverVars
<1> QED BY <1>0, <1>1, <1>2, <1>3, <1>4, GetsInOps, QuietAnswers DEF serverVars

\* Promises that settle or leave the map, while nothing is sent or read.
LEMMA SettlingAnswers ==
  ASSUME Known!Inv, Types, Answers, Settles,
         UNCHANGED <<payload, reply, heard, result, serverVars>>,
         \A g \in Gets : op'[g] = op[g] \/ op'[g] \in {"connecting", "asking"},
         \A d \in Deletes : op[d] = "asking" => op'[d] = "asking",
         \A t \in Tasks : Sure(t)' /\ Unaware(t) /\ Map!has(t) => Map!has(t)'
  PROVE  Answers'
<1> USE DEF Answers
<1>1. Sources'
  BY KeepSources DEF serverVars
<1>2. Hears'
  BY KeepHears
<1>3. \A t \in Tasks : Sure(t)' => Sure(t)
  BY KeepSure DEF SureStays, serverVars
<1>4. \A t \in Tasks : Waited(t)' => Waited(t)
  BY KeepWaited
<1>5. \A t \in Tasks : OnWire(t) => OnWire(t)'
  BY DEF OnWire, serverVars
<1>6. \A t \in Tasks : Unaware(t)' => Unaware(t)
  BY DEF Unaware
<1>7. Wakes'
  BY <1>3, <1>4, <1>5, <1>6, KeepWakes
<1> QED BY <1>1, <1>2, <1>7

LEMMA SendAnswers ==
  ASSUME IInv, Types, Known!Inv, Answers, NEW o \in Ops, Send(o)
  PROVE  Answers'
<1> USE DEF IInv, CallsRest, OpsTyped
<1>1. /\ UNCHANGED <<reply, heard, result, serverVars>>
      /\ op[o] = "connecting" /\ op'[o] = "asking"
      /\ \A b \in Ops \ {o} : op'[b] = op[b]
  BY DEF Send, Goto
<1>2. /\ \A g \in Gets : op'[g] = op[g] \/ op'[g] = "asking"
      /\ \A d \in Deletes : op[d] = "asking" => op'[d] = "asking"
  BY <1>1, GetsInOps
<1>3. CASE UNCHANGED mapVars
  <2>1. Settles /\ payload' = payload
    BY <1>3, StutterSettles
  <2>2. \A t \in Tasks : Map!has(t) => Map!has(t)'
    BY <1>3 DEF mapVars, Map!has
  <2> QED BY <1>1, <1>2, <2>1, <2>2, SettlingAnswers
<1>4. CASE o \in Deletes /\ Map!Delete(TaskOf[o]) /\ UNCHANGED payload
  <2>1. TaskOf[o] \in Tasks /\ Map!DoDelete(TaskOf[o])
    BY <1>4, TasksOf DEF Map!Delete
  <2>2. Settles /\ \A u \in Tasks \ {TaskOf[o]} : promises'[u] = promises[u]
    BY <2>1, DropSettles
  <2>3. ~Sure(TaskOf[o])'
    BY <1>1, <1>4 DEF Sure
  <2>4. \A t \in Tasks : Sure(t)' /\ Unaware(t) /\ Map!has(t) => Map!has(t)'
    BY <2>2, <2>3 DEF Map!has
  <2> QED BY <1>1, <1>2, <1>4, <2>2, <2>4, SettlingAnswers
<1> QED BY <1>3, <1>4 DEF Send

LEMMA WorldAnswers ==
  ASSUME IInv, Types, Known!Inv, Answers, DoResolve \/ Evict PROVE Answers'
<1>1. CASE DoResolve
  <2>1. PICK p \in Promises : Map!DoResolve(p)
    BY <1>1 DEF DoResolve
  <2>2. Settles /\ promises' = promises
    BY <2>1, TakenSettles
  <2> QED BY <1>1, <2>2, SettlingAnswers DEF DoResolve, callVars, Map!has
<1>2. CASE Evict
  <2>1. PICK t \in Tasks : Map!DoDelete(t)
    BY <1>2 DEF Evict, Map!Timer, Map!TimerFire, Map!StaleTimerFire
  <2>2. Settles
    BY <2>1, DropSettles
  <2>3. \A u \in Tasks : ~Unaware(u)
    BY <1>2, GetsInOps DEF Evict, Unaware
  <2> QED BY <1>2, <2>2, <2>3, SettlingAnswers DEF Evict, callVars
<1> QED BY <1>1, <1>2

\* A report is on its way, or was missed.
LEMMA ReportAnswers ==
  ASSUME AcksInOrder, Types, Known!Inv, Answers,
         NEW t \in Tasks, NEW st \in Reports, Report(t, st),
         UNCHANGED <<mapVars, reply, heard, result>>,
         \A b \in Gets \union Deletes : op'[b] = op[b]
  PROVE  Answers'
<1> USE DEF Answers
<1>1. /\ \A u \in Tasks, r \in Reports : Reported(u, r) => Reported(u, r)'
      /\ Reported(t, st)'
      /\ store'[t] = st /\ \A u \in Tasks \ {t} : store'[u] = store[u]
      /\ \/ wire' = wire /\ missed' = missed \union {t}
         \/ wire' = Append(wire, <<t, st>>) /\ missed' = missed
  BY ReportEffect
<1>2. <<t, st>> \in Messages
  BY MessagesDiffer DEF Reports
<1> DEFINE Later(u, r) == \E i \in 1..Len(reports'[u]) : reports'[u][i] = r
<1>3. Later(t, st) /\ \A u \in Tasks, r \in Reports : Reported(u, r) => Later(u, r)
  BY <1>1 DEF Reported
<1> HIDE DEF Later
<1>4. \A u \in Tasks : store'[u] # "none" => Later(u, store'[u])
  BY <1>1, <1>3 DEF Sources, Types
<1>5. \A i \in 1..Len(wire') : Len(wire'[i]) = 2 => Later(wire'[i][1], wire'[i][2])
  <2>1. ASSUME NEW i \in 1..Len(wire), Len(wire[i]) = 2
        PROVE  Later(wire[i][1], wire[i][2])
    <3>1. wire[i] \in Tasks \X Reports
      BY <2>1, MessagesDiffer DEF AcksInOrder, Reports
    <3>2. Reported(wire[i][1], wire[i][2])
      BY <2>1 DEF Sources
    <3> QED BY <1>3, <3>1, <3>2
  <2>2. \A i \in 1..Len(wire') : wire'[i] = <<t, st>> \/ \E j \in 1..Len(wire) : wire'[i] = wire[j]
    BY <1>1, <1>2, WireGrows
  <2> QED BY <1>3, <2>1, <2>2
<1>6. \A g \in Gets : reply'[g] # "none" => Later(TaskOf[g], reply'[g])
  BY <1>3, TasksOf, GetsInOps DEF Sources, Types
<1>7. \A g \in Gets : result'[g] \in Reports => Later(TaskOf[g], result'[g])
  BY <1>3, TasksOf, GetsInOps DEF Sources
<1>8. \A p \in Promises : pstate'[p] \in {"running", "fulfilled"} =>
        keyOf'[p] \in Tasks /\ payload'[p] \in Reports /\ Later(keyOf'[p], payload'[p])
  BY <1>3 DEF Sources, mapVars
<1>9. Sources'
  BY <1>4, <1>5, <1>6, <1>7, <1>8 DEF Sources, Reported, Later
<1>10. Hears'
  BY DEF Hears, mapVars
<1>11. ASSUME NEW u \in Tasks, Sure(u)' PROVE OnWire(u)' \/ (Sure(u) /\ (OnWire(u) => OnWire(u)'))
  <2>1. CASE u = t
    <3>1. st = "success" /\ wire' = Append(wire, <<t, st>>)
      BY <1>1, <1>11, <2>1 DEF Sure
    <3> QED BY <1>2, <2>1, <3>1, WireGrows DEF OnWire
  <2>2. CASE u # t
    <3>1. Sure(u)
      BY <1>1, <1>11, <2>2 DEF Sure
    <3> QED BY <1>1, <1>2, <3>1, WireGrows DEF OnWire
  <2> QED BY <2>1, <2>2
<1>12. Wakes'
  BY <1>11 DEF Wakes, Waited, Unaware, Map!has, mapVars
<1> QED BY <1>9, <1>10, <1>12

LEMMA AnswerAnswers ==
  ASSUME IInv, Types, Known!Inv, Answers, NEW o \in Ops, Answer(o)
  PROVE  Answers'
<1> USE DEF IInv, CallsRest, OpsTyped, SubRest, Answers
<1>0. TaskOf[o] \in Tasks /\ Gets \subseteq Ops /\ Deletes \subseteq Ops
  BY TasksOf, GetsInOps
<1>1. /\ UNCHANGED <<mapVars, heard, result>>
      /\ op[o] = "asking" /\ op'[o] = "replied"
      /\ \A b \in Ops \ {o} : op'[b] = op[b]
  BY DEF Answer, Goto
<1>2. CASE o \in Puts /\ Report(TaskOf[o], "success") /\ UNCHANGED reply
  <2>1. \A b \in Gets \union Deletes : op'[b] = op[b]
    BY <1>0, <1>1, <1>2, BackendAssumption
  <2>2. "success" \in Reports
    BY DEF Reports
  <2> QED BY <1>0, <1>1, <1>2, <2>1, <2>2, ReportAnswers
<1>3. Hears'
  BY <1>0, <1>1 DEF Hears, mapVars
<1>4. CASE /\ o \in Gets /\ UNCHANGED serverVars
           /\ reply' = [reply EXCEPT ![o] = store[TaskOf[o]]]
  <2>1. \A g \in Gets : reply'[g] = IF g = o THEN store[TaskOf[o]] ELSE reply[g]
    BY <1>4 DEF Types
  <2>2. \A g \in Gets : reply'[g] # "none" => Reported(TaskOf[g], reply'[g])
    BY <1>0, <2>1 DEF Sources
  <2>3. Sources'
    BY <1>1, <1>4, <2>2 DEF Sources, Reported, mapVars, serverVars
  <2>4. o \notin Deletes
    BY <1>4, BackendAssumption
  <2>5. \A t \in Tasks : Sure(t)' => Sure(t)
    BY <1>0, <1>1, <1>4, <2>4 DEF Sure, serverVars
  <2>6. \A t \in Tasks : Sure(t)' /\ Unaware(t)' => Unaware(t)
    BY <1>0, <1>1, <2>1, <2>5 DEF Sure, Unaware
  <2>7. Wakes'
    BY <1>1, <1>4, <2>5, <2>6 DEF Wakes, OnWire, Waited, Map!has, mapVars, serverVars
  <2> QED BY <1>3, <2>3, <2>7
<1>5. CASE /\ o \in Deletes /\ store' = [store EXCEPT ![TaskOf[o]] = "none"]
           /\ UNCHANGED <<reply, reports, patterns, wire, missed>>
  <2>1. store'[TaskOf[o]] = "none" /\ \A t \in Tasks \ {TaskOf[o]} : store'[t] = store[t]
    BY <1>0, <1>5 DEF Types
  <2>2. Sources'
    BY <1>1, <1>5, <2>1 DEF Sources, Reported, mapVars
  <2>3. o \notin Gets
    BY <1>5, BackendAssumption
  <2>4. \A t \in Tasks : Sure(t)' => Sure(t)
    BY <1>0, <1>1, <1>5, <2>1 DEF Sure
  <2>5. \A t \in Tasks : Unaware(t)' => Unaware(t)
    BY <1>0, <1>1, <1>5, <2>3 DEF Unaware
  <2>6. Wakes'
    BY <1>1, <1>5, <2>4, <2>5 DEF Wakes, OnWire, Waited, Map!has, mapVars
  <2> QED BY <1>3, <2>2, <2>6
<1> QED BY <1>2, <1>4, <1>5 DEF Answer

\* A get() finds the promise of its task in the map, or makes it.
LEMMA ListenAnswers ==
  ASSUME IInv, Types, Known!Inv, Known!Inv', Answers, NEW g \in Gets,
         GetListening(g) \/ GetAwait(g)
  PROVE  Answers'
<1> USE DEF IInv, CallsRest, OpsTyped, Answers
<1> DEFINE t == TaskOf[g]
<1>0. t \in Tasks /\ Gets \subseteq Ops /\ Deletes \subseteq Ops /\ g \notin Deletes
  BY TasksOf, GetsInOps, BackendAssumption
<1>1. /\ UNCHANGED <<reply, result, serverVars>>
      /\ op'[g] \in {"listening", "awaiting", "done"}
      /\ \A b \in Ops \ {g} : op'[b] = op[b]
      /\ Listen(g)
      /\ ~Map!has(t) => op[g] = "replied" /\ reply[g] # "success"
  BY <1>0 DEF GetListening, GetAwait, Final, Goto
<1>2. \A b \in Gets : heard'[b] = IF b = g THEN promises'[t] ELSE heard[b]
  BY <1>1 DEF Listen, Types
<1>3. \A u \in Tasks : (Sure(u)' => Sure(u)) /\ (Unaware(u)' => Unaware(u))
  BY <1>0, <1>1 DEF Sure, Unaware, serverVars
<1> HIDE DEF t
<1>4. CASE Map!has(t) /\ UNCHANGED mapVars
  <2>1. promises[t] # None /\ promises[t] \in Promises
    BY <1>0, <1>4 DEF Map!has, Known!Inv, Known!TypeOK
  <2>2. keyOf[promises[t]] = t /\ pstate[promises[t]] # "unborn"
    BY <1>0, <2>1 DEF Known!Inv, Known!MapConsistent, Known!OwnedHasData, Known!has
  <2>3. Hears'
    BY <1>0, <1>1, <1>2, <1>4, <2>1, <2>2 DEF Hears, mapVars, t
  <2>4. Sources'
    BY <1>1, <1>4 DEF Sources, Reported, mapVars, serverVars
  <2>5. Wakes'
    BY <1>1, <1>3, <1>4 DEF Wakes, OnWire, Waited, Map!has, mapVars, serverVars
  <2> QED BY <2>3, <2>4, <2>5
<1>5. CASE Map!Get(t) /\ KeepHeard /\ UNCHANGED payload
  <2>1. PICK p \in Promises :
          /\ ~Map!has(t)
          /\ promises'[t] = p /\ keyOf'[p] = t /\ pstate'[p] = "open"
          /\ \A u \in Tasks \ {t} : promises'[u] = promises[u]
          /\ \A q \in Promises \ {p} : pstate'[q] = pstate[q] /\ keyOf'[q] = keyOf[q]
          /\ \A u \in Tasks : promises[u] # p
          /\ \A b \in Gets : heard[b] # p
    BY <1>0, <1>5, GetEffect
  <2>2. p # None
    BY BackendAssumption
  <2>3. Hears'
    BY <1>0, <1>1, <1>2, <2>1, <2>2 DEF Hears, t
  <2>4. \A q \in Promises : pstate'[q] \in {"running", "fulfilled"} =>
          pstate[q] = pstate'[q] /\ keyOf'[q] = keyOf[q]
    BY <2>1
  <2>5. Sources'
    BY <1>1, <1>5, <2>4 DEF Sources, Reported, serverVars
  <2>6. Unaware(t)
    BY <1>1, <2>1 DEF Unaware, t
  <2>7. \A u \in Tasks : OnWire(u)' <=> OnWire(u)
    BY <1>1 DEF OnWire, serverVars
  <2>8. ASSUME NEW u \in Tasks \ {t}
        PROVE  (Waited(u)' => Waited(u)) /\ (Map!has(u) => Map!has(u)')
    <3>1. promises'[u] = promises[u] /\ promises[u] # p
      BY <2>1
    <3>2. promises[u] \in Promises \union {None}
      BY DEF Known!Inv, Known!TypeOK
    <3> QED BY <2>1, <3>1, <3>2 DEF Waited, Map!has
  <2>9. Sure(t)' => OnWire(t)'
    BY <1>0, <1>3, <2>1, <2>6, <2>7 DEF Wakes
  <2>10. Wakes'
    BY <1>3, <2>7, <2>8, <2>9 DEF Wakes
  <2> QED BY <2>3, <2>5, <2>10
<1> QED BY <1>1, <1>4, <1>5 DEF Listen, t

\* onMessage() wakes whoever awaits the task, and leaves the promise for those
\* who do not yet.
LEMMA MessageAnswers ==
  ASSUME IInv, Types, Known!Inv, Answers, OnMessage PROVE Answers'
<1> USE DEF IInv, SubRest, Answers
<1>1. PICK t \in Tasks, st \in Reports : Head(wire) = <<t, st>>
  BY HeadIsReport DEF OnMessage
<1>2. Reported(t, st)
  <2>1. wire[1] = <<t, st>> /\ 1 \in 1..Len(wire)
    BY <1>1, HeadIsReport DEF OnMessage
  <2>2. Len(wire[1]) = 2 /\ wire[1][1] = t /\ wire[1][2] = st
    BY <2>1
  <2>3. Reported(wire[1][1], wire[1][2])
    BY <2>1, <2>2 DEF Sources
  <2> QED BY <2>2, <2>3
<1>3. /\ Map!Resolve(t, "value") /\ KeepHeard
      /\ wire # <<>> /\ wire' = Tail(wire)
      /\ payload' = [p \in Promises |-> IF pstate'[p] = "running" /\ pstate[p] # "running"
                                        THEN st ELSE payload[p]]
      /\ UNCHANGED <<callVars, store, reports, missed>>
  BY <1>1 DEF OnMessage, Accept
<1>4. PICK p \in Promises :
        /\ promises'[t] = p /\ keyOf'[p] = t
        /\ pstate[p] # "running" /\ pstate'[p] = "running"
        /\ \A u \in Tasks \ {t} : promises'[u] = promises[u] /\ promises[u] # p
        /\ \A q \in Promises \ {p} : pstate'[q] = pstate[q] /\ keyOf'[q] = keyOf[q]
        /\ \A g \in Gets : heard[g] = p => keyOf[p] = t
  BY <1>1, <1>3, ResolveEffect
<1>5. /\ \A u \in Tasks : OnWire(u) => OnWire(u)' \/ Head(wire) = <<u, "success">>
      /\ \A i \in 1..Len(wire') : \E j \in 1..Len(wire) : wire'[i] = wire[j]
  BY <1>3, WireShrinks
<1>6. \A q \in Promises : pstate'[q] \in {"running", "fulfilled"} =>
        /\ keyOf'[q] \in Tasks /\ payload'[q] \in Reports
        /\ Reported(keyOf'[q], payload'[q])
  <2>1. payload'[p] = st /\ \A q \in Promises \ {p} : payload'[q] = payload[q]
    BY <1>3, <1>4
  <2> QED BY <1>1, <1>2, <1>4, <2>1 DEF Sources
<1>7. \A i \in 1..Len(wire') : Len(wire'[i]) = 2 => Reported(wire'[i][1], wire'[i][2])
  BY <1>5 DEF Sources
<1>8. Sources'
  BY <1>3, <1>6, <1>7 DEF Sources, Reported, callVars
<1>9. Hears'
  BY <1>3, <1>4 DEF Hears, callVars
<1>10. \A u \in Tasks : (Sure(u)' => Sure(u)) /\ (Unaware(u)' => Unaware(u))
  BY <1>3 DEF Sure, Unaware, callVars
<1>11. ~Waited(t)' /\ Map!has(t)'
  <2>1. p # None
    BY BackendAssumption
  <2> QED BY <1>4, <2>1 DEF Waited, Map!has
<1>12. ASSUME NEW u \in Tasks \ {t}
       PROVE  /\ OnWire(u) => OnWire(u)'
              /\ Waited(u)' => Waited(u)
              /\ Map!has(u) => Map!has(u)'
  <2>1. Head(wire) # <<u, "success">>
    BY <1>1
  <2>2. promises'[u] = promises[u] /\ promises[u] # p
    BY <1>4
  <2>3. promises[u] \in Promises \union {None}
    BY DEF Known!Inv, Known!TypeOK
  <2> QED BY <1>4, <1>5, <2>1, <2>2, <2>3 DEF Waited, Map!has
<1>13. Wakes'
  BY <1>10, <1>11, <1>12 DEF Wakes
<1> QED BY <1>8, <1>9, <1>13

LEMMA AnswersStep ==
  ASSUME IInv, Types, Known!Inv, Known!Inv', Answers, [Next]_vars PROVE Answers'
<1>1. CASE UNCHANGED vars \/ (SubStep /\ ~OnMessage) \/ EndStep \/ Created
  BY <1>1, QuietStep
<1>2. ASSUME NEW o \in Ops, OpStep(o) PROVE Answers'
  BY <1>2, QuietCall, SendAnswers, AnswerAnswers DEF OpStep
<1>3. ASSUME NEW g \in Gets, GetStep(g) PROVE Answers'
  BY <1>3, QuietGet, ListenAnswers DEF GetStep
<1>4. ASSUME NEW t \in Tasks, WorkerReport(t) PROVE Answers'
  <2>1. PICK st \in Reports : Report(t, st)
    BY <1>4, BackendAssumption DEF WorkerReport, Reports
  <2> QED BY <1>4, <2>1, ReportAnswers DEF WorkerReport, callVars, IInv, SubRest
<1> QED BY <1>1, <1>2, <1>3, <1>4, MessageAnswers, WorldAnswers DEF Next

-----------------------------------------------------------------------------
(* The theorems                                                            *)

LEMMA InitCallsInv == Init => CallsInv
<1> SUFFICES ASSUME Init PROVE CallsInv
  OBVIOUS
<1>1. IInv
  BY InitIInv
<1>2. Known!Init
  BY DEF Init, Map!Init, Known!Init, Map!NoData, Known!NoData
<1>3. Known!Inv
  BY <1>2, MapFits, Known!InitInv DEF Known!InitInv
<1>4. Types
  <2>1. reports \in [Tasks -> Seq(Reports)]
    BY DEF Init
  <2> QED BY <2>1 DEF Init, Types
<1>5. \A t \in Tasks : ~Sure(t)
  BY DEF Init, Sure
<1>6. Sources /\ Hears /\ Wakes
  BY <1>5, GetsInOps DEF Init, Map!Init, Sources, Hears, Wakes, Reports
<1> QED BY <1>1, <1>3, <1>4, <1>6 DEF CallsInv

LEMMA NextCallsInv == CallsInv /\ [Next]_vars => CallsInv'
<1> SUFFICES ASSUME CallsInv, [Next]_vars PROVE CallsInv'
  OBVIOUS
<1> USE DEF CallsInv
<1>1. IInv'
  BY NextIInv
<1>2. Known!Inv'
  BY MapStep, MapFits, Known!NextInv DEF Known!NextInv, IInv, SubRest
<1>3. Types'
  BY <1>2, TypesStep
<1>4. (Sources /\ Hears /\ Wakes)'
  BY <1>2, AnswersStep DEF Answers
<1> QED BY <1>1, <1>2, <1>3, <1>4

\* Where each answer comes from, and who will be woken by what.
THEOREM RedisCallsInvariant == Spec => []CallsInv
<1>1. CallsInv /\ [Next]_vars => CallsInv'
  BY NextCallsInv
<1> QED BY <1>1, InitCallsInv, PTL DEF Spec

\* Type correctness, of the pool and the map as well.
THEOREM RedisTypeOK == Spec => []TypeOK
<1>1. CallsInv => TypeOK
  <2> SUFFICES ASSUME CallsInv PROVE TypeOK
    OBVIOUS
  <2>1. Pool!TypeOK
    BY DEF CallsInv, IInv, Proved!Inv, Proved!TypeOK, Proved!CallStates,
       Proved!CloserStates, Pool!TypeOK, Pool!CallStates, Pool!CloserStates
  <2>2. Map!TypeOK
    BY DEF CallsInv, Known!Inv, Known!TypeOK, Known!Entries, Known!NoData, Known!Status,
       Known!PromiseStates, Map!TypeOK, Map!Entries, Map!NoData, Map!Status,
       Map!PromiseStates
  <2> QED BY <2>1, <2>2 DEF CallsInv, IInv, CallsRest, OpsTyped, Types, Reports, TypeOK
<1> QED BY <1>1, RedisCallsInvariant, PTL

\* get() returns only what was reported on its own task, by way of GET or of the
\* subscriber, of a promise still in the map or long dropped from it.
THEOREM RedisAnswersAreReports == Spec => []AnswersAreReports
<1>1. CallsInv => AnswersAreReports
  <2> SUFFICES ASSUME CallsInv, NEW g \in Gets, result[g] \in {"success", "other"}
      PROVE  \E i \in DOMAIN reports[TaskOf[g]] : reports[TaskOf[g]][i] = result[g]
    BY DEF AnswersAreReports
  <2>1. Reported(TaskOf[g], result[g])
    BY DEF CallsInv, Sources, Reports
  <2>2. reports[TaskOf[g]] \in Seq(Reports)
    BY TasksOf, GetsInOps DEF CallsInv, Types
  <2> QED BY <2>1, <2>2 DEF Reported
<1> QED BY <1>1, RedisCallsInvariant, PTL

\* No wake-up is lost between GET and the wait: a get() that waits for a task that
\* succeeded has the promise of the map, so that the message is still to come.
THEOREM RedisWakeupComing == Spec => []WakeupComing
<1>1. CallsInv => WakeupComing
  <2> SUFFICES ASSUME CallsInv, NEW g \in Gets,
                      TaskOf[g] \notin missed, \A d \in Deletes : op[d] # "asking",
                      op[g] \in {"awaiting", "listening"}, pstate[heard[g]] = "open",
                      store[TaskOf[g]] = "success"
      PROVE  \E i \in DOMAIN wire : wire[i] = <<TaskOf[g], "success">>
    BY DEF WakeupComing
  <2>1. TaskOf[g] \in Tasks /\ Sure(TaskOf[g])
    BY TasksOf, GetsInOps DEF Sure
  <2>2. heard[g] # None /\ heard[g] \in Promises /\ keyOf[heard[g]] = TaskOf[g]
    BY DEF CallsInv, Hears
  <2>3. promises[TaskOf[g]] = heard[g]
    BY <2>2 DEF CallsInv, Known!Inv, Known!MapConsistent, Known!NoStrandedGetter
  <2>4. Waited(TaskOf[g])
    BY <2>2, <2>3 DEF Waited, Map!has
  <2>5. OnWire(TaskOf[g])
    BY <2>1, <2>4 DEF CallsInv, Wakes
  <2>6. DOMAIN wire = 1..Len(wire)
    BY DEF CallsInv, IInv, SubRest, AcksInOrder
  <2> QED BY <2>5, <2>6 DEF OnWire
<1> QED BY <1>1, RedisCallsInvariant, PTL
-----------------------------------------------------------------------------
(* The backend as a service                                                *)

\* A get() has returned when it is done or lost its race, and not before.
ReturnedInTime ==
  \A g \in Gets :
    /\ g \in late => result[g] = "timeout" /\ op[g] # "listening"
    /\ g \notin late /\ op[g] # "done" => result[g] = "none"

\* end() puts the subscriber's connection back before it calls destroyAll(), once.
EndInOrder ==
  /\ ending \in {"returned", "destroying"} => call[Sub] = "idle"
  /\ ending # "destroying" => destroying["end"] = "idle"

ServiceInv == ReturnedInTime /\ EndInOrder

Outcomes == [o \in Ops |-> Settlement(o)]
Using == {o \in Ops : call[o] = "holding"}
Delivered == {w \in Puts : op[w] \in {"replied", "done"}}
Learned == [t \in Tasks |-> {reports[t][i] : i \in DOMAIN reports[t]}]
contract == <<Outcomes, Using, Delivered, Learned, Closing>>

\* When the last user of the pool gives its connection back, the destroyAll()
\* that awaits this goes on.
LEMMA PoolDestroying ==
  ASSUME Proved!Inv, NEW c \in Ops \union {Sub}
  PROVE  /\ GetsConnection(c) => destroying' = destroying
         /\ Pool!Return(c) =>
              \/ destroying'["end"] = destroying["end"]
              \/ /\ destroying["end"] = "awaitEmpty" /\ destroying'["end"] = "notified"
                 /\ inUse' = {}
<1>1. GetsConnection(c) => destroying' = destroying
  BY DEF GetsConnection, Pool!Get, Pool!GetUnused, Pool!GetCreate, Pool!GetWait,
     Pool!CreateOk, Pool!Acquire
<1>2. Pool!ReturnToWaiter(c) => destroying' = destroying
  BY DEF Pool!ReturnToWaiter
<1>3. Pool!ReturnToUnused(c) =>
        \/ destroying'["end"] = destroying["end"]
        \/ /\ destroying["end"] = "awaitEmpty" /\ destroying'["end"] = "notified"
           /\ inUse' = {}
  BY DEF Pool!ReturnToUnused, Pool!NotifyIfEmpty
<1> QED BY <1>1, <1>2, <1>3 DEF Pool!Return

-----------------------------------------------------------------------------
LEMMA ReturnedStep ==
  ASSUME IInv, ReturnedInTime, Types, [Next]_vars PROVE ReturnedInTime'
<1> USE DEF IInv, CallsRest, OpsTyped, Types
<1>0. Gets \subseteq Ops /\ \A g \in late : op[g] # "idle"
  BY GetsInOps DEF OpsOwn
<1>1. ASSUME UNCHANGED <<late, result>>,
             \A g \in Gets : op[g] = "done" => op'[g] = "done",
             \A g \in late : op'[g] = "listening" => op[g] = "listening"
      PROVE  ReturnedInTime'
  BY <1>1 DEF ReturnedInTime
<1>2. CASE UNCHANGED vars \/ SubStep \/ EndStep \/ Created \/ DoResolve \/ Evict
             \/ \E t \in Tasks : WorkerReport(t)
  <2>1. UNCHANGED <<op, late, result>>
    BY <1>2 DEF vars, SubStep, SubConnect, SubSend, Psubscribed, Acknowledged, Attach,
       OnMessage, Unheard, EndStep, EndUnsubscribe, Punsubscribed, Unacknowledged,
       EndReturn, EndDestroy, EndResume, Created, DoResolve, Evict, WorkerReport, callVars
  <2> QED BY <1>1, <2>1
<1>3. ASSUME NEW o \in Ops, OpStep(o) PROVE ReturnedInTime'
  <2>1. CASE Call(o) \/ Send(o) \/ Answer(o)
    BY <1>0, <1>1, <2>1 DEF Call, Send, Answer, Goto
  <2>2. CASE FinishReplied(o)
    BY <1>0, <2>2 DEF FinishReplied, Finish, Goto, ReturnedInTime
  <2> QED BY <1>3, <2>1, <2>2 DEF OpStep
<1>4. ASSUME NEW g \in Gets, GetStep(g) PROVE ReturnedInTime'
  <2>1. CASE GetListening(g) \/ GetAwait(g) \/ IgnoreReplied(g)
    BY <1>0, <1>1, <2>1 DEF GetListening, GetAwait, IgnoreReplied, Goto
  <2>2. CASE FinishHeard(g) \/ HearListening(g)
    <3>1. g \notin late
      <4>1. CASE FinishHeard(g)
        <5>1. op[g] = "awaiting" /\ call[g] = "holding"
          BY <1>0, <4>1, PoolEffect DEF FinishHeard, Finish, GiveBack
        <5> QED BY <1>0, <5>1 DEF OpsOwn
      <4>2. CASE HearListening(g)
        BY <1>0, <4>2 DEF HearListening, ReturnedInTime
      <4> QED BY <2>2, <4>1, <4>2
    <3> QED BY <1>0, <2>2, <3>1
            DEF FinishHeard, HearListening, Finish, Goto, ReturnedInTime
  <2>3. CASE TimeOut(g)
    BY <1>0, <2>3 DEF TimeOut, Finish, Goto, ReturnedInTime
  <2> QED BY <1>4, <2>1, <2>2, <2>3 DEF GetStep
<1> QED BY <1>2, <1>3, <1>4 DEF Next

LEMMA EndInOrderStep ==
  ASSUME IInv, EndInOrder, Types, [Next]_vars PROVE EndInOrder'
<1> USE DEF IInv, Types, EndInOrder
<1>0. Sub \notin Ops /\ Gets \subseteq Ops /\ destroying \in [{"end"} -> Proved!CloserStates]
  BY BackendAssumption, GetsInOps DEF Proved!Inv, Proved!TypeOK
<1>1. ASSUME UNCHANGED ending,
             call[Sub] = "idle" => call'[Sub] = "idle",
             destroying["end"] = "idle" => destroying'["end"] = "idle"
      PROVE  EndInOrder'
  BY <1>1
<1>2. ASSUME NEW c \in Ops, GetsConnection(c) \/ Pool!Return(c) \/ UNCHANGED poolVars,
             UNCHANGED ending
      PROVE  EndInOrder'
  <2>1. c \in Ops \union {Sub} /\ Sub \in (Ops \union {Sub}) \ {c}
    BY <1>0
  <2>2. call[Sub] = "idle" => call'[Sub] = "idle"
    BY <1>2, <2>1, PoolEffect DEF GetsConnection, poolVars
  <2>3. destroying["end"] = "idle" => destroying'["end"] = "idle"
    BY <1>2, <2>1, PoolDestroying DEF poolVars
  <2> QED BY <1>1, <1>2, <2>2, <2>3
<1>3. CASE UNCHANGED vars \/ DoResolve \/ Evict \/ \E t \in Tasks : WorkerReport(t)
  BY <1>1, <1>3 DEF vars, DoResolve, Evict, WorkerReport, poolVars
<1>4. CASE SubStep
  <2>1. CASE SubConnect \/ SubSend
    <3>1. ending = "idle" /\ ending' = ending
      BY <2>1 DEF SubConnect, SubSend, SubRest, EndAfterSub
    <3>2. destroying' = destroying
      BY <2>1, PoolDestroying DEF SubConnect, SubSend, GetsConnection
    <3> QED BY <3>1, <3>2
  <2>2. CASE Psubscribed \/ Acknowledged \/ Attach \/ OnMessage \/ Unheard
    BY <1>1, <2>2 DEF Psubscribed, Acknowledged, Attach, OnMessage, Unheard, poolVars
  <2> QED BY <1>4, <2>1, <2>2 DEF SubStep
<1>5. CASE Created
  <2>1. PICK c \in Ops \union {Sub} : Pool!CreateOk(c)
    BY <1>5 DEF Created
  <2>2. call[Sub] = "idle" => call'[Sub] = "idle"
    BY <2>1, PoolEffect
  <2>3. destroying' = destroying
    BY <2>1, PoolDestroying DEF GetsConnection
  <2> QED BY <1>1, <1>5, <2>2, <2>3 DEF Created
<1>6. CASE EndStep
  <2>1. CASE EndUnsubscribe \/ Punsubscribed
    BY <2>1 DEF EndUnsubscribe, Punsubscribed, poolVars
  <2>2. CASE Unacknowledged
    <3>1. 1 \in 1..Len(wire) /\ wire[1] = <<"unack">>
      BY <2>2 DEF Unacknowledged, SubRest, AcksInOrder
    <3>2. ending = "unsubscribing"
      BY <3>1 DEF SubRest, AcksInOrder
    <3> QED BY <2>2, <3>2 DEF Unacknowledged, poolVars
  <2>3. CASE EndReturn
    <3>1. call'[Sub] = "idle" /\ destroying["end"] = "idle" /\ ending' = "returned"
      BY <2>3, PoolEffect DEF EndReturn, EndAwaited
    <3>2. destroying'["end"] = "idle"
      BY <2>3, <3>1, PoolDestroying DEF EndReturn
    <3> QED BY <3>1, <3>2
  <2>4. CASE EndDestroy
    <3>1. call'[Sub] = "idle" /\ ending' = "destroying"
      BY <2>4, DestroyEffect DEF EndDestroy, DestroysAll
    <3> QED BY <3>1
  <2>5. CASE EndResume
    <3>1. destroying["end"] = "notified" /\ call' = call /\ ending' = ending
      BY <2>5, DestroyEffect DEF EndResume, Pool!DestroyResume, DestroysAll
    <3> QED BY <3>1
  <2> QED BY <1>6, <2>1, <2>2, <2>3, <2>4, <2>5 DEF EndStep
<1>7. CASE \E o \in Ops : OpStep(o)
  BY <1>2, <1>7 DEF OpStep, Call, Send, Answer, FinishReplied, Finish, GiveBack,
     GetsConnection
<1>8. CASE \E g \in Gets : GetStep(g)
  BY <1>0, <1>2, <1>8 DEF GetStep, GetListening, GetAwait, FinishHeard, HearListening,
     IgnoreReplied, TimeOut, Finish, GiveBack
<1> QED BY <1>3, <1>4, <1>5, <1>6, <1>7, <1>8 DEF Next-----------------------------------------------------------------------------
(* The steps of the service                                                *)

\* What the service sees of a call.
LEMMA ReturnedOf ==
  /\ Returned("none") = "pending"
  /\ Returned("timeout") = "rejected" /\ Returned("rejected") = "rejected"
  /\ \A r \in Reports : Returned(r) = r
BY DEF Returned, Reports

LEMMA SettlementOf ==
  /\ \A o \in Ops :
       /\ op[o] = "idle" => Settlement(o) = "unmade"
       /\ op[o] # "idle" /\ o \in Gets => Settlement(o) = Returned(result[o])
       /\ op[o] = "done" /\ o \notin Gets => Settlement(o) = "resolved"
       /\ op[o] \notin {"idle", "done"} /\ o \notin Gets => Settlement(o) = "pending"
  /\ \A o \in Ops :
       /\ op'[o] = "idle" => Settlement(o)' = "unmade"
       /\ op'[o] # "idle" /\ o \in Gets => Settlement(o)' = Returned(result'[o])
       /\ op'[o] = "done" /\ o \notin Gets => Settlement(o)' = "resolved"
       /\ op'[o] \notin {"idle", "done"} /\ o \notin Gets => Settlement(o)' = "pending"
BY DEF Settlement, Returned

LEMMA LearnedOf ==
  ASSUME Types, NEW t \in Tasks, NEW r \in Reports PROVE r \in Learned[t] <=> Reported(t, r)
<1>1. reports[t] \in Seq(Reports)
  BY DEF Types
<1> QED BY <1>1 DEF Learned, Reported

LEMMA LearnedSame == ASSUME UNCHANGED reports PROVE Learned' = Learned
BY DEF Learned

\* What is learned of a task is all that changes.
LEMMA LearnedStep ==
  ASSUME Types, NEW t \in Tasks, NEW st \in Reports, Report(t, st)
  PROVE  Learned' = [Learned EXCEPT ![t] = @ \union {st}]
<1>1. reports' = [reports EXCEPT ![t] = Append(reports[t], st)]
  BY DEF Report
<1>2. reports[t] \in Seq(Reports)
  BY DEF Types
<1>3. reports'[t] = Append(reports[t], st) /\ \A u \in Tasks \ {t} : reports'[u] = reports[u]
  BY <1>1 DEF Types
<1>4. Learned'[t] = Learned[t] \union {st}
  <2>1. /\ DOMAIN reports[t] = 1..Len(reports[t]) /\ Len(reports[t]) \in Nat
        /\ DOMAIN reports'[t] = 1..(Len(reports[t]) + 1)
        /\ \A i \in 1..Len(reports[t]) : reports'[t][i] = reports[t][i]
        /\ reports'[t][Len(reports[t]) + 1] = st
    BY <1>2, <1>3
  <2>2. ASSUME NEW r
        PROVE  (\E i \in DOMAIN reports'[t] : reports'[t][i] = r)
                 <=> (\E i \in DOMAIN reports[t] : reports[t][i] = r) \/ r = st
    BY <2>1
  <2> QED BY <2>2 DEF Learned
<1>5. \A u \in Tasks \ {t} : Learned'[u] = Learned[u]
  BY <1>3 DEF Learned
<1> QED BY <1>4, <1>5 DEF Learned

LEMMA ContractVars ==
  /\ UNCHANGED contract => UNCHANGED Service!contractVars
  /\ Service!Requests = Ops
BY DEF Service!contractVars, contract, Outcomes, Using, Delivered, Learned, Service!Requests, Ops

LEMMA ServiceSteps ==
  ASSUME \/ \E o \in Ops : Service!Make(o) \/ Service!Begin(o)
         \/ \E g \in Gets : Service!RejectGet(g) \/ \E r \in Reports : Service!ResolveGet(g, r)
         \/ \E d \in Deletes : Service!ResolveDelete(d)
         \/ \E w \in Puts : Service!ResolvePut(w) \/ Service!Deliver(w, "success")
         \/ \E t \in Tasks, r \in Reports : Service!Report(t, r)
         \/ Service!End
  PROVE  Service!Next
BY ContractVars DEF Service!Next, Reports

\* Steps that do not show.
LEMMA QuietService ==
  ASSUME UNCHANGED <<op, result, reports>>,
         \A o \in Ops : call'[o] = "holding" <=> call[o] = "holding",
         Closing' = Closing
  PROVE  UNCHANGED contract
<1>1. Outcomes' = Outcomes /\ Delivered' = Delivered
  BY DEF Outcomes, Settlement, Delivered
<1> QED BY <1>1, LearnedSame DEF contract, Using

\* A call changes its own part only.
LEMMA OneCaller ==
  ASSUME IInv, Types, NEW o \in Ops, OpStep(o) \/ (o \in Gets /\ GetStep(o))
  PROVE  /\ \A b \in Ops \ {o} : op'[b] = op[b]
         /\ Outcomes' = [Outcomes EXCEPT ![o] = Settlement(o)']
         /\ Using' = IF call'[o] = "holding" THEN Using \union {o} ELSE Using \ {o}
<1> USE DEF IInv, Types, CallsRest, OpsTyped
<1>1. \A b \in Ops \ {o} : op'[b] = op[b]
  BY DEF OpStep, GetStep, Call, Send, Answer, FinishReplied, GetListening, GetAwait,
     FinishHeard, HearListening, IgnoreReplied, TimeOut, Goto
<1>2. \A g \in Gets \ {o} : result'[g] = result[g]
  BY DEF OpStep, GetStep, Call, Send, Answer, FinishReplied, GetListening, GetAwait,
     FinishHeard, HearListening, IgnoreReplied, TimeOut, Finish
<1>3. \A b \in Ops \ {o} : Settlement(b)' = Settlement(b)
  BY <1>1, <1>2 DEF Settlement
<1>4. \A b \in Ops \ {o} : call'[b] = "holding" <=> call[b] = "holding"
  <2>1. GetsConnection(o) \/ Pool!Return(o) \/ UNCHANGED poolVars
    BY DEF OpStep, GetStep, Call, Send, Answer, FinishReplied, GetListening, GetAwait,
       FinishHeard, HearListening, IgnoreReplied, TimeOut, Finish, GiveBack, GetsConnection
  <2>2. o \in Ops \union {Sub} /\ \A b \in Ops \ {o} : b \in (Ops \union {Sub}) \ {o}
    OBVIOUS
  <2> QED BY <2>1, <2>2, PoolEffect DEF GetsConnection, poolVars
<1>5. Outcomes' = [Outcomes EXCEPT ![o] = Settlement(o)']
  BY <1>3 DEF Outcomes
<1>6. Using' = IF call'[o] = "holding" THEN Using \union {o} ELSE Using \ {o}
  BY <1>4 DEF Using
<1> QED BY <1>1, <1>5, <1>6

\* Who gives a connection back may be the last.
LEMMA LastReturns ==
  ASSUME IInv, IInv', NEW o \in Ops, Pool!Return(o)
  PROVE  Closing' = Closing \/ (Closing = "draining" /\ Using' = {} /\ Closing' = "drained")
<1>1. \/ destroying'["end"] = destroying["end"]
      \/ /\ destroying["end"] = "awaitEmpty" /\ destroying'["end"] = "notified"
         /\ inUse' = {}
  BY PoolDestroying DEF IInv
<1>2. inUse' = {} => Using' = {}
  BY DEF IInv, Proved!Inv, Proved!Custody, Proved!InUseExact, Using
<1> QED BY <1>1, <1>2 DEF Closing-----------------------------------------------------------------------------
\* Before its command is sent a call holds nothing and has returned nothing.
LEMMA Fresh ==
  ASSUME CallsInv, ServiceInv, NEW o \in Ops, op[o] \in {"idle", "connecting"}
  PROVE  call[o] # "holding" /\ (o \in Gets => result[o] = "none")
BY DEF CallsInv, IInv, CallsRest, OpsOwn, Working, ServiceInv, ReturnedInTime

\* A call is made, and is given its connection.
LEMMA BeginService ==
  ASSUME CallsInv, ServiceInv, NEW o \in Ops,
         Call(o) \/ Send(o) \/ (o \in Gets /\ GetListening(o))
  PROVE  Service!Next
<1> USE DEF CallsInv, IInv, CallsRest, OpsTyped, Types
<1>0. Gets \intersect Puts = {} /\ Gets \subseteq Ops /\ Puts \subseteq Ops
      /\ o \in Ops \union {Sub}
  BY BackendAssumption, GetsInOps
<1>1. /\ \A b \in Ops \ {o} : op'[b] = op[b]
      /\ Outcomes' = [Outcomes EXCEPT ![o] = Settlement(o)']
      /\ Using' = IF call'[o] = "holding" THEN Using \union {o} ELSE Using \ {o}
  BY OneCaller DEF OpStep, GetStep
<1>2. /\ UNCHANGED <<result, reports>>
      /\ op[o] \in {"idle", "connecting"} /\ op'[o] \in {"connecting", "asking", "listening"}
  BY <1>0 DEF Call, Send, GetListening, Goto, serverVars
<1>3. UNCHANGED <<Delivered, Learned>>
  BY <1>0, <1>1, <1>2, LearnedSame DEF Delivered
<1>4. Closing' = Closing
  <2>1. destroying' = destroying
    BY <1>0, PoolDestroying DEF Call, Send, GetListening, GetsConnection, poolVars
  <2> QED BY <2>1 DEF Closing
<1>5. call[o] # "holding" /\ (o \in Gets => result[o] = "none")
  BY <1>2, Fresh
<1>6. Settlement(o)' = "pending"
  BY <1>2, <1>5, SettlementOf, ReturnedOf
<1>7. CASE Call(o) \/ (o \in Gets /\ GetListening(o))
  <2>1. call'[o] # "holding"
    BY <1>0, <1>5, <1>7, PoolEffect DEF Call, GetListening, poolVars, Connecting
  <2>2. Using' = Using
    BY <1>1, <1>5, <2>1 DEF Using
  <2>3. Settlement(o) = "unmade"
    BY <1>7, SettlementOf DEF Call, GetListening
  <2>4. Service!Make(o)
    BY <1>1, <1>3, <1>4, <1>6, <2>2, <2>3
       DEF Service!Make, Outcomes, Using, Delivered, Learned
  <2> QED BY <2>4, ServiceSteps
<1>8. CASE Send(o)
  <2>1. call'[o] = "holding" /\ op[o] = "connecting"
    BY <1>0, <1>8, PoolEffect DEF Send
  <2>2. Settlement(o) = "pending"
    BY <1>5, <2>1, SettlementOf, ReturnedOf
  <2>3. Outcomes' = Outcomes
    BY <1>1, <1>6, <2>2 DEF Outcomes
  <2>4. Service!Begin(o)
    BY <1>1, <1>3, <1>4, <2>1, <2>2, <2>3
       DEF Service!Begin, Outcomes, Using, Delivered, Learned
  <2> QED BY <2>4, ServiceSteps
<1> QED BY <1>7, <1>8

\* The server executes the command of a put().
LEMMA DeliverService ==
  ASSUME CallsInv, NEW w \in Puts, Answer(w) PROVE Service!Next
<1> USE DEF CallsInv, IInv, CallsRest, OpsTyped, Types
<1>0. w \in Ops /\ w \notin Gets /\ w \notin Deletes /\ TaskOf[w] \in Tasks
  BY BackendAssumption, GetsInOps, TasksOf
<1>1. /\ \A b \in Ops \ {w} : op'[b] = op[b]
      /\ Outcomes' = [Outcomes EXCEPT ![w] = Settlement(w)']
  BY <1>0, OneCaller DEF OpStep
<1>2. /\ op[w] = "asking" /\ op'[w] = "replied"
      /\ Report(TaskOf[w], "success") /\ UNCHANGED poolVars
  BY <1>0 DEF Answer, Goto
<1>3. Settlement(w) = "pending" /\ Settlement(w)' = "pending"
  BY <1>0, <1>2, SettlementOf
<1>4. Outcomes' = Outcomes /\ Using' = Using /\ Closing' = Closing
  <2>1. Outcomes' = Outcomes
    BY <1>0, <1>1, <1>3 DEF Outcomes
  <2>2. Using' = Using /\ Closing' = Closing
    BY <1>2 DEF Using, Closing, poolVars
  <2> QED BY <2>1, <2>2
<1>5. w \in Using
  BY <1>0, <1>2 DEF Using, OpsOwn, Working
<1>6. Delivered' = Delivered \union {w}
  BY <1>0, <1>1, <1>2, GetsInOps DEF Delivered
<1>7. Learned' = [Learned EXCEPT ![TaskOf[w]] = @ \union {"success"}]
  BY <1>0, <1>2, LearnedStep DEF Reports
<1>8. Closing # "closed"
  BY DEF Closing
<1>9. Service!Deliver(w, "success")
  BY <1>4, <1>5, <1>6, <1>7, <1>8
     DEF Service!Deliver, Service!Learn, Outcomes, Using, Delivered, Learned
<1> QED BY <1>9, ServiceSteps

\* A call is over: a get() because it was answered, heard its result, was
\* rejected, or timed out.
LEMMA SettleService ==
  ASSUME CallsInv, CallsInv', ServiceInv, NEW o \in Ops,
         \/ FinishReplied(o)
         \/ o \in Gets /\ (FinishHeard(o) \/ HearListening(o) \/ TimeOut(o))
  PROVE  Service!Next
<1> USE DEF CallsInv, IInv, CallsRest, OpsTyped, Types
<1>0. /\ o \in Ops \union {Sub} /\ Gets \subseteq Ops /\ Puts \subseteq Ops
      /\ Gets \intersect Puts = {} /\ TaskOf[o] \in Tasks
  BY BackendAssumption, GetsInOps, TasksOf
<1>1. /\ \A b \in Ops \ {o} : op'[b] = op[b]
      /\ Outcomes' = [Outcomes EXCEPT ![o] = Settlement(o)']
      /\ Using' = IF call'[o] = "holding" THEN Using \union {o} ELSE Using \ {o}
  BY OneCaller DEF OpStep, GetStep
<1>2. /\ UNCHANGED reports /\ op[o] \notin {"idle", "done"} /\ op'[o] # "idle"
      /\ FinishReplied(o) => op[o] = "replied" /\ op'[o] = "done"
  BY <1>0 DEF FinishReplied, FinishHeard, HearListening, TimeOut, Finish, Goto, serverVars
<1>3. UNCHANGED <<Delivered, Learned>>
  BY <1>0, <1>1, <1>2, LearnedSame DEF Delivered
<1>4. /\ Using' = Using \ {o}
      /\ \/ Closing' = Closing
         \/ Closing = "draining" /\ Using' = {} /\ Closing' = "drained"
  <2>1. CASE HearListening(o) /\ o \in Gets
    <3>1. UNCHANGED poolVars /\ op[o] = "listening"
      BY <2>1 DEF HearListening
    <3>2. call'[o] # "holding" /\ Closing' = Closing
      BY <3>1 DEF OpsOwn, Working, poolVars, Closing
    <3> QED BY <1>1, <3>2
  <2>2. CASE ~HearListening(o) \/ o \notin Gets
    <3>1. Pool!Return(o)
      BY <2>2 DEF FinishReplied, FinishHeard, TimeOut, Finish, GiveBack
    <3>2. call'[o] # "holding"
      BY <1>0, <3>1, PoolEffect
    <3> QED BY <1>1, <3>1, <3>2, LastReturns
  <2> QED BY <2>1, <2>2
<1>5. Outcomes[o] = Settlement(o)
  BY DEF Outcomes
<1>6. ASSUME o \in Gets PROVE Service!Next
  <2>1. result[o] = "none"
    <3>1. o \notin late
      <4>1. CASE FinishReplied(o) \/ TimeOut(o)
        BY <4>1 DEF FinishReplied, TimeOut
      <4>2. CASE FinishHeard(o)
        <5>1. call[o] = "holding"
          BY <1>0, <4>2, PoolEffect DEF FinishHeard, Finish, GiveBack
        <5> QED BY <5>1 DEF OpsOwn
      <4>3. CASE HearListening(o)
        BY <1>6, <4>3 DEF HearListening, ServiceInv, ReturnedInTime
      <4> QED BY <4>1, <4>2, <4>3
    <3> QED BY <1>2, <1>6, <3>1 DEF ServiceInv, ReturnedInTime
  <2>2. Outcomes[o] = "pending"
    BY <1>2, <1>5, <1>6, <2>1, SettlementOf, ReturnedOf
  <2>3. \/ result'[o] \in Reports /\ Reported(TaskOf[o], result'[o])
        \/ result'[o] \in {"rejected", "timeout"}
    <3>1. CASE FinishReplied(o)
      <4>1. result'[o] = "success" /\ reply[o] = "success"
        BY <1>6, <3>1 DEF FinishReplied, Finish, Final
      <4> QED BY <1>6, <4>1 DEF Sources, Reports
    <3>2. CASE FinishHeard(o) \/ HearListening(o)
      <4>1. /\ result'[o] = Outcome(heard[o])
            /\ op[o] \in {"awaiting", "listening"}
        BY <1>6, <3>2 DEF FinishHeard, HearListening, Finish
      <4>2. Outcome(heard[o]) \in Reports \union {"rejected"}
        <5>1. heard[o] \in Promises
          BY <1>6, <4>1 DEF Hears
        <5> QED BY <5>1 DEF Outcome, Sources
      <4>3. Outcome(heard[o]) \in Reports => Reported(TaskOf[o], Outcome(heard[o]))
        BY <1>6, <4>1, OutcomeReported
      <4> QED BY <4>1, <4>2, <4>3
    <3>3. CASE TimeOut(o)
      BY <1>6, <3>3 DEF TimeOut, Finish
    <3> QED BY <3>1, <3>2, <3>3
  <2>4. Settlement(o)' = Returned(result'[o])
    BY <1>2, <1>6, SettlementOf
  <2>5. CASE result'[o] \in {"rejected", "timeout"}
    <3>1. Settlement(o)' = "rejected"
      BY <2>4, <2>5, ReturnedOf
    <3>2. Service!RejectGet(o)
      BY <1>1, <1>3, <1>4, <2>2, <3>1
         DEF Service!RejectGet, Service!Settle, Outcomes, Using, Delivered, Learned
    <3> QED BY <1>6, <3>2, ServiceSteps
  <2>6. CASE result'[o] \in Reports /\ Reported(TaskOf[o], result'[o])
    <3>1. result'[o] \in Learned[TaskOf[o]]
      BY <1>0, <2>6, LearnedOf
    <3>2. Settlement(o)' = result'[o]
      BY <2>4, <2>6, ReturnedOf
    <3>3. Service!ResolveGet(o, result'[o])
      BY <1>1, <1>3, <1>4, <2>2, <3>1, <3>2
         DEF Service!ResolveGet, Service!Settle, Outcomes, Using, Delivered, Learned
    <3> QED BY <1>6, <2>6, <3>3, ServiceSteps
  <2> QED BY <2>3, <2>5, <2>6
<1>7. ASSUME o \notin Gets PROVE Service!Next
  <2>1. /\ op[o] = "replied" /\ op'[o] = "done"
        /\ Outcomes[o] = "pending" /\ Settlement(o)' = "resolved"
    BY <1>2, <1>5, <1>7, SettlementOf
  <2>2. CASE o \in Deletes
    <3>1. Service!ResolveDelete(o)
      BY <1>1, <1>3, <1>4, <2>1
         DEF Service!ResolveDelete, Service!Settle, Outcomes, Using, Delivered, Learned
    <3> QED BY <2>2, <3>1, ServiceSteps
  <2>3. CASE o \in Puts
    <3>1. o \in Delivered
      BY <2>1, <2>3 DEF Delivered
    <3>2. Service!ResolvePut(o)
      BY <1>1, <1>3, <1>4, <2>1, <3>1
         DEF Service!ResolvePut, Service!Settle, Outcomes, Using, Delivered, Learned
    <3> QED BY <2>3, <3>2, ServiceSteps
  <2> QED BY <1>7, <2>2, <2>3 DEF Ops
<1> QED BY <1>6, <1>7-----------------------------------------------------------------------------
\* GET and DEL, waiting for the subscriber, and an answer that comes too late do
\* not show.
LEMMA WaitService ==
  ASSUME CallsInv, ServiceInv, NEW o \in Ops,
         \/ Answer(o) /\ o \notin Puts
         \/ o \in Gets /\ (GetAwait(o) \/ IgnoreReplied(o))
  PROVE  UNCHANGED contract
<1> USE DEF CallsInv, IInv, CallsRest, OpsTyped, Types
<1>0. Gets \intersect Puts = {} /\ Gets \subseteq Ops /\ Puts \subseteq Ops
  BY BackendAssumption, GetsInOps
<1>1. /\ \A b \in Ops \ {o} : op'[b] = op[b]
      /\ Outcomes' = [Outcomes EXCEPT ![o] = Settlement(o)']
  BY OneCaller DEF OpStep, GetStep
<1>2. UNCHANGED <<result, reports, poolVars>> /\ o \notin Puts
  BY <1>0 DEF Answer, GetAwait, IgnoreReplied, serverVars
<1>3. /\ UNCHANGED <<Delivered, Learned>>
      /\ Using' = Using /\ Closing' = Closing
  <2>1. Delivered' = Delivered
    BY <1>0, <1>1, <1>2 DEF Delivered
  <2>2. Using' = Using /\ Closing' = Closing
    BY <1>2 DEF Using, Closing, poolVars
  <2> QED BY <1>2, <2>1, <2>2, LearnedSame
<1>4. Settlement(o)' = Settlement(o)
  <2>1. /\ op[o] \in {"asking", "replied"}
        /\ op'[o] = "replied" \/ (o \in Gets /\ op'[o] \in {"awaiting", "done"})
    BY <1>0 DEF Answer, GetAwait, IgnoreReplied, Goto
  <2> QED BY <1>2, <2>1, SettlementOf
<1>5. Outcomes' = Outcomes
  BY <1>1, <1>4 DEF Outcomes
<1> QED BY <1>3, <1>5 DEF contract

\* end() waits for those who have a connection: the subscriber has put its own
\* back by then.
LEMMA DestroyService ==
  ASSUME CallsInv, ServiceInv, EndDestroy PROVE Service!Next
<1> USE DEF CallsInv, IInv
<1>0. destroying \in [{"end"} -> Proved!CloserStates]
  BY DEF Proved!Inv, Proved!TypeOK
<1>1. UNCHANGED <<op, result, reports, call>>
  BY DestroyEffect DEF EndDestroy, DestroysAll, callVars, serverVars
<1>2. Outcomes' = Outcomes /\ Delivered' = Delivered /\ Using' = Using /\ Learned' = Learned
  BY <1>1, LearnedSame DEF Outcomes, Settlement, Delivered, Using
<1>3. destroying["end"] = "idle" /\ call[Sub] = "idle"
  BY DEF EndDestroy, ServiceInv, EndInOrder
<1>4. Closing = "open"
  BY <1>3 DEF Closing
<1>5. Using = {} <=> inUse = {}
  <2>1. inUse = {got[c] : c \in {b \in Ops \union {Sub} : call[b] = "holding"}}
    BY DEF Proved!Inv, Proved!Custody, Proved!InUseExact
  <2> QED BY <1>3, <2>1 DEF Using
<1>6. Closing' = IF Using = {} THEN "drained" ELSE "draining"
  <2>1. CASE Pool!DestroyNow("end")
    <3>1. inUse = {} /\ destroying'["end"] = "done"
      BY <1>0, <2>1 DEF Pool!DestroyNow, Pool!Collect
    <3> QED BY <1>5, <3>1 DEF Closing
  <2>2. CASE Pool!DestroyLater("end")
    <3>1. inUse # {} /\ destroying'["end"] = "awaitEmpty"
      BY <1>0, <2>2 DEF Pool!DestroyLater
    <3> QED BY <1>5, <3>1 DEF Closing
  <2> QED BY <2>1, <2>2 DEF EndDestroy
<1>7. Service!End
  BY <1>2, <1>4, <1>6 DEF Service!End, Outcomes, Using, Delivered, Learned
<1> QED BY <1>7, ServiceSteps

\* What the subscriber, the rest of end() and the map do does not show.
LEMMA OthersService ==
  ASSUME CallsInv, ServiceInv,
         UNCHANGED vars \/ SubStep \/ (EndStep /\ ~EndDestroy) \/ Created \/ DoResolve \/ Evict
  PROVE  UNCHANGED contract
<1> USE DEF CallsInv, IInv
<1>0. destroying \in [{"end"} -> Proved!CloserStates] /\ Sub \notin Ops
  BY BackendAssumption DEF Proved!Inv, Proved!TypeOK
<1>1. UNCHANGED <<op, result, reports>>
  BY DEF vars, SubStep, SubConnect, SubSend, Psubscribed, Acknowledged, Attach, OnMessage,
     Unheard, EndStep, EndUnsubscribe, Punsubscribed, Unacknowledged, EndReturn, EndResume,
     Created, DoResolve, Evict, callVars, serverVars
<1>2. CASE UNCHANGED poolVars
  BY <1>1, <1>2, QuietService DEF poolVars, Closing
<1>3. CASE SubConnect \/ SubSend \/ Created
  <2>1. PICK c \in Ops \union {Sub} : GetsConnection(c) /\ (c = Sub \/ Pool!CreateOk(c))
    BY <1>3 DEF SubConnect, SubSend, Created, GetsConnection
  <2>2. \A o \in Ops : call'[o] = "holding" <=> call[o] = "holding"
    BY <1>0, <2>1, PoolEffect DEF GetsConnection
  <2>3. destroying' = destroying
    BY <2>1, PoolDestroying
  <2> QED BY <1>1, <2>2, <2>3, QuietService DEF Closing
<1>4. CASE EndReturn
  <2>1. Pool!Return(Sub) /\ destroying["end"] = "idle"
    BY <1>4 DEF EndReturn, EndAwaited, ServiceInv, EndInOrder
  <2>2. \A o \in Ops : call'[o] = "holding" <=> call[o] = "holding"
    BY <1>0, <2>1, PoolEffect
  <2>3. destroying'["end"] = destroying["end"]
    BY <2>1, PoolDestroying
  <2> QED BY <1>1, <2>2, <2>3, QuietService DEF Closing
<1>5. CASE EndResume
  <2>1. /\ destroying["end"] = "notified" /\ destroying'["end"] = "done"
        /\ call' = call
    BY <1>0, <1>5, DestroyEffect
       DEF EndResume, DestroysAll, Pool!DestroyResume, Pool!Collect
  <2>2. Closing' = Closing
    BY <2>1 DEF Closing
  <2> QED BY <1>1, <2>1, <2>2, QuietService
<1> QED BY <1>2, <1>3, <1>4, <1>5
        DEF vars, SubStep, Psubscribed, Acknowledged, Attach, OnMessage, Unheard, EndStep,
            EndUnsubscribe, Punsubscribed, Unacknowledged, DoResolve, Evict

\* A worker's report is a result learned.
LEMMA WorkerService ==
  ASSUME CallsInv, NEW t \in Tasks, WorkerReport(t) PROVE Service!Next
<1> USE DEF CallsInv
<1>1. PICK st \in Reports : Report(t, st)
  BY BackendAssumption DEF WorkerReport, Reports
<1>2. UNCHANGED <<op, result, call, destroying>>
  BY DEF WorkerReport, callVars, poolVars
<1>3. /\ Outcomes' = Outcomes /\ Delivered' = Delivered
      /\ Using' = Using /\ Closing' = Closing
  BY <1>2 DEF Outcomes, Settlement, Delivered, Using, Closing
<1>4. Learned' = [Learned EXCEPT ![t] = @ \union {st}]
  BY <1>1, LearnedStep
<1>5. Service!Report(t, st)
  BY <1>3, <1>4 DEF Service!Report, Service!Learn, Outcomes, Using, Delivered, Learned
<1> QED BY <1>5, ServiceSteps

-----------------------------------------------------------------------------
LEMMA InitServiceInv == Init => ServiceInv
BY GetsInOps DEF Init, Pool!Init, ServiceInv, ReturnedInTime, EndInOrder

LEMMA NextServiceInv ==
  ASSUME CallsInv, ServiceInv, [Next]_vars PROVE ServiceInv'
BY ReturnedStep, EndInOrderStep DEF CallsInv, ServiceInv

LEMMA InitService == Init => Service!Init
<1> SUFFICES ASSUME Init PROVE Service!Init
  OBVIOUS
<1>1. \A o \in Ops : Settlement(o) = "unmade"
  BY DEF Init, Settlement
<1>2. {w \in Puts : op[w] \in {"replied", "done"}} = {}
  BY GetsInOps DEF Init
<1>3. {o \in Ops : call[o] = "holding"} = {}
  BY DEF Init, Pool!Init
<1>4. \A t \in Tasks : {reports[t][i] : i \in DOMAIN reports[t]} = {}
  BY DEF Init
<1>5. Closing = "open"
  BY DEF Init, Pool!Init, Closing
<1> QED BY <1>1, <1>2, <1>3, <1>4, <1>5 DEF Service!Init, Service!Requests, Ops

LEMMA NextService ==
  ASSUME CallsInv, CallsInv', ServiceInv, [Next]_vars
  PROVE  [Service!Next]_(Service!contractVars)
<1>1. CASE UNCHANGED vars \/ SubStep \/ EndStep \/ Created \/ DoResolve \/ Evict
  BY <1>1, OthersService, DestroyService, ContractVars
<1>2. ASSUME NEW o \in Ops, OpStep(o) PROVE [Service!Next]_(Service!contractVars)
  BY <1>2, BeginService, DeliverService, SettleService, WaitService, ContractVars DEF OpStep
<1>3. ASSUME NEW g \in Gets, GetStep(g) PROVE [Service!Next]_(Service!contractVars)
  BY <1>3, GetsInOps, BeginService, SettleService, WaitService, ContractVars DEF GetStep
<1>4. CASE \E t \in Tasks : WorkerReport(t)
  BY <1>4, WorkerService
<1> QED BY <1>1, <1>2, <1>3, <1>4 DEF Next

\* The backend keeps what the interface promises: a get() is answered once, by a
\* report of its own task, or rejected, a put() resolves when the server has
\* executed it, and end() closes the connections when no call has one.
THEOREM RedisImplementsService == Spec => ImplementsService
<1>1. Init => CallsInv /\ ServiceInv
  BY InitCallsInv, InitServiceInv
<1>2. CallsInv /\ ServiceInv /\ [Next]_vars => (CallsInv /\ ServiceInv)'
  BY NextCallsInv, NextServiceInv
<1>3. CallsInv /\ ServiceInv /\ CallsInv' /\ [Next]_vars =>
        [Service!Next]_(Service!contractVars)
  BY NextService
<1>4. Init => Service!Init
  BY InitService
<1> QED BY <1>1, <1>2, <1>3, <1>4, PTL DEF Spec, ImplementsService, Service!Spec

\* And its connections are passed round as PoolContract says.
THEOREM RedisPoolKeepsContract == Spec => Proved!ImplementsContract
<1>1. Init => Proved!Init
  BY DEF Init, Pool!Init, Proved!Init
<1>2. [Next]_vars => [Proved!Next]_(Proved!vars)
  BY PoolStep
<1>3. Spec => Proved!Spec
  BY <1>1, <1>2, PTL DEF Spec, Proved!Spec
<1> QED BY <1>3, PoolFits, Proved!PoolImplementsContract
=============================================================================

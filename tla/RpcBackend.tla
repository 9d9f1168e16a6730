----------------------------- MODULE RpcBackend -----------------------------
(***************************************************************************)
(* The RPC result backend of src/amqp/backend.ts: a ResourcePool of two    *)
(* channels of one connection, one of which becomes the consumer of the    *)
(* queue of results, and a PromiseMap of the results clients wait for;     *)
(* and, as its environment, RabbitMQ and the workers.                      *)
(*                                                                         *)
(*   get:     idle -> awaiting -> done                                     *)
(*   delete:  idle -> done                                                 *)
(*   put:     idle -> connecting -> asserting (-> draining)* -> sent       *)
(*            -> done, or "cut" when the connection closes under it        *)
(*                                                                         *)
(* Nothing is stored: a result that arrives is either taken by a get() or  *)
(* kept in the map, where its timeout drops it.  The timeout is a year, in *)
(* milliseconds more than a 32-bit timer can count, and such a timer fires *)
(* after one: Evict may come at any time.                                  *)
(***************************************************************************)
EXTENDS Naturals, Sequences, FiniteSets

CONSTANTS
  Gets, Deletes, Puts,  \* the calls made of the backend, each made once
  Con,                  \* the constructor's own channels.get()
  TaskOf,               \* the task each call is about
  Tasks, Chans, Promises, None,
  MaxReports,           \* bounds the reports of workers per task
  Slow, MaxSends,       \* which puts may find the buffer full, and bounds how
                        \* often each message is sent
  MayCancel             \* whether the server may cancel the consumer

Ops == Gets \union Deletes \union Puts

\* What the server sends to the consumer besides messages.
Notices == {"consumeOk", "cancelOk", "cancelled"}

ASSUME RpcAssumption ==
  /\ TaskOf \in [Ops -> Tasks]
  /\ Con \notin Ops
  /\ Gets \intersect Deletes = {} /\ (Gets \union Deletes) \intersect Puts = {}
  /\ IsFiniteSet(Puts) /\ IsFiniteSet(Chans)
  /\ Cardinality(Chans) >= 2
  /\ None \notin Chans \union Promises \union Tasks
  /\ (Puts \union {Con}) \intersect {"unborn", "free", "gone"} = {}
  /\ Tasks \intersect Notices = {}
  /\ MaxReports \in Nat /\ MaxSends \in Nat \ {0} /\ Slow \subseteq Puts
  /\ MayCancel \in BOOLEAN

VARIABLES
  unused, inUse, resourceCount, waiting, call, got, destroying, created, destroyed,
  promises, data, stale, pstate, keyOf, value,
  op,           \* the control state of each call
  heard,        \* the promise of the map each get awaits, or None
  sends,        \* the copies of its message each put has written
  result,       \* what each finished get returned
  con,          \* the control state of the constructor's chain
  ending,       \* the control state of end()
  \* the server and the wire
  asserted,     \* whether the queue exists
  consuming,    \* whether its consumer does
  queue,        \* the messages that wait for a consumer
  wire,         \* what the server has sent to the consumer
  reports,      \* task -> how often a worker has reported on it
  \* history
  missed,       \* the tasks with a report that no get() can have any more
  late,         \* the gets made after the rejectAll() of end()
  spared        \* the puts at work when end() called destroyAll()

poolVars == <<unused, inUse, resourceCount, waiting, call, got, destroying,
              created, destroyed>>
mapVars == <<promises, data, stale, pstate, keyOf, value>>
serverVars == <<asserted, consuming, queue, wire, reports>>
callVars == <<op, heard, sends, result>>
historyVars == <<missed, late, spared>>
vars == <<poolVars, mapVars, callVars, con, ending, serverVars, historyVars>>

Pool == INSTANCE ResourcePool WITH
  Callers <- Puts \union {Con}, Closers <- {"end"}, Resources <- Chans,
  MaxResources <- 2, CreateMayFail <- TRUE

Map == INSTANCE PromiseMap WITH
  Keys <- Tasks, Values <- {"value"}, HasTimeout <- TRUE, MaxStale <- 0,
  Uses <- {"delete", "rejectAll", "pending", "settled"}

Init ==
  /\ Pool!Init /\ Map!Init
  /\ op = [o \in Ops |-> "idle"]
  /\ heard = [g \in Gets |-> None]
  /\ sends = [w \in Puts |-> 0]
  /\ result = [g \in Gets |-> "none"]
  /\ con = "idle" /\ ending = "idle"
  /\ asserted = FALSE /\ consuming = FALSE
  /\ queue = <<>> /\ wire = <<>> /\ reports = [t \in Tasks |-> 0]
  /\ missed = {} /\ late = {} /\ spared = {}

Goto(o, s) == op' = [op EXCEPT ![o] = s]

\* Calls are made after the constructor and before the connection closes.
Open == con # "idle" /\ ending # "closed"

\* Promises and channels are interchangeable: a new one gets the first name
\* that is free, and no get() has any more.
Usable == {p \in Map!Fresh : \A g \in Gets : heard[g] # p}
FirstName ==
  \A p \in Map!Fresh : pstate'[p] # pstate[p] =>
    p \in Usable /\ p = CHOOSE q \in Usable : TRUE
FirstChannel == \A n \in created' \ created : n = CHOOSE m \in Chans \ created : TRUE

-----------------------------------------------------------------------------
(* The constructor's chain                                                 *)

ConConnect ==
  /\ con = "idle"
  /\ Pool!Get(Con)
  /\ con' = "connecting"
  /\ UNCHANGED <<mapVars, callVars, ending, serverVars, historyVars>>

\* The channel is there: assertQueue().
ConAssert ==
  /\ con = "connecting"
  /\ Pool!Acquire(Con)
  /\ con' = "asserting"
  /\ UNCHANGED <<mapVars, callVars, ending, serverVars, historyVars>>

\* The server makes the queue and, when the reply is there and consume()
\* called, the consumer, and sends it what the queue holds.
Consume ==
  /\ con = "asserting" /\ ~consuming
  /\ asserted' = TRUE /\ consuming' = TRUE
  /\ wire' = <<<<"consumeOk">>>> \o queue
  /\ queue' = <<>>
  /\ con' = "subscribing"
  /\ UNCHANGED <<poolVars, mapVars, callVars, ending, reports, historyVars>>

ConsumeOk ==
  /\ wire # <<>> /\ Head(wire) = <<"consumeOk">>
  /\ wire' = Tail(wire)
  /\ con' = "consuming"
  /\ UNCHANGED <<poolVars, mapVars, callVars, ending, asserted, consuming, queue,
                 reports, historyVars>>

-----------------------------------------------------------------------------
(* onMessage()                                                             *)

\* Mutant: the promises of those who wait are forgotten, not rejected.
RejectNone == UNCHANGED mapVars

RejectAll ==
  \/ Map!RejectAll
  \/ (\A t \in Tasks : ~Map!ToReject(t)) /\ UNCHANGED mapVars

\* Mutant: a message nobody waits for is dropped.
TakeKnown(t) == IF Map!has(t) THEN Map!Resolve(t, "value") ELSE UNCHANGED mapVars

Take(t) == Map!Resolve(t, "value")

OnMessage ==
  /\ wire # <<>> /\ Head(wire)[1] \in Tasks
  /\ Take(Head(wire)[1]) /\ FirstName
  /\ wire' = Tail(wire)
  /\ UNCHANGED <<poolVars, callVars, con, ending, asserted, consuming, queue,
                 reports, historyVars>>

\* The server has cancelled the consumer.
OnCancel ==
  /\ wire # <<>> /\ Head(wire) = <<"cancelled">>
  /\ RejectAll
  /\ wire' = Tail(wire)
  /\ UNCHANGED <<poolVars, callVars, con, ending, asserted, consuming, queue,
                 reports, historyVars>>

-----------------------------------------------------------------------------
(* get(), delete() and put()                                               *)

\* The promise of the map is looked up, or made, in the call itself.
Get(g) ==
  /\ Open
  /\ op[g] = "idle"
  /\ \/ Map!has(TaskOf[g]) /\ UNCHANGED mapVars
     \/ Map!Get(TaskOf[g]) /\ FirstName
  /\ heard' = [heard EXCEPT ![g] = promises'[TaskOf[g]]]
  /\ Goto(g, "awaiting")
  /\ late' = IF ending = "idle" THEN late ELSE late \union {g}
  /\ UNCHANGED <<poolVars, sends, result, con, ending, serverVars, missed, spared>>

\* The result is parsed and then races against a timeout it cannot lose any
\* more: get() ends when the promise of the map does, and not before.
FinishGet(g) ==
  /\ op[g] = "awaiting"
  /\ pstate[heard[g]] \in Map!Settled
  /\ Goto(g, "done")
  /\ result' = [result EXCEPT ![g] =
       IF pstate[heard[g]] = "fulfilled" THEN value[heard[g]] ELSE "rejected"]
  /\ heard' = [heard EXCEPT ![g] = None]
  /\ UNCHANGED <<poolVars, mapVars, sends, con, ending, serverVars, historyVars>>

Delete(d) ==
  /\ Open
  /\ op[d] = "idle"
  /\ \/ Map!Delete(TaskOf[d])
     \/ ~Map!hasData(TaskOf[d]) /\ UNCHANGED mapVars
  /\ Goto(d, "done")
  /\ missed' = missed \union {TaskOf[d]}
  /\ UNCHANGED <<poolVars, heard, sends, result, con, ending, serverVars, late, spared>>

Put(w) ==
  /\ Open
  /\ op[w] = "idle"
  /\ Pool!Get(w)
  /\ Goto(w, "connecting")
  /\ UNCHANGED <<mapVars, heard, sends, result, con, ending, serverVars, historyVars>>

\* use() has its channel: assertQueue().
PutAssert(w) ==
  /\ op[w] = "connecting" /\ ending # "closed"
  /\ Pool!Acquire(w)
  /\ Goto(w, "asserting")
  /\ UNCHANGED <<mapVars, heard, sends, result, con, ending, serverVars, historyVars>>

\* A message reaches the server: it goes to the consumer, waits for it, or is
\* dropped as there is no queue, or none that is consumed any more.
Arrive(t, exists) ==
  /\ wire' = IF consuming THEN Append(wire, <<t>>) ELSE wire
  /\ queue' = IF exists /\ ~consuming THEN Append(queue, <<t>>) ELSE queue
  /\ missed' = IF consuming \/ (exists /\ con # "consuming") THEN missed
               ELSE missed \union {t}

\* sendToQueue(): FALSE means that the buffer is full now, but the message is
\* in it.  The loop waits for "drain" and sends the message again.
PutSend(w) ==
  /\ op[w] \in {"asserting", "draining"} /\ ending # "closed"
  /\ asserted' = (asserted \/ op[w] = "asserting")
  /\ Arrive(TaskOf[w], asserted')
  /\ sends' = [sends EXCEPT ![w] = @ + 1]
  /\ \/ Goto(w, "sent")
     \/ w \in Slow /\ sends'[w] < MaxSends /\ Goto(w, "draining")
  /\ UNCHANGED <<poolVars, mapVars, heard, result, con, ending, consuming, reports,
                 late, spared>>

FinishPut(w) ==
  /\ op[w] = "sent"
  /\ Pool!Return(w)
  /\ Goto(w, "done")
  /\ UNCHANGED <<mapVars, heard, sends, result, con, ending, serverVars, historyVars>>

\* The connection is closed: creating a channel, and using one, rejects.
Cut(w) ==
  /\ ending = "closed"
  /\ \/ op[w] = "connecting" /\ Pool!CreateFail(w)
     \/ op[w] \in {"asserting", "draining"} /\ Pool!Return(w)
  /\ Goto(w, "cut")
  /\ UNCHANGED <<mapVars, heard, sends, result, con, ending, serverVars, historyVars>>

\* The same for a put() that had been given a channel just before.
CutGranted(w) ==
  /\ ending = "closed"
  /\ op[w] = "connecting"
  /\ Pool!Acquire(w)
  /\ Goto(w, "asserting")
  /\ UNCHANGED <<mapVars, heard, sends, result, con, ending, serverVars, historyVars>>

Created ==
  /\ ending # "closed"
  /\ \E c \in Puts \union {Con} : Pool!CreateOk(c)
  /\ FirstChannel
  /\ UNCHANGED <<mapVars, callVars, con, ending, serverVars, historyVars>>

-----------------------------------------------------------------------------
(* end()                                                                   *)

\* Both promises of the constructor's chain are awaited first.
EndReject ==
  /\ ending = "idle" /\ con = "consuming"
  /\ RejectAll
  /\ ending' = "cancelling"
  /\ UNCHANGED <<poolVars, callVars, con, serverVars, historyVars>>

\* basic.cancel at the server, which answers even if there is no consumer.
Cancel ==
  /\ ending = "cancelling"
  /\ \A i \in DOMAIN wire : wire[i] # <<"cancelOk">>
  /\ consuming' = FALSE
  /\ wire' = Append(wire, <<"cancelOk">>)
  /\ UNCHANGED <<poolVars, mapVars, callVars, con, ending, asserted, queue, reports,
                 historyVars>>

CancelOk ==
  /\ wire # <<>> /\ Head(wire) = <<"cancelOk">>
  /\ wire' = Tail(wire)
  /\ ending' = "cancelled"
  /\ UNCHANGED <<poolVars, mapVars, callVars, con, asserted, consuming, queue,
                 reports, historyVars>>

\* Mutant: cancel() is not awaited.
CancelSent == ending = "cancelling"

CancelDone == ending = "cancelled"

\* return() and destroyAll() are called in one segment: nothing else happens
\* while ending is "returned".
EndReturn ==
  /\ CancelDone
  /\ Pool!Return(Con)
  /\ ending' = "returned"
  /\ UNCHANGED <<mapVars, callVars, con, serverVars, historyVars>>

EndDestroy ==
  /\ ending = "returned"
  /\ Pool!DestroyNow("end") \/ Pool!DestroyLater("end")
  /\ ending' = "destroying"
  /\ spared' = {w \in Puts : op[w] \in {"asserting", "draining", "sent"}}
  /\ UNCHANGED <<mapVars, callVars, con, serverVars, missed, late>>

EndResume ==
  /\ Pool!DestroyResume("end")
  /\ UNCHANGED <<mapVars, callVars, con, ending, serverVars, historyVars>>

\* Mutant: destroyAll() is not awaited.
DestroyCalled == TRUE

DestroyDone == destroying["end"] = "done"

\* close() of the connection: from here on nothing can be sent.
EndClose ==
  /\ ending = "destroying"
  /\ DestroyDone
  /\ ending' = "closed"
  /\ UNCHANGED <<poolVars, mapVars, callVars, con, serverVars, historyVars>>

-----------------------------------------------------------------------------
(* The environment                                                         *)

WorkerReport(t) ==
  /\ con # "idle"
  /\ reports[t] < MaxReports
  /\ reports' = [reports EXCEPT ![t] = @ + 1]
  /\ Arrive(t, asserted)
  /\ UNCHANGED <<poolVars, mapVars, callVars, con, ending, asserted, consuming, late,
                 spared>>

\* The queue is deleted under its consumer.
ServerCancel ==
  /\ MayCancel
  /\ consuming /\ con = "consuming"
  /\ consuming' = FALSE /\ asserted' = FALSE
  /\ wire' = Append(wire, <<"cancelled">>)
  /\ UNCHANGED <<poolVars, mapVars, callVars, con, ending, queue, reports, historyVars>>

DoResolve ==
  /\ \E p \in Promises : Map!DoResolve(p)
  /\ UNCHANGED <<poolVars, callVars, con, ending, serverVars, historyVars>>

Evict(t) ==
  /\ Map!TimerFire(t)
  /\ missed' = missed \union {t}
  /\ UNCHANGED <<poolVars, callVars, con, ending, serverVars, late, spared>>

\* A call of the client, in whatever it is doing.
Call ==
  \/ ConConnect \/ EndReject
  \/ \E g \in Gets : Get(g)
  \/ \E d \in Deletes : Delete(d)
  \/ \E w \in Puts : Put(w)

\* The continuation of an await whose promise has settled.
EndMicrotask == EndReturn \/ EndResume
PutMicrotask(w) == PutAssert(w) \/ FinishPut(w) \/ CutGranted(w)
Microtask ==
  \/ ConAssert \/ DoResolve \/ EndMicrotask
  \/ \E g \in Gets : FinishGet(g)
  \/ \E w \in Puts : PutMicrotask(w)

\* Replies, messages, events and timers run when no microtask is left; what
\* happens at the server meanwhile may as well happen before or after.
NoMicrotask ==
  /\ Map!NoMicrotask
  /\ \A c \in Puts \union {Con} : call[c] # "granted"
  /\ \A g \in Gets : op[g] = "awaiting" => pstate[heard[g]] \notin Map!Settled
  /\ \A w \in Puts : op[w] # "sent"
  /\ ending # "cancelled" /\ destroying["end"] # "notified"

Hear == ConsumeOk \/ OnMessage \/ OnCancel \/ CancelOk
PutEvent(w) == PutSend(w) \/ Cut(w)
Due ==
  \/ Consume \/ Cancel \/ Hear \/ Created
  \/ \E w \in Puts : PutEvent(w)
  \/ \E t \in Tasks : WorkerReport(t)

Event ==
  \/ Due \/ ServerCancel
  \/ \E t \in Tasks : Evict(t)

Next ==
  \/ EndDestroy
  \/ ending # "returned" /\ Call
  \/ ending # "returned" /\ Microtask
  \/ NoMicrotask /\ ending # "returned" /\ Event
  \/ EndClose

Spec == Init /\ [][Next]_vars

\* The event loop, the server and the wire go on, "drain" comes, and every
\* task is reported on.  As each call is made once, it is enough that while
\* something is left to do, something is done.  Nothing makes a client call,
\* the server cancel or a timer fire.
Fairness ==
  /\ WF_vars(ConConnect \/ Microtask \/ EndDestroy \/ EndClose)
  /\ WF_vars(NoMicrotask /\ Due)

FairSpec == Spec /\ Fairness

-----------------------------------------------------------------------------
(* Properties                                                              *)

TypeOK ==
  /\ Pool!TypeOK /\ Map!TypeOK
  /\ op \in [Ops -> {"idle", "connecting", "asserting", "draining", "sent",
                     "awaiting", "done", "cut"}]
  /\ heard \in [Gets -> Promises \union {None}]
  /\ sends \in [Puts -> 0..MaxSends]
  /\ result \in [Gets -> {"none", "value", "rejected"}]
  /\ con \in {"idle", "connecting", "asserting", "subscribing", "consuming"}
  /\ ending \in {"idle", "cancelling", "cancelled", "returned", "destroying", "closed"}
  /\ asserted \in BOOLEAN /\ consuming \in BOOLEAN
  /\ reports \in [Tasks -> 0..MaxReports]
  /\ missed \subseteq Tasks /\ late \subseteq Gets /\ spared \subseteq Puts

\* The channel with the consumer is nobody else's: as long as the server may
\* send on it, neither put() gets it from the pool nor destroyAll() closes it,
\* although end() puts it back like any other.
ConsumerKeepsItsChannel ==
  consuming =>
    /\ call[Con] = "holding"
    /\ got[Con] \notin destroyed
    /\ \A w \in Puts : got[w] # got[Con]

\* end() leaves nobody waiting: every get() made before it rejects what is
\* pending has its result or the rejection.  (Not if delete() dropped the
\* result while it was being taken: the late setStatus() marks the entry of
\* the next get() as fulfilled, and rejectAll() passes over it.)
EndLeavesNone ==
  ending # "idle" =>
    \A g \in Gets \ late :
      op[g] = "awaiting" /\ pstate[heard[g]] = "open" =>
        \E d \in Deletes : TaskOf[d] = TaskOf[g] /\ op[d] = "done"

\* "Gently closes all channels and the connection": end() does not close the
\* connection under a put() that had its channel when end() began to close
\* them.  (It may under one whose channel was still being created, or that
\* was given the consumer's.)
PutsSurvive == \A w \in spared : op[w] # "cut"

\* Everybody ends: a get(), also one that end() has not rejected, if its task is
\* reported on while the backend listens; a put(), with success or an error, as
\* the consumer's channel goes from hand to hand down the queue of the pool;
\* and end() itself.  Only a put() that was made while end() waits may be left
\* in that queue for ever: destroyAll() gives no resource back.
EverybodyEnds ==
  /\ \A g \in Gets : op[g] = "awaiting" ~> op[g] = "done" \/ TaskOf[g] \in missed
  /\ \A w \in Puts :
       /\ op[w] = "connecting" /\ ending = "idle" ~> op[w] \in {"done", "cut"}
       /\ op[w] = "connecting" ~>
            op[w] \in {"done", "cut"} \/ (ending = "closed" /\ call[w] = "waiting")
  /\ ending # "idle" ~> ending = "closed"

-----------------------------------------------------------------------------
(* The backend as a service                                                *)

Outcome(c) ==
  CASE op[c] = "idle" -> "unmade"
    [] op[c] = "done" -> IF c \in Gets THEN result[c] ELSE "resolved"
    [] op[c] = "cut" -> "rejected"
    [] OTHER -> "pending"

Delivered == {w \in Puts : sends[w] > 0}
Reported(t) == reports[t] > 0 \/ \E w \in Delivered : TaskOf[w] = t

Closing ==
  IF ending = "closed" THEN "closed" ELSE
  CASE destroying["end"] = "idle" -> "open"
    [] destroying["end"] = "awaitEmpty" -> "draining"
    [] OTHER -> "drained"

Service == INSTANCE ServiceContract WITH
  Results <- {"value"},
  outcome <- [c \in Ops |-> Outcome(c)],
  using <- {w \in Puts : call[w] = "holding"},
  delivered <- Delivered,
  reported <- [t \in Tasks |-> IF Reported(t) THEN {"value"} ELSE {}],
  closing <- Closing

\* The consumer, the map and the pool together are a result backend: a get()
\* is answered by results of its own task, whatever else is on the wire or in
\* the map; put() resolves when its message is sent, and only a closed
\* connection cuts it, which end() closes some time after a moment at which no
\* put() had a channel.  A put() that had one before that moment is not cut; one
\* that gets a channel after it can be (EndReturn gives it the consumer's,
\* EndDestroy does not see it in inUse yet, and EndClose does not look again).
ImplementsService == Service!Spec
=============================================================================

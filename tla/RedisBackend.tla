---------------------------- MODULE RedisBackend ----------------------------
(***************************************************************************)
(* The result backend of src/redis/backend.ts: a ResourcePool of two       *)
(* connections, one of which becomes the subscriber, and a PromiseMap of   *)
(* the results clients wait for, both taken from their own modules; and,   *)
(* as its environment, the Redis server, its two-way connections and the   *)
(* workers that publish results.                                           *)
(*                                                                         *)
(* A call of the backend goes                                              *)
(*   get:     idle -> connecting -> asking -> replied -> awaiting -> done  *)
(*            idle -> listening -> done       (somebody waits already)     *)
(*   delete:  idle -> connecting -> asking -> replied -> done              *)
(*   put:     idle -> connecting -> asking -> replied -> done              *)
(* where the server answers between asking and replied.                    *)
(***************************************************************************)
EXTENDS Naturals, Sequences, FiniteSets

CONSTANTS
  Gets, Deletes, Puts,  \* the calls made of the backend, each made once
  Sub,                  \* the constructor's own pool.get()
  TaskOf,               \* the task each call is about
  Tasks, Conns, Promises, None,
  Statuses,             \* what workers may report: "success", "other"
  MaxReports,           \* bounds the reports of workers per task
  SubscribedFirst,      \* calls and reports only start once listening
  GetsTimeOut,          \* whether get() is given a timeout
  EndWhen               \* "never", at "any" time, or only when the backend is
                        \* "quiet" and stays so

Ops == Gets \union Deletes \union Puts

ASSUME BackendAssumption ==
  /\ TaskOf \in [Ops -> Tasks]
  /\ Gets \intersect Deletes = {} /\ (Gets \union Deletes) \intersect Puts = {}
  /\ Sub \notin Ops
  /\ IsFiniteSet(Ops) /\ IsFiniteSet(Conns)
  /\ Cardinality(Conns) >= 2
  /\ None \notin Conns \union Promises \union Tasks
  /\ (Ops \union {Sub}) \intersect {"unborn", "free", "gone"} = {}
  /\ Statuses \subseteq {"success", "other"}
  /\ MaxReports \in Nat
  /\ SubscribedFirst \in BOOLEAN /\ GetsTimeOut \in BOOLEAN
  /\ EndWhen \in {"never", "any", "quiet"}

VARIABLES
  unused, inUse, resourceCount, waiting, call, got, destroying, created, destroyed,
  promises, data, stale, pstate, keyOf, value,
  op,           \* the control state of each call
  reply,        \* what GET answered each get
  late,         \* the gets whose race against the timeout is lost
  heard,        \* the promise of the map each get awaits, or None
  result,       \* what each finished get returned
  payload,      \* the message each promise of the map was resolved with
  sub,          \* the control state of the constructor's chain
  ending,       \* the control state of end()
  \* the server and the wire
  store,        \* task -> stored status or "none"
  reports,      \* task -> the statuses reported so far
  patterns,     \* the connections in subscriber mode
  wire,         \* what the server has sent to the subscriber
  missed        \* the tasks with a report the backend did not hear

poolVars == <<unused, inUse, resourceCount, waiting, call, got, destroying,
              created, destroyed>>
mapVars == <<promises, data, stale, pstate, keyOf, value, payload>>
callVars == <<op, reply, late, heard, result>>
serverVars == <<store, reports, patterns, wire, missed>>
vars == <<poolVars, mapVars, callVars, sub, ending, serverVars>>

Pool == INSTANCE ResourcePool WITH
  Callers <- Ops \union {Sub}, Closers <- {"end"}, Resources <- Conns,
  MaxResources <- 2, CreateMayFail <- FALSE

Map == INSTANCE PromiseMap WITH
  Keys <- Tasks, Values <- {"value"}, HasTimeout <- TRUE, MaxStale <- 0,
  Uses <- {"delete", "pending", "settled"}

OpStates == {"idle", "connecting", "asking", "replied", "awaiting", "listening",
             "done"}

Init ==
  /\ Pool!Init /\ Map!Init
  /\ op = [o \in Ops |-> "idle"]
  /\ reply = [g \in Gets |-> "none"]
  /\ late = {}
  /\ heard = [g \in Gets |-> None]
  /\ result = [g \in Gets |-> "none"]
  /\ payload = [p \in Promises |-> "none"]
  /\ sub = "idle" /\ ending = "idle"
  /\ store = [t \in Tasks |-> "none"] /\ reports = [t \in Tasks |-> <<>>]
  /\ patterns = {} /\ wire = <<>> /\ missed = {}

\* When the model lets clients call and workers report: never before the
\* constructor.
Open ==
  /\ sub # "idle"
  /\ SubscribedFirst => sub = "listening"
  /\ EndWhen = "quiet" => ending = "idle"
Quiet == \A o \in Ops : op[o] \in {"idle", "done"}

\* end() is not between its two calls of the pool.
Turn == ending # "returned"

Goto(o, s) == op' = [op EXCEPT ![o] = s]

\* A promise that some get() still has is not made anew.
KeepHeard ==
  \A g \in Gets : heard[g] # None /\ pstate[heard[g]] \in Map!Settled =>
    pstate'[heard[g]] = pstate[heard[g]]

-----------------------------------------------------------------------------
(* The subscriber                                                          *)

SubConnect ==
  /\ Turn
  /\ sub = "idle"
  /\ Pool!Get(Sub)
  /\ sub' = "connecting"
  /\ UNCHANGED <<mapVars, callVars, ending, serverVars>>

\* createClient() is synchronous: its connection is there in the next turn.
Created ==
  /\ Turn
  /\ \E c \in Ops \union {Sub} : Pool!CreateOk(c)
  /\ UNCHANGED <<mapVars, callVars, sub, ending, serverVars>>

SubSend ==
  /\ Turn
  /\ sub = "connecting"
  /\ Pool!Acquire(Sub)
  /\ sub' = "subscribing"
  /\ UNCHANGED <<mapVars, callVars, ending, serverVars>>

Psubscribed ==
  /\ Turn
  /\ sub = "subscribing" /\ patterns = {}
  /\ patterns' = {got[Sub]}
  /\ wire' = Append(wire, <<"ack">>)
  /\ UNCHANGED <<poolVars, mapVars, callVars, sub, ending, store, reports, missed>>

Acknowledged ==
  /\ Turn
  /\ wire # <<>> /\ Head(wire) = <<"ack">>
  /\ wire' = Tail(wire)
  /\ sub' = "confirmed"
  /\ UNCHANGED <<poolVars, mapVars, callVars, ending, store, reports, patterns, missed>>

\* The continuation of psubscribe() attaches the "pmessage" handler.
Attach ==
  /\ Turn
  /\ sub = "confirmed"
  /\ sub' = "listening"
  /\ UNCHANGED <<poolVars, mapVars, callVars, ending, serverVars>>

\* Mutant: results nobody asked for yet are ignored.
AcceptKnown(t) == Map!has(t)

Accept(t) == TRUE

\* onMessage(), for a message <<task, status>>.  It throws at a channel that
\* does not name a task, on which nobody publishes.
OnMessage ==
  /\ Turn
  /\ wire # <<>> /\ Len(Head(wire)) = 2
  /\ sub = "listening"
  /\ wire' = Tail(wire)
  /\ IF Accept(Head(wire)[1])
     THEN Map!Resolve(Head(wire)[1], "value") /\ KeepHeard
     ELSE UNCHANGED mapVars
  /\ payload' = [p \in Promises |->
                   IF pstate'[p] = "running" /\ pstate[p] # "running"
                   THEN Head(wire)[2] ELSE payload[p]]
  /\ UNCHANGED <<poolVars, callVars, sub, ending, store, reports, patterns, missed>>

\* No handler yet: nobody hears the event.
Unheard ==
  /\ Turn
  /\ wire # <<>> /\ Len(Head(wire)) = 2
  /\ sub # "listening"
  /\ wire' = Tail(wire)
  /\ missed' = missed \union {Head(wire)[1]}
  /\ UNCHANGED <<poolVars, mapVars, callVars, sub, ending, store, reports, patterns>>

-----------------------------------------------------------------------------
(* get(), delete() and put()                                               *)

\* listen(): the promise of the map, a new one if there is none.
Listen(g) ==
  /\ \/ Map!has(TaskOf[g]) /\ UNCHANGED mapVars
     \/ Map!Get(TaskOf[g]) /\ KeepHeard /\ UNCHANGED payload
  /\ heard' = [heard EXCEPT ![g] = promises'[TaskOf[g]]]

Call(o) ==
  /\ Turn
  /\ Open
  /\ op[o] = "idle"
  /\ o \in Gets => ~Map!has(TaskOf[o])
  /\ Pool!Get(o)
  /\ Goto(o, "connecting")
  /\ UNCHANGED <<mapVars, reply, late, heard, result, sub, ending, serverVars>>

GetListening(g) ==
  /\ Turn
  /\ Open
  /\ op[g] = "idle"
  /\ Map!has(TaskOf[g])
  /\ Listen(g)
  /\ Goto(g, "listening")
  /\ UNCHANGED <<poolVars, reply, late, result, sub, ending, serverVars>>

\* use() has its connection: the callback sends its command.  That of
\* delete() first drops the key from the map.
Send(o) ==
  /\ Turn
  /\ op[o] = "connecting"
  /\ Pool!Acquire(o)
  /\ Goto(o, "asking")
  /\ IF o \in Deletes /\ Map!hasData(TaskOf[o])
     THEN Map!Delete(TaskOf[o]) /\ UNCHANGED payload
     ELSE UNCHANGED mapVars
  /\ UNCHANGED <<reply, late, heard, result, sub, ending, serverVars>>

\* MULTI SETEX PUBLISH EXEC
Report(t, st) ==
  /\ store' = [store EXCEPT ![t] = st]
  /\ reports' = [reports EXCEPT ![t] = Append(@, st)]
  /\ IF patterns = {}
     THEN missed' = missed \union {t} /\ UNCHANGED wire
     ELSE wire' = Append(wire, <<t, st>>) /\ UNCHANGED missed
  /\ UNCHANGED patterns

Answer(o) ==
  /\ Turn
  /\ op[o] = "asking"
  /\ Goto(o, "replied")
  /\ \/ /\ o \in Gets
        /\ reply' = [reply EXCEPT ![o] = store[TaskOf[o]]]
        /\ UNCHANGED serverVars
     \/ /\ o \in Deletes
        /\ store' = [store EXCEPT ![TaskOf[o]] = "none"]
        /\ UNCHANGED <<reply, reports, patterns, wire, missed>>
     \/ /\ o \in Puts
        /\ Report(TaskOf[o], "success")
        /\ UNCHANGED reply
  /\ UNCHANGED <<poolVars, mapVars, late, heard, result, sub, ending>>

\* Mutant: only a stored failure is not taken for the result.
FinalUnlessFailed(r) == r # "other"

Final(r) == r = "success"

\* Nothing, or not a success: wait on the subscriber, keeping the connection.
GetAwait(g) ==
  /\ Turn
  /\ op[g] = "replied"
  /\ ~Final(reply[g])
  /\ Listen(g)
  /\ Goto(g, IF g \in late THEN "done" ELSE "awaiting")
  /\ UNCHANGED <<poolVars, reply, late, result, sub, ending, serverVars>>

\* Mutant: the connection is not returned.
KeepConnection(o) == UNCHANGED poolVars

GiveBack(o) == Pool!Return(o)

\* returnAfter(): the call is over and its connection goes back.
Finish(o, r) ==
  /\ GiveBack(o)
  /\ result' = IF o \in Gets THEN [result EXCEPT ![o] = r] ELSE result
  /\ UNCHANGED <<mapVars, reply, sub, ending, serverVars>>

FinishReplied(o) ==
  /\ Turn
  /\ op[o] = "replied" /\ o \notin late
  /\ o \in Gets => Final(reply[o])
  /\ Finish(o, "success")
  /\ Goto(o, "done")
  /\ UNCHANGED <<late, heard>>

\* A successful answer after the timeout: nobody is there to take it.
IgnoreReplied(g) ==
  /\ Turn
  /\ op[g] = "replied" /\ g \in late
  /\ Final(reply[g])
  /\ Goto(g, "done")
  /\ UNCHANGED <<poolVars, mapVars, reply, late, heard, result, sub, ending, serverVars>>

Outcome(p) == IF pstate[p] = "fulfilled" THEN payload[p] ELSE "rejected"
Forget(g) == heard' = [heard EXCEPT ![g] = None]

FinishHeard(g) ==
  /\ Turn
  /\ op[g] = "awaiting"
  /\ pstate[heard[g]] \in Map!Settled
  /\ Finish(g, Outcome(heard[g]))
  /\ Goto(g, "done") /\ Forget(g)
  /\ UNCHANGED late

HearListening(g) ==
  /\ Turn
  /\ op[g] = "listening"
  /\ pstate[heard[g]] \in Map!Settled
  /\ result' = [result EXCEPT ![g] = Outcome(heard[g])]
  /\ Goto(g, "done") /\ Forget(g)
  /\ UNCHANGED <<poolVars, mapVars, reply, late, sub, ending, serverVars>>

\* createTimeoutPromise(): the race is lost and the connection goes back, but
\* the command, its answer and the promise in the map stay.
TimeOut(g) ==
  /\ Turn
  /\ GetsTimeOut
  /\ op[g] \in {"asking", "replied", "awaiting"} /\ g \notin late
  /\ Finish(g, "timeout")
  /\ late' = late \union {g}
  /\ Goto(g, IF op[g] = "awaiting" THEN "done" ELSE op[g]) /\ Forget(g)

-----------------------------------------------------------------------------
(* end()                                                                   *)

EndUnsubscribe ==
  /\ Turn
  /\ EndWhen # "never"
  /\ EndWhen = "quiet" => Quiet
  /\ ending = "idle"
  /\ sub = "listening"
  /\ ending' = "unsubscribing"
  /\ UNCHANGED <<poolVars, mapVars, callVars, sub, serverVars>>

Punsubscribed ==
  /\ Turn
  /\ ending = "unsubscribing" /\ patterns # {}
  /\ patterns' = {}
  /\ wire' = Append(wire, <<"unack">>)
  /\ UNCHANGED <<poolVars, mapVars, callVars, sub, ending, store, reports, missed>>

Unacknowledged ==
  /\ Turn
  /\ wire # <<>> /\ Head(wire) = <<"unack">>
  /\ wire' = Tail(wire)
  /\ ending' = "unsubscribed"
  /\ UNCHANGED <<poolVars, mapVars, callVars, sub, store, reports, patterns, missed>>

\* Mutant: punsubscribe() is not awaited.
EndNotAwaited == ending = "unsubscribing"

EndAwaited == ending = "unsubscribed"

\* pool.return() and pool.destroyAll() are called in one segment: nothing
\* else happens while ending is "returned".
EndReturn ==
  /\ EndAwaited
  /\ Pool!Return(Sub)
  /\ ending' = "returned"
  /\ UNCHANGED <<mapVars, callVars, sub, serverVars>>

EndDestroy ==
  /\ ending = "returned"
  /\ Pool!DestroyNow("end") \/ Pool!DestroyLater("end")
  /\ ending' = "destroying"
  /\ UNCHANGED <<mapVars, callVars, sub, serverVars>>

EndResume ==
  /\ Turn
  /\ Pool!DestroyResume("end")
  /\ UNCHANGED <<mapVars, callVars, sub, ending, serverVars>>

-----------------------------------------------------------------------------
(* The environment                                                         *)

\* A worker reports on a task; a task that succeeded is not reported again.
WorkerReport(t) ==
  /\ Turn
  /\ Open
  /\ Len(reports[t]) < MaxReports
  /\ store[t] # "success"
  /\ \E st \in Statuses : Report(t, st)
  /\ UNCHANGED <<poolVars, mapVars, callVars, sub, ending>>

DoResolve ==
  /\ Turn
  /\ \E p \in Promises : Map!DoResolve(p)
  /\ UNCHANGED <<poolVars, payload, callVars, sub, ending, serverVars>>

\* The timeout of the map is a day: no call is between two messages then, but
\* one may be queueing for a connection for that long.
Evict ==
  /\ Turn
  /\ \A o \in Ops :
       /\ op[o] \notin {"asking", "replied"}
       /\ op[o] = "connecting" => call[o] = "waiting"
  /\ Map!Timer
  /\ UNCHANGED <<poolVars, payload, callVars, sub, ending, serverVars>>

GetStep(g) ==
  \/ GetListening(g) \/ GetAwait(g) \/ FinishHeard(g) \/ HearListening(g)
  \/ IgnoreReplied(g) \/ TimeOut(g)

OpStep(o) == Call(o) \/ Send(o) \/ Answer(o) \/ FinishReplied(o)

SubStep ==
  SubConnect \/ SubSend \/ Psubscribed \/ Acknowledged \/ Attach \/ OnMessage
  \/ Unheard

EndStep ==
  EndUnsubscribe \/ Punsubscribed \/ Unacknowledged \/ EndReturn \/ EndDestroy
  \/ EndResume

Next ==
  \/ SubStep \/ EndStep \/ Created \/ DoResolve \/ Evict
  \/ \E o \in Ops : OpStep(o)
  \/ \E g \in Gets : GetStep(g)
  \/ \E t \in Tasks : WorkerReport(t)

Spec == Init /\ [][Next]_vars

\* The event loop, the server and the wire go on.  Nothing makes a client
\* call, a worker report, a timeout of a get() or of the map come.
Progress ==
  /\ WF_vars(SubStep)
  /\ WF_vars(EndStep /\ ending # "idle")
  /\ \A c \in Ops \union {Sub} : WF_vars(Created /\ call[c] = "creating")
  /\ WF_vars(DoResolve)
  /\ \A o \in Ops : WF_vars(Send(o) \/ Answer(o) \/ FinishReplied(o))
  /\ \A g \in Gets : WF_vars(GetAwait(g) \/ IgnoreReplied(g) \/ FinishHeard(g) \/ HearListening(g))

\* Every task is reported on.
WorkersReport == \A t \in Tasks : WF_vars(WorkerReport(t))

\* A get() with a timeout that reached its race loses it in the end.
TimersFire == \A g \in Gets : WF_vars(TimeOut(g))

FairSpec == Spec /\ Progress
WorkingSpec == Spec /\ Progress /\ WorkersReport
TimedSpec == Spec /\ Progress /\ TimersFire

-----------------------------------------------------------------------------
(* Safety                                                                  *)

TypeOK ==
  /\ Pool!TypeOK /\ Map!TypeOK
  /\ op \in [Ops -> OpStates]
  /\ reply \in [Gets -> {"none", "success", "other"}]
  /\ late \subseteq Gets
  /\ heard \in [Gets -> Promises \union {None}]
  /\ result \in [Gets -> {"none", "success", "other", "rejected", "timeout"}]
  /\ payload \in [Promises -> {"none", "success", "other"}]
  /\ sub \in {"idle", "connecting", "subscribing", "confirmed", "listening"}
  /\ ending \in {"idle", "unsubscribing", "unsubscribed", "returned", "destroying"}
  /\ store \in [Tasks -> {"none", "success", "other"}]
  /\ patterns \subseteq Conns
  /\ missed \subseteq Tasks

\* The connection in subscriber mode, where Redis refuses ordinary commands,
\* and the connections destroyAll() closed are never used for a command,
\* although the subscriber's own goes back to the pool in end().
OnlyPlainConnections ==
  \A o \in Ops : call[o] \in {"granted", "holding"} =>
    got[o] \notin patterns \union destroyed

\* A call has its connection exactly while it may need it: from the moment
\* get() returned until the result, the rejection or the timeout.
ConnectionWhileNeeded ==
  \A o \in Ops :
    call[o] = "holding" <=>
      op[o] \in {"asking", "replied", "awaiting"} /\ o \notin late

\* No wake-up is lost between GET and the wait: if a get() waits although its
\* task has succeeded, the message that will wake it is on its way.  This is
\* what the order of redis/backend.ts:116-121, "SUBSCRIBE to the correct key
\* ID, then try GET", is for.  (Not if a report on the task was published
\* while the backend did not listen, which the constructor does not wait for;
\* nor between delete() dropping the key from the map and the server executing
\* its DEL.)
WakeupComing ==
  \A g \in Gets :
    /\ TaskOf[g] \notin missed
    /\ \A d \in Deletes : op[d] # "asking"
    /\ op[g] \in {"awaiting", "listening"}
    /\ pstate[heard[g]] = "open"
    /\ store[TaskOf[g]] = "success"
    => \E i \in DOMAIN wire : wire[i] = <<TaskOf[g], "success">>

\* A get() returns nothing but what was reported on its own task.
AnswersAreReports ==
  \A g \in Gets : result[g] \in {"success", "other"} =>
    \E i \in DOMAIN reports[TaskOf[g]] : reports[TaskOf[g]][i] = result[g]

\* What each call has come to; a get() that timed out is over although its
\* answer is still on the way.
Returned(r) == CASE r = "none" -> "pending" [] r = "timeout" -> "rejected" [] OTHER -> r

Settlement(o) ==
  CASE op[o] = "idle" -> "unmade"
    [] op[o] # "idle" /\ o \in Gets -> Returned(result[o])
    [] op[o] = "done" /\ o \notin Gets -> "resolved"
    [] OTHER -> "pending"

Closing ==
  CASE destroying["end"] = "idle" -> "open"
    [] destroying["end"] = "awaitEmpty" -> "draining"
    [] OTHER -> "drained"

Service == INSTANCE ServiceContract WITH
  Results <- {"success", "other"},
  outcome <- [o \in Ops |-> Settlement(o)],
  using <- {o \in Ops : call[o] = "holding"},
  delivered <- {w \in Puts : op[w] \in {"replied", "done"}},
  reported <- [t \in Tasks |-> {reports[t][i] : i \in DOMAIN reports[t]}],
  closing <- Closing

\* The pool, the map, the subscriber and the races of get() together are a
\* result backend: a get() settles once, with a timeout, a rejection or a
\* report of its own task; put() resolves when it was executed; end() waits
\* for a moment at which nobody uses a connection.
ImplementsService == Service!Spec

\* get() resolves to a successful result: "If GET returns a successful result
\* ... Otherwise, wait until a successful result is received"
\* (redis/backend.ts:117-121).
OnlySuccess == \A g \in Gets : result[g] # "other"

-----------------------------------------------------------------------------
(* Liveness                                                                *)

\* If every task is reported on, every get() ends, also those that must queue
\* for a connection behind others.
EveryGetEnds == \A g \in Gets : op[g] # "idle" ~> op[g] = "done"

\* A get() with a timeout ends whatever workers do: timeout is "the time to
\* wait before rejecting the Promise" (redis/backend.ts:123-124).
TimedGetEnds ==
  GetsTimeOut => \A g \in Gets : op[g] # "idle" ~> op[g] = "done"

\* end() on a quiet backend ends.
EndEnds == ending # "idle" ~> destroying["end"] = "done"

\* delete(): "If the result has not been received yet, will immediately
\* discard it" (result.ts:69-70), whether or not a worker ever reports.
EveryDeleteEnds == \A d \in Deletes : op[d] # "idle" ~> op[d] = "done"
=============================================================================

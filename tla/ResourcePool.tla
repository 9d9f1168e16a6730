---------------------------- MODULE ResourcePool ----------------------------
(***************************************************************************)
(* The generic pool of src/containers/resource_pool.ts, which every        *)
(* backend and broker keeps its connections or channels in.                *)
(*                                                                         *)
(* JavaScript runs one synchronous segment at a time, so an action is one  *)
(* segment: from a call, or from the continuation of an await, to the next *)
(* await.  Callers are the users of get(), return() and use(), any number  *)
(* of times; Closers are the calls of destroyAll(), each made at most      *)
(* once.                                                                   *)
(*                                                                         *)
(* get() awaits getResource() and only then registers the resource in      *)
(* inUse, so a resource spends at least one turn of the microtask queue    *)
(* "granted": in neither unused nor inUse.  Everything subtle about this   *)
(* pool happens in that turn.                                              *)
(***************************************************************************)
EXTENDS Integers, Sequences, FiniteSets, SequencesExt

CONSTANTS
  Callers,        \* the concurrent users of the pool
  Closers,        \* the calls of destroyAll()
  Resources,      \* everything create() may ever make
  MaxResources,   \* the constructor's maxResources
  CreateMayFail,  \* whether create() may reject
  None            \* no resource

ASSUME PoolAssumption ==
  /\ IsFiniteSet(Callers) /\ IsFiniteSet(Resources)
  /\ MaxResources \in Nat
  /\ MaxResources <= Cardinality(Resources)
  /\ CreateMayFail \in BOOLEAN
  /\ None \notin Resources
  /\ Callers \intersect {"unborn", "free", "gone"} = {}

VARIABLES
  \* the fields of the class
  unused,         \* List<T> used as a FIFO queue
  inUse,          \* Set<T>
  resourceCount,  \* the number of create() calls ever made
  waiting,        \* PromiseQueue<T>: the callers whose promise is queued
  \* the calls in progress
  call,           \* the control state of each caller
  got,            \* the resource its getResource() resolved with, or None
  destroying,     \* the control state of each destroyAll()
  \* the world
  created,        \* the resources create() has delivered
  destroyed       \* the resources destroy() was called with

poolVars == <<unused, inUse, resourceCount, waiting>>
callVars == <<call, got>>
worldVars == <<created, destroyed>>
vars == <<poolVars, callVars, destroying, worldVars>>

\* idle:     no get() in progress
\* creating: awaiting create()             waiting: awaiting waiting.push()
\* granted:  getResource() has resolved    holding: get() has returned
CallStates == {"idle", "creating", "waiting", "granted", "holding"}

\* awaitEmpty: listening for "empty"       notified: the event was emitted
CloserStates == {"idle", "awaitEmpty", "notified", "done"}

Init ==
  /\ unused = <<>> /\ inUse = {} /\ resourceCount = 0 /\ waiting = <<>>
  /\ call = [c \in Callers |-> "idle"]
  /\ got = [c \in Callers |-> None]
  /\ destroying = [d \in Closers |-> "idle"]
  /\ created = {} /\ destroyed = {}

-----------------------------------------------------------------------------
(* get() and getResource()                                                 *)

\* Mutants: one too many, one too few, not counted.
MayCreateExtra(n) == n <= MaxResources
MayCreateFewer(n) == n + 1 < MaxResources
Uncounted(n) == n

MayCreate(n) == n < MaxResources
Counted(n) == n + 1

\* The oldest unused resource is taken out at once.
GetUnused(c) ==
  /\ call[c] = "idle"
  /\ unused # <<>>
  /\ unused' = Tail(unused)
  /\ call' = [call EXCEPT ![c] = "granted"]
  /\ got' = [got EXCEPT ![c] = Head(unused)]
  /\ UNCHANGED <<inUse, resourceCount, waiting, destroying, worldVars>>

\* None unused and below the maximum: count the new resource, then create it.
GetCreate(c) ==
  /\ call[c] = "idle"
  /\ unused = <<>>
  /\ MayCreate(resourceCount)
  /\ resourceCount' = Counted(resourceCount)
  /\ call' = [call EXCEPT ![c] = "creating"]
  /\ UNCHANGED <<unused, inUse, waiting, got, destroying, worldVars>>

\* Mutant: last come, first served.
PushFront(c) == <<c>> \o waiting

PushBack(c) == Append(waiting, c)

\* At the maximum: wait for a return.
GetWait(c) ==
  /\ call[c] = "idle"
  /\ unused = <<>>
  /\ ~MayCreate(resourceCount)
  /\ waiting' = PushBack(c)
  /\ call' = [call EXCEPT ![c] = "waiting"]
  /\ UNCHANGED <<unused, inUse, resourceCount, got, destroying, worldVars>>

CreateOk(c) ==
  /\ call[c] = "creating"
  /\ \E r \in Resources \ created :
       /\ created' = created \union {r}
       /\ got' = [got EXCEPT ![c] = r]
  /\ call' = [call EXCEPT ![c] = "granted"]
  /\ UNCHANGED <<poolVars, destroying, destroyed>>

\* A rejected create() rejects get(); resourceCount is not given back.
CreateFail(c) ==
  /\ CreateMayFail
  /\ call[c] = "creating"
  /\ call' = [call EXCEPT ![c] = "idle"]
  /\ UNCHANGED <<poolVars, got, destroying, worldVars>>

\* The continuation of get() after its await.
Acquire(c) ==
  /\ call[c] = "granted"
  /\ inUse' = inUse \union {got[c]}
  /\ call' = [call EXCEPT ![c] = "holding"]
  /\ UNCHANGED <<unused, resourceCount, waiting, got, destroying, worldVars>>

Get(c) == GetUnused(c) \/ GetCreate(c) \/ GetWait(c)

-----------------------------------------------------------------------------
(* return(), also as use() and returnAfter() call it                       *)

\* Mutants: the queue is not looked at; its head stays in it.
NobodyWaits == FALSE
KeepWaiting == waiting

SomeoneWaits == waiting # <<>>
ShiftWaiting == Tail(waiting)

\* The head of the queue is resolved with the resource: it is not unused in
\* between, and it leaves inUse until the new owner's get() continues.
ReturnToWaiter(c) ==
  /\ call[c] = "holding"
  /\ SomeoneWaits
  /\ inUse' = inUse \ {got[c]}
  /\ waiting' = ShiftWaiting
  /\ call' = [call EXCEPT ![c] = "idle", ![Head(waiting)] = "granted"]
  /\ got' = [got EXCEPT ![c] = None, ![Head(waiting)] = got[c]]
  /\ UNCHANGED <<unused, resourceCount, destroying, worldVars>>

\* Mutant: the event is not emitted.
NotifyNobody(stillInUse) == destroying

\* emptyEmitter.emit("empty") when the last resource leaves inUse.
NotifyIfEmpty(stillInUse) ==
  [d \in Closers |->
     IF stillInUse = {} /\ destroying[d] = "awaitEmpty" THEN "notified"
     ELSE destroying[d]]

\* Mutants: the resource is dropped; it is pushed twice.
LoseReturned(r) == unused
PushTwice(r) == unused \o <<r, r>>

PushUnused(r) == Append(unused, r)

ReturnToUnused(c) ==
  /\ call[c] = "holding"
  /\ ~SomeoneWaits
  /\ inUse' = inUse \ {got[c]}
  /\ destroying' = NotifyIfEmpty(inUse')
  /\ unused' = PushUnused(got[c])
  /\ call' = [call EXCEPT ![c] = "idle"]
  /\ got' = [got EXCEPT ![c] = None]
  /\ UNCHANGED <<resourceCount, waiting, worldVars>>

Return(c) == ReturnToWaiter(c) \/ ReturnToUnused(c)

-----------------------------------------------------------------------------
(* destroyAll()                                                            *)

\* Mutant: the destroyed resources stay in the list.
ForgetNothing == unused

ForgetUnused == <<>>

\* A snapshot of unused is destroyed and the list replaced, in one segment.
Collect(d) ==
  /\ destroyed' = destroyed \union ToSet(unused)
  /\ unused' = ForgetUnused
  /\ destroying' = [destroying EXCEPT ![d] = "done"]
  /\ UNCHANGED <<inUse, resourceCount, waiting, callVars, created>>

DestroyNow(d) ==
  /\ destroying[d] = "idle"
  /\ inUse = {}
  /\ Collect(d)

DestroyLater(d) ==
  /\ destroying[d] = "idle"
  /\ inUse # {}
  /\ destroying' = [destroying EXCEPT ![d] = "awaitEmpty"]
  /\ UNCHANGED <<poolVars, callVars, worldVars>>

\* The continuation of the await: inUse is not looked at again.
DestroyResume(d) ==
  /\ destroying[d] = "notified"
  /\ Collect(d)

Destroy(d) == DestroyNow(d) \/ DestroyLater(d) \/ DestroyResume(d)

-----------------------------------------------------------------------------
Serve(c) == CreateOk(c) \/ CreateFail(c) \/ Acquire(c) \/ Return(c)

Next ==
  \/ \E c \in Callers : Get(c) \/ Serve(c)
  \/ \E d \in Closers : Destroy(d)

Spec == Init /\ [][Next]_vars

\* create() settles, a resolved promise's continuation runs, and a user that
\* got a resource returns it: use() does so whether its callback succeeds or
\* not.  Nobody has to call get() or destroyAll().
Fairness ==
  /\ \A c \in Callers :
       /\ WF_vars(CreateOk(c) \/ CreateFail(c))
       /\ WF_vars(Acquire(c))
       /\ WF_vars(Return(c))
  /\ \A d \in Closers : WF_vars(DestroyResume(d))

FairSpec == Spec /\ Fairness

-----------------------------------------------------------------------------
(* Safety                                                                  *)

Owners == {c \in Callers : call[c] \in {"granted", "holding"}}
Creating == {c \in Callers : call[c] = "creating"}
Held == {got[c] : c \in Owners}

TypeOK ==
  /\ unused \in Seq(Resources)
  /\ inUse \in SUBSET Resources
  /\ resourceCount \in 0..MaxResources
  /\ waiting \in Seq(Callers)
  /\ call \in [Callers -> CallStates]
  /\ got \in [Callers -> Resources \union {None}]
  /\ destroying \in [Closers -> CloserStates]
  /\ created \in SUBSET Resources
  /\ destroyed \in SUBSET Resources

\* A call knows a resource exactly while it owns one.
GotIffOwner == \A c \in Callers : got[c] # None <=> c \in Owners

\* No resource is ever handed to two callers at once, however returns,
\* hand-overs and the delayed registration in inUse interleave.
UniqueOwner == \A c, d \in Owners : got[c] = got[d] => c = d

\* inUse is the set of resources whose get() has returned and which are not
\* returned yet: a return() never throws at a legitimate owner.
InUseExact == inUse = {got[c] : c \in {b \in Callers : call[b] = "holding"}}

\* A resource in the unused list is there once and nobody has it.
UnusedIsFree ==
  /\ IsInjective(unused)
  /\ ToSet(unused) \intersect (Held \union destroyed) = {}

\* A destroyed resource is never in anybody's hands again, even when
\* destroyAll() and get() overlap.
DestroyedIsGone == destroyed \intersect Held = {}

\* No resource is leaked: what create() delivered is unused, owned or
\* destroyed, at every step.
NothingLost == created = ToSet(unused) \union Held \union destroyed

\* The queue holds the waiting callers, each once.
QueueExact ==
  /\ IsInjective(waiting)
  /\ ToSet(waiting) = {c \in Callers : call[c] = "waiting"}

\* Callers only queue while nothing is unused and nothing more may be made.
WaitersExhausted ==
  waiting # <<>> => unused = <<>> /\ resourceCount = MaxResources

\* At most maxResources exist or are being made, over the pool's whole life.
Bounded == Cardinality(created) + Cardinality(Creating) <= resourceCount

\* The safety of the pool as one formula: which resource is where.
Custody ==
  /\ GotIffOwner
  /\ UniqueOwner
  /\ InUseExact
  /\ UnusedIsFree
  /\ DestroyedIsGone
  /\ NothingLost

-----------------------------------------------------------------------------
(* Actions and the contract                                                *)

\* No barging: while callers queue, a call that arrives later gets nothing
\* and joins the end of the queue.
NoBarging ==
  [][waiting # <<>> =>
       \A c \in Callers :
         call[c] = "idle" /\ call'[c] # "idle"
           => call'[c] = "waiting" /\ waiting' = Append(waiting, c)]_vars

OwnerOf(r) ==
  IF r \notin created THEN "unborn"
  ELSE IF r \in destroyed THEN "gone"
  ELSE IF r \in Held THEN CHOOSE c \in Owners : got[c] = r
  ELSE "free"

Contract == INSTANCE PoolContract WITH
  owner <- [r \in Resources |-> OwnerOf(r)],
  queue <- waiting,
  ordered <- Creating

\* The pool implements the abstract contract: one owner per resource, first
\* come first served, a free resource is never withheld, only free resources
\* are retired.
ImplementsContract == Contract!Spec

-----------------------------------------------------------------------------
(* Claims of the documentation                                             *)

\* Some create() failed, or some destroyAll() was called: neither is undone.
Failed == resourceCount > Cardinality(created) + Cardinality(Creating)
Closing == \E d \in Closers : destroying[d] # "idle"

\* numInUse(), "the number of in-use resources owned by this pool", in which
\* "resources that are pending are counted" (resource_pool.ts:83-86).  The
\* subtraction says so until a create() fails or a destroyAll() collects: what
\* is then gone counts as in use for ever.
NumInUse == resourceCount - Len(unused)
NumInUseExact ==
  ~Failed /\ destroyed = {} => NumInUse = Cardinality(Owners) + Cardinality(Creating)

\* "An unused resource from the pool.  If none are available, one will be
\* created." (resource_pool.ts:117-118): a get() that waits does so for a
\* resource that is in somebody's hands or being made.
WaitersHaveSupplier ==
  waiting # <<>> => Owners # {} \/ Creating # {}

-----------------------------------------------------------------------------
(* Liveness                                                                *)

\* Unless a create() fails or the pool is closed, every get() that waits is
\* eventually served: the queue is fair, and no return is lost.
EveryGetServed ==
  \A c \in Callers :
    \/ <>(Failed \/ Closing)
    \/ call[c] \in {"creating", "waiting"} ~> call[c] = "holding"

\* A destroyAll() that waits for "empty" ends, even when create() fails or
\* callers queue, unless new calls of get() keep coming for ever.
NewGet == \E c \in Callers : call[c] = "idle" /\ call'[c] # "idle"
DestroyEnds ==
  \A d \in Closers :
    \/ []<><<NewGet>>_vars
    \/ destroying[d] \in {"awaitEmpty", "notified"} ~> destroying[d] = "done"
=============================================================================

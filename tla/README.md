# A TLA+ model of the celeries client

`celeries` is a Celery client for Node.js: it sends tasks to a message broker
and waits for their results on a result backend (Redis or AMQP). These modules
model the parts of `src/src` that keep state and interact, TLC checks them on
small instances, and TLAPS proves the central safety properties for every
instance. Paths below are relative to `src/src/` of the repository.

## The system

| part | source | state | operations | hard behaviour |
|---|---|---|---|---|
| List | containers/list.ts | doubly linked nodes, size | push, pop, shift, unshift, iterate | both ends empty at once |
| PromiseQueue | containers/promise_queue.ts | a List of resolving functions | push, resolveOne/All, rejectOne/All | who is resolved with what |
| ResourcePool | containers/resource_pool.ts | unused List, inUse Set, counter, waiting PromiseQueue | get, return, use, returnAfter, destroyAll | awaits inside get() and destroyAll(); hand-over to a waiter before it registers |
| PromiseMap | containers/promise_map.ts | key -> promise, key -> {functions, status, timer} | get, resolve, reject, rejectAll, delete, clear | status written after an await; timers that know only the key |
| RedisBackend | redis/backend.ts | a pool of two connections, a PromiseMap, a subscriber | put, get, delete, end | subscribe / GET / PUBLISH races; calls queueing for one connection |
| RpcBackend | amqp/backend.ts | a pool of two channels, a PromiseMap, a consumer | put, get, delete, end | consumer cancelled, drain loop, timeout after the await |
| AmqpBroker, RedisBroker | amqp/broker.ts, redis/broker.ts | a pool of two channels; one connection | publish, end | drain loop, end() during publish() |
| Task, Client, Result | task.ts, client.ts, result.ts | current broker, round-robin index, the promise of a result | applyAsync, createTask, end; get, delete | failover when publish() rejects |
| NullBackend, factories, options | null_backend.ts, factories.ts, */options.ts | none | - | - |
| URIs, query parser, packer, messages, config, errors | uri.ts, query_parser.ts, */uri*, packer/*, ... | none (pure functions and types) | - | name conversion, missing hosts |

A `Client` creates `Task`s, which share its brokers and its backend.
`Task.applyAsync()` makes a `Result`, whose constructor calls `backend.get()`
at once, and hands the message to a broker. Both backends keep the promises of
pending results in a `PromiseMap` that the subscriber's or consumer's callback
settles, and their connections or channels in a `ResourcePool` with a maximum
of two. All of it runs on one JavaScript thread: what interleaves are the
synchronous segments between awaits, callbacks of sockets, and timers.

What makes each part correct:

- ResourcePool: a resource has one owner or is unused; none is lost; callers
  are served first come first served; no caller waits for ever; destroyAll()
  ends and takes nothing that somebody uses.
- PromiseMap: whoever waits on a key is found by the next settling of that key;
  functions, entries and promises agree; a settled entry is evicted, a waiting
  one is not; the status queries tell the truth.
- RedisBackend: no wake-up is lost between GET and the wait; an answer is a
  report of the right task; a call never runs on the subscriber's connection;
  get(), delete() and end() end.
- RpcBackend: nobody shares or closes the consumer's channel; every get() made
  before end() has its result or its rejection; end() neither hangs nor closes
  the connection under a put() at work.
- AmqpBroker, RedisBroker: a publication reaches its server although end()
  follows it, and end() ends.
- Task, Client: each task has a broker; whatever the compression, serializer,
  encoding and broker, a worker reads what was applied.
- URIs, factories: a component connects with what its URI says, and only what
  says nothing is refused.

`PROJECT.json` lists every hazard with the line where it bites and the
properties that watch it.

## The modules

| module | what it is |
|---|---|
| `PoolContract` | what a pool promises: an owner per resource, a FIFO queue, orders |
| `ServiceContract` | what a backend or broker promises its callers: one outcome per call, results of the right task, messages sent before put() resolves, an end() that waits |
| `ResourcePool` | the pool; `ImplementsContract` maps it to `PoolContract` |
| `PromiseMap` | the map of promises |
| `RedisBackend` | `Pool == INSTANCE ResourcePool`, `Map == INSTANCE PromiseMap`, and the control of each call, the subscriber, end(), the server, the wire, the workers |
| `RpcBackend` | the same two instances, with an exclusive consumer on one of the pool's channels, RabbitMQ's queue, the wire, the workers |
| `Deque` | what a list promises: a sequence that changes at its ends |
| `LinkedList` | nodes and links of the list; `ImplementsDeque` maps it to `Deque` |
| `Texts`, `Uri`, `QueryParser`, `AmqpUri`, `RedisUri` | the pure functions from a URI to options, and `createUri()` back |
| `Factories` | which component a URI makes, with which options |
| `TaskMessage` | the message of a call, what each broker makes of it, and what a worker reads in that |
| `AmqpBroker` | publish() and end() over an instance of `ResourcePool` |
| `RedisBroker` | publish(), end() and disconnect() on one ordered connection |
| `Client` | createClient(), createTask(), applyAsync(), end(), disconnect(); extends `Factories` and `TaskMessage`, instantiates both brokers |
| `MC...` | instances for TLC |
| `SequenceSets`, `ResourcePoolProofs`, `PromiseMapProofs`, `LinkedListProofs`, `RpcBackendProofs`, `RedisBackendProofs`, `RedisCallsProofs`, `ClientProofs` | lemmas and proofs |

Operators named as mutants in comments are not used by any specification: each
is a plausible slip of the code for one definition, and substituting it there
makes one of the checked properties fail.

### ResourcePool

An action is one synchronous segment. `get()` is `GetUnused`, `GetCreate` or
`GetWait` (the three exits of `getResource()`), for a creation `CreateOk` or
`CreateFail`, and then `Acquire`, the continuation of `get()` that adds the
resource to `inUse`. `use()` and `returnAfter()` add nothing but the promise
that `return()` is called in the end, which is the fairness of `Return`.
`return()` is `ReturnToWaiter` or `ReturnToUnused`; `destroyAll()` is
`DestroyNow`, or `DestroyLater` and, after the event, `DestroyResume`. A caller
may call again any number of times; each closer calls `destroyAll()` once.
Between `GetUnused`, `CreateOk` or `ReturnToWaiter` and `Acquire` the resource
is `granted`: neither unused nor in `inUse`. The microtask queue would run the
continuations in the order they were queued; the model lets them run in any
order, also interleaved with other callers' calls, so it has every behaviour
of the code and some more.

### PromiseMap

An entry of `data` is `[functions, status, timer]`. The model follows each
promise object: `open` (its functions are in an entry), `running` (it follows
the promise of a `doResolve()`), `fulfilled`, `rejected`. The promise that
`get()` made and the promise of the `doResolve()` it was resolved with are one
object in the model. A promise that is neither in the map nor unsettled may be
used again for a later one. `DoResolveOk` and `DoResolveFail` are the
continuation after the await in `doResolve()`, which writes the status to
whatever entry the key has by then. A timer is the one the entry refers to or,
after `clear()`, a stale one, which only knows its key. Timers fire only when
the microtasks of plain values have run (`NoMicrotask`), as the event loop has
it; nothing else is assumed of time. The parameters `Uses` and `Values` say
what the client does, so that a property which depends on restraint says on
which.

### RedisBackend

Control states of the calls are in the head of the module. `Send` is the
callback of `pool.use()`, `Answer` the server's execution of the command,
`GetAwait`, `FinishReplied` and `IgnoreReplied` the continuation of
`client.get()`. `TimeOut` is the race of `createTimeoutPromise()`: the
connection goes back and the abandoned continuation still runs, so a late `get()`
still registers with the map. `wire` carries what the server sends to the
subscriber, in order; other replies are not ordered among each other, since
they travel on other connections. `missed` is history: the tasks with a report
that nobody was there to hear. The map's timeout is a day (`TIMEOUT`), so
`Evict` does not fire between two messages of a command; it may while a call
queues for a connection. `end()` calls
`return()` and `destroyAll()` in one segment: `Turn` keeps every other action
out of it. The server, the wire and the workers are external and modelled from
how the backend uses them; connections do not fail.

### RpcBackend

The constructor's chain (`ConConnect`, `ConAssert`, `Consume`, `ConsumeOk`) is
a caller of the pool like each put(), and end() puts its channel back like any
other. A put() is `Put`, `PutAssert` when it has its channel, `PutSend` for
each turn of the drain loop, and `FinishPut`; `Cut` is what the closed
connection does to it. `FALSE` from `sendToQueue()` means that the message is
in the buffer: the loop sends it again. `Take` is `promises.resolve()` of the
consumer's callback. `get()` is `Get`, which finds the promise or makes it, and
`FinishGet`; the timeout is applied to a promise that is already settled, so it
is no action. The timer of a settled entry is set to 365 days, which is more
milliseconds than a Node.js timer can count and makes it fire after one:
`Evict` may come at any time. `EndReturn` and `EndDestroy` are one segment:
while `ending` is `returned` nothing else happens. `missed`, `late` and
`spared` are history. A server may cancel the consumer (`ServerCancel`);
nothing makes a new one.

Replies, messages and timers wait for the microtasks (`NoMicrotask`), and
promises and channels are taken in a fixed order (`FirstName`, `FirstChannel`)
because nothing tells them apart; both only leave out behaviours that JavaScript
cannot have or that differ in names. Calls come in any state.

### The brokers and the client

`AmqpBroker` is the pool with the control of each publication, in the manner of
`RpcBackend`'s put(). `RedisBroker` is the queue of commands of one connection,
which the server executes in order; QUIT is one of them. `Client` makes its
components from `Configs`, in one step, as `createClient()` is synchronous:
what was made before a URI is refused stays made. A task takes its broker from
the round robin when it is made and keeps it; of taskDefaults it takes what its
constructor names. `applyAsync()` hands the message
over in the same segment. Its failover is dead code: `tryPublish()` returns the
promise of `publish()` without awaiting it, so its `try` only catches what is
thrown at once, which no broker does. Without any broker the attempt to call
one throws, the strategy is asked, which has none to give, and so on until the
stack is full: nothing is published and no state is left changed.

At most one broker of each kind is in a client of the run, so one instance of
each broker module is enough; more would be the same modules again.
The backend of `Client` only counts as connected and as `null` or not: what
backends do is in their own modules.

A message is a record of what the code puts in it, its body the nesting of
codecs applied to it: `<<"zlib", <<"json", data>>>>`. A worker undoes what the
headers and properties tell it (`RabbitMqWorkerReads`, `RedisWorkerReads`),
which is external and follows the Celery protocol as the code addresses it.

### URIs

A text is one of the strings of `Texts`, which lists of each what the functions
ask: its lower case, its decoding, the digits it spells. No text is looked into
otherwise. A written URI is a record of its parts as `urijs` finds them, so the
splitting is external, and everything `uri.ts` and the parsers do with the parts
is modelled, with every error: an operator that may throw gives a set of one
value or none. Options and queries are functions on the fields they have.
`OptionsAsWritten` does not use the parsers: it reads the written URI with its
own tables of meanings, and says exactly which options it gives, which URIs are
refused, and what has been made by then. Where the code departs from the
documentation of a format, it states what the code does; the departures are
listed before the tables and below, under Findings.

### LinkedList

`push()` and `unshift()` are a call (`Push`, `Unshift`) that says what is to be
linked and one step per element (`PushOne`, `UnshiftOne`), with no other call in
between (`Idle`). A node is a model value; a new one is any that is not in the
list, and a removed one keeps its fields until then, so that a link left behind
to it would be seen. `chain` is auxiliary: the nodes in the order in which they
should be linked, which only the properties read. The deque of the refinement is
`unshifting \o Items \o pushing`: a call takes effect when it begins. The pool
and the promise queue use such sequences directly, as `Deque` allows. `pool`
does not instantiate `LinkedList`, since the theorem makes it unnecessary.

## The runs

| run | shows | bounds |
|---|---|---|
| `pool` | types, custody, exact queue, bound, `numInUse()` while exact, no barging, the contract, and that waiting get() and destroyAll() end | 4 callers, 2 resources, 2 closers, failing creations: two callers queue while two hold, and closers overlap |
| `pool_waiters` | violated: a failed creation shrinks the pool for good | 3 callers, 2 resources |
| `map` | types, that an open promise is found by the next resolve(), and that timers are those of settled keys (the map's invariant has three more parts, which are proved) | 2 keys, 4 promises, one stale timer per key: one promise in each map entry, two abandoned ones still running |
| `map_once` | exact status, rejectAll(), timers and eviction for clients that settle a key once | 2 keys, 3 promises |
| `redis` | connections and wake-ups, and that the backend implements `ServiceContract` | 2 get() with timeout, a delete() and a put() of one task, 2 reports, end() at any time |
| `redis_live` | every get() and end() ends | 2 get() of two tasks and a put(), one connection between them |
| `redis_delete` | violated: delete() queues behind a pending get() | 1 get(), 1 delete() |
| `redis_success` | violated: any report resolves a waiting get() | 2 get(), 2 reports |
| `redis_timeout` | violated: a second get() has no timeout | 2 get() |
| `list` | well-formed links, iteration, and the deque | 4 nodes, 2 elements, batches of up to 3, lists of up to 4: each end can become empty and be filled again, from either side |
| `rpc` | the consumer's channel, no waiting get() after end(), puts survive end(), everybody ends, and the backend implements `ServiceContract` | a get(), a delete() and two put() of one task, the buffer full once, a report, a cancellation by the server, the timer and end() at any time: two puts compete for the channel the consumer leaves |
| `client` | options, messages, what end() waits for, publications that survive it, and that `AmqpBroker` implements `ServiceContract` | about 7,700 clients that are only made, one per URI and query of a kind, and four that make up to three calls of two tasks: two AMQP publications hold the channels while one queues, both brokers in one client, Redis alone, no broker at all; 24 sets of options |

`CHECK_DEADLOCK FALSE` is set where the system may stop: callers of a pool
that failed creations emptied wait for ever, and every call of the backends and
of the client is made once. `map`, `map_once` and `list` check deadlock. Symmetry is used in runs
without liveness only.

Outside the uses `map_once` permits, the documentation of `PromiseMap` is not
met: with `"pending"` or `"delete"` in `Uses` a late status makes `StatusExact`
and, with `"rejectAll"`, `RejectAllLeavesNone` fail, and with `"clear"` a stale
timer makes `TimerSparesGetters` fail. The backends never call `clear()`. In
the same way `WakeupComing` excludes reports that were `missed`: a get() made
before the constructor's subscription is confirmed can wait for ever.

The properties of `RpcBackend` and `Client` name what the code does not give,
and TLC refutes each of them without its exception:

- `EndLeavesNone`: when a delete() dropped a result while it was being taken,
  the late status overwrites that of the next get(), which rejectAll() skips.
- `EverybodyEnds`: a get() whose result was dropped by the timer, by delete()
  or by a cancelled consumer waits for ever; so may a put() made while end()
  waits, in the queue of a pool that gives nothing back any more.
- `PutsSurvive`, `GentleEnd`: end() closes the connection under a call whose
  channel is being created, or that has just been given one: it is not in
  `inUse` yet. A publication queued behind such calls is never served.
- `GentleEnd`: only what is applied before end() or disconnect() is spoken of,
  and for Redis only end() is gentle.

Each duplicate that a drain loop sends is in `copies` and `sends`; no property
says there are none.

### A backend as a service

`ServiceContract` is what a caller sees of `ResultBackend` and `MessageBroker`:
no pools, no consumers, no wires. A call is made, may have a connection or a
channel to itself (`using`), and is settled once. A get() is answered by a
result that was reported on its own task; a put() resolves when its message has
been sent, and is rejected only by a closed connection; end() waits for a moment
at which nobody uses a connection, and closes it some time after that. A put()
that used it before that moment has therefore been served; one that gets a
channel between the moment and the closing may be cut, and in `RpcBackend` one
is: the put() that end() hands the consumer's channel.

`RpcBackend` and `RedisBackend` map their calls to those of the contract by what
each has come to (`Outcome`, `Settlement`), `using` to whoever holds something
of the pool, and `closing` to where destroyAll() stands. `AmqpBroker` is a
service of put() alone, of which publish() is one. A step of the detailed module
is one of the contract or a stutter: handing over, subscribing, the map, the
wire and the timers of settled keys do not show. In `RedisBackend` `closing` never becomes
`"closed"`: connections are each on their own, and one that is created for
a put() while end() goes on stays open and serves it. `RedisBroker` does not fit: its end()
sends QUIT behind the commands in flight and disconnect() drops them, with
calls that never settle; what it promises is in `GentleEnd`.

The contract does not say that end() waits for everybody, because it does not
(see the findings).

### Fairness

A promise that is resolved has its continuation run, `create()` settles, a
user of a pool returns what it got (`use()` does so whether its callback
succeeds or not), the server answers, and what is on the wire arrives: weak
fairness of those actions. No fairness makes anybody call, makes a thenable
settle, or, except where a run says so (`WorkersReport`), makes a worker
report. Timers of the map have strong fairness, since a microtask may be
pending each time one is due, together with the assumption that the event loop
is out of microtasks again and again. `TimersFire` lets the timeout of a get()
that has started run out. In `RpcBackend` and `Client` every call is made once,
so that no step can be starved by others: weak fairness of the disjunction of
all that is due is as much as fairness of each, and cheaper. `RpcBackend` has
its workers report (`Due`), since a get() waits for nothing else; a cancellation
by the server and the timer of the map are never due. "drain" comes: a server
that stops reading for ever is not modelled.

## The proofs

For every number of callers, closers, resources, keys, promises, nodes and
elements:

- `PoolInvariant`: the conjunction of `TypeOK`, `Custody`, `QueueExact`,
  `WaitersExhausted` and `Bounded` is inductive. None is by itself: that a
  hand-over keeps one owner per resource needs that the head of the queue is a
  waiting caller (`QueueExact`) which has nothing (`GotIffOwner`); that an
  unused resource is nobody's needs `NothingLost` for the new ones.
  `PoolTypeOK`, `PoolCustody`, `PoolQueueExact`, `PoolBounded` and
  `PoolWaitersExhausted` follow, `PoolNoBarging` needs `WaitersExhausted`.
- `PoolImplementsContract`: each action maps to an action of `PoolContract` or
  to a stutter. `SequenceSets` has the facts about queues and their elements.
- `MapInvariant`: `TypeOK` and `MapConsistent` are inductive; its parts need
  each other, as the comment of `Inv` says. `MapNoStrandedGetter`,
  `MapFunctionsAreOpen`, `MapOwnedHasData`, `MapGhostsAreInert`,
  `MapTimerIffSettled` and `MapTypeOK` follow.
  Three more need what a client does, and say it as a hypothesis on `Uses`,
  `Values` and `HasTimeout`, which the run `map_once` satisfies. Under
  `NothingCutShort` (no delete(), no clear(), and no timer while a promise that
  follows another runs) a running promise keeps its settled entry until its
  continuation writes to it (`Kept`), so the late status goes to no entry with
  functions and rejectAll() finds everybody: `MapRejectAllLeavesNone`. With
  `SettledOnce`, which also excludes settling a key that is being resolved or is
  settled, the running promise is that of its key (`Current`): `MapStatusExact`. Without
  clear() there is no stale timer, and a timer of an entry implies that nobody
  waits (`TimerIffSettled`): `MapTimerSparesGetters`.
- `PoolNumInUse`: the counter, the unused list and the owners are compared by
  a census (`Census`) of what was created; injective sequences have as many
  elements as places (`InjectiveLength` in `SequenceSets`).
- `ListInvariant`: `TypeOK` and `WellLinked` are inductive together with
  `OneCall`, that only one call is linking. Without `NoCycle` a step could
  change the link of a node twice in the chain; without `EndsAgree` the link it
  changes need not be that of the end. `ListImplementsDeque`: linking one
  element is a stutter, because an element leaves `pushing` (its head) or
  `unshifting` (its last) just as it becomes an end of `Items`.
  `ListIteratesItems`: the nodes an iterator reaches satisfy a recursive equation
  which the chain solves (`ReachedSteps`, within the room `Room` that the bound
  leaves), and two solutions would differ at a least place, which nothing lets
  them (`OneWay`, `Least`).
- `RpcInvariant`: `RpcBackend` uses its pool as the pool's theorem asks
  (`PoolFits`, `PoolStep`: each step is one of the pool or leaves it alone), so
  the pool's invariant is taken over, not proved again. The rest says when the
  constructor's call has its channel: from the assertion of the queue until
  end() puts it back, which it does after the server has confirmed the
  cancellation. For that the wire matters: `NoticesInOrder` says that
  consumeOk, if it is still there, is its head, and that there is at most one
  cancelOk and nothing consumes after it. `RpcConsumerKeepsItsChannel` follows
  with the pool's `UniqueOwner` and `DestroyedIsGone`.
- `RpcCallsInvariant`: the map's invariant is taken over in the same way, and two
  arguments rest on it and on the pool's. `RpcPutsSurvive`: a put() has a channel
  exactly while it sends (`PutOwns`), and destroyAll() is notified when nothing
  is in use, so that whoever was sending when it was called has sent
  (`SparedFirst`). `RpcEndLeavesNone`: what a get() awaits is the promise of its
  task (`AwaitsItsTask`), if it is open its functions are in the task's entry
  (`NoStrandedGetter`), and that entry is pending unless the task was deleted
  (`MarkedPending`), so rejectAll() finds it. A late doResolve() could overwrite
  the status; it does so only for a task whose promise it settles
  (`TakenForItsTask`), since timers and messages come after the microtasks.
- `RedisInvariant`: the pool's invariant is taken over again. `OpsOwn` says when a
  call has its connection, `SubHolds` when the subscriber has its own; the
  acknowledgements on the wire (`AcksInOrder`) are what makes end() wait until no
  connection is in subscriber mode (`PatternsLive`) before it puts it back.
  `RedisOnlyPlainConnections` then follows from the pool's `UniqueOwner`.
- `RedisCallsInvariant`: what is stored, sent, answered or kept in a promise of
  the map was reported on the same task (`Sources`), and the promise a get() has
  is one that was made for its task and that the map has not made anew (`Hears`),
  although it may have been dropped: `RedisAnswersAreReports`.
  `RedisWakeupComing` needs more than it says: between GET and the wait a get()
  has no promise yet, so `Wakes` also says that a success of the task is then
  either still on the wire or already in the map, where listen() will find it. It
  would not be if results nobody asked for were ignored, which is the mutant of
  that run. `delete()` is the exception: it drops the promise before its DEL is
  executed (`Sure`).

- `ClientInvariant`: `AmqpBroker` takes steps of the pool (`PoolGets`,
  `PoolServes`, `PoolReturns`, `PoolEnds`), so that the pool's invariant is the
  broker's; `PublicationsOwn` ties each stage of publish() to what the call has
  of the pool, `Copied` to what the server has been sent. `ClientEndWaits`: as
  long as a publication that end() found at work has its channel, inUse is not
  empty (`HoldersKeepInUse`), nobody notifies destroyAll(), and closing waits
  for that (`SparedWork`, `EndStages`); whoever has given the channel back has
  sent. `ClientWorkersCanRead`: only what was applied is sent, with options the
  call may have and to the kind of broker its task has (`SentWasApplied`), and
  a Redis broker's prefix is empty whatever its URI says (`RedisPrefix`,
  `BrokersMade`); the rest is that each worker undoes what the message says
  was done (`BodySays`, `HeadersSay`, `WorkerReads`), which the mutant of gzip
  breaks.

- `RpcImplementsService`, `RedisImplementsService` and
  `ClientBrokerImplementsService`: one lemma per group of actions maps its steps
  to the contract. That a get() is answered by a report of its task needs, for
  `RpcBackend`, that results come from where they were reported all the way
  (`Sourced`: the queue at the server, the wire, the promises of the map), for
  `RedisBackend` the `Sources` and `Hears` of the calls. That a put() resolves
  after its message was sent is `SentFirst`, or `Copied` for the broker. That
  only the last user's return lets a waiting end() go on is the pool's, as the
  event "empty" is emitted when `inUse` becomes empty (`ReturnNotifies`); that
  the consumer or the subscriber is not in use by then is `ConGone` and
  `EndInOrder`. A get() of `RedisBackend` that lost its race has returned
  although its control goes on (`ReturnedInTime`).
- `RpcPoolKeepsContract`, `RedisPoolKeepsContract`, `ClientPoolKeepsContract`:
  the pool in each of them implements `PoolContract`. Each step is one of the
  pool (`PoolStep`), so its theorem holds of the composition as of the pool alone.

They rest on the named assumptions about constants and nothing else. Those of
`RedisBackend` say that kinds of calls are disjoint, calls and connections are
finite and there are at least two connections, as the pool of two may make.
Those of `Client` say that URIs are records of texts, that a call's options
name a compressor and a serializer there is, and that calls are not named as
QUIT or the states of a resource are.

Only model-checked:

- liveness, which needs ENABLED: `EveryGetServed`, `DestroyEnds`,
  `SettledIsEvicted`, `EveryGetEnds`, `EndEnds`, `EverybodyEnds`, `GentleEnd`;
- `OptionsAsWritten`: it is about what parsers make of particular texts, whose
  tables are written with `@@`, which no prover here can interpret.

## The plan

1. Done: ResourcePool, PromiseMap, RedisBackend, and the first proofs.
2. Done: LinkedList, the node structure as an implementation of a sequence.
3. Done: `RpcBackend`, ResourcePool and PromiseMap with a consumer, and its
   safety proved.
4. Done: `Client`, Task and both brokers.
5. Done: URIs, options, factories and messages, against independent readings.
6. Done: the safety of `RedisBackend` proved, from the theorems of the
   containers.
7. Done: the safety of `Client` and its brokers proved, from that of the pool,
   and the conditional properties of `PromiseMap`.
8. Done: `ServiceContract`, and that both backends and `AmqpBroker` implement it.
9. Left: a contract that `RedisBroker` keeps, and lemmas on URIs that do not
   depend on tables of texts.

## Not modelled

- What Node.js does about a rejection nobody handles, like that of a publication
  that end() cuts.
- Failures of connections, except by being closed: the code has no handler of
  its own for them, and the libraries retry by rules of theirs.
- A `destroy()` that rejects: closing a channel or a connection is taken to
  succeed.
- How `urijs` splits a URI into its parts, and how `ioredis` and `amqplib` read
  their options.
- The bytes of JSON, YAML, base64, gzip and zlib: codecs are names, nested.
- Types without behaviour: interfaces, configuration constants, error classes.

## Findings

- A rejected `create()` is never counted back (resource_pool.ts:196).
- A pending get() blocks delete(), put() and every other get() of a new task
  (redis/backend.ts:142-173).
- get() resolves with reports that are not successes (redis/backend.ts:227),
  although GET's answer is checked (152).
- The timeout of get() is ignored when the task is in the map already, and does
  not run while the call queues for a connection (redis/backend.ts:138, 159).

Where the code and its documentation differ, and no run says so:

- "Message Broker Failover" (README.md:63): a rejected publication is not tried with the
  next broker (task.ts:182); `Client` has what happens instead.
- end() "resolves when all pending transactions have been completed"
  (result_backend.ts:71-72), but destroyAll() only looks at `inUse`
  (resource_pool.ts:175), which a call enters when its channel has been created:
  end() of `RpcBackend` closes the connection under a put() made before it. This
  is why `PutsSurvive` is about those that have a channel.
- A full buffer makes the drain loops send a message twice (amqp/backend.ts:228,
  amqp/broker.ts:189); `sends` and `copies` count it.
- The timeout of amqp/backend.ts:40 is a year, and the timer fires after one
  millisecond.
- A repeated `password` of a Redis URI becomes a list, although
  redis/uri/socket.ts:13-15 says that the last one is used; so does a repeated
  `name` in one URI of a list of sentinels (redis/uri/sentinel.ts:45-46).
- "[/vhost][?key0=value0...]" (amqp/uri.ts:18-20): a vhost that a query follows
  is dropped without a word (amqp/uri.ts:118), and the connection goes to the
  default vhost.
- "@throws ParseError If the URI's path is not parsable as a non-negative base 10
  number" (redis/uri/tcp.ts:61-62): the expression that finds the digits is not
  anchored at the end, so `/7x` is database 7.
- "snake_case and camelCase are accepted" (amqp/uri.ts:16): if both are there,
  the one in snake_case counts, wherever it stands (uri.ts:306).
- A password next to a user name is not decoded, one alone is (uri.ts:220, 240);
  the URI of a Redis backend has its password as it is, without encoding it
  (redis/options.ts:89). No documentation says anything of either.
- `contentEncoding` of a compressed task is "base64" on RabbitMQ (amqp/broker.ts:121),
  for a payload that getBody() has decoded. Workers of JSON and YAML do not look
  at it; `WorkersCanRead` relies on that.

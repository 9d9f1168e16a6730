----------------------------- MODULE PromiseMap -----------------------------
(***************************************************************************)
(* The map from keys to promises of src/containers/promise_map.ts, in      *)
(* which both backends keep the results their clients wait for.            *)
(*                                                                         *)
(* An action is one synchronous call, the continuation of doResolve() that *)
(* a settled value wakes, or a timer.  A promise made by get() is "open":  *)
(* its resolving functions are stored in the entry.  resolve() hands them  *)
(* the promise of a doResolve(); from then on the promise is "running" and *)
(* settles when that doResolve() does, whatever becomes of the entry.      *)
(*                                                                         *)
(* Timers are not named: a pending timer of a key is either the one its    *)
(* entry refers to (the field timer) or one that no entry refers to any    *)
(* more, counted by stale.                                                 *)
(***************************************************************************)
EXTENDS Naturals

CONSTANTS
  Keys,
  Promises,     \* the promises that may exist at once: bounds the model
  Values,       \* which arguments resolve() gets: "value" and/or "thenable"
  HasTimeout,   \* whether the constructor was given a timeout
  Uses,         \* what the client does: "delete", "clear", "rejectAll",
                \* "pending" (settle a key that is being resolved, as the
                \* documentation allows) and "settled" (settle a settled key)
  MaxStale,     \* the unreferenced timers of a key that are kept track of
  None

ASSUME MapAssumption ==
  /\ Values \subseteq {"value", "thenable"}
  /\ HasTimeout \in BOOLEAN
  /\ Uses \subseteq {"delete", "clear", "rejectAll", "pending", "settled"}
  /\ MaxStale \in Nat
  /\ None \notin Promises \union Keys

VARIABLES
  promises,     \* Map<K, Promise<V>>: key -> promise, or None
  data,         \* Map<K, MapData<V>>: key -> entry, or NoData
  stale,        \* key -> number of pending timers no entry refers to
  \* the promises themselves
  pstate,       \* their state
  keyOf,        \* the key a promise was made for
  value         \* what a running promise was resolved with

mapVars == <<promises, data, stale>>
promiseVars == <<pstate, keyOf, value>>
vars == <<mapVars, promiseVars>>

Status == {"Pending", "Fulfilled", "Rejected"}
Entries == [functions : Promises \union {None}, status : Status, timer : BOOLEAN]
NoData == [functions |-> None, status |-> "none", timer |-> FALSE]

PromiseStates == {"unborn", "open", "running", "fulfilled", "rejected"}
Settled == {"fulfilled", "rejected"}

Init ==
  /\ promises = [k \in Keys |-> None]
  /\ data = [k \in Keys |-> NoData]
  /\ stale = [k \in Keys |-> 0]
  /\ pstate = [p \in Promises |-> "unborn"]
  /\ keyOf = [p \in Promises |-> None]
  /\ value = [p \in Promises |-> "value"]

has(k) == promises[k] # None
hasData(k) == data[k] # NoData
isPending(k) == data[k].status = "Pending"
isFulfilled(k) == data[k].status = "Fulfilled"
isRejected(k) == data[k].status = "Rejected"

\* A promise that is not in use, or whose outcome nobody will look at again.
Fresh == {p \in Promises :
            /\ pstate[p] \in {"unborn"} \union Settled
            /\ \A k \in Keys : promises[k] # p}

-----------------------------------------------------------------------------
(* get(), resolve() and reject()                                           *)

\* Mutant: the timeout also runs while somebody waits.
ArmedWaitingEntry(p) == [functions |-> p, status |-> "Pending", timer |-> HasTimeout]

WaitingEntry(p) == [functions |-> p, status |-> "Pending", timer |-> FALSE]

\* A key with a promise returns it: nothing changes.
Get(k) ==
  /\ ~has(k)
  /\ \E p \in Fresh :
       /\ promises' = [promises EXCEPT ![k] = p]
       /\ data' = [data EXCEPT ![k] = WaitingEntry(p)]
       /\ pstate' = [pstate EXCEPT ![p] = "open"]
       /\ keyOf' = [keyOf EXCEPT ![p] = k]
  /\ UNCHANGED <<stale, value>>

\* What the client permits itself: settling a key that is absent, or that
\* somebody waits for; more only if it uses more.
MaySettle(k) ==
  \/ ~has(k)
  \/ data[k].functions # None
  \/ "pending" \in Uses /\ isPending(k)
  \/ "settled" \in Uses

\* Mutant: setTimeout() is forgotten.
EntryUntimed(k, st) ==
  [functions |-> None, status |-> st, timer |-> data[k].timer]

\* settle() ends in setTimeout(k), which replaces the timer of the entry.
SettledEntry(k, st) ==
  [functions |-> None, status |-> st, timer |-> HasTimeout]

\* Somebody waits: the promise now follows doResolve().
ResolveWaiting(k, v) ==
  /\ data[k].functions # None
  /\ pstate' = [pstate EXCEPT ![data[k].functions] = "running"]
  /\ value' = [value EXCEPT ![data[k].functions] = v]
  /\ UNCHANGED <<promises, keyOf>>

\* Nobody waits: the promise of doResolve() becomes that of the key.
ResolveUnasked(k, v) ==
  /\ data[k].functions = None
  /\ \E p \in Fresh :
       /\ promises' = [promises EXCEPT ![k] = p]
       /\ pstate' = [pstate EXCEPT ![p] = "running"]
       /\ keyOf' = [keyOf EXCEPT ![p] = k]
       /\ value' = [value EXCEPT ![p] = v]

Resolve(k, v) ==
  /\ MaySettle(k)
  /\ ResolveWaiting(k, v) \/ ResolveUnasked(k, v)
  /\ data' = [data EXCEPT ![k] = SettledEntry(k, "Pending")]
  /\ UNCHANGED stale

RejectWaiting(k) ==
  /\ data[k].functions # None
  /\ pstate' = [pstate EXCEPT ![data[k].functions] = "rejected"]
  /\ UNCHANGED <<promises, keyOf>>

RejectUnasked(k) ==
  /\ data[k].functions = None
  /\ \E p \in Fresh :
       /\ promises' = [promises EXCEPT ![k] = p]
       /\ pstate' = [pstate EXCEPT ![p] = "rejected"]
       /\ keyOf' = [keyOf EXCEPT ![p] = k]

Reject(k) ==
  /\ MaySettle(k)
  /\ RejectWaiting(k) \/ RejectUnasked(k)
  /\ data' = [data EXCEPT ![k] = SettledEntry(k, "Rejected")]
  /\ UNCHANGED <<stale, value>>

ToReject(k) == isPending(k) /\ data[k].functions # None

\* Mutant: the entries are marked, their promises forgotten.
RejectedByNone(p) == FALSE

RejectedByAll(p) == \E k \in Keys : ToReject(k) /\ data[k].functions = p

RejectAll ==
  /\ "rejectAll" \in Uses
  /\ \E k \in Keys : ToReject(k)
  /\ data' = [k \in Keys |->
                IF ToReject(k) THEN SettledEntry(k, "Rejected") ELSE data[k]]
  /\ pstate' = [p \in Promises |->
                  IF RejectedByAll(p) THEN "rejected" ELSE pstate[p]]
  /\ UNCHANGED <<promises, stale, keyOf, value>>

-----------------------------------------------------------------------------
(* delete(), clear() and the timers                                        *)

WithoutPromise(k) == [promises EXCEPT ![k] = None]
WithoutData(k) == [data EXCEPT ![k] = NoData]

\* doDelete(): a waiting promise is rejected and the timer of the entry, if
\* it has one, is cancelled.
DoDelete(k) ==
  /\ promises' = WithoutPromise(k)
  /\ data' = WithoutData(k)
  /\ pstate' = [p \in Promises |->
                  IF data[k].functions = p THEN "rejected" ELSE pstate[p]]
  /\ UNCHANGED <<keyOf, value>>

Delete(k) ==
  /\ "delete" \in Uses
  /\ hasData(k)
  /\ DoDelete(k)
  /\ UNCHANGED stale

\* Mutant: clear() forgets those who wait.
ForgottenByClear(p) == FALSE

RejectedByClear(p) == \E k \in Keys : data[k].functions = p

\* clear() does not cancel the timers of the entries it drops.
Clear ==
  /\ "clear" \in Uses
  /\ \E k \in Keys : hasData(k)
  /\ \A k \in Keys : data[k].timer => stale[k] < MaxStale
  /\ promises' = [k \in Keys |-> None]
  /\ data' = [k \in Keys |-> NoData]
  /\ stale' = [k \in Keys |-> IF data[k].timer THEN stale[k] + 1 ELSE stale[k]]
  /\ pstate' = [p \in Promises |->
                  IF RejectedByClear(p) THEN "rejected" ELSE pstate[p]]
  /\ UNCHANGED <<keyOf, value>>

\* Timers run when no microtask is left: a doResolve() of a plain value that
\* was called before has continued.
NoMicrotask == \A p \in Promises : pstate[p] = "running" => value[p] = "thenable"

TimerFire(k) ==
  /\ NoMicrotask
  /\ data[k].timer
  /\ DoDelete(k)
  /\ UNCHANGED stale

\* The callback of a timer only knows the key.
StaleTimerFire(k) ==
  /\ NoMicrotask
  /\ stale[k] > 0
  /\ stale' = [stale EXCEPT ![k] = @ - 1]
  /\ DoDelete(k)

-----------------------------------------------------------------------------
(* The continuation of doResolve()                                         *)

\* setStatus() writes to whatever entry the key has by now, and makes one if
\* it has none.
\* Mutants: the rest of the entry is dropped; the status is not written.
BareStatus(e, st) == [status |-> st]
SameStatus(e, st) == e

WithStatus(e, st) == [functions |-> e.functions, status |-> st, timer |-> e.timer]
SetStatus(k, st) == data' = [data EXCEPT ![k] = WithStatus(@, st)]

DoResolveOk(p) ==
  /\ pstate[p] = "running"
  /\ pstate' = [pstate EXCEPT ![p] = "fulfilled"]
  /\ SetStatus(keyOf[p], "Fulfilled")
  /\ UNCHANGED <<promises, stale, keyOf, value>>

DoResolveFail(p) ==
  /\ pstate[p] = "running"
  /\ value[p] = "thenable"
  /\ pstate' = [pstate EXCEPT ![p] = "rejected"]
  /\ SetStatus(keyOf[p], "Rejected")
  /\ UNCHANGED <<promises, stale, keyOf, value>>

-----------------------------------------------------------------------------
Timer == \E k \in Keys : TimerFire(k) \/ StaleTimerFire(k)
DoResolve(p) == DoResolveOk(p) \/ DoResolveFail(p)

Next ==
  \/ \E k \in Keys :
       \/ Get(k) \/ Reject(k) \/ Delete(k)
       \/ \E v \in Values : Resolve(k, v)
  \/ RejectAll \/ Clear
  \/ Timer
  \/ \E p \in Promises : DoResolve(p)

Spec == Init /\ [][Next]_vars

\* The microtasks of plain values run; calls never starve the event loop, so
\* that it is out of microtasks again and again; and then a timer fires in the
\* end.  Nothing says that a thenable ever settles.
Fairness ==
  /\ \A p \in Promises : WF_vars(value[p] = "value" /\ DoResolveOk(p))
  /\ []<>NoMicrotask
  /\ \A k \in Keys : SF_vars(TimerFire(k))

FairSpec == Spec /\ Fairness

-----------------------------------------------------------------------------
(* Safety                                                                  *)

TypeOK ==
  /\ promises \in [Keys -> Promises \union {None}]
  /\ data \in [Keys -> Entries \union {NoData}]
  /\ stale \in [Keys -> 0..MaxStale]
  /\ pstate \in [Promises -> PromiseStates]
  /\ keyOf \in [Promises -> Keys \union {None}]
  /\ value \in [Promises -> {"value", "thenable"}]

\* Nobody waits in vain on the map: a promise that get() handed out and that
\* nothing has settled is the promise of its key, with its functions in that
\* key's entry, whatever mix of calls, timers and late doResolve()
\* continuations came in between.
NoStrandedGetter ==
  \A p \in Promises : pstate[p] = "open" =>
    /\ keyOf[p] \in Keys
    /\ promises[keyOf[p]] = p
    /\ data[keyOf[p]].functions = p

\* And the reverse: the functions an entry stores are those of its own
\* promise, which is still open, so that nothing is settled twice and no
\* answer goes to the promise of another key.
FunctionsAreOpen ==
  \A k \in Keys : data[k].functions # None =>
    /\ promises[k] = data[k].functions
    /\ pstate[promises[k]] = "open"
    /\ keyOf[promises[k]] = k

\* Every promise in the map has its entry of control data and was made for
\* its key.
OwnedHasData ==
  \A k \in Keys : has(k) =>
    /\ data[k] \in Entries
    /\ pstate[promises[k]] # "unborn"
    /\ keyOf[promises[k]] = k

\* An entry that a late setStatus() made for an absent key (nothing will ever
\* remove it) at least holds nobody's functions and no timer.
GhostsAreInert ==
  \A k \in Keys : ~has(k) =>
    data[k].functions = None /\ ~data[k].timer /\ ~isPending(k)

\* Exactly the keys that resolve() or reject() settled have a timer: those
\* are evicted in the end, and a key somebody waits for is not.
TimerIffSettled ==
  \A k \in Keys : has(k) =>
    (data[k].timer <=> HasTimeout /\ data[k].functions = None)

MapConsistent ==
  /\ NoStrandedGetter
  /\ FunctionsAreOpen
  /\ OwnedHasData
  /\ GhostsAreInert
  /\ TimerIffSettled

\* If every key is settled once and never deleted by hand, the three status
\* queries tell the state of the promise of the key: "True if the key is in
\* the owned set and the matching Promise is pending / fulfilled / rejected"
\* (promise_map.ts:65-96).
StatusExact ==
  \A k \in Keys :
    /\ isPending(k) <=> has(k) /\ pstate[promises[k]] \in {"open", "running"}
    /\ isFulfilled(k) <=> has(k) /\ pstate[promises[k]] = "fulfilled"
    /\ isRejected(k) <=> has(k) /\ pstate[promises[k]] = "rejected"

\* rejectAll() "rejects all pending Promises that are not following another
\* Promise" (promise_map.ts:131-132).
RejectAllLeavesNone ==
  [][RejectAll => \A p \in Promises : pstate'[p] # "open"]_vars

\* The timeout is "the duration to wait before deleting settled Promises"
\* (promise_map.ts:47-48): a timer never rejects a promise somebody waits
\* for.
TimerSparesGetters ==
  [][Timer => \A p \in Promises : pstate[p] = "open" => pstate'[p] = "open"]_vars

-----------------------------------------------------------------------------
(* Liveness                                                                *)

\* With a timeout, a settled promise does not stay in the map for ever.
SettledIsEvicted ==
  \A k \in Keys, p \in Promises :
    promises[k] = p /\ pstate[p] \in Settled ~> promises[k] # p
=============================================================================

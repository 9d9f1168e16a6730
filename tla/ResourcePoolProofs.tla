------------------------- MODULE ResourcePoolProofs -------------------------
(***************************************************************************)
(* Proofs about ResourcePool: its safety invariants hold for any number of *)
(* callers, closers and resources.                                         *)
(***************************************************************************)
EXTENDS ResourcePool, SequenceSets, FiniteSetTheorems

\* The invariants are inductive together: custody needs the queue (the head
\* of the queue owns nothing yet) and the bound needs custody (a new resource
\* is counted once).
Inv ==
  /\ TypeOK
  /\ Custody
  /\ QueueExact
  /\ WaitersExhausted
  /\ Bounded

LEMMA InitInv == Init => Inv
<1> SUFFICES ASSUME Init PROVE Inv
  OBVIOUS
<1>1. Owners = {} /\ Held = {} /\ Creating = {}
  BY DEF Init, Owners, Held, Creating
<1>2. TypeOK
  BY EmptyElements, PoolAssumption DEF Init, TypeOK, CallStates, CloserStates
<1>3. Custody
  BY <1>1, EmptyElements DEF Init, Custody, GotIffOwner, UniqueOwner, InUseExact,
     UnusedIsFree, DestroyedIsGone, NothingLost
<1>4. QueueExact /\ WaitersExhausted
  BY EmptyElements DEF Init, QueueExact, WaitersExhausted
<1>5. Bounded
  BY <1>1, FS_EmptySet DEF Init, Bounded
<1> QED BY <1>2, <1>3, <1>4, <1>5 DEF Inv

-----------------------------------------------------------------------------
(* One lemma per action.                                                   *)

LEMMA GetUnusedInv == ASSUME Inv, NEW c \in Callers, GetUnused(c) PROVE Inv'
<1> USE DEF GetUnused, poolVars, callVars, worldVars
<1>1. /\ Tail(unused) \in Seq(Resources)
      /\ Head(unused) \in Resources
      /\ Head(unused) \in ToSet(unused)
      /\ ToSet(unused') = ToSet(unused) \ {Head(unused)}
      /\ IsInjective(unused')
  BY ShiftElements DEF Inv, TypeOK, Custody, UnusedIsFree
<1>2. /\ Owners' = Owners \union {c}
      /\ Creating' = Creating
      /\ c \notin Owners
  BY DEF Inv, TypeOK, Owners, Creating
<1>3. /\ got'[c] = Head(unused)
      /\ \A b \in Callers \ {c} : got'[b] = got[b]
      /\ Head(unused) # None
  BY <1>1, PoolAssumption DEF Inv, TypeOK
<1>4. Held' = Held \union {Head(unused)}
  BY <1>2, <1>3 DEF Held, Owners
<1>5. TypeOK'
  BY <1>1 DEF Inv, TypeOK, CallStates
<1>6. GotIffOwner'
  BY <1>2, <1>3 DEF Inv, Custody, GotIffOwner
<1>7. UniqueOwner'
  BY <1>1, <1>2, <1>3 DEF Inv, Custody, UniqueOwner, UnusedIsFree, Held, Owners
<1>8. InUseExact'
  BY <1>3 DEF Inv, TypeOK, Custody, InUseExact
<1>9. (UnusedIsFree /\ DestroyedIsGone /\ NothingLost)'
  BY <1>1, <1>4 DEF Inv, Custody, UnusedIsFree, DestroyedIsGone, NothingLost
<1>10. QueueExact'
  BY DEF Inv, TypeOK, QueueExact
<1>11. WaitersExhausted'
  BY DEF Inv, WaitersExhausted
<1>12. Bounded'
  BY <1>2 DEF Inv, Bounded
<1> QED
  BY <1>5, <1>6, <1>7, <1>8, <1>9, <1>10, <1>11, <1>12 DEF Inv, Custody

LEMMA GetCreateInv == ASSUME Inv, NEW c \in Callers, GetCreate(c) PROVE Inv'
<1> USE DEF GetCreate, MayCreate, Counted, poolVars, callVars, worldVars
<1>1. /\ Owners' = Owners
      /\ Creating' = Creating \union {c}
      /\ c \notin Creating
  BY DEF Inv, TypeOK, Owners, Creating
<1>2. Held' = Held
  BY <1>1 DEF Held
<1>3. TypeOK'
  BY PoolAssumption DEF Inv, TypeOK, CallStates
<1>4. Custody'
  <2>1. InUseExact'
    BY DEF Inv, TypeOK, Custody, InUseExact
  <2> QED
    BY <1>1, <1>2, <2>1 DEF Inv, Custody, GotIffOwner, UniqueOwner,
       UnusedIsFree, DestroyedIsGone, NothingLost
<1>5. QueueExact'
  BY DEF Inv, TypeOK, QueueExact
<1>6. WaitersExhausted'
  BY DEF Inv, TypeOK, WaitersExhausted
<1>7. Bounded'
  <2>1. IsFiniteSet(Creating) /\ IsFiniteSet(created)
    BY FS_Subset, PoolAssumption DEF Inv, TypeOK, Creating
  <2>2. Cardinality(Creating') = Cardinality(Creating) + 1
    BY <1>1, <2>1, FS_AddElement
  <2>3. Cardinality(Creating) \in Nat /\ Cardinality(created) \in Nat
    BY <2>1, FS_CardinalityType
  <2> QED BY <2>2, <2>3 DEF Inv, TypeOK, Bounded
<1> QED BY <1>3, <1>4, <1>5, <1>6, <1>7 DEF Inv

LEMMA GetWaitInv == ASSUME Inv, NEW c \in Callers, GetWait(c) PROVE Inv'
<1> USE DEF GetWait, MayCreate, PushBack, poolVars, callVars, worldVars
<1>1. /\ Owners' = Owners
      /\ Creating' = Creating
      /\ c \notin ToSet(waiting)
  BY DEF Inv, TypeOK, QueueExact, Owners, Creating
<1>2. Held' = Held
  BY <1>1 DEF Held
<1>3. /\ waiting' \in Seq(Callers)
      /\ waiting' # <<>>
      /\ ToSet(waiting') = ToSet(waiting) \union {c}
      /\ IsInjective(waiting')
  BY <1>1, PushElements, PushInjective DEF Inv, TypeOK, QueueExact
<1>4. TypeOK'
  BY <1>3 DEF Inv, TypeOK, CallStates
<1>5. Custody'
  <2>1. InUseExact'
    BY DEF Inv, TypeOK, Custody, InUseExact
  <2> QED
    BY <1>1, <1>2, <2>1 DEF Inv, Custody, GotIffOwner, UniqueOwner,
       UnusedIsFree, DestroyedIsGone, NothingLost
<1>6. QueueExact'
  BY <1>3 DEF Inv, TypeOK, QueueExact
<1>7. WaitersExhausted'
  BY PoolAssumption DEF Inv, TypeOK, WaitersExhausted
<1>8. Bounded'
  BY <1>1 DEF Inv, Bounded
<1> QED BY <1>4, <1>5, <1>6, <1>7, <1>8 DEF Inv

LEMMA CreateOkInv == ASSUME Inv, NEW c \in Callers, CreateOk(c) PROVE Inv'
<1> USE DEF CreateOk, poolVars, callVars, worldVars
<1>1. PICK r \in Resources \ created :
        /\ created' = created \union {r}
        /\ got' = [got EXCEPT ![c] = r]
  OBVIOUS
<1>2. /\ Owners' = Owners \union {c}
      /\ Creating' = Creating \ {c}
      /\ c \notin Owners
      /\ c \in Creating
  BY DEF Inv, TypeOK, Owners, Creating
<1>3. /\ got'[c] = r
      /\ \A b \in Callers \ {c} : got'[b] = got[b]
      /\ r # None
  BY <1>1, PoolAssumption DEF Inv, TypeOK
<1>4. Held' = Held \union {r}
  BY <1>2, <1>3 DEF Held, Owners
<1>5. r \notin ToSet(unused) /\ r \notin Held /\ r \notin destroyed
  BY <1>1 DEF Inv, Custody, NothingLost
<1>6. TypeOK'
  BY <1>1 DEF Inv, TypeOK, CallStates
<1>7. GotIffOwner'
  BY <1>2, <1>3 DEF Inv, Custody, GotIffOwner
<1>8. UniqueOwner'
  BY <1>2, <1>3, <1>5 DEF Inv, Custody, UniqueOwner, Held, Owners
<1>9. InUseExact'
  BY <1>3 DEF Inv, TypeOK, Custody, InUseExact
<1>10. (UnusedIsFree /\ DestroyedIsGone /\ NothingLost)'
  BY <1>1, <1>4, <1>5 DEF Inv, Custody, UnusedIsFree, DestroyedIsGone, NothingLost
<1>11. QueueExact'
  BY DEF Inv, TypeOK, QueueExact
<1>12. WaitersExhausted'
  BY DEF Inv, WaitersExhausted
<1>13. Bounded'
  <2>1. IsFiniteSet(Creating) /\ IsFiniteSet(created)
    BY FS_Subset, PoolAssumption DEF Inv, TypeOK, Creating
  <2>2. /\ Cardinality(Creating') = Cardinality(Creating) - 1
        /\ Cardinality(created') = Cardinality(created) + 1
    BY <1>1, <1>2, <2>1, FS_AddElement, FS_RemoveElement
  <2>3. Cardinality(Creating) \in Nat /\ Cardinality(created) \in Nat
    BY <2>1, FS_CardinalityType
  <2> QED BY <2>2, <2>3 DEF Inv, TypeOK, Bounded
<1> QED
  BY <1>6, <1>7, <1>8, <1>9, <1>10, <1>11, <1>12, <1>13 DEF Inv, Custody

LEMMA CreateFailInv == ASSUME Inv, NEW c \in Callers, CreateFail(c) PROVE Inv'
<1> USE DEF CreateFail, poolVars, callVars, worldVars
<1>1. Owners' = Owners /\ Creating' = Creating \ {c} /\ c \in Creating
  BY DEF Inv, TypeOK, Owners, Creating
<1>2. Held' = Held
  BY <1>1 DEF Held
<1>3. TypeOK'
  BY DEF Inv, TypeOK, CallStates
<1>4. Custody'
  <2>1. InUseExact'
    BY DEF Inv, TypeOK, Custody, InUseExact
  <2> QED
    BY <1>1, <1>2, <2>1 DEF Inv, Custody, GotIffOwner, UniqueOwner,
       UnusedIsFree, DestroyedIsGone, NothingLost
<1>5. QueueExact' /\ WaitersExhausted'
  BY DEF Inv, TypeOK, QueueExact, WaitersExhausted
<1>6. Bounded'
  <2>1. IsFiniteSet(Creating) /\ IsFiniteSet(created)
    BY FS_Subset, PoolAssumption DEF Inv, TypeOK, Creating
  <2>2. Cardinality(Creating') = Cardinality(Creating) - 1
    BY <1>1, <2>1, FS_RemoveElement
  <2>3. Cardinality(Creating) \in Nat /\ Cardinality(created) \in Nat
    BY <2>1, FS_CardinalityType
  <2> QED BY <2>2, <2>3 DEF Inv, TypeOK, Bounded
<1> QED BY <1>3, <1>4, <1>5, <1>6 DEF Inv

LEMMA AcquireInv == ASSUME Inv, NEW c \in Callers, Acquire(c) PROVE Inv'
<1> USE DEF Acquire, poolVars, callVars, worldVars
<1>1. Owners' = Owners /\ Creating' = Creating /\ c \in Owners
  BY DEF Inv, TypeOK, Owners, Creating
<1>2. Held' = Held
  BY <1>1 DEF Held
<1>3. got[c] \in Resources
  BY <1>1 DEF Inv, TypeOK, Custody, GotIffOwner
<1>4. TypeOK'
  BY <1>3 DEF Inv, TypeOK, CallStates
<1>5. Custody'
  <2>1. InUseExact'
    BY DEF Inv, TypeOK, Custody, InUseExact
  <2> QED
    BY <1>1, <1>2, <2>1 DEF Inv, Custody, GotIffOwner, UniqueOwner,
       UnusedIsFree, DestroyedIsGone, NothingLost
<1>6. QueueExact' /\ WaitersExhausted' /\ Bounded'
  BY <1>1 DEF Inv, TypeOK, QueueExact, WaitersExhausted, Bounded
<1> QED BY <1>4, <1>5, <1>6 DEF Inv

LEMMA ReturnToWaiterInv ==
  ASSUME Inv, NEW c \in Callers, ReturnToWaiter(c) PROVE Inv'
<1> USE DEF ReturnToWaiter, SomeoneWaits, ShiftWaiting, poolVars, callVars, worldVars
<1> DEFINE w == Head(waiting)
<1>1. /\ waiting' \in Seq(Callers)
      /\ w \in Callers
      /\ w \in ToSet(waiting)
      /\ ToSet(waiting') = ToSet(waiting) \ {w}
      /\ IsInjective(waiting')
  BY ShiftElements DEF Inv, TypeOK, QueueExact
<1>2. call[w] = "waiting" /\ w # c
  BY <1>1 DEF Inv, QueueExact
<1>3. /\ call'[c] = "idle" /\ call'[w] = "granted"
      /\ \A b \in Callers \ {c, w} : call'[b] = call[b]
  BY <1>1, <1>2 DEF Inv, TypeOK
<1>4. /\ got'[c] = None /\ got'[w] = got[c]
      /\ \A b \in Callers \ {c, w} : got'[b] = got[b]
  BY <1>1, <1>2 DEF Inv, TypeOK
<1>5. /\ c \in Owners /\ w \notin Owners
      /\ Owners' = (Owners \ {c}) \union {w}
      /\ Creating' = Creating
      /\ got[c] # None
  BY <1>1, <1>2, <1>3 DEF Inv, Owners, Creating, Custody, GotIffOwner
<1>6. Held' = Held
  <2>1. ASSUME NEW r \in Held' PROVE r \in Held
    <3>1. PICK b \in Owners' : r = got'[b]
      BY DEF Held
    <3>2. CASE b = w
      BY <1>4, <1>5, <3>1, <3>2 DEF Held
    <3>3. CASE b # w
      <4>1. b \in Owners /\ b \in Callers \ {c, w}
        BY <1>5, <3>1, <3>3 DEF Owners
      <4> QED BY <1>4, <3>1, <4>1 DEF Held
    <3> QED BY <3>2, <3>3
  <2>2. ASSUME NEW r \in Held PROVE r \in Held'
    <3>1. PICK b \in Owners : r = got[b]
      BY DEF Held
    <3>2. CASE b = c
      BY <1>4, <1>5, <3>1, <3>2 DEF Held
    <3>3. CASE b # c
      <4>1. b \in Owners' /\ b \in Callers \ {c, w}
        BY <1>5, <3>1, <3>3 DEF Owners
      <4> QED BY <1>4, <3>1, <4>1 DEF Held
    <3> QED BY <3>2, <3>3
  <2> QED BY <2>1, <2>2
<1>7. TypeOK'
  BY <1>1 DEF Inv, TypeOK, CallStates
<1>8. GotIffOwner'
  BY <1>1, <1>4, <1>5 DEF Inv, Custody, GotIffOwner
<1>9. UniqueOwner'
  BY <1>1, <1>4, <1>5 DEF Inv, Custody, UniqueOwner, Owners
<1>10. InUseExact'
  <2> DEFINE holders == {b \in Callers : call[b] = "holding"}
  <2>1. holders' = holders \ {c} /\ c \in holders
    BY <1>1, <1>2, <1>3
  <2>2. holders \subseteq Owners
    BY DEF Owners
  <2>3. \A b \in holders \ {c} : got'[b] = got[b] /\ got[b] # got[c]
    BY <1>2, <1>4, <1>5, <2>2 DEF Inv, Custody, UniqueOwner
  <2>4. inUse = {got[b] : b \in holders} /\ inUse' = inUse \ {got[c]}
    BY DEF Inv, Custody, InUseExact
  <2> HIDE DEF holders
  <2>5. inUse' = {got'[b] : b \in holders'}
    BY ONLY <2>1, <2>3, <2>4
  <2> USE DEF holders
  <2> QED BY ONLY <2>5 DEF InUseExact
<1>11. (UnusedIsFree /\ DestroyedIsGone /\ NothingLost)'
  BY <1>6 DEF Inv, Custody, UnusedIsFree, DestroyedIsGone, NothingLost
<1>12. QueueExact'
  BY <1>1, <1>2, <1>3 DEF Inv, QueueExact
<1>13. WaitersExhausted'
  BY DEF Inv, WaitersExhausted
<1>14. Bounded'
  BY <1>5 DEF Inv, Bounded
<1> QED
  BY <1>7, <1>8, <1>9, <1>10, <1>11, <1>12, <1>13, <1>14 DEF Inv, Custody

LEMMA ReturnToUnusedInv ==
  ASSUME Inv, NEW c \in Callers, ReturnToUnused(c) PROVE Inv'
<1> USE DEF ReturnToUnused, SomeoneWaits, PushUnused, poolVars, callVars, worldVars
<1>1. /\ call'[c] = "idle" /\ got'[c] = None
      /\ \A b \in Callers \ {c} : call'[b] = call[b] /\ got'[b] = got[b]
  BY DEF Inv, TypeOK
<1>2. /\ c \in Owners
      /\ Owners' = Owners \ {c}
      /\ Creating' = Creating
      /\ got[c] \in Resources
      /\ got[c] \in Held
  BY <1>1 DEF Inv, TypeOK, Owners, Creating, Custody, GotIffOwner, Held
<1>3. Held' = Held \ {got[c]}
  <2>1. \A b \in Owners \ {c} : got'[b] = got[b] /\ got[b] # got[c]
    BY <1>1, <1>2 DEF Inv, Custody, UniqueOwner, Owners
  <2> QED BY <1>2, <2>1 DEF Held
<1>4. /\ unused' \in Seq(Resources)
      /\ ToSet(unused') = ToSet(unused) \union {got[c]}
      /\ IsInjective(unused')
  BY <1>2, PushElements, PushInjective DEF Inv, TypeOK, Custody, UnusedIsFree
<1>5. TypeOK'
  <2>1. destroying' \in [Closers -> CloserStates]
    BY DEF Inv, TypeOK, NotifyIfEmpty, CloserStates
  <2>2. got' \in [Callers -> Resources \union {None}]
    BY DEF Inv, TypeOK
  <2> QED BY <1>4, <2>1, <2>2 DEF Inv, TypeOK, CallStates
<1>6. GotIffOwner'
  BY <1>1, <1>2 DEF Inv, Custody, GotIffOwner
<1>7. UniqueOwner'
  BY <1>1, <1>2 DEF Inv, Custody, UniqueOwner, Owners
<1>8. InUseExact'
  <2> DEFINE holders == {b \in Callers : call[b] = "holding"}
  <2>1. holders' = holders \ {c} /\ c \in holders
    BY <1>1
  <2>2. holders \subseteq Owners
    BY DEF Owners
  <2>3. \A b \in holders \ {c} : got'[b] = got[b] /\ got[b] # got[c]
    BY <1>1, <1>2, <2>2 DEF Inv, Custody, UniqueOwner
  <2>4. inUse' = {got'[b] : b \in holders'}
    BY <2>1, <2>3 DEF Inv, Custody, InUseExact
  <2> QED BY <2>4 DEF InUseExact
<1>9. (UnusedIsFree /\ DestroyedIsGone /\ NothingLost)'
  BY <1>2, <1>3, <1>4 DEF Inv, Custody, UnusedIsFree, DestroyedIsGone, NothingLost
<1>10. QueueExact'
  BY <1>1 DEF Inv, QueueExact
<1>11. WaitersExhausted'
  BY DEF Inv, WaitersExhausted
<1>12. Bounded'
  BY <1>2 DEF Inv, Bounded
<1> QED
  BY <1>5, <1>6, <1>7, <1>8, <1>9, <1>10, <1>11, <1>12 DEF Inv, Custody

LEMMA CollectInv == ASSUME Inv, NEW d \in Closers, Collect(d) PROVE Inv'
<1> USE DEF Collect, ForgetUnused, poolVars, callVars, worldVars
<1>1. Owners' = Owners /\ Creating' = Creating /\ Held' = Held
  BY DEF Owners, Creating, Held
<1>2. ToSet(unused) \subseteq Resources
  BY NonemptyElements DEF Inv, TypeOK
<1>3. unused' \in Seq(Resources) /\ ToSet(unused') = {} /\ IsInjective(unused')
  BY EmptyElements
<1>4. TypeOK'
  BY <1>2, <1>3 DEF Inv, TypeOK, CloserStates
<1>5. Custody'
  BY <1>1, <1>3 DEF Inv, Custody, GotIffOwner, UniqueOwner, InUseExact,
     UnusedIsFree, DestroyedIsGone, NothingLost
<1>6. QueueExact' /\ WaitersExhausted' /\ Bounded'
  BY <1>1 DEF Inv, QueueExact, WaitersExhausted, Bounded
<1> QED BY <1>4, <1>5, <1>6 DEF Inv

LEMMA DestroyLaterInv == ASSUME Inv, NEW d \in Closers, DestroyLater(d) PROVE Inv'
<1> USE DEF DestroyLater, poolVars, callVars, worldVars
<1>1. TypeOK'
  BY DEF Inv, TypeOK, CloserStates
<1>2. Owners' = Owners /\ Creating' = Creating /\ Held' = Held
  BY DEF Owners, Creating, Held
<1>3. Custody' /\ QueueExact' /\ WaitersExhausted' /\ Bounded'
  BY <1>2 DEF Inv, Custody, GotIffOwner, UniqueOwner, InUseExact, UnusedIsFree,
     DestroyedIsGone, NothingLost, QueueExact, WaitersExhausted, Bounded
<1> QED BY <1>1, <1>3 DEF Inv

LEMMA StutterInv == ASSUME Inv, UNCHANGED vars PROVE Inv'
<1> USE DEF vars, poolVars, callVars, worldVars
<1>1. Owners' = Owners /\ Creating' = Creating /\ Held' = Held
  BY DEF Owners, Creating, Held
<1> QED
  BY <1>1 DEF Inv, TypeOK, Custody, GotIffOwner, UniqueOwner, InUseExact,
     UnusedIsFree, DestroyedIsGone, NothingLost, QueueExact, WaitersExhausted,
     Bounded

-----------------------------------------------------------------------------
LEMMA NextInv == Inv /\ [Next]_vars => Inv'
<1> SUFFICES ASSUME Inv, [Next]_vars PROVE Inv'
  OBVIOUS
<1>1. ASSUME NEW c \in Callers, Get(c) PROVE Inv'
  BY <1>1, GetUnusedInv, GetCreateInv, GetWaitInv DEF Get
<1>2. ASSUME NEW c \in Callers, Serve(c) PROVE Inv'
  BY <1>2, CreateOkInv, CreateFailInv, AcquireInv, ReturnToWaiterInv,
     ReturnToUnusedInv DEF Serve, Return
<1>3. ASSUME NEW d \in Closers, Destroy(d) PROVE Inv'
  BY <1>3, CollectInv, DestroyLaterInv DEF Destroy, DestroyNow, DestroyResume
<1>4. CASE UNCHANGED vars
  BY <1>4, StutterInv
<1> QED BY <1>1, <1>2, <1>3, <1>4 DEF Next

\* Which resource is where, who queues, and how many there may be: the whole
\* invariant of get(), return() and destroyAll().
THEOREM PoolInvariant == Spec => []Inv
<1>1. Init => Inv
  BY InitInv
<1>2. Inv /\ [Next]_vars => Inv'
  BY NextInv
<1> QED BY <1>1, <1>2, PTL DEF Spec

\* The fields keep their types, and resourceCount never exceeds maxResources.
THEOREM PoolTypeOK == Spec => []TypeOK
<1>1. Inv => TypeOK
  BY DEF Inv
<1> QED BY <1>1, PoolInvariant, PTL

\* No resource is shared, lost, or used after destroyAll() took it.
THEOREM PoolCustody == Spec => []Custody
<1>1. Inv => Custody
  BY DEF Inv
<1> QED BY <1>1, PoolInvariant, PTL

\* A caller waits only while the pool is at its maximum with nothing unused.
THEOREM PoolWaitersExhausted == Spec => []WaitersExhausted
<1>1. Inv => WaitersExhausted
  BY DEF Inv
<1> QED BY <1>1, PoolInvariant, PTL

\* The queue holds exactly the callers that wait, each once.
THEOREM PoolQueueExact == Spec => []QueueExact
<1>1. Inv => QueueExact
  BY DEF Inv
<1> QED BY <1>1, PoolInvariant, PTL

\* What exists and what is being created never exceeds what was counted.
THEOREM PoolBounded == Spec => []Bounded
<1>1. Inv => Bounded
  BY DEF Inv
<1> QED BY <1>1, PoolInvariant, PTL

-----------------------------------------------------------------------------
(* The order of service, and the abstract contract.                        *)

\* While callers queue, a later call only joins the end of the queue.
THEOREM PoolNoBarging == Spec => NoBarging
<1> DEFINE Fair == waiting # <<>> =>
             \A c \in Callers :
               call[c] = "idle" /\ call'[c] # "idle"
                 => call'[c] = "waiting" /\ waiting' = Append(waiting, c)
<1>1. Inv /\ [Next]_vars => Fair
  <2> SUFFICES ASSUME Inv, [Next]_vars, waiting # <<>>,
                      NEW c \in Callers, call[c] = "idle", call'[c] # "idle"
               PROVE  call'[c] = "waiting" /\ waiting' = Append(waiting, c)
    OBVIOUS
  <2>1. unused = <<>> /\ ~MayCreate(resourceCount)
    BY DEF Inv, TypeOK, WaitersExhausted, MayCreate
  <2>2. call \in [Callers -> CallStates]
    BY DEF Inv, TypeOK
  <2>3. ASSUME NEW b \in Callers, Get(b)
        PROVE  call'[c] = "waiting" /\ waiting' = Append(waiting, c)
    <3>1. GetWait(b)
      BY <2>1, <2>3 DEF Get, GetUnused, GetCreate
    <3> QED BY <2>2, <3>1 DEF GetWait, PushBack
  <2>4. ASSUME NEW b \in Callers, Serve(b) PROVE FALSE
    <3>1. CASE CreateOk(b) \/ CreateFail(b) \/ Acquire(b) \/ ReturnToUnused(b)
      BY <2>2, <3>1 DEF CreateOk, CreateFail, Acquire, ReturnToUnused
    <3>2. CASE ReturnToWaiter(b)
      <4>1. Head(waiting) \in ToSet(waiting)
        BY ShiftElements DEF Inv, TypeOK, QueueExact
      <4>2. Head(waiting) # c
        BY <4>1 DEF Inv, QueueExact
      <4> QED BY <2>2, <3>2, <4>2 DEF ReturnToWaiter
    <3> QED BY <2>4, <3>1, <3>2 DEF Serve, Return
  <2>5. ASSUME NEW d \in Closers, Destroy(d) PROVE FALSE
    BY <2>5 DEF Destroy, DestroyNow, DestroyLater, DestroyResume, Collect, callVars
  <2>6. CASE UNCHANGED vars
    BY <2>6 DEF vars, callVars
  <2> QED BY <2>3, <2>4, <2>5, <2>6 DEF Next
<1>2. Inv /\ [Next]_vars => [Fair]_vars
  BY <1>1
<1> QED BY <1>2, PoolInvariant, PTL DEF Spec, NoBarging

\* Every resource ever created is unused, owned or destroyed, counted once.
LEMMA Census ==
  Inv => Cardinality(created)
           = Len(unused) + Cardinality(Owners) + Cardinality(destroyed)
<1> SUFFICES ASSUME Inv
             PROVE  Cardinality(created)
                      = Len(unused) + Cardinality(Owners) + Cardinality(destroyed)
  OBVIOUS
<1>1. /\ IsFiniteSet(ToSet(unused))
      /\ Cardinality(ToSet(unused)) = Len(unused)
  BY InjectiveLength DEF Inv, TypeOK, Custody, UnusedIsFree
<1>2. IsFiniteSet(Owners) /\ IsFiniteSet(destroyed)
  BY FS_Subset, PoolAssumption DEF Inv, TypeOK, Owners
<1>3. IsFiniteSet(Held) /\ Cardinality(Held) = Cardinality(Owners)
  BY <1>2, InjectiveImage DEF Inv, Custody, UniqueOwner, Held
<1>4. /\ IsFiniteSet(ToSet(unused) \union Held)
      /\ Cardinality(ToSet(unused) \union Held) = Len(unused) + Cardinality(Owners)
  BY <1>1, <1>3, DisjointUnion DEF Inv, Custody, UnusedIsFree
<1>5. (ToSet(unused) \union Held) \intersect destroyed = {}
  BY DEF Inv, Custody, UnusedIsFree, DestroyedIsGone
<1>6. created = (ToSet(unused) \union Held) \union destroyed
  BY DEF Inv, Custody, NothingLost
<1>7. Cardinality((ToSet(unused) \union Held) \union destroyed)
        = Cardinality(ToSet(unused) \union Held) + Cardinality(destroyed)
  BY <1>2, <1>4, <1>5, DisjointUnion
<1> QED BY <1>4, <1>6, <1>7

\* numInUse() counts the resources in use and the pending ones, as its
\* comment says, as long as no create() has failed and nothing is destroyed.
THEOREM PoolNumInUse == Spec => []NumInUseExact
<1>1. Inv => NumInUseExact
  <2> SUFFICES ASSUME Inv, ~Failed, destroyed = {}
               PROVE  NumInUse = Cardinality(Owners) + Cardinality(Creating)
    BY DEF NumInUseExact
  <2>1. IsFiniteSet(created) /\ IsFiniteSet(Creating) /\ IsFiniteSet(Owners)
    BY FS_Subset, PoolAssumption DEF Inv, TypeOK, Creating, Owners
  <2>2. /\ Cardinality(created) \in Nat
        /\ Cardinality(Creating) \in Nat
        /\ Cardinality(Owners) \in Nat
        /\ Len(unused) \in Nat
        /\ resourceCount \in Nat
    BY <2>1, FS_CardinalityType DEF Inv, TypeOK
  <2>3. resourceCount = Cardinality(created) + Cardinality(Creating)
    BY <2>2 DEF Inv, Bounded, Failed
  <2>4. Cardinality(created) = Len(unused) + Cardinality(Owners)
    BY <2>2, Census, FS_EmptySet
  <2> QED BY <2>2, <2>3, <2>4 DEF NumInUse
<1> QED BY <1>1, PoolInvariant, PTL

\* What the refinement mapping says of each resource.
OwnerMap ==
  \A r \in Resources :
    /\ OwnerOf(r) = "unborn" <=> r \notin created
    /\ OwnerOf(r) = "gone" <=> r \in destroyed
    /\ OwnerOf(r) = "free" <=> r \in ToSet(unused)
    /\ \A c \in Callers : OwnerOf(r) = c <=> c \in Owners /\ got[c] = r

LEMMA OwnerMapOK == Inv => OwnerMap
<1> SUFFICES ASSUME Inv, NEW r \in Resources
             PROVE  /\ OwnerOf(r) = "unborn" <=> r \notin created
                    /\ OwnerOf(r) = "gone" <=> r \in destroyed
                    /\ OwnerOf(r) = "free" <=> r \in ToSet(unused)
                    /\ \A c \in Callers : OwnerOf(r) = c <=> c \in Owners /\ got[c] = r
  BY DEF OwnerMap
<1>1. \A c \in Callers : c # "unborn" /\ c # "free" /\ c # "gone"
  BY PoolAssumption
<1>2. /\ r \in created <=> r \in ToSet(unused) \/ r \in Held \/ r \in destroyed
      /\ ~(r \in ToSet(unused) /\ (r \in Held \/ r \in destroyed))
      /\ ~(r \in Held /\ r \in destroyed)
  BY DEF Inv, Custody, UnusedIsFree, DestroyedIsGone, NothingLost
<1>3. \A c \in Owners : c \in Callers /\ got[c] \in Held
  BY DEF Owners, Held
<1>4. CASE r \in Held
  <2>1. PICK c \in Owners : got[c] = r
    BY <1>4 DEF Held
  <2>2. \A b \in Owners : got[b] = r => b = c
    BY <2>1 DEF Inv, Custody, UniqueOwner
  <2>3. OwnerOf(r) = CHOOSE b \in Owners : got[b] = r
    BY <1>2, <1>4 DEF OwnerOf
  <2>4. OwnerOf(r) = c
    BY <2>1, <2>2, <2>3
  <2> QED BY <1>1, <1>2, <1>3, <1>4, <2>1, <2>2, <2>4
<1>5. CASE r \notin Held
  BY <1>1, <1>2, <1>3, <1>5 DEF OwnerOf
<1> QED BY <1>4, <1>5

LEMMA IdleIsOutside ==
  ASSUME Inv, NEW c \in Callers, call[c] = "idle"
  PROVE  Contract!Outside(c)
<1>1. ~Contract!Queued(c)
  BY DEF Inv, QueueExact, ToSet, Contract!Queued
<1>2. ~Contract!Owns(c)
  BY OwnerMapOK DEF OwnerMap, Owners, Contract!Owns
<1>3. c \notin Creating
  BY DEF Creating
<1> QED BY <1>1, <1>2, <1>3 DEF Contract!Outside

LEMMA NoneUnusedNoneFree ==
  ASSUME Inv, unused = <<>> PROVE ~Contract!SomeFree
BY OwnerMapOK, EmptyElements DEF OwnerMap, Contract!SomeFree

LEMMA InitContract == Init => Contract!Init
BY DEF Init, Contract!Init, OwnerOf, Creating

Has(c, r) == c \in Owners /\ got[c] = r
Mapped == [r \in Resources |-> OwnerOf(r)]

\* A step changes the mapped owner of a resource only if it moves it.
LEMMA UnmovedKeepsOwner ==
  ASSUME Inv, Inv', NEW r \in Resources,
         r \in created' <=> r \in created,
         r \in destroyed' <=> r \in destroyed,
         r \in ToSet(unused)' <=> r \in ToSet(unused),
         \A c \in Callers : Has(c, r)' <=> Has(c, r)
  PROVE  OwnerOf(r)' = OwnerOf(r)
<1>1. OwnerMap /\ OwnerMap'
  BY OwnerMapOK, PTL
<1>2. CASE r \notin created
  BY <1>1, <1>2 DEF OwnerMap
<1>3. CASE r \in destroyed
  BY <1>1, <1>3 DEF OwnerMap
<1>4. CASE r \in ToSet(unused)
  BY <1>1, <1>4 DEF OwnerMap
<1>5. CASE r \in Held
  <2>1. PICK c \in Callers : Has(c, r)
    BY <1>5 DEF Held, Has, Owners
  <2>2. Has(c, r)'
    BY <2>1
  <2>3. OwnerOf(r) = c /\ OwnerOf(r)' = c
    BY <1>1, <2>1, <2>2 DEF OwnerMap, Has
  <2> QED BY <2>3
<1> QED BY <1>2, <1>3, <1>4, <1>5 DEF Inv, Custody, NothingLost

\* Every step of the pool is a step of the contract, or changes nothing the
\* contract talks about.
LEMMA NextContract ==
  Inv /\ Inv' /\ [Next]_vars => [Contract!Next]_(Contract!contractVars)
<1> SUFFICES ASSUME Inv, Inv', [Next]_vars
             PROVE  Contract!Next \/ UNCHANGED <<Mapped, waiting, Creating>>
  BY DEF Contract!contractVars, Mapped
<1> USE DEF SomeoneWaits, ShiftWaiting, poolVars, callVars, worldVars
<1>1. OwnerMap /\ OwnerMap'
  BY OwnerMapOK, PTL
<1>2. call \in [Callers -> CallStates] /\ got \in [Callers -> Resources \union {None}]
  BY DEF Inv, TypeOK
<1>3. ASSUME NEW c \in Callers, GetUnused(c) PROVE Contract!Next
  <2> USE DEF GetUnused
  <2>0. PICK r \in Resources : r = Head(unused)
    BY <1>3, ShiftElements DEF Inv, TypeOK, Custody, UnusedIsFree
  <2>1. r \in Resources /\ r \in ToSet(unused) /\ ToSet(unused') = ToSet(unused) \ {r}
    BY <1>3, <2>0, ShiftElements DEF Inv, TypeOK, Custody, UnusedIsFree
  <2>2. waiting = <<>>
    BY <1>3 DEF Inv, WaitersExhausted
  <2>3. c \in Owners' /\ got'[c] = r /\ c \notin Owners
    BY <1>2, <1>3, <2>0 DEF Owners
  <2>4. OwnerOf(r) = "free" /\ OwnerOf(r)' = c
    BY <1>1, <2>1, <2>3 DEF OwnerMap
  <2>5. ASSUME NEW q \in Resources \ {r} PROVE OwnerOf(q)' = OwnerOf(q)
    <3>1. \A b \in Callers : Has(b, q)' <=> Has(b, q)
      BY <1>2, <1>3, <2>3 DEF Has, Owners
    <3> QED BY <1>3, <2>1, <3>1, UnmovedKeepsOwner
  <2>6. Mapped' = [Mapped EXCEPT ![r] = c]
    BY <2>1, <2>4, <2>5 DEF Mapped
  <2>7. Creating' = Creating
    BY <1>2, <1>3 DEF Creating
  <2>8. Contract!Take(c, r)
    BY <1>3, <2>0, <2>1, <2>2, <2>4, <2>6, <2>7, IdleIsOutside DEF Contract!Take, Mapped
  <2> QED BY <2>1, <2>8 DEF Contract!Next
<1>4. ASSUME NEW c \in Callers, GetCreate(c) PROVE Contract!Next
  <2>1. Creating' = Creating \union {c} /\ Owners' = Owners
    BY <1>2, <1>4 DEF GetCreate, Creating, Owners
  <2>2. \A q \in Resources : OwnerOf(q)' = OwnerOf(q)
    BY <1>4, <2>1, UnmovedKeepsOwner DEF GetCreate, Has
  <2>3. Mapped' = Mapped
    BY <2>2 DEF Mapped
  <2>4. Contract!Order(c)
    BY <1>4, <2>1, <2>3, IdleIsOutside, NoneUnusedNoneFree
       DEF GetCreate, Contract!Order, Mapped
  <2> QED BY <2>4 DEF Contract!Next
<1>5. ASSUME NEW c \in Callers, GetWait(c) PROVE Contract!Next
  <2>1. Creating' = Creating /\ Owners' = Owners
    BY <1>2, <1>5 DEF GetWait, Creating, Owners
  <2>2. \A q \in Resources : OwnerOf(q)' = OwnerOf(q)
    BY <1>5, <2>1, UnmovedKeepsOwner DEF GetWait, Has
  <2>3. Mapped' = Mapped
    BY <2>2 DEF Mapped
  <2>4. Contract!Enqueue(c)
    BY <1>5, <2>1, <2>3, IdleIsOutside, NoneUnusedNoneFree
       DEF GetWait, PushBack, Contract!Enqueue, Mapped
  <2> QED BY <2>4 DEF Contract!Next
<1>6. ASSUME NEW c \in Callers, CreateOk(c) PROVE Contract!Next
  <2>1. PICK r \in Resources \ created :
          created' = created \union {r} /\ got' = [got EXCEPT ![c] = r]
    BY <1>6 DEF CreateOk
  <2>2. /\ c \in Owners' /\ c \notin Owners /\ got'[c] = r
        /\ c \in Creating /\ Creating' = Creating \ {c}
    BY <1>2, <1>6, <2>1 DEF CreateOk, Owners, Creating
  <2>3. OwnerOf(r) = "unborn" /\ OwnerOf(r)' = c
    BY <1>1, <2>1, <2>2 DEF OwnerMap
  <2>4. ASSUME NEW q \in Resources \ {r} PROVE OwnerOf(q)' = OwnerOf(q)
    <3>1. \A b \in Callers : Has(b, q)' <=> Has(b, q)
      BY <1>2, <1>6, <2>1, <2>2 DEF CreateOk, Has, Owners
    <3> QED BY <1>6, <2>1, <3>1, UnmovedKeepsOwner DEF CreateOk
  <2>5. Mapped' = [Mapped EXCEPT ![r] = c]
    BY <2>3, <2>4 DEF Mapped
  <2>6. Contract!Supply(c, r)
    BY <1>6, <2>1, <2>2, <2>3, <2>5 DEF CreateOk, Contract!Supply, Mapped
  <2> QED BY <2>6 DEF Contract!Next
<1>7. ASSUME NEW c \in Callers, CreateFail(c) PROVE Contract!Next
  <2>1. c \in Creating /\ Creating' = Creating \ {c} /\ Owners' = Owners
    BY <1>2, <1>7 DEF CreateFail, Creating, Owners
  <2>2. \A q \in Resources : OwnerOf(q)' = OwnerOf(q)
    BY <1>7, <2>1, UnmovedKeepsOwner DEF CreateFail, Has
  <2>3. Mapped' = Mapped
    BY <2>2 DEF Mapped
  <2>4. Contract!Refuse(c)
    BY <1>7, <2>1, <2>3 DEF CreateFail, Contract!Refuse, Mapped
  <2> QED BY <2>4 DEF Contract!Next
<1>8. ASSUME NEW c \in Callers, Acquire(c)
      PROVE  UNCHANGED <<Mapped, waiting, Creating>>
  <2>1. Creating' = Creating /\ Owners' = Owners
    BY <1>2, <1>8 DEF Acquire, Creating, Owners
  <2>2. \A q \in Resources : OwnerOf(q)' = OwnerOf(q)
    BY <1>8, <2>1, UnmovedKeepsOwner DEF Acquire, Has
  <2> QED BY <1>8, <2>1, <2>2 DEF Acquire, Mapped
<1>9. ASSUME NEW c \in Callers, ReturnToWaiter(c) PROVE Contract!Next
  <2>0. PICK w \in Callers : w = Head(waiting) /\ call[w] = "waiting" /\ w # c
    BY <1>9, ShiftElements DEF ReturnToWaiter, Inv, TypeOK, QueueExact
  <2>1. PICK r \in Resources : r = got[c]
    BY <1>2, <1>9 DEF ReturnToWaiter, Inv, Custody, GotIffOwner, Owners
  <2>2. /\ c \in Owners /\ w \notin Owners
        /\ Owners' = (Owners \ {c}) \union {w}
        /\ Creating' = Creating
    BY <1>2, <1>9, <2>0 DEF ReturnToWaiter, Owners, Creating
  <2>3. /\ got'[c] = None /\ got'[w] = r
        /\ \A b \in Callers \ {c, w} : got'[b] = got[b]
    BY <1>2, <1>9, <2>0, <2>1 DEF ReturnToWaiter
  <2>5. OwnerOf(r) = c /\ OwnerOf(r)' = w
    BY <1>1, <2>1, <2>2, <2>3 DEF OwnerMap
  <2>6. ASSUME NEW q \in Resources \ {r} PROVE OwnerOf(q)' = OwnerOf(q)
    <3>1. \A b \in Callers : Has(b, q)' <=> Has(b, q)
      BY <2>1, <2>2, <2>3, PoolAssumption DEF Has
    <3> QED BY <1>9, <3>1, UnmovedKeepsOwner DEF ReturnToWaiter
  <2>7. Mapped' = [Mapped EXCEPT ![r] = w]
    BY <2>5, <2>6 DEF Mapped
  <2>8. Contract!HandOver(c, r)
    BY <1>9, <2>0, <2>2, <2>5, <2>7 DEF ReturnToWaiter, Contract!HandOver, Mapped
  <2> QED BY <2>8 DEF Contract!Next
<1>10. ASSUME NEW c \in Callers, ReturnToUnused(c) PROVE Contract!Next
  <2>0. PICK r \in Resources : r = got[c]
    BY <1>2, <1>10 DEF ReturnToUnused, Inv, Custody, GotIffOwner, Owners
  <2>1. /\ c \in Owners /\ Owners' = Owners \ {c} /\ Creating' = Creating
        /\ \A b \in Callers \ {c} : got'[b] = got[b]
    BY <1>2, <1>10 DEF ReturnToUnused, Owners, Creating
  <2>3. ToSet(unused') = ToSet(unused) \union {r}
    BY <1>10, <2>0, PushElements DEF ReturnToUnused, PushUnused, Inv, TypeOK
  <2>4. OwnerOf(r) = c /\ OwnerOf(r)' = "free"
    BY <1>1, <2>0, <2>1, <2>3 DEF OwnerMap
  <2>5. ASSUME NEW q \in Resources \ {r} PROVE OwnerOf(q)' = OwnerOf(q)
    <3>1. \A b \in Callers : Has(b, q)' <=> Has(b, q)
      BY <2>0, <2>1 DEF Has
    <3> QED BY <1>10, <2>3, <3>1, UnmovedKeepsOwner DEF ReturnToUnused
  <2>6. Mapped' = [Mapped EXCEPT ![r] = "free"]
    BY <2>4, <2>5 DEF Mapped
  <2>7. Contract!Release(c, r)
    BY <1>10, <2>1, <2>4, <2>6 DEF ReturnToUnused, Contract!Release, Mapped
  <2> QED BY <2>7 DEF Contract!Next
<1>11. ASSUME NEW d \in Closers, Collect(d) PROVE Contract!Next
  <2>1. Owners' = Owners /\ Creating' = Creating /\ ToSet(unused') = {}
    BY <1>11, EmptyElements DEF Collect, ForgetUnused, Owners, Creating
  <2>2. ASSUME NEW r \in Resources
        PROVE  OwnerOf(r)' = IF OwnerOf(r) = "free" THEN "gone" ELSE OwnerOf(r)
    <3>1. CASE r \in ToSet(unused)
      BY <1>1, <1>11, <3>1 DEF OwnerMap, Collect
    <3>2. CASE r \notin ToSet(unused)
      <4>1. OwnerOf(r)' = OwnerOf(r)
        BY <1>11, <2>1, <3>2, UnmovedKeepsOwner DEF Collect, Has
      <4> QED BY <1>1, <3>2, <4>1 DEF OwnerMap
    <3> QED BY <3>1, <3>2
  <2>3. Contract!Retire
    BY <1>11, <2>1, <2>2 DEF Collect, Contract!Retire
  <2> QED BY <2>3 DEF Contract!Next
<1>12. ASSUME NEW d \in Closers, DestroyLater(d)
       PROVE  UNCHANGED <<Mapped, waiting, Creating>>
  <2>1. Owners' = Owners /\ Creating' = Creating
    BY <1>12 DEF DestroyLater, Owners, Creating
  <2>2. \A q \in Resources : OwnerOf(q)' = OwnerOf(q)
    BY <1>12, <2>1, UnmovedKeepsOwner DEF DestroyLater, Has
  <2> QED BY <1>12, <2>1, <2>2 DEF DestroyLater, Mapped
<1>13. CASE UNCHANGED vars
  BY <1>13 DEF vars, Mapped, OwnerOf, Owners, Held, Creating
<1> QED
  BY <1>3, <1>4, <1>5, <1>6, <1>7, <1>8, <1>9, <1>10, <1>11, <1>12, <1>13
     DEF Next, Get, Serve, Return, Destroy, DestroyNow, DestroyResume

\* The pool implements its contract, for every number of callers, closers and
\* resources.
THEOREM PoolImplementsContract == Spec => ImplementsContract
<1>1. Init => Contract!Init
  BY InitContract
<1>2. Inv /\ Inv' /\ [Next]_vars => [Contract!Next]_(Contract!contractVars)
  BY NextContract
<1> QED BY <1>1, <1>2, PoolInvariant, PTL DEF Spec, ImplementsContract, Contract!Spec

=============================================================================

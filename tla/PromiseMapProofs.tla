-------------------------- MODULE PromiseMapProofs --------------------------
(***************************************************************************)
(* Proofs about PromiseMap: its safety invariants hold for any number of   *)
(* keys and promises, with or without a timeout, whatever the client uses. *)
(***************************************************************************)
EXTENDS PromiseMap, TLAPS

\* The parts of MapConsistent need each other: that a stored function is open
\* comes from the uniqueness NoStrandedGetter gives, and no promise is made
\* for two keys because OwnedHasData remembers for which it was made.
Inv == TypeOK /\ MapConsistent

LEMMA InitInv == Init => Inv
BY MapAssumption DEF Init, Inv, TypeOK, MapConsistent, NoStrandedGetter,
   FunctionsAreOpen, OwnedHasData, GhostsAreInert, TimerIffSettled, has,
   isPending, NoData, Entries, PromiseStates

\* A promise in use is no fresh one; an entry's fields are of their types.
LEMMA EntryFields ==
  ASSUME TypeOK, NEW k \in Keys
  PROVE  /\ data[k].functions \in Promises \union {None}
         /\ data[k].timer \in BOOLEAN
         /\ data[k].status \in Status \union {"none"}
         /\ (data[k].status = "none" => data[k] = NoData)
<1>1. data[k] \in Entries \/ data[k] = NoData
  BY DEF TypeOK
<1>2. CASE data[k] \in Entries
  BY <1>2 DEF Entries, Status
<1>3. CASE data[k] = NoData
  BY <1>3 DEF NoData
<1> QED BY <1>1, <1>2, <1>3

-----------------------------------------------------------------------------
LEMMA GetInv == ASSUME Inv, NEW k \in Keys, Get(k) PROVE Inv'
<1> USE MapAssumption DEF Inv, has, WaitingEntry
<1>1. PICK p \in Fresh :
        /\ promises' = [promises EXCEPT ![k] = p]
        /\ data' = [data EXCEPT ![k] = WaitingEntry(p)]
        /\ pstate' = [pstate EXCEPT ![p] = "open"]
        /\ keyOf' = [keyOf EXCEPT ![p] = k]
  BY DEF Get
<1>2. p \in Promises /\ p # None /\ pstate[p] # "open"
      /\ \A j \in Keys : promises[j] # p
  BY <1>1 DEF Fresh, Settled
<1>3. promises[k] = None /\ stale' = stale /\ value' = value
  BY DEF Get
<1>4. TypeOK'
  BY <1>1, <1>2, <1>3 DEF TypeOK, Entries, Status, PromiseStates
<1>5. NoStrandedGetter'
  <2> SUFFICES ASSUME NEW q \in Promises, pstate'[q] = "open"
               PROVE  /\ keyOf'[q] \in Keys
                      /\ promises'[keyOf'[q]] = q
                      /\ data'[keyOf'[q]].functions = q
    BY DEF NoStrandedGetter
  <2>1. CASE q = p
    BY <1>1, <1>2, <2>1 DEF TypeOK
  <2>2. CASE q # p
    <3>1. pstate[q] = "open" /\ keyOf'[q] = keyOf[q]
      BY <1>1, <2>2 DEF TypeOK
    <3>2. keyOf[q] \in Keys /\ promises[keyOf[q]] = q /\ data[keyOf[q]].functions = q
      BY <3>1 DEF MapConsistent, NoStrandedGetter
    <3>3. keyOf[q] # k
      BY <1>2, <1>3, <3>2
    <3> QED BY <1>1, <3>1, <3>2, <3>3 DEF TypeOK
  <2> QED BY <2>1, <2>2
<1>6. (FunctionsAreOpen /\ OwnedHasData /\ GhostsAreInert /\ TimerIffSettled)'
  BY <1>1, <1>2, <1>3 DEF TypeOK, MapConsistent, FunctionsAreOpen, OwnedHasData,
     GhostsAreInert, TimerIffSettled, isPending, Entries, Status
<1> QED BY <1>4, <1>5, <1>6 DEF MapConsistent

\* settle() on a key nobody waits for puts a promise p of state ps there.
LEMMA PutInv ==
  ASSUME Inv, NEW k \in Keys, NEW p \in Fresh,
         NEW ps \in {"running", "rejected"}, NEW st \in {"Pending", "Rejected"},
         data[k].functions = None,
         promises' = [promises EXCEPT ![k] = p],
         pstate' = [pstate EXCEPT ![p] = ps],
         keyOf' = [keyOf EXCEPT ![p] = k],
         data' = [data EXCEPT ![k] = SettledEntry(k, st)],
         stale' = stale,
         value' \in [Promises -> {"value", "thenable"}]
  PROVE  Inv'
<1> USE MapAssumption DEF Inv, has, SettledEntry
<1>1. p \in Promises /\ p # None /\ pstate[p] # "open"
      /\ \A j \in Keys : promises[j] # p
  BY DEF Fresh, Settled
<1>2. TypeOK'
  BY <1>1 DEF TypeOK, Entries, Status, PromiseStates
<1>3. NoStrandedGetter'
  <2> SUFFICES ASSUME NEW q \in Promises, pstate'[q] = "open"
               PROVE  /\ keyOf'[q] \in Keys
                      /\ promises'[keyOf'[q]] = q
                      /\ data'[keyOf'[q]].functions = q
    BY DEF NoStrandedGetter
  <2>1. q # p
    BY <1>1 DEF TypeOK
  <2>2. pstate[q] = "open" /\ keyOf'[q] = keyOf[q]
    BY <1>1, <2>1 DEF TypeOK
  <2>3. keyOf[q] \in Keys /\ promises[keyOf[q]] = q /\ data[keyOf[q]].functions = q
    BY <2>2 DEF MapConsistent, NoStrandedGetter
  <2>4. keyOf[q] # k
    BY <2>3
  <2> QED BY <2>2, <2>3, <2>4 DEF TypeOK
<1>4. (FunctionsAreOpen /\ OwnedHasData /\ GhostsAreInert /\ TimerIffSettled)'
  BY <1>1 DEF TypeOK, MapConsistent, FunctionsAreOpen, OwnedHasData,
     GhostsAreInert, TimerIffSettled, isPending, Entries, Status
<1> QED BY <1>2, <1>3, <1>4 DEF MapConsistent

\* settle() on a key somebody waits for moves the waiting promise on.
LEMMA AnswerInv ==
  ASSUME Inv, NEW k \in Keys,
         NEW ps \in {"running", "rejected"}, NEW st \in {"Pending", "Rejected"},
         data[k].functions # None,
         pstate' = [pstate EXCEPT ![data[k].functions] = ps],
         data' = [data EXCEPT ![k] = SettledEntry(k, st)],
         UNCHANGED <<promises, keyOf, stale>>,
         value' \in [Promises -> {"value", "thenable"}]
  PROVE  Inv'
<1> USE MapAssumption DEF Inv, has, SettledEntry
<1>1. PICK p \in Promises :
        /\ p = data[k].functions /\ p # None
        /\ promises[k] = p /\ pstate[p] = "open" /\ keyOf[p] = k
  BY EntryFields DEF MapConsistent, FunctionsAreOpen
<1>2. /\ pstate'[p] = ps
      /\ \A q \in Promises \ {p} : pstate'[q] = pstate[q]
      /\ promises' = promises /\ keyOf' = keyOf /\ stale' = stale
  BY <1>1 DEF TypeOK
<1>3. TypeOK'
  BY <1>1 DEF TypeOK, Entries, Status, PromiseStates
<1>4. NoStrandedGetter'
  <2> SUFFICES ASSUME NEW q \in Promises, pstate'[q] = "open"
               PROVE  /\ keyOf[q] \in Keys
                      /\ promises[keyOf[q]] = q
                      /\ data'[keyOf[q]].functions = q
    BY <1>2 DEF NoStrandedGetter
  <2>1. q # p /\ pstate[q] = "open"
    BY <1>2
  <2>2. keyOf[q] \in Keys /\ promises[keyOf[q]] = q /\ data[keyOf[q]].functions = q
    BY <2>1 DEF MapConsistent, NoStrandedGetter
  <2>3. keyOf[q] # k
    BY <1>1, <2>1, <2>2
  <2> QED BY <2>2, <2>3 DEF TypeOK
<1>5. (FunctionsAreOpen /\ OwnedHasData /\ GhostsAreInert /\ TimerIffSettled)'
  <2>1. \A j \in Keys \ {k} : data'[j] = data[j] /\ promises[j] # p
    BY <1>1 DEF TypeOK, MapConsistent, OwnedHasData
  <2>2. data'[k] = SettledEntry(k, st) /\ data'[k] \in Entries
    BY DEF TypeOK, Entries, Status
  <2>3. FunctionsAreOpen'
    BY <1>2, <2>1, <2>2, EntryFields DEF MapConsistent, FunctionsAreOpen
  <2>4. OwnedHasData'
    BY <1>1, <1>2, <2>1, <2>2 DEF TypeOK, MapConsistent, OwnedHasData
  <2>5. (GhostsAreInert /\ TimerIffSettled)'
    BY <1>1, <1>2, <2>1, <2>2 DEF MapConsistent, GhostsAreInert, TimerIffSettled,
       isPending
  <2> QED BY <2>3, <2>4, <2>5
<1> QED BY <1>3, <1>4, <1>5 DEF MapConsistent

LEMMA ResolveInv ==
  ASSUME Inv, NEW k \in Keys, NEW v \in Values, Resolve(k, v) PROVE Inv'
<1>1. v \in {"value", "thenable"}
  BY MapAssumption
<1>2. CASE ResolveWaiting(k, v)
  <2>1. value' \in [Promises -> {"value", "thenable"}]
    BY <1>1, <1>2 DEF ResolveWaiting, Inv, TypeOK
  <2> QED BY <1>2, <2>1, AnswerInv DEF Resolve, ResolveWaiting
<1>3. CASE ResolveUnasked(k, v)
  <2>1. value' \in [Promises -> {"value", "thenable"}]
    BY <1>1, <1>3 DEF ResolveUnasked, Inv, TypeOK
  <2> QED BY <1>3, <2>1, PutInv DEF Resolve, ResolveUnasked
<1> QED BY <1>2, <1>3 DEF Resolve

LEMMA RejectInv == ASSUME Inv, NEW k \in Keys, Reject(k) PROVE Inv'
<1>1. value' \in [Promises -> {"value", "thenable"}]
  BY DEF Reject, Inv, TypeOK
<1>2. CASE RejectWaiting(k)
  BY <1>1, <1>2, AnswerInv DEF Reject, RejectWaiting
<1>3. CASE RejectUnasked(k)
  BY <1>1, <1>3, PutInv DEF Reject, RejectUnasked
<1> QED BY <1>2, <1>3 DEF Reject

LEMMA RejectAllInv == ASSUME Inv, RejectAll PROVE Inv'
<1> USE MapAssumption DEF Inv, RejectAll, RejectedByAll, ToReject, SettledEntry, has, isPending
<1>1. \A k \in Keys : data[k].functions # None =>
        /\ data[k].functions \in Promises
        /\ promises[k] = data[k].functions
        /\ pstate[promises[k]] = "open" /\ keyOf[promises[k]] = k
  BY EntryFields DEF MapConsistent, FunctionsAreOpen
<1>2. TypeOK'
  BY DEF TypeOK, Entries, Status, PromiseStates
<1>3. NoStrandedGetter'
  BY <1>1 DEF TypeOK, MapConsistent, NoStrandedGetter
<1>4. FunctionsAreOpen'
  BY <1>1 DEF TypeOK, MapConsistent, FunctionsAreOpen
<1>5. OwnedHasData'
  <2>1. \A k \in Keys : data'[k] \in Entries \/ data'[k] = data[k]
    BY DEF Entries, Status
  <2> QED BY <1>1, <2>1 DEF TypeOK, MapConsistent, OwnedHasData
<1>6. (GhostsAreInert /\ TimerIffSettled)'
  BY <1>1 DEF MapConsistent, GhostsAreInert, TimerIffSettled
<1> QED BY <1>2, <1>3, <1>4, <1>5, <1>6 DEF MapConsistent

LEMMA DoDeleteInv ==
  ASSUME Inv, NEW k \in Keys, DoDelete(k), stale' \in [Keys -> 0..MaxStale]
  PROVE  Inv'
<1> USE MapAssumption DEF Inv, DoDelete, WithoutPromise, WithoutData, has, isPending
<1>1. data[k].functions \in Promises \union {None}
  BY EntryFields
<1>2. TypeOK'
  BY DEF TypeOK, PromiseStates
<1>3. data'[k] = NoData /\ promises'[k] = None
      /\ \A j \in Keys \ {k} : data'[j] = data[j] /\ promises'[j] = promises[j]
  BY DEF TypeOK
<1>4. \A j \in Keys \ {k} : has(j) => promises[j] # data[k].functions
  BY DEF MapConsistent, OwnedHasData, FunctionsAreOpen
<1>5. NoStrandedGetter'
  <2> SUFFICES ASSUME NEW q \in Promises, pstate'[q] = "open"
               PROVE  /\ keyOf[q] \in Keys
                      /\ promises'[keyOf[q]] = q
                      /\ data'[keyOf[q]].functions = q
    BY DEF NoStrandedGetter
  <2>1. q # data[k].functions /\ pstate[q] = "open"
    OBVIOUS
  <2>2. keyOf[q] \in Keys /\ promises[keyOf[q]] = q /\ data[keyOf[q]].functions = q
    BY <2>1 DEF MapConsistent, NoStrandedGetter
  <2> QED BY <1>3, <2>1, <2>2
<1>6. FunctionsAreOpen'
  <2> SUFFICES ASSUME NEW j \in Keys, data'[j].functions # None
               PROVE  /\ promises'[j] = data'[j].functions
                      /\ pstate'[promises'[j]] = "open"
                      /\ keyOf[promises'[j]] = j
    BY DEF FunctionsAreOpen
  <2>1. j # k
    BY <1>3 DEF NoData
  <2>2. /\ promises[j] = data[j].functions /\ promises[j] \in Promises
        /\ pstate[promises[j]] = "open" /\ keyOf[promises[j]] = j
    BY <1>3, <2>1, EntryFields DEF MapConsistent, FunctionsAreOpen
  <2>3. promises[j] # data[k].functions
    BY <1>3, <1>4, <2>1, <2>2
  <2> QED BY <1>3, <2>1, <2>2, <2>3
<1>7. OwnedHasData'
  <2> SUFFICES ASSUME NEW j \in Keys, promises'[j] # None
               PROVE  /\ data'[j] \in Entries
                      /\ pstate'[promises'[j]] # "unborn"
                      /\ keyOf[promises'[j]] = j
    BY DEF OwnedHasData
  <2>1. j # k /\ promises[j] # None /\ promises[j] \in Promises
    BY <1>3 DEF TypeOK
  <2>2. /\ data[j] \in Entries /\ pstate[promises[j]] # "unborn"
        /\ keyOf[promises[j]] = j
    BY <2>1 DEF MapConsistent, OwnedHasData
  <2> QED BY <1>3, <2>1, <2>2
<1>8. (GhostsAreInert /\ TimerIffSettled)'
  BY <1>3 DEF MapConsistent, GhostsAreInert, TimerIffSettled, NoData
<1> QED BY <1>2, <1>5, <1>6, <1>7, <1>8 DEF MapConsistent

LEMMA ClearInv == ASSUME Inv, Clear PROVE Inv'
<1> USE MapAssumption DEF Inv, Clear, RejectedByClear, has, isPending
<1>1. TypeOK'
  <2>1. stale' \in [Keys -> 0..MaxStale]
    BY DEF TypeOK
  <2> QED BY <2>1 DEF TypeOK, PromiseStates
<1>2. MapConsistent'
  BY DEF TypeOK, MapConsistent, NoStrandedGetter, FunctionsAreOpen, OwnedHasData,
     GhostsAreInert, TimerIffSettled, NoData
<1> QED BY <1>1, <1>2

LEMMA TimerInv == ASSUME Inv, NEW k \in Keys, TimerFire(k) \/ StaleTimerFire(k) PROVE Inv'
<1>1. DoDelete(k)
  BY DEF TimerFire, StaleTimerFire
<1>2. stale' \in [Keys -> 0..MaxStale]
  BY MapAssumption DEF TimerFire, StaleTimerFire, Inv, TypeOK
<1> QED BY <1>1, <1>2, DoDeleteInv

\* A continuation settles a promise that nobody can settle otherwise, and
\* touches no more than the status of an entry.
LEMMA DoResolveInv == ASSUME Inv, NEW p \in Promises, DoResolve(p) PROVE Inv'
<1> USE MapAssumption DEF Inv, has, isPending
<1>1. PICK ps \in {"fulfilled", "rejected"}, st \in {"Fulfilled", "Rejected"} :
        /\ pstate[p] = "running"
        /\ pstate' = [pstate EXCEPT ![p] = ps]
        /\ data' = [data EXCEPT ![keyOf[p]] = WithStatus(@, st)]
        /\ UNCHANGED <<promises, stale, keyOf, value>>
  BY DEF DoResolve, DoResolveOk, DoResolveFail, SetStatus
<1>2. ASSUME NEW j \in Keys
      PROVE  /\ data'[j].functions = data[j].functions
             /\ data'[j].timer = data[j].timer
             /\ (data'[j].status = data[j].status \/ data'[j].status = st)
             /\ data'[j] \in Entries \union {NoData}
             /\ (data[j] \in Entries => data'[j] \in Entries)
  <2>1. data[j] \in Entries \/ data[j] = NoData
    BY DEF TypeOK
  <2>2. CASE keyOf[p] = j
    <3>1. data'[j] = WithStatus(data[j], st)
      BY <1>1, <2>2 DEF TypeOK
    <3>2. CASE data[j] \in Entries
      BY <3>1, <3>2 DEF Entries, Status, WithStatus
    <3>3. CASE data[j] = NoData
      BY <3>1, <3>3 DEF Entries, Status, NoData, WithStatus
    <3> QED BY <2>1, <3>2, <3>3
  <2>3. CASE keyOf[p] # j
    BY <1>1, <2>1, <2>3 DEF TypeOK
  <2> QED BY <2>2, <2>3
<1>3. \A q \in Promises : pstate'[q] = "open" <=> pstate[q] = "open"
  BY <1>1 DEF TypeOK
<1>4. TypeOK'
  <2>1. data' \in [Keys -> Entries \union {NoData}]
    BY <1>1, <1>2 DEF TypeOK
  <2> QED BY <1>1, <2>1 DEF TypeOK, PromiseStates
<1>5. NoStrandedGetter'
  BY <1>1, <1>2, <1>3 DEF MapConsistent, NoStrandedGetter
<1>6. FunctionsAreOpen'
  BY <1>1, <1>2, <1>3, EntryFields DEF MapConsistent, FunctionsAreOpen
<1>7. OwnedHasData'
  BY <1>1, <1>2 DEF TypeOK, MapConsistent, OwnedHasData
<1>8. (GhostsAreInert /\ TimerIffSettled)'
  BY <1>1, <1>2 DEF MapConsistent, GhostsAreInert, TimerIffSettled
<1> QED BY <1>4, <1>5, <1>6, <1>7, <1>8 DEF MapConsistent

-----------------------------------------------------------------------------
LEMMA NextInv == Inv /\ [Next]_vars => Inv'
<1> SUFFICES ASSUME Inv, [Next]_vars PROVE Inv'
  OBVIOUS
<1>1. ASSUME NEW k \in Keys, Get(k) \/ Reject(k) PROVE Inv'
  BY <1>1, GetInv, RejectInv
<1>2. ASSUME NEW k \in Keys, Delete(k) PROVE Inv'
  <2>1. stale' \in [Keys -> 0..MaxStale]
    BY <1>2 DEF Delete, Inv, TypeOK
  <2> QED BY <1>2, <2>1, DoDeleteInv DEF Delete
<1>3. ASSUME NEW k \in Keys, NEW v \in Values, Resolve(k, v) PROVE Inv'
  BY <1>3, ResolveInv
<1>4. CASE RejectAll \/ Clear
  BY <1>4, RejectAllInv, ClearInv
<1>5. CASE Timer
  BY <1>5, TimerInv DEF Timer
<1>6. ASSUME NEW p \in Promises, DoResolve(p) PROVE Inv'
  BY <1>6, DoResolveInv
<1>7. CASE UNCHANGED vars
  BY <1>7 DEF vars, mapVars, promiseVars, Inv, TypeOK, MapConsistent,
     NoStrandedGetter, FunctionsAreOpen, OwnedHasData, GhostsAreInert,
     TimerIffSettled, has, isPending
<1> QED BY <1>1, <1>2, <1>3, <1>4, <1>5, <1>6, <1>7 DEF Next

\* The map stays consistent under every mix of calls, timers and late
\* continuations.
THEOREM MapInvariant == Spec => []Inv
<1>1. Init => Inv
  BY InitInv
<1>2. Inv /\ [Next]_vars => Inv'
  BY NextInv
<1> QED BY <1>1, <1>2, PTL DEF Spec

\* A promise get() handed out is settled or can still be settled.
THEOREM MapNoStrandedGetter == Spec => []NoStrandedGetter
<1>1. Inv => NoStrandedGetter
  BY DEF Inv, MapConsistent
<1> QED BY <1>1, MapInvariant, PTL

\* A key has a timer exactly when it was settled and there is a timeout.
THEOREM MapTimerIffSettled == Spec => []TimerIffSettled
<1>1. Inv => TimerIffSettled
  BY DEF Inv, MapConsistent
<1> QED BY <1>1, MapInvariant, PTL

\* The fields keep their types, so that an entry is always a whole one.
THEOREM MapTypeOK == Spec => []TypeOK
<1>1. Inv => TypeOK
  BY DEF Inv
<1> QED BY <1>1, MapInvariant, PTL

\* Functions that are stored settle their own promise, which nothing has settled.
THEOREM MapFunctionsAreOpen == Spec => []FunctionsAreOpen
<1>1. Inv => FunctionsAreOpen
  BY DEF Inv, MapConsistent
<1> QED BY <1>1, MapInvariant, PTL

\* A key with a promise has its entry, and the promise was made for it.
THEOREM MapOwnedHasData == Spec => []OwnedHasData
<1>1. Inv => OwnedHasData
  BY DEF Inv, MapConsistent
<1> QED BY <1>1, MapInvariant, PTL

\* What a late setStatus() leaves at an absent key is in nobody's way.
THEOREM MapGhostsAreInert == Spec => []GhostsAreInert
<1>1. Inv => GhostsAreInert
  BY DEF Inv, MapConsistent
<1> QED BY <1>1, MapInvariant, PTL

-----------------------------------------------------------------------------
(* What a map promises to a client that restricts itself.  If it removes no *)
(* key by hand, and a timer cannot find a doResolve() running because only  *)
(* plain values are resolved or because there is no timeout, then the key   *)
(* of a running promise keeps its entry until the continuation writes to it.*)

NothingCutShort ==
  /\ "delete" \notin Uses /\ "clear" \notin Uses
  /\ Values \subseteq {"value"} \/ ~HasTimeout

Kept ==
  /\ \A k \in Keys : stale[k] = 0
  /\ \A p \in Promises : pstate[p] = "running" =>
       /\ keyOf[p] \in Keys
       /\ has(keyOf[p])
       /\ data[keyOf[p]].functions = None
       /\ value[p] \in Values
  /\ \A k \in Keys : data[k].functions # None => isPending(k)

\* An entry with a timer was settled: no functions are lost with it.
LEMMA TimedHasNoFunctions ==
  ASSUME Inv, NEW k \in Keys, data[k].timer
  PROVE  data[k].functions = None /\ HasTimeout /\ has(k)
BY DEF Inv, MapConsistent, TimerIffSettled, GhostsAreInert

\* When a timer fires, no continuation is outstanding.
LEMMA TimerFindsNoneRunning ==
  ASSUME NothingCutShort, Inv, Kept, NEW k \in Keys, TimerFire(k) \/ StaleTimerFire(k)
  PROVE  /\ TimerFire(k)
         /\ data[k].functions = None
         /\ \A p \in Promises : pstate[p] # "running"
<1>1. TimerFire(k)
  BY DEF Kept, StaleTimerFire
<1>2. data[k].functions = None /\ HasTimeout
  BY <1>1, TimedHasNoFunctions DEF TimerFire
<1>3. Values \subseteq {"value"}
  BY <1>2 DEF NothingCutShort
<1>4. \A p \in Promises : pstate[p] # "running"
  BY <1>1, <1>3 DEF Kept, TimerFire, NoMicrotask
<1> QED BY <1>1, <1>2, <1>4

LEMMA InitKept == Init => Kept
BY DEF Init, Kept, NoData

LEMMA GetKept ==
  ASSUME Inv, Kept, NEW k \in Keys, Get(k) PROVE Kept'
<1> USE DEF WaitingEntry, has, isPending
<1>1. PICK p \in Fresh :
        /\ promises' = [promises EXCEPT ![k] = p]
        /\ data' = [data EXCEPT ![k] = WaitingEntry(p)]
        /\ pstate' = [pstate EXCEPT ![p] = "open"]
        /\ keyOf' = [keyOf EXCEPT ![p] = k]
  BY DEF Get
<1>2. promises[k] = None /\ stale' = stale /\ value' = value
  BY DEF Get
<1>3. ASSUME NEW q \in Promises, pstate'[q] = "running"
      PROVE  /\ keyOf'[q] \in Keys /\ promises'[keyOf'[q]] # None
             /\ data'[keyOf'[q]].functions = None /\ value'[q] \in Values
  <2>1. q # p /\ pstate[q] = "running" /\ keyOf'[q] = keyOf[q]
    BY <1>1, <1>3 DEF Inv, TypeOK, Fresh
  <2>2. keyOf[q] \in Keys /\ keyOf[q] # k
    BY <1>2, <2>1 DEF Kept
  <2> QED BY <1>1, <1>2, <2>1, <2>2 DEF Kept, Inv, TypeOK
<1>4. \A j \in Keys : data'[j].functions # None => data'[j].status = "Pending"
  BY <1>1 DEF Inv, TypeOK, Kept
<1> QED BY <1>2, <1>3, <1>4 DEF Kept

\* resolve() and reject(): whichever promise q they concern, the key has it
\* and its entry is a settled one.
LEMMA SettleKept ==
  ASSUME Inv, Kept, NEW k \in Keys, NEW q \in Promises,
         NEW ps \in {"running", "rejected"}, NEW st \in Status,
         stale' = stale,
         data' = [data EXCEPT ![k] = SettledEntry(k, st)],
         promises' = [promises EXCEPT ![k] = q],
         pstate' = [pstate EXCEPT ![q] = ps],
         keyOf' = [keyOf EXCEPT ![q] = k],
         \A p \in Promises \ {q} : value'[p] = value[p],
         ps = "running" => value'[q] \in Values
  PROVE  Kept'
<1> USE DEF SettledEntry, has, isPending
<1>1. ASSUME NEW p \in Promises, pstate'[p] = "running"
      PROVE  /\ keyOf'[p] \in Keys /\ promises'[keyOf'[p]] # None
             /\ data'[keyOf'[p]].functions = None /\ value'[p] \in Values
  <2>1. CASE p = q
    BY <1>1, <2>1, MapAssumption DEF Inv, TypeOK
  <2>2. CASE p # q
    <3>1. pstate[p] = "running" /\ keyOf'[p] = keyOf[p] /\ value'[p] = value[p]
      BY <1>1, <2>2 DEF Inv, TypeOK
    <3>2. /\ keyOf[p] \in Keys /\ promises[keyOf[p]] # None
          /\ data[keyOf[p]].functions = None /\ value[p] \in Values
      BY <3>1 DEF Kept
    <3> QED BY <3>1, <3>2, MapAssumption DEF Inv, TypeOK
  <2> QED BY <2>1, <2>2
<1>2. \A j \in Keys : data'[j].functions # None => data'[j].status = "Pending"
  BY DEF Inv, TypeOK, Kept
<1> QED BY <1>1, <1>2 DEF Kept

\* Which promise that is.
LEMMA SettledPromise ==
  ASSUME Inv, NEW k \in Keys, data[k].functions # None
  PROVE  /\ data[k].functions \in Promises
         /\ promises = [promises EXCEPT ![k] = data[k].functions]
         /\ keyOf = [keyOf EXCEPT ![data[k].functions] = k]
<1>1. data[k].functions \in Promises \union {None}
  BY EntryFields DEF Inv
<1>2. promises[k] = data[k].functions /\ keyOf[data[k].functions] = k
  BY DEF Inv, MapConsistent, FunctionsAreOpen
<1> QED BY <1>1, <1>2 DEF Inv, TypeOK

LEMMA ResolveKept ==
  ASSUME Inv, Kept, NEW k \in Keys, NEW v \in Values, Resolve(k, v) PROVE Kept'
<1>1. PICK q \in Promises :
        /\ promises' = [promises EXCEPT ![k] = q]
        /\ pstate' = [pstate EXCEPT ![q] = "running"]
        /\ keyOf' = [keyOf EXCEPT ![q] = k]
        /\ value' = [value EXCEPT ![q] = v]
  <2>1. CASE ResolveWaiting(k, v)
    BY <2>1, SettledPromise DEF ResolveWaiting
  <2>2. CASE ResolveUnasked(k, v)
    BY <2>2 DEF ResolveUnasked, Fresh
  <2> QED BY <2>1, <2>2 DEF Resolve
<1>2. value'[q] = v /\ \A p \in Promises \ {q} : value'[p] = value[p]
  BY <1>1 DEF Inv, TypeOK
<1>3. data' = [data EXCEPT ![k] = SettledEntry(k, "Pending")] /\ stale' = stale
  BY DEF Resolve
<1>4. "Pending" \in Status
  BY DEF Status
<1> QED BY <1>1, <1>2, <1>3, <1>4, SettleKept

LEMMA RejectKept == ASSUME Inv, Kept, NEW k \in Keys, Reject(k) PROVE Kept'
<1>1. PICK q \in Promises :
        /\ promises' = [promises EXCEPT ![k] = q]
        /\ pstate' = [pstate EXCEPT ![q] = "rejected"]
        /\ keyOf' = [keyOf EXCEPT ![q] = k]
  <2>1. CASE RejectWaiting(k)
    BY <2>1, SettledPromise DEF RejectWaiting
  <2>2. CASE RejectUnasked(k)
    BY <2>2 DEF RejectUnasked, Fresh
  <2> QED BY <2>1, <2>2 DEF Reject
<1>2. /\ data' = [data EXCEPT ![k] = SettledEntry(k, "Rejected")]
      /\ stale' = stale /\ value' = value
  BY DEF Reject
<1>3. "Rejected" \in Status
  BY DEF Status
<1> QED BY <1>1, <1>2, <1>3, SettleKept

LEMMA RejectAllKept == ASSUME Inv, Kept, RejectAll PROVE Kept'
<1> USE DEF has, isPending
<1>1. /\ UNCHANGED <<promises, stale, keyOf, value>>
      /\ \A k \in Keys : data'[k].functions = None \/ data'[k] = data[k]
      /\ \A k \in Keys : data[k].functions = None => data'[k] = data[k]
  BY DEF RejectAll, ToReject, SettledEntry
<1>2. \A p \in Promises : pstate'[p] = "running" => pstate[p] = "running"
  BY DEF RejectAll
<1> QED BY <1>1, <1>2 DEF Kept

LEMMA TimerKept ==
  ASSUME NothingCutShort, Inv, Kept, NEW k \in Keys, TimerFire(k) \/ StaleTimerFire(k)
  PROVE  Kept'
<1> USE DEF has, isPending
<1>1. TimerFire(k) /\ \A p \in Promises : pstate[p] # "running"
  BY TimerFindsNoneRunning
<1>2. \A p \in Promises : pstate'[p] # "running"
  BY <1>1 DEF TimerFire, DoDelete
<1>3. /\ stale' = stale
      /\ \A j \in Keys : data'[j].functions # None => data'[j].status = "Pending"
  BY <1>1 DEF TimerFire, DoDelete, WithoutData, NoData, Inv, TypeOK, Kept
<1> QED BY <1>2, <1>3 DEF Kept

\* What the continuation of doResolve() changes.
LEMMA DoResolveEffect ==
  ASSUME Inv, Kept, NEW p \in Promises, DoResolve(p)
  PROVE  /\ pstate[p] = "running"
         /\ keyOf[p] \in Keys
         /\ UNCHANGED <<promises, stale, keyOf, value>>
         /\ \A q \in Promises \ {p} : pstate'[q] = pstate[q]
         /\ \A j \in Keys \ {keyOf[p]} : data'[j] = data[j]
         /\ data'[keyOf[p]].functions = None
         /\ \/ pstate'[p] = "fulfilled" /\ data'[keyOf[p]].status = "Fulfilled"
            \/ pstate'[p] = "rejected" /\ data'[keyOf[p]].status = "Rejected"
<1>1. pstate[p] = "running" /\ UNCHANGED <<promises, stale, keyOf, value>>
  BY DEF DoResolve, DoResolveOk, DoResolveFail
<1>2. keyOf[p] \in Keys /\ data[keyOf[p]].functions = None
  BY <1>1 DEF Kept
<1> QED
  BY <1>1, <1>2 DEF DoResolve, DoResolveOk, DoResolveFail, SetStatus, WithStatus,
     Inv, TypeOK

LEMMA DoResolveKept ==
  ASSUME Inv, Kept, NEW p \in Promises, DoResolve(p) PROVE Kept'
<1> USE DEF has, isPending
<1>1. /\ UNCHANGED <<promises, stale, keyOf, value>>
      /\ \A q \in Promises : pstate'[q] = "running" => pstate[q] = "running"
      /\ \A j \in Keys : data'[j].functions = None \/ data'[j] = data[j]
      /\ \A j \in Keys : data[j].functions = None => data'[j].functions = None
  BY DoResolveEffect
<1> QED BY <1>1 DEF Kept

LEMMA NextKept == NothingCutShort /\ Inv /\ Kept /\ [Next]_vars => Kept'
<1> SUFFICES ASSUME NothingCutShort, Inv, Kept, [Next]_vars PROVE Kept'
  OBVIOUS
<1>1. ASSUME NEW k \in Keys, Get(k) \/ Reject(k) PROVE Kept'
  BY <1>1, GetKept, RejectKept
<1>2. ASSUME NEW k \in Keys, Delete(k) PROVE Kept'
  BY <1>2 DEF Delete, NothingCutShort
<1>3. ASSUME NEW k \in Keys, NEW v \in Values, Resolve(k, v) PROVE Kept'
  BY <1>3, ResolveKept
<1>4. CASE RejectAll
  BY <1>4, RejectAllKept
<1>5. CASE Clear
  BY <1>5 DEF Clear, NothingCutShort
<1>6. CASE Timer
  BY <1>6, TimerKept DEF Timer
<1>7. ASSUME NEW p \in Promises, DoResolve(p) PROVE Kept'
  BY <1>7, DoResolveKept
<1>8. CASE UNCHANGED vars
  BY <1>8 DEF vars, mapVars, promiseVars, Kept, has, isPending
<1> QED BY <1>1, <1>2, <1>3, <1>4, <1>5, <1>6, <1>7, <1>8 DEF Next

LEMMA KeptInvariant == ASSUME NothingCutShort PROVE Spec => []Kept
<1>1. Init => Kept
  BY InitKept
<1>2. Inv /\ Kept /\ [Next]_vars => Kept'
  BY NextKept
<1> QED BY <1>1, <1>2, MapInvariant, PTL DEF Spec

\* rejectAll() leaves no getter behind: an entry that stores functions is
\* Pending, so rejectAll() finds it.
THEOREM MapRejectAllLeavesNone ==
  ASSUME NothingCutShort PROVE Spec => RejectAllLeavesNone
<1> DEFINE Found == RejectAll => \A p \in Promises : pstate'[p] # "open"
<1>1. ASSUME Inv, Kept, RejectAll, NEW p \in Promises PROVE pstate'[p] # "open"
  <2>1. pstate'[p] = IF RejectedByAll(p) THEN "rejected" ELSE pstate[p]
    BY <1>1 DEF RejectAll
  <2>2. CASE pstate[p] = "open"
    <3>1. keyOf[p] \in Keys /\ data[keyOf[p]].functions = p
      BY <1>1, <2>2 DEF Inv, MapConsistent, NoStrandedGetter
    <3>2. p # None
      BY MapAssumption
    <3>3. ToReject(keyOf[p])
      BY <1>1, <3>1, <3>2 DEF Kept, ToReject
    <3>4. RejectedByAll(p)
      BY <3>1, <3>3 DEF RejectedByAll
    <3> QED BY <2>1, <3>4
  <2>3. CASE pstate[p] # "open"
    BY <2>1, <2>3
  <2> QED BY <2>2, <2>3
<1>2. Inv /\ Kept /\ [Next]_vars => [Found]_vars
  BY <1>1
<1> QED BY <1>2, MapInvariant, KeptInvariant, PTL DEF Spec, RejectAllLeavesNone

\* A timer never rejects a promise somebody waits for, unless clear() left it
\* behind.
THEOREM MapTimerSparesGetters ==
  ASSUME "clear" \notin Uses PROVE Spec => TimerSparesGetters
<1> DEFINE NoneStale == \A k \in Keys : stale[k] = 0
           Sparing == Timer => \A p \in Promises : pstate[p] = "open" => pstate'[p] = "open"
<1>1. Init => NoneStale
  BY DEF Init
<1>2. Inv /\ NoneStale /\ [Next]_vars => NoneStale'
  <2> SUFFICES ASSUME NoneStale, [Next]_vars PROVE stale' = stale
    OBVIOUS
  <2>1. ~Clear /\ \A k \in Keys : ~StaleTimerFire(k)
    BY DEF Clear, StaleTimerFire
  <2>2. CASE Next
    BY <2>1, <2>2 DEF Next, Get, Reject, Delete, Resolve, RejectAll, Timer, TimerFire,
       DoResolve, DoResolveOk, DoResolveFail
  <2>3. CASE UNCHANGED vars
    BY <2>3 DEF vars, mapVars
  <2> QED BY <2>2, <2>3
<1>3. ASSUME Inv, NoneStale, Timer, NEW p \in Promises, pstate[p] = "open"
      PROVE  pstate'[p] = "open"
  <2>1. PICK k \in Keys : TimerFire(k)
    BY <1>3 DEF Timer, StaleTimerFire
  <2>2. data[k].functions = None
    BY <1>3, <2>1, TimedHasNoFunctions DEF TimerFire
  <2>3. p # None
    BY MapAssumption
  <2> QED BY <1>3, <2>1, <2>2, <2>3 DEF TimerFire, DoDelete
<1>4. Inv /\ NoneStale /\ [Next]_vars => [Sparing]_vars
  BY <1>3
<1> QED BY <1>1, <1>2, <1>4, MapInvariant, PTL DEF Spec, TimerSparesGetters

-----------------------------------------------------------------------------
(* If moreover a key is never settled a second time while its promise is    *)
(* in the map, the status of an entry is the state of its promise.          *)

SettledOnce ==
  /\ NothingCutShort
  /\ "pending" \notin Uses /\ "settled" \notin Uses

Current == \A p \in Promises : pstate[p] = "running" => promises[keyOf[p]] = p

LEMMA InitExact == Init => StatusExact /\ Current
BY DEF Init, StatusExact, Current, has, isPending, isFulfilled, isRejected, NoData

\* A call gives the key k the promise q in the state ps and its entry the
\* status st that goes with it, and leaves everything else alone.
LEMMA KeyExact ==
  ASSUME Inv, Kept, StatusExact, Current,
         NEW k \in Keys, NEW q \in Promises, NEW e, NEW ps,
         \/ ps \in {"open", "running"} /\ e.status = "Pending"
         \/ ps = "rejected" /\ e.status = "Rejected",
         (~has(k) /\ q \in Fresh) \/ (promises[k] = q /\ pstate[q] = "open"),
         promises' = [promises EXCEPT ![k] = q],
         data' = [data EXCEPT ![k] = e],
         pstate' = [pstate EXCEPT ![q] = ps],
         keyOf' = [keyOf EXCEPT ![q] = k]
  PROVE  StatusExact' /\ Current'
<1> USE DEF has, isPending, isFulfilled, isRejected
<1>1. promises'[k] = q /\ pstate'[q] = ps /\ keyOf'[q] = k /\ data'[k] = e /\ q # None
  BY MapAssumption DEF Inv, TypeOK
<1>2. \A j \in Keys \ {k} : promises'[j] = promises[j] /\ data'[j] = data[j]
  BY DEF Inv, TypeOK
<1>3. \A p \in Promises \ {q} : pstate'[p] = pstate[p] /\ keyOf'[p] = keyOf[p]
  BY DEF Inv, TypeOK
<1>4. \A j \in Keys \ {k} : promises[j] # q
  BY MapAssumption DEF Fresh, Inv, MapConsistent, OwnedHasData
<1>5. StatusExact'
  <2> SUFFICES ASSUME NEW j \in Keys
               PROVE  /\ data'[j].status = "Pending"
                           <=> promises'[j] # None /\ pstate'[promises'[j]] \in {"open", "running"}
                      /\ data'[j].status = "Fulfilled"
                           <=> promises'[j] # None /\ pstate'[promises'[j]] = "fulfilled"
                      /\ data'[j].status = "Rejected"
                           <=> promises'[j] # None /\ pstate'[promises'[j]] = "rejected"
    BY DEF StatusExact
  <2>1. CASE j = k
    BY <1>1, <2>1
  <2>2. CASE j # k
    <3>1. promises[j] = None \/ promises[j] \in Promises \ {q}
      BY <1>4, <2>2 DEF Inv, TypeOK
    <3>2. CASE promises[j] = None
      BY <1>2, <2>2, <3>2 DEF StatusExact
    <3>3. CASE promises[j] \in Promises \ {q}
      BY <1>2, <1>3, <2>2, <3>3 DEF StatusExact
    <3> QED BY <3>1, <3>2, <3>3
  <2> QED BY <2>1, <2>2
<1>6. Current'
  <2> SUFFICES ASSUME NEW p \in Promises, pstate'[p] = "running"
               PROVE  promises'[keyOf'[p]] = p
    BY DEF Current
  <2>1. CASE p = q
    BY <1>1, <2>1
  <2>2. CASE p # q
    <3>1. pstate[p] = "running" /\ keyOf'[p] = keyOf[p]
      BY <1>3, <2>2
    <3>2. keyOf[p] \in Keys /\ promises[keyOf[p]] = p /\ promises[keyOf[p]] # None
      BY <3>1 DEF Kept, Current
    <3>3. keyOf[p] # k
      BY <2>2, <3>1, <3>2
    <3> QED BY <1>2, <3>1, <3>2, <3>3
  <2> QED BY <2>1, <2>2
<1> QED BY <1>5, <1>6

\* What a call that settles k may find there.
LEMMA SettlesOnce ==
  ASSUME SettledOnce, Inv, NEW k \in Keys, MaySettle(k)
  PROVE  ~has(k) \/ data[k].functions # None
BY DEF MaySettle, SettledOnce

LEMMA CallExact ==
  ASSUME SettledOnce, Inv, Kept, StatusExact, Current, NEW k \in Keys,
         Get(k) \/ Reject(k) \/ (\E v \in Values : Resolve(k, v))
  PROVE  StatusExact' /\ Current'
<1> USE DEF WaitingEntry, SettledEntry
<1>1. CASE Get(k)
  <2>1. PICK p \in Fresh :
          /\ promises' = [promises EXCEPT ![k] = p]
          /\ data' = [data EXCEPT ![k] = WaitingEntry(p)]
          /\ pstate' = [pstate EXCEPT ![p] = "open"]
          /\ keyOf' = [keyOf EXCEPT ![p] = k]
    BY <1>1 DEF Get
  <2>2. ~has(k) /\ p \in Promises
    BY <1>1 DEF Get, Fresh
  <2>3. WaitingEntry(p).status = "Pending"
    OBVIOUS
  <2> HIDE DEF WaitingEntry
  <2> QED BY <2>1, <2>2, <2>3, KeyExact
<1>2. CASE Reject(k)
  <2>1. PICK q \in Promises :
          /\ promises' = [promises EXCEPT ![k] = q]
          /\ pstate' = [pstate EXCEPT ![q] = "rejected"]
          /\ keyOf' = [keyOf EXCEPT ![q] = k]
          /\ (~has(k) /\ q \in Fresh) \/ (promises[k] = q /\ pstate[q] = "open")
    <3>1. CASE RejectWaiting(k)
      <4>1. /\ promises[k] = data[k].functions
            /\ pstate[data[k].functions] = "open"
            /\ data[k].functions # None
        BY <3>1 DEF RejectWaiting, Inv, MapConsistent, FunctionsAreOpen
      <4> QED BY <3>1, <4>1, SettledPromise DEF RejectWaiting
    <3>2. CASE RejectUnasked(k)
      <4>1. ~has(k)
        BY <1>2, <3>2, SettlesOnce DEF Reject, RejectUnasked
      <4> QED BY <3>2, <4>1 DEF RejectUnasked, Fresh
    <3> QED BY <1>2, <3>1, <3>2 DEF Reject
  <2>2. /\ data' = [data EXCEPT ![k] = SettledEntry(k, "Rejected")]
        /\ SettledEntry(k, "Rejected").status = "Rejected"
    BY <1>2 DEF Reject
  <2> HIDE DEF SettledEntry
  <2> QED BY <2>1, <2>2, KeyExact
<1>3. ASSUME NEW v \in Values, Resolve(k, v) PROVE StatusExact' /\ Current'
  <2>1. PICK q \in Promises :
          /\ promises' = [promises EXCEPT ![k] = q]
          /\ pstate' = [pstate EXCEPT ![q] = "running"]
          /\ keyOf' = [keyOf EXCEPT ![q] = k]
          /\ (~has(k) /\ q \in Fresh) \/ (promises[k] = q /\ pstate[q] = "open")
    <3>1. CASE ResolveWaiting(k, v)
      <4>1. /\ promises[k] = data[k].functions
            /\ pstate[data[k].functions] = "open"
            /\ data[k].functions # None
        BY <3>1 DEF ResolveWaiting, Inv, MapConsistent, FunctionsAreOpen
      <4> QED BY <3>1, <4>1, SettledPromise DEF ResolveWaiting
    <3>2. CASE ResolveUnasked(k, v)
      <4>1. ~has(k)
        BY <1>3, <3>2, SettlesOnce DEF Resolve, ResolveUnasked
      <4> QED BY <3>2, <4>1 DEF ResolveUnasked, Fresh
    <3> QED BY <1>3, <3>1, <3>2 DEF Resolve
  <2>2. /\ data' = [data EXCEPT ![k] = SettledEntry(k, "Pending")]
        /\ SettledEntry(k, "Pending").status = "Pending"
    BY <1>3 DEF Resolve
  <2> HIDE DEF SettledEntry
  <2> QED BY <2>1, <2>2, KeyExact
<1> QED BY <1>1, <1>2, <1>3

LEMMA RejectAllExact ==
  ASSUME Inv, Kept, StatusExact, Current, RejectAll PROVE StatusExact' /\ Current'
<1> USE DEF has, isPending, isFulfilled, isRejected
<1>1. UNCHANGED <<promises, keyOf>>
  BY DEF RejectAll
<1>2. \A j \in Keys : data[j].functions # None =>
        /\ promises[j] = data[j].functions /\ promises[j] \in Promises
        /\ keyOf[promises[j]] = j
  BY EntryFields DEF Inv, MapConsistent, FunctionsAreOpen
<1>3. \A p \in Promises : pstate'[p] = IF RejectedByAll(p) THEN "rejected" ELSE pstate[p]
  BY DEF RejectAll
<1>4. Current'
  BY <1>1, <1>3 DEF Current
<1>5. StatusExact'
  <2> SUFFICES ASSUME NEW j \in Keys
               PROVE  /\ data'[j].status = "Pending"
                           <=> promises[j] # None /\ pstate'[promises[j]] \in {"open", "running"}
                      /\ data'[j].status = "Fulfilled"
                           <=> promises[j] # None /\ pstate'[promises[j]] = "fulfilled"
                      /\ data'[j].status = "Rejected"
                           <=> promises[j] # None /\ pstate'[promises[j]] = "rejected"
    BY <1>1 DEF StatusExact
  <2>1. CASE ToReject(j)
    <3>1. RejectedByAll(promises[j]) /\ promises[j] \in Promises /\ promises[j] # None
      BY <1>2, <2>1, MapAssumption DEF RejectedByAll, ToReject
    <3>2. data'[j].status = "Rejected"
      BY <2>1 DEF RejectAll, SettledEntry
    <3> QED BY <1>3, <3>1, <3>2
  <2>2. CASE ~ToReject(j)
    <3>1. data'[j] = data[j]
      BY <2>2 DEF RejectAll
    <3>2. CASE promises[j] = None
      BY <3>1, <3>2 DEF StatusExact
    <3>3. CASE promises[j] # None
      <4>1. promises[j] \in Promises /\ keyOf[promises[j]] = j
        BY <3>3 DEF Inv, TypeOK, MapConsistent, OwnedHasData
      <4>2. ~RejectedByAll(promises[j])
        BY <1>2, <2>2, <4>1 DEF RejectedByAll, ToReject
      <4> QED BY <1>3, <3>1, <4>1, <4>2 DEF StatusExact
    <3> QED BY <3>2, <3>3
  <2> QED BY <2>1, <2>2
<1> QED BY <1>4, <1>5

LEMMA TimerExact ==
  ASSUME NothingCutShort, Inv, Kept, StatusExact, Current,
         NEW k \in Keys, TimerFire(k) \/ StaleTimerFire(k)
  PROVE  StatusExact' /\ Current'
<1> USE DEF has, isPending, isFulfilled, isRejected
<1>1. /\ TimerFire(k) /\ data[k].functions = None
      /\ \A p \in Promises : pstate[p] # "running"
  BY TimerFindsNoneRunning
<1>2. \A p \in Promises : pstate'[p] = pstate[p]
  BY <1>1, MapAssumption DEF TimerFire, DoDelete
<1>3. /\ promises'[k] = None /\ data'[k] = NoData
      /\ \A j \in Keys \ {k} : promises'[j] = promises[j] /\ data'[j] = data[j]
  BY <1>1 DEF TimerFire, DoDelete, WithoutPromise, WithoutData, Inv, TypeOK
<1>4. StatusExact'
  <2> SUFFICES ASSUME NEW j \in Keys
               PROVE  /\ data'[j].status = "Pending"
                           <=> promises'[j] # None /\ pstate'[promises'[j]] \in {"open", "running"}
                      /\ data'[j].status = "Fulfilled"
                           <=> promises'[j] # None /\ pstate'[promises'[j]] = "fulfilled"
                      /\ data'[j].status = "Rejected"
                           <=> promises'[j] # None /\ pstate'[promises'[j]] = "rejected"
    BY DEF StatusExact
  <2>1. CASE j = k
    BY <1>3, <2>1 DEF NoData
  <2>2. CASE j # k
    <3>1. promises[j] = None \/ promises[j] \in Promises
      BY DEF Inv, TypeOK
    <3> QED BY <1>2, <1>3, <2>2, <3>1 DEF StatusExact
  <2> QED BY <2>1, <2>2
<1> QED BY <1>1, <1>2, <1>4 DEF Current

LEMMA DoResolveExact ==
  ASSUME Inv, Kept, StatusExact, Current, NEW p \in Promises, DoResolve(p)
  PROVE  StatusExact' /\ Current'
<1> USE DEF has, isPending, isFulfilled, isRejected
<1> DEFINE k == keyOf[p]
<1>1. /\ pstate[p] = "running" /\ k \in Keys
      /\ UNCHANGED <<promises, stale, keyOf, value>>
      /\ \A q \in Promises \ {p} : pstate'[q] = pstate[q]
      /\ \A j \in Keys \ {k} : data'[j] = data[j]
      /\ \/ pstate'[p] = "fulfilled" /\ data'[k].status = "Fulfilled"
         \/ pstate'[p] = "rejected" /\ data'[k].status = "Rejected"
  BY DoResolveEffect
<1>2. promises[k] = p /\ p # None
  BY <1>1, MapAssumption DEF Current
<1>3. StatusExact'
  <2> SUFFICES ASSUME NEW j \in Keys
               PROVE  /\ data'[j].status = "Pending"
                           <=> promises[j] # None /\ pstate'[promises[j]] \in {"open", "running"}
                      /\ data'[j].status = "Fulfilled"
                           <=> promises[j] # None /\ pstate'[promises[j]] = "fulfilled"
                      /\ data'[j].status = "Rejected"
                           <=> promises[j] # None /\ pstate'[promises[j]] = "rejected"
    BY <1>1 DEF StatusExact
  <2>1. CASE j = k
    BY <1>1, <1>2, <2>1
  <2>2. CASE j # k
    <3>1. promises[j] = None \/ promises[j] \in Promises \ {p}
      BY <1>2, <2>2 DEF Inv, TypeOK, MapConsistent, OwnedHasData
    <3> QED BY <1>1, <2>2, <3>1 DEF StatusExact
  <2> QED BY <2>1, <2>2
<1>4. Current'
  BY <1>1 DEF Current
<1> QED BY <1>3, <1>4

LEMMA NextExact ==
  SettledOnce /\ Inv /\ Kept /\ StatusExact /\ Current /\ [Next]_vars
    => (StatusExact /\ Current)'
<1> SUFFICES ASSUME SettledOnce, Inv, Kept, StatusExact, Current, [Next]_vars
             PROVE  StatusExact' /\ Current'
  OBVIOUS
<1>1. NothingCutShort
  BY DEF SettledOnce
<1>2. ASSUME NEW k \in Keys, Get(k) \/ Reject(k) \/ (\E v \in Values : Resolve(k, v))
      PROVE  StatusExact' /\ Current'
  BY <1>2, CallExact
<1>3. ~Clear /\ \A k \in Keys : ~Delete(k)
  BY <1>1 DEF Clear, Delete, NothingCutShort
<1>4. CASE RejectAll
  BY <1>4, RejectAllExact
<1>5. CASE Timer
  BY <1>1, <1>5, TimerExact DEF Timer
<1>6. ASSUME NEW p \in Promises, DoResolve(p) PROVE StatusExact' /\ Current'
  BY <1>6, DoResolveExact
<1>7. CASE UNCHANGED vars
  BY <1>7 DEF vars, mapVars, promiseVars, StatusExact, Current, has, isPending,
     isFulfilled, isRejected
<1> QED BY <1>2, <1>3, <1>4, <1>5, <1>6, <1>7 DEF Next

\* isPending(), isFulfilled() and isRejected() tell the state of the promise
\* of the key.
THEOREM MapStatusExact == ASSUME SettledOnce PROVE Spec => []StatusExact
<1>1. NothingCutShort
  BY DEF SettledOnce
<1>2. Spec => []Kept
  BY <1>1, KeptInvariant
<1>3. Init => StatusExact /\ Current
  BY InitExact
<1>4. Inv /\ Kept /\ StatusExact /\ Current /\ [Next]_vars => (StatusExact /\ Current)'
  BY NextExact
<1> QED BY <1>2, <1>3, <1>4, MapInvariant, PTL DEF Spec

=============================================================================

---------------------------- MODULE ClientProofs -----------------------------
(***************************************************************************)
(* Proofs about Client: that its fields keep their types, that end() waits *)
(* for the publications at work, and that workers can read whatever gets   *)
(* to a server, for any number of clients, tasks, calls and channels.      *)
(*                                                                         *)
(* AmqpBroker uses its pool through get(), return() and destroyAll() only, *)
(* so the invariant proved of the pool in ResourcePoolProofs is one of the *)
(* client too.                                                             *)
(***************************************************************************)
EXTENDS Client, SequenceSets

Proved == INSTANCE ResourcePoolProofs WITH
  Callers <- Calls, Closers <- {"end"}, Resources <- Chans,
  MaxResources <- 2, CreateMayFail <- TRUE

-----------------------------------------------------------------------------
(* AmqpBroker                                                              *)

AtWork == {"asserting", "draining", "sent"}
Joining == {"creating", "waiting", "granted"}

\* A publication waits for the pool, or has its channel, or has given it back.
PublicationsOwn ==
  \A a \in Calls :
    /\ publication[a] = "connecting" <=> call[a] \in Joining
    /\ publication[a] \in AtWork <=> call[a] = "holding"

\* What has been written to the connection, at each stage of the loop.
Copied ==
  \A a \in Calls :
    /\ publication[a] \in {"idle", "connecting", "asserting"} => copies[a] = 0
    /\ publication[a] = "draining" => copies[a] < MaxSends
    /\ publication[a] \in {"draining", "sent", "done"} => copies[a] > 0

\* end() goes by the stages of destroyAll().
EndStages ==
  /\ closing = "open" <=> destroying["end"] = "idle"
  /\ closing = "closed" => destroying["end"] = "done"
  /\ closing = "open" => spared = {}

\* As long as a publication that end() found at work has its channel,
\* destroyAll() waits.
SparedWork ==
  \A a \in spared :
    \/ publication[a] \in AtWork /\ destroying["end"] = "awaitEmpty"
    \/ publication[a] = "done"

AmqpTypes ==
  /\ publication \in [Calls -> {"idle", "connecting", "asserting", "draining", "sent",
                                "done", "cut"}]
  /\ copies \in [Calls -> 0..MaxSends]
  /\ closing \in {"open", "closing", "closed"}
  /\ spared \subseteq Calls

AmqpInv ==
  /\ Proved!Inv
  /\ AmqpTypes /\ PublicationsOwn /\ Copied /\ EndStages /\ SparedWork

-----------------------------------------------------------------------------
(* The pool is used as it is meant to be                                   *)

LEMMA PoolFits == Proved!PoolAssumption
<1>1. Proved!IsFiniteSet(Calls) /\ Proved!IsFiniteSet(Chans)
  BY ClientAssumption DEF IsFiniteSet, Proved!IsFiniteSet
<1>2. Proved!Cardinality(Chans) = Cardinality(Chans)
  BY DEF Cardinality, Proved!Cardinality, IsFiniteSet, Proved!IsFiniteSet
<1>3. Cardinality(Chans) \in Nat
  BY ClientAssumption, FS_CardinalityType
<1> QED BY <1>1, <1>2, <1>3, ClientAssumption DEF Proved!PoolAssumption

PoolUnchanged == UNCHANGED <<unused, inUse, resourceCount, waiting, call, got, destroying,
                             created, destroyed>>

\* The steps of the pool the broker takes are steps of the pool proved about.
LEMMA PoolGets ==
  ASSUME NEW a \in Calls, Amqp!Pool!Get(a) PROVE Proved!Get(a)
BY DEF Amqp!Pool!Get, Amqp!Pool!GetUnused, Amqp!Pool!GetCreate, Amqp!Pool!GetWait,
   Amqp!Pool!MayCreate, Amqp!Pool!Counted, Amqp!Pool!PushBack, Amqp!Pool!poolVars,
   Amqp!Pool!callVars, Amqp!Pool!worldVars,
   Proved!Get, Proved!GetUnused, Proved!GetCreate, Proved!GetWait, Proved!MayCreate,
   Proved!Counted, Proved!PushBack, Proved!poolVars, Proved!callVars, Proved!worldVars

LEMMA PoolServes ==
  ASSUME NEW a \in Calls
  PROVE  /\ Amqp!Pool!CreateOk(a) => Proved!CreateOk(a)
         /\ Amqp!Pool!CreateFail(a) => Proved!CreateFail(a)
         /\ Amqp!Pool!Acquire(a) => Proved!Acquire(a)
BY DEF Amqp!Pool!CreateOk, Amqp!Pool!CreateFail, Amqp!Pool!Acquire, Amqp!Pool!poolVars,
   Amqp!Pool!callVars, Amqp!Pool!worldVars, Proved!CreateOk, Proved!CreateFail,
   Proved!Acquire, Proved!poolVars, Proved!callVars, Proved!worldVars

LEMMA PoolReturns ==
  ASSUME NEW a \in Calls, Amqp!Pool!Return(a) PROVE Proved!Return(a)
BY DEF Amqp!Pool!Return, Amqp!Pool!ReturnToWaiter, Amqp!Pool!ReturnToUnused,
   Amqp!Pool!SomeoneWaits, Amqp!Pool!ShiftWaiting, Amqp!Pool!NotifyIfEmpty,
   Amqp!Pool!PushUnused, Amqp!Pool!poolVars, Amqp!Pool!callVars, Amqp!Pool!worldVars,
   Proved!Return, Proved!ReturnToWaiter, Proved!ReturnToUnused, Proved!SomeoneWaits,
   Proved!ShiftWaiting, Proved!NotifyIfEmpty, Proved!PushUnused, Proved!poolVars,
   Proved!callVars, Proved!worldVars

LEMMA PoolEnds ==
  /\ Amqp!Pool!DestroyNow("end") => Proved!DestroyNow("end")
  /\ Amqp!Pool!DestroyLater("end") => Proved!DestroyLater("end")
  /\ Amqp!Pool!DestroyResume("end") => Proved!DestroyResume("end")
BY DEF Amqp!Pool!DestroyNow, Amqp!Pool!DestroyLater, Amqp!Pool!DestroyResume,
   Amqp!Pool!Collect, Amqp!Pool!ForgetUnused, Amqp!Pool!ToSet, Amqp!Pool!poolVars,
   Amqp!Pool!callVars, Amqp!Pool!worldVars,
   Proved!DestroyNow, Proved!DestroyLater, Proved!DestroyResume, Proved!Collect,
   Proved!ForgetUnused, Proved!ToSet, Proved!poolVars, Proved!callVars, Proved!worldVars

LEMMA PoolKept == ASSUME PoolUnchanged PROVE UNCHANGED Proved!vars
BY DEF PoolUnchanged, Proved!vars, Proved!poolVars, Proved!callVars, Proved!worldVars

\* Every step of the pool keeps its invariant.
LEMMA PoolStep ==
  ASSUME Proved!Inv,
         \/ PoolUnchanged
         \/ \E a \in Calls :
              \/ Proved!Get(a) \/ Proved!CreateOk(a) \/ Proved!CreateFail(a)
              \/ Proved!Acquire(a) \/ Proved!Return(a)
         \/ Proved!DestroyNow("end") \/ Proved!DestroyLater("end")
         \/ Proved!DestroyResume("end")
  PROVE  Proved!Inv'
<1>1. Proved!Next \/ UNCHANGED Proved!vars
  BY PoolKept DEF Proved!Next, Proved!Serve, Proved!Destroy
<1> QED BY <1>1, PoolFits, Proved!NextInv

\* What the steps of the pool do to the calls and to destroyAll().
Others(a) == \A b \in Calls \ {a} : call'[b] = call[b]

LEMMA GetMoves ==
  ASSUME Proved!Inv, NEW a \in Calls, Proved!Get(a)
  PROVE  /\ call[a] = "idle" /\ call'[a] \in Joining /\ Others(a)
         /\ destroying' = destroying
BY DEF Proved!Inv, Proved!TypeOK, Proved!Get, Proved!GetUnused, Proved!GetCreate,
   Proved!GetWait, Joining, Others

LEMMA ServeMoves ==
  ASSUME Proved!Inv, NEW a \in Calls
  PROVE  /\ Proved!CreateOk(a) =>
              call[a] \in Joining /\ call'[a] \in Joining /\ Others(a) /\ destroying' = destroying
         /\ Proved!CreateFail(a) =>
              call[a] \in Joining /\ call'[a] = "idle" /\ Others(a) /\ destroying' = destroying
         /\ Proved!Acquire(a) =>
              call[a] \in Joining /\ call'[a] = "holding" /\ Others(a) /\ destroying' = destroying
BY DEF Proved!Inv, Proved!TypeOK, Proved!CreateOk, Proved!CreateFail, Proved!Acquire,
   Proved!poolVars, Proved!callVars, Proved!worldVars, Joining, Others

\* A call that holds a channel keeps inUse from being empty.
LEMMA HoldersKeepInUse ==
  ASSUME Proved!Inv, NEW a \in Calls, call[a] = "holding"
  PROVE  /\ got[a] \in inUse
         /\ \A b \in Calls \ {a} : call[b] = "holding" => got[b] # got[a]
BY DEF Proved!Inv, Proved!Custody, Proved!InUseExact, Proved!UniqueOwner, Proved!Owners

LEMMA ReturnMoves ==
  ASSUME Proved!Inv, NEW a \in Calls, Proved!Return(a)
  PROVE  /\ call[a] = "holding" /\ call'[a] = "idle"
         /\ \A b \in Calls \ {a} :
              \/ call'[b] = call[b]
              \/ call[b] = "waiting" /\ call'[b] = "granted"
         /\ \/ destroying'["end"] = destroying["end"]
            \/ /\ destroying["end"] = "awaitEmpty" /\ destroying'["end"] = "notified"
               /\ \A b \in Calls \ {a} : call[b] # "holding"
<1>1. call \in [Calls -> Proved!CallStates]
  BY DEF Proved!Inv, Proved!TypeOK
<1>2. CASE Proved!ReturnToWaiter(a)
  <2>1. PICK w \in Calls : w = Head(waiting) /\ call[w] = "waiting"
    <3>1. /\ waiting \in Seq(Calls) /\ waiting # <<>>
          /\ Proved!ToSet(waiting) = {b \in Calls : call[b] = "waiting"}
      BY <1>2 DEF Proved!Inv, Proved!TypeOK, Proved!QueueExact, Proved!ReturnToWaiter,
         Proved!SomeoneWaits
    <3>2. Head(waiting) = waiting[1] /\ 1 \in DOMAIN waiting
      BY <3>1
    <3>3. Head(waiting) \in Proved!ToSet(waiting)
      BY <3>2 DEF Proved!ToSet
    <3> QED BY <3>1, <3>3
  <2>2. /\ call[a] = "holding" /\ destroying' = destroying
        /\ call' = [call EXCEPT ![a] = "idle", ![w] = "granted"]
    BY <1>2, <2>1 DEF Proved!ReturnToWaiter
  <2> QED BY <1>1, <2>1, <2>2
<1>3. CASE Proved!ReturnToUnused(a)
  <2>1. /\ call[a] = "holding" /\ call' = [call EXCEPT ![a] = "idle"]
        /\ destroying' = Proved!NotifyIfEmpty(inUse \ {got[a]})
    BY <1>3 DEF Proved!ReturnToUnused
  <2>2. ASSUME inUse \ {got[a]} = {}, NEW b \in Calls \ {a} PROVE call[b] # "holding"
    <3>1. b \in Calls /\ a \in Calls \ {b}
      OBVIOUS
    <3>2. CASE call[b] = "holding"
      <4>1. got[b] \in inUse /\ got[a] # got[b]
        BY <2>1, <3>1, <3>2, HoldersKeepInUse
      <4> QED BY <2>2, <4>1
    <3> QED BY <3>2
  <2>3. \/ destroying'["end"] = destroying["end"]
        \/ /\ destroying["end"] = "awaitEmpty" /\ destroying'["end"] = "notified"
           /\ inUse \ {got[a]} = {}
    BY <2>1 DEF Proved!NotifyIfEmpty
  <2> QED BY <1>1, <2>1, <2>2, <2>3
<1> QED BY <1>2, <1>3 DEF Proved!Return

LEMMA EndMoves ==
  ASSUME Proved!Inv
  PROVE  /\ Proved!DestroyNow("end") =>
              /\ destroying["end"] = "idle" /\ destroying'["end"] = "done" /\ call' = call
              /\ \A b \in Calls : call[b] # "holding"
         /\ Proved!DestroyLater("end") =>
              destroying["end"] = "idle" /\ destroying'["end"] = "awaitEmpty" /\ call' = call
         /\ Proved!DestroyResume("end") =>
              destroying["end"] = "notified" /\ destroying'["end"] = "done" /\ call' = call
<1>1. destroying \in [{"end"} -> Proved!CloserStates]
  BY DEF Proved!Inv, Proved!TypeOK
<1>2. inUse = {} => \A b \in Calls : call[b] # "holding"
  BY HoldersKeepInUse
<1> QED BY <1>1, <1>2 DEF Proved!DestroyNow, Proved!DestroyLater, Proved!DestroyResume,
   Proved!Collect, Proved!poolVars, Proved!callVars, Proved!worldVars

-----------------------------------------------------------------------------
(* One lemma per operation of the broker                                   *)

LEMMA AmqpInit == Amqp!Init => AmqpInv
<1> SUFFICES ASSUME Amqp!Init PROVE AmqpInv
  OBVIOUS
<1>1. Proved!Init
  BY DEF Amqp!Init, Amqp!Pool!Init, Proved!Init
<1>2. Proved!Inv
  BY <1>1, PoolFits, Proved!InitInv
<1>3. /\ publication = [a \in Calls |-> "idle"] /\ copies = [a \in Calls |-> 0]
      /\ closing = "open" /\ spared = {}
      /\ call = [a \in Calls |-> "idle"] /\ destroying = [d \in {"end"} |-> "idle"]
  BY <1>1 DEF Amqp!Init, Proved!Init
<1> QED BY <1>2, <1>3, ClientAssumption DEF AmqpInv, AmqpTypes, PublicationsOwn, Copied, EndStages,
   SparedWork, AtWork, Joining

LEMMA PublishInv == ASSUME AmqpInv, NEW a \in Calls, Amqp!publish(a) PROVE AmqpInv'
<1>1. /\ Proved!Get(a) /\ publication[a] = "idle"
      /\ publication' = [publication EXCEPT ![a] = "connecting"]
      /\ UNCHANGED <<copies, closing, spared>>
  BY PoolGets DEF Amqp!publish, Amqp!Goto
<1>2. Proved!Inv'
  BY <1>1, PoolStep DEF AmqpInv
<1>3. call[a] = "idle" /\ call'[a] \in Joining /\ Others(a) /\ destroying' = destroying
  BY <1>1, GetMoves DEF AmqpInv
<1> QED BY <1>1, <1>2, <1>3 DEF AmqpInv, AmqpTypes, PublicationsOwn, Copied, EndStages,
   SparedWork, AtWork, Joining, Others

LEMMA CreatedInv == ASSUME AmqpInv, NEW a \in Calls, Amqp!Created(a) PROVE AmqpInv'
<1>1. Proved!CreateOk(a) /\ UNCHANGED <<publication, copies, closing, spared>>
  BY PoolServes DEF Amqp!Created
<1>2. Proved!Inv'
  BY <1>1, PoolStep DEF AmqpInv
<1>3. call[a] \in Joining /\ call'[a] \in Joining /\ Others(a) /\ destroying' = destroying
  BY <1>1, ServeMoves DEF AmqpInv
<1> QED BY <1>1, <1>2, <1>3 DEF AmqpInv, AmqpTypes, PublicationsOwn, Copied, EndStages,
   SparedWork, AtWork, Joining, Others

LEMMA AssertInv == ASSUME AmqpInv, NEW a \in Calls, Amqp!assert(a) PROVE AmqpInv'
<1>1. /\ Proved!Acquire(a) /\ publication[a] = "connecting"
      /\ publication' = [publication EXCEPT ![a] = "asserting"]
      /\ UNCHANGED <<copies, closing, spared>>
  BY PoolServes DEF Amqp!assert, Amqp!Goto
<1>2. Proved!Inv'
  BY <1>1, PoolStep DEF AmqpInv
<1>3. call[a] \in Joining /\ call'[a] = "holding" /\ Others(a) /\ destroying' = destroying
  BY <1>1, ServeMoves DEF AmqpInv
<1>4. a \notin spared
  BY <1>1 DEF AmqpInv, SparedWork, AtWork
<1> QED BY <1>1, <1>2, <1>3, <1>4 DEF AmqpInv, AmqpTypes, PublicationsOwn, Copied,
   EndStages, SparedWork, AtWork, Joining, Others

LEMMA DoPublishInv == ASSUME AmqpInv, NEW a \in Calls, Amqp!doPublish(a) PROVE AmqpInv'
<1>1. /\ publication[a] \in {"asserting", "draining"}
      /\ copies' = [copies EXCEPT ![a] = @ + 1]
      /\ \/ publication' = [publication EXCEPT ![a] = "sent"]
         \/ /\ publication' = [publication EXCEPT ![a] = "draining"]
            /\ copies'[a] < MaxSends
      /\ UNCHANGED <<closing, spared>>
      /\ PoolUnchanged
  BY DEF Amqp!doPublish, Amqp!Goto, Amqp!poolVars, PoolUnchanged
<1>2. Proved!Inv'
  BY <1>1, PoolStep DEF AmqpInv
<1>3. call' = call /\ destroying' = destroying
  BY <1>1 DEF PoolUnchanged
<1>4. /\ copies[a] \in Nat /\ copies[a] < MaxSends /\ MaxSends \in Nat
      /\ copies'[a] = copies[a] + 1
      /\ \A b \in Calls \ {a} : copies'[b] = copies[b]
  BY <1>1, ClientAssumption DEF AmqpInv, AmqpTypes, Copied
<1>5. copies' \in [Calls -> 0..MaxSends]
  BY <1>1, <1>4 DEF AmqpInv, AmqpTypes
<1>6. PICK s \in {"sent", "draining"} :
        /\ publication' = [publication EXCEPT ![a] = s]
        /\ s = "draining" => copies'[a] < MaxSends
  BY <1>1
<1>7. Copied'
  BY <1>1, <1>4, <1>6 DEF AmqpInv, AmqpTypes, Copied
<1>8. (AmqpTypes /\ PublicationsOwn /\ EndStages /\ SparedWork)'
  BY <1>1, <1>3, <1>5, <1>6 DEF AmqpInv, AmqpTypes, PublicationsOwn, EndStages,
     SparedWork, AtWork
<1> QED BY <1>2, <1>7, <1>8 DEF AmqpInv

LEMMA FinishInv == ASSUME AmqpInv, NEW a \in Calls, Amqp!Finish(a) PROVE AmqpInv'
<1>1. /\ Proved!Return(a) /\ publication[a] = "sent"
      /\ publication' = [publication EXCEPT ![a] = "done"]
      /\ UNCHANGED <<copies, closing, spared>>
  BY PoolReturns DEF Amqp!Finish, Amqp!Goto
<1>2. Proved!Inv'
  BY <1>1, PoolStep DEF AmqpInv
<1>3. /\ call[a] = "holding" /\ call'[a] = "idle"
      /\ \A b \in Calls \ {a} :
           \/ call'[b] = call[b]
           \/ call[b] = "waiting" /\ call'[b] = "granted"
      /\ \/ destroying'["end"] = destroying["end"]
         \/ /\ destroying["end"] = "awaitEmpty" /\ destroying'["end"] = "notified"
            /\ \A b \in Calls \ {a} : call[b] # "holding"
  BY <1>1, ReturnMoves DEF AmqpInv
<1>4. /\ publication'[a] = "done"
      /\ \A b \in Calls \ {a} : publication'[b] = publication[b]
  BY <1>1 DEF AmqpInv, AmqpTypes
<1>5. (AmqpTypes /\ Copied)'
  BY <1>1, <1>4 DEF AmqpInv, AmqpTypes, Copied
<1>6. (PublicationsOwn /\ EndStages)'
  BY <1>1, <1>3, <1>4 DEF AmqpInv, PublicationsOwn, EndStages, AtWork, Joining
<1>7. SparedWork'
  BY <1>1, <1>3, <1>4 DEF AmqpInv, AmqpTypes, PublicationsOwn, SparedWork
<1> QED BY <1>2, <1>5, <1>6, <1>7 DEF AmqpInv

\* A closed connection cuts no publication that end() had found at work.
LEMMA CutInv == ASSUME AmqpInv, NEW a \in Calls, Amqp!Cut(a) PROVE AmqpInv'
<1>1. /\ closing = "closed" /\ publication[a] \in {"connecting", "asserting", "draining"}
      /\ Proved!CreateFail(a) \/ Proved!Return(a)
      /\ publication' = [publication EXCEPT ![a] = "cut"]
      /\ UNCHANGED <<copies, closing, spared>>
  BY PoolServes, PoolReturns DEF Amqp!Cut, Amqp!Goto
<1>2. Proved!Inv'
  BY <1>1, PoolStep DEF AmqpInv
<1>3. a \notin spared /\ destroying["end"] = "done"
  BY <1>1 DEF AmqpInv, EndStages, SparedWork
<1>4. /\ call'[a] = "idle"
      /\ \A b \in Calls \ {a} :
           \/ call'[b] = call[b]
           \/ call[b] = "waiting" /\ call'[b] = "granted"
      /\ destroying'["end"] = destroying["end"]
  BY <1>1, <1>3, ServeMoves, ReturnMoves DEF AmqpInv, Others
<1>5. /\ publication'[a] = "cut"
      /\ \A b \in Calls \ {a} : publication'[b] = publication[b]
  BY <1>1 DEF AmqpInv, AmqpTypes
<1>6. (AmqpTypes /\ Copied)'
  BY <1>1, <1>5 DEF AmqpInv, AmqpTypes, Copied
<1>7. (PublicationsOwn /\ EndStages)'
  BY <1>1, <1>4, <1>5 DEF AmqpInv, PublicationsOwn, EndStages, AtWork, Joining
<1>8. SparedWork'
  BY <1>1, <1>3, <1>4, <1>5 DEF AmqpInv, AmqpTypes, SparedWork
<1> QED BY <1>2, <1>6, <1>7, <1>8 DEF AmqpInv

LEMMA EndInv == ASSUME AmqpInv, Amqp!end PROVE AmqpInv'
<1>1. /\ Proved!DestroyNow("end") \/ Proved!DestroyLater("end")
      /\ closing = "open" /\ closing' = "closing"
      /\ spared' = {a \in Calls : publication[a] \in AtWork}
      /\ UNCHANGED <<publication, copies>>
  BY PoolEnds DEF Amqp!end, AtWork
<1>2. Proved!Inv'
  BY <1>1, PoolStep DEF AmqpInv
<1>3. /\ call' = call
      /\ \/ destroying'["end"] = "done" /\ \A b \in Calls : call[b] # "holding"
         \/ destroying'["end"] = "awaitEmpty"
  BY <1>1, EndMoves DEF AmqpInv
<1>4. (AmqpTypes /\ PublicationsOwn /\ Copied /\ EndStages)'
  BY <1>1, <1>3 DEF AmqpInv, AmqpTypes, PublicationsOwn, Copied, EndStages
<1>5. SparedWork'
  BY <1>1, <1>3 DEF AmqpInv, PublicationsOwn, SparedWork
<1> QED BY <1>2, <1>4, <1>5 DEF AmqpInv

LEMMA EndResumeInv == ASSUME AmqpInv, Amqp!EndResume \/ Amqp!EndClose PROVE AmqpInv'
<1>1. CASE Amqp!EndResume
  <2>1. Proved!DestroyResume("end") /\ UNCHANGED <<publication, copies, closing, spared>>
    BY <1>1, PoolEnds DEF Amqp!EndResume
  <2>2. Proved!Inv'
    BY <2>1, PoolStep DEF AmqpInv
  <2>3. destroying["end"] = "notified" /\ destroying'["end"] = "done" /\ call' = call
    BY <2>1, EndMoves DEF AmqpInv
  <2> QED BY <2>1, <2>2, <2>3 DEF AmqpInv, AmqpTypes, PublicationsOwn, Copied, EndStages,
     SparedWork
<1>2. CASE Amqp!EndClose
  <2>1. /\ closing = "closing" /\ closing' = "closed" /\ destroying["end"] = "done"
        /\ UNCHANGED <<publication, copies, spared>> /\ PoolUnchanged
    BY <1>2 DEF Amqp!EndClose, Amqp!DestroyDone, Amqp!poolVars, PoolUnchanged
  <2>2. Proved!Inv'
    BY <2>1, PoolStep DEF AmqpInv
  <2> QED BY <2>1, <2>2 DEF AmqpInv, AmqpTypes, PublicationsOwn, Copied, EndStages,
     SparedWork, PoolUnchanged
<1> QED BY <1>1, <1>2

-----------------------------------------------------------------------------
(* A message keeps what its worker reads                                   *)

LEMMA HeadersSay ==
  ASSUME NEW task, NEW options, NEW id
  PROVE  LET h == createHeaders(task, options, id) IN
         /\ h.task = task.name /\ h.id = id
         /\ h.eta = dateOrNull(options.eta) /\ h.expires = dateOrNull(options.expires)
         /\ "compression" \in DOMAIN h <=> options.compression # "identity"
BY DEF createHeaders

\* What a worker gets out of the body, with either broker: what was put in.
LEMMA BodySays ==
  ASSUME NEW c \in Compressors, NEW s \in Serializers, NEW args, NEW kwargs,
         NEW headers, "compression" \in DOMAIN headers <=> c # "identity"
  PROVE  LET packer == createPacker(s, c)
             body == packBody(args, kwargs, packer)
         IN /\ body[1] = IF packer.encoder = "base64" THEN "base64" ELSE "text"
            /\ ReadBody(body[2], getContentTypeMime(s), headers) = {<<args, kwargs>>}
<1> DEFINE packer == createPacker(s, c)
           data == <<args, kwargs>>
           text == <<s, data>>
           bytes == IF c = "identity" THEN text ELSE <<"zlib", text>>
           body == packBody(args, kwargs, packer)
<1>1. body = IF c = "identity" THEN <<"text", bytes>> ELSE <<"base64", bytes>>
  BY DEF packBody, pack, encode, compress, serialize, createPacker, realCompressor,
     selectEncoder, IsUtf8, Compressors, Serializers
<1>2. packer.encoder = IF c = "identity" THEN "plaintext" ELSE "base64"
  BY DEF createPacker, selectEncoder
<1>3. \A buffer, first : buffer[1] = first =>
        {b[2] : b \in {d \in {buffer} : d[1] = first}} = {buffer[2]}
  OBVIOUS
<1>4. Decompressed(headers, bytes) = {text}
  <2>1. CASE c = "identity"
    <3>1. Decompressed(headers, text) = {text}
      BY <2>1 DEF Decompressed
    <3> QED BY <2>1, <3>1
  <2>2. CASE c # "identity"
    <3> DEFINE z == <<"zlib", text>>
    <3>1. z[1] = "zlib" /\ z[2] = text
      OBVIOUS
    <3>2. Decompressed(headers, z) = {b[2] : b \in {d \in {z} : d[1] = "zlib"}}
      BY <2>2 DEF Decompressed
    <3>3. Decompressed(headers, z) = {text}
      BY <3>1, <3>2, <1>3
    <3> QED BY <2>2, <3>3
  <2> QED BY <2>1, <2>2
<1>5. Deserialized(getContentTypeMime(s), text) = {data}
  <2>1. text[1] = s /\ text[2] = data
    OBVIOUS
  <2>2. s = IF getContentTypeMime(s) = "application/json" THEN "json" ELSE "yaml"
    BY DEF getContentTypeMime, Serializers
  <2> QED BY <1>3, <2>1, <2>2 DEF Deserialized
<1>6. ReadBody(bytes, getContentTypeMime(s), headers) = {data}
  BY <1>4, <1>5 DEF ReadBody
<1>7. body[2] = bytes /\ body[1] = IF packer.encoder = "base64" THEN "base64" ELSE "text"
  BY <1>1, <1>2
<1> QED BY <1>6, <1>7

\* Workers of both brokers read in a message the job that was asked for, and
\* it lies in the queue it was meant for.
LEMMA WorkerReads ==
  ASSUME NEW task, NEW options, NEW id, NEW prefix,
         options.compression \in Compressors, options.serializer \in Serializers
  PROVE  LET m == Message(task, options, id)
             job == [task |-> task.name, id |-> id, body |-> <<options.args, options.kwargs>>,
                     eta |-> dateOrNull(options.eta), expires |-> dateOrNull(options.expires),
                     replyTo |-> task.appId, priority |-> options.priority]
         IN /\ OnRabbitMq(m).at = QueueOf(task, options)
            /\ RabbitMqWorkerReads(OnRabbitMq(m)) = {job}
            /\ OnRedis(m, prefix).at = <<prefix, QueueOf(task, options)>>
            /\ RedisWorkerReads(OnRedis(m, prefix)) = {job}
<1> DEFINE c == options.compression
           s == options.serializer
           packer == createPacker(s, c)
           body == packBody(options.args, options.kwargs, packer)
           type == getContentTypeMime(s)
           headers == createHeaders(task, options, id)
           data == <<options.args, options.kwargs>>
           m == Message(task, options, id)
           job == [task |-> task.name, id |-> id, body |-> data,
                   eta |-> dateOrNull(options.eta), expires |-> dateOrNull(options.expires),
                   replyTo |-> task.appId, priority |-> options.priority]
<1>1. /\ headers.task = task.name /\ headers.id = id
      /\ headers.eta = dateOrNull(options.eta)
      /\ headers.expires = dateOrNull(options.expires)
      /\ "compression" \in DOMAIN headers <=> c # "identity"
  BY HeadersSay
<1>2. /\ body[1] = IF packer.encoder = "base64" THEN "base64" ELSE "text"
      /\ ReadBody(body[2], type, headers) = {data}
  BY <1>1, BodySays
<1>3. /\ m.body = body /\ m.content_type = type /\ m.headers = headers
      /\ m.properties.routing_key = QueueOf(task, options)
      /\ m.properties.queue = QueueOf(task, options)
      /\ m.properties.correlation_id = id /\ m.properties.reply_to = task.appId
      /\ m.properties.priority = options.priority
      /\ m.properties.body_encoding = IF packer.encoder = "base64" THEN "base64" ELSE "utf-8"
  BY DEF Message, createProperties, getEncodingMime
<1>4. /\ Job(data, headers, id, task.appId, options.priority) = job
      /\ Job(data, headers, headers.id, task.appId, options.priority) = job
  BY <1>1 DEF Job
<1> HIDE DEF c, s, packer, body, type, headers, data, m, job
<1>5. \A buffer, first : buffer[1] = first => {d \in {buffer} : d[1] = first} = {buffer}
  OBVIOUS
<1>6. /\ OnRabbitMq(m).at = QueueOf(task, options)
      /\ OnRedis(m, prefix).at = <<prefix, QueueOf(task, options)>>
  BY <1>3 DEF OnRabbitMq, OnRedis
<1>7. RabbitMqWorkerReads(OnRabbitMq(m)) = {job}
  <2>1. /\ OnRabbitMq(m).payload = body[2]
        /\ OnRabbitMq(m).options.contentType = type
        /\ OnRabbitMq(m).options.headers = headers
        /\ OnRabbitMq(m).options.correlationId = id
        /\ OnRabbitMq(m).options.replyTo = task.appId
        /\ OnRabbitMq(m).options.priority = options.priority
    BY <1>3 DEF OnRabbitMq, getPublishOptions, getBody
  <2>2. RabbitMqWorkerReads(OnRabbitMq(m)) =
          {Job(b, headers, id, task.appId, options.priority) : b \in {data}}
    BY <1>2, <2>1 DEF RabbitMqWorkerReads
  <2> QED BY <1>4, <2>2
<1>8. RedisWorkerReads(OnRedis(m, prefix)) = {job}
  <2> DEFINE encoded == IF m.properties.body_encoding = "base64" THEN "base64" ELSE "text"
  <2>1. body[1] = encoded
    BY <1>2, <1>3
  <2>2. OnRedis(m, prefix).envelope = m
    BY DEF OnRedis
  <2>3. RedisWorkerReads(OnRedis(m, prefix)) =
          {Job(b, headers, headers.id, task.appId, options.priority) :
             b \in UNION {ReadBody(t[2], type, headers) :
                            t \in {d \in {body} : d[1] = encoded}}}
    BY <1>3, <2>2 DEF RedisWorkerReads
  <2>4. {d \in {body} : d[1] = encoded} = {body}
    BY <1>5, <2>1
  <2>5. RedisWorkerReads(OnRedis(m, prefix)) =
          {Job(b, headers, headers.id, task.appId, options.priority) :
             b \in UNION {ReadBody(t[2], type, headers) : t \in {body}}}
    BY <2>3, <2>4
  <2>6. UNION {ReadBody(t[2], type, headers) : t \in {body}} = {data}
    BY <1>2
  <2>7. RedisWorkerReads(OnRedis(m, prefix)) =
          {Job(b, headers, headers.id, task.appId, options.priority) : b \in {data}}
    BY <2>5, <2>6
  <2> QED BY <1>4, <2>7
<1> QED BY <1>6, <1>7, <1>8 DEF m, job, data

-----------------------------------------------------------------------------
(* The client                                                              *)

\* Whatever goes to a server was asked for, with the options it has.
SentWasApplied ==
  \A a \in Calls :
    /\ publication[a] # "idle" \/ a \in pushed \union ToSet(commands) =>
         applied[a] \in OptionsOf[a]
    /\ a \in pushed \union ToSet(commands) => KindOf(TaskOf[a]) = "redis"

\* A client connects before it publishes, and the Redis brokers name the lists
\* as the queues.
BrokersMade ==
  /\ phase = "new" =>
       \A a \in Calls : publication[a] = "idle" /\ a \notin pushed \union ToSet(commands)
  /\ phase = "made" => brokers \in Seq({brokers[i] : i \in DOMAIN brokers})
  /\ DOMAIN brokers \subseteq Nat
  /\ \A i \in DOMAIN brokers : brokers[i].kind = "redis" =>
       brokers[i].options["keyPrefix"] = ""

ClientTypes ==
  /\ phase \in {"new", "refused", "made", "end", "disconnect"}
  /\ phase # "new" => config \in Configs
  /\ config \in Configs \union {None}
  /\ brokerOf \in [Tasks -> Nat \union {None}]
  /\ index \in Nat
  /\ applied = [a \in Calls |-> applied[a]]
  /\ \A a \in Calls : applied[a] = None \/ applied[a] \in OptionsOf[a]
  /\ outcome \in [Calls -> {None, "pending", "rejected"}]
  /\ Redis!TypeOK

IInv == AmqpInv /\ ClientTypes /\ BrokersMade /\ SentWasApplied

LEMMA ClientStarts == Init => IInv
<1> SUFFICES ASSUME Init PROVE IInv
  OBVIOUS
<1>1. AmqpInv
  BY AmqpInit DEF Init
<1>2. publication = [a \in Calls |-> "idle"] /\ pushed = {} /\ commands = <<>>
  BY DEF Init, Amqp!Init, Redis!Init
<1>3. ToSet(commands) = {} /\ commands \in Seq(Calls \union {"quit"})
  BY <1>2, EmptyElements
<1>4. BrokersMade /\ SentWasApplied
  BY <1>2, <1>3 DEF Init, BrokersMade, SentWasApplied
<1>5. ClientTypes
  <2>1. Redis!TypeOK
    BY <1>2, <1>3 DEF Init, Redis!Init, Redis!TypeOK
  <2>2. /\ phase = "new" /\ config = None /\ index = 1
        /\ brokerOf = [t \in Tasks |-> None]
        /\ applied = [a \in Calls |-> None] /\ outcome = [a \in Calls |-> None]
    BY DEF Init
  <2> QED BY <2>1, <2>2 DEF ClientTypes
<1> QED BY <1>1, <1>4, <1>5 DEF IInv

\* The pool and the publications are all that AmqpInv speaks of.
LEMMA AmqpKept == ASSUME AmqpInv, UNCHANGED amqpVars PROVE AmqpInv'
<1>1. PoolUnchanged /\ UNCHANGED <<publication, copies, closing, spared>>
  BY DEF amqpVars, PoolUnchanged
<1>2. Proved!Inv'
  BY <1>1, PoolStep DEF AmqpInv
<1> QED BY <1>1, <1>2 DEF AmqpInv, AmqpTypes, PublicationsOwn, Copied, EndStages,
   SparedWork, PoolUnchanged

\* What a Redis broker is made from does not change where its lists are.
LEMMA RedisPrefix ==
  ASSUME NEW uri, NEW x \in createBroker(uri), x.kind = "redis"
  PROVE  x.options["keyPrefix"] = ""
<1>1. PICK o : x = Component("redis", BrokerOptions(o))
  BY DEF createBroker, Component
<1>2. BrokerOptions(o)["keyPrefix"] = ""
  BY DEF BrokerOptions, maybeOverride
<1> QED BY <1>1, <1>2 DEF Component

LEMMA CreateClientInv == ASSUME IInv, NEW c \in Configs, CreateClient(c) PROVE IInv'
<1>1. UNCHANGED <<index, brokerOf, applied, outcome, amqpVars, commands, pushed, link>>
  BY DEF CreateClient, callVars, brokerVars, redisVars
<1>2. AmqpInv'
  BY <1>1, AmqpKept DEF IInv
<1>3. UNCHANGED publication
  BY <1>1 DEF amqpVars
<1>4. \A a \in Calls : publication[a] = "idle" /\ a \notin pushed \union ToSet(commands)
  BY DEF IInv, BrokersMade, CreateClient
<1>5. SentWasApplied'
  BY <1>1, <1>3, <1>4 DEF SentWasApplied
<1>6. ClientTypes'
  BY <1>1 DEF IInv, ClientTypes, CreateClient, Redis!TypeOK
<1>7. PICK made \in SUBSET DOMAIN c.brokers :
        /\ \A i \in made : \A j \in 1..i : createBroker(c.brokers[j]) # {}
        /\ brokers' = [i \in made |-> CHOOSE x \in createBroker(c.brokers[i]) : TRUE]
        /\ phase' = "made" => made = DOMAIN c.brokers
        /\ phase' # "new"
  BY DEF CreateClient, Made
<1>8. DOMAIN c.brokers = 1..Len(c.brokers) /\ Len(c.brokers) \in Nat
  BY ClientAssumption
<1>9. \A i \in made : brokers'[i] \in createBroker(c.brokers[i])
  <2> TAKE i \in made
  <2>1. i \in 1..i
    BY <1>8
  <2> QED BY <1>7, <2>1
<1>10. BrokersMade'
  <2>1. ASSUME NEW i \in made, brokers'[i].kind = "redis"
        PROVE  brokers'[i].options["keyPrefix"] = ""
    BY <1>9, <2>1, RedisPrefix
  <2>2. DOMAIN brokers' = made /\ made \subseteq Nat
    BY <1>7, <1>8
  <2>3. ASSUME phase' = "made"
        PROVE  brokers' \in Seq({brokers'[i] : i \in DOMAIN brokers'})
    <3> DEFINE S == {brokers'[i] : i \in DOMAIN brokers'}
    <3>1. brokers' \in [1..Len(c.brokers) -> S]
      BY <1>7, <1>8, <2>2, <2>3
    <3> QED BY <1>8, <3>1
  <2> QED BY <1>7, <2>1, <2>2, <2>3 DEF BrokersMade
<1> QED BY <1>2, <1>5, <1>6, <1>10 DEF IInv

LEMMA CreateTaskInv == ASSUME IInv, NEW t \in Tasks, CreateTask(t) PROVE IInv'
<1>1. /\ UNCHANGED <<phase, config, backend, brokers, applied, outcome, amqpVars>>
      /\ UNCHANGED <<commands, pushed, link>>
      /\ phase = "made" /\ brokerOf[t] = None
      /\ brokerOf' = [brokerOf EXCEPT ![t] = index] /\ index' = Advanced(index)
  BY DEF CreateTask, clientVars, callVars, brokerVars, redisVars
<1>2. AmqpInv'
  BY <1>1, AmqpKept DEF IInv
<1>3. UNCHANGED publication
  BY <1>1 DEF amqpVars
<1>4. index' \in Nat
  <2> DEFINE S == {brokers[i] : i \in DOMAIN brokers}
  <2>1. brokers \in Seq(S)
    BY <1>1 DEF IInv, BrokersMade
  <2>2. CASE brokers = <<>>
    BY <1>1, <2>2 DEF Advanced, IInv, ClientTypes
  <2>3. CASE brokers # <<>>
    <3>1. Advanced(index) = (index % Len(brokers)) + 1
      BY <2>3 DEF Advanced
    <3> HIDE DEF S
    <3>2. Len(brokers) \in Nat /\ Len(brokers) # 0
      BY <2>1, <2>3, EmptySeq, LenProperties
    <3> QED BY <1>1, <3>1, <3>2 DEF IInv, ClientTypes
  <2> QED BY <2>2, <2>3
<1>5. ClientTypes'
  BY <1>1, <1>4 DEF IInv, ClientTypes, Redis!TypeOK
<1>6. BrokersMade'
  BY <1>1, <1>3 DEF IInv, BrokersMade
<1>7. \A u \in Tasks : KindOf(u) = "redis" => KindOf(u)' = "redis"
  <2> SUFFICES ASSUME NEW u \in Tasks, KindOf(u) = "redis" PROVE KindOf(u)' = "redis"
    OBVIOUS
  <2>1. brokerOf[u] \in DOMAIN brokers
    BY DEF KindOf
  <2>2. brokerOf[u] # None
    BY <2>1, ClientAssumption DEF IInv, BrokersMade
  <2>3. u # t /\ brokerOf'[u] = brokerOf[u]
    BY <1>1, <2>2 DEF IInv, ClientTypes
  <2> QED BY <1>1, <2>3 DEF KindOf
<1>8. SentWasApplied'
  BY <1>1, <1>3, <1>7, ClientAssumption DEF IInv, SentWasApplied
<1> QED BY <1>2, <1>5, <1>6, <1>8 DEF IInv

\* What goes to a Redis server goes there in turn.
LEMMA RedisSends ==
  ASSUME Redis!TypeOK, NEW a \in Calls, Redis!publish(a)
  PROVE  /\ Redis!TypeOK'
         /\ pushed' \union ToSet(commands') \subseteq (pushed \union ToSet(commands)) \union {a}
<1>1. /\ Append(commands, a) \in Seq(Calls \union {"quit"})
      /\ ToSet(Append(commands, a)) = ToSet(commands) \union {a}
  BY PushElements DEF Redis!TypeOK
<1> QED BY <1>1 DEF Redis!publish, Redis!TypeOK

LEMMA RedisEnds ==
  ASSUME Redis!TypeOK, Redis!end \/ Redis!disconnect
  PROVE  /\ Redis!TypeOK'
         /\ pushed' \union ToSet(commands') \subseteq (pushed \union ToSet(commands)) \union {"quit"}
<1>1. /\ Append(commands, "quit") \in Seq(Calls \union {"quit"})
      /\ ToSet(Append(commands, "quit")) = ToSet(commands) \union {"quit"}
  BY PushElements DEF Redis!TypeOK
<1> QED BY <1>1 DEF Redis!end, Redis!disconnect, Redis!TypeOK

LEMMA RedisGoes ==
  ASSUME Redis!TypeOK, Redis!Go
  PROVE  /\ Redis!TypeOK'
         /\ pushed' \union ToSet(commands') \subseteq pushed \union ToSet(commands)
<1>1. <<>> \in Seq(Calls \union {"quit"}) /\ ToSet(<<>>) = {}
  BY EmptyElements
<1>2. commands # <<>>
  BY DEF Redis!Go, Redis!Execute, Redis!Lose
<1>3. /\ Tail(commands) \in Seq(Calls \union {"quit"})
      /\ Head(commands) \in Calls \union {"quit"}
      /\ Head(commands) \in ToSet(commands)
      /\ ToSet(Tail(commands)) \subseteq ToSet(commands)
  BY <1>2, ShiftAny DEF Redis!TypeOK
<1> QED BY <1>1, <1>3 DEF Redis!Go, Redis!Execute, Redis!Lose, Redis!TypeOK

\* What AmqpBroker does next keeps its invariant and begins no publication.
LEMMA AmqpGoes ==
  ASSUME AmqpInv, Amqp!Go
  PROVE  /\ AmqpInv'
         /\ \A a \in Calls : publication[a] = "idle" => publication'[a] = "idle"
<1>1. CASE Amqp!EndResume \/ Amqp!EndClose
  BY <1>1, EndResumeInv DEF Amqp!EndResume, Amqp!EndClose
<1>2. ASSUME NEW a \in Calls, Amqp!assert(a) \/ Amqp!Finish(a)
      PROVE  AmqpInv' /\ \A b \in Calls : publication[b] = "idle" => publication'[b] = "idle"
  BY <1>2, AssertInv, FinishInv DEF Amqp!assert, Amqp!Finish, Amqp!Goto, AmqpInv, AmqpTypes
<1>3. ASSUME NEW a \in Calls, Amqp!Created(a) \/ Amqp!doPublish(a)
      PROVE  AmqpInv' /\ \A b \in Calls : publication[b] = "idle" => publication'[b] = "idle"
  BY <1>3, CreatedInv, DoPublishInv DEF Amqp!Created, Amqp!doPublish, Amqp!Goto, AmqpInv,
     AmqpTypes
<1>4. ASSUME NEW a \in Calls, Amqp!Cut(a)
      PROVE  AmqpInv' /\ \A b \in Calls : publication[b] = "idle" => publication'[b] = "idle"
  BY <1>4, CutInv DEF Amqp!Cut, Amqp!Goto, AmqpInv, AmqpTypes
<1> QED BY <1>1, <1>2, <1>3, <1>4 DEF Amqp!Go, Amqp!Microtask, Amqp!Event

LEMMA ApplyAsyncInv == ASSUME IInv, NEW a \in Calls, applyAsync(a) PROVE IInv'
<1>1. /\ UNCHANGED <<phase, config, backend, brokers, index, brokerOf>>
      /\ phase # "new" /\ applied[a] = None
  BY DEF applyAsync, clientVars
<1>2. PICK options \in OptionsOf[a], o \in {"rejected", "pending"} :
        /\ applied' = [applied EXCEPT ![a] = options]
        /\ outcome' = [outcome EXCEPT ![a] = o]
  BY DEF applyAsync
<1>3. /\ applied'[a] \in OptionsOf[a]
      /\ \A b \in Calls \ {a} : applied'[b] = applied[b]
  BY <1>2 DEF IInv, ClientTypes
<1>4. /\ AmqpInv' /\ Redis!TypeOK'
      /\ \A b \in Calls \ {a} : publication'[b] = publication[b]
      /\ pushed' \union ToSet(commands') \subseteq pushed \union ToSet(commands) \union {a}
      /\ a \in pushed' \union ToSet(commands') =>
           KindOf(TaskOf[a]) = "redis" \/ a \in pushed \union ToSet(commands)
  <2>1. CASE KindOf(TaskOf[a]) = "amqp" /\ Amqp!publish(a) /\ UNCHANGED redisVars
    BY <2>1, PublishInv DEF redisVars, Redis!TypeOK, Amqp!publish, Amqp!Goto, IInv,
       ClientTypes, AmqpInv, AmqpTypes
  <2>2. CASE KindOf(TaskOf[a]) = "redis" /\ Redis!publish(a) /\ UNCHANGED amqpVars
    <3>1. AmqpInv' /\ UNCHANGED publication
      BY <2>2, AmqpKept DEF IInv, amqpVars
    <3> QED BY <2>2, <3>1, RedisSends DEF IInv, ClientTypes
  <2>3. CASE KindOf(TaskOf[a]) = "none" /\ UNCHANGED brokerVars
    <3>1. AmqpInv' /\ UNCHANGED publication
      BY <2>3, AmqpKept DEF IInv, amqpVars, brokerVars
    <3> QED BY <2>3, <3>1 DEF brokerVars, redisVars, IInv, ClientTypes, Redis!TypeOK
  <2> QED BY <2>1, <2>2, <2>3 DEF applyAsync, Publish
<1>5. ClientTypes'
  BY <1>1, <1>2, <1>3, <1>4 DEF IInv, ClientTypes
<1>6. BrokersMade'
  BY <1>1 DEF IInv, BrokersMade
<1>7. \A t : KindOf(t)' = KindOf(t)
  BY <1>1 DEF KindOf
<1>8. SentWasApplied'
  <2> SUFFICES ASSUME NEW b \in Calls
               PROVE  /\ publication'[b] # "idle" \/ b \in pushed' \union ToSet(commands') =>
                           applied'[b] \in OptionsOf[b]
                      /\ b \in pushed' \union ToSet(commands') => KindOf(TaskOf[b])' = "redis"
    BY DEF SentWasApplied
  <2>1. CASE b = a
    BY <1>3, <1>4, <1>7, <2>1 DEF IInv, SentWasApplied
  <2>2. CASE b # a
    BY <1>3, <1>4, <1>7, <2>2 DEF IInv, SentWasApplied
  <2> QED BY <2>1, <2>2
<1> QED BY <1>4, <1>5, <1>6, <1>8 DEF IInv

\* A step that sends nothing new keeps the client's part of the invariant.
LEMMA NothingSent ==
  ASSUME IInv, AmqpInv', Redis!TypeOK',
         UNCHANGED <<config, backend, brokers, index, brokerOf, applied, outcome>>,
         phase' = phase \/ (phase = "made" /\ phase' \in {"end", "disconnect"}),
         \A a \in Calls : publication[a] = "idle" => publication'[a] = "idle",
         pushed' \union ToSet(commands') \subseteq pushed \union ToSet(commands) \union {"quit"}
  PROVE  IInv'
<1>1. ClientTypes'
  BY DEF IInv, ClientTypes
<1>2. \A a \in Calls : a \in pushed' \union ToSet(commands') => a \in pushed \union ToSet(commands)
  BY ClientAssumption
<1>3. BrokersMade'
  BY <1>2 DEF IInv, BrokersMade
<1>4. \A t : KindOf(t)' = KindOf(t)
  BY DEF KindOf
<1>5. SentWasApplied'
  BY <1>2, <1>4 DEF IInv, SentWasApplied
<1> QED BY <1>1, <1>3, <1>5 DEF IInv

LEMMA DisconnectOrEndAllInv ==
  ASSUME IInv, NEW how \in {"end", "disconnect"}, DisconnectOrEndAll(how) PROVE IInv'
<1>1. /\ UNCHANGED <<config, backend, brokers, index, brokerOf, applied, outcome>>
      /\ phase = "made" /\ phase' = how
      /\ Amqp!end \/ UNCHANGED amqpVars
      /\ Redis!end \/ Redis!disconnect \/ UNCHANGED redisVars
  BY DEF DisconnectOrEndAll, EndRedis, clientVars, callVars
<1>2. AmqpInv' /\ UNCHANGED publication
  BY <1>1, AmqpKept, EndInv DEF IInv, Amqp!end, amqpVars
<1>3. /\ Redis!TypeOK'
      /\ pushed' \union ToSet(commands') \subseteq pushed \union ToSet(commands) \union {"quit"}
  BY <1>1, RedisEnds DEF IInv, ClientTypes, redisVars, Redis!TypeOK
<1> QED BY <1>1, <1>2, <1>3, NothingSent

LEMMA BrokerStepInv == ASSUME IInv, BrokerStep PROVE IInv'
<1>1. UNCHANGED <<phase, config, backend, brokers, index, brokerOf, applied, outcome>>
  BY DEF BrokerStep, clientVars, callVars
<1>2. CASE Amqp!Go /\ UNCHANGED redisVars
  <2>1. AmqpInv' /\ \A a \in Calls : publication[a] = "idle" => publication'[a] = "idle"
    BY <1>2, AmqpGoes DEF IInv
  <2>2. Redis!TypeOK' /\ UNCHANGED <<commands, pushed>>
    BY <1>2 DEF IInv, ClientTypes, redisVars, Redis!TypeOK
  <2> QED BY <1>1, <2>1, <2>2, NothingSent
<1>3. CASE Redis!Go /\ UNCHANGED amqpVars
  <2>1. AmqpInv' /\ UNCHANGED publication
    BY <1>3, AmqpKept DEF IInv, amqpVars
  <2>2. /\ Redis!TypeOK'
        /\ pushed' \union ToSet(commands') \subseteq pushed \union ToSet(commands)
    BY <1>3, RedisGoes DEF IInv, ClientTypes
  <2> QED BY <1>1, <2>1, <2>2, NothingSent
<1> QED BY <1>2, <1>3 DEF BrokerStep

LEMMA ClientNext == ASSUME IInv, [Next]_vars PROVE IInv'
<1>1. CASE UNCHANGED vars
  <2>1. /\ UNCHANGED <<phase, config, backend, brokers, index, brokerOf, applied, outcome>>
        /\ UNCHANGED amqpVars /\ UNCHANGED <<commands, pushed, link>>
    BY <1>1 DEF vars, clientVars, callVars, brokerVars, redisVars
  <2>2. AmqpInv' /\ UNCHANGED publication
    BY <2>1, AmqpKept DEF IInv, amqpVars
  <2>3. Redis!TypeOK'
    BY <2>1 DEF IInv, ClientTypes, Redis!TypeOK
  <2> QED BY <2>1, <2>2, <2>3, NothingSent
<1>2. CASE Next
  BY <1>2, CreateClientInv, CreateTaskInv, ApplyAsyncInv, DisconnectOrEndAllInv,
     BrokerStepInv DEF Next
<1> QED BY <1>1, <1>2

\* The inductive invariant of the client: that of AmqpBroker and its pool, the
\* types, the prefix of every Redis broker, and that nothing is sent but what
\* was applied, to the broker of its task.
THEOREM ClientInvariant == Spec => []IInv
<1>1. Init => IInv
  BY ClientStarts
<1>2. IInv /\ [Next]_vars => IInv'
  BY ClientNext
<1> QED BY <1>1, <1>2, PTL DEF Spec

\* Every field of the client and of its brokers keeps its type, whatever is
\* applied, created, ended or disconnected in whatever order.
THEOREM ClientTypeOK == Spec => []TypeOK
<1>1. AmqpInv => Amqp!TypeOK
  <2> SUFFICES ASSUME AmqpInv PROVE Amqp!TypeOK
    OBVIOUS
  <2>1. Proved!TypeOK
    BY DEF AmqpInv, Proved!Inv
  <2>2. Amqp!Pool!TypeOK
    BY <2>1 DEF Proved!TypeOK, Amqp!Pool!TypeOK, Proved!CallStates, Amqp!Pool!CallStates,
       Proved!CloserStates, Amqp!Pool!CloserStates
  <2> QED BY <2>2 DEF AmqpInv, AmqpTypes, Amqp!TypeOK
<1>2. IInv => TypeOK
  BY <1>1 DEF IInv, ClientTypes, TypeOK
<1> QED BY <1>2, ClientInvariant, PTL

\* end() of AmqpBroker closes the connection only when every publication that
\* was at work when it was called is at the server.
THEOREM ClientEndWaits == Spec => []EndWaits
<1>1. IInv => EndWaits
  BY DEF IInv, AmqpInv, AmqpTypes, Copied, EndStages, SparedWork, EndWaits, AtRabbitMq, AtWork
<1> QED BY <1>1, ClientInvariant, PTL

\* What gets to a server, a worker reads there: the job that was asked for, in
\* the queue it was meant for, with every compression, serializer and broker.
THEOREM ClientWorkersCanRead == Spec => []WorkersCanRead
<1>1. IInv => WorkersCanRead
  <2> SUFFICES ASSUME IInv, NEW a \in Calls
               PROVE  LET queue == QueueOf(Task(TaskOf[a]), applied[a])
                          inRabbitMq == OnRabbitMq(MessageOf(a))
                          inRedis == OnRedis(MessageOf(a), Prefix(a))
                      IN /\ AtRabbitMq(a) =>
                              inRabbitMq.at = queue /\ RabbitMqWorkerReads(inRabbitMq) = {JobOf(a)}
                         /\ AtRedis(a) =>
                              inRedis.at = <<"", queue>> /\ RedisWorkerReads(inRedis) = {JobOf(a)}
    BY DEF WorkersCanRead
  <2>1. AtRabbitMq(a) \/ AtRedis(a) => applied[a] \in OptionsOf[a]
    BY DEF IInv, SentWasApplied, AmqpInv, AmqpTypes, Copied, AtRabbitMq, AtRedis
  <2>2. AtRedis(a) => Prefix(a) = ""
    BY DEF IInv, SentWasApplied, BrokersMade, KindOf, Prefix, AtRedis
  <2>3. Task(TaskOf[a]).appId = "app" /\ Task(TaskOf[a]).name = TaskOf[a]
    BY DEF Task
  <2>4. ASSUME AtRabbitMq(a) \/ AtRedis(a)
        PROVE  /\ OnRabbitMq(MessageOf(a)).at = QueueOf(Task(TaskOf[a]), applied[a])
               /\ RabbitMqWorkerReads(OnRabbitMq(MessageOf(a))) = {JobOf(a)}
               /\ OnRedis(MessageOf(a), Prefix(a)).at =
                    <<Prefix(a), QueueOf(Task(TaskOf[a]), applied[a])>>
               /\ RedisWorkerReads(OnRedis(MessageOf(a), Prefix(a))) = {JobOf(a)}
    <3>1. applied[a].compression \in Compressors /\ applied[a].serializer \in Serializers
      BY <2>1, <2>4, ClientAssumption
    <3> DEFINE task == Task(TaskOf[a])
               options == applied[a]
               prefix == Prefix(a)
    <3>2. JobOf(a) =
            [task |-> task.name, id |-> a, body |-> <<options.args, options.kwargs>>,
             eta |-> dateOrNull(options.eta), expires |-> dateOrNull(options.expires),
             replyTo |-> task.appId, priority |-> options.priority]
      BY <2>3 DEF JobOf
    <3>3. MessageOf(a) = Message(task, options, a)
      BY DEF MessageOf
    <3>4. options.compression \in Compressors /\ options.serializer \in Serializers
      BY <3>1
    <3> HIDE DEF task, options, prefix
    <3>5. LET m == Message(task, options, a)
              job == [task |-> task.name, id |-> a,
                      body |-> <<options.args, options.kwargs>>,
                      eta |-> dateOrNull(options.eta), expires |-> dateOrNull(options.expires),
                      replyTo |-> task.appId, priority |-> options.priority]
          IN /\ OnRabbitMq(m).at = QueueOf(task, options)
             /\ RabbitMqWorkerReads(OnRabbitMq(m)) = {job}
             /\ OnRedis(m, prefix).at = <<prefix, QueueOf(task, options)>>
             /\ RedisWorkerReads(OnRedis(m, prefix)) = {job}
      BY <3>4, WorkerReads
    <3>6. /\ OnRabbitMq(MessageOf(a)).at = QueueOf(task, options)
          /\ RabbitMqWorkerReads(OnRabbitMq(MessageOf(a))) = {JobOf(a)}
          /\ OnRedis(MessageOf(a), prefix).at = <<prefix, QueueOf(task, options)>>
          /\ RedisWorkerReads(OnRedis(MessageOf(a), prefix)) = {JobOf(a)}
      BY <3>2, <3>3, <3>5
    <3> QED BY <3>6 DEF task, options, prefix
  <2> QED BY <2>2, <2>4
<1> QED BY <1>1, ClientInvariant, PTL-----------------------------------------------------------------------------
(* AmqpBroker as a service                                                 *)

Outcomes == [a \in Calls |-> Amqp!Outcome(a)]
Using == {a \in Calls : call[a] = "holding"}
Delivered == {a \in Calls : copies[a] > 0}
Learned == [a \in Calls |-> IF copies[a] > 0 THEN {"message"} ELSE {}]
contract == <<Outcomes, Using, Delivered, Learned, Amqp!Ending>>

LEMMA ContractVars ==
  /\ UNCHANGED contract => UNCHANGED Amqp!Service!contractVars
  /\ Amqp!Service!Requests = Calls
BY DEF Amqp!Service!contractVars, contract, Outcomes, Using, Delivered, Learned,
   Amqp!Service!Requests

LEMMA ServiceSteps ==
  ASSUME \/ \E a \in Calls :
              \/ Amqp!Service!Make(a) \/ Amqp!Service!Begin(a)
              \/ Amqp!Service!Deliver(a, "message")
              \/ Amqp!Service!ResolvePut(a) \/ Amqp!Service!RejectPut(a)
         \/ Amqp!Service!End \/ Amqp!Service!Close
  PROVE  Amqp!Service!Next
BY ContractVars DEF Amqp!Service!Next

\* What the service sees of a publication.
LEMMA OutcomeOf ==
  /\ \A a \in Calls :
       /\ publication[a] = "idle" => Amqp!Outcome(a) = "unmade"
       /\ publication[a] \in AtWork \union {"connecting"} => Amqp!Outcome(a) = "pending"
       /\ publication[a] = "done" => Amqp!Outcome(a) = "resolved"
       /\ publication[a] = "cut" => Amqp!Outcome(a) = "rejected"
  /\ \A a \in Calls :
       /\ publication'[a] = "idle" => Amqp!Outcome(a)' = "unmade"
       /\ publication'[a] \in AtWork \union {"connecting"} => Amqp!Outcome(a)' = "pending"
       /\ publication'[a] = "done" => Amqp!Outcome(a)' = "resolved"
       /\ publication'[a] = "cut" => Amqp!Outcome(a)' = "rejected"
BY DEF Amqp!Outcome, AtWork

\* A publication changes its own part only.
LEMMA OnePublication ==
  ASSUME AmqpInv, AmqpInv', NEW a \in Calls,
         Amqp!publish(a) \/ Amqp!assert(a) \/ Amqp!doPublish(a) \/ Amqp!Finish(a) \/ Amqp!Cut(a)
  PROVE  /\ Outcomes' = [Outcomes EXCEPT ![a] = Amqp!Outcome(a)']
         /\ Using' = IF publication'[a] \in AtWork THEN Using \union {a} ELSE Using \ {a}
         /\ ~Amqp!doPublish(a) => UNCHANGED <<Delivered, Learned>>
<1>1. \A b \in Calls \ {a} : publication'[b] = publication[b]
  BY DEF Amqp!publish, Amqp!assert, Amqp!doPublish, Amqp!Finish, Amqp!Cut, Amqp!Goto,
     AmqpInv, AmqpTypes
<1>2. \A b \in Calls \ {a} : Amqp!Outcome(b)' = Amqp!Outcome(b)
  BY <1>1 DEF Amqp!Outcome
<1>3. /\ \A b \in Calls : b \in Using <=> publication[b] \in AtWork
      /\ \A b \in Calls : b \in Using' <=> publication'[b] \in AtWork
      /\ Using \subseteq Calls /\ Using' \subseteq Calls
  BY DEF Using, AmqpInv, PublicationsOwn
<1>4. ~Amqp!doPublish(a) => UNCHANGED <<Delivered, Learned>>
  BY DEF Amqp!publish, Amqp!assert, Amqp!Finish, Amqp!Cut, Delivered, Learned
<1>5. Outcomes' = [Outcomes EXCEPT ![a] = Amqp!Outcome(a)']
  BY <1>2 DEF Outcomes
<1>6. Using' = IF publication'[a] \in AtWork THEN Using \union {a} ELSE Using \ {a}
  BY <1>1, <1>3
<1> QED BY <1>4, <1>5, <1>6

\* A call is made of the broker, and is given its channel.
LEMMA BeginService ==
  ASSUME AmqpInv, AmqpInv', NEW a \in Calls, Amqp!publish(a) \/ Amqp!assert(a)
  PROVE  Amqp!Service!Next
<1>1. /\ Outcomes' = [Outcomes EXCEPT ![a] = Amqp!Outcome(a)']
      /\ Using' = IF publication'[a] \in AtWork THEN Using \union {a} ELSE Using \ {a}
      /\ ~Amqp!doPublish(a) => UNCHANGED <<Delivered, Learned>>
  BY OnePublication
<1>2. /\ ~Amqp!doPublish(a)
      /\ Amqp!publish(a) => publication[a] = "idle" /\ publication'[a] = "connecting"
      /\ Amqp!assert(a) => publication[a] = "connecting" /\ publication'[a] = "asserting"
  BY DEF Amqp!publish, Amqp!assert, Amqp!doPublish, Amqp!Goto, AmqpInv, AmqpTypes
<1>3. Amqp!Ending' = Amqp!Ending
  <2>1. destroying' = destroying
    BY PoolGets, PoolServes, GetMoves, ServeMoves DEF Amqp!publish, Amqp!assert, AmqpInv
  <2> QED BY <2>1 DEF Amqp!Ending, Amqp!publish, Amqp!assert
<1>4. a \in Using <=> publication[a] \in AtWork
  BY DEF Using, AmqpInv, PublicationsOwn
<1>5. CASE Amqp!publish(a)
  <2>1. Outcomes[a] = "unmade" /\ Amqp!Outcome(a)' = "pending"
    BY <1>2, <1>5, OutcomeOf DEF Outcomes
  <2>2. Using' = Using
    BY <1>1, <1>2, <1>4, <1>5 DEF AtWork
  <2>3. Amqp!Service!Make(a)
    BY <1>1, <1>2, <1>3, <2>1, <2>2
       DEF Amqp!Service!Make, Outcomes, Using, Delivered, Learned
  <2> QED BY <2>3, ServiceSteps
<1>6. CASE Amqp!assert(a)
  <2>1. Outcomes[a] = "pending" /\ Amqp!Outcome(a)' = "pending"
    BY <1>2, <1>6, OutcomeOf DEF Outcomes, AtWork
  <2>2. Using' = Using \union {a}
    BY <1>1, <1>2, <1>6 DEF AtWork
  <2>3. Outcomes' = Outcomes
    BY <1>1, <2>1 DEF Outcomes
  <2>4. Amqp!Service!Begin(a)
    BY <1>1, <1>2, <1>3, <2>1, <2>2, <2>3
       DEF Amqp!Service!Begin, Outcomes, Using, Delivered, Learned
  <2> QED BY <2>4, ServiceSteps
<1> QED BY <1>5, <1>6

\* The message is written, for the first time or once more.
LEMMA DeliverService ==
  ASSUME AmqpInv, AmqpInv', NEW a \in Calls, Amqp!doPublish(a) PROVE Amqp!Service!Next
<1>1. /\ Outcomes' = [Outcomes EXCEPT ![a] = Amqp!Outcome(a)']
      /\ Using' = IF publication'[a] \in AtWork THEN Using \union {a} ELSE Using \ {a}
  BY OnePublication
<1>2. /\ publication[a] \in {"asserting", "draining"} /\ publication'[a] \in {"sent", "draining"}
      /\ UNCHANGED <<closing, destroying>> /\ closing # "closed"
  BY DEF Amqp!doPublish, Amqp!Goto, Amqp!poolVars, AmqpInv, AmqpTypes
<1>3. Outcomes[a] = "pending" /\ Amqp!Outcome(a)' = "pending"
  BY <1>2, OutcomeOf DEF Outcomes, AtWork
<1>4. Outcomes' = Outcomes
  BY <1>1, <1>3 DEF Outcomes
<1>5. a \in Using /\ Using' = Using
  <2>1. a \in Using
    BY <1>2 DEF Using, AmqpInv, PublicationsOwn, AtWork
  <2> QED BY <1>1, <1>2, <2>1 DEF AtWork
<1>6. copies'[a] > 0 /\ \A b \in Calls \ {a} : copies'[b] = copies[b]
  <2>1. copies \in [Calls -> 0..MaxSends] /\ copies' = [copies EXCEPT ![a] = @ + 1]
    BY DEF Amqp!doPublish, AmqpInv, AmqpTypes
  <2>2. copies[a] \in Nat /\ copies'[a] = copies[a] + 1
    BY <2>1, ClientAssumption
  <2> QED BY <2>1, <2>2
<1>7. Delivered' = Delivered \union {a} /\ Learned' = [Learned EXCEPT ![a] = @ \union {"message"}]
  <2>1. Delivered' = Delivered \union {a}
    BY <1>6 DEF Delivered
  <2>2. Learned'[a] = Learned[a] \union {"message"}
    BY <1>6 DEF Learned
  <2>3. \A b \in Calls \ {a} : Learned'[b] = Learned[b]
    BY <1>6 DEF Learned
  <2>4. /\ Learned = [b \in Calls |-> Learned[b]]
        /\ Learned' = [b \in Calls |-> Learned'[b]]
    BY DEF Learned
  <2> QED BY <2>1, <2>2, <2>3, <2>4
<1>8. Amqp!Ending' = Amqp!Ending /\ Amqp!Ending # "closed"
  BY <1>2 DEF Amqp!Ending
<1>9. Amqp!Service!Deliver(a, "message")
  BY <1>4, <1>5, <1>7, <1>8
     DEF Amqp!Service!Deliver, Amqp!Service!Learn, Outcomes, Using, Delivered, Learned
<1> QED BY <1>9, ServiceSteps

\* A publication is over, or is cut.
LEMMA SettleService ==
  ASSUME AmqpInv, AmqpInv', NEW a \in Calls, Amqp!Finish(a) \/ Amqp!Cut(a)
  PROVE  Amqp!Service!Next
<1>1. /\ Outcomes' = [Outcomes EXCEPT ![a] = Amqp!Outcome(a)']
      /\ Using' = IF publication'[a] \in AtWork THEN Using \union {a} ELSE Using \ {a}
      /\ ~Amqp!doPublish(a) => UNCHANGED <<Delivered, Learned>>
  BY OnePublication
<1>2. /\ Amqp!Finish(a) => publication[a] = "sent" /\ publication'[a] = "done"
      /\ Amqp!Cut(a) => /\ publication[a] \in {"connecting", "asserting", "draining"}
                        /\ publication'[a] = "cut"
      /\ closing' = closing
  BY DEF Amqp!Finish, Amqp!Cut, Amqp!Goto, AmqpInv, AmqpTypes
<1>3. UNCHANGED <<Delivered, Learned>>
  <2>1. ~Amqp!doPublish(a)
    BY <1>2 DEF Amqp!doPublish, Amqp!Goto, AmqpInv, AmqpTypes
  <2> QED BY <1>1, <2>1
<1>4. Using' = Using \ {a}
  BY <1>1, <1>2 DEF AtWork
<1>5. CASE Amqp!Finish(a)
  <2>1. Outcomes[a] = "pending" /\ Amqp!Outcome(a)' = "resolved" /\ a \in Delivered
    BY <1>2, <1>5, OutcomeOf DEF Outcomes, AtWork, Delivered, AmqpInv, Copied
  <2>2. \/ destroying'["end"] = destroying["end"]
        \/ /\ destroying["end"] = "awaitEmpty" /\ destroying'["end"] = "notified"
           /\ \A b \in Calls \ {a} : call[b] # "holding"
    BY <1>5, PoolReturns, ReturnMoves DEF Amqp!Finish, AmqpInv
  <2>3. \/ Amqp!Ending' = Amqp!Ending
        \/ Amqp!Ending = "draining" /\ Using' = {} /\ Amqp!Ending' = "drained"
    <3>1. (\A b \in Calls \ {a} : call[b] # "holding") => Using' = {}
      BY <1>4 DEF Using
    <3>2. closing # "closed" \/ destroying["end"] = "done"
      BY DEF AmqpInv, EndStages
    <3>3. closing # "open" \/ destroying["end"] = "idle"
      BY DEF AmqpInv, EndStages
    <3> QED BY <1>2, <2>2, <3>1, <3>2, <3>3 DEF Amqp!Ending, AmqpInv, AmqpTypes
  <2>4. Amqp!Service!ResolvePut(a)
    BY <1>1, <1>3, <1>4, <2>1, <2>3
       DEF Amqp!Service!ResolvePut, Amqp!Service!Settle, Outcomes, Using, Delivered, Learned
  <2> QED BY <2>4, ServiceSteps
<1>6. CASE Amqp!Cut(a)
  <2>1. Outcomes[a] = "pending" /\ Amqp!Outcome(a)' = "rejected"
    BY <1>2, <1>6, OutcomeOf DEF Outcomes, AtWork
  <2>2. Amqp!Ending = "closed" /\ Amqp!Ending' = Amqp!Ending
    BY <1>2, <1>6 DEF Amqp!Ending, Amqp!Cut
  <2>3. Amqp!Service!RejectPut(a)
    BY <1>1, <1>3, <1>4, <2>1, <2>2
       DEF Amqp!Service!RejectPut, Amqp!Service!Settle, Outcomes, Using, Delivered, Learned
  <2> QED BY <2>3, ServiceSteps
<1> QED BY <1>5, <1>6

\* end() waits for those who have a channel, and then closes the connection.
LEMMA EndService ==
  ASSUME AmqpInv, Amqp!end \/ Amqp!EndClose PROVE Amqp!Service!Next
<1>1. UNCHANGED <<publication, copies, call>>
  BY PoolEnds, EndMoves DEF Amqp!end, Amqp!EndClose, Amqp!poolVars, AmqpInv
<1>2. UNCHANGED <<Outcomes, Using, Delivered, Learned>>
  BY <1>1 DEF Outcomes, Amqp!Outcome, Using, Delivered, Learned
<1>3. CASE Amqp!end
  <2>1. closing = "open" /\ closing' = "closing"
    BY <1>3 DEF Amqp!end
  <2>2. Using = {} <=> inUse = {}
    BY DEF AmqpInv, Proved!Inv, Proved!Custody, Proved!InUseExact, Using
  <2>3. /\ Amqp!Pool!DestroyNow("end") => inUse = {} /\ destroying'["end"] = "done"
        /\ Amqp!Pool!DestroyLater("end") => inUse # {} /\ destroying'["end"] = "awaitEmpty"
    BY PoolEnds, EndMoves DEF AmqpInv, Amqp!Pool!DestroyNow, Amqp!Pool!DestroyLater
  <2>4. Amqp!Ending = "open" /\ Amqp!Ending' = IF Using = {} THEN "drained" ELSE "draining"
    BY <1>3, <2>1, <2>2, <2>3 DEF Amqp!Ending, Amqp!end
  <2>5. Amqp!Service!End
    BY <1>2, <2>4 DEF Amqp!Service!End, Outcomes, Using, Delivered, Learned
  <2> QED BY <2>5, ServiceSteps
<1>4. CASE Amqp!EndClose
  <2>1. Amqp!Ending = "drained" /\ Amqp!Ending' = "closed"
    BY <1>4 DEF Amqp!EndClose, Amqp!DestroyDone, Amqp!Ending
  <2>2. Amqp!Service!Close
    BY <1>2, <2>1 DEF Amqp!Service!Close, Outcomes, Using, Delivered, Learned
  <2> QED BY <2>2, ServiceSteps
<1> QED BY <1>3, <1>4

\* Who creates a channel, and the end of destroyAll(), do not show.
LEMMA QuietService ==
  ASSUME AmqpInv,
         UNCHANGED amqpVars \/ Amqp!EndResume \/ \E a \in Calls : Amqp!Created(a)
  PROVE  UNCHANGED contract
<1>1. UNCHANGED <<publication, copies, closing>>
  BY DEF amqpVars, Amqp!EndResume, Amqp!Created
<1>2. /\ \A b \in Calls : call'[b] = "holding" <=> call[b] = "holding"
      /\ destroying'["end"] = "awaitEmpty" <=> destroying["end"] = "awaitEmpty"
  BY PoolServes, ServeMoves, PoolEnds, EndMoves
     DEF amqpVars, Amqp!EndResume, Amqp!Created, AmqpInv, Others, Joining
<1>3. Amqp!Ending' = Amqp!Ending
  BY <1>1, <1>2 DEF Amqp!Ending
<1> QED BY <1>1, <1>2, <1>3
        DEF contract, Outcomes, Amqp!Outcome, Using, Delivered, Learned

LEMMA InitService == ASSUME Amqp!Init PROVE Amqp!Service!Init
<1>1. /\ publication = [a \in Calls |-> "idle"] /\ copies = [a \in Calls |-> 0]
      /\ closing = "open" /\ call = [a \in Calls |-> "idle"]
  BY DEF Amqp!Init, Amqp!Pool!Init
<1>2. \A a \in Calls : Amqp!Outcome(a) = "unmade" /\ ~(copies[a] > 0) /\ call[a] # "holding"
  BY <1>1, OutcomeOf
<1>3. Amqp!Ending = "open"
  BY <1>1 DEF Amqp!Ending
<1> QED BY <1>2, <1>3, ContractVars DEF Amqp!Service!Init

LEMMA NextService ==
  ASSUME AmqpInv, AmqpInv', [Next]_vars
  PROVE  [Amqp!Service!Next]_(Amqp!Service!contractVars)
<1>1. \/ UNCHANGED amqpVars \/ Amqp!end \/ Amqp!Go
      \/ \E a \in Calls : Amqp!publish(a)
  BY DEF vars, brokerVars, Next, CreateClient, CreateTask, applyAsync, Publish,
     DisconnectOrEndAll, BrokerStep
<1> QED BY <1>1, QuietService, BeginService, DeliverService, SettleService, EndService,
           ContractVars DEF Amqp!Go, Amqp!Microtask, Amqp!Event

\* AmqpBroker keeps what the interface promises of a put(): publish() resolves
\* when its message was sent and is rejected by a closed connection only, and
\* end() closes the connection after a moment at which nobody has a channel.
THEOREM ClientBrokerImplementsService == Spec => BrokerImplementsService
<1>1. Init => Amqp!Service!Init
  BY InitService DEF Init
<1>2. IInv /\ IInv' /\ [Next]_vars => [Amqp!Service!Next]_(Amqp!Service!contractVars)
  BY NextService DEF IInv
<1>3. Init => IInv
  BY ClientStarts
<1>4. IInv /\ [Next]_vars => IInv'
  BY ClientNext
<1> QED BY <1>1, <1>2, <1>3, <1>4, PTL DEF Spec, BrokerImplementsService, Amqp!Service!Spec

\* And its channels are passed round as PoolContract says, whatever is applied,
\* ended or disconnected.
THEOREM ClientPoolKeepsContract == Spec => Proved!ImplementsContract
<1>1. Init => Proved!Init
  BY DEF Init, Amqp!Init, Amqp!Pool!Init, Proved!Init
<1>2. [Next]_vars => [Proved!Next]_(Proved!vars)
  <2> SUFFICES ASSUME [Next]_vars PROVE [Proved!Next]_(Proved!vars)
    OBVIOUS
  <2>1. \/ UNCHANGED amqpVars \/ Amqp!end \/ Amqp!Go
        \/ \E a \in Calls : Amqp!publish(a)
    BY DEF vars, brokerVars, Next, CreateClient, CreateTask, applyAsync, Publish,
       DisconnectOrEndAll, BrokerStep
  <2>2. \/ PoolUnchanged
        \/ \E a \in Calls :
             \/ Proved!Get(a) \/ Proved!CreateOk(a) \/ Proved!CreateFail(a)
             \/ Proved!Acquire(a) \/ Proved!Return(a)
        \/ Proved!DestroyNow("end") \/ Proved!DestroyLater("end")
        \/ Proved!DestroyResume("end")
    BY <2>1, PoolGets, PoolServes, PoolReturns, PoolEnds
       DEF amqpVars, PoolUnchanged, Amqp!publish, Amqp!end, Amqp!Go, Amqp!Microtask,
           Amqp!Event, Amqp!EndResume, Amqp!assert, Amqp!Finish, Amqp!Created,
           Amqp!doPublish, Amqp!Cut, Amqp!EndClose, Amqp!poolVars
  <2> QED BY <2>2, PoolKept DEF Proved!Next, Proved!Serve, Proved!Destroy
<1>3. Spec => Proved!Spec
  BY <1>1, <1>2, PTL DEF Spec, Proved!Spec
<1> QED BY <1>3, PoolFits, Proved!PoolImplementsContract
=============================================================================

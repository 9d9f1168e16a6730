----------------------------- MODULE AmqpBroker -----------------------------
(***************************************************************************)
(* The RabbitMQ broker of src/amqp/broker.ts: publish() over a pool of two *)
(* channels of one connection, and end(), which disconnect() is too.       *)
(*                                                                         *)
(*   idle -> connecting -> asserting (-> draining)* -> sent -> done        *)
(*                                                                         *)
(* or "cut" when the connection closes under a publication.                *)
(***************************************************************************)
EXTENDS Naturals, Sequences

CONSTANTS
  Publications,     \* the calls of publish(), each made once
  Chans, None,
  Slow, MaxSends    \* which of them may find the buffer full, and bounds how
                    \* often each message is sent

VARIABLES
  unused, inUse, resourceCount, waiting, call, got, destroying, created, destroyed,
  publication,  \* the control state of each call
  copies,       \* the copies of each message the server has been sent
  closing,      \* whether end() was called, and whether it closed the connection
  spared        \* history: the publications at work when end() was called

poolVars == <<unused, inUse, resourceCount, waiting, call, got, destroying,
              created, destroyed>>
vars == <<poolVars, publication, copies, closing, spared>>

Pool == INSTANCE ResourcePool WITH
  Callers <- Publications, Closers <- {"end"}, Resources <- Chans,
  MaxResources <- 2, CreateMayFail <- TRUE

Init ==
  /\ Pool!Init
  /\ publication = [p \in Publications |-> "idle"]
  /\ copies = [p \in Publications |-> 0]
  /\ closing = "open" /\ spared = {}

Goto(p, s) == publication' = [publication EXCEPT ![p] = s]

publish(p) ==
  /\ publication[p] = "idle"
  /\ Pool!Get(p)
  /\ Goto(p, "connecting")
  /\ UNCHANGED <<copies, closing, spared>>

\* The connection is open: createChannel(), the channels being interchangeable.
Created(p) ==
  /\ closing # "closed"
  /\ Pool!CreateOk(p)
  /\ created' \ created = {CHOOSE n \in Chans \ created : TRUE}
  /\ UNCHANGED <<publication, copies, closing, spared>>

\* use() has its channel: assertQueue() of the routing key.
assert(p) ==
  /\ publication[p] = "connecting"
  /\ Pool!Acquire(p)
  /\ Goto(p, "asserting")
  /\ UNCHANGED <<copies, closing, spared>>

\* FALSE from channel.publish() means that the buffer is full now, but the
\* message is in it.  The loop waits for "drain" and publishes it again.
doPublish(p) ==
  /\ closing # "closed"
  /\ publication[p] \in {"asserting", "draining"}
  /\ copies' = [copies EXCEPT ![p] = @ + 1]
  /\ \/ Goto(p, "sent")
     \/ p \in Slow /\ copies'[p] < MaxSends /\ Goto(p, "draining")
  /\ UNCHANGED <<poolVars, closing, spared>>

Finish(p) ==
  /\ publication[p] = "sent"
  /\ Pool!Return(p)
  /\ Goto(p, "done")
  /\ UNCHANGED <<copies, closing, spared>>

\* Nothing can be created or used on a closed connection.
Cut(p) ==
  /\ closing = "closed"
  /\ \/ publication[p] = "connecting" /\ Pool!CreateFail(p)
     \/ publication[p] \in {"asserting", "draining"} /\ Pool!Return(p)
  /\ Goto(p, "cut")
  /\ UNCHANGED <<copies, closing, spared>>

end ==
  /\ closing = "open"
  /\ Pool!DestroyNow("end") \/ Pool!DestroyLater("end")
  /\ closing' = "closing"
  /\ spared' = {p \in Publications : publication[p] \in {"asserting", "draining", "sent"}}
  /\ UNCHANGED <<publication, copies>>

EndResume ==
  /\ Pool!DestroyResume("end")
  /\ UNCHANGED <<publication, copies, closing, spared>>

\* Mutant: destroyAll() is not awaited.
DestroyCalled == TRUE

DestroyDone == destroying["end"] = "done"

EndClose ==
  /\ closing = "closing"
  /\ DestroyDone
  /\ closing' = "closed"
  /\ UNCHANGED <<poolVars, publication, copies, spared>>

-----------------------------------------------------------------------------
\* Replies and events come when no continuation is left to run.
NoMicrotask ==
  /\ \A p \in Publications : call[p] # "granted" /\ publication[p] # "sent"
  /\ destroying["end"] # "notified"

Microtask == EndResume \/ \E p \in Publications : assert(p) \/ Finish(p)
Event ==
  /\ NoMicrotask
  /\ \E p \in Publications : Created(p) \/ doPublish(p) \/ Cut(p)
Go == Microtask \/ Event \/ EndClose

TypeOK ==
  /\ Pool!TypeOK
  /\ publication \in [Publications -> {"idle", "connecting", "asserting", "draining",
                                       "sent", "done", "cut"}]
  /\ copies \in [Publications -> 0..MaxSends]
  /\ closing \in {"open", "closing", "closed"}
  /\ spared \subseteq Publications

-----------------------------------------------------------------------------
\* What each call of publish() has come to.
Outcome(p) ==
  CASE publication[p] = "idle" -> "unmade"
    [] publication[p] = "done" -> "resolved"
    [] publication[p] = "cut" -> "rejected"
    [] OTHER -> "pending"

Ending ==
  IF closing # "closing" THEN closing
  ELSE IF destroying["end"] = "awaitEmpty" THEN "draining" ELSE "drained"

\* publish() is a put(), of a message that is learned by sending it.
Service == INSTANCE ServiceContract WITH
  Gets <- {}, Deletes <- {}, Puts <- Publications,
  Tasks <- Publications, TaskOf <- [p \in Publications |-> p], Results <- {"message"},
  outcome <- [p \in Publications |-> Outcome(p)],
  using <- {p \in Publications : call[p] = "holding"},
  delivered <- {p \in Publications : copies[p] > 0},
  reported <- [p \in Publications |-> IF copies[p] > 0 THEN {"message"} ELSE {}],
  closing <- Ending
=============================================================================

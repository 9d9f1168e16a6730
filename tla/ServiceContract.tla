-------------------------- MODULE ServiceContract ---------------------------
(***************************************************************************)
(* What a client's connection to a server promises its caller, without     *)
(* pools, consumers or wires: the interfaces of src/result_backend.ts and  *)
(* src/message_broker.ts.  RedisBackend and RpcBackend implement it, and   *)
(* AmqpBroker does, whose publish() is a put().                            *)
(*                                                                         *)
(* A call is settled once and for all.  A get() is answered by a result of *)
(* its own task only.  A put() resolves when its message was delivered,    *)
(* and is rejected by a closed connection only.  end() waits for a moment  *)
(* at which nobody uses the connection, and closes it some time after it:  *)
(* whoever uses it before that moment is served, and whoever begins        *)
(* between the two may be cut.                                             *)
(***************************************************************************)
CONSTANTS
  Gets, Deletes, Puts,  \* the calls, each made at most once
  Tasks, TaskOf,        \* the tasks, and the one each call is about
  Results               \* what may be reported on a task

VARIABLES
  outcome,      \* of each call: "unmade", "pending", "rejected", "resolved" or
                \* what it was answered
  using,        \* the calls that have a connection or a channel to themselves
  delivered,    \* the put() whose message the server has been sent
  reported,     \* task -> the results reported on it, by put() or by workers
  closing       \* "open"; end() waits: "draining"; it has seen that nobody
                \* uses the connection: "drained"; "closed"

contractVars == <<outcome, using, delivered, reported, closing>>

Requests == Gets \union Deletes \union Puts

Init ==
  /\ outcome = [c \in Requests |-> "unmade"]
  /\ using = {} /\ delivered = {}
  /\ reported = [t \in Tasks |-> {}]
  /\ closing = "open"

Make(c) ==
  /\ outcome[c] = "unmade"
  /\ outcome' = [outcome EXCEPT ![c] = "pending"]
  /\ UNCHANGED <<using, delivered, reported, closing>>

Begin(c) ==
  /\ outcome[c] = "pending"
  /\ using' = using \union {c}
  /\ UNCHANGED <<outcome, delivered, reported, closing>>

Learn(t, r) == reported' = [reported EXCEPT ![t] = @ \union {r}]

\* A message may be sent again, but not on a closed connection.
Deliver(p, r) ==
  /\ p \in using /\ closing # "closed"
  /\ delivered' = delivered \union {p}
  /\ Learn(TaskOf[p], r)
  /\ UNCHANGED <<outcome, using, closing>>

Report(t, r) ==
  /\ Learn(t, r)
  /\ UNCHANGED <<outcome, using, delivered, closing>>

\* A call ends.  If it was the last one to use the connection, the end() that
\* waits for that goes on.
Settle(c, how) ==
  /\ outcome' = [outcome EXCEPT ![c] = how]
  /\ using' = using \ {c}
  /\ \/ closing' = closing
     \/ closing = "draining" /\ using' = {} /\ closing' = "drained"
  /\ UNCHANGED <<delivered, reported>>

ResolveGet(g, r) ==
  /\ outcome[g] = "pending"
  /\ r \in reported[TaskOf[g]]
  /\ Settle(g, r)

RejectGet(g) == outcome[g] = "pending" /\ Settle(g, "rejected")

\* delete() may be done with in the call itself.
ResolveDelete(d) == outcome[d] \in {"unmade", "pending"} /\ Settle(d, "resolved")

ResolvePut(p) == outcome[p] = "pending" /\ p \in delivered /\ Settle(p, "resolved")

\* Whatever the put() has done: it may have begun after end() had looked.
RejectPut(p) == outcome[p] = "pending" /\ closing = "closed" /\ Settle(p, "rejected")

End ==
  /\ closing = "open"
  /\ closing' = IF using = {} THEN "drained" ELSE "draining"
  /\ UNCHANGED <<outcome, using, delivered, reported>>

Close ==
  /\ closing = "drained"
  /\ closing' = "closed"
  /\ UNCHANGED <<outcome, using, delivered, reported>>

Next ==
  \/ \E c \in Requests : Make(c) \/ Begin(c)
  \/ \E g \in Gets : RejectGet(g) \/ \E r \in Results : ResolveGet(g, r)
  \/ \E d \in Deletes : ResolveDelete(d)
  \/ \E p \in Puts : ResolvePut(p) \/ RejectPut(p) \/ \E r \in Results : Deliver(p, r)
  \/ \E t \in Tasks, r \in Results : Report(t, r)
  \/ End \/ Close

Spec == Init /\ [][Next]_contractVars
=============================================================================

---------------------------- MODULE PoolContract ----------------------------
(***************************************************************************)
(* What a resource pool promises its users, without saying how: every      *)
(* resource has exactly one owner or is free, a free resource is never     *)
(* kept from a user, users that must queue are served first come first     *)
(* served, and only free resources are ever retired.  ResourcePool         *)
(* implements this contract; the refinement mapping is given there.        *)
(***************************************************************************)
EXTENDS Sequences

CONSTANTS Callers, Resources

VARIABLES
  owner,      \* who has each resource: a caller, or one of NoOwner
  queue,      \* the callers waiting for a resource, first come first
  ordered     \* the callers a new resource is being made for

contractVars == <<owner, queue, ordered>>

\* A resource that nobody made yet, that anybody may take, that was retired.
NoOwner == {"unborn", "free", "gone"}

Queued(c) == \E i \in DOMAIN queue : queue[i] = c
Owns(c) == \E r \in Resources : owner[r] = c
Outside(c) == ~Queued(c) /\ ~Owns(c) /\ c \notin ordered

SomeFree == \E r \in Resources : owner[r] = "free"

Init ==
  /\ owner = [r \in Resources |-> "unborn"]
  /\ queue = <<>>
  /\ ordered = {}

\* A caller takes a free resource; nobody may be queueing for one.
Take(c, r) ==
  /\ Outside(c)
  /\ queue = <<>>
  /\ owner[r] = "free"
  /\ owner' = [owner EXCEPT ![r] = c]
  /\ UNCHANGED <<queue, ordered>>

\* With nothing free, a new resource is ordered for the caller ...
Order(c) ==
  /\ Outside(c)
  /\ ~SomeFree
  /\ ordered' = ordered \union {c}
  /\ UNCHANGED <<owner, queue>>

\* ... which is later delivered to it, ...
Supply(c, r) ==
  /\ c \in ordered
  /\ owner[r] = "unborn"
  /\ owner' = [owner EXCEPT ![r] = c]
  /\ ordered' = ordered \ {c}
  /\ UNCHANGED queue

\* ... or cannot be made.
Refuse(c) ==
  /\ c \in ordered
  /\ ordered' = ordered \ {c}
  /\ UNCHANGED <<owner, queue>>

\* With nothing free, the caller may have to queue.
Enqueue(c) ==
  /\ Outside(c)
  /\ ~SomeFree
  /\ queue' = Append(queue, c)
  /\ UNCHANGED <<owner, ordered>>

\* A resource comes back, and nobody is queueing.
Release(c, r) ==
  /\ owner[r] = c
  /\ queue = <<>>
  /\ owner' = [owner EXCEPT ![r] = "free"]
  /\ UNCHANGED <<queue, ordered>>

\* A resource comes back and goes to the caller that has queued longest.
HandOver(c, r) ==
  /\ owner[r] = c
  /\ queue # <<>>
  /\ owner' = [owner EXCEPT ![r] = Head(queue)]
  /\ queue' = Tail(queue)
  /\ UNCHANGED ordered

\* Every free resource is retired, and no other.
Retire ==
  /\ owner' = [r \in Resources |-> IF owner[r] = "free" THEN "gone" ELSE owner[r]]
  /\ UNCHANGED <<queue, ordered>>

Next ==
  \/ \E c \in Callers :
       \/ Order(c) \/ Refuse(c) \/ Enqueue(c)
       \/ \E r \in Resources :
            Take(c, r) \/ Supply(c, r) \/ Release(c, r) \/ HandOver(c, r)
  \/ Retire

Spec == Init /\ [][Next]_contractVars
=============================================================================

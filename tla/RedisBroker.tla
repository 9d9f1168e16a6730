---------------------------- MODULE RedisBroker -----------------------------
(***************************************************************************)
(* The Redis broker of src/redis/broker.ts: one connection, on which the   *)
(* commands go in the order they are given, connected yet or not.          *)
(***************************************************************************)
EXTENDS Sequences

CONSTANT Publications

VARIABLES
  commands,   \* what the client has given and the server not executed
  pushed,     \* the publications in their lists at the server
  link        \* "open", "quitting", or "closed"

vars == <<commands, pushed, link>>

Init == commands = <<>> /\ pushed = {} /\ link = "open"

\* ioredis rejects what is given to a closed connection.
publish(p) ==
  /\ commands' = IF link = "closed" THEN commands ELSE Append(commands, p)
  /\ UNCHANGED <<pushed, link>>

disconnect ==
  /\ link = "open"
  /\ link' = "closed"
  /\ UNCHANGED <<commands, pushed>>

\* QUIT waits its turn like any command.
end ==
  /\ link = "open"
  /\ link' = "quitting"
  /\ commands' = Append(commands, "quit")
  /\ UNCHANGED pushed

\* The server executes a command; at QUIT it closes the connection, and so
\* does end() when it has the answer.
Execute ==
  /\ commands # <<>>
  /\ IF Head(commands) = "quit"
     THEN commands' = <<>> /\ link' = "closed" /\ UNCHANGED pushed
     ELSE /\ pushed' = pushed \union {Head(commands)}
          /\ commands' = Tail(commands)
          /\ UNCHANGED link

\* What a closed connection had not delivered is lost.
Lose ==
  /\ link = "closed"
  /\ commands # <<>>
  /\ commands' = <<>>
  /\ UNCHANGED <<pushed, link>>

Go == Execute \/ Lose

TypeOK ==
  /\ commands \in Seq(Publications \union {"quit"})
  /\ pushed \subseteq Publications
  /\ link \in {"open", "quitting", "closed"}
=============================================================================

------------------------------- MODULE Client -------------------------------
(***************************************************************************)
(* A client of Celery: createClient() of src/factories.ts, src/client.ts,  *)
(* applyAsync() of src/task.ts, and below them the brokers with their      *)
(* servers.  What the backends do is RpcBackend and RedisBackend.          *)
(***************************************************************************)
EXTENDS Factories, TaskMessage

CONSTANTS
  Configs,      \* what clients are made from: the URIs of the backend (<<>> if
                \* none) and of the brokers, taskDefaults, and of the calls the
                \* ones that are made
  Calls,        \* the calls of applyAsync(), each made at most once
  Tasks, TaskOf,    \* the tasks, and the one each call applies
  OptionsOf,    \* the options each call may have
  Chans, None, Slow, MaxSends

ASSUME ClientAssumption ==
  /\ \A c \in Configs : c.brokers \in Seq(Seq(WrittenUris)) /\ c.calls \subseteq Calls
  /\ TaskOf \in [Calls -> Tasks]
  /\ \A a \in Calls : \A options \in OptionsOf[a] :
       options.compression \in Compressors /\ options.serializer \in Serializers
  /\ Slow \subseteq Calls /\ MaxSends \in Nat \ {0}
  /\ IsFiniteSet(Calls) /\ Calls \intersect {"unborn", "free", "gone", "quit"} = {}
  /\ IsFiniteSet(Chans) /\ Cardinality(Chans) >= 2 /\ None \notin Chans \union Nat

VARIABLES
  phase,        \* "new"; "refused" or "made"; then "end" or "disconnect"
  config, backend, brokers,
  index,        \* the round robin's
  brokerOf,     \* the index of each task's broker, None before createTask()
  applied,      \* the options of each call made, or None
  outcome,      \* whether the Result of a call is "pending" or "rejected"
  \* AmqpBroker
  unused, inUse, resourceCount, waiting, call, got, destroying, created, destroyed,
  publication, copies, closing, spared,
  \* RedisBroker
  commands, pushed, link

clientVars == <<config, backend, brokers>>
callVars == <<applied, outcome>>
amqpVars == <<unused, inUse, resourceCount, waiting, call, got, destroying, created,
              destroyed, publication, copies, closing, spared>>
redisVars == <<commands, pushed, link>>
brokerVars == <<amqpVars, redisVars>>
vars == <<phase, clientVars, index, brokerOf, callVars, brokerVars>>

Amqp == INSTANCE AmqpBroker WITH Publications <- Calls
Redis == INSTANCE RedisBroker WITH Publications <- Calls

Init ==
  /\ phase = "new" /\ config = None
  /\ backend = None /\ brokers = <<>> /\ index = 1
  /\ brokerOf = [t \in Tasks |-> None]
  /\ applied = [a \in Calls |-> None] /\ outcome = [a \in Calls |-> None]
  /\ Amqp!Init /\ Redis!Init

-----------------------------------------------------------------------------
(* createClient()                                                          *)

Backend(uri) == IF uri = <<>> THEN {Component("null", NoFields)} ELSE createBackend(uri)

\* The URIs of the brokers before the first that throws.
Made(uris) == {i \in DOMAIN uris : \A j \in 1..i : createBroker(uris[j]) # {}}

\* The constructors connect: what was made before an error stays connected.
CreateClient(c) ==
  /\ phase = "new"
  /\ config' = c
  /\ LET b == Backend(c.backend)
         made == IF b = {} THEN {} ELSE Made(c.brokers)
     IN /\ backend' = IF b = {} THEN None ELSE CHOOSE x \in b : TRUE
        /\ brokers' = [i \in made |-> CHOOSE x \in createBroker(c.brokers[i]) : TRUE]
        /\ phase' = IF b # {} /\ made = DOMAIN c.brokers THEN "made" ELSE "refused"
  /\ UNCHANGED <<index, brokerOf, callVars, brokerVars>>

-----------------------------------------------------------------------------
(* createTask() and applyAsync()                                           *)

\* Modulo the number of brokers; with none, what is there is not a broker
\* before and not one after.
Advanced(i) == IF brokers = <<>> THEN i ELSE (i % Len(brokers)) + 1

\* The task keeps the broker its constructor is given by the round robin.
CreateTask(t) ==
  /\ phase = "made"
  /\ \E a \in config.calls : TaskOf[a] = t
  /\ brokerOf[t] = None
  /\ brokerOf' = [brokerOf EXCEPT ![t] = index]
  /\ index' = Advanced(index)
  /\ UNCHANGED <<phase, clientVars, callVars, brokerVars>>

\* What Task's constructor keeps: of taskDefaults what it is given for each
\* setting, and its own default for the others.
Task(t) ==
  LET Setting(n, default) == IF n \in DOMAIN config.defaults THEN config.defaults[n] ELSE default
  IN [appId |-> "app", name |-> t, queue |-> Setting("queue", "celery"),
      deliveryMode |-> Setting("deliveryMode", "persistent"),
      timeLimit |-> <<Setting("softTimeLimit", Null), Setting("hardTimeLimit", Null)>>]

\* The broker a call of the task goes to, if there is one.
KindOf(t) == IF brokerOf[t] \in DOMAIN brokers THEN brokers[brokerOf[t]].kind ELSE "none"

\* A broker's publish() never throws, it rejects, and tryPublish() does not
\* await it: the strategy for a failover is not asked.  Without a broker the
\* attempt to call one throws, the strategy is asked, and so on until the stack
\* is full: it has none to give and moves its index nowhere (Advanced), so that
\* all that is left is a call whose message went nowhere.
Publish(a) ==
  \/ KindOf(TaskOf[a]) = "amqp" /\ Amqp!publish(a) /\ UNCHANGED redisVars
  \/ KindOf(TaskOf[a]) = "redis" /\ Redis!publish(a) /\ UNCHANGED amqpVars
  \/ KindOf(TaskOf[a]) = "none" /\ UNCHANGED brokerVars

applyAsync(a) ==
  /\ phase # "new"
  /\ a \in config.calls
  /\ applied[a] = None /\ brokerOf[TaskOf[a]] # None
  /\ \E options \in OptionsOf[a] :
       /\ applied' = [applied EXCEPT ![a] = options]
       /\ outcome' = [outcome EXCEPT ![a] =
            IF options.ignoreResult \/ backend.kind = "null" THEN "rejected" ELSE "pending"]
  /\ Publish(a)
  /\ UNCHANGED <<phase, clientVars, index, brokerOf>>

-----------------------------------------------------------------------------
(* disconnectOrEndAll()                                                    *)

Uses(kind) == \E i \in DOMAIN brokers : brokers[i].kind = kind

EndRedis(how) == IF how = "end" THEN Redis!end ELSE Redis!disconnect

DisconnectOrEndAll(how) ==
  /\ phase = "made" /\ config.calls # {}
  /\ phase' = how
  /\ IF Uses("amqp") THEN Amqp!end ELSE UNCHANGED amqpVars
  /\ IF Uses("redis") THEN EndRedis(how) ELSE UNCHANGED redisVars
  /\ UNCHANGED <<clientVars, index, brokerOf, callVars>>

-----------------------------------------------------------------------------
BrokerStep ==
  /\ \/ Amqp!Go /\ UNCHANGED redisVars
     \/ Redis!Go /\ UNCHANGED amqpVars
  /\ UNCHANGED <<phase, clientVars, index, brokerOf, callVars>>

Next ==
  \/ \E c \in Configs : CreateClient(c)
  \/ \E t \in Tasks : CreateTask(t)
  \/ \E a \in Calls : applyAsync(a)
  \/ \E how \in {"end", "disconnect"} : DisconnectOrEndAll(how)
  \/ BrokerStep

Spec == Init /\ [][Next]_vars

\* The event loop and the servers go on and "drain" comes; every call is made
\* at most once, so that it is enough that something is done while anything
\* is left to do.
FairSpec == Spec /\ WF_vars(BrokerStep)

-----------------------------------------------------------------------------
(* Properties                                                              *)

TypeOK ==
  /\ phase \in {"new", "refused", "made", "end", "disconnect"}
  /\ config \in Configs \union {None}
  /\ brokerOf \in [Tasks -> Nat \union {None}]
  /\ \A a \in Calls : applied[a] = None \/ applied[a] \in OptionsOf[a]
  /\ outcome \in [Calls -> {None, "pending", "rejected"}]
  /\ Amqp!TypeOK /\ Redis!TypeOK

\* What workers can have: the messages at the servers.
AtRabbitMq(a) == copies[a] > 0
AtRedis(a) == a \in pushed

MessageOf(a) == Message(Task(TaskOf[a]), applied[a], a)
Prefix(a) == brokers[brokerOf[TaskOf[a]]].options["keyPrefix"]

JobOf(a) ==
  [task |-> TaskOf[a], id |-> a, body |-> <<applied[a].args, applied[a].kwargs>>,
   eta |-> dateOrNull(applied[a].eta), expires |-> dateOrNull(applied[a].expires),
   replyTo |-> "app", priority |-> applied[a].priority]

\* A worker that takes a message from the queue a call was meant for reads in
\* it the call's task, arguments, dates and priority, the id the Result waits
\* for, and the queue the RPC backend of the client consumes; whichever
\* compression, serializer and broker carried it.
WorkersCanRead ==
  \A a \in Calls :
    LET queue == QueueOf(Task(TaskOf[a]), applied[a])
        inRabbitMq == OnRabbitMq(MessageOf(a))
        inRedis == OnRedis(MessageOf(a), Prefix(a))
    IN /\ AtRabbitMq(a) => inRabbitMq.at = queue /\ RabbitMqWorkerReads(inRabbitMq) = {JobOf(a)}
       /\ AtRedis(a) => inRedis.at = <<"", queue>> /\ RedisWorkerReads(inRedis) = {JobOf(a)}

\* end() waits: when it closes the connection to RabbitMQ, every publication
\* that had a channel when it was called is at the server, whatever the others
\* that waited for a channel went through in the meantime.
EndWaits ==
  closing = "closed" => \A a \in spared : AtRabbitMq(a)

\* AmqpBroker keeps what the interface promises of a put(), whatever tasks are
\* applied by the client: publish() resolves when its message was sent, and is
\* rejected by a closed connection only, which end() closes when it has seen a
\* moment at which no publication had a channel.
BrokerImplementsService == Amqp!Service!Spec

\* A task that is applied while the client has brokers goes to one of them and
\* gets to its server.  RabbitMQ: unless end() is called before the call has a
\* channel; its publication then may be cut, or be left for ever in the queue
\* of the pool.  Redis: unless disconnect() cancels it.  (What is applied after
\* end() may be lost with either.)
GentleEnd ==
  \A a \in Calls :
    applied[a] # None /\ phase = "made" /\ brokers # <<>> ~>
      \/ AtRabbitMq(a) \/ AtRedis(a)
      \/ KindOf(TaskOf[a]) = "amqp" /\ closing # "open" /\ a \notin spared
      \/ KindOf(TaskOf[a]) = "redis" /\ phase = "disconnect"

-----------------------------------------------------------------------------
(* What a URI comes to mean, read without the parsers.                     *)
(*                                                                         *)
(* It is what the documentation of the formats says, but in six places,    *)
(* where it is what the code makes of it and the documentation contradicts *)
(* or does not say it (the README quotes them):                            *)
(*   - "7x" is database 7;                                                 *)
(*   - a key in snake case takes the place of its twin in camel case;      *)
(*   - a repeated key without a parser is the list of its values;          *)
(*   - a vhost before a query is no vhost;                                 *)
(*   - a password next to a user is not decoded;                           *)
(*   - createUri() does not encode what was decoded.                       *)

NumeralMeans == "0" :> 0 @@ "7" :> 7 @@ "16" :> 16 @@ "020" :> 16 @@ "0x10" :> 16 @@
                "0b101" :> 5
PortMeans == "5673" :> 5673 @@ "80" :> 80
DatabaseMeans == "0" :> 0 @@ "7" :> 7 @@ "007" :> 7 @@ "7x" :> 7 @@ "16" :> 16
FlagMeans == "Yes" :> TRUE @@ "1" :> TRUE @@ "0" :> FALSE @@ "off" :> FALSE
RoleMeans == "master" :> "master" @@ "slave" :> "slave"

\* The keys whose values are not texts, and what those mean.
KeyMeans == "channelMax" :> NumeralMeans @@ "heartbeat" :> NumeralMeans @@
            "noDelay" :> FlagMeans @@ "role" :> RoleMeans
KeysOf(scheme) ==
  CASE scheme \in {"amqp", "rpc"} -> {"channelMax", "heartbeat"}
    [] scheme = "sentinel" -> {"role"}
    [] OTHER -> {"noDelay"}

SnakeOf(key) ==
  CASE key = "channelMax" -> "channel_max" [] key = "noDelay" -> "no_delay" [] OTHER -> key

\* The values a query gives for a key: those of its snake case, if any.
Given(query, key) ==
  LET counts == IF SnakeOf(key) \in Keys(query) THEN SnakeOf(key) ELSE key
      pairs == SelectSeq(query, LAMBDA pair : pair[1] = counts)
  IN [i \in DOMAIN pairs |-> Decoded(pairs[i][2])]

\* The value of an option, if it has one.
Option(o, n) == {o[k] : k \in {n} \intersect DOMAIN o}

Says(o, query, key) ==
  LET given == Given(query, key)
  IN Option(o, key) =
       CASE given = <<>> -> {}
         [] given # <<>> /\ key \in DOMAIN KeyMeans -> {KeyMeans[key][Last(given)]}
         [] OTHER -> {IF Len(given) = 1 THEN given[1] ELSE given}

PortSays(o, w) == Option(o, "port") = {PortMeans[p] : p \in {w.port} \ {""}}

PasswordSays(o, w) ==
  Option(o, "password") =
    {IF w.user = "" THEN Decoded(p) ELSE p : p \in {w.pass} \ {""}}

VhostOf(w) == IF w.query = <<>> THEN ToSet(w.path) \ NotVhosts ELSE {}

AmqpSays(o, w) ==
  /\ o["hostname"] = Lower(w.host)
  /\ PortSays(o, w) /\ PasswordSays(o, w)
  /\ Option(o, "username") =
       IF w.user = "" /\ w.pass = "" THEN {} ELSE {Decoded(w.user)}
  /\ Option(o, "vhost") = {Decoded(v) : v \in VhostOf(w)}
  /\ \A key \in {"channelMax", "heartbeat", "locale"} : Says(o, w.query, key)

\* The password of the query takes the place of the one before the host.
RedisSays(o, w) ==
  /\ o["host"] = Lower(w.host)
  /\ PortSays(o, w)
  /\ Says(o, w.query, "noDelay")
  /\ IF "password" \in Keys(w.query) THEN Says(o, w.query, "password")
     ELSE PasswordSays(o, w)
  /\ Option(o, "db") = {DatabaseMeans[d] : d \in ToSet(w.path) \ {""}}

\* Of the URIs of a list that have a key, the last one counts.
LastQuery(ws, key) ==
  FoldLeft(LAMBDA q, w : IF key \in Keys(w.query) THEN w.query ELSE q, <<>>, ws)

SentinelsSay(o, ws) ==
  /\ o["sentinels"] =
       [i \in DOMAIN ws |-> [host |-> Lower(ws[i].host), port |-> PortMeans[ws[i].port]]]
  /\ \A key \in {"name", "role"} : Says(o, LastQuery(ws, key), key)

\* The URI a Redis backend says it is at leads there, its password decoded
\* once more.
Leads(w, o) ==
  \E again \in IF "path" \in DOMAIN o THEN parseSocketUri(w) ELSE parseTcpUri(w) :
    /\ \A n \in {"host", "port", "db", "path"} : Option(again, n) = Option(o, n)
    /\ Option(again, "password") = {Decoded(p) : p \in Option(o, "password")}

ComponentSays(component, uri) ==
  LET o == component.options IN
  CASE component.kind = "null" -> uri = <<>>
    [] component.kind \in {"amqp", "rpc"} -> AmqpSays(o, uri[1])
    [] component.kind = "redis" ->
         IF "sentinels" \in DOMAIN o THEN SentinelsSay(o, uri)
         ELSE IF "path" \in DOMAIN o
           THEN /\ o["path"] = uri[1].path
                /\ \A key \in {"noDelay", "password"} : Says(o, uri[1].query, key)
                /\ Leads(createSocketUri(o), o)
           ELSE RedisSays(o, uri[1]) /\ Leads(createTcpUri(o), o)

Unreadable(query, key) ==
  LET given == Given(query, key)
  IN given # <<>> /\ Last(given) \notin DOMAIN KeyMeans[key]

\* What is decoded: a vhost and a password only as said above.
Escaped(w, scheme) ==
  {w.user} \union (IF w.user = "" THEN {w.pass} ELSE {})
           \union (IF scheme \in {"amqp", "rpc"} THEN VhostOf(w) ELSE {})

\* Something in it has no meaning, or something is missing.
FlawedPart(w, scheme) ==
  \/ w.port \notin {""} \union DOMAIN PortMeans
  \/ w.host \in NotHosts
  \/ w.host = "" /\ (scheme # "redis+socket" \/ <<w.user, w.pass, w.port>> # <<"", "", "">>)
  \/ Escaped(w, scheme) \intersect Malformed # {}
  \/ \E i \in DOMAIN w.query : w.query[i][2] \in NotQueries
  \/ \E key \in KeysOf(scheme) : Unreadable(w.query, key)
  \/ scheme = "redis" /\ ~(ToSet(w.path) \subseteq DOMAIN DatabaseMeans \union {""})
  \/ scheme = "sentinel" /\ w.port = ""

\* A list of sentinels needs one name among all of them.
Flawed(uri, own) ==
  LET scheme == Lower(uri[1].scheme)
  IN \/ scheme \notin {own, "redis", "redis+socket", "sentinel"}
     \/ \E i \in DOMAIN uri : FlawedPart(uri[i], scheme)
     \/ scheme = "sentinel" /\ \A i \in DOMAIN uri : "name" \notin Keys(uri[i].query)

\* Every component connects with what its URI comes to mean, and a client is
\* refused if and only if one of its URIs means nothing.  It has then made, and
\* nobody can disconnect any more, what comes before the first such URI: the
\* backend, unless it is that, and the brokers up to there.
OptionsAsWritten ==
  phase # "new" =>
    LET flawless == config.backend = <<>> \/ ~Flawed(config.backend, "rpc")
        before == {i \in DOMAIN config.brokers :
                     flawless /\ \A j \in 1..i : ~Flawed(config.brokers[j], "amqp")}
    IN /\ backend # None <=> flawless
       /\ DOMAIN brokers = before
       /\ phase = "refused" <=> ~flawless \/ before # DOMAIN config.brokers
       /\ backend # None => ComponentSays(backend, config.backend)
       /\ \A i \in before : ComponentSays(brokers[i], config.brokers[i])
=============================================================================

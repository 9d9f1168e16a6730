------------------------------ MODULE Factories -----------------------------
(***************************************************************************)
(* src/factories.ts: which component a URI makes, and with which options   *)
(* it connects.  A URI is a sequence of written URIs: those of a list of   *)
(* sentinels, or a single one.                                             *)
(***************************************************************************)
EXTENDS RedisUri

Component(kind, options) == [kind |-> kind, options |-> options]

\* RedisBroker's constructor: the keys are the queues themselves.
BrokerOptions(o) == maybeOverride(appendDefaultOptions(o), [keyPrefix |-> ""])

\* RedisBackend's constructor.
BackendOptions(o) ==
  maybeOverride(appendDefaultOptions(o), [keyPrefix |-> "celery-task-meta-"])

parseRedis(uri) ==
  Then(getScheme(uri[1]), LAMBDA scheme :
    CASE scheme = "redis" -> parseTcpUri(uri[1])
      [] scheme = "redis+socket" -> parseSocketUri(uri[1])
      [] scheme = "sentinel" -> parseSentinelUri(uri)
      [] OTHER -> {})

parseAmqp(uri, schemes) ==
  IF getScheme(uri[1]) \subseteq schemes THEN parseAmqpUri(uri[1]) ELSE {}

createBackend(uri) ==
  {Component("redis", BackendOptions(o)) : o \in parseRedis(uri)}
    \union {Component("rpc", o) : o \in parseAmqp(uri, {"rpc", "rpcs"})}

createBroker(uri) ==
  {Component("redis", BrokerOptions(o)) : o \in parseRedis(uri)}
    \union {Component("amqp", o) : o \in parseAmqp(uri, {"amqp", "amqps"})}
=============================================================================

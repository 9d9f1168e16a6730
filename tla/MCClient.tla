------------------------------ MODULE MCClient ------------------------------
(***************************************************************************)
(* Client for TLC: thousands of URIs that are only parsed, and four        *)
(* clients that make calls.                                                *)
(***************************************************************************)
EXTENDS Client

CONSTANTS a1, a2, a3, a4, t1, t2

URI(scheme, user, pass, host, port, path, query) ==
  [scheme |-> scheme, user |-> user, pass |-> pass, host |-> host, port |-> port,
   path |-> path, query |-> query]

Plain(scheme) == URI(scheme, "", "", "LocalHost", "5673", <<>>, <<>>)

AmqpLike(schemes, hosts) ==
  {URI(s, u, p, h, n, path, q) :
     s \in schemes, u \in {"", "u", "b%40b"}, p \in {"", "p", "p%40", "%zz"}, h \in hosts,
     n \in {"", "5673", "99999"}, path \in {<<>>, <<"">>, <<"%2fv">>, <<"a b">>, <<"%zz">>},
     q \in {<<>>, <<<<"channel_max", "020">>>>,
            <<<<"channelMax", "7">>, <<"channelMax", "16">>>>,
            <<<<"channelMax", "7">>, <<"channel_max", "16">>>>,
            <<<<"heartbeat", "0x10">>, <<"locale", "en">>>>,
            <<<<"heartbeat", "09">>>>, <<<<"heartbeat", "09">>, <<"heartbeat", "0">>>>,
            <<<<"locale", "a/b">>>>,
            <<<<"locale", "en">>, <<"locale", "de">>>>}}

RedisLike(hosts) ==
  {URI("redis", u, p, h, n, path, q) :
     u \in {"", "u"}, p \in {"", "p%40"}, h \in hosts, n \in {"", "80", "99999"},
     path \in {<<>>, <<"">>, <<"007">>, <<"7x">>, <<"v">>},
     q \in {<<>>, <<<<"no_delay", "0">>>>, <<<<"noDelay", "Yes">>, <<"noDelay", "off">>>>,
            <<<<"noDelay", "7">>>>, <<<<"password", "b">>>>}}

Sockets ==
  {URI("redis+socket", "", "", "", "", path, q) :
     path \in {<<"tmp", "redis">>}, q \in {<<>>, <<<<"password", "b">>>>}}

\* Either one may have the name, both, or none.
Sentinel(h, n, q) == URI("sentinel", "", "", h, n, <<>>, q)
Sentinels ==
  {<<Sentinel("a", n, q), Sentinel("LocalHost", "80", r)>> :
     n \in {"", "5673"},
     q \in {<<>>, <<<<"name", "x">>>>, <<<<"name", "x">>, <<"role", "slave">>>>,
            <<<<"name", "x">>, <<"name", "z">>>>},
     r \in {<<>>, <<<<"name", "y">>>>, <<<<"role", "master">>>>, <<<<"role", "king">>>>}}

Config(b, bs, calls, defaults) ==
  [backend |-> b, brokers |-> bs, calls |-> calls, defaults |-> defaults]

\* Every URI once: the brokers and backends that are only made ...
Single(uris) == {<<w>> : w \in uris}
OnlyMade ==
  {Config(<<>>, <<u>>, {}, NoFields) :
     u \in Single(AmqpLike({"AMQP"}, {"LocalHost", "bad_host", ""})) \union Sentinels \union
           Single(Sockets) \union Single(RedisLike({"LocalHost", "bad_host", ""})) \union
           {<<Plain("http")>>, <<Plain("rpc")>>}}
  \union
  {Config(u, <<<<Plain("amqp")>>>>, {}, NoFields) :
     u \in Single(AmqpLike({"rpc"}, {"LocalHost"})) \union Single(RedisLike({"LocalHost"}))
           \union Sentinels \union Single(Sockets) \union {<<Plain("amqp")>>}}
  \union
  {Config(<<>>, <<<<Plain("amqp")>>, <<Plain("http")>>, <<Plain("redis")>>>>, {}, NoFields)}

\* ... and those that work.
Working ==
  {Config(<<>>, <<<<Plain("amqp")>>>>, {a2, a3, a4}, NoFields),
   Config(<<Plain("rpc")>>, <<<<Plain("amqp")>>, <<Plain("redis")>>>>, {a1, a2},
          "queue" :> "urgent" @@ "softTimeLimit" :> 7),
   Config(<<>>, <<<<Plain("redis")>>>>, {a2, a3}, NoFields),
   Config(<<>>, <<>>, {a2}, NoFields)}

SomeConfigs == OnlyMade \union Working

SomeTasks == a1 :> t1 @@ a2 :> t2 @@ a3 :> t1 @@ a4 :> t1

Usual ==
  [args |-> "args", kwargs |-> "kwargs", compression |-> "identity", serializer |-> "json",
   eta |-> Null, expires |-> Null, queue |-> Null, priority |-> 0, ignoreResult |-> FALSE]

SomeOptions ==
  [a \in {a1, a2, a3, a4} |->
     IF a # a1 THEN {Usual}
     ELSE {[Usual EXCEPT !.compression = c, !.serializer = s, !.eta = e, !.queue = q,
                         !.priority = IF q = Null THEN 0 ELSE 9,
                         !.ignoreResult = (e = Null)] :
             c \in {"identity", "gzip", "zlib"}, s \in {"json", "yaml"},
             e \in {Null, "tomorrow"}, q \in {Null, "other"}}]
=============================================================================

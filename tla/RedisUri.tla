------------------------------ MODULE RedisUri ------------------------------
(***************************************************************************)
(* src/redis/uri/: the options ioredis connects with, over TCP, a Unix     *)
(* socket or a group of sentinels, and what src/redis/options.ts forces on *)
(* them.                                                                   *)
(***************************************************************************)
EXTENDS AmqpUri

RedisQueries == "password" :> "none" @@ "noDelay" :> "boolean"
parseRedisQuery(uri, options) == parse(RedisQueries, uri.query, options)

-----------------------------------------------------------------------------
(* TCP                                                                     *)

parseDb(segment) ==
  Then({segment} \intersect DOMAIN Leading, LAMBDA t : parseInteger(Leading[t]))

addDatabase(uri, options) ==
  IF uri.path = <<"">> THEN {options}
  ELSE {("db" :> n) @@ options : n \in parseDb(uri.path[1])}

addOptions(uri, options) ==
  {Renamed(uri.authority, "host" :> "host" @@ "pass" :> "password" @@ "port" :> "port") @@ o :
     o \in addDatabase(uri, options)}

parseTcpUri(w) ==
  Then({u \in parseUri(w) : u.scheme \in {"redis", "rediss"} /\ HasAuthority(u)},
       LAMBDA u : Then(addOptions(u, "protocol" :> u.scheme),
                       LAMBDA o : parseRedisQuery(u, o)))

-----------------------------------------------------------------------------
(* Unix socket                                                             *)

\* The path is whatever follows the host.
parseSocketUri(w) ==
  Then({u \in parseUri(w) : u.scheme \in {"redis+socket", "rediss+socket"}},
       LAMBDA u : parseRedisQuery(u, "path" :> u.path @@ "protocol" :> u.scheme))

-----------------------------------------------------------------------------
(* Sentinels: a semicolon-delimited list of URIs                           *)

isSentinelScheme(scheme) == scheme \in {"sentinel", "sentinels"}

parseAuthority(w) ==
  {[host |-> u.authority["host"], port |-> u.authority["port"]] :
     u \in {v \in parseUri(w) :
              isSentinelScheme(v.scheme) /\ {"host", "port"} \subseteq DOMAIN v.authority}}

SentinelQueries == "name" :> "none" @@ "role" :> "role"
parseSentinelQueries(w) ==
  Then(parseUri(w), LAMBDA u : parse(SentinelQueries, u.query, NoFields))

LastWins(queries) == FoldLeft(LAMBDA lhs, rhs : rhs @@ lhs, NoFields, queries)

parseSentinelUri(ws) ==
  IF \E i \in DOMAIN ws : parseAuthority(ws[i]) = {} \/ parseSentinelQueries(ws[i]) = {}
  THEN {}
  ELSE LET Of(s) == CHOOSE x \in s : TRUE
           queries == LastWins([i \in DOMAIN ws |-> Of(parseSentinelQueries(ws[i]))])
       IN {q @@ "protocol" :> "sentinel" @@
             "sentinels" :> [i \in DOMAIN ws |-> Of(parseAuthority(ws[i]))] :
             q \in {f \in {queries} : "name" \in DOMAIN f}}

-----------------------------------------------------------------------------
(* src/redis/options.ts                                                    *)

appendDefaultOptions(options) ==
  "dropBufferSupport" :> TRUE @@ "keyPrefix" :> "celery-task-meta-" @@
  "stringNumbers" :> TRUE @@ options

maybeOverride(options, override) ==
  [n \in DOMAIN options \union DOMAIN override |->
     IF n \in DOMAIN override THEN override[n] ELSE options[n]]

\* The texts of a port and of a database.
PortText(n) == CHOOSE t \in DOMAIN PortDigits : Number(10, PortDigits[t]) = n
DbText(n) == CHOOSE t \in DOMAIN Leading : Leading[t] = t /\ parseInteger(t) = {n}

\* createUri(): what is written of the options, the password unescaped.
createTcpUri(o) ==
  [scheme |-> IF "tls" \in DOMAIN o THEN "rediss" ELSE "redis",
   user |-> "", pass |-> IF "password" \in DOMAIN o THEN o["password"] ELSE "",
   host |-> IF "host" \in DOMAIN o THEN o["host"]
            ELSE IF "password" \in DOMAIN o THEN "localhost" ELSE "",
   port |-> IF "port" \in DOMAIN o THEN PortText(o["port"]) ELSE "",
   path |-> IF "db" \in DOMAIN o THEN <<DbText(o["db"])>> ELSE <<>>,
   query |-> <<>>]

createSocketUri(o) ==
  [scheme |-> IF "tls" \in DOMAIN o THEN "rediss+socket" ELSE "redis+socket",
   user |-> "", pass |-> "", host |-> "", port |-> "", path |-> o["path"],
   query |-> IF "password" \in DOMAIN o THEN <<<<"password", o["password"]>>>> ELSE <<>>]
=============================================================================

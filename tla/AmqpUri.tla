------------------------------- MODULE AmqpUri ------------------------------
(***************************************************************************)
(* src/amqp/uri.ts: the options amqplib connects with.                     *)
(***************************************************************************)
EXTENDS QueryParser

AmqpSchemes == {"amqp", "amqps", "rpc", "rpcs"}

Protocol(scheme) ==
  CASE scheme = "rpc" -> "amqp" [] scheme = "rpcs" -> "amqps" [] OTHER -> scheme

\* The fields of from that have a place in the options, under the names they
\* have there.
Renamed(from, names) ==
  [n \in {names[f] : f \in DOMAIN names \intersect DOMAIN from} |->
     from[CHOOSE f \in DOMAIN names : names[f] = n]]

appendOptions(uri, options) ==
  Renamed(uri.authority, "pass" :> "password" @@ "port" :> "port" @@ "user" :> "username")
    @@ options

\* The expression is matched against the whole URI, and ends where it ends:
\* what follows the host is one slash and one segment, and no query.
VhostMatches(w) ==
  /\ Len(w.path) = 1 /\ w.query = <<>>
  /\ w.path[1] \notin NotVhosts

appendVhost(w, options) ==
  IF VhostMatches(w)
  THEN {("vhost" :> v) @@ options : v \in decodeURIComponent(w.path[1])}
  ELSE {options}

AmqpQueries ==
  "channelMax" :> "integer" @@ "frameMax" :> "integer" @@
  "heartbeat" :> "integer" @@ "locale" :> "none"

appendQueries(uri, options) == parse(AmqpQueries, uri.query, options)

parseAmqpUri(w) ==
  Then({u \in parseUri(w) : u.scheme \in AmqpSchemes /\ HasAuthority(u)}, LAMBDA u :
    Then(appendVhost(w, appendOptions(u, "hostname" :> u.authority["host"] @@
                                         "protocol" :> Protocol(u.scheme))),
         LAMBDA o : appendQueries(u, o)))
=============================================================================

-------------------------------- MODULE Uri ---------------------------------
(***************************************************************************)
(* src/uri.ts: the parts of a URI.                                         *)
(*                                                                         *)
(* A written URI is a record of what stands in the string: scheme, user,   *)
(* pass, host and port ("" where there is none), path, the sequence of its *)
(* segments, and query, the sequence of its <<key, value>> pairs.          *)
(*                                                                         *)
(* An operator that may throw gives the set of what it returns: one value, *)
(* or none.  An object with optional fields is a function on those it has. *)
(***************************************************************************)
EXTENDS Texts, SequencesExt

WrittenUris ==
  [scheme : STRING, user : STRING, pass : STRING, host : STRING, port : STRING,
   path : Seq(STRING), query : Seq(STRING \X STRING)]

Schemes == {"amqp", "amqps", "redis", "rediss", "sentinel", "sentinels",
            "redis+socket", "rediss+socket", "rpc", "rpcs"}

\* What f returns for what s returned, if neither throws.
Then(s, f(_)) == UNION {f(x) : x \in s}

getScheme(w) == {Lower(w.scheme)} \intersect Schemes

NoFields == [f \in {} |-> ""]

\* URL.parse(): a port in range, and nothing but a path without a host.
Parsable(w) ==
  /\ w.port \in {""} \union DOMAIN PortDigits
  /\ w.host = "" => w.user = "" /\ w.pass = "" /\ w.port = ""

validateHost(h) == {h} \ NotHosts

addHost(w) ==
  IF w.host = "" THEN {NoFields}
  ELSE {"host" :> Lower(h) : h \in validateHost(w.host)}

decodeURIComponent(t) == {Decoded(s) : s \in {t} \ Malformed}

addHostAndUser(w) ==
  IF w.host = "" \/ w.user = "" THEN addHost(w)
  ELSE {("user" :> u) @@ a : u \in decodeURIComponent(w.user), a \in addHost(w)}

\* Next to a user the password stays as it is written; alone it is decoded.
DecodePass(w) == IF w.user = "" THEN decodeURIComponent(w.pass) ELSE {w.pass}

addHostUserAndPass(w) ==
  IF w.host = "" \/ w.pass = "" THEN addHostAndUser(w)
  ELSE {("pass" :> p) @@ a @@ ("user" :> "") :
          p \in DecodePass(w), a \in addHostAndUser(w)}

Number(radix, digits) == FoldLeft(LAMBDA n, d : n * radix + d, 0, digits)

parsePort(w) == Number(10, PortDigits[w.port])

addHostUserPassAndPort(w) ==
  IF w.host = "" \/ w.port = "" THEN addHostUserAndPass(w)
  ELSE {("port" :> parsePort(w)) @@ a : a \in addHostUserAndPass(w)}

-----------------------------------------------------------------------------
(* The query                                                               *)

Keys(q) == {q[i][1] : i \in DOMAIN q}

\* Every value of a key, in order.  One value alone is a scalar.
parseQueries(q) ==
  [k \in Keys(q) |->
     LET given == SelectSeq(q, LAMBDA pair : pair[1] = k)
     IN [i \in DOMAIN given |-> Decoded(given[i][2])]]

SnakeCase == ("channel_max" :> "channelMax") @@ ("no_delay" :> "noDelay")
toCamelCase(k) == IF k \in DOMAIN SnakeCase THEN SnakeCase[k] ELSE k

\* The snake case spelling of a key takes the place of the other.
Spelling(queries, n) ==
  IF \E k \in DOMAIN queries : k # n /\ toCamelCase(k) = n
  THEN CHOOSE k \in DOMAIN queries : k # n /\ toCamelCase(k) = n
  ELSE n

camelCaseQuery(queries) ==
  [n \in {toCamelCase(k) : k \in DOMAIN queries} |-> queries[Spelling(queries, n)]]

addQuery(w) ==
  IF \E i \in DOMAIN w.query : w.query[i][2] \in NotQueries THEN {}
  ELSE {camelCaseQuery(parseQueries(w.query))}

-----------------------------------------------------------------------------
\* A URI without a path has the path "/".
PathOf(w) == IF w.path = <<>> THEN <<"">> ELSE w.path

parseUri(w) ==
  IF ~Parsable(w) THEN {}
  ELSE {[scheme |-> Lower(w.scheme), path |-> PathOf(w), authority |-> a, query |-> q] :
          a \in addHostUserPassAndPort(w), q \in addQuery(w)}

HasAuthority(uri) == DOMAIN uri.authority # {}
=============================================================================

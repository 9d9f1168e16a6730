----------------------------- MODULE TaskMessage ----------------------------
(***************************************************************************)
(* The message of a task: how src/task.ts and src/packer/ build it, what   *)
(* each broker makes of it on the way to its server, and how a Celery      *)
(* worker reads it there.                                                  *)
(*                                                                         *)
(* A buffer or a text is a term: <<what was done, what it was done to>>.   *)
(***************************************************************************)
EXTENDS TLC

Null == "null"

(* src/packer/                                                             *)

Serializers == {"json", "yaml"}
Compressors == {"identity", "gzip", "zlib"}

serialize(serializer, data) == <<serializer, data>>

compress(compressor, buffer) ==
  IF compressor = "identity" THEN buffer ELSE <<compressor, buffer>>

\* toString("utf8") replaces the bytes that are not UTF-8.
IsUtf8(buffer) == buffer[1] \in {"json", "yaml"}

encode(encoder, buffer) ==
  CASE encoder = "base64" -> <<"base64", buffer>>
    [] encoder = "plaintext" -> <<"text", IF IsUtf8(buffer) THEN buffer ELSE <<"?", Null>>>>

pack(packer, data) ==
  encode(packer.encoder, compress(packer.compressor, serialize(packer.serializer, data)))

-----------------------------------------------------------------------------
(* src/task.ts                                                             *)

selectEncoder(compressor) == IF compressor = "identity" THEN "plaintext" ELSE "base64"

\* Mutant: gzip is what it says.
GzipItself(compressor) == compressor

\* "If gzip compression is selected, will use zlib compression."
realCompressor(compressor) == IF compressor = "gzip" THEN "zlib" ELSE compressor

createPacker(serializer, compressor) ==
  [serializer |-> serializer, compressor |-> realCompressor(compressor),
   encoder |-> selectEncoder(compressor)]

packBody(args, kwargs, packer) == pack(packer, <<args, kwargs>>)

getEncodingMime(encoder) == IF encoder = "base64" THEN "base64" ELSE "utf-8"
getContentTypeMime(serializer) ==
  IF serializer = "json" THEN "application/json" ELSE "application/x-yaml"

dateOrNull(date) == IF date = Null THEN Null ELSE <<"iso", date>>

createHeaders(task, applied, id) ==
  LET base == [argsrepr |-> applied.args, kwargsrepr |-> applied.kwargs,
               eta |-> dateOrNull(applied.eta), expires |-> dateOrNull(applied.expires),
               id |-> id, root_id |-> id, task |-> task.name, timelimit |-> task.timeLimit]
  IN IF applied.compression = "identity" THEN base
     ELSE [h \in DOMAIN base \union {"compression"} |->
             IF h = "compression" THEN "application/x-gzip" ELSE base[h]]

createProperties(task, queue, encoder, id, priority) ==
  [body_encoding |-> getEncodingMime(encoder), correlation_id |-> id,
   routing_key |-> queue, queue |-> queue,
   delivery_mode |-> IF task.deliveryMode = "transient" THEN 1 ELSE 2,
   priority |-> priority, reply_to |-> task.appId]

\* applyAsync(): the queue of the call, if any, goes before the task's.
QueueOf(task, applied) == IF applied.queue = Null THEN task.queue ELSE applied.queue

Message(task, applied, id) ==
  LET packer == createPacker(applied.serializer, applied.compression)
  IN [body |-> packBody(applied.args, applied.kwargs, packer),
      content_encoding |-> getEncodingMime(packer.encoder),
      content_type |-> getContentTypeMime(applied.serializer),
      headers |-> createHeaders(task, applied, id),
      properties |-> createProperties(task, QueueOf(task, applied), packer.encoder, id,
                                      applied.priority)]

-----------------------------------------------------------------------------
(* src/amqp/broker.ts: the queue, the payload and its properties           *)

\* Buffer.from(body, encoding)
getBody(message) == message.body[2]

\* The encoding is still that of the body, "base64" for a payload that getBody()
\* has decoded; a worker of JSON or YAML does not look at it.
getPublishOptions(message) ==
  [contentEncoding |-> message.content_encoding,
   contentType |-> message.content_type, headers |-> message.headers,
   priority |-> message.properties.priority,
   correlationId |-> message.properties.correlation_id,
   deliveryMode |-> message.properties.delivery_mode,
   replyTo |-> message.properties.reply_to]

OnRabbitMq(message) ==
  [at |-> message.properties.routing_key, payload |-> getBody(message),
   options |-> getPublishOptions(message)]

\* src/redis/broker.ts: the list, under the connection's prefix, and the whole
\* message as JSON.
OnRedis(message, keyPrefix) ==
  [at |-> <<keyPrefix, message.properties.queue>>, envelope |-> message]

-----------------------------------------------------------------------------
(* A Celery worker: what it gets, or nothing if it cannot read it.         *)

\* "application/x-gzip" stands for zlib to a worker.
Decompressed(headers, buffer) ==
  IF "compression" \notin DOMAIN headers THEN {buffer}
  ELSE {b[2] : b \in {c \in {buffer} : c[1] = "zlib"}}

Deserialized(type, buffer) ==
  LET format == IF type = "application/json" THEN "json" ELSE "yaml"
  IN {b[2] : b \in {c \in {buffer} : c[1] = format}}

ReadBody(buffer, type, headers) ==
  UNION {Deserialized(type, b) : b \in Decompressed(headers, buffer)}

Job(body, headers, id, replyTo, priority) ==
  [task |-> headers.task, id |-> id, body |-> body, eta |-> headers.eta,
   expires |-> headers.expires, replyTo |-> replyTo, priority |-> priority]

RabbitMqWorkerReads(m) ==
  {Job(b, m.options.headers, m.options.correlationId, m.options.replyTo,
       m.options.priority) :
     b \in ReadBody(m.payload, m.options.contentType, m.options.headers)}

\* The body is decoded as body_encoding says; UTF-8 is taken as it is.
RedisWorkerReads(m) ==
  LET e == m.envelope
      encoded == IF e.properties.body_encoding = "base64" THEN "base64" ELSE "text"
  IN {Job(b, e.headers, e.headers.id, e.properties.reply_to, e.properties.priority) :
        b \in UNION {ReadBody(t[2], e.content_type, e.headers) :
                       t \in {c \in {e.body} : c[1] = encoded}}}
=============================================================================

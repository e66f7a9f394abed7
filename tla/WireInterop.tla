----------------------------- MODULE WireInterop -----------------------------
(***************************************************************************)
(* Two ends of a connection that speak the wire protocol: one of the four  *)
(* implementations writes messages, one reads them from a stream that is   *)
(* cut into chunks anywhere.  A client writes requests to the server       *)
(* (Rust) or, in its own tests, to itself; the server writes responses to  *)
(* any client.                                                             *)
(*                                                                         *)
(* What a message means is what the documentation of the value models      *)
(* says (values.py, values.go, values.ts): the tables DocTypes.            *)
(***************************************************************************)
EXTENDS TsCodec

CONSTANT Departures  \* with the natives whose encoding departs from the documentation

VARIABLES
  w_from, w_to,  \* the two implementations, None before the first message
  w_sent,        \* the messages written
  w_pipe,        \* the bytes on their way
  w_stash,       \* the bytes the reader holds back
  w_got,         \* the messages read
  w_state        \* "open", "refused" by the writer, "failed" in the reader

wire_vars == <<w_from, w_to, w_sent, w_pipe, w_stash, w_got, w_state>>

Impls == {"rust", "py", "go", "ts"}

-----------------------------------------------------------------------------
(* The three operations of an implementation. *)

Encode(impl, m) ==
  LET atomic == m.kind = "atomic"
  IN CASE impl = "rust" ->
            (CASE m.kind = "request" -> encode_request(m.r)
               [] m.kind = "batch" -> encode_batch_request(m)
               [] m.kind = "atomic" -> encode_atomic_batch_request(m)
               [] m.kind = "response" -> encode_response(m.r)
               [] m.kind = "borrowed" -> encode_ok_borrowed(m.r.id, m.r.rows)
               [] m.kind = "results" -> encode_batch_response(m))
       [] impl = "py" ->
            (CASE m.kind = "request" -> PyEncodeRequest(m.r)
               [] m.kind = "results" -> PyEncodeBatchResponse(m)
               [] OTHER -> PyEncodeBatch(m, atomic))
       [] impl = "go" ->
            (CASE m.kind = "request" -> GoEncodeRequest(m.r)
               [] m.kind = "results" -> GoEncodeBatchResponse(m)
               [] OTHER -> GoEncodeBatch(m, atomic))
       [] impl = "ts" ->
            (CASE m.kind = "request" -> TsEncodeRequest(m.r)
               [] m.kind = "results" -> TsEncodeBatchResponse(m)
               [] OTHER -> TsEncodeBatch(m, atomic))

\* The server reads frame after frame from its buffer until one is incomplete.
RECURSIVE RustFeedAll(_, _)
RustFeedAll(buf, out) ==
  LET f == RustFeed(buf)
  IN CASE f = Fail -> Fail
       [] f = None -> [out |-> out, stash |-> buf]
       [] OTHER -> RustFeedAll(f.rest, Append(out, f.payload))

Feed(impl, buf) ==
  CASE impl = "rust" -> RustFeedAll(buf, <<>>)
    [] impl = "py" -> PyFeed(buf, <<>>)
    [] impl = "go" -> GoFeed(buf, <<>>)
    [] impl = "ts" -> TsFeed(buf, <<>>)

\* The kind of a response is known to the caller that waits for it.
Decode(impl, kind, payload) ==
  CASE impl = "rust" ->
         (CASE kind \in {"response", "borrowed"} -> decode_response(payload)
            [] kind = "results" -> decode_batch_response(payload)
            [] OTHER -> decode_incoming(payload))
    [] impl = "py" ->
         (CASE kind \in {"response", "borrowed"} -> PyDecodeResponse(payload)
            [] kind = "results" -> PyDecodeBatchResponse(payload)
            [] OTHER -> PyDecodeIncoming(payload))
    [] impl = "go" ->
         (CASE kind \in {"response", "borrowed"} -> GoDecodeResponse(payload)
            [] kind = "results" -> GoDecodeBatchResponse(payload)
            [] OTHER -> GoDecodeIncoming(payload))
    [] impl = "ts" ->
         (CASE kind \in {"response", "borrowed"} -> TsDecodeResponse(payload)
            [] kind = "results" -> TsDecodeBatchResponse(payload)
            [] OTHER -> TsDecodeIncoming(payload))

-----------------------------------------------------------------------------
(* What the documentation says a message means. *)

Same(ts) == [t \in ts |-> t]

\* The type of the server a native of a client stands for.
DocTypes(impl) ==
  CASE impl = "rust" -> Same(DOMAIN RustTag)
    [] impl = "py" ->
         [None |-> "null", bool |-> "bool", int |-> "i64", float |-> "f64", str |-> "str",
          bytes |-> "bytes", date |-> "date", list |-> "array", dict |-> "json"]
    [] impl = "go" ->
         [nil |-> "null", bool |-> "bool", int8 |-> "i8", int16 |-> "i16", int32 |-> "i32",
          int64 |-> "i64", int |-> "i64", uint8 |-> "u8", uint16 |-> "u16", uint32 |-> "u32",
          uint64 |-> "u64", uint |-> "u64", float32 |-> "f32", float64 |-> "f64",
          string |-> "str", time |-> "timestamp", map |-> "json"]
    [] impl = "ts" ->
         [null |-> "null", boolean |-> "bool", number |-> "i64", float |-> "f64",
          string |-> "str", Uint8Array |-> "bytes", Date |-> "timestamp", Array |-> "array",
          object |-> "json"]

DocWrappers(t) ==
  CASE t = "$i32" -> "i32" [] t = "$u32" -> "u32" [] t = "$i64" -> "i64" [] t = "$u64" -> "u64"
    [] t = "$f32" -> "f32" [] t = "$decimal" -> "decimal" [] t = "$date" -> "date"
    [] t = "$uuid" -> "uuid" [] t = "$bytes" -> "bytes" [] t = "$ts" -> "timestamp"
    [] t = "[]byte" -> "bytes" [] t = "[]any" -> "array"

Integers8to64 == {"i8", "i16", "i32", "i64", "u8", "u16", "u32", "u64"}

\* The server value a native means; Fail when the documentation refuses it.
RECURSIVE ValueOf(_, _)
ValueOf(impl, x) ==
  LET type ==
        CASE x.t = "bigint" -> IF x.v < 0 THEN "i64" ELSE "u64"
          [] x.t \in DOMAIN DocTypes(impl) -> DocTypes(impl)[x.t]
          [] OTHER -> DocWrappers(x.t)
      is_uuid == impl # "rust" /\ (type = "uuid" \/ (type = "str" /\ x.v \in DOMAIN UuidStrings))
  IN CASE is_uuid -> IF x.v \in DOMAIN UuidStrings THEN [t |-> "uuid", v |-> UuidStrings[x.v]] ELSE Fail
       [] type \in Integers8to64 /\ ~InRange(type, x.v) -> Fail
       [] x.t = "Date" -> [t |-> type, v |-> 1000 * x.v]
       [] impl # "rust" /\ type = "json" -> [t |-> "json", v |-> [t |-> "obj", v |-> x.v]]
       [] type = "array" ->
            LET vs == [i \in DOMAIN x.v |-> ValueOf(impl, x.v[i])]
            IN IF Fail \in Range(vs) \/ Len(vs) > MAX_ARRAY THEN Fail ELSE [t |-> "array", v |-> vs]
       [] OTHER -> [t |-> type, v |-> x.v]

\* Clients have one kind of integer in Json.
RECURSIVE ClientJson(_)
ClientJson(j) ==
  CASE j.t = "uint" -> [t |-> "int", v |-> j.v]
    [] j.t \in {"arr", "obj"} -> [t |-> j.t, v |-> [k \in DOMAIN j.v |-> ClientJson(j.v[k])]]
    [] OTHER -> j

\* The native a client has for a value of the server.
RECURSIVE NativeOf(_, _)
NativeOf(impl, x) ==
  LET Is(t) == [t |-> t, v |-> x.v]
      text == CHOOSE s \in DOMAIN UuidStrings : UuidStrings[s] = x.v
      items(t) == [t |-> t, v |-> [i \in DOMAIN x.v |-> NativeOf(impl, x.v[i])]]
      json == ClientJson(x.v)
  IN CASE impl = "rust" -> x
       [] x.t = "decimal" -> Is("$decimal")
       [] x.t = "date" -> Is("$date")
       [] impl = "py" ->
            (CASE x.t = "null" -> Is("None")
               [] x.t \in Integers8to64 -> Is("int")
               [] x.t \in {"f32", "f64"} -> Is("float")
               [] x.t = "uuid" -> [t |-> "str", v |-> text]
               [] x.t = "array" -> items("list")
               [] x.t = "json" -> PyOfJson(json)
               [] OTHER -> x)
       [] impl = "go" ->
            (CASE x.t = "uuid" -> [t |-> "string", v |-> text]
               [] x.t = "bytes" -> Is("[]byte")
               [] x.t = "array" -> items("[]any")
               [] x.t = "json" -> GoOfJson(json)
               [] OTHER -> Is(CHOOSE t \in DOMAIN DocTypes("go") \ {"int", "uint"} :
                                DocTypes("go")[t] = x.t))
       [] impl = "ts" ->
            (CASE x.t \in Integers8to64 -> TsNumber(x.v)
               [] x.t \in {"f32", "f64"} -> Is("float")
               [] x.t = "uuid" -> [t |-> "string", v |-> text]
               [] x.t = "timestamp" -> [t |-> "Date", v |-> TsMillis(x.v)]
               [] x.t = "array" -> items("Array")
               [] x.t = "json" -> TsOfJson(json)
               [] OTHER -> Is(CHOOSE t \in DOMAIN DocTypes("ts") : DocTypes("ts")[t] = x.t))

Meaning(from, to, x) ==
  LET v == ValueOf(from, x) IN IF v = Fail THEN Fail ELSE NativeOf(to, v)

MapMeaning(from, to, m) == [k \in DOMAIN m |-> Meaning(from, to, m[k])]

RequestMeaning(from, to, r) ==
  [r EXCEPT !.values = IF @ = None THEN None ELSE MapMeaning(from, to, @)]

ErrorOf(impl, e) == IF impl = "go" /\ e = None THEN <<>> ELSE e

ResponseMeaning(from, to, r) ==
  [id |-> r.id, ok |-> r.ok,
   rows |-> [i \in DOMAIN r.rows |->
               [r.rows[i] EXCEPT !.values = MapMeaning(from, to, @)]],
   error |-> ErrorOf(to, r.error)]

\* What the reader must get for a message.
MessageMeaning(from, to, m) ==
  CASE m.kind = "request" -> [kind |-> 1, m |-> RequestMeaning(from, to, m.r)]
    [] m.kind \in {"batch", "atomic"} ->
         [kind |-> IF m.kind = "batch" THEN 2 ELSE 3,
          m |-> [id |-> m.id, items |-> [i \in DOMAIN m.ops |-> RequestMeaning(from, to, m.ops[i])]]]
    [] m.kind \in {"response", "borrowed"} -> ResponseMeaning(from, to, m.r)
    [] m.kind = "results" ->
         [id |-> m.id, items |-> [i \in DOMAIN m.results |-> ResponseMeaning(from, to, m.results[i])]]

\* A message with a value that has no meaning, or with more requests than a
\* batch may hold, is to be refused.
ValuesOf(m) ==
  CASE m.kind = "request" -> IF m.r.values = None THEN {} ELSE Range(m.r.values)
    [] m.kind \in {"response", "borrowed"} -> UNION {Range(row.values) : row \in Range(m.r.rows)}
    [] OTHER -> {}

Meaningful(from, m) ==
  /\ \A x \in ValuesOf(m) : ValueOf(from, x) # Fail
  /\ m.kind \in {"batch", "atomic"} => Len(m.ops) <= MAX_BATCH

-----------------------------------------------------------------------------
(* The values and messages tried: the ends of every range, and of every       *)
(* type one that is like a value of another.                                  *)

Text == {<<>>, <<7>>} \union DOMAIN UuidStrings
Ends(k) == {LoOf(k), HiOf(k)} \union (IF SignedKind(k) THEN {-1} ELSE {})
Past(k) == {LoOf(k) - 1, HiOf(k) + 1}
Dates == {<<1970, 1, 1>>, <<2024, 2, 29>>, <<2100, 3, 1>>, <<1999, 12, 31>>}
Vals(t, vs) == {[t |-> t, v |-> v] : v \in vs}
Key == <<3>>

Jsons == Vals("int", Ends("i64")) \union Vals("str", Text) \union Vals("null", {0})
           \union Vals("bool", {1}) \union Vals("float", {HiOf("f64")})
Trees(js) == {[k \in {} |-> 0]} \union {[k \in {Key} |-> j] : j \in js}
              \union {[k \in {Key} |-> [t |-> "arr", v |-> <<j, j>>]] : j \in js}

Wrapped ==
  Vals("$u32", Ends("u32")) \union Vals("$i64", Ends("i64")) \union Vals("$u64", Ends("u64"))
    \union Vals("$f32", {HiOf("f32")}) \union Vals("$decimal", Text)
    \union Vals("$uuid", DOMAIN UuidStrings \union {<<7>>})

RustNatives ==
  UNION {Vals(k, Ends(k)) : k \in WireKinds}
    \union Vals("null", {0}) \union Vals("bool", {0, 1})
    \union UNION {Vals(t, Text) : t \in {"decimal", "str", "bytes"}}
    \union Vals("uuid", Range(UuidStrings)) \union Vals("timestamp", {LoOf("i64"), 1500})
    \union Vals("date", Dates)
    \union Vals("json", Jsons \union Vals("uint", {HiOf("u64")})
                          \union Vals("obj", Trees(Jsons \union Vals("uint", {HiOf("u64")}))))
    \union Vals("array", {<<>>, <<[t |-> "i8", v |-> -1], [t |-> "str", v |-> <<7>>]>>})

\* The server's timestamps are no datetime of the Python model, and the
\* clients count the days of a date from another day than chrono does.
RustAnswers(to) ==
  {x \in RustNatives : /\ to = "py" => x.t # "timestamp"
                       /\ ~Departures /\ to # "rust" => x.t # "date"}

PyNatives ==
  Wrapped \union Vals("None", {0}) \union Vals("bool", {0, 1})
    \union Vals("int", Ends("i64") \union Past("i64")) \union Vals("$u64", Past("u64"))
    \union Vals("float", {HiOf("f64")}) \union Vals("str", Text) \union Vals("bytes", Text)
    \union Vals("dict", Trees(Jsons))
    \union Vals("list", {<<>>, <<[t |-> "int", v |-> -1], [t |-> "str", v |-> <<7>>]>>,
                         [i \in 1..(MAX_ARRAY + 1) |-> [t |-> "None", v |-> 0]]})

GoNatives ==
  UNION {Vals(t, Ends(GoScalars[t][2])) : t \in DOMAIN GoScalars}
    \union Wrapped \union Vals("nil", {0}) \union Vals("bool", {0, 1})
    \union Vals("$i32", Ends("i32") \union Past("i32")) \union Vals("$u32", {HiOf("u32") + 1})
    \union Vals("string", Text) \union Vals("[]byte", Text) \union Vals("$bytes", Text)
    \union Vals("$ts", {-1500}) \union Vals("map", Trees(Jsons))
    \union Vals("[]any", {<<>>, <<[t |-> "int8", v |-> -1], [t |-> "string", v |-> <<7>>]>>,
                          [i \in 1..(MAX_ARRAY + 1) |-> [t |-> "nil", v |-> 0]]})

TsNatives ==
  Wrapped \union Vals("null", {0}) \union Vals("boolean", {0, 1})
    \union Vals("bigint", Ends("u64") \union Ends("i64") \union {LoOf("i64") - 1, HiOf("u64") + 1})
    \union Vals("number", {-MAX_SAFE, MAX_SAFE}) \union Vals("$u64", Past("u64"))
    \union Vals("float", {HiOf("f64")}) \union Vals("string", Text)
    \union Vals("Uint8Array", Text) \union Vals("Date", {-1500, 1500})
    \union Vals("object", Trees(Jsons))
    \union Vals("Array", {<<>>, <<[t |-> "number", v |-> -1], [t |-> "string", v |-> <<7>>]>>,
                          [i \in 1..(MAX_ARRAY + 1) |-> [t |-> "null", v |-> 0]]})

\* $i32 in Python and TypeScript, and dates between a client and the server.
Departing(impl) ==
  Vals("$date", Dates) \union (IF impl = "go" THEN {} ELSE Vals("$i32", Ends("i32")))

Natives(from, to) ==
  (CASE from = "rust" -> RustAnswers(to)
     [] from = "py" -> PyNatives [] from = "go" -> GoNatives [] from = "ts" -> TsNatives)
    \union (CASE from = "rust" -> {}
              [] Departures -> Departing(from)
              [] from = to -> Vals("$date", Dates)
              [] OTHER -> {})

Null(impl) == CHOOSE x \in Natives(impl, impl) : x.t \in {"null", "None", "nil"}
Pair(impl, x) == [k \in {Key, <<4, 7>>} |-> IF k = Key THEN x ELSE Null(impl)]

Req(id, op, table, row, vals) ==
  [id |-> id, op |-> op, table |-> table, row_id |-> row, values |-> vals]

Plain(impl) == Req(1, "insert", <<7>>, None, Pair(impl, Null(impl)))

Requests(from, to) ==
  {Req(1, "insert", <<7>>, None, Pair(from, x)) : x \in Natives(from, to)}
    \union {Req(HiOf("u64"), op, <<>>, row, None) : op \in Range(RustOps), row \in {None, HiOf("u64")}}

Resp(ok, rows, error) == [id |-> 1, ok |-> ok, rows |-> rows, error |-> error]
Row(x) == [id |-> HiOf("u64"), values |-> Pair("rust", x)]

Responses(from, to) ==
  IF from = "rust"
  THEN {Resp(1, <<Row(x), Row(Null("rust"))>>, None) : x \in RustAnswers(to)}
         \union {Resp(0, <<>>, e) : e \in Text}
  ELSE {[Resp(0, <<>>, ErrorOf(from, e)) EXCEPT !.id = HiOf("u64")] : e \in {None, <<7>>}}

Messages(from, to) ==
  (IF to \in {from, "rust"}
   THEN {[kind |-> "request", r |-> r] : r \in Requests(from, to)}
          \union {[kind |-> k, id |-> 2, ops |-> ops] :
                    k \in {"batch", "atomic"},
                    ops \in {[i \in 1..n |-> Plain(from)] :
                               n \in 0..(MAX_BATCH + IF from = "rust" THEN 0 ELSE 1)}}
   ELSE {})
  \union
  (IF from = "rust"
   THEN {[kind |-> k, r |-> r] : k \in {"response"}, r \in Responses(from, to)}
          \union {[kind |-> "borrowed", r |-> r] : r \in {x \in Responses(from, to) : x.error = None}}
   ELSE {})
  \union
  (IF from \in {to, "rust"}
   THEN {[kind |-> "results", id |-> 2, results |-> rs] :
           rs \in {<<>>} \union {<<Resp(0, <<>>, ErrorOf(from, None)), r>> :
                                  r \in {x \in Responses(from, to) : x.rows = <<>>}}}
   ELSE {})

-----------------------------------------------------------------------------
(* The connection *)

WireInit ==
  /\ w_from = None /\ w_to = None /\ w_sent = <<>> /\ w_pipe = <<>>
  /\ w_stash = <<>> /\ w_got = <<>> /\ w_state = "open"

\* The writer writes a message, or refuses it.
WireWrite(from, to, m) ==
  LET bytes == Encode(from, m)
  IN /\ w_state = "open"
     /\ w_from' = from /\ w_to' = to
     /\ w_sent' = Append(w_sent, m)
     /\ IF bytes = Fail
        THEN w_state' = "refused" /\ UNCHANGED w_pipe
        ELSE w_pipe' = w_pipe \o bytes /\ UNCHANGED w_state
     /\ UNCHANGED <<w_stash, w_got>>

Framing == {"batch", "atomic", "results"}

\* The first message and, behind a batch or its results, a second one like it.
WireFirst ==
  /\ w_sent = <<>>
  /\ \E from \in Impls, to \in Impls : \E m \in Messages(from, to) : WireWrite(from, to, m)

WireSecond ==
  /\ Len(w_sent) = 1 /\ w_stash = <<>> /\ w_got = <<>> /\ w_sent[1].kind \in Framing
  /\ WireWrite(w_from, w_to, w_sent[1])

\* The server closes a connection that holds more than one frame's worth of
\* bytes, before it looks whether frames among them are complete.
StagingOverflow(buf) ==
  /\ w_to = "rust" /\ w_sent[1].kind \in {"request", "batch", "atomic"}
  /\ Len(buf) > MAX_FRAME + HEADER_LEN

\* A chunk of the stream arrives.
WireRead(n) ==
  LET buf == w_stash \o SubSeq(w_pipe, 1, n)
      fed == IF StagingOverflow(buf) THEN Fail ELSE Feed(w_to, buf)
  IN /\ w_state = "open" /\ n \in 1..Len(w_pipe)
     /\ w_pipe' = SubSeq(w_pipe, n + 1, Len(w_pipe))
     /\ IF fed = Fail
        THEN w_state' = "failed" /\ UNCHANGED <<w_stash, w_got>>
        ELSE /\ w_stash' = fed.stash
             /\ w_got' = w_got \o [i \in DOMAIN fed.out |-> Decode(w_to, w_sent[1].kind, fed.out[i])]
             /\ w_state' = IF Fail \in Range(w_got') THEN "failed" ELSE "open"
     /\ UNCHANGED <<w_from, w_to, w_sent>>

\* Where the stream is cut matters to feed alone, so only batches and their
\* results arrive in pieces.
Chunks ==
  {Len(w_pipe)} \union IF w_sent[1].kind \in Framing THEN {1, HEADER_LEN} ELSE {}

WireChunk == w_sent # <<>> /\ \E n \in Chunks : WireRead(n)

WireNext == WireFirst \/ WireSecond \/ WireChunk

WireSpec == WireInit /\ [][WireNext]_wire_vars

-----------------------------------------------------------------------------
(* Properties *)

Expected == [i \in DOMAIN w_sent |-> MessageMeaning(w_from, w_to, w_sent[i])]

\* However the stream is cut, the reader gets the messages that were written,
\* in their order, each with the values the documentation of the writer's and
\* of the reader's value model says; and it gets all of them when all bytes
\* have arrived (write_value, read_value, feed and decode_* of all codecs).
ReadsWhatWasMeant ==
  /\ w_state # "failed"
  /\ IsPrefix(w_got, Expected)
  /\ w_state = "open" /\ w_pipe = <<>> => w_got = Expected /\ w_stash = <<>>

\* A codec refuses exactly the messages that have no meaning: a number outside
\* the range of its type, a malformed uuid, an array or a batch past its limit.
RefusesWhatHasNoMeaning ==
  \A i \in DOMAIN w_sent :
    (w_state = "refused" /\ i = Len(w_sent)) <=> ~Meaningful(w_from, w_sent[i])

\* A payload cut short, or with a byte behind it, is no message of its kind:
\* the decoders check every length and the end of the payload.
CutsAreNoticed ==
  Len(w_sent) = 1 /\ w_state = "open" /\ w_stash = <<>> /\ w_got = <<>> =>
    LET payload == SubSeq(w_pipe, HEADER_LEN + 1, Len(w_pipe))
        cuts == {SubSeq(payload, 1, n) : n \in 0..(Len(payload) - 1)}
    IN \A c \in cuts \union {Append(payload, 0)} : Decode(w_to, w_sent[1].kind, c) = Fail

\* All three: what is written is read as it was meant, refused when it means
\* nothing, and missed by no byte.
WireKeepsMeaning == ReadsWhatWasMeant /\ RefusesWhatHasNoMeaning /\ CutsAreNoticed
=============================================================================

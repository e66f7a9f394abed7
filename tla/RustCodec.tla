------------------------------ MODULE RustCodec ------------------------------
(***************************************************************************)
(* The codec of the server and of the Rust client (blitz-protocol).        *)
(* A value is [t |-> type, v |-> content] with the types of                *)
(* blitz_types::Value; a Json value has the same form with the types of    *)
(* serde_json.  Requests and responses are records.                        *)
(***************************************************************************)
EXTENDS Wire

PROTOCOL_VERSION == 2
KIND_REQUEST == 1
KIND_BATCH_REQUEST == 2
KIND_ATOMIC_BATCH_REQUEST == 3
KIND_RESPONSE == 17
KIND_BATCH_RESPONSE == 18

\* Op::tag and Op::from_tag, position i having the tag i - 1.
RustOps == <<"ping", "insert", "get", "update", "delete", "scan", "subscribe", "find",
             "search", "call", "job_submit", "job_poll", "proc_deploy", "proc_list",
             "proc_drop", "version", "table_create">>
RustOpTag(op) == CHOOSE i \in 0..(Len(RustOps) - 1) : RustOps[i + 1] = op
RustOpOf(tag) == IF tag < Len(RustOps) THEN RustOps[tag + 1] ELSE Fail

\* The scalar values: the type of a tag, and how its content is laid out.
RustTag ==
  [null |-> 0, bool |-> 1, i8 |-> 2, i16 |-> 3, i32 |-> 4, i64 |-> 5, u8 |-> 6, u16 |-> 7,
   u32 |-> 8, u64 |-> 9, f32 |-> 10, f64 |-> 11, decimal |-> 12, str |-> 13, bytes |-> 14,
   uuid |-> 15, timestamp |-> 16, date |-> 17, json |-> 18, array |-> 19]

RustBody(t) ==
  CASE t \in {"decimal", "str", "bytes"} -> "str"
    [] t = "timestamp" -> "i64"
    [] OTHER -> t

-----------------------------------------------------------------------------
(* Writer *)

RECURSIVE RustPutJson(_)
RustPutJson(j) ==
  CASE j.t = "null" -> <<0>>
    [] j.t = "bool" -> <<1, j.v>>
    [] j.t = "int" -> <<5>> \o PutWrap("i64", j.v)
    [] j.t = "uint" -> <<9>> \o PutWrap("u64", j.v)
    [] j.t = "float" -> <<11>> \o PutWrap("f64", j.v)
    [] j.t = "str" -> <<13>> \o PutStr(j.v)
    [] j.t = "arr" -> Cat(<<19>>, PutSeq(j.v, RustPutJson))
    [] j.t = "obj" -> Cat(<<18>>, PutMap(j.v, RustPutJson))

RustPutDate(d) ==
  PutWrap("i32", num_days_from_ce(d[1], d[2], d[3])) \o PutWrap("u32", d[2]) \o PutWrap("u32", d[3])

RECURSIVE RustPutValue(_)
RustPutValue(x) ==
  LET body == RustBody(x.t)
  IN Cat(<<RustTag[x.t]>>,
         CASE x.t = "null" -> <<>>
           [] x.t = "bool" -> <<x.v>>
           [] x.t = "uuid" -> x.v
           [] x.t = "date" -> RustPutDate(x.v)
           [] x.t = "json" -> RustPutJson(x.v)
           [] x.t = "array" -> PutSeq(x.v, RustPutValue)
           [] body = "str" -> PutStr(x.v)
           [] OTHER -> PutWrap(body, x.v))

RustPutValues(m) == PutMap(m, RustPutValue)

RustPutId(n) == PutWrap("u64", n)

RustPutRequest(r) == PutRequestFields(r, RustOpTag(r.op), RustPutId, RustPutValues)

RustPutResponse(r) ==
  PutResponseFields(r.id, r.ok, r.rows, r.error, RustPutId, RustPutValues)

\* The borrowed writer of the read paths: the status is the absence of an error.
RustPutBorrowed(id, rows, error) ==
  PutResponseFields(id, IF error = None THEN 1 ELSE 0, rows, error, RustPutId, RustPutValues)

-----------------------------------------------------------------------------
(* Reader *)

RECURSIVE RustGetJson(_, _)
RustGetJson(b, p) ==
  Then(Get("u8", b, p), LAMBDA tag, q :
    LET Num(t, k) == Then(Get(k, b, q), LAMBDA n, r : Got([t |-> t, v |-> n], r))
    IN CASE tag = 0 -> Got([t |-> "null", v |-> 0], q)
         [] tag = 1 -> Then(Get("u8", b, q),
                            LAMBDA n, r : Got([t |-> "bool", v |-> IF n = 0 THEN 0 ELSE 1], r))
         [] tag = 5 -> Num("int", "i64")
         [] tag = 9 -> Num("uint", "u64")
         [] tag = 11 -> Num("float", "f64")
         [] tag = 13 -> Then(GetStr(b, q), LAMBDA s, r : Got([t |-> "str", v |-> s], r))
         [] tag = 18 -> Then(GetMap(MAX_MAP, b, q, LAMBDA r : RustGetJson(b, r)),
                             LAMBDA m, r : Got([t |-> "obj", v |-> m], r))
         [] tag = 19 -> Then(GetSeq(MAX_ARRAY, b, q, LAMBDA r : RustGetJson(b, r)),
                             LAMBDA s, r : Got([t |-> "arr", v |-> s], r))
         [] OTHER -> Fail)

\* A date is accepted when the days name a date with this month and this day.
RustGetDate(b, p) ==
  Then(Get("i32", b, p), LAMBDA days, q :
    Then(Get("u32", b, q), LAMBDA m, r :
      Then(Get("u32", b, r), LAMBDA d, s :
        LET ys == (days \div 366)..(days \div 365 + 1)
            fits == {y \in ys : m \in 1..12 /\ d \in 1..MonthDays(y, m)
                                /\ num_days_from_ce(y, m, d) = days}
        IN IF fits = {} THEN Fail ELSE Got(<<CHOOSE y \in fits : TRUE, m, d>>, s))))

RECURSIVE RustGetValue(_, _)
RustGetValue(b, p) ==
  Then(Get("u8", b, p), LAMBDA tag, q :
    LET ts == {t \in DOMAIN RustTag : RustTag[t] = tag}
        t == CHOOSE x \in ts : TRUE
        body == RustBody(t)
        raw ==
          CASE t = "null" -> Got(0, q)
            [] t = "bool" -> Then(Get("u8", b, q), LAMBDA n, r : Got(IF n = 0 THEN 0 ELSE 1, r))
            [] t = "uuid" -> Take(b, q, WUUID)
            [] t = "date" -> RustGetDate(b, q)
            [] t = "json" -> RustGetJson(b, q)
            [] t = "array" -> GetSeq(MAX_ARRAY, b, q, LAMBDA r : RustGetValue(b, r))
            [] body = "str" -> GetStr(b, q)
            [] OTHER -> Get(body, b, q)
    IN IF ts = {} THEN Fail ELSE Then(raw, LAMBDA v, r : Got([t |-> t, v |-> v], r)))

RustGetValues(b, p) == GetMap(MAX_MAP, b, p, LAMBDA q : RustGetValue(b, q))

RustGetRequest(b, p) ==
  GetRequestFields(b, p, TRUE, RustOpOf, LAMBDA q : RustGetValues(b, q))

RustGetRow(b, p) == GetRowFields(b, p, LAMBDA q : RustGetValues(b, q))

RustGetResponse(b, p) ==
  GetResponseFields(b, p, TRUE, MAX_ROWS, LAMBDA q : RustGetRow(b, q))

-----------------------------------------------------------------------------
(* FrameCodec *)

RustFrame(payload) ==
  IF payload = Fail \/ Len(payload) > MAX_FRAME THEN Fail
  ELSE <<PROTOCOL_VERSION>> \o PutWrap("u32", Len(payload)) \o payload

encode_request(r) == RustFrame(Cat(<<KIND_REQUEST>>, RustPutRequest(r)))

encode_batch_request(m) ==
  RustFrame(CatAll(<<<<KIND_BATCH_REQUEST>>, PutWrap("u64", m.id), PutSeq(m.ops, RustPutRequest)>>))

encode_atomic_batch_request(m) ==
  RustFrame(CatAll(<<<<KIND_ATOMIC_BATCH_REQUEST>>, PutWrap("u64", m.id),
                     PutSeq(m.ops, RustPutRequest)>>))

encode_response(r) == RustFrame(Cat(<<KIND_RESPONSE>>, RustPutResponse(r)))

encode_ok_borrowed(id, rows) == RustFrame(Cat(<<KIND_RESPONSE>>, RustPutBorrowed(id, rows, None)))

encode_batch_response(m) ==
  RustFrame(CatAll(<<<<KIND_BATCH_RESPONSE>>, PutWrap("u64", m.id), PutSeq(m.results, RustPutResponse)>>))

\* One frame popped from a buffer: Fail, None (more bytes needed), or the
\* payload and the rest of the buffer.
HEADER_LEN == 1 + W32

\* Variant: a frame that ends the buffer waits for one more byte.
RustFeed_late(buf) ==
  IF Len(buf) < HEADER_LEN THEN None
  ELSE IF buf[1] # PROTOCOL_VERSION THEN Fail
  ELSE LET len == Get("u32", buf, 2).v
       IN IF len > MAX_FRAME THEN Fail
          ELSE IF Len(buf) <= HEADER_LEN + len THEN None
          ELSE [payload |-> SubSeq(buf, HEADER_LEN + 1, HEADER_LEN + len),
                rest |-> SubSeq(buf, HEADER_LEN + len + 1, Len(buf))]

RustFeed(buf) ==
  IF Len(buf) < HEADER_LEN THEN None
  ELSE IF buf[1] # PROTOCOL_VERSION THEN Fail
  ELSE LET len == Get("u32", buf, 2).v
       IN IF len > MAX_FRAME THEN Fail
          ELSE IF Len(buf) < HEADER_LEN + len THEN None
          ELSE [payload |-> SubSeq(buf, HEADER_LEN + 1, HEADER_LEN + len),
                rest |-> SubSeq(buf, HEADER_LEN + len + 1, Len(buf))]

decode_incoming(b) ==
  AtEnd(b, Then(Get("u8", b, 1), LAMBDA kind, p :
    Then(CASE kind = KIND_REQUEST -> RustGetRequest(b, p)
           [] kind \in {KIND_BATCH_REQUEST, KIND_ATOMIC_BATCH_REQUEST} ->
                GetBatchFields(b, p, LAMBDA q : RustGetRequest(b, q))
           [] OTHER -> Fail,
         LAMBDA m, q : Got([kind |-> kind, m |-> m], q))))

decode_response(b) ==
  LET k == Get("u8", b, 1)
  IN IF k = Fail \/ k.v # KIND_RESPONSE THEN Fail ELSE AtEnd(b, RustGetResponse(b, k.p))

decode_batch_response(b) ==
  LET k == Get("u8", b, 1)
  IN IF k = Fail \/ k.v # KIND_BATCH_RESPONSE THEN Fail
     ELSE AtEnd(b, GetBatchFields(b, k.p, LAMBDA q : RustGetResponse(b, q)))
=============================================================================

------------------------------- MODULE GoCodec -------------------------------
(***************************************************************************)
(* The codec of the Go client.  A native value is [t |-> Go type or        *)
(* wrapper key, v |-> content]; a wrapper is a map with that one key.      *)
(***************************************************************************)
EXTENDS PyCodec

GoOpToTag ==
  [ping |-> 0, insert |-> 1, get |-> 2, update |-> 3, delete |-> 4, scan |-> 5,
   subscribe |-> 6, find |-> 7, search |-> 8, call |-> 9, job_submit |-> 10, job_poll |-> 11,
   proc_deploy |-> 12, proc_list |-> 13, proc_drop |-> 14, version |-> 15, table_create |-> 16]

GoTagToOp(tag) ==
  LET ops == {o \in DOMAIN GoOpToTag : GoOpToTag[o] = tag}
  IN IF ops = {} THEN Fail ELSE CHOOSE o \in ops : TRUE

\* Go's division cuts towards zero; the years of a date are positive.
daysFromCivil(y, m, d) ==
  LET yAdj == IF m <= 2 THEN y - 1 ELSE y
      era == yAdj \div 400
      yoe == yAdj - era * 400
      mp == (m + 9) % 12
      doy == (153 * mp + 2) \div 5 + d - 1
      doe == yoe * 365 + yoe \div 4 - yoe \div 100 + doy
  IN era * 146097 + doe - 719468 + 719162

civilFromDays(z) ==
  LET z2 == z - 719162 + 719468
      era == z2 \div 146097
      doe == z2 - era * 146097
      yoe == (doe - doe \div 1460 + doe \div 36524 - doe \div 146096) \div 365
      doy == doe - (365 * yoe + yoe \div 4 - yoe \div 100)
      mp == (5 * doy + 2) \div 153
      m == IF mp < 10 THEN mp + 3 ELSE mp - 9
  IN <<yoe + era * 400 + (IF m <= 2 THEN 1 ELSE 0), m, doy - (153 * mp + 2) \div 5 + 1>>

-----------------------------------------------------------------------------
(* writer *)

\* The key of a wrapper, where it is sent as a Json object because its content
\* has no accepted type.
WrapperKey == <<36>>

RECURSIVE GoPutJson(_)
GoPutJson(j) ==
  CASE j.t = "null" -> <<0>>
    [] j.t = "bool" -> <<1, j.v>>
    [] j.t = "int" -> IF InRange("i64", j.v) THEN <<5>> \o PutWrap("i64", j.v) ELSE Fail
    [] j.t = "float" -> <<11>> \o PutWrap("f64", j.v)
    [] j.t = "str" -> <<13>> \o PutStr(j.v)
    [] j.t = "arr" -> Cat(<<19>>, PutSeq(j.v, GoPutJson))
    [] j.t = "obj" -> Cat(<<18>>, PutMap(j.v, GoPutJson))

\* The Go types whose tag and layout are fixed.
GoScalars ==
  [int8 |-> <<2, "i8">>, int16 |-> <<3, "i16">>, int32 |-> <<4, "i32">>, int64 |-> <<5, "i64">>,
   int |-> <<5, "i64">>, uint8 |-> <<6, "u8">>, uint16 |-> <<7, "u16">>, uint32 |-> <<8, "u32">>,
   uint64 |-> <<9, "u64">>, uint |-> <<9, "u64">>, float32 |-> <<10, "f32">>,
   float64 |-> <<11, "f64">>, time |-> <<16, "i64">>]

GoPutUuid(s) == IF s \in DOMAIN UuidStrings THEN <<15>> \o UuidStrings[s] ELSE Fail

\* intOf and uintOf: a content they do not take makes the map a Json object.
GoPutWrapper(x) ==
  LET json == Cat(<<18>>, GoPutJson([t |-> "obj", v |-> [k \in {WrapperKey} |-> [t |-> "int", v |-> x.v]]]))
  IN CASE x.t = "$i32" -> IF InRange("i32", x.v) THEN <<4>> \o PutWrap("i32", x.v) ELSE Fail
       [] x.t = "$u32" -> IF x.v < 0 THEN json
                          ELSE IF x.v > HiOf("u32") THEN Fail ELSE <<8>> \o PutWrap("u32", x.v)
       [] x.t = "$i64" -> <<5>> \o PutWrap("i64", x.v)
       [] x.t = "$u64" -> IF x.v < 0 THEN json ELSE <<9>> \o PutWrap("u64", x.v)
       [] x.t = "$f32" -> <<10>> \o PutWrap("f32", x.v)
       [] x.t = "$decimal" -> <<12>> \o PutStr(x.v)
       [] x.t = "$date" -> <<17>> \o PutWrap("i32", daysFromCivil(x.v[1], x.v[2], x.v[3]))
                             \o PutWrap("u32", x.v[2]) \o PutWrap("u32", x.v[3])
       [] x.t = "$uuid" -> GoPutUuid(x.v)
       [] x.t = "$bytes" -> <<14>> \o PutStr(x.v)
       [] x.t = "$ts" -> <<16>> \o PutWrap("i64", x.v)

RECURSIVE GoPutValue(_)
GoPutValue(x) ==
  CASE x.t = "nil" -> <<0>>
    [] x.t = "bool" -> <<1, x.v>>
    [] x.t \in DOMAIN GoScalars -> <<GoScalars[x.t][1]>> \o PutWrap(GoScalars[x.t][2], x.v)
    [] x.t = "string" -> IF x.v \in DOMAIN UuidStrings THEN GoPutUuid(x.v) ELSE <<13>> \o PutStr(x.v)
    [] x.t = "[]byte" -> <<14>> \o PutStr(x.v)
    [] x.t = "map" -> Cat(<<18>>, GoPutJson([t |-> "obj", v |-> x.v]))
    [] x.t = "[]any" -> IF Len(x.v) > MAX_ARRAY THEN Fail ELSE Cat(<<19>>, PutSeq(x.v, GoPutValue))
    [] OTHER -> GoPutWrapper(x)

GoPutValues(m) == PutMap(m, GoPutValue)
GoPutId(n) == PutWrap("u64", n)

GoPutRequest(r) == PutRequestFields(r, GoOpToTag[r.op], GoPutId, GoPutValues)

\* An empty error string is no error.
GoPutResponse(r) ==
  PutResponseFields(r.id, r.ok, r.rows, IF r.error = <<>> THEN None ELSE r.error, GoPutId, GoPutValues)

-----------------------------------------------------------------------------
(* reader *)

RECURSIVE GoGetJson(_, _)
GoGetJson(b, p) ==
  Then(Get("u8", b, p), LAMBDA tag, q :
    LET Num(t, k) == Then(Get(k, b, q), LAMBDA n, r : Got([t |-> t, v |-> n], r))
    IN CASE tag = 0 -> Got([t |-> "null", v |-> 0], q)
         [] tag = 1 -> Then(Get("u8", b, q),
                            LAMBDA n, r : Got([t |-> "bool", v |-> IF n = 0 THEN 0 ELSE 1], r))
         [] tag = 5 -> Num("int", "i64")
         [] tag = 9 -> Num("int", "u64")
         [] tag = 11 -> Num("float", "f64")
         [] tag = 13 -> Then(GetStr(b, q), LAMBDA s, r : Got([t |-> "str", v |-> s], r))
         [] tag = 18 -> Then(GetMap(MAX_MAP, b, q, LAMBDA r : GoGetJson(b, r)),
                             LAMBDA m, r : Got([t |-> "obj", v |-> m], r))
         [] tag = 19 -> Then(GetSeq(MAX_ARRAY, b, q, LAMBDA r : GoGetJson(b, r)),
                             LAMBDA s, r : Got([t |-> "arr", v |-> s], r))
         [] OTHER -> Fail)

GoGetDate(b, p) ==
  Then(Get("i32", b, p), LAMBDA days, q :
    Then(Get("u32", b, q), LAMBDA m, r :
      Then(Get("u32", b, r), LAMBDA d, s :
        LET c == civilFromDays(days) IN IF c[2] # m \/ c[3] # d THEN Fail ELSE Got(c, s))))

GoCases ==
  <<<<"u8", "bool">>, <<"i8", "int8">>, <<"i16", "int16">>, <<"i32", "int32">>, <<"i64", "int64">>,
    <<"u8", "uint8">>, <<"u16", "uint16">>, <<"u32", "uint32">>, <<"u64", "uint64">>,
    <<"f32", "float32">>, <<"f64", "float64">>, <<"str", "$decimal">>, <<"str", "string">>,
    <<"str", "[]byte">>>>

GoOfJson(j) ==
  CASE j.t = "null" -> [t |-> "nil", v |-> 0]
    [] j.t = "obj" -> [t |-> "map", v |-> j.v]
    [] OTHER -> [t |-> "json", v |-> j]

RECURSIVE GoGetValue(_, _)
GoGetValue(b, p) ==
  Then(Get("u8", b, p), LAMBDA tag, q :
    CASE tag = 0 -> Got([t |-> "nil", v |-> 0], q)
      [] tag \in DOMAIN GoCases ->
           LET c == GoCases[tag]
           IN Then(IF c[1] = "str" THEN GetStr(b, q) ELSE Get(c[1], b, q),
                   LAMBDA v, r : Got([t |-> c[2], v |-> IF c[2] = "bool" /\ v # 0 THEN 1 ELSE v], r))
      [] tag = 15 -> Then(Take(b, q, WUUID), LAMBDA u, r :
                       Got([t |-> "string", v |-> CHOOSE s \in DOMAIN UuidStrings : UuidStrings[s] = u], r))
      [] tag = 16 -> Then(Get("i64", b, q), LAMBDA n, r : Got([t |-> "time", v |-> n], r))
      [] tag = 17 -> Then(GoGetDate(b, q), LAMBDA d, r : Got([t |-> "$date", v |-> d], r))
      [] tag = 18 -> Then(GoGetJson(b, q), LAMBDA j, r : Got(GoOfJson(j), r))
      [] tag = 19 -> Then(GetSeq(MAX_ARRAY, b, q, LAMBDA r : GoGetValue(b, r)),
                          LAMBDA s, r : Got([t |-> "[]any", v |-> s], r))
      [] OTHER -> Fail)

GoGetValues(b, p) == GetMap(NoCap, b, p, LAMBDA q : GoGetValue(b, q))

GoGetRequest(b, p) == GetRequestFields(b, p, FALSE, GoTagToOp, LAMBDA q : GoGetValues(b, q))

GoGetRow(b, p) == GetRowFields(b, p, LAMBDA q : GoGetValues(b, q))

GoGetResponse(b, p) ==
  Then(GetResponseFields(b, p, FALSE, NoCap, LAMBDA q : GoGetRow(b, q)),
       LAMBDA r, q : Got([r EXCEPT !.error = IF @ = None THEN <<>> ELSE @], q))

-----------------------------------------------------------------------------
(* FrameCodec *)

GoFrame(payload) ==
  IF payload = Fail THEN Fail ELSE <<2>> \o PutWrap("u32", Len(payload)) \o payload

RECURSIVE GoFeed(_, _)
GoFeed(stash, out) ==
  IF Len(stash) < HEADER_LEN THEN [out |-> out, stash |-> stash]
  ELSE IF stash[1] # 2 THEN Fail
  ELSE LET ln == Get("u32", stash, 2).v
       IN IF ln > MAX_FRAME THEN Fail
          ELSE IF Len(stash) < HEADER_LEN + ln THEN [out |-> out, stash |-> stash]
          ELSE GoFeed(SubSeq(stash, HEADER_LEN + ln + 1, Len(stash)),
                      Append(out, SubSeq(stash, HEADER_LEN + 1, HEADER_LEN + ln)))

GoEncodeRequest(r) == GoFrame(Cat(<<1>>, GoPutRequest(r)))

GoEncodeBatch(m, atomic) ==
  IF Len(m.ops) > MAX_BATCH THEN Fail
  ELSE GoFrame(CatAll(<<IF atomic THEN <<3>> ELSE <<2>>, GoPutId(m.id), PutSeq(m.ops, GoPutRequest)>>))

GoDecodeIncoming(b) ==
  AtEnd(b, Then(Get("u8", b, 1), LAMBDA kind, p :
    Then(CASE kind = 1 -> GoGetRequest(b, p)
           [] kind \in {2, 3} ->
                GetBatchFields(b, p, LAMBDA q : GoGetRequest(b, q))
           [] OTHER -> Fail,
         LAMBDA m, q : Got([kind |-> kind, m |-> m], q))))

GoDecodeResponse(b) ==
  LET k == Get("u8", b, 1)
  IN IF k = Fail \/ k.v # 17 THEN Fail ELSE AtEnd(b, GoGetResponse(b, k.p))

GoDecodeBatchResponse(b) ==
  LET k == Get("u8", b, 1)
  IN IF k = Fail \/ k.v # 18 THEN Fail
     ELSE AtEnd(b, GetBatchFields(b, k.p, LAMBDA q : GoGetResponse(b, q)))

GoEncodeBatchResponse(m) ==
  GoFrame(CatAll(<<<<18>>, GoPutId(m.id), PutSeq(m.results, GoPutResponse)>>))
=============================================================================

------------------------------- MODULE TsCodec -------------------------------
(***************************************************************************)
(* The codec of the TypeScript client.  A native value is [t |-> type or   *)
(* wrapper key, v |-> content]: "number" is a number that is a safe        *)
(* integer, "float" the bit pattern of any other number, "Date" counts     *)
(* milliseconds.                                                           *)
(***************************************************************************)
EXTENDS GoCodec

CONSTANT MAX_SAFE  \* Number.MAX_SAFE_INTEGER

TsOpToTag ==
  [ping |-> 0, insert |-> 1, get |-> 2, update |-> 3, delete |-> 4, scan |-> 5,
   subscribe |-> 6, find |-> 7, search |-> 8, call |-> 9, job_submit |-> 10, job_poll |-> 11,
   proc_deploy |-> 12, proc_list |-> 13, proc_drop |-> 14, version |-> 15, table_create |-> 16]

TsTagToOp(tag) ==
  LET ops == <<"ping", "insert", "get", "update", "delete", "scan", "subscribe", "find", "search",
               "call", "job_submit", "job_poll", "proc_deploy", "proc_list", "proc_drop",
               "version", "table_create">>
  IN IF tag + 1 \in DOMAIN ops THEN ops[tag + 1] ELSE Fail

\* u8 masks and u32 shifts the upper bits out; the others throw.
TsPut(k, n) == IF k \in {"u8", "u32"} THEN PutWrap(k, n) ELSE PutCheck(k, n)

TsDaysFromCivil(y, m, d) ==
  LET yAdj == IF m <= 2 THEN y - 1 ELSE y
      era == yAdj \div 400
      yoe == yAdj - era * 400
      doy == (153 * ((m + 9) % 12) + 2) \div 5 + d - 1
  IN era * 146097 + yoe * 365 + yoe \div 4 - yoe \div 100 + doy - 719468 + 719162

TsCivilFromDays(z) ==
  LET z2 == z - 719162 + 719468
      era == z2 \div 146097
      doe == z2 - era * 146097
      yoe == (doe - doe \div 1460 + doe \div 36524 - doe \div 146096) \div 365
      doy == doe - (365 * yoe + yoe \div 4 - yoe \div 100)
      mp == (5 * doy + 2) \div 153
      m == IF mp < 10 THEN mp + 3 ELSE mp - 9
  IN <<yoe + era * 400 + (IF m <= 2 THEN 1 ELSE 0), m, doy - (153 * mp + 2) \div 5 + 1>>

-----------------------------------------------------------------------------
(* Writer *)

TsPutUuid(s) == IF s \in DOMAIN UuidStrings THEN <<15>> \o UuidStrings[s] ELSE Fail

RECURSIVE TsPutJson(_)
TsPutJson(j) ==
  CASE j.t = "null" -> <<0>>
    [] j.t = "bool" -> <<1, j.v>>
    [] j.t = "int" -> Cat(<<5>>, TsPut("i64", j.v))
    [] j.t = "float" -> <<11>> \o PutWrap("f64", j.v)
    [] j.t = "str" -> <<13>> \o PutStr(j.v)
    [] j.t = "arr" -> Cat(<<19>>, PutSeq(j.v, TsPutJson))
    [] j.t = "obj" -> Cat(<<18>>, PutMap(j.v, TsPutJson))

RECURSIVE TsPutValue(_)
TsPutValue(x) ==
  CASE x.t = "null" -> <<0>>
    [] x.t = "boolean" -> <<1, x.v>>
    [] x.t = "bigint" -> IF x.v >= 0 THEN Cat(<<9>>, TsPut("u64", x.v)) ELSE Cat(<<5>>, TsPut("i64", x.v))
    [] x.t \in {"number", "$i64"} -> Cat(<<5>>, TsPut("i64", x.v))
    [] x.t = "float" -> <<11>> \o PutWrap("f64", x.v)
    [] x.t = "string" -> IF x.v \in DOMAIN UuidStrings THEN TsPutUuid(x.v) ELSE <<13>> \o PutStr(x.v)
    [] x.t = "Uint8Array" -> <<14>> \o PutStr(x.v)
    [] x.t = "Date" -> Cat(<<16>>, TsPut("i64", x.v * 1000))
    [] x.t = "Array" -> IF Len(x.v) > MAX_ARRAY THEN Fail ELSE Cat(<<19>>, PutSeq(x.v, TsPutValue))
    [] x.t = "$i32" -> Cat(<<2>>, TsPut("u8", x.v))
    [] x.t = "$u32" -> Cat(<<8>>, TsPut("u32", x.v))
    [] x.t = "$u64" -> Cat(<<9>>, TsPut("u64", x.v))
    [] x.t = "$f32" -> <<10>> \o PutWrap("f32", x.v)
    [] x.t = "$decimal" -> <<12>> \o PutStr(x.v)
    [] x.t = "$date" -> CatAll(<<<<17>>, TsPut("i32", TsDaysFromCivil(x.v[1], x.v[2], x.v[3])),
                                 TsPut("u32", x.v[2]), TsPut("u32", x.v[3])>>)
    [] x.t = "$uuid" -> TsPutUuid(x.v)
    [] x.t = "object" -> Cat(<<18>>, TsPutJson([t |-> "obj", v |-> x.v]))
    [] OTHER -> Fail

TsPutValues(m) == PutMap(m, TsPutValue)
TsPutId(n) == TsPut("u64", n)

TsPutRequest(r) == PutRequestFields(r, TsOpToTag[r.op], TsPutId, TsPutValues)

TsPutResponse(r) == PutResponseFields(r.id, r.ok, r.rows, r.error, TsPutId, TsPutValues)

-----------------------------------------------------------------------------
(* Reader *)

RECURSIVE TsGetJson(_, _)
TsGetJson(b, p) ==
  Then(Get("u8", b, p), LAMBDA tag, q :
    LET Num(t, k) == Then(Get(k, b, q), LAMBDA n, r : Got([t |-> t, v |-> n], r))
    IN CASE tag = 0 -> Got([t |-> "null", v |-> 0], q)
         [] tag = 1 -> Then(Get("u8", b, q),
                            LAMBDA n, r : Got([t |-> "bool", v |-> IF n = 0 THEN 0 ELSE 1], r))
         [] tag = 5 -> Num("int", "i64")
         [] tag = 9 -> Num("int", "u64")
         [] tag = 11 -> Num("float", "f64")
         [] tag = 13 -> Then(GetStr(b, q), LAMBDA s, r : Got([t |-> "str", v |-> s], r))
         [] tag = 18 -> Then(GetMap(MAX_MAP, b, q, LAMBDA r : TsGetJson(b, r)),
                             LAMBDA m, r : Got([t |-> "obj", v |-> m], r))
         [] tag = 19 -> Then(GetSeq(MAX_ARRAY, b, q, LAMBDA r : TsGetJson(b, r)),
                             LAMBDA s, r : Got([t |-> "arr", v |-> s], r))
         [] OTHER -> Fail)

TsGetDate(b, p) ==
  Then(Get("i32", b, p), LAMBDA days, q :
    Then(Get("u32", b, q), LAMBDA m, r :
      Then(Get("u32", b, r), LAMBDA d, s :
        LET c == TsCivilFromDays(days) IN IF c[2] # m \/ c[3] # d THEN Fail ELSE Got(c, s))))

TsCases ==
  <<<<"u8", "boolean">>, <<"i8", "number">>, <<"i16", "number">>, <<"i32", "number">>,
    <<"i64", "number">>, <<"u8", "number">>, <<"u16", "number">>, <<"u32", "number">>,
    <<"u64", "number">>, <<"f32", "float">>, <<"f64", "float">>, <<"str", "$decimal">>,
    <<"str", "string">>, <<"str", "Uint8Array">>>>

\* An integer outside the safe range is a bigint; milliseconds cut towards zero.
TsNumber(n) == [t |-> IF n \in -MAX_SAFE..MAX_SAFE THEN "number" ELSE "bigint", v |-> n]
TsMillis(n) == IF n >= 0 THEN n \div 1000 ELSE -((-n) \div 1000)

TsOfJson(j) ==
  CASE j.t = "null" -> [t |-> "null", v |-> 0]
    [] j.t = "obj" -> [t |-> "object", v |-> j.v]
    [] OTHER -> [t |-> "json", v |-> j]

RECURSIVE TsGetValue(_, _)
TsGetValue(b, p) ==
  Then(Get("u8", b, p), LAMBDA tag, q :
    CASE tag = 0 -> Got([t |-> "null", v |-> 0], q)
      [] tag \in DOMAIN TsCases ->
           LET c == TsCases[tag]
           IN Then(IF c[1] = "str" THEN GetStr(b, q) ELSE Get(c[1], b, q), LAMBDA v, r :
                Got(CASE c[2] = "number" -> TsNumber(v)
                      [] c[2] = "boolean" -> [t |-> "boolean", v |-> IF v = 0 THEN 0 ELSE 1]
                      [] OTHER -> [t |-> c[2], v |-> v], r))
      [] tag = 15 -> Then(Take(b, q, WUUID), LAMBDA u, r :
                       Got([t |-> "string", v |-> CHOOSE s \in DOMAIN UuidStrings : UuidStrings[s] = u], r))
      [] tag = 16 -> Then(Get("i64", b, q), LAMBDA n, r : Got([t |-> "Date", v |-> TsMillis(n)], r))
      [] tag = 17 -> Then(TsGetDate(b, q), LAMBDA d, r : Got([t |-> "$date", v |-> d], r))
      [] tag = 18 -> Then(TsGetJson(b, q), LAMBDA j, r : Got(TsOfJson(j), r))
      [] tag = 19 -> Then(GetSeq(MAX_ARRAY, b, q, LAMBDA r : TsGetValue(b, r)),
                          LAMBDA s, r : Got([t |-> "Array", v |-> s], r))
      [] OTHER -> Fail)

TsGetValues(b, p) == GetMap(NoCap, b, p, LAMBDA q : TsGetValue(b, q))

TsGetRequest(b, p) == GetRequestFields(b, p, FALSE, TsTagToOp, LAMBDA q : TsGetValues(b, q))

TsGetRow(b, p) == GetRowFields(b, p, LAMBDA q : TsGetValues(b, q))

TsGetResponse(b, p) == GetResponseFields(b, p, FALSE, NoCap, LAMBDA q : TsGetRow(b, q))

-----------------------------------------------------------------------------
(* FrameCodec *)

TsFrame(payload) ==
  IF payload = Fail THEN Fail ELSE <<2>> \o PutWrap("u32", Len(payload)) \o payload

RECURSIVE TsFeed(_, _)
TsFeed(stash, out) ==
  IF Len(stash) < HEADER_LEN THEN [out |-> out, stash |-> stash]
  ELSE IF stash[1] # 2 THEN Fail
  ELSE LET len == Get("u32", stash, 2).v
       IN IF len > MAX_FRAME THEN Fail
          ELSE IF Len(stash) < HEADER_LEN + len THEN [out |-> out, stash |-> stash]
          ELSE TsFeed(SubSeq(stash, HEADER_LEN + len + 1, Len(stash)),
                      Append(out, SubSeq(stash, HEADER_LEN + 1, HEADER_LEN + len)))

TsEncodeRequest(r) == TsFrame(Cat(<<1>>, TsPutRequest(r)))

TsEncodeBatch(m, atomic) ==
  IF Len(m.ops) > MAX_BATCH THEN Fail
  ELSE TsFrame(CatAll(<<IF atomic THEN <<3>> ELSE <<2>>, TsPutId(m.id), PutSeq(m.ops, TsPutRequest)>>))

TsDecodeIncoming(b) ==
  AtEnd(b, Then(Get("u8", b, 1), LAMBDA kind, p :
    Then(CASE kind = 1 -> TsGetRequest(b, p)
           [] kind \in {2, 3} ->
                GetBatchFields(b, p, LAMBDA q : TsGetRequest(b, q))
           [] OTHER -> Fail,
         LAMBDA m, q : Got([kind |-> kind, m |-> m], q))))

TsDecodeResponse(b) ==
  LET k == Get("u8", b, 1)
  IN IF k = Fail \/ k.v # 17 THEN Fail ELSE AtEnd(b, TsGetResponse(b, k.p))

TsDecodeBatchResponse(b) ==
  LET k == Get("u8", b, 1)
  IN IF k = Fail \/ k.v # 18 THEN Fail
     ELSE AtEnd(b, GetBatchFields(b, k.p, LAMBDA q : TsGetResponse(b, q)))

TsEncodeBatchResponse(m) ==
  TsFrame(CatAll(<<<<18>>, TsPutId(m.id), PutSeq(m.results, TsPutResponse)>>))
=============================================================================

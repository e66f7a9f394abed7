------------------------------- MODULE PyCodec -------------------------------
(***************************************************************************)
(* The codec of the Python client.  A native value is [t |-> Python type   *)
(* or wrapper key, v |-> content]; the wrappers are the dicts {"$i32": n}  *)
(* and so on.  A datetime passes through a float and is not modelled.      *)
(***************************************************************************)
EXTENDS RustCodec

PyOpToTag ==
  [ping |-> 0, insert |-> 1, get |-> 2, update |-> 3, delete |-> 4, scan |-> 5,
   subscribe |-> 6, find |-> 7, search |-> 8, call |-> 9, job_submit |-> 10, job_poll |-> 11,
   proc_deploy |-> 12, proc_list |-> 13, proc_drop |-> 14, version |-> 15, table_create |-> 16]

PyTagToOp(tag) ==
  LET ops == {o \in DOMAIN PyOpToTag : PyOpToTag[o] = tag}
  IN IF ops = {} THEN Fail ELSE CHOOSE o \in ops : TRUE

\* The unsigned writers mask; the others raise when the value does not fit.
PyPut(k, n) == IF k \in {"u8", "u16", "u32"} THEN PutWrap(k, n) ELSE PutCheck(k, n)

days_from_civil(y, m, d) ==
  LET y_adj == IF m <= 2 THEN y - 1 ELSE y
      era == y_adj \div 400
      yoe == y_adj - era * 400
      mp == (m + 9) % 12
      doy == (153 * mp + 2) \div 5 + d - 1
      doe == yoe * 365 + yoe \div 4 - yoe \div 100 + doy
  IN era * 146097 + doe - 719468 + 719162

civil_from_days(z) ==
  LET z2 == z - 719162 + 719468
      era == z2 \div 146097
      doe == z2 - era * 146097
      yoe == (doe - doe \div 1460 + doe \div 36524 - doe \div 146096) \div 365
      y == yoe + era * 400
      doy == doe - (365 * yoe + yoe \div 4 - yoe \div 100)
      mp == (5 * doy + 2) \div 153
      d == doy - (153 * mp + 2) \div 5 + 1
      m == IF mp < 10 THEN mp + 3 ELSE mp - 9
  IN <<IF m <= 2 THEN y + 1 ELSE y, m, d>>

-----------------------------------------------------------------------------
(* Writer *)

PyPutUuid(s) == IF s \in DOMAIN UuidStrings THEN <<15>> \o UuidStrings[s] ELSE Fail

PyPutDate(d) ==
  CatAll(<<<<17>>, PyPut("i32", days_from_civil(d[1], d[2], d[3])), PyPut("u32", d[2]),
           PyPut("u32", d[3])>>)

RECURSIVE PyPutJson(_)
PyPutJson(j) ==
  CASE j.t = "null" -> <<0>>
    [] j.t = "bool" -> <<1, j.v>>
    [] j.t = "int" -> Cat(<<5>>, PyPut("i64", j.v))
    [] j.t = "float" -> Cat(<<11>>, PyPut("f64", j.v))
    [] j.t = "str" -> <<13>> \o PutStr(j.v)
    [] j.t = "arr" -> Cat(<<19>>, PutSeq(j.v, PyPutJson))
    [] j.t = "obj" -> Cat(<<18>>, PutMap(j.v, PyPutJson))

RECURSIVE PyPutValue(_)
PyPutValue(x) ==
  CASE x.t = "None" -> <<0>>
    [] x.t = "bool" -> <<1, x.v>>
    [] x.t \in {"int", "$i64"} -> Cat(<<5>>, PyPut("i64", x.v))
    [] x.t = "float" -> Cat(<<11>>, PyPut("f64", x.v))
    [] x.t = "str" -> IF x.v \in DOMAIN UuidStrings THEN PyPutUuid(x.v) ELSE <<13>> \o PutStr(x.v)
    [] x.t = "bytes" -> <<14>> \o PutStr(x.v)
    [] x.t \in {"date", "$date"} -> PyPutDate(x.v)
    [] x.t = "list" ->
         IF Len(x.v) > MAX_ARRAY THEN Fail ELSE Cat(<<19>>, PutSeq(x.v, PyPutValue))
    [] x.t = "$i32" -> Cat(<<2>>, PyPut("u8", x.v))
    [] x.t = "$u32" -> Cat(<<8>>, PyPut("u32", x.v))
    [] x.t = "$u64" -> Cat(<<9>>, PyPut("u64", x.v))
    [] x.t = "$f32" -> Cat(<<10>>, PyPut("f32", x.v))
    [] x.t = "$decimal" -> <<12>> \o PutStr(x.v)
    [] x.t = "$uuid" -> PyPutUuid(x.v)
    [] x.t = "dict" -> Cat(<<18>>, PyPutJson([t |-> "obj", v |-> x.v]))
    [] OTHER -> Fail

PyPutValues(m) == PutMap(m, PyPutValue)

\* _as_u64: an id outside the range is refused.
PyPutId(n) == PyPut("u64", n)

PyPutRequest(r) == PutRequestFields(r, PyOpToTag[r.op], PyPutId, PyPutValues)

PyPutResponse(r) == PutResponseFields(r.id, r.ok, r.rows, r.error, PyPutId, PyPutValues)

-----------------------------------------------------------------------------
(* Reader *)

RECURSIVE PyGetJson(_, _)
PyGetJson(b, p) ==
  Then(Get("u8", b, p), LAMBDA tag, q :
    LET Num(t, k) == Then(Get(k, b, q), LAMBDA n, r : Got([t |-> t, v |-> n], r))
    IN CASE tag = 0 -> Got([t |-> "null", v |-> 0], q)
         [] tag = 1 -> Then(Get("u8", b, q),
                            LAMBDA n, r : Got([t |-> "bool", v |-> IF n = 0 THEN 0 ELSE 1], r))
         [] tag = 5 -> Num("int", "i64")
         [] tag = 9 -> Num("int", "u64")
         [] tag = 11 -> Num("float", "f64")
         [] tag = 13 -> Then(GetStr(b, q), LAMBDA s, r : Got([t |-> "str", v |-> s], r))
         [] tag = 18 -> Then(GetMap(MAX_MAP, b, q, LAMBDA r : PyGetJson(b, r)),
                             LAMBDA m, r : Got([t |-> "obj", v |-> m], r))
         [] tag = 19 -> Then(GetSeq(MAX_ARRAY, b, q, LAMBDA r : PyGetJson(b, r)),
                             LAMBDA s, r : Got([t |-> "arr", v |-> s], r))
         [] OTHER -> Fail)

PyGetDate(b, p) ==
  Then(Get("i32", b, p), LAMBDA days, q :
    Then(Get("u32", b, q), LAMBDA m, r :
      Then(Get("u32", b, r), LAMBDA d, s :
        LET c == civil_from_days(days) IN IF c[2] # m \/ c[3] # d THEN Fail ELSE Got(c, s))))

\* A tag's layout and the Python type it becomes.  A Json object becomes a
\* dict, another Json value the Python value of its kind.
PyCases ==
  <<<<"u8", "bool">>, <<"i8", "int">>, <<"i16", "int">>, <<"i32", "int">>, <<"i64", "int">>,
    <<"u8", "int">>, <<"u16", "int">>, <<"u32", "int">>, <<"u64", "int">>, <<"f32", "float">>,
    <<"f64", "float">>, <<"str", "$decimal">>, <<"str", "str">>, <<"str", "bytes">>>>

PyOfJson(j) ==
  CASE j.t = "null" -> [t |-> "None", v |-> 0]
    [] j.t = "obj" -> [t |-> "dict", v |-> j.v]
    [] j.t = "arr" -> [t |-> "json list", v |-> j.v]
    [] OTHER -> j

RECURSIVE PyGetValue(_, _)
PyGetValue(b, p) ==
  Then(Get("u8", b, p), LAMBDA tag, q :
    CASE tag = 0 -> Got([t |-> "None", v |-> 0], q)
      [] tag \in DOMAIN PyCases ->
           LET c == PyCases[tag]
           IN Then(IF c[1] = "str" THEN GetStr(b, q) ELSE Get(c[1], b, q),
                   LAMBDA v, r : Got([t |-> c[2], v |-> IF c[2] = "bool" /\ v # 0 THEN 1 ELSE v], r))
      [] tag = 15 -> Then(Take(b, q, WUUID), LAMBDA u, r :
                       Got([t |-> "str", v |-> CHOOSE s \in DOMAIN UuidStrings : UuidStrings[s] = u], r))
      [] tag = 17 -> Then(PyGetDate(b, q), LAMBDA d, r : Got([t |-> "$date", v |-> d], r))
      [] tag = 18 -> Then(PyGetJson(b, q), LAMBDA j, r : Got(PyOfJson(j), r))
      [] tag = 19 -> Then(GetSeq(MAX_ARRAY, b, q, LAMBDA r : PyGetValue(b, r)),
                          LAMBDA s, r : Got([t |-> "list", v |-> s], r))
      [] OTHER -> Fail)

PyGetValues(b, p) == GetMap(NoCap, b, p, LAMBDA q : PyGetValue(b, q))

PyGetRequest(b, p) == GetRequestFields(b, p, FALSE, PyTagToOp, LAMBDA q : PyGetValues(b, q))

PyGetRow(b, p) == GetRowFields(b, p, LAMBDA q : PyGetValues(b, q))

PyGetResponse(b, p) == GetResponseFields(b, p, FALSE, NoCap, LAMBDA q : PyGetRow(b, q))

-----------------------------------------------------------------------------
(* FrameCodec *)

\* No limit on what is sent.
PyFrame(payload) ==
  IF payload = Fail THEN Fail ELSE <<2>> \o PutWrap("u32", Len(payload)) \o payload

\* All complete payloads of the stash with a chunk behind it, and what remains.
RECURSIVE PyFeed(_, _)
PyFeed(stash, out) ==
  IF Len(stash) < HEADER_LEN THEN [out |-> out, stash |-> stash]
  ELSE IF stash[1] # 2 THEN Fail
  ELSE LET ln == Get("u32", stash, 2).v
       IN IF ln > MAX_FRAME THEN Fail
          ELSE IF Len(stash) < HEADER_LEN + ln THEN [out |-> out, stash |-> stash]
          ELSE PyFeed(SubSeq(stash, HEADER_LEN + ln + 1, Len(stash)),
                      Append(out, SubSeq(stash, HEADER_LEN + 1, HEADER_LEN + ln)))

PyEncodeRequest(r) == PyFrame(Cat(<<1>>, PyPutRequest(r)))

PyEncodeBatch(m, atomic) ==
  IF Len(m.ops) > MAX_BATCH THEN Fail
  ELSE PyFrame(CatAll(<<IF atomic THEN <<3>> ELSE <<2>>, PyPutId(m.id), PutSeq(m.ops, PyPutRequest)>>))

PyDecodeIncoming(b) ==
  AtEnd(b, Then(Get("u8", b, 1), LAMBDA kind, p :
    Then(CASE kind = 1 -> PyGetRequest(b, p)
           [] kind \in {2, 3} ->
                GetBatchFields(b, p, LAMBDA q : PyGetRequest(b, q))
           [] OTHER -> Fail,
         LAMBDA m, q : Got([kind |-> kind, m |-> m], q))))

PyDecodeResponse(b) ==
  LET k == Get("u8", b, 1)
  IN IF k = Fail \/ k.v # 17 THEN Fail ELSE AtEnd(b, PyGetResponse(b, k.p))

PyDecodeBatchResponse(b) ==
  LET k == Get("u8", b, 1)
  IN IF k = Fail \/ k.v # 18 THEN Fail
     ELSE AtEnd(b, GetBatchFields(b, k.p, LAMBDA q : PyGetResponse(b, q)))

PyEncodeBatchResponse(m) ==
  PyFrame(CatAll(<<<<18>>, PyPutId(m.id), PutSeq(m.results, PyPutResponse)>>))
=============================================================================

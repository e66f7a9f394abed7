-------------------------------- MODULE Wire --------------------------------
(***************************************************************************)
(* The bytes of the wire protocol (blitz-protocol): integers of fixed      *)
(* width, little-endian and in two's complement, strings and blobs with a  *)
(* length before them, options with a presence byte, and the frame around  *)
(* a payload.  The four codecs (RustCodec, GoCodec, PyCodec, TsCodec) are  *)
(* written with these.                                                     *)
(*                                                                         *)
(* The arithmetic is exact and the widths are parameters, since TLC's      *)
(* integers are too small for eight bytes: a byte has BYTE values, a word  *)
(* of 16, 32 and 64 bits has W16 < W32 < W64 bytes, a uuid WUUID.          *)
(* A float is its bit pattern; a string is a sequence of bytes.            *)
(*                                                                         *)
(* A writer gives the bytes it appends, or Fail; a reader the value and    *)
(* the position behind it, or Fail.                                        *)
(***************************************************************************)
EXTENDS Integers, Sequences, FiniteSets, SequencesExt

CONSTANTS
  BYTE, W16, W32, W64, WUUID,
  Fail,         \* an encoder's or a decoder's error
  None,         \* an absent option
  MAX_FRAME,    \* DEFAULT_MAX_FRAME
  MAX_ARRAY, MAX_MAP, MAX_BATCH, MAX_ROWS,
  UuidStrings   \* strings of the shape of a uuid; the function to its bytes

ASSUME WireAssumption ==
  /\ BYTE \in Nat /\ BYTE > 19
  /\ 1 < W16 /\ W16 < W32 /\ W32 < W64 /\ WUUID \in Nat \ {0}
  /\ MAX_FRAME \in Nat
  /\ \A u \in DOMAIN UuidStrings : Len(UuidStrings[u]) = WUUID

WireKinds == {"u8", "i8", "u16", "i16", "u32", "i32", "f32", "u64", "i64", "f64"}

\* The size of a primitive, and the range of its values.
WidthOf(k) ==
  CASE k \in {"u8", "i8"} -> 1
    [] k \in {"u16", "i16"} -> W16
    [] k \in {"u32", "i32", "f32"} -> W32
    [] k \in {"u64", "i64", "f64"} -> W64

SignedKind(k) == k \in {"i8", "i16", "i32", "i64"}
LoOf(k) == IF SignedKind(k) THEN -((BYTE ^ WidthOf(k)) \div 2) ELSE 0
HiOf(k) == LoOf(k) + BYTE ^ WidthOf(k) - 1
InRange(k, n) == LoOf(k) <= n /\ n <= HiOf(k)

\* n modulo 2^bits, as the byte sequence put_*_le appends.
LE(n, w) == [i \in 1..w |-> (n \div (BYTE ^ (i - 1))) % BYTE]

UnLE(b) == FoldRight(LAMBDA d, acc : d + BYTE * acc, b, 0)

AsKind(k, n) == IF n > HiOf(k) THEN n - BYTE ^ WidthOf(k) ELSE n

-----------------------------------------------------------------------------
(* Writers *)

Cat(a, b) == IF Fail \in {a, b} THEN Fail ELSE a \o b

CatAll(ss) == FoldLeft(Cat, <<>>, ss)

\* An integer that wraps, as a conversion does, or that must be in range.
PutWrap(k, n) == LE(n, WidthOf(k))
PutCheck(k, n) == IF InRange(k, n) THEN LE(n, WidthOf(k)) ELSE Fail

PutStr(s) == PutWrap("u32", Len(s)) \o s

PutOption(o, bytes) == IF o = None THEN <<0>> ELSE Cat(<<1>>, bytes)

\* A map is written in the order of its iteration, which no reader depends on.
PutMap(m, Value(_)) ==
  LET keys == SetToSeq(DOMAIN m)
  IN Cat(PutWrap("u32", Len(keys)),
         CatAll([i \in 1..Len(keys) |-> Cat(PutStr(keys[i]), Value(m[keys[i]]))]))

PutSeq(s, Item(_)) == Cat(PutWrap("u32", Len(s)), CatAll([i \in 1..Len(s) |-> Item(s[i])]))

-----------------------------------------------------------------------------
(* Readers *)

Got(v, p) == [v |-> v, p |-> p]

\* The bytes from p on, n of them.
Take(b, p, n) == IF p + n - 1 > Len(b) THEN Fail ELSE Got(SubSeq(b, p, p + n - 1), p + n)

Get(k, b, p) ==
  LET r == Take(b, p, WidthOf(k))
  IN IF r = Fail THEN Fail ELSE Got(AsKind(k, UnLE(r.v)), r.p)

\* A reader on what follows: Then(r, F) is F(r.v, r.p), or Fail if r failed.
Then(r, F(_, _)) == IF r = Fail THEN Fail ELSE F(r.v, r.p)

GetStr(b, p) == Then(Get("u32", b, p), LAMBDA n, q : Take(b, q, n))

\* The presence byte of an option: Rust accepts 0 and 1 only, the other codecs
\* take any byte but 0 for present.
GetOption(strict, b, p, Item(_)) ==
  Then(Get("u8", b, p),
       LAMBDA t, q : IF t = 0 THEN Got(None, q)
                     ELSE IF strict /\ t # 1 THEN Fail ELSE Item(q))

\* n items one after the other; a cap refuses a count before any is read.
GetMany(n, cap, p, Item(_)) ==
  IF n > cap THEN Fail
  ELSE FoldLeft(LAMBDA acc, i : IF acc = Fail THEN Fail
                                ELSE Then(Item(acc.p), LAMBDA v, q : Got(Append(acc.v, v), q)),
                Got(<<>>, p), [i \in 1..n |-> i])

GetSeq(cap, b, p, Item(_)) ==
  Then(Get("u32", b, p), LAMBDA n, q : GetMany(n, cap, q, Item))

\* A map: of two entries with one key the later one stays.
GetMap(cap, b, p, Value(_)) ==
  Then(GetSeq(cap, b, p,
              LAMBDA q : Then(GetStr(b, q),
                              LAMBDA k, r : Then(Value(r), LAMBDA v, s : Got(<<k, v>>, s)))),
       LAMBDA es, q :
         Got([k \in {es[i][1] : i \in DOMAIN es} |->
                es[CHOOSE i \in DOMAIN es :
                     es[i][1] = k /\ \A j \in DOMAIN es : es[j][1] = k => j <= i][2]], q))

\* The whole payload must have been read.
AtEnd(b, r) == IF r = Fail \/ r.p # Len(b) + 1 THEN Fail ELSE r.v

-----------------------------------------------------------------------------
(* The fields of the messages, in the order all codecs write and read them. *)

PutRequestFields(r, tag, Id(_), Values(_)) ==
  CatAll(<<Id(r.id), <<tag>>, PutStr(r.table), PutOption(r.row_id, Id(r.row_id)),
           PutOption(r.values, Values(r.values))>>)

PutResponseFields(id, ok, rows, error, Id(_), Values(_)) ==
  CatAll(<<Id(id), <<ok>>, PutSeq(rows, LAMBDA row : Cat(Id(row.id), Values(row.values))),
           PutOption(error, PutStr(error))>>)

GetRequestFields(b, p, strict, OpOf(_), Values(_)) ==
  Then(Get("u64", b, p), LAMBDA id, p1 :
    Then(Get("u8", b, p1), LAMBDA tag, p2 :
      IF OpOf(tag) = Fail THEN Fail
      ELSE Then(GetStr(b, p2), LAMBDA table, p3 :
        Then(GetOption(strict, b, p3, LAMBDA q : Get("u64", b, q)), LAMBDA row, p4 :
          Then(GetOption(strict, b, p4, Values), LAMBDA vals, p5 :
            Got([id |-> id, op |-> OpOf(tag), table |-> table, row_id |-> row,
                 values |-> vals], p5))))))

GetRowFields(b, p, Values(_)) ==
  Then(Get("u64", b, p), LAMBDA id, q :
    Then(Values(q), LAMBDA vals, r : Got([id |-> id, values |-> vals], r)))

GetResponseFields(b, p, strict, cap, Row(_)) ==
  Then(Get("u64", b, p), LAMBDA id, p1 :
    Then(Get("u8", b, p1), LAMBDA ok, p2 :
      Then(GetSeq(cap, b, p2, Row), LAMBDA rows, p3 :
        Then(GetOption(strict, b, p3, LAMBDA q : GetStr(b, q)), LAMBDA err, p4 :
          Got([id |-> id, ok |-> IF ok = 0 THEN 0 ELSE 1, rows |-> rows, error |-> err], p4)))))

GetBatchFields(b, p, Item(_)) ==
  Then(Get("u64", b, p), LAMBDA id, q :
    Then(GetSeq(MAX_BATCH, b, q, Item), LAMBDA items, r : Got([id |-> id, items |-> items], r)))

\* No cap of its own: what is left of the payload bounds the count.
NoCap == BYTE ^ W32

-----------------------------------------------------------------------------
(* Dates: the two ways the code counts days. *)

Leap(y) == y % 4 = 0 /\ (y % 100 # 0 \/ y % 400 = 0)
MonthDays(y, m) ==
  CASE m \in {4, 6, 9, 11} -> 30 [] m = 2 -> IF Leap(y) THEN 29 ELSE 28 [] OTHER -> 31

\* chrono's num_days_from_ce: the first of January of year 1 is day 1.
num_days_from_ce(y, m, d) ==
  LET before == [i \in 1..(m - 1) |-> MonthDays(y, i)]
      z == y - 1
  IN 365 * z + z \div 4 - z \div 100 + z \div 400 + FoldLeft(LAMBDA a, n : a + n, 0, before) + d
=============================================================================

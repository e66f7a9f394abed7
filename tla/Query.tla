-------------------------------- MODULE Query --------------------------------
(***************************************************************************)
(* Values with their equality, order and hash (blitz-types) and queries    *)
(* over rows of them (blitz-query): filters, sorts, pages, projections,    *)
(* aggregates and groups, checked against what they mean.                  *)
(***************************************************************************)
EXTENDS Integers, Sequences, FiniteSets, SequencesExt

CONSTANTS
    QueryRows,       \* what rows can hold: functions from columns to values
    Queries,         \* the queries that are asked
    MaxQueryRows,
    SIGN,            \* the sign bit of a float, above every magnitude
    UNIT,            \* floats count in parts of 1 / UNIT
    NoFilter,
    NoQuery

-----------------------------------------------------------------------------
(* A value is a variant and a payload, a sequence of integers: the number, *)
(* sign and magnitude of a float, the characters of a text, the elements   *)
(* of an array of integers.                                                *)

Variants ==
    <<"Boolean", "Int8", "Int16", "Int32", "Int64", "UInt8", "UInt16", "UInt32", "UInt64",
      "Float32", "Float64", "Decimal", "String", "Bytes", "Uuid", "Timestamp", "Date", "Json",
      "Array", "Null">>
VariantIndex(t) == CHOOSE k \in 1..Len(Variants) : Variants[k] = t
Floats == {"Float32", "Float64"}
Integral == {Variants[k] : k \in 2..9}

Value(t, v) == [t |-> t, v |-> v]
NullValue == Value("Null", <<>>)
is_null(x) == x.t = "Null"

\* What cmp compares within a variant, and what is hashed: a float by its bits.
to_bits(x) == x.v[1] * SIGN + x.v[2]
OrderKey(x) == IF x.t \in Floats THEN <<to_bits(x)>> ELSE x.v

Sign(n) == IF n < 0 THEN -1 ELSE IF n > 0 THEN 1 ELSE 0
LexCmp(a, b) ==
    LET differ == {k \in 1..(IF Len(a) < Len(b) THEN Len(a) ELSE Len(b)) : a[k] # b[k]}
    IN  IF differ = {} THEN Sign(Len(a) - Len(b)) ELSE LET k == Min(differ) IN Sign(a[k] - b[k])

\* Null is the least value, although its variant is the last.
Cmp(x, y) ==
    CASE is_null(x) \/ is_null(y) -> (IF is_null(x) THEN 0 ELSE 1) - (IF is_null(y) THEN 0 ELSE 1)
      [] x.t # y.t -> Sign(VariantIndex(x.t) - VariantIndex(y.t))
      [] OTHER -> LexCmp(OrderKey(x), OrderKey(y))

\* A number in parts of 1 / UNIT.
IsNumber(x) == x.t \in Integral \cup Floats
as_f64(x) == IF x.t \in Floats THEN (1 - 2 * x.v[1]) * x.v[2] ELSE UNIT * x.v[1]
Float64(n) == Value("Float64", IF n < 0 THEN <<1, -n>> ELSE <<0, n>>)

\* The derived equality: that of the numbers for floats.
Eq(x, y) == x.t = y.t /\ (IF x.t \in Floats THEN as_f64(x) = as_f64(y) ELSE x.v = y.v)
HashOf(x) == <<x.t, OrderKey(x)>>

\* Two values are one key of a HashMap.
SameKey(x, y) == Eq(x, y) /\ HashOf(x) = HashOf(y)

-----------------------------------------------------------------------------
(* Rows and the builder of queries.                                        *)

Has(row, c) == c \in DOMAIN row.values
Project(row, cols) == [row EXCEPT !.values = [c \in cols \cap DOMAIN @ |-> @[c]]]
ReadAs(row, c) == IF Has(row, c) THEN row.values[c] ELSE NullValue

NewQuery ==
    [filter |-> NoFilter, projections |-> {}, sorts |-> <<>>, limit |-> {}, offset |-> 0,
     aggregations |-> <<>>, group_by |-> <<>>]
FilterBy(q, f) == [q EXCEPT !.filter = f]
Select(q, cols) == [q EXCEPT !.projections = {cols}]
OrderBy(q, c, dir) == [q EXCEPT !.sorts = Append(@, [column |-> c, direction |-> dir])]
LimitTo(q, n) == [q EXCEPT !.limit = {n}]
OffsetBy(q, n) == [q EXCEPT !.offset = n]
Aggregate(q, alias, fn, c) == [q EXCEPT !.aggregations = Append(@, [alias |-> alias, fn |-> fn, column |-> c])]
GroupBy(q, cols) == [q EXCEPT !.group_by = cols]

\* A condition on a column; All, Any and Not combine conditions.
Where(op, c, vals) == [op |-> op, column |-> c, vals |-> vals, subs |-> <<>>]
Combine(op, subs) == [op |-> op, column |-> "", vals |-> <<>>, subs |-> subs]

-----------------------------------------------------------------------------
(* Filters.                                                                *)

\* Parts of a pattern are found one behind the other, each at its first place
\* behind the last; the first part only at the start.  A pattern is given as
\* the sequence of its parts, the texts between the percent signs.
FoundAt(s, part, pos) == {k \in pos..(Len(s) - Len(part)) : SubSeq(s, k + 1, k + Len(part)) = part}

RECURSIVE LikeFrom(_, _, _, _)
LikeFrom(s, parts, i, pos) ==
    IF i > Len(parts) THEN TRUE
    ELSE IF parts[i] = <<>> THEN LikeFrom(s, parts, i + 1, pos)
    ELSE LET at == FoundAt(s, parts[i], pos)
         IN  /\ at # {}
             /\ i = 1 => Min(at) = pos
             /\ LikeFrom(s, parts, i + 1, Min(at) + Len(parts[i]))

Like(s, parts) == IF Len(parts) = 1 THEN s = parts[1] ELSE LikeFrom(s, parts, 1, 0)

RECURSIVE matches_filter(_, _)
matches_filter(row, f) ==
    LET has == Has(row, f.column)
        v == row.values[f.column]
        Rel(k) == Cmp(v, f.vals[k])
        Listed == \E k \in 1..Len(f.vals) : Eq(v, f.vals[k])
    IN  CASE f.op = "Eq" -> has /\ Eq(v, f.vals[1])
          [] f.op = "Ne" -> has => ~Eq(v, f.vals[1])
          [] f.op = "Gt" -> has /\ Rel(1) > 0
          [] f.op = "Lt" -> has /\ Rel(1) < 0
          [] f.op = "Gte" -> has /\ Rel(1) >= 0
          [] f.op = "Lte" -> has /\ Rel(1) <= 0
          [] f.op = "In" -> has /\ Listed
          [] f.op = "NotIn" -> has => ~Listed
          [] f.op = "Between" -> has /\ Rel(1) >= 0 /\ Rel(2) <= 0
          [] f.op = "Like" -> has /\ v.t = "String" /\ Like(v.v, f.vals)
          [] f.op = "IsNull" -> has => is_null(v)
          [] f.op = "IsNotNull" -> has /\ ~is_null(v)
          [] f.op = "And" -> \A k \in 1..Len(f.subs) : matches_filter(row, f.subs[k])
          [] f.op = "Or" -> \E k \in 1..Len(f.subs) : matches_filter(row, f.subs[k])
          [] f.op = "Not" -> ~matches_filter(row, f.subs[1])

filter_rows(rows, f) == SelectSeq(rows, LAMBDA r : f = NoFilter \/ matches_filter(r, f))

-----------------------------------------------------------------------------
(* Sorting is stable; a row without the column comes behind those with it. *)

ColumnCmp(a, b, c) ==
    CASE Has(a, c) /\ Has(b, c) -> Cmp(a.values[c], b.values[c])
      [] OTHER -> (IF Has(b, c) THEN 1 ELSE 0) - (IF Has(a, c) THEN 1 ELSE 0)

SortCmp(a, b, sorts) ==
    LET By(s) == (IF s.direction = "Asc" THEN 1 ELSE -1) * ColumnCmp(a, b, s.column)
        differ == {k \in 1..Len(sorts) : By(sorts[k]) # 0}
    IN  IF differ = {} THEN 0 ELSE By(sorts[Min(differ)])

sort_rows(rows, sorts) ==
    LET Place(i) == Cardinality({j \in 1..Len(rows) :
                        LET d == SortCmp(rows[j], rows[i], sorts) IN d < 0 \/ (d = 0 /\ j <= i)})
    IN  [k \in 1..Len(rows) |-> rows[CHOOSE i \in 1..Len(rows) : Place(i) = k]]

Truncate(rows, limit) ==
    IF limit = {} THEN rows
    ELSE LET n == CHOOSE n \in limit : TRUE IN SubSeq(rows, 1, IF n < Len(rows) THEN n ELSE Len(rows))

-----------------------------------------------------------------------------
(* Aggregates.                                                             *)

SumOf(vals) == FoldLeft(LAMBDA a, x : a + as_f64(x), 0, vals)
Extreme(vals, dir) ==
    IF vals = <<>> THEN NullValue
    ELSE FoldLeft(LAMBDA best, x : IF dir * Cmp(x, best) > 0 THEN x ELSE best, Head(vals), Tail(vals))

Aggregated(rows, a) ==
    LET given == SelectSeq(rows, LAMBDA r : Has(r, a.column))
        vals == [k \in 1..Len(given) |-> given[k].values[a.column]]
        some == SelectSeq(vals, LAMBDA x : ~is_null(x))
        numbers == SelectSeq(vals, IsNumber)
    IN  CASE a.fn = "Count" -> Value("Int64", <<Len(rows)>>)
          [] a.fn = "CountColumn" -> Value("Int64", <<Len(some)>>)
          [] a.fn = "Sum" -> Float64(SumOf(numbers))
          [] a.fn = "Avg" -> IF numbers = <<>> THEN NullValue
                             ELSE Float64(SumOf(numbers) \div Len(numbers))
          [] a.fn = "Min" -> Extreme(some, -1)
          [] a.fn = "Max" -> Extreme(some, 1)

\* The columns of `into`, those of an alias replaced.
compute_aggregations(rows, aggs, into) ==
    FoldLeft(LAMBDA m, a : [c \in DOMAIN m \cup {a.alias} |->
                               IF c = a.alias THEN Aggregated(rows, a) ELSE m[c]], into, aggs)

GroupKey(row, cols) == [k \in 1..Len(cols) |-> ReadAs(row, cols[k])]
SameGroup(a, b, cols) == \A k \in 1..Len(cols) : SameKey(GroupKey(a, cols)[k], GroupKey(b, cols)[k])

GroupRow(rows, q) ==
    LET cols == q.group_by
    IN  [id |-> 0,
         values |-> compute_aggregations(rows, q.aggregations,
                        [c \in ToSet(cols) |-> ReadAs(rows[1], c)])]

\* Groups come out of a map in any order and are sorted by their columns.
execute_aggregation(rows, q) ==
    LET cols == q.group_by
        first == {i \in 1..Len(rows) : \A j \in 1..(i - 1) : ~SameGroup(rows[j], rows[i], cols)}
        groups == {GroupRow(SelectSeq(rows, LAMBDA r : SameGroup(r, rows[i], cols)), q) : i \in first}
    IN  IF cols = <<>>
        THEN <<[id |-> 0, values |-> compute_aggregations(rows, q.aggregations, <<>>)]>>
        ELSE Truncate(sort_rows(SetToSeq(groups), [k \in 1..Len(cols) |->
                                    [column |-> cols[k], direction |-> "Asc"]]), q.limit)

-----------------------------------------------------------------------------
(* Execution.                                                              *)

Output(rows, q) ==
    [k \in 1..Len(rows) |->
        IF q.projections = {} THEN rows[k] ELSE Project(rows[k], CHOOSE cols \in q.projections : TRUE)]

\* Variant: the page is cut before the rows in front of it are dropped.
execute_limit_first(rows, q) ==
    LET found == Truncate(sort_rows(filter_rows(rows, q.filter), q.sorts), q.limit)
    IN  IF q.group_by # <<>> \/ q.aggregations # <<>>
        THEN execute_aggregation(filter_rows(rows, q.filter), q)
        ELSE IF q.offset >= Len(found) THEN <<>>
        ELSE Output(SubSeq(found, q.offset + 1, Len(found)), q)

execute(rows, q) ==
    LET found == filter_rows(rows, q.filter)
        sorted == sort_rows(found, q.sorts)
    IN  IF q.group_by # <<>> \/ q.aggregations # <<>> THEN execute_aggregation(found, q)
        ELSE IF q.offset >= Len(sorted) THEN <<>>
        ELSE Output(Truncate(SubSeq(sorted, q.offset + 1, Len(sorted)), q.limit), q)

-----------------------------------------------------------------------------
(* A slice of rows is put together and one query is asked of it.           *)

VARIABLES q_rows, q_asked, q_got

query_vars == <<q_rows, q_asked, q_got>>

QueryInit == q_rows = <<>> /\ q_asked = NoQuery /\ q_got = <<>>

AddRow(values) ==
    /\ q_asked = NoQuery /\ Len(q_rows) < MaxQueryRows
    /\ q_rows' = Append(q_rows, [id |-> Len(q_rows) + 1, values |-> values])
    /\ UNCHANGED <<q_asked, q_got>>

Ask(q) ==
    /\ q_asked = NoQuery
    /\ q_asked' = q /\ q_got' = execute(q_rows, q)
    /\ UNCHANGED q_rows

QueryNext == (\E values \in QueryRows : AddRow(values)) \/ (\E q \in Queries : Ask(q))

-----------------------------------------------------------------------------
(* What an answer has to be, said without the way it is computed.          *)

\* Numbers of one variant compare as numbers.
MeantCmp(x, y) == IF x.t = y.t /\ IsNumber(x) THEN Sign(as_f64(x) - as_f64(y)) ELSE Cmp(x, y)

\* The parts can be placed one behind the other, the first at the start.
LikeMeant(s, parts) ==
    \E at \in [1..Len(parts) -> 0..Len(s)] :
        /\ at[1] = 0
        /\ \A i \in 1..Len(parts) :
              /\ at[i] + Len(parts[i]) <= IF i < Len(parts) THEN at[i + 1] ELSE Len(s)
              /\ SubSeq(s, at[i] + 1, at[i] + Len(parts[i])) = parts[i]
        /\ Len(parts) = 1 => Len(parts[1]) = Len(s)

RECURSIVE Meant(_, _)
Meant(row, f) ==
    LET x == row.values[f.column]
    IN  CASE f.op \in {"Gt", "Gte"} ->
                Has(row, f.column) /\ MeantCmp(x, f.vals[1]) >= IF f.op = "Gt" THEN 1 ELSE 0
          [] f.op \in {"Lt", "Lte"} ->
                Has(row, f.column) /\ MeantCmp(x, f.vals[1]) <= IF f.op = "Lt" THEN -1 ELSE 0
          [] f.op = "Between" ->
                Has(row, f.column) /\ MeantCmp(x, f.vals[1]) >= 0 /\ MeantCmp(x, f.vals[2]) <= 0
          [] f.op = "Like" -> Has(row, f.column) /\ x.t = "String" /\ LikeMeant(x.v, f.vals)
          [] f.op = "And" -> \A g \in ToSet(f.subs) : Meant(row, g)
          [] f.op = "Or" -> \E g \in ToSet(f.subs) : Meant(row, g)
          [] f.op = "Not" -> ~Meant(row, f.subs[1])
          [] OTHER -> matches_filter(row, f)

\* Row a may stand before row b.
MayPrecede(a, b, sorts) ==
    LET By(s) ==
            LET d == IF Has(a, s.column) /\ Has(b, s.column)
                     THEN MeantCmp(a.values[s.column], b.values[s.column])
                     ELSE ColumnCmp(a, b, s.column)
            IN  IF s.direction = "Asc" THEN d ELSE -d
    IN  \/ \E k \in 1..Len(sorts) : By(sorts[k]) < 0 /\ \A j \in 1..(k - 1) : By(sorts[j]) = 0
        \/ a.id < b.id /\ \A k \in 1..Len(sorts) : By(sorts[k]) = 0

\* The answer is the page of the one right order of the rows that were meant.
PageMeant(found, q, got) ==
    LET n == Cardinality(found)
        left == IF q.offset < n THEN n - q.offset ELSE 0
    IN  \E order \in [1..n -> found] :
            /\ \A i, j \in 1..n : i < j => MayPrecede(order[i], order[j], q.sorts)
            /\ Len(got) = Min({left} \cup q.limit)
            /\ got = Output([k \in 1..Len(got) |-> order[q.offset + k]], q)

\* The aggregate of a set of rows bounds them, counts them or adds them up.
AggregateMeant(rows, a, x) ==
    LET given == {r \in rows : Has(r, a.column) /\ ~is_null(r.values[a.column])}
        Below(d) == \A r \in given : d * MeantCmp(x, r.values[a.column]) <= 0
        Sum == SumOf([k \in 1..Cardinality(given) |-> SetToSeq(given)[k].values[a.column]])
    IN  CASE a.fn = "Count" -> x.v[1] = Cardinality(rows)
          [] a.fn = "CountColumn" -> x.v[1] = Cardinality(given)
          [] a.fn = "Min" -> IF given = {} THEN is_null(x) ELSE Below(1)
          [] a.fn = "Max" -> IF given = {} THEN is_null(x) ELSE Below(-1)
          [] a.fn = "Avg" -> IF given = {} THEN is_null(x) ELSE as_f64(x) * Cardinality(given) = Sum
          [] a.fn = "Sum" -> as_f64(x) = Sum

\* Every row is in one group, groups are in order, and each aggregate is of its
\* own group's rows; a limit keeps the first groups.
GroupsMeant(found, q, got) ==
    LET cols == q.group_by
        In(k) == {r \in found : \A c \in ToSet(cols) : MeantCmp(ReadAs(r, c), got[k].values[c]) = 0}
        ByColumn == [k \in 1..Len(cols) |-> [column |-> cols[k], direction |-> "Asc"]]
    IN  /\ q.limit = {} => \A r \in found : \E k \in 1..Len(got) : r \in In(k)
        /\ \A k \in 1..Len(got), a \in ToSet(q.aggregations) :
              AggregateMeant(In(k), a, got[k].values[a.alias])
        /\ \A i, j \in 1..Len(got) :
              i < j => /\ MayPrecede(got[i], got[j], ByColumn)
                       /\ In(i) \cap In(j) = {} /\ (cols # <<>> => In(i) # {} /\ In(j) # {})

(* An answer is what the query says: the rows that were meant, in the one  *)
(* right order, cut to the page that was asked for; or groups that divide  *)
(* these rows, with aggregates that are true of them (QueryExecutor:       *)
(* matches_filter, sort_rows, execute_aggregation).  Floats are not        *)
(* negative in the instance.                                               *)
QueriesRight ==
    q_asked # NoQuery =>
        LET found == {r \in ToSet(q_rows) : q_asked.filter = NoFilter \/ Meant(r, q_asked.filter)}
        IN  IF q_asked.group_by = <<>> /\ q_asked.aggregations = <<>>
            THEN PageMeant(found, q_asked, q_got)
            ELSE GroupsMeant(found, q_asked, q_got)
=============================================================================

---------------------------- MODULE MCTableEngine ----------------------------
(***************************************************************************)
(* A small instance of TableEngine, and of the crates beside the engine:   *)
(* queries, indexes, stores and the replicator.  They are checked side by  *)
(* side: a behaviour runs one part and leaves the others at their first    *)
(* state.                                                                  *)
(***************************************************************************)
EXTENDS TableEngine, Indexes, Stores, Cluster

CONSTANTS u

\* One unique column: validate_row_values refuses an insert in which it is
\* null or absent; insert_unchecked, update and the restoring of rows do not.
MCSchema ==
    u :> [primary_key |-> FALSE, unique |-> TRUE, nullable |-> FALSE, default |-> FALSE]

ThreadSymmetry == Permutations(Threads)

----------------------------------------------------------------------------
(* Queries: rows with and without each column, nulls among them, numbers   *)
(* of two variants; every condition, every page, every aggregate.          *)

QInt(n) == Value("Int64", <<n>>)
QStr(s) == Value("String", s)
QTwo == Value("Float64", <<0, 2 * UNIT>>)
QRow(x, y) == ("a" :> x) @@ ("b" :> y)

MCQueryRows ==
    {QRow(QInt(1), QStr(<<1, 2>>)), QRow(QInt(2), QStr(<<1, 2, 1>>)), QRow(QInt(-1), NullValue),
     "b" :> QStr(<<2, 1, 1>>), QRow(QTwo, QStr(<<1, 2>>))}

OnA(op, n) == Where(op, "a", <<QInt(n)>>)
LikeB(parts) == Where("Like", "b", parts)
MCConditions ==
    {OnA(op, 1) : op \in {"Eq", "Ne", "Gt", "Lt", "Gte", "Lte"}}
      \cup {Where("In", "a", <<QInt(1), QTwo>>), Where("NotIn", "a", <<QInt(2)>>),
            Where("Between", "a", <<QInt(-1), QInt(1)>>), Where("IsNull", "b", <<>>), Where("IsNotNull", "b", <<>>)}
      \cup {LikeB(p) : p \in {<< <<1, 2>> >>, << <<1>>, <<1>> >>, << <<>>, <<1>>, <<1>> >>, << <<1>>, <<>> >>}}
MCQueryFilters ==
    {NoFilter} \cup MCConditions
      \cup {Combine("Not", <<f>>) : f \in {OnA("Gt", 1), LikeB(<< <<1>>, <<1>> >>)}}
      \cup {Combine(op, <<OnA("Lt", 2), Where("IsNull", "b", <<>>)>>) : op \in {"And", "Or"}}
MCPages ==
    LET sorted == {OrderBy(NewQuery, "a", "Asc"), OrderBy(NewQuery, "a", "Desc"),
                   OrderBy(OrderBy(NewQuery, "b", "Desc"), "a", "Asc"), NewQuery}
    IN  {OffsetBy(q, o) : q \in sorted \cup {LimitTo(q, n) : q \in sorted, n \in {0, 2}}, o \in {0, 1, 3}}
MCAggregates ==
    LET all == {Aggregate(Aggregate(NewQuery, "n", "Count", "a"), "x", fn, "a") :
                  fn \in {"CountColumn", "Sum", "Avg", "Min", "Max"}}
    IN  all \cup {GroupBy(q, cols) : q \in all, cols \in {<<"b">>, <<"b", "a">>}}
          \cup {LimitTo(GroupBy(q, <<"b">>), 1) : q \in all}
MCQueries ==
    {FilterBy(NewQuery, f) : f \in MCQueryFilters} \cup MCPages \cup MCAggregates
      \cup {FilterBy(q, OnA("Gte", 1)) : q \in MCAggregates}
      \cup {Select(FilterBy(q, OnA("Ne", 1)), {"a"}) : q \in MCPages}

(* Indexes: numbers of two variants and null.  Documents that share words, *)
(* one field of which is not indexed.                                      *)

MCIndexValues == {QInt(1), QInt(-1), Value("Float64", <<0, 0>>), Value("Float64", <<0, UNIT>>), NullValue}
Document(i, title, body, on) == [id |-> i, fields |-> [title |-> title, body |-> body], indexed |-> on]
MCSearchDocs ==
    {Document(1, <<"xx", "yy">>, <<"yy">>, {"title", "body"}), Document(1, <<"zz", "a">>, <<"yy">>, {"title", "body"}),
     Document(2, <<"yy">>, <<"zz">>, {"title"})}

(* Stores: a column that JSON keeps, one that it does not, one with nulls. *)

MCStoreRows == {"n" :> QInt(1), "n" :> QStr(<<1>>), "n" :> NullValue, "n" :> Value("Int32", <<2>>)}
MCStoreColumns == {Column("Int64", FALSE, FALSE), Column("String", TRUE, FALSE), Column("Int32", FALSE, FALSE)}

----------------------------------------------------------------------------
VARIABLE part

crate_vars == <<query_vars, index_vars, pool_vars, search_vars, storage_vars, facade_vars, cluster_vars>>
all_vars == <<part, vars, crate_vars>>

Parts ==
    {"engine", "query", "index", "pool", "search", "storage", "facades", "routes", "replicator", "membership"}

\* Parts whose first state is chosen choose only when they run.
MCInit ==
    /\ Init /\ QueryInit /\ IndexInit /\ PoolInit /\ SearchInit /\ StorageInit /\ FacadeInit /\ ClusterInit
    /\ part \in Parts
    /\ part # "index" => ix_kind = "btree"
    /\ part # "storage" => st_mode = "plain" /\ st_tab.schema["n"].type = "Int64"

QueryStep ==
    /\ part = "query" /\ QueryNext
    /\ UNCHANGED <<index_vars, pool_vars, search_vars, storage_vars, facade_vars, cluster_vars>>

IndexStep ==
    /\ \/ part = "index" /\ IndexNext /\ UNCHANGED <<pool_vars, search_vars>>
       \/ part = "pool" /\ PoolNext /\ UNCHANGED <<index_vars, search_vars>>
       \/ part = "search" /\ SearchNext /\ UNCHANGED <<index_vars, pool_vars>>
    /\ UNCHANGED <<query_vars, storage_vars, facade_vars, cluster_vars>>

StoreStep ==
    /\ \/ part = "storage" /\ StorageNext /\ UNCHANGED facade_vars
       \/ part = "facades" /\ FacadeNext /\ UNCHANGED storage_vars
       \/ part = "routes" /\ RouteNext /\ UNCHANGED storage_vars
    /\ UNCHANGED <<query_vars, index_vars, pool_vars, search_vars, cluster_vars>>

ClusterStep ==
    /\ \/ part = "replicator" /\ ReplicatorNext /\ UNCHANGED nodes
       \/ part = "membership" /\ MembershipNext
    /\ UNCHANGED <<query_vars, index_vars, pool_vars, search_vars, storage_vars, facade_vars>>

\* What clients ask of the crates is bounded; after that nothing need happen.
NoMoreRequests == part # "engine" /\ UNCHANGED all_vars

MCNext ==
    \/ part = "engine" /\ Next /\ UNCHANGED <<part, crate_vars>>
    \/ (QueryStep \/ IndexStep \/ StoreStep \/ ClusterStep) /\ UNCHANGED <<part, vars>>
    \/ NoMoreRequests

MCSpec == MCInit /\ [][MCNext]_all_vars
=============================================================================

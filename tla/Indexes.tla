------------------------------- MODULE Indexes -------------------------------
(***************************************************************************)
(* The index crates, in three parts that share nothing: the hash and tree  *)
(* indexes of one column (blitz-index, blitz-core), the pools of scratch   *)
(* rows (blitz-core), and the inverted index of documents with its three   *)
(* locks (blitz-search).                                                   *)
(***************************************************************************)
EXTENDS Query

CONSTANTS
    IndexValues,     \* the values of the indexed column
    IndexRows,       \* the ids of its rows
    NoValue,
    PoolInitial, PoolMax,   \* objects a pool starts with, and keeps at most
    MaxMade,         \* bound: objects made
    SearchThreads,
    SearchDocs,      \* documents, with the fields they are indexed on
    ShortWords,      \* words of one letter
    MaxSearchOps,    \* bound: calls of index_document and remove_document
    Reindex,         \* documents are indexed again, or by two threads at once
    NoDoc

ASSUME IndexesAssumption == PoolInitial <= PoolMax /\ PoolMax > 0 /\ Reindex \in BOOLEAN

-----------------------------------------------------------------------------
(* An index: a map from values to row ids, by hash and equality or by the  *)
(* order of values.                                                        *)

VARIABLES
    ix_kind,         \* which of the five indexes this is
    ix_map,          \* its entries, a set of [key, ids]
    ix_rows          \* the value under which a row is indexed: what callers know

index_vars == <<ix_kind, ix_map, ix_rows>>

Kinds == {"btree", "hash", "hash unique", "core", "core unique"}
Unique == ix_kind \in {"hash unique", "core unique"}

OneKey(x, y) == IF ix_kind = "btree" THEN Cmp(x, y) = 0 ELSE SameKey(x, y)
At(value) == {e \in ix_map : OneKey(e.key, value)}
lookup(value) == IF At(value) = {} THEN <<>> ELSE (CHOOSE e \in At(value) : TRUE).ids

IndexInit ==
    /\ ix_kind \in Kinds /\ ix_map = {}
    /\ ix_rows = [i \in IndexRows |-> NoValue]

\* A unique index refuses a value that it has.
IndexInsert(i, value) ==
    /\ ix_rows[i] = NoValue
    /\ IF Unique /\ At(value) # {} THEN UNCHANGED <<ix_map, ix_rows>>
       ELSE /\ ix_map' = (ix_map \ At(value)) \cup
                            {[key |-> IF At(value) = {} THEN value ELSE (CHOOSE e \in At(value) : TRUE).key,
                              ids |-> Append(lookup(value), i)]}
            /\ ix_rows' = [ix_rows EXCEPT ![i] = value]
    /\ UNCHANGED ix_kind

\* Variant: an entry whose last row is gone stays.
Retained_empty(value, i) == {[e EXCEPT !.ids = SelectSeq(@, LAMBDA j : j # i)] : e \in At(value)}

Retained(value, i) ==
    {e \in {[e EXCEPT !.ids = SelectSeq(@, LAMBDA j : j # i)] : e \in At(value)} : e.ids # <<>>}

\* The unique index of blitz-core drops the value whatever row it is of, so its
\* callers must name the row they indexed; the others compare the row.
IndexRemove(i, value) ==
    /\ ix_kind = "core unique" => ix_rows[i] = value
    /\ ix_map' = (ix_map \ At(value)) \cup (IF ix_kind = "core unique" THEN {} ELSE Retained(value, i))
    /\ ix_rows' = [ix_rows EXCEPT ![i] = IF @ # NoValue /\ OneKey(@, value) THEN NoValue ELSE @]
    /\ UNCHANGED ix_kind

IndexClear ==
    /\ ix_kind \in {"btree", "hash", "hash unique"}
    /\ ix_map' = {} /\ ix_rows' = [i \in IndexRows |-> NoValue]
    /\ UNCHANGED ix_kind

IndexNext ==
    \/ \E i \in IndexRows, value \in IndexValues : IndexInsert(i, value) \/ IndexRemove(i, value)
    \/ IndexClear

\* Reads of the tree: entries between two values, the first and the last one.
range(start, end) == {e \in ix_map : Cmp(e.key, start) >= 0 /\ Cmp(e.key, end) <= 0}
range_exclusive(start, end) == {e \in ix_map : Cmp(e.key, start) > 0 /\ Cmp(e.key, end) < 0}
min == {e \in ix_map : \A d \in ix_map : Cmp(e.key, d.key) <= 0}
max == {e \in ix_map : \A d \in ix_map : Cmp(e.key, d.key) >= 0}

IdsIn(entries) == UNION {ToSet(e.ids) : e \in entries}
len == MapThenSumSet(LAMBDA e : Len(e.ids), ix_map)

-----------------------------------------------------------------------------
(* A pool of scratch rows.  Objects are numbered as the factory makes them.*)

VARIABLES
    po_free,         \* objects for reuse, the last one first
    po_out,          \* objects that callers have
    po_filled,       \* objects with something in them
    po_created,      \* total_created
    po_made          \* objects the factory made

pool_vars == <<po_free, po_out, po_filled, po_created, po_made>>

PoolInit ==
    /\ po_free = [k \in 1..PoolInitial |-> k]
    /\ po_out = {} /\ po_filled = {}
    /\ po_created = PoolInitial /\ po_made = PoolInitial

\* A made object counts as created only below the maximum.
checkout ==
    \/ /\ po_free # <<>>
       /\ po_out' = po_out \cup {Last(po_free)} /\ po_free' = Front(po_free)
       /\ po_filled' = po_filled \ {Last(po_free)}
       /\ UNCHANGED <<po_created, po_made>>
    \/ /\ po_free = <<>> /\ po_made < MaxMade
       /\ po_made' = po_made + 1 /\ po_out' = po_out \cup {po_made'}
       /\ po_created' = IF po_created < PoolMax THEN po_created + 1 ELSE po_created
       /\ UNCHANGED <<po_free, po_filled>>

checkin(o) ==
    /\ o \in po_out /\ po_out' = po_out \ {o}
    /\ po_filled' = po_filled \ {o}
    /\ po_free' = IF Len(po_free) < PoolMax THEN Append(po_free, o) ELSE po_free
    /\ UNCHANGED <<po_created, po_made>>

Fill(o) == o \in po_out /\ po_filled' = po_filled \cup {o} /\ UNCHANGED <<po_free, po_out, po_created, po_made>>

PoolNext == checkout \/ \E o \in po_out : checkin(o) \/ Fill(o)

-----------------------------------------------------------------------------
(* The inverted index.  Scores are left out: they order the hits, and      *)
(* total_count, which nothing reads.                                       *)

VARIABLES
    se_postings,     \* documents that the index lists under a word
    se_docs,         \* the map of documents: id -> document
    se_lengths,      \* ids that have a length
    se_pc,           \* thread -> where it is, with the document or id
    se_ops

search_vars == <<se_postings, se_docs, se_lengths, se_pc, se_ops>>

SearchIds == {d.id : d \in SearchDocs}
SearchWords == UNION {UNION {ToSet(d.fields[f]) : f \in DOMAIN d.fields} : d \in SearchDocs}
Terms(doc, fields) == UNION {ToSet(doc.fields[f]) : f \in fields \cap DOMAIN doc.fields} \ ShortWords

InsideSearch(pc, d) == [pc |-> pc, doc |-> d]
Outside == InsideSearch("idle", NoDoc)

\* A lock is free when no thread is at a place where it holds it.  The guard of
\* the index lives to the end of index_document, that of the documents to the
\* end of the branch of remove_document.
IndexFree == \A t \in SearchThreads : se_pc[t].pc \notin {"put document", "put length"}
DocsFree == \A t \in SearchThreads : se_pc[t].pc # "drop postings"

\* Unless Reindex, callers index an id once and use it from one thread at a time.
MayUse(id) ==
    ~Reindex => id \notin {se_pc[t].doc.id : t \in {t \in SearchThreads : se_pc[t] # Outside}}

SearchInit ==
    /\ se_postings = [w \in SearchWords |-> {}]
    /\ se_docs = [i \in SearchIds |-> NoDoc]
    /\ se_lengths = {}
    /\ se_pc = [t \in SearchThreads |-> Outside]
    /\ se_ops = 0

\* index_document: postings, then the document, then its length, the index
\* locked all the while.
PutPostings(t, d) ==
    /\ se_pc[t] = Outside /\ IndexFree /\ se_ops < MaxSearchOps
    /\ MayUse(d.id) /\ (~Reindex => se_docs[d.id] = NoDoc)
    /\ se_postings' = [w \in SearchWords |-> IF w \in Terms(d, d.indexed)
                                        THEN se_postings[w] \cup {d.id} ELSE se_postings[w]]
    /\ se_pc' = [se_pc EXCEPT ![t] = InsideSearch("put document", d)]
    /\ se_ops' = se_ops + 1
    /\ UNCHANGED <<se_docs, se_lengths>>

PutDocument(t) ==
    /\ se_pc[t].pc = "put document" /\ DocsFree
    /\ se_docs' = [se_docs EXCEPT ![se_pc[t].doc.id] = se_pc[t].doc]
    /\ se_pc' = [se_pc EXCEPT ![t].pc = "put length"]
    /\ UNCHANGED <<se_postings, se_lengths, se_ops>>

PutLength(t) ==
    /\ se_pc[t].pc = "put length"
    /\ se_lengths' = se_lengths \cup {se_pc[t].doc.id}
    /\ se_pc' = [se_pc EXCEPT ![t] = Outside]
    /\ UNCHANGED <<se_postings, se_docs, se_ops>>

\* remove_document: the document, then, with the documents still locked, its
\* postings, then its length.
DropDocument(t, d) ==
    /\ se_pc[t] = Outside /\ DocsFree /\ se_ops < MaxSearchOps /\ MayUse(d.id)
    /\ se_docs' = [se_docs EXCEPT ![d.id] = NoDoc]
    /\ se_pc' = [se_pc EXCEPT ![t] = IF se_docs[d.id] = NoDoc THEN InsideSearch("drop length", d)
                                     ELSE InsideSearch("drop postings", se_docs[d.id])]
    /\ se_ops' = se_ops + 1
    /\ UNCHANGED <<se_postings, se_lengths>>

\* Variant: only the fields that were indexed first are looked at.
Listed_indexed(d) == Terms(d, {CHOOSE f \in DOMAIN d.fields : TRUE})

\* The terms whose postings are looked at: those of all fields.
Listed(d) == Terms(d, DOMAIN d.fields)

DropPostings(t) ==
    LET d == se_pc[t].doc IN
    /\ se_pc[t].pc = "drop postings" /\ IndexFree
    /\ se_postings' = [w \in SearchWords |-> IF w \in Listed(d) THEN se_postings[w] \ {d.id} ELSE se_postings[w]]
    /\ se_pc' = [se_pc EXCEPT ![t].pc = "drop length"]
    /\ UNCHANGED <<se_docs, se_lengths, se_ops>>

DropLength(t) ==
    /\ se_pc[t].pc = "drop length"
    /\ se_lengths' = se_lengths \ {se_pc[t].doc.id}
    /\ se_pc' = [se_pc EXCEPT ![t] = Outside]
    /\ UNCHANGED <<se_postings, se_docs, se_ops>>

SearchNext ==
    \E t \in SearchThreads :
        \/ PutDocument(t) \/ PutLength(t) \/ DropPostings(t) \/ DropLength(t)
        \/ \E d \in SearchDocs : PutPostings(t, d) \/ DropDocument(t, d)

\* search for one word, under the locks of index and lengths; without any
\* length it finds nothing.
search(w) == IF se_lengths = {} \/ w \in ShortWords THEN {} ELSE se_postings[w]

-----------------------------------------------------------------------------
(* Every index answers like a scan of the rows that were put in: lookups   *)
(* find each row once, ranges and ends of the tree are those of the        *)
(* numbers, no key is empty, a unique index has one row per value; and a   *)
(* pool hands no object out twice, keeps only cleared ones, never more     *)
(* than its maximum, and counts what it made up to there                   *)
(* (BTreeIndex, HashIndex, ObjectPool).                                    *)
IndexesRight ==
    LET Rows(P(_)) == {i \in IndexRows : ix_rows[i] # NoValue /\ P(ix_rows[i])}
        Less(x, y) == MeantCmp(x, y) < 0
        Ends(entries, P(_)) == IdsIn(entries) = Rows(P)
    IN  /\ \A v \in IndexValues :
              /\ ToSet(lookup(v)) = Rows(LAMBDA x : Eq(x, v))
              /\ Len(lookup(v)) = Cardinality(ToSet(lookup(v)))
              /\ Unique => Len(lookup(v)) <= 1
        /\ \A e \in ix_map : e.ids # <<>>
        /\ len = Cardinality(Rows(LAMBDA x : TRUE))
        /\ ix_kind = "btree" =>
              /\ \A lo, hi \in IndexValues : ~Less(hi, lo) =>
                    /\ Ends(range(lo, hi), LAMBDA x : ~Less(x, lo) /\ ~Less(hi, x))
                    /\ Less(lo, hi) => Ends(range_exclusive(lo, hi), LAMBDA x : Less(lo, x) /\ Less(x, hi))
              /\ Ends(min, LAMBDA x : \A i \in Rows(LAMBDA y : TRUE) : ~Less(ix_rows[i], x))
              /\ Ends(max, LAMBDA x : \A i \in Rows(LAMBDA y : TRUE) : ~Less(x, ix_rows[i]))
        /\ IsInjective(po_free) /\ ToSet(po_free) \cap (po_out \cup po_filled) = {}
        /\ Len(po_free) <= PoolMax
        /\ po_created = Min({po_made, PoolMax})

(* When no call is under way, a word leads to exactly the documents that   *)
(* have it in a field they were indexed on, and each has a length, however *)
(* calls for different ids overlapped (SearchEngine::index_document,       *)
(* remove_document, search).                                               *)
SearchExact ==
    (\A t \in SearchThreads : se_pc[t] = Outside) =>
        /\ se_lengths = {i \in SearchIds : se_docs[i] # NoDoc}
        /\ \A w \in SearchWords :
              search(w) = {i \in SearchIds : se_docs[i] # NoDoc /\ w \in Terms(se_docs[i], se_docs[i].indexed)}
=============================================================================

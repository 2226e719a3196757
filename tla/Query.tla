------------------------------- MODULE Query -------------------------------
(***************************************************************************)
(* Predicates, indexes and SQL aggregation (crates/query): field values    *)
(* with the comparison of crates/serialization/src/compact.rs, eval and    *)
(* scan, the index planner, the single-node executor and the two-phase     *)
(* distributed one.  An entry is a pair <<key, value>>; a value is a       *)
(* function from columns to field values.                                  *)
(***************************************************************************)
EXTENDS Integers, FiniteSets, Sequences, SequencesExt, FiniteSetsExt

\* A FieldValue: its type and, for every type but Null, its place in the order of
\* that type.
Null == [ty |-> "Null", n |-> 0]
I32(n) == [ty |-> "I32", n |-> n]
I64(n) == [ty |-> "I64", n |-> n]
Str(n) == [ty |-> "Str", n |-> n]

IsInt(f) == f.ty \in {"I32", "I64"}

\* FieldValue::compare is defined: both integers, or the same type.
Comparable(f, g) == (IsInt(f) /\ IsInt(g)) \/ (f.ty = g.ty /\ f.ty # "Null")

\* impl Ord: the total order of a sorted index.  Integers compare by value
\* whatever their width; otherwise the type decides.
TypeRank == [Null |-> 0, I32 |-> 1, I64 |-> 1, Str |-> 2]

OrdLess(f, g) ==
    \/ TypeRank[f.ty] < TypeRank[g.ty]
    \/ (TypeRank[f.ty] = TypeRank[g.ty] /\ f.n < g.n)

OrdEqual(f, g) == ~OrdLess(f, g) /\ ~OrdLess(g, f)

Holds(op, x, y) ==
    CASE op = "Eq" -> x = y
      [] op = "NotEq" -> x # y
      [] op = "Lt" -> x < y
      [] op = "Le" -> x <= y
      [] op = "Gt" -> x > y
      [] op = "Ge" -> x >= y

\* The class GreaterLess carries its operator as two flags.
GreaterLess(equal, less) ==
    IF equal THEN (IF less THEN "Le" ELSE "Ge") ELSE (IF less THEN "Lt" ELSE "Gt")

RECURSIVE Eval(_, _)

\* eval: an absent, null or incomparable field does not match (and its negation
\* does).  The strings a LIKE or regex pattern matches are given as a set.
Eval(p, value) ==
    CASE p.is = "Compare" ->
            Comparable(value[p.field], p.c) /\ Holds(p.op, value[p.field].n, p.c.n)
      [] p.is = "Between" ->
            /\ Comparable(value[p.field], p.from) /\ Comparable(value[p.field], p.to)
            /\ value[p.field].n >= p.from.n /\ value[p.field].n <= p.to.n
      [] p.is = "In" ->
            \E c \in p.values : Comparable(value[p.field], c) /\ value[p.field].n = c.n
      [] p.is = "Like" -> value[p.field].ty = "Str" /\ value[p.field].n \in p.matches
      [] p.is = "And" -> \A i \in DOMAIN p.preds : Eval(p.preds[i], value)
      [] p.is = "Or" -> \E i \in DOMAIN p.preds : Eval(p.preds[i], value)
      [] p.is = "Not" -> ~Eval(p.pred, value)
      [] p.is = "True" -> TRUE
      [] p.is \in {"False", "Sql", "MatchNone"} -> FALSE

Matching(p, entries) == {e \in entries : Eval(p, e[2])}

Slice(s, page, size) ==
    LET start == IF page * size < Len(s) THEN page * size ELSE Len(s)
        end == IF start + size < Len(s) THEN start + size ELSE Len(s)
    IN  SubSeq(s, start + 1, end)

\* scan and Store::query: a paging predicate sorts the matches by key and cuts a page.
Page(matched, page, size) ==
    Slice(SetToSortSeq(matched, LAMBDA a, b : a[1] < b[1]), page, size)

-----------------------------------------------------------------------------
\* An index on a column: its kind and a set of pairs <<field value, key>>.

\* IndexType::from_i32 and Index::new: a bitmap index is kept as a hash index.
NewIndex(ty) == [kind |-> IF ty = "Sorted" THEN "Sorted" ELSE "Hash", pairs |-> {}]

\* Two values share a bucket: by Ord in a BTreeMap, by Eq in a HashMap.
SameBucket(ix, f, g) == IF ix.kind = "Sorted" THEN OrdEqual(f, g) ELSE f = g

IndexInsert(ix, f, k) == [ix EXCEPT !.pairs = @ \cup {<<f, k>>}]

IndexRemove(ix, f, k) ==
    [ix EXCEPT !.pairs = {x \in @ : ~(x[2] = k /\ SameBucket(ix, x[1], f))}]

KeysWhere(P) == {x[2] : x \in P}

\* Index::query; a hash index answers only Eq and NotEq.
IndexQuery(ix, op, c) ==
    KeysWhere({x \in ix.pairs :
        CASE op = "Eq" -> SameBucket(ix, x[1], c)
          [] op = "NotEq" -> x[1] # c
          [] op = "Lt" -> OrdLess(x[1], c)
          [] op = "Le" -> ~OrdLess(c, x[1])
          [] op = "Gt" -> OrdLess(c, x[1])
          [] op = "Ge" -> ~OrdLess(x[1], c)})

IndexBetween(ix, from, to) ==
    KeysWhere({x \in ix.pairs : ~OrdLess(x[1], from) /\ ~OrdLess(to, x[1])})

Plan(keys) == [usable |-> TRUE, keys |-> keys]
NoPlan == [usable |-> FALSE, keys |-> {}]

RECURSIVE PlanAndResolve(_, _)

\* plan_and_resolve: the candidate keys an index gives for p, or NoPlan.
\* indexes: column -> index.  A conjunction uses its first resolvable child.
PlanAndResolve(p, indexes) ==
    CASE /\ p.is = "Compare" /\ p.field \in DOMAIN indexes
         /\ (p.op \in {"Eq", "NotEq"} \/ indexes[p.field].kind = "Sorted") ->
            Plan(IndexQuery(indexes[p.field], p.op, p.c))
      [] p.is = "Between" /\ p.field \in DOMAIN indexes /\ indexes[p.field].kind = "Sorted" ->
            Plan(IndexBetween(indexes[p.field], p.from, p.to))
      [] p.is = "In" /\ p.field \in DOMAIN indexes ->
            Plan(UNION {IndexQuery(indexes[p.field], "Eq", c) : c \in p.values})
      [] p.is = "And" ->
            LET usable == {i \in DOMAIN p.preds : PlanAndResolve(p.preds[i], indexes).usable}
            IN  IF usable = {} THEN NoPlan ELSE PlanAndResolve(p.preds[Min(usable)], indexes)
      [] OTHER -> NoPlan

-----------------------------------------------------------------------------
\* SQL.  A select: cols, a sequence of [fn, col] with fn "Col" for a plain column;
\* filter; groupBy, a sequence of columns; window, [ts, size, slide] or NoWindow.

NoWindow == [ts |-> "", size |-> 0, slide |-> 0]

\* WindowSpec::windows: the starts of the windows an event falls in.  TUMBLE is HOP
\* with slide = size.  A start is a multiple of the slide, also before zero.
Windows(w, ts) == {s \in ts - w.size + 1 .. ts : s % w.slide = 0}

\* fmt_value: integers of both widths print alike, NULL has no text.
Fmt(f) == IF f.ty = "Null" THEN <<>> ELSE <<IF IsInt(f) THEN "number" ELSE "text", f.n>>

\* The buckets an entry is counted in (a single one without a window) and its group
\* key there: the window bounds first, then the text of the grouping columns.
Ts(f) == IF IsInt(f) THEN f.n ELSE 0

Buckets(q, e) == IF q.window = NoWindow THEN {0} ELSE Windows(q.window, Ts(e[2][q.window.ts]))

GroupKey(q, e, start) ==
    (IF q.window = NoWindow THEN <<>> ELSE <<<<"number", start>>, <<"number", start + q.window.size>>>>)
        \o [i \in DOMAIN q.groupBy |-> Fmt(e[2][q.groupBy[i]])]

GroupKeys(q, matched) == UNION {{GroupKey(q, e, s) : s \in Buckets(q, e)} : e \in matched}

Group(q, matched, g) == {e \in matched : \E s \in Buckets(q, e) : GroupKey(q, e, s) = g}

SumOf(S, col) == MapThenSumSet(LAMBDA e : e[2][col].n, S)

Numeric(S, col) == {e \in S : IsInt(e[2][col])}

\* One aggregate over a group as execute_with computes it: COUNT counts rows, SUM and
\* AVG (kept as a pair) fold the numeric values, MIN and MAX the non-null ones (which
\* are comparable with each other in a column of one kind).  With no value the cell
\* is NULL.
Aggregate(fn, S, col) ==
    LET num == Numeric(S, col)
        vals == {e[2][col] : e \in {x \in S : x[2][col].ty # "Null"}}
    IN  CASE fn = "Count" -> <<"number", Cardinality(S)>>
          [] fn = "Sum" -> IF num = {} THEN <<>> ELSE <<"number", SumOf(num, col)>>
          [] fn = "Avg" -> IF num = {} THEN <<>> ELSE <<"ratio", SumOf(num, col), Cardinality(num)>>
          [] fn = "Min" -> IF vals = {} THEN <<>>
                           ELSE Fmt(CHOOSE v \in vals : \A w \in vals : ~OrdLess(w, v))
          [] fn = "Max" -> IF vals = {} THEN <<>>
                           ELSE Fmt(CHOOSE v \in vals : \A w \in vals : ~OrdLess(v, w))

\* Position of a plain column among the grouping columns (window bounds first).
GroupIndex(q, col) ==
    LET pre == IF q.window = NoWindow THEN 0 ELSE 2
    IN  pre + CHOOSE i \in DOMAIN q.groupBy : q.groupBy[i] = col

\* execute_with on an aggregate query: one row per group.
Execute(q, entries) ==
    LET matched == Matching(q.filter, entries)
    IN  [g \in GroupKeys(q, matched) |->
           [i \in DOMAIN q.cols |->
              IF q.cols[i].fn = "Col" THEN g[GroupIndex(q, q.cols[i].col)]
              ELSE Aggregate(q.cols[i].fn, Group(q, matched, g), q.cols[i].col)]]

\* execute_with on a plain query: the projected rows.  SELECT DISTINCT keeps one of
\* equal rows, so the result of a distinct query is the set of its rows.
ProjectRow(q, e) == [i \in DOMAIN q.cols |-> Fmt(e[2][q.cols[i].col])]

DistinctRows(q, entries) == {ProjectRow(q, e) : e \in Matching(q.filter, entries)}

-----------------------------------------------------------------------------
\* Two-phase execution (distributed.rs): a partial maps each group key to one
\* accumulator per aggregate column.

NoAcc == [rows |-> 0, sum |-> 0, nvals |-> 0, min |-> 0, max |-> 0, seen |-> FALSE]

Lesser(a, b) == IF a < b THEN a ELSE b
Greater(a, b) == IF a < b THEN b ELSE a

\* Acc of one column over the entries of a group: add_value for each numeric value,
\* rows for every row.
AccOf(fn, S, col) ==
    LET num == IF fn = "Count" THEN {} ELSE Numeric(S, col)
        vals == {e[2][col].n : e \in num}
    IN  [rows |-> Cardinality(S), sum |-> SumOf(num, col), nvals |-> Cardinality(num),
         min |-> IF num = {} THEN 0 ELSE Min(vals), max |-> IF num = {} THEN 0 ELSE Max(vals),
         seen |-> num # {}]


AccMerge(a, b) ==
    [rows |-> a.rows + b.rows, sum |-> a.sum + b.sum, nvals |-> a.nvals + b.nvals,
     min |-> IF a.seen /\ b.seen THEN Lesser(a.min, b.min) ELSE IF b.seen THEN b.min ELSE a.min,
     max |-> IF a.seen /\ b.seen THEN Greater(a.max, b.max) ELSE IF b.seen THEN b.max ELSE a.max,
     seen |-> a.seen \/ b.seen]

AccFinalize(a, fn) ==
    CASE fn = "Count" -> <<"number", a.rows>>
      [] fn = "Sum" -> IF a.seen THEN <<"number", a.sum>> ELSE <<>>
      [] fn = "Avg" -> IF a.nvals > 0 THEN <<"ratio", a.sum, a.nvals>> ELSE <<>>
      [] fn = "Min" -> IF a.seen THEN <<"number", a.min>> ELSE <<>>
      [] fn = "Max" -> IF a.seen THEN <<"number", a.max>> ELSE <<>>

\* agg_cols: the indices of the aggregate columns.
AggCols(q) == {i \in DOMAIN q.cols : q.cols[i].fn # "Col"}

LocalPartial(q, entries) ==
    LET matched == Matching(q.filter, entries)
    IN  [g \in GroupKeys(q, matched) |->
           [i \in AggCols(q) |-> AccOf(q.cols[i].fn, Group(q, matched, g), q.cols[i].col)]]

\* merge: groups unite, accumulators of a shared group merge column by column.
MergePartials(p, r) ==
    [g \in DOMAIN p \cup DOMAIN r |->
        IF g \notin DOMAIN r THEN p[g]
        ELSE IF g \notin DOMAIN p THEN r[g]
        ELSE [i \in DOMAIN p[g] |-> AccMerge(p[g][i], r[g][i])]]

Finalize(q, p) ==
    [g \in DOMAIN p |->
        [i \in DOMAIN q.cols |->
            IF q.cols[i].fn = "Col" THEN g[GroupIndex(q, q.cols[i].col)]
            ELSE AccFinalize(p[g][i], q.cols[i].fn)]]

\* finalize_rows: the rows gathered from the members, DISTINCT applied once.
FinalizeDistinct(rows, more) == rows \cup more
=============================================================================

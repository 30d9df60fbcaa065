-------------------------------- MODULE Query --------------------------------
(***************************************************************************)
(* The query chain of the client: builder (query-builder.ts), plan         *)
(* (query-plan.ts) and execution over the replica's rows and adjacency     *)
(* indices (query-execute.ts, replica.ts).                                 *)
(*                                                                         *)
(* Tasks relate to users (one declared relationship) and belong to groups. *)
(* A row has one field beside its links; NoLeaf stands for a field that    *)
(* was never written, Tombstone for a cleared one, MapValue for a map.     *)
(* Ids are numbers in their sort order.                                    *)
(***************************************************************************)
EXTENDS ReverseIndex, Sequences, FiniteSets, SequencesExt

CONSTANTS
  Ids, Start,       \* the rows there may be and what is held at first
  Versions,         \* the rows a change may write
  Predicates,       \* what where and or may ask
  Default,          \* the field's schema default, NoLeaf for none
  ToOne,            \* the relationship holds one target
  MaxOps, MaxChanges

VARIABLES rows, index, query, chain, changed

qyVars == <<rows, index, query, chain, changed>>

NoLeaf == -2
Tombstone == -1
MapValue == 9
EmptyQuery(source) == [source |-> source, groups |-> <<>>, order |-> "none", limit |-> -1, joins |-> {}]

Derived(rs) == UNION {IndexEntryFor(rs[i]) \union ForwardIndexEntryFor(rs[i]) : i \in Ids}

QyInit ==
  /\ rows = Start /\ index = Derived(Start)
  /\ \E source \in {"task", "user"} : query = EmptyQuery(source)
  /\ chain = 0 /\ changed = 0

-----------------------------------------------------------------------------
(* The replica under the query: a change moves both indices with the row    *)

Change(row) ==
  LET was == rows[row.id]
  IN  /\ changed < MaxChanges /\ changed' = changed + 1 /\ row # was
      /\ rows' = [rows EXCEPT ![row.id] = row]
      /\ index' = ApplyIndexDelta(
                    ApplyIndexDelta(index, IndexDelta(IndexEntryFor(was), IndexEntryFor(row))),
                    IndexDelta(ForwardIndexEntryFor(was), ForwardIndexEntryFor(row)))
      /\ UNCHANGED <<query, chain>>

-----------------------------------------------------------------------------
(* The builder                                                              *)

\* buildPredicate: a relationship is asked from its source only; everyone has
\* groups and the field.
Askable(p) == p.kind = "relationship" => query.source = "task"

Chained(q) == chain < MaxOps /\ chain' = chain + 1 /\ query' = q /\ UNCHANGED <<rows, index, changed>>

Where(p) ==
  /\ Askable(p)
  /\ Chained([query EXCEPT !.groups =
       IF @ = <<>> THEN <<<<p>>>> ELSE Front(@) \o <<Append(Last(@), p)>>])
Or(p) == Askable(p) /\ Chained([query EXCEPT !.groups = Append(@, <<p>>)])
OrderBy(direction) == Chained([query EXCEPT !.order = direction])
Limit(n) == Chained([query EXCEPT !.limit = n])
With(key) == Chained([query EXCEPT !.joins = @ \union {key}])

-----------------------------------------------------------------------------
(* The plan                                                                 *)

IsIndexed(p) == p.kind # "field"
OrderPredicates(group) == SelectSeq(group, IsIndexed) \o SelectSeq(group, LAMBDA p : ~IsIndexed(p))

JoinTarget(q, key) ==
  IF key = "groups" THEN "group" ELSE IF q.source = "task" THEN "user" ELSE "task"

HasPredicateKind(q, kind) ==
  \E g \in DOMAIN q.groups : \E n \in DOMAIN q.groups[g] : q.groups[g][n].kind = kind
\* Mutant: only predicates count as reads of a relationship.
ReadTypesPredicatesOnly(q) ==
  {q.source, "entityGroup"} \union {JoinTarget(q, k) : k \in q.joins}
  \union (IF HasPredicateKind(q, "relationship") THEN {"relationship"} ELSE {})

ReadTypesFor(q) ==
  {q.source, "entityGroup"} \union {JoinTarget(q, k) : k \in q.joins}
  \union (IF HasPredicateKind(q, "relationship") \/ "link" \in q.joins THEN {"relationship"} ELSE {})

Selects(q) == [g \in DOMAIN q.groups |-> [kind |-> "select", of |-> OrderPredicates(q.groups[g])]]
Limits(q) == IF q.limit >= 0 THEN <<[kind |-> "limit", of |-> q.limit]>> ELSE <<>>
\* Mutant: the limit is taken before the order.
PlanLimitsFirst(q) == Selects(q) \o <<[kind |-> "order", of |-> "none"]>> \o Limits(q) \o <<[kind |-> "order", of |-> q.order]>>

PlanQuery(q) == Selects(q) \o <<[kind |-> "order", of |-> q.order]>> \o Limits(q)

-----------------------------------------------------------------------------
(* Execution                                                                *)

Scan(type) == {i \in Ids : rows[i].type = type /\ rows[i].live}

\* A null predicate asks for no live value; a default never widens a filter.
MatchesFieldValue(value, expected) ==
  IF expected = Tombstone THEN value \in {NoLeaf, Tombstone} ELSE value # MapValue /\ value = expected

\* stored ?? default: what a row renders, and what an order compares.
ResolveFieldValue(row) == IF row.value \in {NoLeaf, Tombstone} THEN Default ELSE row.value

\* Undefined last either way; the id decides between equals and alone.
CompareRows(i, j, order) ==
  LET a == ResolveFieldValue(rows[i])
      b == ResolveFieldValue(rows[j])
  IN  IF order = "none" \/ a = b THEN i < j
      ELSE IF a = NoLeaf THEN FALSE
      ELSE IF b = NoLeaf THEN TRUE
      ELSE IF order = "asc" THEN a < b ELSE b < a

LinkType(p) == IF p.kind = "relationship" THEN "relationship" ELSE "entityGroup"
PredicateHits(p) == UNION {LiveSourceIds(Rows(index, ReverseIndexKey(LinkType(p), t))) : t \in p.anyOf}
IntersectHits(ps) == {i \in PredicateHits(Head(ps)) : \A n \in DOMAIN ps : i \in PredicateHits(ps[n])}

\* The index may name rows that are not held, are gone, or have another type.
RowsForIds(ids, type) == {i \in ids \intersect Ids : rows[i].type = type /\ rows[i].live}

SelectGroup(ps, source) ==
  LET indexed == SelectSeq(ps, IsIndexed)
      filters == SelectSeq(ps, LAMBDA p : ~IsIndexed(p))
      seed == IF indexed = <<>> THEN Scan(source) ELSE RowsForIds(IntersectHits(indexed), source)
  IN  {i \in seed : \A n \in DOMAIN filters : MatchesFieldValue(rows[i].value, filters[n].value)}

\* What an op makes of the rows so far: groups are ORed, then one sort, one cut.
Narrow(q, so, op) ==
  CASE op.kind = "select" -> [so EXCEPT !.selecting = TRUE, !.selected = @ \union SelectGroup(op.of, q.source)]
    [] op.kind = "order"  ->
         LET from == IF so.list # <<>> THEN ToSet(so.list) ELSE IF so.selecting THEN so.selected ELSE Scan(q.source)
         IN  [so EXCEPT !.list = SetToSortSeq(from, LAMBDA i, j : CompareRows(i, j, op.of))]
    [] op.kind = "limit"  -> [so EXCEPT !.list = SubSeq(@, 1, IF op.of < Len(@) THEN op.of ELSE Len(@))]
ExecutePlan(q) ==
  FoldLeft(LAMBDA so, op : Narrow(q, so, op), [selecting |-> FALSE, selected |-> {}, list |-> <<>>], PlanQuery(q)).list

EntityGroupIds(i) == LiveSourceIds(Rows(index, ForwardIndexKey("entityGroup", i)))
JoinIds(q, i, key) ==
  IF key = "groups" THEN EntityGroupIds(i)
  ELSE IF q.source = "task" THEN LiveSourceIds(Rows(index, ForwardIndexKey("relationship", i)))
  ELSE LiveSourceIds(Rows(index, ReverseIndexKey("relationship", i)))

\* A joined row that is not held, is gone or has another type is left out.
ResolveJoin(q, i, key) ==
  LET found == RowsForIds(JoinIds(q, i, key), JoinTarget(q, key))
      one == key = "link" /\ q.source = "task" /\ ToOne
  IN  {<<j, ResolveFieldValue(rows[j])>> : j \in {k \in found : one => \A l \in found : k <= l}}

ProjectQueryRow(q, i) ==
  [id |-> i, value |-> ResolveFieldValue(rows[i]), groupIds |-> EntityGroupIds(i),
   joined |-> [k \in q.joins |-> ResolveJoin(q, i, k)]]
Result(q) == LET ids == ExecutePlan(q) IN [n \in DOMAIN ids |-> ProjectQueryRow(q, ids[n])]

QyNext ==
  \/ \E row \in Versions : Change(row)
  \/ \E p \in Predicates : Where(p) \/ Or(p)
  \/ \E d \in {"asc", "desc"} : OrderBy(d)
  \/ \E n \in 0..1 : Limit(n)
  \/ \E k \in {"link", "groups"} : With(k)

QySpec == QyInit /\ [][QyNext]_qyVars

-----------------------------------------------------------------------------
(* Properties                                                               *)

\* What a predicate asks of a row, read off the link rows themselves.
Holds(p, i) ==
  IF p.kind = "field" THEN MatchesFieldValue(rows[i].value, p.value)
  ELSE \E j \in Ids : /\ rows[j].type = LinkType(p) /\ rows[j].live
                      /\ rows[j].from = i /\ rows[j].to \in p.anyOf
Matching(q) ==
  {i \in Scan(q.source) : q.groups = <<>> \/ \E g \in DOMAIN q.groups : \A n \in DOMAIN q.groups[g] : Holds(q.groups[g][n], i)}

\* However the chain was put together and whatever changed under it, a query
\* gives each live row that satisfies one of its groups once, in the asked
\* order, and a limit keeps the first of that order: seeding a group from the
\* incrementally kept indices, reordering its predicates and merging the groups
\* changes nothing.
QueryMeansItsGroups ==
  LET ids == ExecutePlan(query)
      all == Matching(query)
  IN  /\ IsInjective(ids) /\ ToSet(ids) \subseteq all
      /\ \A i \in ToSet(ids), j \in all \ ToSet(ids) : CompareRows(i, j, query.order)
      /\ \A m, n \in DOMAIN ids : m < n => CompareRows(ids[m], ids[n], query.order)
      /\ Len(ids) = (IF query.limit >= 0 /\ query.limit < Cardinality(all) THEN query.limit ELSE Cardinality(all))

\* A cached query is re-run only for changes of the types its plan says it
\* reads: a change of any other type leaves the rows it gave, their groups and
\* their joined rows as they were.
RerunsSuffice ==
  query' = query =>
    \/ \E i \in Ids : /\ rows'[i] # rows[i]
                      /\ {rows[i].type, rows'[i].type} \intersect ReadTypesFor(query) # {}
    \/ Result(query)' = Result(query)
=============================================================================

------------------------------ MODULE EntityStore ------------------------------
(***************************************************************************)
(* The entity store of a storage adapter (packages/storage: memory and     *)
(* indexeddb): rows materialized from the action log when a dirty mark     *)
(* says so, and the adjacency index rewritten with them.                   *)
(*                                                                         *)
(* Every await is a step: an append writes the log and then marks, a       *)
(* replay asks for the mark, reads the log, writes the row, rewrites one   *)
(* index record after the other and clears the mark.  The memory store     *)
(* writes row and index in one step.  An update is a put of a link's       *)
(* target or a delete; merging of fields is in ConflictPass.               *)
(***************************************************************************)
EXTENDS ReverseIndex, Sequences, FiniteSets, TLC

CONSTANTS Ids, Targets, Source, Readers, MaxAppends, MaxCrashes

VARIABLES
  adapter,    \* "memory" or "indexeddb"
  log,        \* id -> its updates, oldest first
  marking,    \* ids appended whose mark is still to be written
  dirty, entities, index,
  reader,     \* what each reader is doing
  crashes,
  overtaken,  \* ids whose mark was lost: cleared for a newer update, or never written
  crossed     \* index keys two replays rewrote at once, or a crash left half done

esVars == <<adapter, log, marking, dirty, entities, index, reader, crashes, overtaken, crossed>>

Absent == [id |-> NoId, type |-> "none", from |-> NoId, to |-> NoId, live |-> FALSE]
Delete == NoId
Row(id, to, live) == [id |-> id, type |-> "relationship", from |-> Source, to |-> to, live |-> live]

\* A put replaces the row, a delete marks it and keeps its fields.
ApplyUpdate(row, id, update) ==
  IF update # Delete THEN Row(id, update, TRUE)
  ELSE IF row = Absent THEN Absent ELSE [row EXCEPT !.live = FALSE]
Materialized(id, updates) ==
  LET at[n \in 0..Len(updates)] == IF n = 0 THEN Absent ELSE ApplyUpdate(at[n - 1], id, updates[n])
  IN  at[Len(updates)]

Idle == [pc |-> "idle", ids |-> {}, id |-> NoId, acts |-> <<>>, prev |-> Absent,
         todo |-> <<>>, rows |-> {}]

EsInit ==
  /\ adapter \in {"memory", "indexeddb"}
  /\ log = [i \in Ids |-> <<>>] /\ marking = {} /\ dirty = {}
  /\ entities = [i \in Ids |-> Absent] /\ index = {}
  /\ reader = [r \in Readers |-> Idle] /\ crashes = 0 /\ overtaken = {} /\ crossed = {}

-----------------------------------------------------------------------------
(* append, appendMany: the log's transaction, then one mark per update      *)

Appended == {a \in Ids \X (1..MaxAppends) : a[2] <= Len(log[a[1]])}
rest == <<adapter, crashes, crossed>>

AppendLog(i) ==
  /\ Cardinality(Appended) < MaxAppends
  /\ \E u \in Targets \union {Delete} : log' = [log EXCEPT ![i] = Append(@, u)]
  /\ marking' = marking \union {i}
  /\ UNCHANGED <<dirty, entities, index, reader, overtaken>> /\ UNCHANGED rest
Mark(i) ==
  /\ i \in marking /\ marking' = marking \ {i} /\ dirty' = dirty \union {i}
  /\ UNCHANGED <<log, entities, index, reader, overtaken>> /\ UNCHANGED rest

-----------------------------------------------------------------------------
(* get and the queries: replay what is dirty, then read                     *)

Goes(r, next) == reader' = [reader EXCEPT ![r] = next]

\* get replays one row; a query replays the rows that are dirty when it asks.
Begin(r) ==
  /\ reader[r].pc = "idle"
  /\ \E ids \in {{i} : i \in Ids} \union {dirty} :
       ids # {} /\ Goes(r, [Idle EXCEPT !.pc = "check", !.ids = ids])
  /\ UNCHANGED <<log, marking, dirty, entities, index, overtaken>> /\ UNCHANGED rest

IsDirty(r) ==
  /\ reader[r].pc = "check"
  /\ IF reader[r].ids = {} THEN Goes(r, Idle)
     ELSE \E i \in reader[r].ids :
            Goes(r, IF i \in dirty THEN [reader[r] EXCEPT !.pc = "log", !.id = i, !.ids = @ \ {i}]
                    ELSE [reader[r] EXCEPT !.ids = @ \ {i}])
  /\ UNCHANGED <<log, marking, dirty, entities, index, overtaken>> /\ UNCHANGED rest

\* Nothing to materialize leaves the mark standing.
ReadLog(r) ==
  LET acts == log[reader[r].id]
  IN  /\ reader[r].pc = "log"
      /\ Goes(r, [reader[r] EXCEPT !.acts = acts,
                   !.pc = IF Materialized(reader[r].id, acts) = Absent THEN "check"
                          ELSE IF adapter = "memory" THEN "state" ELSE "previous"])
      /\ UNCHANGED <<log, marking, dirty, entities, index, overtaken>> /\ UNCHANGED rest

Replayed(r) == Materialized(reader[r].id, reader[r].acts)
Deltas(prev, row) == <<IndexDelta(IndexEntryFor(prev), IndexEntryFor(row)),
                       IndexDelta(ForwardIndexEntryFor(prev), ForwardIndexEntryFor(row))>>

\* What a write of the row as this reader replayed it leaves behind the log.
Behind(r) ==
  IF log[reader[r].id] = reader[r].acts THEN overtaken \ {reader[r].id} ELSE overtaken \union {reader[r].id}

SetState(r) ==
  LET ds == Deltas(entities[reader[r].id], Replayed(r))
  IN  /\ reader[r].pc = "state"
      /\ entities' = [entities EXCEPT ![reader[r].id] = Replayed(r)]
      /\ index' = ApplyIndexDelta(ApplyIndexDelta(index, ds[1]), ds[2])
      /\ Goes(r, [reader[r] EXCEPT !.pc = "clear"]) /\ overtaken' = Behind(r)
      /\ UNCHANGED <<log, marking, dirty>> /\ UNCHANGED rest

ReadPrevious(r) ==
  /\ reader[r].pc = "previous"
  /\ Goes(r, [reader[r] EXCEPT !.pc = "put", !.prev = entities[reader[r].id]])
  /\ UNCHANGED <<log, marking, dirty, entities, index, overtaken>> /\ UNCHANGED rest

\* The record rewrites a replay owes, in the order it does them.
Ops(delta) == [op : {"remove"}, entry : delta.remove] \union [op : {"add"}, entry : delta.add]
InOrder(delta) ==
  (IF delta.remove = {} THEN <<>> ELSE <<CHOOSE o \in Ops(delta) : o.op = "remove">>)
  \o (IF delta.add = {} THEN <<>> ELSE <<CHOOSE o \in Ops(delta) : o.op = "add">>)
Keys(row) == {e.key : e \in IndexEntryFor(row) \union ForwardIndexEntryFor(row)}

Owed(r) == {reader[r].todo[n].entry.key : n \in DOMAIN reader[r].todo}

PutEntity(r) ==
  LET id == reader[r].id
      ds == Deltas(reader[r].prev, Replayed(r))
  IN  /\ reader[r].pc = "put"
      /\ entities' = [entities EXCEPT ![id] = Replayed(r)] /\ overtaken' = Behind(r)
      /\ Goes(r, [reader[r] EXCEPT !.pc = "index", !.todo = InOrder(ds[1]) \o InOrder(ds[2])])
      /\ crossed' = crossed \union (IF entities[id] = reader[r].prev THEN {}
                                    ELSE Keys(entities[id]) \union Keys(Replayed(r)))
                            \union {k \in Keys(reader[r].prev) \union Keys(Replayed(r)) :
                                      \E q \in Readers \ {r} : k \in Owed(q)}
      /\ UNCHANGED <<adapter, crashes, log, marking, dirty, index>>

ReadRecord(r) ==
  /\ reader[r].pc = "index" /\ reader[r].todo # <<>>
  /\ Goes(r, [reader[r] EXCEPT !.pc = "record", !.rows = Rows(index, Head(reader[r].todo).entry.key)])
  /\ UNCHANGED <<log, marking, dirty, entities, index, overtaken>> /\ UNCHANGED rest

WriteRecord(r) ==
  LET o == Head(reader[r].todo)
      rows == reader[r].rows
  IN  /\ reader[r].pc = "record"
      /\ index' = WithRecord(index, o.entry.key,
                    IF o.op = "add" THEN AddIndexRow(rows, o.entry) ELSE RemoveIndexRow(rows, o.entry))
      /\ Goes(r, [reader[r] EXCEPT !.pc = "index", !.todo = Tail(@), !.rows = {}])
      /\ UNCHANGED <<log, marking, dirty, entities, overtaken>> /\ UNCHANGED rest

Cleared(id) == dirty \ {id}
ClearDirty(r) ==
  LET id == reader[r].id
  IN  /\ reader[r].pc = "clear" \/ (reader[r].pc = "index" /\ reader[r].todo = <<>>)
      /\ dirty' = Cleared(id)
      /\ overtaken' = overtaken \union {i \in {id} : log[i] # reader[r].acts}
      /\ Goes(r, [Idle EXCEPT !.pc = "check", !.ids = reader[r].ids])
      /\ UNCHANGED <<log, marking, entities, index>> /\ UNCHANGED rest

\* The tab goes away between two transactions; what was written stays.
Crash ==
  /\ adapter = "indexeddb" /\ crashes < MaxCrashes /\ crashes' = crashes + 1
  /\ overtaken' = overtaken \union marking /\ marking' = {}
  /\ crossed' = crossed \union UNION {Owed(r) : r \in Readers}
  /\ reader' = [r \in Readers |-> Idle]
  /\ UNCHANGED <<adapter, log, dirty, entities, index>>

EsNext ==
  \/ \E i \in Ids : AppendLog(i) \/ Mark(i)
  \/ \E r \in Readers : Begin(r) \/ IsDirty(r) \/ ReadLog(r) \/ SetState(r) \/ ReadPrevious(r)
                        \/ PutEntity(r) \/ ReadRecord(r) \/ WriteRecord(r) \/ ClearDirty(r)
  \/ Crash

EsSpec == EsInit /\ [][EsNext]_esVars

-----------------------------------------------------------------------------
(* Properties                                                               *)

Resting == marking = {} /\ \A r \in Readers : reader[r].pc = "idle"

\* With nothing under way, a row without a dirty mark is what its log
\* materializes to, except an id whose mark went with an update no replay had
\* read (a read overlapping an append, or a crash between append and mark);
\* and the index is exactly what the stored rows derive, in both directions,
\* except a record two replays rewrote at once or a crash left half done.
StoreIsCurrent ==
  Resting =>
    /\ \A i \in Ids \ (dirty \union overtaken) : entities[i] = Materialized(i, log[i])
    /\ LET derived == UNION {IndexEntryFor(entities[i]) \union ForwardIndexEntryFor(entities[i]) : i \in Ids}
       IN  \A k \in {e.key : e \in index \union derived} \ crossed : Rows(index, k) = Rows(derived, k)

\* dirty-tracker.ts: "An entity is dirty when it has pending actions that
\* haven't been applied to the materialized entity cache".
DirtyWhenBehind ==
  Resting => \A i \in Ids : entities[i] # Materialized(i, log[i]) => i \in dirty
=============================================================================

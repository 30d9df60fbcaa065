----------------------------- MODULE ReverseIndex -----------------------------
(***************************************************************************)
(* The adjacency indices derived from materialized rows                    *)
(* (packages/storage/src/internal/reverse-index.ts), shared by both entity *)
(* stores and the replica.                                                 *)
(*                                                                         *)
(* A link row (a relationship or an entityGroup row) goes from one id to   *)
(* another.  An index is a set of entries; a stored record is the set of   *)
(* entries under one key, at most one per row.  The accessor and the       *)
(* relationship type are one value per link type here, and an id list the  *)
(* code sorts is a set.                                                    *)
(***************************************************************************)
EXTENDS Integers

LinkTypes == {"relationship", "entityGroup"}
NoId == 0

Linked(row) == row.type \in LinkTypes /\ row.live /\ row.from # NoId /\ row.to # NoId

ReverseIndexKey(type, to) == <<"reverse", type, to>>
ForwardIndexKey(type, from) == <<"forward", type, from>>

\* No entry for a dead row, another type, or a row with a missing end.
IndexEntryFor(row) ==
  {[key |-> ReverseIndexKey(r.type, r.to), rowId |-> r.id, value |-> r.from] :
     r \in {s \in {row} : Linked(s)}}
ForwardIndexEntryFor(row) ==
  {[key |-> ForwardIndexKey(r.type, r.from), rowId |-> r.id, value |-> r.to] :
     r \in {s \in {row} : Linked(s)}}

\* A row that moved leaves its old key and enters its new one.
IndexDelta(before, after) ==
  IF before = after THEN [remove |-> {}, add |-> {}] ELSE [remove |-> before, add |-> after]

Rows(index, key) == {e \in index : e.key = key}
AddIndexRow(rows, entry) == {e \in rows : e.rowId # entry.rowId} \union {entry}
RemoveIndexRow(rows, entry) == {e \in rows : e.rowId # entry.rowId}
WithRecord(index, key, rows) == (index \ Rows(index, key)) \union rows

\* One row's entries come from one key, so a delta names at most two records.
ApplyIndexDelta(index, delta) ==
  LET removed == {e \in index : \E d \in delta.remove : e.key = d.key /\ e.rowId = d.rowId}
      replaced == {e \in index : \E d \in delta.add : e.key = d.key /\ e.rowId = d.rowId}
  IN  ((index \ removed) \ replaced) \union delta.add

LiveSourceIds(rows) == {e.value : e \in rows}
=============================================================================

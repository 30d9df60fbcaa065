----------------------------- MODULE ReplicaView -----------------------------
(***************************************************************************)
(* The replica as its readers see it (storage/src/replica/replica.ts): base *)
(* rows with an optimistic overlay, the change journal with its capacity,  *)
(* and on-demand rows that are read from the local store when opened and   *)
(* stay pinned in an LRU window.                                           *)
(*                                                                         *)
(* The content of a row is the set of writes it shows, and {} is an absent *)
(* row.  Write 1 of an id is its put, later writes are patches.  A local   *)
(* action writes one id, and its echo is the durable form of that write.   *)
(***************************************************************************)
EXTENDS Naturals, Sequences, FiniteSets, SequencesExt

CONSTANTS
  Held,           \* ids of types the policy holds
  OnDemand,       \* ids of types it does not hold
  Acts,           \* local actions
  ActId,          \* the id each local action patches
  PinnedCapacity, \* resident on-demand rows
  JournalCapacity,
  MaxWrites,      \* bound: durable writes
  MaxOpens,       \* bound: open() calls
  MaxLoads        \* bound: wholesale replacements of the base

RowIds == Held \cup OnDemand

VARIABLES
  store,     \* writes of each id in the local store (log and entity cache)
  folded,    \* history: durable writes the replica has been given
  base,      \* resident base rows
  overlay,   \* local actions stacked over the base, in order
  pins,      \* pinned on-demand ids, least recently opened first: [id, open]
  reads,     \* cold reads in flight: [id, epoch, snap], snap once it was taken
  current,   \* openEpochs of the ids with a shared read in flight, else 0
  buffered,  \* writes that arrived for an id while its read was in flight
  opens,     \* nextOpenEpoch
  journal, floor, revision,
  issued,    \* local actions made so far: an action id is used once
  loads,
  seen, seenAt   \* a derived reader: the rows it shows, and at which revision

coreVars == <<base, overlay, pins, reads, current, buffered>>
viewVars == <<store, folded, base, overlay, pins, reads, current, buffered, opens,
              journal, floor, revision, issued, loads, seen, seenAt>>

Init ==
  /\ store = [i \in RowIds |-> {}] /\ folded = [i \in RowIds |-> {}]
  /\ base = [i \in RowIds |-> {}] /\ overlay = <<>>
  /\ pins = <<>> /\ reads = {} /\ opens = 0
  /\ current = [i \in RowIds |-> 0] /\ buffered = [i \in RowIds |-> {}]
  /\ journal = <<>> /\ floor = 0 /\ revision = 0 /\ loads = 0 /\ issued = {}
  /\ seen = [i \in RowIds |-> {}] /\ seenAt = 0

-----------------------------------------------------------------------------
(* The composed view *)

Pinned(ps) == {ps[k].id : k \in DOMAIN ps}
Resident(i, ps) == i \in Held \cup Pinned(ps)

\* A patch merges over a row and is nothing without one.
Composed(i, bs, ov, ps) ==
  IF bs[i] = {} \/ ~Resident(i, ps) THEN {}
  ELSE bs[i] \cup {ov[k] : k \in {k \in DOMAIN ov : ActId[ov[k]] = i}}

View(i) == Composed(i, base, overlay, pins)

\* trimJournal after appending the changes cs: the floor is the newest dropped
\* revision.
Journaled(cs) ==
  LET all == journal \o [k \in 1..Len(cs) |-> [rev |-> revision + k, id |-> cs[k]]]
      excess == Len(all) - JournalCapacity
  IN /\ revision' = revision + Len(cs)
     /\ journal' = IF excess > 0 THEN SubSeq(all, excess + 1, Len(all)) ELSE all
     /\ floor' = IF excess > 0 THEN all[excess].rev ELSE floor

\* Mutant: an eviction is not a change.
ChangesNoEviction(bs, ov, ps) ==
  SetToSeq({i \in RowIds : Composed(i, bs, ov, ps) \notin {{}, View(i)}})

\* resync of every touched id: a change is journaled when a reader can see it.
Changes(bs, ov, ps) == SetToSeq({i \in RowIds : Composed(i, bs, ov, ps) # View(i)})

\* The base, overlay and pins after an operation, with its journal entries.
Becomes(bs, ov, ps) ==
  /\ base' = bs /\ overlay' = ov /\ pins' = ps
  /\ Journaled(Changes(bs, ov, ps))

Without(ps, ids) == SelectSeq(ps, LAMBDA p : p.id \notin ids)
Cleared(bs, ids) == [i \in RowIds |-> IF i \in ids THEN {} ELSE bs[i]]

-----------------------------------------------------------------------------
(* Durable and local writes *)

\* The action is in the local store; the fold comes later.
StoreWrite(i) ==
  /\ FoldFunction(LAMBDA ws, n : n + Cardinality(ws), 0, store) < MaxWrites
  /\ store' = [store EXCEPT ![i] = @ \cup {Cardinality(@ \cap Nat) + 1}]
  /\ UNCHANGED <<folded, coreVars, opens, journal, floor, revision, issued, loads, seen, seenAt>>

\* The echo of a local action reaches the store.
StoreEcho(a) ==
  /\ a \in ToSet(overlay) /\ a \notin store[ActId[a]] /\ store[ActId[a]] # {}
  /\ store' = [store EXCEPT ![ActId[a]] = @ \cup {a}]
  /\ UNCHANGED <<folded, coreVars, opens, journal, floor, revision, issued, loads, seen, seenAt>>

\* foldBase: a write for a row that is neither held nor pinned leaves nothing.
FoldBase(i, w) ==
  IF Resident(i, pins) /\ (w = 1 \/ base[i] # {})
  THEN [base EXCEPT ![i] = @ \cup {w}] ELSE base

\* While its cold read is in flight an update waits for the installed row.
Buffered(i, w) ==
  IF i \in OnDemand /\ i \notin Pinned(pins) /\ current[i] # 0
  THEN [buffered EXCEPT ![i] = @ \cup {w}] ELSE buffered

\* ingest of the oldest write of i that was not folded: its overlay goes with it.
Ingest(i) ==
  LET rest == store[i] \ folded[i]
      plain == rest \cap Nat
      w == IF plain # {} THEN CHOOSE n \in plain : \A m \in plain : n <= m
           ELSE CHOOSE a \in rest : TRUE
  IN /\ rest # {}
     /\ folded' = [folded EXCEPT ![i] = @ \cup {w}]
     /\ buffered' = Buffered(i, w)
     /\ Becomes(FoldBase(i, w), SelectSeq(overlay, LAMBDA a : a # w), pins)
     /\ UNCHANGED <<store, reads, current, opens, issued, loads, seen, seenAt>>

\* optimistic: the action is stacked over the base.
Optimistic(a) ==
  /\ a \notin issued /\ issued' = issued \cup {a}
  /\ Becomes(base, Append(overlay, a), pins)
  /\ UNCHANGED <<store, folded, reads, current, buffered, opens, loads, seen, seenAt>>

\* discard: a rejected action's writes are dropped.
Discard(a) ==
  /\ a \in ToSet(overlay) /\ a \notin store[ActId[a]]
  /\ Becomes(base, SelectSeq(overlay, LAMBDA b : b # a), pins)
  /\ UNCHANGED <<store, folded, reads, current, buffered, opens, issued, loads, seen, seenAt>>

-----------------------------------------------------------------------------
(* On-demand rows *)

\* evict: the rows, their overlay and their pins leave, and a read in flight for
\* one of them is cancelled.
EvictRows(ids) ==
  /\ Becomes(Cleared(base, ids), SelectSeq(overlay, LAMBDA a : ActId[a] \notin ids),
             Without(pins, ids))
  /\ current' = [i \in RowIds |-> IF i \in ids THEN 0 ELSE current[i]]
  /\ buffered' = Cleared(buffered, ids)

\* openPin: i becomes the most recent pin; the oldest ones past the window go.
Opened(i) ==
  LET ps == Append(Without(pins, {i}), [id |-> i, open |-> TRUE])
      over == Len(ps) - PinnedCapacity
  IN [pins |-> IF over > 0 THEN SubSeq(ps, over + 1, Len(ps)) ELSE ps,
      out |-> IF over > 0 THEN {ps[k].id : k \in 1..over} ELSE {}]

\* open of a row that is resident.
OpenResident(i) ==
  LET o == Opened(i)
  IN /\ i \in OnDemand /\ View(i) # {} /\ opens < MaxOpens
     /\ opens' = opens + 1
     /\ Becomes(Cleared(base, o.out), SelectSeq(overlay, LAMBDA a : ActId[a] \notin o.out), o.pins)
     /\ current' = [j \in RowIds |-> IF j \in o.out THEN 0 ELSE current[j]]
     /\ buffered' = Cleared(buffered, o.out)
     /\ UNCHANGED <<store, folded, reads, issued, loads, seen, seenAt>>

\* open of a row that is not: one shared read of the local store.
OpenCold(i) ==
  /\ i \in OnDemand /\ View(i) = {} /\ current[i] = 0 /\ opens < MaxOpens
  /\ opens' = opens + 1
  /\ current' = [current EXCEPT ![i] = opens + 1]
  /\ reads' = reads \cup {[id |-> i, epoch |-> opens + 1, snap |-> {}, taken |-> FALSE]}
  /\ UNCHANGED <<store, folded, base, overlay, pins, buffered, journal, floor, revision,
                 issued, loads, seen, seenAt>>

\* readEntity takes its snapshot of the store.
ReadStore(r) ==
  /\ r \in reads /\ ~r.taken
  /\ reads' = (reads \ {r}) \cup {[r EXCEPT !.taken = TRUE, !.snap = store[r.id]]}
  /\ UNCHANGED <<store, folded, base, overlay, pins, current, buffered, opens, journal,
                 floor, revision, issued, loads, seen, seenAt>>

\* The read is back: a cancelled one is ignored, an absent row installs nothing,
\* and a row is installed with the updates that arrived meanwhile.
Install(r) ==
  LET o == Opened(r.id)
      row == r.snap \cup buffered[r.id]
  IN /\ r \in reads /\ r.taken
     /\ reads' = reads \ {r}
     /\ IF current[r.id] # r.epoch
        THEN UNCHANGED <<base, overlay, pins, current, buffered, journal, floor, revision>>
        ELSE IF r.snap = {}
        THEN /\ current' = [current EXCEPT ![r.id] = 0]
             /\ buffered' = [buffered EXCEPT ![r.id] = {}]
             /\ UNCHANGED <<base, overlay, pins, journal, floor, revision>>
        ELSE /\ Becomes([Cleared(base, o.out) EXCEPT ![r.id] = row],
                        SelectSeq(overlay, LAMBDA a : ActId[a] \notin o.out), o.pins)
             /\ current' = [j \in RowIds |-> IF j \in o.out \cup {r.id} THEN 0 ELSE current[j]]
             /\ buffered' = Cleared(buffered, o.out \cup {r.id})
     /\ UNCHANGED <<store, folded, opens, issued, loads, seen, seenAt>>

\* close: a read in flight is cancelled; a resident row stays until its TTL.
Close(i) ==
  /\ i \in OnDemand
  /\ \/ /\ View(i) = {} /\ current[i] # 0
        /\ UNCHANGED pins
     \/ /\ \E k \in DOMAIN pins : pins[k].id = i /\ pins[k].open
        /\ pins' = [k \in DOMAIN pins |-> IF pins[k].id = i THEN [pins[k] EXCEPT !.open = FALSE]
                                          ELSE pins[k]]
  /\ current' = [current EXCEPT ![i] = 0]
  /\ buffered' = [buffered EXCEPT ![i] = {}]
  /\ UNCHANGED <<store, folded, base, overlay, reads, opens, journal, floor, revision,
                 issued, loads, seen, seenAt>>

PinExpires(i) ==
  /\ \E k \in DOMAIN pins : pins[k].id = i /\ ~pins[k].open
  /\ EvictRows({i})
  /\ UNCHANGED <<store, folded, reads, opens, issued, loads, seen, seenAt>>

\* Scope eviction of a held row.
Evict(i) ==
  /\ i \in Held /\ View(i) # {}
  /\ EvictRows({i})
  /\ UNCHANGED <<store, folded, reads, opens, issued, loads, seen, seenAt>>

\* load: the held rows of the record become the base; overlay, pins, reads and
\* journal start anew at a revision nobody has seen.
LoadRecord ==
  /\ loads < MaxLoads /\ loads' = loads + 1
  /\ base' = [i \in RowIds |-> IF i \in Held THEN store[i] ELSE {}]
  /\ folded' = [i \in RowIds |-> IF i \in Held THEN store[i] ELSE folded[i]]
  /\ overlay' = <<>> /\ pins' = <<>>
  /\ current' = [i \in RowIds |-> 0] /\ buffered' = [i \in RowIds |-> {}]
  /\ journal' = <<>> /\ revision' = revision + 1 /\ floor' = revision + 1
  /\ UNCHANGED <<store, reads, opens, issued, seen, seenAt>>

-----------------------------------------------------------------------------
ChangesSince(r) == {journal[k].id : k \in {k \in DOMAIN journal : journal[k].rev > r}}

\* A derived reader catches up: the changed rows, or everything across a gap.
ReaderCatchesUp ==
  /\ seenAt # revision
  /\ seen' = [i \in RowIds |-> IF seenAt < floor \/ i \in ChangesSince(seenAt)
                               THEN View(i) ELSE seen[i]]
  /\ seenAt' = revision
  /\ UNCHANGED <<store, folded, coreVars, opens, journal, floor, revision, issued, loads>>

Next ==
  \/ \E i \in RowIds : StoreWrite(i) \/ Ingest(i) \/ OpenResident(i) \/ OpenCold(i)
                       \/ Close(i) \/ PinExpires(i) \/ Evict(i)
  \/ \E a \in Acts : StoreEcho(a) \/ Optimistic(a) \/ Discard(a)
  \/ \E r \in reads : ReadStore(r) \/ Install(r)
  \/ LoadRecord \/ ReaderCatchesUp

Spec == Init /\ [][Next]_viewVars

-----------------------------------------------------------------------------
(* Properties *)

\* The journal tells a reader everything it can see: a row that differs from
\* what the reader shows is among the changes since the reader's revision, or
\* the reader is behind the floor and reads everything.
JournalTellsAll ==
  \A i \in RowIds : seen[i] # View(i) => seenAt < floor \/ i \in ChangesSince(seenAt)

\* An opened on-demand row is never behind the feed: it shows every durable
\* write the replica was given, also those that came while it was being read.
OpenedIsCurrent ==
  \A i \in OnDemand : base[i] # {} => folded[i] \subseteq base[i]
=============================================================================

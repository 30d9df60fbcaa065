---------------------------- MODULE ReplicaStore ----------------------------
(***************************************************************************)
(* The client replica at rest and in memory: the append-ordered action log,*)
(* the saved replica record, the resident rows folded from both            *)
(* (storage/src/replica/replica.ts), the save chain, and the eviction and  *)
(* restore of rows when the subscription's groups change                   *)
(* (client/src/sync/client.ts, scope-eviction.ts).                         *)
(*                                                                         *)
(* A row is reduced to the position, the deletion mark and the stamp of    *)
(* its latest field write: that is what losing a write changes.  Every id  *)
(* belongs to one group, and every type is held.                           *)
(***************************************************************************)
EXTENDS Naturals, Sequences, FiniteSets, SequencesExt

CONSTANTS
  Ids,            \* entity ids
  Groups,         \* groups
  GroupOf,        \* the group of each id
  Feed,           \* what each stream delivers, in its order
  MaxReloads,     \* bound: reloads of the page
  MaxScopes,      \* bound: changes of the subscribed groups
  MaxEvents       \* bound: both together

Streams == DOMAIN Feed

VARIABLES
  slog,       \* action log (durable), by position
  srec,       \* replica record (durable)
  core,       \* resident base rows, orphans and last folded position
  arriving,   \* an appended entry that is not folded yet, if any
  nextOf,     \* how far each stream has been delivered
  chain,      \* the save chain: who waits for a save, the head is being saved
  saving,     \* the record being written, if any
  inFlight, again,   \* replicaSaveInFlight, replicaSavePending
  scope,      \* replicaScope
  evicted,    \* evictedGroupIds
  backup,     \* evictedBackup
  restoring,  \* stage of the restore of rejoined groups
  restored,   \* position of the record the restore has loaded
  sreloads, scopes,
  truth,      \* history: what the session folded for each id, evictions aside
  unsafe      \* history: ids whose last fold no record and no tail holds

storeVars == <<slog, srec, core, arriving, nextOf, chain, saving, inFlight, again,
               scope, evicted, backup, restoring, restored, sreloads, scopes, truth, unsafe>>

Max2(a, b) == IF a > b THEN a ELSE b

NoRow == [gsn |-> 0, val |-> 0, del |-> FALSE]
\* An absent record is loaded as an empty one.
NoRecord == [rows |-> [i \in Ids |-> NoRow], position |-> 0]

-----------------------------------------------------------------------------
(* Folding updates into rows *)

\* A put replaces the row, a patch merges by stamp and spares a deleted row, a
\* patch or a delete without a row leaves nothing.
ApplyUpdate(row, u, gsn) ==
  CASE u.method = "put" -> [gsn |-> gsn, val |-> u.hlc, del |-> FALSE]
    [] u.method # "put" /\ row = NoRow -> NoRow
    [] u.method = "patch" /\ row # NoRow ->
         IF row.del THEN row
         ELSE [row EXCEPT !.val = Max2(@, u.hlc), !.gsn = Max2(@, gsn)]
    [] u.method = "delete" /\ row # NoRow ->
         [row EXCEPT !.del = TRUE, !.gsn = Max2(@, gsn)]

OrphanUpdate(u, gsn, position) == [u |-> u, gsn |-> gsn, position |-> position]

\* One id's row and its waiting updates, after update u at a log position.  A put
\* takes over the waiting updates that are newer than itself.
FoldBase(row, orphans, u, gsn, position) ==
  LET next == ApplyUpdate(row, u, gsn)
      newer == SetToSortSeq({o \in orphans : o.gsn > gsn}, LAMBDA a, b : a.gsn < b.gsn)
  IN IF next = NoRow
     THEN [row |-> NoRow, orphans |-> orphans \cup {OrphanUpdate(u, gsn, position)}]
     ELSE IF u.method = "put"
     THEN [row |-> FoldLeft(LAMBDA r, o : ApplyUpdate(r, o.u, o.gsn), next, newer),
           orphans |-> {}]
     ELSE [row |-> next, orphans |-> orphans]

\* Fold the updates of one logged action into the core c.
Ingest(c, gsn, delta, position) ==
  LET folded(i) ==
        LET hit == {u \in delta : u.sub = i}
        IN IF hit = {} THEN [row |-> c.base[i], orphans |-> c.orphans[i]]
           ELSE FoldBase(c.base[i], c.orphans[i], CHOOSE u \in hit : TRUE, gsn, position)
  IN [base |-> [i \in Ids |-> folded(i).row],
      orphans |-> [i \in Ids |-> folded(i).orphans],
      position |-> Max2(c.position, position)]

EmptyCore == [base |-> NoRecord.rows, orphans |-> [i \in Ids |-> {}], position |-> 0]

\* load: a record's rows become the base, and nothing waits.
Load(record) ==
  [EmptyCore EXCEPT !.base = record.rows, !.position = record.position]

\* readTail, then one ingest for each entry.
ReplayTail(c, after) ==
  FoldLeft(LAMBDA acc, p : Ingest(acc, slog[p].gsn, slog[p].updates, p),
           c, [k \in 1..(Len(slog) - after) |-> after + k])

\* toRecord: the position stays below the oldest update that still waits.
ToRecord(c) ==
  LET waiting == UNION {{o.position : o \in c.orphans[i]} : i \in Ids}
      oldest == CHOOSE p \in waiting : \A q \in waiting : p <= q
  IN [rows |-> c.base,
      position |-> IF waiting = {} \/ c.position < oldest THEN c.position ELSE oldest - 1]

\* withRetainedRows and mergeReplicaRecords: rows of `kept` fill the holes.
WithRetainedRows(record, kept) ==
  [record EXCEPT !.rows = [i \in Ids |-> IF @[i] = NoRow THEN kept.rows[i] ELSE @[i]]]

-----------------------------------------------------------------------------
Init ==
  /\ slog = <<>> /\ srec = NoRecord /\ core = EmptyCore /\ arriving = <<>>
  /\ nextOf = [s \in Streams |-> 0]
  /\ chain = <<>> /\ saving = <<>> /\ inFlight = FALSE /\ again = FALSE
  /\ scope = Groups /\ evicted = {} /\ backup = NoRecord /\ restoring = "no" /\ restored = 0
  /\ sreloads = 0 /\ scopes = 0
  /\ truth = EmptyCore /\ unsafe = {}

\* RequestSave: one automatic save at a time, one more when asked meanwhile.
RequestReplicaSave ==
  IF inFlight THEN again' = TRUE /\ UNCHANGED <<inFlight, chain>>
  ELSE inFlight' = TRUE /\ chain' = Append(chain, "auto") /\ UNCHANGED again

-----------------------------------------------------------------------------
(* Delivery *)

PositionOf(act) == {p \in DOMAIN slog : slog[p].act = act}

\* append: a second copy of an action is merged at its first position, and only
\* the updates that were not there are folded.
AddedUpdates(known, d) == d.updates \ known

Append1(s) ==
  LET d == Feed[s][nextOf[s] + 1]
      at == PositionOf(d.act)
      p == IF at = {} THEN Len(slog) + 1 ELSE CHOOSE q \in at : TRUE
      known == IF at = {} THEN {} ELSE slog[p].updates
      added == AddedUpdates(known, d)
  IN /\ arriving = <<>> /\ nextOf[s] < Len(Feed[s])
     /\ \A u \in d.updates : GroupOf[u.sub] \in scope
     /\ slog' = IF at = {} THEN Append(slog, [act |-> d.act, gsn |-> d.gsn, updates |-> d.updates])
                ELSE [slog EXCEPT ![p].updates = @ \cup d.updates]
     /\ arriving' = <<[gsn |-> d.gsn, added |-> added, position |-> p]>>
     /\ nextOf' = [nextOf EXCEPT ![s] = @ + 1]
     /\ UNCHANGED <<srec, core, chain, saving, inFlight, again, scope, evicted, backup,
                    restoring, restored, sreloads, scopes, truth, unsafe>>

\* The recovery of id i from the durable record r and the log.
Recovered(r, i) == ReplayTail(Load(r), r.position).base[i]

\* The ids of a further part of an action whose position was folded before.
LatePart == IF Head(arriving).position <= truth.position
            THEN {u.sub : u \in Head(arriving).added} ELSE {}

\* The ids of a put that takes over a newer update that waited for it.
TakesOver == {u.sub : u \in {x \in Head(arriving).added :
                /\ x.method = "put"
                /\ \E o \in truth.orphans[x.sub] \cup core.orphans[x.sub] : o.gsn > Head(arriving).gsn}}

\* ingest, and the automatic save it may ask for (every so many actions, or
\* when the interval has passed: either may be now).
Fold ==
  /\ arriving # <<>>
  /\ core' = Ingest(core, Head(arriving).gsn, Head(arriving).added, Head(arriving).position)
  /\ truth' = Ingest(truth, Head(arriving).gsn, Head(arriving).added, Head(arriving).position)
  /\ unsafe' = unsafe \cup LatePart \cup TakesOver \cup (IF restoring = "tail" THEN Ids ELSE {})
  /\ arriving' = <<>>
  /\ RequestReplicaSave \/ UNCHANGED <<inFlight, again, chain>>
  /\ UNCHANGED <<slog, srec, nextOf, saving, scope, evicted, backup, restoring, restored, sreloads, scopes>>

-----------------------------------------------------------------------------
(* Saving *)

\* Mutant: the rows of evicted groups are not kept.
RecordToSaveResident == ToRecord(core)

\* writeReplicaRecord: while groups are evicted the record keeps the rows that
\* the backup, or else the stored record, still has.
RecordToSave ==
  IF evicted # {} \/ backup # NoRecord
  THEN WithRetainedRows(ToRecord(core), IF backup # NoRecord THEN backup ELSE srec)
  ELSE ToRecord(core)

\* Up to the await of the write.
SaveBegins ==
  /\ chain # <<>> /\ saving = <<>>
  /\ saving' = <<RecordToSave>>
  /\ UNCHANGED <<slog, srec, core, arriving, nextOf, chain, inFlight, again, scope, evicted,
                 backup, restoring, restored, sreloads, scopes, truth, unsafe>>

\* The write is durable: the backup is dropped, whatever was added to it since
\* the record was taken.
SaveEnds ==
  /\ saving # <<>>
  /\ srec' = Head(saving) /\ saving' = <<>>
  /\ backup' = NoRecord
  /\ IF Head(chain) = "auto"
     THEN /\ inFlight' = again /\ again' = FALSE
          /\ chain' = Tail(chain) \o (IF again THEN <<"auto">> ELSE <<>>)
          /\ UNCHANGED restoring
     ELSE /\ chain' = Tail(chain) /\ restoring' = "load"
          /\ UNCHANGED <<inFlight, again>>
  /\ UNCHANGED <<slog, core, arriving, nextOf, scope, evicted, restored, sreloads, scopes, truth, unsafe>>

-----------------------------------------------------------------------------
(* The subscribed groups change *)

\* evictableRowIds: the resident rows that no group of S reaches.
Evictable(c, S) == {i \in Ids : c.base[i] # NoRow /\ GroupOf[i] \notin S}

\* evict: the row and what waits for it leave memory, without a tombstone.
Evict(c, ids) ==
  [c EXCEPT !.base = [i \in Ids |-> IF i \in ids THEN NoRow ELSE @[i]],
            !.orphans = [i \in Ids |-> IF i \in ids THEN {} ELSE @[i]]]

\* evictUnsubscribedRows: the full record is captured before the rows leave.
Backup(c) == IF backup = NoRecord THEN ToRecord(c) ELSE WithRetainedRows(ToRecord(c), backup)

EvictUnsubscribedRows(c, S, marked, overlap) ==
  LET ids == Evictable(c, S)
  IN IF ids = {}
     THEN /\ core' = c /\ evicted' = marked
          /\ unsafe' = unsafe \cup overlap
          /\ UNCHANGED <<backup, inFlight, again, chain>>
     ELSE /\ core' = Evict(c, ids)
          /\ evicted' = marked \cup {GroupOf[i] : i \in ids}
          /\ backup' = Backup(c)
          /\ unsafe' = unsafe \cup overlap \cup (IF saving # <<>> THEN ids ELSE {})
          /\ RequestReplicaSave

\* applyReplicaScope: groups that left are marked and their rows evicted; when a
\* marked group comes back its rows are restored first.
ApplyReplicaScope(S) ==
  LET marked == evicted \cup (scope \ S)
  IN /\ S # scope /\ scopes < MaxScopes /\ sreloads + scopes < MaxEvents /\ restoring = "no"
     /\ scopes' = scopes + 1 /\ scope' = S
     /\ IF S \cap marked # {}
        THEN /\ restoring' = "persist" /\ chain' = Append(chain, "restore")
             /\ evicted' = marked
             /\ UNCHANGED <<core, backup, inFlight, again, unsafe>>
        ELSE EvictUnsubscribedRows(core, S, marked, {}) /\ UNCHANGED restoring
     /\ UNCHANGED <<slog, srec, arriving, nextOf, saving, restored, sreloads, truth>>

\* restoreEvictedReplica after its save: the stored record becomes the base.
RestoreLoad ==
  /\ restoring = "load"
  /\ core' = Load(srec) /\ restored' = srec.position
  /\ restoring' = "tail"
  /\ UNCHANGED <<slog, srec, arriving, nextOf, chain, saving, inFlight, again, scope, evicted,
                 backup, sreloads, scopes, truth, unsafe>>

\* The tail after the record is folded, then the rows out of scope leave again.
RestoreTail ==
  /\ restoring = "tail"
  /\ EvictUnsubscribedRows(ReplayTail(core, restored), scope, {},
                           IF arriving = <<>> THEN {} ELSE {u.sub : u \in Head(arriving).added})
  /\ restoring' = "no"
  /\ UNCHANGED <<slog, srec, arriving, nextOf, saving, scope, restored, sreloads, scopes, truth>>

-----------------------------------------------------------------------------
\* A reload: the log and the record stay; loadReplica runs before anything else.
Reload ==
  /\ sreloads < MaxReloads /\ sreloads + scopes < MaxEvents /\ sreloads' = sreloads + 1
  /\ core' = ReplayTail(Load(srec), srec.position)
  /\ truth' = IF arriving = <<>> THEN truth
              ELSE Ingest(truth, Head(arriving).gsn, Head(arriving).added, Head(arriving).position)
  /\ unsafe' = IF arriving = <<>> THEN unsafe ELSE unsafe \cup LatePart \cup TakesOver
  /\ arriving' = <<>> /\ chain' = <<>> /\ saving' = <<>>
  /\ inFlight' = FALSE /\ again' = FALSE
  /\ scope' = Groups /\ evicted' = {} /\ backup' = NoRecord /\ restoring' = "no" /\ restored' = 0
  /\ UNCHANGED <<slog, srec, nextOf, scopes>>

Next ==
  \/ \E s \in Streams : Append1(s)
  \/ Fold \/ SaveBegins \/ SaveEnds
  \/ \E S \in SUBSET Groups \ {{}} : ApplyReplicaScope(S)
  \/ RestoreLoad \/ RestoreTail
  \/ Reload

Spec == Init /\ [][Next]_storeVars

-----------------------------------------------------------------------------
(* Properties *)

\* storage/types/replica-store.ts: "load is record + readTail(record.position)":
\* at any moment a reload would bring back every row the session had folded,
\* the evicted ones included.
ReloadBringsAllBack ==
  \A i \in Ids : arriving = <<>> => Recovered(srec, i) = truth.base[i]

\* The same but for the ids in `unsafe`, which met one of four windows: a further
\* part of an action merged when the record is already past its position, an
\* eviction while a save is being written, a delivery that overlaps a restore,
\* and a put that took over a newer waiting orphan and is replayed because another
\* orphan held the record's position back.
ReloadBringsBack ==
  \A i \in Ids \ unsafe : arriving = <<>> => Recovered(srec, i) = truth.base[i]

\* Leaving a group and coming back shows every row as the log has it: what the
\* subscribed groups own is resident and current once a restore is over.
ResidentIsCurrent ==
  restoring = "no" /\ arriving = <<>> =>
    \A i \in Ids \ unsafe : GroupOf[i] \in scope => core.base[i] = truth.base[i]
=============================================================================

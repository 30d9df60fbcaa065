----------------------------- MODULE WritePath -----------------------------
(***************************************************************************)
(* The storage write path of ebb_server: the Writer (the single            *)
(* sequencer), its CommitPipeline, the GSN counter, the WatermarkTracker,  *)
(* the InFlightActions guard and the Committer pool, under lost commits,   *)
(* Writer crashes and storage-tree restarts.                               *)
(*                                                                         *)
(* A burst of pending calls is flushed as one batch.  A flush drops the    *)
(* Actions that are durable or in flight, claims one GSN per fresh Action  *)
(* and resolves the batch's group scopes; a Committer worker writes it;    *)
(* the Writer then releases batches in claim order.  The prepare stage in  *)
(* front of `pending` is the subject of module WriterIntake.               *)
(*                                                                         *)
(* A batch is named by a ref 1, 2, ...; refs are issued in claim order, so *)
(* the pipeline's claim_order list is the order of the open refs.          *)
(***************************************************************************)
EXTENDS Integers, Sequences, FiniteSets, TLC

CONSTANTS
  Actions,           \* action ids
  Movers,            \* the Actions whose cache mutations affect group resolution
  Calls,             \* write_actions calls
  MaxCallActions,    \* bound: Actions in one call
  MaxGsn,            \* bound: the GSNs the model has room for
  MaxBatches,        \* bound: the refs the model has room for
  MaxInFlight,       \* :writer_max_in_flight
  MaxLost,           \* bound: commits whose outcome the Writer never learns
  MaxCrashes,        \* bound: Writer-only crashes
  MaxTreeCrashes,    \* bound: SystemCache crashes (rest_for_one tree restart)
  MaxRebuildFaults   \* bound: prepared successors whose rebuild raises

ASSUME ConstantsAssumption ==
  /\ Movers \subseteq Actions
  /\ IsFiniteSet(Actions)
  /\ MaxCallActions \in Nat
  /\ MaxGsn \in Nat
  /\ MaxBatches \in Nat
  /\ MaxInFlight \in 1..4
  /\ MaxLost \in Nat
  /\ MaxCrashes \in Nat
  /\ MaxTreeCrashes \in Nat
  /\ MaxRebuildFaults \in Nat

Gsns == 1..MaxGsn
Refs == 1..MaxBatches

VARIABLES
  stage,      \* what the Writer does next; or the storage child to start next
  counter,    \* GsnCounter: the last GSN claimed
  watermark,  \* WatermarkTracker: the resolution frontier
  resolved,   \* WatermarkTracker: resolved GSNs above the frontier
  inflight,   \* InFlightActions: ids owned by an open claim
  pending,    \* CommitPipeline.pending: the calls waiting for a flush
  batch,      \* every batch claimed so far, by ref
  nextRef,    \* the next ref to issue
  job,        \* what the Committer does with a batch
  durable,    \* refs whose write_batch has landed
  log,        \* cf_actions: GSN -> the ref whose write is stored there, or 0
  applied,    \* system caches: the Movers they reflect
  notified,   \* refs announced to the FanOutRouter, in order
  acts,       \* the Actions of a call; {} until it is submitted
  grant,      \* per call: the batch and the GSNs assigned to it
  reply,      \* per call: the answer it got
  escalated,  \* the Writer has told SystemCache to terminate
  lost, crashes, treeCrashes, rebuildFaults   \* what has used up the bounds

seqVars  == <<counter, watermark, resolved, inflight>>
callVars == <<acts, grant, reply>>
diskVars == <<durable, log>>
budgets  == <<lost, crashes, treeCrashes, rebuildFaults>>
vars == <<stage, seqVars, pending, batch, nextRef, job, diskVars, applied,
          notified, callVars, escalated, budgets>>

(***************************************************************************)
(* Batches.                                                                *)
(***************************************************************************)
Phases == {"none", "prepared", "committing", "committed", "applying",
           "released", "abandoned", "orphaned"}

NoBatch == [first |-> 1, last |-> 0, ids |-> <<>>, calls |-> {},
            basis |-> {}, phase |-> "none"]

\* The pipeline holds the batch; its range is neither committed nor abandoned.
OpenPhases       == {"prepared", "committing", "committed", "applying"}
UnresolvedPhases == {"prepared", "committing"}

GsnsOf(b)   == b.first..b.last
IdsOf(b)    == {b.ids[i] : i \in DOMAIN b.ids}
MoversOf(b) == IdsOf(b) \cap Movers

\* The merged cache overlay of the open batches of bs claimed before ref r.
OverlayBefore(bs, r) ==
  UNION {MoversOf(bs[q]) : q \in {p \in Refs : p < r /\ bs[p].phase \in OpenPhases}}

\* cf_action_dedup: written with the Action, never removed.
DedupIds == UNION {IdsOf(batch[r]) : r \in durable}

\* RocksDB.get_max_gsn: the highest key of cf_actions.
IsMaxGsn(n) ==
  /\ n \in 0..MaxGsn
  /\ n > 0 => log[n] # 0
  /\ \A g \in Gsns : log[g] # 0 => g <= n

(***************************************************************************)
(* The resolution frontier.  Marking GSNs resolved advances the frontier   *)
(* over every resolved GSN that continues it, and prunes the buffer.       *)
(***************************************************************************)
\* Mutant: the frontier jumps over a claim that is still open.
IsFrontierOverGaps(w, R, m) ==
  /\ m \in R \cup {w}
  /\ \A g \in R : g <= m

IsFrontier(w, R, m) ==
  /\ m \in w..MaxGsn
  /\ (w + 1)..m \subseteq R
  /\ m + 1 \notin R

MarkResolved(G) ==
  \E m \in watermark..MaxGsn :
    /\ IsFrontier(watermark, resolved \cup G, m)
    /\ watermark' = m
    /\ resolved' = {g \in resolved \cup G : g > m}

(***************************************************************************)
(* Group resolution: a batch is resolved against the caches and the        *)
(* overlay of the open batches claimed before it.                          *)
(***************************************************************************)
Resolution(bs, r) == applied \cup OverlayBefore(bs, r)

\* Mutant: a successor commits while the predecessor it resolved against may
\* still fail.
MayCommitUngated(bs, r) ==
  /\ bs[r].phase = "prepared"
  /\ \A q \in Refs : q < r => bs[q].phase # "prepared"

\* ready_batch: only the first prepared batch may commit, and not while an
\* unresolved predecessor's overlay affects group resolution.
MayCommit(bs, r) ==
  /\ bs[r].phase = "prepared"
  /\ \A q \in Refs : q < r =>
       /\ bs[q].phase # "prepared"
       /\ bs[q].phase = "committing" => MoversOf(bs[q]) = {}

\* start_next_commit: hand the ready batch, if there is one, to the pool.
StartNextCommit(bs, js) ==
  /\ batch' = [r \in Refs |-> IF MayCommit(bs, r)
                              THEN [bs[r] EXCEPT !.phase = "committing"]
                              ELSE bs[r]]
  /\ job' = [r \in Refs |-> IF MayCommit(bs, r) THEN "running" ELSE js[r]]

\* reply_all
Answer(C, outcome) ==
  reply' = [c \in Calls |-> IF c \in C THEN outcome ELSE reply[c]]

(***************************************************************************)
(* Calls.                                                                  *)
(***************************************************************************)
\* A client submits Actions; a retry is another call with the same ids.
Submit(c, A) ==
  /\ stage = "ready"
  /\ acts[c] = {}
  /\ acts' = [acts EXCEPT ![c] = A]
  /\ pending' = Append(pending, c)
  /\ UNCHANGED <<stage, seqVars, batch, nextRef, job, diskVars, applied,
                 notified, grant, reply, escalated, budgets>>

(***************************************************************************)
(* Flush: plan/2 drops duplicate ids, the ids in cf_action_dedup and the   *)
(* ids in flight.  The first pending call that carries an id owns it.      *)
(***************************************************************************)
AtCapacity ==
  Cardinality({r \in Refs : batch[r].phase \in OpenPhases}) >= MaxInFlight

PendingCalls == {pending[i] : i \in DOMAIN pending}

\* Mutants: the flush forgets one of the two duplicate checks.
FreshIdsNoGuard == (UNION {acts[c] : c \in PendingCalls}) \ DedupIds
FreshIds == (UNION {acts[c] : c \in PendingCalls}) \ (DedupIds \cup inflight)

IsOwner(i, a) ==
  /\ a \in acts[pending[i]]
  /\ \A j \in DOMAIN pending : j < i => a \notin acts[pending[j]]

\* The fresh ids in arrival order, so every call's GSNs are contiguous.
FreshOrders ==
  {s \in [1..Cardinality(FreshIds) -> FreshIds] :
     /\ \A a \in FreshIds : \E x \in DOMAIN s : s[x] = a
     /\ \A x, y \in DOMAIN s : x < y =>
          \E i, j \in DOMAIN pending :
            IsOwner(i, s[x]) /\ IsOwner(j, s[y]) /\ i <= j}

\* caller_ranges
GrantsOf(r, first, ids) ==
  [c \in Calls |->
     IF c \in PendingCalls
     THEN [ref |-> r,
           gsns |-> {first + k - 1 : k \in {x \in DOMAIN ids :
              \E i \in DOMAIN pending : pending[i] = c /\ IsOwner(i, ids[x])}}]
     ELSE grant[c]]

\* Every action of the burst is durable or in flight: all callers get {0, 0}.
FlushNothingFresh ==
  /\ stage = "ready"
  /\ pending # <<>>
  /\ ~AtCapacity
  /\ FreshIds = {}
  /\ Answer(PendingCalls, "ok")
  /\ pending' = <<>>
  /\ UNCHANGED <<stage, seqVars, batch, nextRef, job, diskVars, applied,
                 notified, acts, grant, escalated, budgets>>

\* Claim ids and a GSN range, resolve the scopes, and start a commit.
Flush ==
  /\ stage = "ready"
  /\ pending # <<>>
  /\ ~AtCapacity
  /\ FreshIds # {}
  /\ nextRef <= MaxBatches
  /\ counter + Cardinality(FreshIds) <= MaxGsn
  /\ \E ids \in FreshOrders :
       LET r     == nextRef
           n     == Cardinality(FreshIds)
           new   == [first |-> counter + 1, last |-> counter + n, ids |-> ids,
                     calls |-> PendingCalls, basis |-> Resolution(batch, r),
                     phase |-> "prepared"]
       IN  /\ inflight' = inflight \cup FreshIds
           /\ counter' = counter + n
           /\ grant' = GrantsOf(r, counter + 1, ids)
           /\ StartNextCommit([batch EXCEPT ![r] = new], job)
  /\ nextRef' = nextRef + 1
  /\ pending' = <<>>
  /\ UNCHANGED <<stage, watermark, resolved, diskVars, applied, notified,
                 acts, reply, escalated, budgets>>

(***************************************************************************)
(* The Committer pool.                                                     *)
(***************************************************************************)
\* One WriteBatch: every key of the range, and the dedup entries.
WriteBatch(r) ==
  /\ durable' = durable \cup {r}
  /\ log' = [g \in Gsns |-> IF g \in GsnsOf(batch[r]) THEN r ELSE log[g]]

CommitterWrite(r) ==
  /\ job[r] = "running"
  /\ WriteBatch(r)
  /\ job' = [job EXCEPT ![r] = "written"]
  /\ UNCHANGED <<stage, seqVars, pending, batch, nextRef, applied, notified,
                 callVars, escalated, budgets>>

\* A write its Writer gave up on lands after all ...
LateWrite(r) ==
  /\ job[r] = "late"
  /\ WriteBatch(r)
  /\ job' = [job EXCEPT ![r] = "gone"]
  /\ UNCHANGED <<stage, seqVars, pending, batch, nextRef, applied, notified,
                 callVars, escalated, budgets>>

\* ... or never does: the worker is killed or its write fails.
LateDrop(r) ==
  /\ job[r] = "late"
  /\ job' = [job EXCEPT ![r] = "gone"]
  /\ UNCHANGED <<stage, seqVars, pending, batch, nextRef, diskVars, applied,
                 notified, callVars, escalated, budgets>>

(***************************************************************************)
(* Commit results.  A success marks the range and drains the committed     *)
(* prefix; a failure abandons the range first.  The handler ends with      *)
(* FinishDrain, and no other Writer step runs in between.                  *)
(***************************************************************************)
CommitAck(r) ==
  /\ stage = "ready"
  /\ batch[r].phase = "committing"
  /\ job[r] = "written"
  /\ batch' = [batch EXCEPT ![r].phase = "committed"]
  /\ job' = [job EXCEPT ![r] = "gone"]
  /\ inflight' = inflight \ IdsOf(batch[r])
  /\ MarkResolved(GsnsOf(batch[r]))
  /\ stage' = "draining"
  /\ UNCHANGED <<counter, pending, nextRef, diskVars, applied, notified,
                 callVars, escalated, budgets>>

\* Abandon r; rebuild the prepared successors against what is left, except
\* those of X, whose rebuild raises and which are abandoned without a reply.
Abandon(r, X) ==
  LET gone == {r} \cup X
      left == [q \in Refs |-> IF q \in gone
                              THEN [batch[q] EXCEPT !.phase = "abandoned"]
                              ELSE batch[q]]
  IN  /\ batch' = [q \in Refs |->
                     IF left[q].phase = "prepared" /\ q > r
                     THEN [left[q] EXCEPT !.basis = Resolution(left, q)]
                     ELSE left[q]]
      /\ inflight' = inflight \ UNION {IdsOf(batch[q]) : q \in gone}
      /\ MarkResolved(UNION {GsnsOf(batch[q]) : q \in gone})

Successors(r) == {q \in Refs : q > r /\ batch[q].phase = "prepared"}

CommitFailed(r, outcome) ==
  /\ stage = "ready"
  /\ batch[r].phase = "committing"
  /\ \E X \in SUBSET Successors(r) :
       /\ rebuildFaults + Cardinality(X) <= MaxRebuildFaults
       /\ rebuildFaults' = rebuildFaults + Cardinality(X)
       /\ Abandon(r, X)
  /\ job' = [job EXCEPT ![r] = outcome]
  /\ Answer(batch[r].calls, "error")
  /\ stage' = "draining"
  /\ UNCHANGED <<counter, pending, nextRef, diskVars, applied, notified, acts,
                 grant, escalated, crashes, treeCrashes>>

\* {:error, _}, {:raised, ...}, or the death of a worker that wrote nothing.
CommitError(r) ==
  /\ job[r] = "running"
  /\ CommitFailed(r, "gone")
  /\ UNCHANGED lost

\* The watchdog retires a job still inside write_batch.
CommitTimeout(r) ==
  /\ job[r] = "running"
  /\ lost < MaxLost
  /\ lost' = lost + 1
  /\ CommitFailed(r, "late")

\* The worker wrote, then died or was swept before the pool saw its result.
CommitResultLost(r) ==
  /\ job[r] = "written"
  /\ lost < MaxLost
  /\ lost' = lost + 1
  /\ CommitFailed(r, "gone")

\* The head of claim_order.
IsOldestOpen(r) ==
  /\ batch[r].phase \in OpenPhases
  /\ \A q \in Refs : q < r => batch[q].phase \notin OpenPhases

\* apply_one: settle, update the caches, notify, reply, release.
ApplyOne(r) ==
  /\ stage = "draining"
  /\ IsOldestOpen(r)
  /\ batch[r].phase = "committed"
  /\ batch' = [batch EXCEPT ![r].phase = "released"]
  /\ applied' = applied \cup MoversOf(batch[r])
  /\ notified' = Append(notified, r)
  /\ Answer(batch[r].calls, "ok")
  /\ UNCHANGED <<stage, seqVars, pending, nextRef, job, diskVars, acts, grant,
                 escalated, budgets>>

\* A cache update raises: the durable batch is acked, the Router is not told,
\* and SystemCache is sent an exit.  The rest of advance_pipeline is skipped.
ApplyFails(r) ==
  /\ stage = "draining"
  /\ treeCrashes < MaxTreeCrashes
  /\ IsOldestOpen(r)
  /\ batch[r].phase = "committed"
  /\ batch' = [batch EXCEPT ![r].phase = "applying"]
  /\ Answer(batch[r].calls, "ok")
  /\ escalated' = TRUE
  /\ stage' = "ready"
  /\ UNCHANGED <<seqVars, pending, nextRef, job, diskVars, applied, notified,
                 acts, grant, budgets>>

\* Mutant: the next prepared batch is not handed to the pool.
FinishDrainNoStart ==
  /\ stage = "draining"
  /\ \A r \in Refs : IsOldestOpen(r) => batch[r].phase # "committed"
  /\ stage' = "ready"
  /\ UNCHANGED <<seqVars, pending, batch, nextRef, job, diskVars, applied,
                 notified, callVars, escalated, budgets>>

\* advance_pipeline after the drain.
FinishDrain ==
  /\ stage = "draining"
  /\ \A r \in Refs : IsOldestOpen(r) => batch[r].phase # "committed"
  /\ StartNextCommit(batch, job)
  /\ stage' = "ready"
  /\ UNCHANGED <<seqVars, pending, nextRef, diskVars, applied, notified,
                 callVars, escalated, budgets>>

(***************************************************************************)
(* Crashes and restarts.  The Writer's pools die with it, best effort: a   *)
(* worker inside write_batch may still finish.                             *)
(***************************************************************************)
Unanswered == {c \in Calls : acts[c] # {} /\ reply[c] = "none"}

WriterDies ==
  /\ batch' = [r \in Refs |-> IF batch[r].phase \in OpenPhases
                              THEN [batch[r] EXCEPT !.phase = "orphaned"]
                              ELSE batch[r]]
  /\ job' = [r \in Refs |-> CASE job[r] = "running" -> "late"
                              [] job[r] = "written" -> "gone"
                              [] OTHER -> job[r]]
  /\ pending' = <<>>
  /\ Answer(Unanswered, "down")
  /\ UNCHANGED <<seqVars, nextRef, diskVars, applied, notified, acts, grant>>

WriterCrash ==
  /\ stage \in {"ready", "draining"}
  /\ crashes < MaxCrashes
  /\ crashes' = crashes + 1
  /\ WriterDies
  /\ stage' = "writer"
  /\ UNCHANGED <<escalated, lost, treeCrashes, rebuildFaults>>

\* SystemCache terminates, on the Writer's escalation or by itself, and
\* rest_for_one takes everything started after it down.
TreeCrash ==
  /\ treeCrashes < MaxTreeCrashes
  /\ treeCrashes' = treeCrashes + 1
  /\ WriterDies
  /\ stage' = "cache"
  /\ escalated' = FALSE
  /\ UNCHANGED <<lost, crashes, rebuildFaults>>

\* SystemCache.init: a new counter at the durable maximum, caches rebuilt
\* from the log.
SystemCacheInit ==
  /\ stage = "cache"
  /\ \E max \in 0..MaxGsn : IsMaxGsn(max) /\ counter' = max
  /\ applied' = UNION {MoversOf(batch[r]) : r \in {log[g] : g \in Gsns} \ {0}}
  /\ stage' = "watermark"
  /\ UNCHANGED <<watermark, resolved, inflight, pending, batch, nextRef, job,
                 diskVars, notified, callVars, escalated, budgets>>

\* WatermarkTracker.init: the frontier starts at the durable maximum.
WatermarkInit ==
  /\ stage = "watermark"
  /\ \E max \in 0..MaxGsn : IsMaxGsn(max) /\ watermark' = max
  /\ resolved' = {}
  /\ stage' = "writer"
  /\ UNCHANGED <<counter, inflight, pending, batch, nextRef, job, diskVars,
                 applied, notified, callVars, escalated, budgets>>

\* Mutant: the counter is set to the durable maximum, not raised to it.
WriterInitRewinds ==
  /\ stage = "writer"
  /\ inflight' = {}
  /\ \E max \in 0..MaxGsn : IsMaxGsn(max) /\ counter' = max
  /\ IF counter' > watermark
     THEN MarkResolved((watermark + 1)..counter')
     ELSE UNCHANGED <<watermark, resolved>>
  /\ stage' = "ready"
  /\ UNCHANGED <<pending, batch, nextRef, job, diskVars, applied, notified,
                 callVars, escalated, budgets>>

\* Mutant: the tail the old Writer left is never resolved.
WriterInitNoReconcile ==
  /\ stage = "writer"
  /\ inflight' = {}
  /\ stage' = "ready"
  /\ UNCHANGED <<counter, watermark, resolved, pending, batch, nextRef, job,
                 diskVars, applied, notified, callVars, escalated, budgets>>

\* Writer.init: clear the in-flight ids, raise the counter to the durable
\* maximum, and resolve the tail the old Writer left.
WriterInit ==
  /\ stage = "writer"
  /\ inflight' = {}
  /\ \E max \in 0..MaxGsn :
       /\ IsMaxGsn(max)
       /\ counter' = IF max > counter THEN max ELSE counter
  /\ IF counter' > watermark
     THEN MarkResolved((watermark + 1)..counter')
     ELSE UNCHANGED <<watermark, resolved>>
  /\ stage' = "ready"
  /\ UNCHANGED <<pending, batch, nextRef, job, diskVars, applied, notified,
                 callVars, escalated, budgets>>

-----------------------------------------------------------------------------
Init ==
  /\ stage = "ready"
  /\ counter = 0
  /\ watermark = 0
  /\ resolved = {}
  /\ inflight = {}
  /\ pending = <<>>
  /\ batch = [r \in Refs |-> NoBatch]
  /\ nextRef = 1
  /\ job = [r \in Refs |-> "none"]
  /\ durable = {}
  /\ log = [g \in Gsns |-> 0]
  /\ applied = {}
  /\ notified = <<>>
  /\ acts = [c \in Calls |-> {}]
  /\ grant = [c \in Calls |-> [ref |-> 0, gsns |-> {}]]
  /\ reply = [c \in Calls |-> "none"]
  /\ escalated = FALSE
  /\ lost = 0
  /\ crashes = 0
  /\ treeCrashes = 0
  /\ rebuildFaults = 0

CallSets == {A \in SUBSET Actions : A # {} /\ Cardinality(A) <= MaxCallActions}

Committer(r) == CommitterWrite(r) \/ LateWrite(r) \/ LateDrop(r)

CommitResult(r) ==
  CommitAck(r) \/ CommitError(r) \/ CommitTimeout(r) \/ CommitResultLost(r)

Restart == SystemCacheInit \/ WatermarkInit \/ WriterInit

Next ==
  \/ \E c \in Calls, A \in CallSets : Submit(c, A)
  \/ FlushNothingFresh
  \/ Flush
  \/ \E r \in Refs : Committer(r) \/ CommitResult(r) \/ ApplyOne(r) \/ ApplyFails(r)
  \/ FinishDrain
  \/ WriterCrash
  \/ TreeCrash
  \/ Restart

Spec == Init /\ [][Next]_vars

(***************************************************************************)
(* Fairness.  The Writer keeps handling its mailbox, the supervisor keeps  *)
(* restarting what died, and the watchdog guarantees every dispatched      *)
(* commit a result; crashes, errors and late writes are never forced.      *)
(***************************************************************************)
Fairness ==
  /\ WF_vars(FlushNothingFresh \/ Flush)
  /\ \A r \in Refs : WF_vars(CommitterWrite(r) \/ CommitResult(r))
  /\ \A r \in Refs : WF_vars(ApplyOne(r) \/ ApplyFails(r))
  /\ WF_vars(FinishDrain)
  /\ WF_vars(Restart)
  /\ WF_vars(TreeCrash /\ escalated)

FairSpec == Spec /\ Fairness
-----------------------------------------------------------------------------
(***************************************************************************)
(* Properties.                                                             *)
(***************************************************************************)
WriterUp   == stage \in {"ready", "draining"}
Unresolved == {r \in Refs : batch[r].phase \in UnresolvedPhases}

\* No commit outcome was ever lost to a timeout, a worker death or a crash.
NothingLost == lost = 0 /\ crashes = 0 /\ treeCrashes = 0

BatchType ==
  [first : 1..(MaxGsn + 1), last : 0..MaxGsn, ids : Seq(Actions),
   calls : SUBSET Calls, basis : SUBSET Movers, phase : Phases]

\* Type invariant.
TypeOK ==
  /\ stage \in {"ready", "draining", "cache", "watermark", "writer"}
  /\ counter \in 0..MaxGsn
  /\ watermark \in 0..MaxGsn
  /\ resolved \subseteq Gsns
  /\ inflight \subseteq Actions
  /\ pending \in Seq(Calls)
  /\ batch \in [Refs -> BatchType]
  /\ nextRef \in 1..(MaxBatches + 1)
  /\ job \in [Refs -> {"none", "running", "written", "late", "gone"}]
  /\ durable \subseteq Refs
  /\ log \in [Gsns -> Refs \cup {0}]
  /\ applied \subseteq Movers
  /\ notified \in Seq(Refs)
  /\ acts \in [Calls -> SUBSET Actions]
  /\ grant \in [Calls -> [ref : Refs \cup {0}, gsns : SUBSET Gsns]]
  /\ reply \in [Calls -> {"none", "ok", "error", "down"}]
  /\ escalated \in BOOLEAN
  /\ lost \in Nat
  /\ crashes \in Nat
  /\ treeCrashes \in Nat
  /\ rebuildFaults \in Nat

\* The frontier that catch-up and fan-out gate on never reaches a GSN whose
\* range is still open: commits acked out of claim order wait in the
\* WatermarkTracker's buffer for the claims below them.
FrontierBelowOpenClaims ==
  \A r \in Unresolved : watermark < batch[r].first

\* The InFlightActions guard holds exactly the ids of the unresolved claims,
\* and no id belongs to two of them: a retry cannot be in flight twice.
GuardMatchesOpenClaims ==
  WriterUp =>
    /\ inflight = UNION {IdsOf(batch[r]) : r \in Unresolved}
    /\ \A r, q \in Unresolved : r # q => IdsOf(batch[r]) \cap IdsOf(batch[q]) = {}

\* "GSNs are never rewound or reused": a claim lies above every earlier one.
ClaimsNeverReused ==
  \A r, q \in Refs :
    r < q /\ batch[q].phase # "none" => batch[r].last < batch[q].first

\* "Never collide with a newly claimed range": a GSN range a caller was acked
\* with holds that caller's Actions for ever; no late write replaces them.
AckedNeverOverwritten ==
  \A c \in Calls : reply[c] = "ok" =>
    \A g \in grant[c].gsns : log[g] = grant[c].ref

\* "A retry never appends a second Action": no id is stored twice.
RetryNeverAppendsTwice ==
  \A r, q \in durable : r # q => IdsOf(batch[r]) \cap IdsOf(batch[q]) = {}

\* Until the storage tree restarts, abandoned and orphaned GSNs stay holes:
\* Writer crashes, timeouts and late writes never make one be issued again.
GsnsNeverReused == treeCrashes = 0 => ClaimsNeverReused

\* Until the storage tree restarts, no late write of an abandoned or orphaned
\* batch reaches a range that was acked.
AckedStaysDurable == treeCrashes = 0 => AckedNeverOverwritten

\* If no outcome was lost, an Action is stored under at most one GSN however
\* often its client retries it.
NoDoubleAppend == NothingLost => RetryNeverAppendsTwice

\* At the default depth of one "ok" means durable, also for the caller of a
\* duplicate, who is acked without a GSN of its own: no duplicate is planned
\* while the claim that owns its id may still fail.
AckMeansDurable ==
  MaxInFlight = 1 =>
    \A c \in Calls : reply[c] = "ok" => acts[c] \subseteq DedupIds

\* If no outcome was lost, the group scopes stored with a batch were resolved
\* against exactly the Movers that are durable below it: not against a
\* predecessor that was later abandoned, nor without one that committed.
ScopesMatchLog ==
  NothingLost =>
    \A r \in durable :
      batch[r].basis = UNION {MoversOf(batch[q]) : q \in {p \in durable : p < r}}

\* The Router is told of durable ranges only, in claim order, and only of
\* ranges the frontier has passed, so it can push each one on arrival.
NotifiedInClaimOrder ==
  /\ \A i, j \in DOMAIN notified : i < j => notified[i] < notified[j]
  /\ \A i \in DOMAIN notified : notified[i] \in durable
  /\ WriterUp => \A i \in DOMAIN notified : batch[notified[i]].last <= watermark

\* Retries: an id is guarded exactly while its claim is open, and however a
\* retry falls, its Action is stored once.
RetriesAccounted == GuardMatchesOpenClaims /\ NoDoubleAppend

\* Order: batches are announced in claim order, and each was resolved against
\* the ones durable below it.
CommittedInOrder == NotifiedInClaimOrder /\ ScopesMatchLog

(***************************************************************************)
(* The inductive invariants the proofs of module WritePathProofs rest on.  *)
(***************************************************************************)
\* Refs are issued in claim order, and a dead Writer holds no open batch.
RefsInOrder ==
  /\ \A r \in Refs : r >= nextRef => batch[r].phase = "none"
  /\ ~WriterUp => \A r \in Refs : batch[r].phase \notin OpenPhases

\* Between restarts the frontier and its buffer stay within the claimed GSNs;
\* a new Writer finds them within the claimed or the durable ones.
FrontierBounded ==
  /\ WriterUp => watermark <= counter /\ resolved \subseteq 1..counter
  /\ stage = "writer" =>
       /\ resolved \subseteq 1..counter
       /\ \/ watermark <= counter
          \/ \E g \in Gsns : log[g] # 0 /\ watermark <= g

\* Unresolved claims lie above the frontier, outside its buffer, within the
\* counter, and in claim order.
OpenClaimsApart ==
  /\ \A r \in Unresolved :
       /\ watermark < batch[r].first
       /\ batch[r].first <= batch[r].last
       /\ batch[r].last <= counter
       /\ GsnsOf(batch[r]) \cap resolved = {}
  /\ \A r, q \in Unresolved : r < q => batch[r].last < batch[q].first

\* The inductive invariant behind FrontierBelowOpenClaims.
ClaimInv == RefsInOrder /\ FrontierBounded /\ OpenClaimsApart

\* The inductive invariant behind GsnsNeverReused: until the storage tree
\* restarts, the counter is at or above every claim ever made.
IssueInv ==
  treeCrashes = 0 =>
    /\ stage \notin {"cache", "watermark"}
    /\ \A r \in Refs : batch[r].last <= counter
    /\ ClaimsNeverReused

\* The Committer's view of a batch agrees with the pipeline's: only a
\* committing batch has a live job, a write the Writer gave up on belongs to a
\* batch it gave up on, and what was acked is on disk.
JobsMatchPhases ==
  \A r \in Refs :
    /\ batch[r].phase \in {"none", "prepared"} => job[r] = "none" /\ r \notin durable
    /\ job[r] \in {"running", "written"} => batch[r].phase = "committing"
    /\ job[r] = "late" => batch[r].phase \in {"abandoned", "orphaned"}
    /\ job[r] \in {"running", "late"} => r \notin durable
    /\ job[r] = "written" => r \in durable
    /\ batch[r].phase \in {"committed", "applying", "released"} => r \in durable

\* What was written stays in the log, under its own ref until the storage tree
\* restarts; the log never runs ahead of the counter in that time.
StoredStays ==
  /\ \A r \in durable : \A g \in GsnsOf(batch[r]) :
       /\ log[g] # 0
       /\ treeCrashes = 0 => log[g] = r
  /\ treeCrashes = 0 => \A g \in Gsns : log[g] # 0 => g <= counter

\* A call is pending until a flush answers it or grants it a part of one
\* batch, and it is answered "ok" only when that batch is durable.
CallsMatchGrants ==
  \A c \in Calls :
    /\ acts[c] = {} \/ c \in PendingCalls => grant[c].ref = 0 /\ reply[c] = "none"
    /\ acts[c] = {} => c \notin PendingCalls
    /\ grant[c].ref = 0 => grant[c].gsns = {}
    /\ grant[c].ref # 0 => /\ batch[grant[c].ref].phase # "none"
                           /\ grant[c].gsns \subseteq GsnsOf(batch[grant[c].ref])
    /\ \A r \in Refs : c \in batch[r].calls => grant[c].ref = r
    /\ reply[c] = "ok" => grant[c].ref \in durable \cup {0}

\* The inductive invariant behind AckedStaysDurable, with IssueInv.
AckInv == JobsMatchPhases /\ StoredStays /\ CallsMatchGrants

\* While no outcome was lost, no write is left behind by its Writer, what is
\* durable is acked or about to be, and no id is claimed by two batches that
\* are stored or may still be.
ClaimedOnce ==
  NothingLost =>
    /\ WriterUp
    /\ \A r \in Refs : job[r] # "late"
    /\ \A r \in durable : \/ job[r] = "written"
                          \/ batch[r].phase \in {"committed", "applying", "released"}
    /\ \A r, q \in Unresolved \cup durable :
         r # q => IdsOf(batch[r]) \cap IdsOf(batch[q]) = {}

\* The inductive invariant behind RetriesAccounted.
RetryInv == GuardMatchesOpenClaims /\ ClaimedOnce

\* The pipeline is a queue: refs are issued without gaps, open ranges lie in
\* claim order below the counter, nothing overtakes a prepared batch or an
\* unresolved one with Movers, and nothing is released before its turn.
PipelineInOrder ==
  /\ \A r \in Refs : r < nextRef => batch[r].phase # "none"
  /\ \A r \in Refs : batch[r].phase # "none" => batch[r].first <= batch[r].last
  /\ \A r \in Refs : batch[r].phase \in OpenPhases => batch[r].last <= counter
  /\ \A r, q \in Refs :
       r < q /\ batch[r].phase \in OpenPhases /\ batch[q].phase \in OpenPhases =>
         batch[r].last < batch[q].first
  /\ \A r, q \in Refs :
       q < r /\ batch[r].phase \in {"committing", "committed", "applying", "released"} =>
         /\ batch[q].phase # "prepared"
         /\ batch[q].phase = "committing" => MoversOf(batch[q]) = {}
  /\ \A r, q \in Refs :
       q < r /\ batch[r].phase = "released" => batch[q].phase \notin OpenPhases

\* While a Writer is up, the frontier stands just below the oldest open claim:
\* every claimed GSN above it is resolved or belongs to an unresolved batch.
FrontierExact ==
  WriterUp =>
    /\ watermark + 1 \notin resolved
    /\ \A g \in (watermark + 1)..counter :
         g \in resolved \/ \E r \in Unresolved : g \in GsnsOf(batch[r])

\* What the Router was told of is released, in claim order, and behind the
\* frontier whenever there is one.
AnnouncedReleased ==
  /\ \A i, j \in DOMAIN notified : i < j => notified[i] < notified[j]
  /\ \A i \in DOMAIN notified : batch[notified[i]].phase = "released"
  /\ stage \notin {"cache", "watermark"} =>
       \A i \in DOMAIN notified : batch[notified[i]].last <= watermark

LivePhases == OpenPhases \cup {"released"}

\* While no outcome was lost, the caches hold the Movers of the released
\* batches, and a batch that was not dropped is resolved against the Movers of
\* the others claimed before it.
ScopesMatchClaims ==
  NothingLost =>
    /\ applied = UNION {MoversOf(batch[q]) : q \in {p \in Refs : batch[p].phase = "released"}}
    /\ \A r \in Refs : batch[r].phase \in LivePhases =>
         batch[r].basis = UNION {MoversOf(batch[q]) :
                            q \in {p \in Refs : p < r /\ batch[p].phase \in LivePhases}}

\* The inductive invariant behind CommittedInOrder and ImplementsFeed, with
\* ClaimInv and the two above.
OrderInv == PipelineInOrder /\ FrontierExact /\ AnnouncedReleased /\ ScopesMatchClaims

\* Every call the Writer accepted is eventually answered.
EveryCallAnswered ==
  \A c \in Calls : acts[c] # {} ~> reply[c] # "none"

\* A claim is always resolved in the end: the frontier reaches every claimed
\* GSN, across failures, crashes and restarts.
FrontierCatchesUp ==
  \A g \in Gsns : g <= counter ~> (g <= watermark \/ counter < g)

-----------------------------------------------------------------------------
(* The write path implements CommitFeed while the storage tree stays up. *)

StateOf(phase) ==
  CASE phase = "none" -> "none"
    [] phase \in UnresolvedPhases -> "open"
    [] phase \in {"committed", "applying"} -> "acked"
    [] phase = "released" -> "released"
    [] phase \in {"abandoned", "orphaned"} -> "dropped"

\* The claims as a follower of the log sees them.
ClaimView ==
  [r \in Refs |-> [first |-> batch[r].first, last |-> batch[r].last,
                   state |-> StateOf(batch[r].phase)]]

Feed == INSTANCE CommitFeed WITH
  up <- WriterUp,
  claim <- ClaimView,
  stored <- durable,
  MaxClaim <- Cardinality(Actions)

\* The Writer, its pipeline and the resolved-GSN buffer implement the commit
\* feed: in particular the watermark they maintain is always the GSN below the
\* oldest claim that is neither committed nor abandoned.
ImplementsFeed == Feed!FeedSpec

\* Calls are interchangeable; for the runs that check no liveness.
CallSymmetry == Permutations(Calls)
=============================================================================

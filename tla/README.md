# TLA+ models of ebbjs

Ebb is a local-first sync system. Clients keep a replica and an outbox of
*Actions*; a server orders the Actions in one log under *global sequence
numbers* (GSNs), keeps caches derived from the log, streams it to subscribed
clients and runs deployed functions next to it. These modules model the server's
write path and fan-out, the client from its outbox to its query cache, the
functions runtime and the shared algorithms; TLC checks them on small instances,
and TLAPS proves part of what is checked for every instance.

`PROJECT.json` is the index: components, runs, the source lines behind every
definition, hazards, findings and theorems. Paths below are relative to
`ebb_server/lib/ebb_server/` when they end in `.ex`, and to `packages/` when they
end in `.ts`.

## 1. Inventory

### Server

| Component | State | Operations | Interacts with |
|---|---|---|---|
| `storage/writer.ex`, `storage/commit_pipeline.ex` | prepare queue, burst snapshot, `pending` calls, open batches in claim order with their overlays | `write_actions`, prepare results and timeouts, flush, commit results, release, abandon and rebuild, startup reconcile | counter, watermark, guard, both pools, caches; `batch_committed` / `range_resolved` to the Router |
| `storage/committer_pool.ex`, `storage/committer.ex` | jobs, workers, start times | dispatch, write one RocksDB batch, report, watchdog sweep | Writer, RocksDB |
| `storage/prepare_pool.ex`, `storage/preparer.ex` | waiting and running jobs | validate and encode a call, report, abandon | Writer |
| `storage/gsn_counter.ex`, `storage/watermark_tracker.ex`, `storage/in_flight_actions.ex` | counter; frontier and resolved GSNs above it; ids of open claims | claim, raise; mark, advance; claim, release | Writer, catch-up, Router |
| `storage/system_cache.ex`, `storage/supervisor.ex`, `storage/rocks_db.ex` | caches; the log | rebuild, apply; `rest_for_one` restart; write, iterate | everything in storage |
| `storage/authorizer.ex`, `storage/permission_helper.ex`, `storage/entity_index.ex` | none: they read the caches | accept or reject each Action of a request | prepare |
| `sync/fan_out_router.ex` with `plan.ex`, `recovery.ex`; `sync/fan_out_frontier.ex` | pending ranges, group sets, payloads; last pushed GSN | notifications, drain, push, resume | Writer, log, GroupServers |
| `sync/catch_up.ex`, `sync/router.ex`, `sync/sse_*.ex`, `sync/group_listing.ex` | per connection: the cursor | pages, live events, listing | watermark, log |
| `sync/group_server.ex`, `sync/group_registry.ex` | subscribers | subscribe, push | Router, connections |
| `functions/store.ex`, `functions/invocation.ex`, `functions/worker/*` | versions and active pointers; one invocation; worker pool | deploy, activate, roll back, prune; invoke, answer host calls, time out | storage, runner |
| `storage/dirty_tracker.ex`, `storage/entity_store.ex`, `storage/sqlite.ex` | dirty marks, materialized rows | mark, settle, clear; materialize on read | Writer, readers |
| apps, admin, CORS, Tailscale, telemetry, export, health | configuration | request handling | |

### Client and packages

| Component | State | Operations | Interacts with |
|---|---|---|---|
| `client/src/sync/outbox.ts` | buffered writes in memory and in IndexedDB | enqueue, flush, echo, reject, conflict sweep, retry, discard, hydrate | session, scheduler, store |
| `flush-scheduler.ts`, `backoff.ts` | one timer, one flight, waiters, the gate | schedule, flush, hold, release, stop | outbox, session |
| `client.ts`, `sse.ts`, `connection-state.ts` | subscription loop, memory and durable cursors, group set | handshake, catch up, stream, reconnect, take over, refresh membership | server, outbox, replica |
| `group-listing.ts`, `backfill.ts` | cursor record with a seed marker | list a group's rows, resume, publish the cursor, backfill content | server, storage |
| `conflicts.ts`, `conflict-slots.ts` | cached view of conflicted rows | detect, group, keep, discard, merge | outbox, replica |
| `drafts.ts`, `write/src/*` | the batch of one action | verbs, group changes, generated documents, commit | local store, outbox |
| `permission.ts` | none | pass before a write, `can` | local store |
| `query*.ts`, `namespace.ts`, `relationship.ts`, `replica-signal.ts` | cache entries with runs and listeners | build, plan, execute, join, invalidate, watch | replica |
| `client/src/presence/*` | debounced sends; peers with receive times | set, post, receive, expire, cap | server |
| `storage/src/*` | action log, replica record, resident rows, journal, pins, entity rows, dirty marks, indices | append, fold, save, evict, restore, open, materialize | client |
| `core/src/hlc` | wall time and counter | stamp, merge a remote stamp | every write |
| `schema/src/*` | registry | declare, generate, validate, default | drafts, queries |
| `schema/src/collaborative-text/*`, `codemirror/src/bridge.ts` | causal tree with its index; the view | insert, split, extend, delete, encode, hydrate | outbox, editor |
| `functions-runtime/src/*`, `runner/src/*` | buffered Action and indices; session, guards | verbs, reads, commit; frames, results, fetch, console | functions service |
| `cli/src/deploy.ts`, `commands.ts` | files on disk | deploy, watch, roll back | functions store |
| React bindings, SDK declarations, test harness, site, examples | | | |

### What is hard, and what makes each part correct

* *Out-of-order commits, lost outcomes, crashes* (write path): the watermark stays
  below the oldest open claim; no GSN is issued twice; what is acked stays; a retry
  is stored once; scopes are resolved against what is durable.
* *Messages without order* (intake, Router): calls are flushed in arrival order and
  answered once, within limits; released ranges are pushed, in order, and never
  skipped by the frontier.
* *Awaits* (client): every `await` is a place where another call, an event, a timer or
  a reload steps in. A buffered write is neither lost nor sent after it was settled; a
  cursor claims nothing the log lacks; what a reader or a cached query shows is
  current; two resolutions of one conflict write once.
* *Durability in several steps* (client): log, record, rows, index and marks are
  written one after the other; a crash in between must be visible to the next start.
* *Bounded windows* (client): the journal is trimmed, pins are evicted, presence is
  capped; a reader that fell behind must learn of it.
* *Two judges of one request* (permissions, conflicts): the client's pass and the
  server's authorizer, the conflict verdict and the merge, must agree.
* *Code that outlives its frame* (functions): an invocation has one result, and what
  it leaves running must not speak for the next one.

## 2. Modules

```
WritePath <- WritePathProofs      ClientOutbox --+-- MCClientOutbox <- ClientOutboxProofs
    |  implements                 ClientSession -+
CommitFeed                            |  <- ClientSessionProofs
    |                             ClientLink <- ClientLinkProofs
FanOut <- FanOutProofs            (ClientSession + FlushScheduler)

WriterIntake

MCClientData:   HlcClock  ReplicaStore  EntityStore(ReverseIndex)  Membership  Query(ReverseIndex)
                <- ClientDataProofs (HlcClock, Membership)
MCClientViews:  ReplicaView  GroupSeed  QueryCache  RowAccess  Presence  ConflictResolution
                Drafts(WriteOps)
                <- ClientViewsProofs (Presence, QueryCache)
MCFunctions:    FunctionSession  FunctionWrites(WriteOps)  FunctionDeploy  RunnerGuards
                <- FunctionsProofs
MCRules:        TextDocument(CausalTree)  ConflictPass
                Requests(PermissionPass(Authorizer))  SchemaRegistry
```

The last four MC modules put components that do not share state side by side: a
variable `part` names the one that runs and the variables of the others rest, so one
TLC run explores the *sum* of the state spaces, never their product. Each property
says which part it is about.

### Server

**WritePath** models the Writer from `pending` onwards, the CommitPipeline, the
GSN counter, the WatermarkTracker, the InFlightActions guard and the Committer
pool. A batch is named by a ref issued in claim order. `stage` says what the
Writer process does next: `"ready"` between messages, `"draining"` inside
`advance_pipeline`, or, after a crash, which child of `rest_for_one` starts next. One
action per operation: `Submit`, `Flush`, `FlushNothingFresh`, `CommitterWrite`,
`LateWrite` / `LateDrop` (a write its Writer gave up on), `CommitAck`, `CommitError`,
`CommitTimeout`, `CommitResultLost`, `ApplyOne`, `ApplyFails`, `FinishDrain`, the
crashes and the three inits. An Action is its id; the caches' data are abstracted to
*Movers*, the Actions whose cache mutations can change group resolution. `basis`
records which Movers a batch's scopes were resolved against.

**WriterIntake** models what happens before `pending`: admission in the caller's
process, the mailbox, inline and pooled prepare, the prepare timer, the burst
snapshot with its cap, the two flush markers, and the replies. `HandleHead` is the
whole handler for the message at the head of the mailbox. When a flushed batch may
commit is WritePath's subject; here any open batch may get its result at any time.

**CommitFeed** is the abstract specification of the write path for a reader of the
log: claims in GSN order, stored in any order, released in order or dropped, and a
watermark just below the oldest open claim. It describes the life of one storage
tree. `Store` also allows a late write for a claim dropped after an error: an
abstraction that admits more. WritePath instantiates it, with `StateOf` as the
refinement mapping.

**FanOut** composes CommitFeed with the Router, its Plan, its Recovery and the
FanOutFrontier. Notifications are dropped while no Router is registered and lost when
it dies. `RouterRecover` and `RouterDrain` are the two halves of `resume/2`, which
reads the log and later the watermark while the Writer goes on.

**Authorizer** has the rules of `authorizer.ex` as operators on a view of the caches,
with the simulation by which a request's later Actions see the earlier ones.

### Client: writing and syncing

**ClientOutbox** keeps the outbox store's request queue explicitly: an operation is one
action that issues a request and one that runs when it completed, so that every
interleaving at an await happens. Its server is a log of our and foreign Actions.

**ClientSession** is the subscription loop: `handshake`, seed, pages with their
checkpoint, conflict sweep, stream, backoff, takeover by a second `subscribe()`,
membership refresh, and the memory and durable cursors. Applying an Action is two
steps (log, then cursor); a handshake is three (`Asked` reads the durable cursors,
`Answer` is the server's, `Adopt` makes them the memory cursors or resets), whether the
application asks (`Greet`, `Subscribe`), a reconnect (`Reconnect`, `Reconnected`) or a
live loop (`GroupsChanged`, `Refreshed`); a resume point is set group by group
(`StaleCursor`, `Resumes`). `escaped` is a history variable: the Actions the loop is
known to skip, each named by the action that skips it (section 5). **FlushScheduler** has both timers, the flight, the waiters
and the gate. **ClientLink** composes them: the session's `hold()` and `release()` are
the scheduler's, so nothing is assumed of who reopens the gate.

**Membership** takes the handshake apart: two overlapping ones, their answers applied in
either order, and the difference applied to the live subscription. **GroupSeed** takes
the seeding of one group apart: listing pages pinned to a watermark, the saved token,
crash and resume, content backfill, and the cursor published at the end.

**Drafts** resolves the recorded verbs of overlapping actions against the local store
and the batch; **WriteOps** is what each verb turns into, shared with the functions
runtime. **PermissionPass** is the client's mirror of Authorizer, and **Requests** puts
both to every request of bounded size. **ConflictPass** has the merge of field values
and the decisions of conflict detection, put to every bounded input, and
**ConflictResolution** is the resolution surface with its cached view.

### Client: storage and reading

**ReplicaStore**: log, saved record, save chain, resident rows, eviction and restore
when groups change. **ReplicaView**: overlay, journal with its capacity, on-demand rows
in an LRU window. **EntityStore** (with **ReverseIndex**): the dirty-marked rows of
both storage adapters, each IndexedDB transaction a step. **Query**: builder, planner
and executor against a reference definition of what a query means. **QueryCache**: one
key of the cache, with every entry made for it: the map holds one, stores that the
application kept over an eviction still hold the others. **RowAccess**: accessors,
joins and watchers that read edges and rows an await apart. **Presence**: debounce,
posts, expiry, cap. **HlcClock**: stamps as packed integers with a wrapping
counter, those of Actions that overlap around an `await` included.

### Schema, text, functions

**SchemaRegistry**: declarations, generated documents, typed writes; a name is the
sequence of its segments, so generated names are ambiguous exactly where they are in
the code. **CausalTree** is `tree.ts` as operators, **TextDocument** gives it editors,
a CodeMirror view, the wire form and readers that hydrate.

**FunctionSession**: one pooled runner process and the invocation loop of the host,
joined by two FIFO queues. **FunctionWrites**: the verbs, indices, guards and reads of
one invocation. **RunnerGuards**: limits, guarded `fetch` and captured console around
one invocation after another, with work the first leaves behind. **FunctionDeploy**:
`ebb deploy` and the watcher against the version store, one request per step.

## 3. Runs

| Run | Properties | Instance |
|---|---|---|
| `write_path` | `FrontierBelowOpenClaims`, `GsnsNeverReused`, `AckedStaysDurable`, `RetriesAccounted`, `CommittedInOrder`, `ImplementsFeed` | three batches in flight, two Movers, four calls, a lost outcome, a failing rebuild, a Writer crash; 553 000 states |
| `write_path_liveness` | `EveryCallAnswered`, `FrontierCatchesUp` | depth two, a Writer crash and a tree restart |
| `writer_intake` | `ClaimedInArrivalOrder`, `AnsweredOnce`, `LimitsHold`, `EveryCallAnswered` | three calls, one a replay; cap, queue, workers and admission limit of two; two faults of four kinds |
| `fan_out` | `PushesMatchLog`, `BesideRangesExact`, `FirstPushesInOrder`, `EveryReleasePushed` | depth one, two claims of up to two GSNs, two Router crashes, a frontier loss, a Writer crash |
| `client_outbox` | `BufferKeepsWrites`, `BufferStaysSettled`, `SessionSkipsNothing` | two own writes and a foreign one on one position with a reload or store fault; two subscriptions, two groups, two commits that may both be unresolved, pages of one or two, one fault, five turns (sessions begun, commits, joins and faults together); 3 300 000 states |
| `client_link` | `FlushIsTruthful`, `NothingWaitsForEver` | two subscriptions, two callers, one commit, one fault, three turns of the session and three events of the flush besides the loops' own steps; 194 000 states |
| `client_data` | `StampsAreSound`, `StorageIsCurrent`, `SubscriptionIsMembership`, `QueriesMeanTheirGroups`, `RerunsSuffice` | five instances, described in `MCClientData`; 1 139 000 states |
| `client_views` | `ReadersAreCurrent`, `SeedIsComplete`, `CachedQueriesAreCurrent`, `RowReadsAreTrue`, `PresenceIsCurrent`, `ConflictsResolve`, `DraftsCompose` | seven instances, described in `MCClientViews`; 1 101 000 states |
| `functions` | `SessionKeepsWord`, `InvocationKeepsWord`, `DeploysKeepWord` | four instances, described in `MCFunctions`; 894 000 states |
| `rules` | `DocumentsHold`, `DecisionsAgree`, `RequestsAreGuarded`, `SchemasHold` | four instances, described in `MCRules`; 337 000 states |
| V `write_path_late_overwrite` | `AckedNeverOverwritten` | section 5 |
| V `text_document_diverges` | `PeersConverge` | section 5 |

`V` marks a run whose property the code does not have.

*What the properties say.* Write path: the watermark never reaches an open range; in
the life of one storage tree no GSN is issued twice and no late write replaces an acked
one; ids are guarded exactly while their claim is open and, if no outcome was lost, an
Action is stored once (`RetriesAccounted`); announcements follow claim order and every
stored scope was resolved against exactly the Movers durable below it
(`CommittedInOrder`). Fan-out: what is pushed is committed and the frontier passes
nothing unpushed (`PushesMatchLog`); group sets and payloads exist exactly for pending
ranges and first pushes use the sets of the commit (`BesideRangesExact`).

Outbox: what was stored is kept in authoring order; a settled write is never sent
again and a stored conflict is not lifted behind the user's back. Session: the gate is
closed during a rebase, and no Action at or below a cursor is missing but the `escaped`
ones. Link: a waiter is told `accepted` only if its entry was carried, no timer is armed
while the gate is held, and every gate and waiter is released.

`StorageIsCurrent`: a reload or a return to a group brings back the rows the log has,
outside four windows named in section 5; an entity row without a mark is the replay of
its log with the index it derives, but for the marks and records section 5 names. `SubscriptionIsMembership`: once nothing is in
flight the stream and the resident scope are the actor's groups, less those the
application declined and those whose change was hidden from it (section 5). `RerunsSuffice`: a
change of a type the plan does not name leaves the result alone. `SeedIsComplete`: a
durable cursor never stands above something the rows miss. `ConflictsResolve`: the
view is the outbox's, no losing write disappears unless discarded, each is re-asserted
once unless two resolutions overlap. `DraftsCompose`: the verbs of a batch have the effect of running them in turn,
strand no row or group, and documents follow their entity. `SessionKeepsWord`: one
result per invocation, replies stay with it, `ok` means committed once; each request is
audited at most once, to a listed host, within the caps, and the globals are what they
were before. `RequestsAreGuarded`: an accepted request leaves no entity without group
and no group without a capable member, stays within the actor's grants, and the
client's pass refuses only what the server refuses. `DocumentsHold`: the index covers
the tree, an author sees the text it typed, and a receiver has every run.

### Bounds

Every bound is a constant named `Max...` (or a finite set) and sits in a guard. Three
calls make a first copy, a retry and a bystander; four with three batches in flight
make a failed predecessor, a prepared successor and a later commit that overtakes both.
Two groups, two subscriptions and two commits are what a takeover needs in order to
skip another group's Action; one fault is enough for each single recovery, and every
interleaving of it with the rest is explored. Windows and capacities are set to one or
two so that they overflow. Counters have two bits so that they wrap. Symmetry is used
over calls, Action ids, subscriptions and listeners in runs without liveness; none appears
in an ordered constant.
`CHECK_DEADLOCK FALSE`: when the bounds are used up the system rests.

### Fairness

Weak fairness, only for steps the code must take. Server: the Writer and the Router
handle their mailboxes, a dispatched commit gets a result (the watchdog sees to that),
workers finish or are replaced, armed timers fire, supervisors restart what died, and
SystemCache terminates when the Writer told it to. Client (`ClientLink`): the event
loop runs each subscription loop's next step and the flush's next step; requests are
answered or fail and timers fire. Crashes, errors, timeouts, late writes, takeovers and
broken streams are never forced. `EveryReleasePushed` excepts behaviours with a Writer
crash, see section 5.

## 4. Proofs

A theorem holds for every value of the constants its module's assumption allows:
finitely many Actions, a pipeline depth in 1..4 and bounds in Nat for the write path;
any set of callers and subscriptions for the client; bounds in Nat for the Router; any
set of invocations for the runner, whatever limits their frames state; any files,
contents and retention for deploys. No theorem
speaks of the bounds of a run. The two that ask for a depth of one name it in the table:
section 5 shows what happens above it.

| Module | Theorem | States |
|---|---|---|
| `WritePathProofs` | `TypeCorrect` | `Spec => []TypeOK` |
| | `FrontierSafe` | `Spec => []FrontierBelowOpenClaims` |
| | `GsnsUnique` | `Spec => []GsnsNeverReused` |
| | `AcksDurable` | `Spec => []AckedStaysDurable` |
| | `RetriesOnce` | `Spec => []RetriesAccounted` |
| | `AnnouncedInOrder` | `Spec => []CommittedInOrder` |
| | `FeedImplemented` | `Spec /\ [](treeCrashes = 0) => ImplementsFeed` |
| `FanOutProofs` | `BesideExact` | `Spec => []BesideRangesExact`, at any depth |
| | `NothingSkipped` | `Spec => []PushesMatchLog`, at depth one |
| | `PushedInOrder` | `Spec => FirstPushesInOrder`, at depth one |
| `ClientLinkProofs` | `FlushTruthful` | `LinkSpec => []FlushIsTruthful` |
| `ClientOutboxProofs` | `WritesAreKept` | `SumSpec => []BufferKeepsWrites` |
| | `SettledStaySettled` | `SumSpec => BufferStaysSettled` |
| | `SessionSkips` | `SumSpec => []SessionSkipsNothing` |
| `ClientSessionProofs` | `SessionIsComplete` | `Spec => []RebaseIsComplete` |
| `ClientDataProofs` | `StampsHold` | `SumSpec => []StampsAreSound` |
| | `SubscriptionIsFollowed` | `SumSpec => []SubscriptionIsMembership` |
| `ClientViewsProofs` | `PresenceHolds` | `SumSpec => []PresenceIsCurrent` |
| | `CacheHolds` | `SumSpec => []CachedQueriesAreCurrent` |
| `FunctionsProofs` | `SessionWordKept` | `SumSpec => []SessionKeepsWord` |
| | `DeployWordKept` | `SumSpec => []DeploysKeepWord` |

The inductive invariants are defined at the end of the module they are about, or beside
the proof (`ClientOutboxProofs`, `ClientSessionProofs`, `ClientDataProofs`,
`ClientViewsProofs`, and for deploys `FunctionsProofs`); each was checked by TLC on the run's instance before it
was proved.

*The frontier and the counter.* `FrontierBelowOpenClaims` is not inductive. That marking
a range resolved cannot carry the frontier into another open range needs to know that
open ranges are disjoint from the buffer of resolved GSNs; that a new claim is above the
frontier needs the frontier to be at most the counter; and both must survive the stages
of a restart, in which the counter may be behind the frontier until the Writer raises
it. The invariant is `ClaimInv`:

* `RefsInOrder`: refs not yet issued are empty, and a dead Writer has no open batch;
* `FrontierBounded`: between restarts watermark and buffer stay within the counter,
  and before `WriterInit` within the counter or the durable GSNs;
* `OpenClaimsApart`: open ranges are non-empty, above the frontier, outside the
  buffer, within the counter and in claim order.

The argument has one lemma about the frontier (`MarkResolvedKeepsApart`: resolving
GSNs outside an open range leaves that range above the new frontier), one that a
failure keeps the others apart, and one step per action. `GsnsNeverReused` compares a
claim with every earlier one, the resolved ones too, of which `ClaimInv` says nothing.
Its invariant `IssueInv` adds that, until the tree restarts, the counter is at or above
the end of every claim ever made. The step that matters besides `Flush` is `WriterInit`,
which must raise the counter and never set it.

*What a caller may rely on.* An ack is sent by `ApplyOne`, long after the write it
speaks of, and a write the Writer gave up on may land at any time after. `AckInv` ties
the three views of a batch together: the Committer's job and the pipeline's phase
(`JobsMatchPhases`), the log and the ref that wrote it (`StoredStays`), the call and the
grant it was answered from (`CallsMatchGrants`). That a late write cannot replace an
acked Action comes from `GsnsUnique`, which is why both end with the storage tree.
`RetryInv` adds that the guard holds exactly the ids of the open claims and, while no
outcome was lost, no id belongs to two batches that are stored or may still be.

*What the Router may rely on.* `OrderInv` says that the pipeline is a queue
(`PipelineInOrder`), that the frontier is not only below the oldest open claim but just
below it (`FrontierExact`), that what was announced is released and behind it, and that
every live batch was resolved against the Movers of the live batches before it
(`ScopesMatchClaims`). The last survives a failure because `Abandon` rebuilds
the successors; that proof is the longest one of the module.

*Refinement.* `FeedImplemented` maps a batch's phase to the state of an abstract claim
(`StateOf`) and shows, with all the invariants above, that every step of WritePath is a
step of CommitFeed or leaves the feed alone. Crashes, timeouts, late writes and failed
rebuilds are steps of the feed. The hypothesis is that the storage tree does not
restart: the feed describes the life of one tree, as its module says.

*Fan-out.* `SafeInv` needs no hypothesis: the feed is ordered (`FeedInv`), messages name
ranges that were released, in that order, or given up (`MailInv`), what the plan holds
and what is being pushed is in the log and in order (`RouterInv`), and group sets and
payloads belong to a range that is pending or being pushed (`BesideInv`). `BesideExact`
follows. `OrderInv` adds what *is due*: nothing that is due is missing below a pending
range, what was released is pushed, pending or still in the mailbox, and what is due at
or below the last pushed GSN was pushed or comes first. It is inductive only at depth
one, where no claim is made over a held one (`OneHeld`); section 5 shows the behaviour
at depth two, and one is the depth the server starts with. Recovery merges ranges of the
log by an argument that is an induction: the lemmas take the least or the greatest
counterexample instead, from the library's well-foundedness of `<` on Nat (`LeastOf`,
`GreatestOf`). The proof found an error in the model: `Drain` took the end of the last
released range for the new last pushed GSN, which is too low when a recovered range
reaches beyond a later one; the code takes the greatest end, and so does the model now.

*Flush.* That a waiter is told `accepted` only if its entry was carried needs to know
that a caller is in one list of waiters at most (`WaitsInOneList`) and that a submitted
flight carries what its callers still have pending (`FlightCarriesBatch`). That the gate
is held during a rebase needs to know that at most one loop is neither over nor
cancelled (`LoopInv`): the one that may release it.

*The outbox.* An operation of the outbox is a request to the store and a continuation
when it completed, so a write is at any time in memory, in a row, in a request or in the
batch of the flush, and the properties compare them all. `KeepInv` says where a write can
be: every copy of an entry carries the stamp it was authored with (`StampsApart`), rows
being authored go behind the queue and behind each other (`AuthorsBehind`,
`AuthorsInOrder`), the application waits for one operation on an entry at a time
(`AppOpsApart`), and what a flush or an echo removes is committed or dropped
(`DeletesAccounted`). `WritesAreKept` follows. The other two parts relate requests that
overtake each other. `SettleInv`: what the flush has still to persist nobody else settled
(`AheadUnsettled`), no entry, row or request can queue a settled write again
(`NoneRevived`), and a removal by the application stands behind the put of the flush it
could undo (`DropsBehindFlush`). `HoldInv`: the losers of a sweep stay as the sweep saw them
until they are marked (`LosersWait`), the mark of an entry precedes its removal and follows
a put of the flush (`MarksFirst`, `MarksBehindFlush`), and a row that is held is held in
memory and freed by no request of the flush (`RowsHeld`, `FlushHolds`). Each clause answers
one interleaving: a reload between two of them, an echo or a repair that runs while a
mark waits, a failed put after a sweep.

*The session.* A cursor says that everything at or below it is in the log, and four
actors move it: a page, a live event, the answer to a handshake and a resume point.
`SessionInv` says what each may rely on. No cursor is above what was stored
(`CursorForm`); the durable ones are sound always (`DurableSound`), the memory ones for
what is not yet resolved and for the groups of a session that is up (`MemorySound`).
A loop goes on as if certain Actions were in the log, whatever the others do meanwhile:
those at or below the cursor of its page or of the event it applies, what was resolved in
a group it has drained, what its stream should have carried, and what a handshake on its
way carries. `LoopsSound` says that each of these (`Needs`, `Carries`) is in the log or
named. The last event of a loop that was taken over is older than the current stream
(`LastEventBehind`), and one loop at most is neither over nor cancelled (`OneLoop`),
which is why nobody reopens the gate under it. Nothing is assumed of how many commits
are stored and unresolved: a resume point above an Action that no page brought names it
when it is set, and what lies below one was resolved. The run and the proof use the same instance:
`MCClientOutbox` instantiates `ClientSessionProofs`, so its lemmas are cited across the
substitution.

*The subscription.* A handshake asks, is answered and is applied in three steps, two may
overlap, and the live subscription moves by the difference between two answers. `MbInv`
says what a difference may rely on. Before the first answer nothing is adopted, and a
filtered scope is the adopted set (`AdoptedOnce`); two calls on their way know that they
crossed, and one that crossed no other compares with the set still adopted
(`CallsApart`); a stream stands for the groups it was opened for (`StreamStands`). So the
subscription follows what was adopted (`FollowsAdopted`), and what was adopted is the
actor's membership or news of the difference is on its way to the loop (`NewsUnderWay`),
both but for the groups in `missed`.

*The clock.* A stamp packs a logical time and a counter into one integer. A client
stamps leaves and awaits an import before it creates their Action
(`write/src/committer.ts:71`, `client.ts:1110`), so its Actions overlap, and what is
ordered is the sequence of all its stamps. `HlInv` says that nothing it stamped is of a
later logical time than its clock, and that what it stamped since the counter last
wrapped is at or below the clock (`StampsBehind`); and that the clock leads the wall
clock by at most the drift (`ClocksNear`). A wrap puts the clock back within its logical
time, so it may disorder stamps of that time and no others. The steps are about how a
stamp compares: a counter below the mask comes back from the packed form (`PackIs`),
packed stamps compare by logical time first (`PackOrder`), and each move of the clock
that does not wrap the counter goes up (`AfterLocalIs`, `AfterRemoteIs`). The provers
know no powers, so `HlcAssumption` says that `2 ^ CounterBits` is a positive number.

*Presence.* `PresenceInv` has a sender's half and a store's. What a peer set last on a
target is pending or was posted, through a flush and a cancel (`SendsInv`). In the store
the timer stands for the earliest expiry, the cap of a target is kept by evicting its
oldest entry but the one that came, and a listener's last announcement is what its target
shows (`StoreInv`). The delicate steps are those that remove entries of several targets at
once: who was not told must have had nothing removed. The earliest expiry and the oldest
entry exist because `<` on Nat is well-founded, which is cited from the library. The cap is
taken to be positive: `enforceCap` reads a cap of zero as none (`store.ts:153`).

*A cached query.* A run reads the replica, awaits and settles; the replica moves
meanwhile, and the journal that tells whether it mattered is bounded. Of every entry made
for a key, `CacheInv` says that its data is what the query gave at its revision, unless a
relevant change came since (`DataOk`), likewise the rows a run holds (`RunOk`); that the
snapshot mirrors data and error (`ShowsOk`); and that its primed listeners have read the
data and the failure at all times, not only at rest (`Heard`). The entry of the map has, at
rest and with a listener, the replica's revision (`RestOk`); the signal visits no other, so
of an evicted one the theorem says only that it shows the result until the replica moves
on. What the journal forgot counts as a change, so an entry that is carried to a later
revision without a run was untouched in between (`IrrelevantIs`). An entry's step leaves
the listeners of the others alone, because a listener has one store at a time (`OneStore`).

*A runner.* That `ok` means committed, once, relates a handler that may be gone, two
queues and the host's loop. `SessionInv` says where the parts of one invocation can be
at a time: the runner's invocation is the host's and its caller unanswered
(`OneAtATime`); an invoke frame finds the runner free, with only noise behind it, so no
reply of an earlier invocation is read after it (`InvokeFindsRunnerFree`); a result is
the last frame the host hears of an invocation (`ResultIsLast`); every call on its way
or at work is the loop's (`CallsAreTheLoops`), every reply comes after what it reports
(`RepliesAreTrue`), and what a handler wrote is buffered, or a commit took it
(`WritesAreHeld`). `GuardsHold` needs that invocations come in turn, each installed over
the process's own globals (`InTurn`), although requests and log lines of earlier ones go
on: a request is sound by itself (`IsSound`), whatever guard it began under.

*Deploys.* The watcher's pass, a one-off deploy, edits, operator commands and pruning meet
at every request. `DeployInv` has a part for each promise. A file that nothing excuses is
served as it is, or pending, queued or still to be read by the watcher's pass; and what
that pass has read of it is what is on disk, unless a later batch names it again (`Cared`).
Why the pass may then activate a version it found two requests ago: that version has the
hash the pass read, unless it was pruned, and its number is not issued again (`PassOk`). The
map an open watcher leaves is current, or a change or a pass is on its way (`MapInv`). For
rollback, one row at most is active, a pointer leads to a row that served, and a row that
never served has none (`TableOk`), so while no version is activated twice the pointers
descend along a rank (`Ranked`): the row of least rank leads out of any set. The proof
changed the model: `writeTypes` lists the entries and then writes the map, which used to be
one step. Between the two a file may come or go, and a one-off `ebb deploy` may put a map
from its older listing over the watcher's; `unmapped` says so, and `MapIsCurrent` excepts
it until the next map.

Only model-checked, and why:

* *Liveness* (`EveryCallAnswered` of both modules, `FrontierCatchesUp`,
  `EveryReleasePushed`, `NothingWaitsForEver`): the provers have no fairness.
* *WriterIntake*: its handlers fold over queues with `SelectSeq` and `FlattenSeq`, which
  the SMT backend knows nothing about and whose properties are inductions.
* *Documents, decisions, requests, schemas* (`rules`): CausalTree and ConflictPass are
  recursive, and a module that reaches a RECURSIVE operator loses its SMT backend.
* *Query and EntityStore* (`client_data`): what a query means, and what a row replayed from
  its log is, are recursive definitions over the data.
* *ReplicaStore, ReplicaView, GroupSeed, RowAccess, ConflictResolution, Drafts and
  FunctionWrites*: each sorts, filters or folds over its data in the steps its property is
  about, so a proof would begin with inductions the provers do not have.

## 5. Where code and text disagree

Two disagreements have a run of their own:

* **Acked Actions can be overwritten** (`write_path_late_overwrite`). After a tree
  restart the counter starts at the durable maximum, so abandoned GSNs above it are
  issued again, and the late write of their first owner replaces acked Actions.
* **Two editors can diverge** (`text_document_diverges`). Extending a run raises the
  stamp its siblings are ordered by (`schema/src/collaborative-text/tree.ts:633`), so an
  author that types on before it heard of a peer's run at the same place orders the two
  differently, for good. `rules` therefore has one author, an editor that receives and
  a reader that hydrates, which do agree.

The following hold in the runs only with the exception their property names. The
unrestricted statement is a definition beside it; naming it in a `.cfg` for the module,
with the bounds given in its MC module unless others are stated, shows the behaviour.

| Statement | What happens | Text that says otherwise |
|---|---|---|
| `WritePath!RetryNeverAppendsTwice` | a commit the watchdog gave up on releases its ids while its write can still land; a retry in between is stored under a second GSN | `storage/writer.ex:209` |
| `WritePath!EveryCallAnswered` with `MaxRebuildFaults = 1` | callers of a successor whose rebuild raises get no reply | `storage/writer.ex:932` |
| `WritePath!AckMeansDurable` | holds at depth one; above, the caller of a duplicate is acked before its original is durable, as `storage/writer.ex:221` admits | |
| `WriterIntake!EveryCallAnswered` with `MaxSize = 2` and two replays | a flush of replays opens no range, so nothing resumes the burst behind it | `storage/writer.ex:1203` |
| `FanOut!PushesMatchLog` with `MaxInFlight = 2` | a batch acked between the Router's two reads is passed by the frontier, and lost to live fan-out if the Router dies once more | `sync/fan_out_frontier.ex:24` |
| `FanOut!EveryReleasePushed` without `crashes > 0` | a restarted Writer moves the watermark without a message (`storage/writer.ex:895`); a recovered range waits for the next commit | |
| `ClientOutbox!SweptBeforeSubmit` | a pass that breaks off, or a write during backoff while the gate is open, submits an entry that no sweep compared with a delivered Action | `client/src/sync/client.ts:1744`, `www` `conflicts.md:214` |
| `ClientSession!NoGapBelowCursor` | what the server resolves between the last page and the opening of the stream is skipped, and the next live event moves the cursor over it | `ebb_server/README.md:717` |
| `ClientSession!NoGapBelowCursor`, also | a page read at watermark 0 takes one group's cursor above it; the control event that answers it sets every group's cursor to the resume point, past an Action of another group that was not applied | `client.ts:1855` |
| `ClientSession!BaseIsApplied` | a live event moves the memory cursor of every subscribed group, and that cursor is the base of new writes | `client.ts:1749` |
| `GroupSeed!CursorMeansComplete` with `MaxFaults = 2` | two crashes publish a cursor above rows the second listing never saw (`group-listing.ts:276`) | `group-listing.ts:32` |
| `EntityStore!DirtyWhenBehind` | a read that overlaps an append clears its mark; a crash between append and mark leaves none | `storage/src/types/dirty-tracker.ts:4` |
| `ReplicaStore!ReloadBringsAllBack` | four windows: a further part of a merged Action below the record's position; an eviction during a save; a delivery that overlaps a restore; a put replayed over a newer orphan | `storage/src/types/replica-store.ts:6` |
| `Membership!SubscriptionAlwaysFollows` | a change adopted by the application's own handshake or by crossed ones, or made between a refresh and its stream, is in no later difference | `client.ts:741` |
| `HlcClock!LeavesAtOrBelow` | a counter that wraps between a leaf and its Action leaves the Action below its leaf | `core/src/hlc/clock.ts:35` |
| `HlcClock!ActionsFollowLeaves` | two overlapping writes create their Actions in the other order than they stamped their leaves | `client.ts:1107` |
| `HlcClock!AfterWhatWasHeard` | adopting a later logical time drops the counter that came with it, so the next local stamp can equal the one heard | `client.ts:1144` |
| `QueryCache!HeardIsCurrent` | a store kept over an eviction subscribes to an entry that has left the map, which the signal (`query-cache.ts:393`) no longer visits; and an eviction timer that such an entry arms takes the live one out of the map | `query-cache.ts:15` |
| `RowAccess!JoinsHaveNoHole` with `MaxChanges = 3` | a join over more rows than the pin window evicts the first while it opens the last | `query-builder.ts:596` |
| `ConflictResolution!FailedStaysConflicted` | a re-assertion is stored and then its optimistic apply fails: it is reported as failed and is no longer conflicted | `conflicts.ts:149` |
| `Drafts!DocumentsAlwaysTravel` | a second move of an entity in one action reads the document's groups from a store that has not seen the first | `write/src/operations.ts:603` |
| `FunctionWrites!AdminAlwaysStays` with `MaxOps = 5` | a patch of a member's permissions does not reach the roster that the guards read | `functions-runtime/src/writes.ts:324` |
| `FunctionSession!OkAlwaysCommitted` | a handler that calls `ctx.commit()` itself and drops the promise returns `ok` although the commit was refused | `runner/src/index.ts:61` |
| `RunnerGuards!EveryRequestAudited` | a request that outlives its invocation, or that left-over work makes between two, is not audited | `runner/src/index.ts:81` |
| `FunctionDeploy!RollbackAlwaysWalks` | a version that is activated again points back at the one it replaced, so rollbacks toggle between the two | the doc of `rollback/2` in `functions/store.ex` |
| `Requests!NeverOrphaned` | a request that puts and deletes one membership row passes the last-membership guard | `storage/authorizer.ex:436` |

Seen while modelling, and excepted or left out of the models where they apply:

* *Session.* A reset on an invalid cursor keeps the memory cursors of the valid groups
  (`client.ts:716-735`), which a group without a durable cursor then starts from
  (`client.ts:912`), and it drops the log beneath a loop that streams or drains; a
  taken-over loop's last live event moves the memory cursor of a group just joined
  (`client.ts:1822`), which the next catch-up may start from. `escaped` names the Actions
  concerned, and no others.
* *Outbox.* `retry()` can overwrite a conflicted mark that a sweep stored meanwhile.
* *Seeding.* A server that stops serving listings, a backfill that overlaps a reset and
  two takeover loops on one group are further ways to a cursor above missing rows; the
  entities concerned are in `crossed`.
* *Queries.* A listener that attaches between a run and its microtask
  (`query-cache.ts:291`) reads an older snapshot first; `orderBy` compares the default of
  an unwritten field and `where()` does not; an evicted edge row tells no listener of its
  endpoints.
* *Text.* An echo rewinds a run that was split meanwhile (`tree.ts:864`); the wire form
  lacks the parents a split changed, so the tail of a middle delete hangs under the root
  for a reader; tombstones are sticky in the tree but not in the merged map; an insert
  under a deleted parent goes to the end; `hydrate` fires no events.
* *Conflicts.* `remoteWins` (`conflicts.ts:40`) and the merge differ where a map meets a
  leaf; the property speaks of leaves.
* *Functions.* Two concurrent `unrelate` calls on a many-relationship lose one
  (`functions-runtime/src/index.ts:77`); a re-put of a membership row needs `update` at
  the client and is exempt on the server; late frames of a worker are attributed to its
  next invocation (`functions/worker/pool.ex:32`), and a console line of left-over work
  is charged to the invocation then running.
* *Egress.* A url entry that states its scheme's default port pins no port; a list whose
  entries all name no host restricts nothing.
* *Deploy.* The watcher's pass overlaps an edit (`commands.ts:522-537`); a prune may
  precede the activation of the version it spares (`deploy.ts:262`);
  `ebb deploy` may write a contract map from a listing older than the watcher's
  (`deploy.ts:146-152`).
* *Schema.* `registerRelationship` overwrites on a repeated key
  (`entity-registry.ts:155`).
* *Fan-out.* A message about part of a recovered range removes that part's group sets
  (`sync/fan_out_router.ex:317`); a second push of the range may then ask the caches,
  first pushes never do.

## 6. Not modelled

Inside the modelled components: telemetry, the ablation switches, the inline commit used
when the watchdog is disabled, which worker runs a job, calls without Actions. In
WriterIntake a Writer and its pools die and come back in one step. In FanOut there are
no subscriptions, presence or control events, and the storage tree does not restart;
WritePath's refinement also ends with the storage tree. ClientLink leaves reloads to
ClientSession. In ClientSession a loop has the groups of its own answers: the group set
under crossed answers, and what a cancelled loop's answer does to the active session's
groups, are Membership's. The awaits inside `resetSyncState` and between it and the
adoption of the answer are one step, and so are the hold and the reading of the durable
cursors. In ClientOutbox an Action writes one position; what several positions
decide is in ConflictPass. In ReplicaStore a row is its position, deletion mark and latest
stamp; field values are ConflictPass's. Presence posts may overtake each other; two posts
of one peer that did are told apart by no property. Delays are modelled by their order,
not their length; TTL eviction may come at any time. RunnerGuards assumes that code does
not keep a reference to the `fetch` or console of an earlier invocation.

Components without a model:

* *Server dirty marks and materialization* (`dirty_tracker.ex`, `entity_store.ex`,
  `sqlite.ex`): the race is that of EntityStore, with several batches; not written.
* *GroupServer, registry, worker-pool checkout*: process plumbing between the modelled
  ends; the client modules take the stream as external.
* *Shape validation, encodings, HTTP routing, SQL, configuration, telemetry, export,
  health, CORS*: sequential or pure, with nothing to interleave.
* *React bindings, SDK declarations, test harness, other CLI commands, site, examples*:
  no protocol state of their own. The React hooks are listeners of QueryCache.

## 7. Plan

1. *Done*: everything of section 2 and of the table in section 4.
2. Theorems next, in this order: the part of `StorageIsCurrent` that ReplicaStore states
   without folds; `AnsweredOnce` of WriterIntake for the part that does not fold over its
   queues.
   ConflictPass declares a RECURSIVE operator and stays with TLC, as do the modules that
   extend it.
3. Then a module for the server's dirty marks, and the subscription half of the Router
   with GroupServer.

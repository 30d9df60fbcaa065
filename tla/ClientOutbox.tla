---------------------------- MODULE ClientOutbox ----------------------------
(***************************************************************************)
(* The client's durable write buffer (packages/client/src/sync/outbox.ts)  *)
(* and the part of the session that feeds it: the inbound funnel, the      *)
(* catch-up pass and its conflict sweep (client.ts).                       *)
(*                                                                         *)
(* Every operation is an async function.  It reads and writes the buffer   *)
(* between awaits and waits for the outbox store, whose requests complete  *)
(* in the order they were issued.  The model keeps that queue explicitly:  *)
(* an operation is one action that issues a request and one that runs when *)
(* the request has completed, so every interleaving at an await happens.   *)
(*                                                                         *)
(* An action writes one position (Subject); two actions race when they     *)
(* write the same one.  The server is external: a log of committed         *)
(* actions, ours and foreign, whose index is the GSN.                      *)
(***************************************************************************)
EXTENDS Naturals, Sequences, FiniteSets, SequencesExt

CONSTANTS
  Ids,          \* ids of the actions this client may author
  Subjects,     \* positions an action can write
  SubjectOf,    \* SubjectOf[id]: the position an own action writes
  Foreign,      \* marks a log entry that another client authored
  MaxForeign,   \* bound: foreign actions
  MaxMishaps    \* bound: reloads of the page and store requests that fail

ASSUME OutboxAssumption ==
  /\ Foreign \notin Ids
  /\ SubjectOf \in [Ids -> Subjects]
  /\ MaxForeign \in Nat /\ MaxMishaps \in Nat

VARIABLES
  mem,       \* the in-memory queue: a sequence of entries
  store,     \* the durable rows: a set of entries
  loaded,    \* rehydrate() has completed
  ops,       \* store requests issued and not completed, oldest first
  flush,     \* the one flush in flight
  pass,      \* the catch-up pass: "off", "draining", "saving", "sweeping"
  window,    \* GSNs the running pass has delivered
  sweep,     \* losers the running detection has still to mark
  applied,   \* GSN the inbound funnel has reached (durable cursor)
  cursor,    \* GSN the session stamps on writes (groupCursors)
  clock,     \* HLC stamps drawn
  log,       \* external: the server's committed log
  mishaps,   \* reloads and failed requests so far
  \* history variables
  authored,  \* ids whose row was stored by enqueue or a conflict retry
  dropped,   \* ids the application cleared, discarded or replaced
  acked,     \* ids stored as acknowledged
  rejected,  \* ids the server has refused
  unswept    \* GSNs delivered by a pass that ended before its detection

server == <<log>>
session == <<pass, window, sweep, applied, cursor>>
history == <<authored, dropped, acked, rejected, unswept>>
vars == <<mem, store, loaded, ops, flush, pass, window, sweep, applied, cursor,
          clock, log, mishaps, authored, dropped, acked, rejected, unswept>>

OutboxStatus == {"pending", "acknowledged", "error", "conflicted"}
OutboxEntry == [id: Ids, status: OutboxStatus, hlc: Nat, basedOnGsn: Nat]
NoFlush == [phase |-> "idle", batch |-> <<>>, refused |-> {}, at |-> 0]

-----------------------------------------------------------------------------
(* Reading the buffer *)

Buffered(q, id, statuses) == \E e \in Range(q) : e.id = id /\ e.status \in statuses
EntryOf(q, id) == CHOOSE e \in Range(q) : e.id = id
Known(id) == Buffered(mem, id, OutboxStatus)

\* The numbers of N in ascending order, and what q holds at the places in J.
Ascending(N) ==
  CHOOSE s \in [1..Cardinality(N) -> N] : \A i, j \in 1..Cardinality(N) : i < j => s[i] < s[j]
Picked(q, J) == [k \in 1..Cardinality(J) |-> q[Ascending(J)[k]]]

Filtered(q, id) == Picked(q, {i \in DOMAIN q : q[i].id # id})
WithStatus(q, id, status) ==
  [i \in DOMAIN q |-> IF q[i].id = id THEN [q[i] EXCEPT !.status = status] ELSE q[i]]
\* Mutant: an acknowledged entry that has not echoed yet is sent again.
PendingOrAcknowledged ==
  Picked(mem, {i \in DOMAIN mem : mem[i].status \in {"pending", "acknowledged"}})
Pending == Picked(mem, {i \in DOMAIN mem : mem[i].status = "pending"})

\* A store request: the row to put (or the id to delete), and the operation
\* that waits for it.
PutReq(row, by) == [op |-> "put", row |-> row, drop |-> row.id, by |-> by]
SwapReq(row, id, by) == [op |-> "putAndDelete", row |-> row, drop |-> id, by |-> by]
DeleteReq(row, by) == [op |-> "delete", row |-> row, drop |-> row.id, by |-> by]

\* Mutant: the two-step replacement stops after its delete.
StoreAfterTorn(r) ==
  LET kept == {e \in store : e.id \notin {r.drop, r.row.id}}
  IN IF r.op = "put" THEN kept \cup {r.row} ELSE kept

\* The rows after a request (put, delete, putAndDelete of the outbox store).
StoreAfter(r) ==
  LET kept == {e \in store : e.id \notin {r.drop, r.row.id}}
  IN IF r.op = "delete" THEN kept ELSE kept \cup {r.row}

\* An operation of the application waits for a request on this id.
Busy(id) == \E i \in DOMAIN ops : ops[i].by # "flush" /\ id \in {ops[i].row.id, ops[i].drop}
Waiting(by) == \E i \in DOMAIN ops : ops[i].by = by

\* The request at the head of the queue was issued by an operation of kind
\* `by`; it completes, or fails and leaves the rows as they were.
Completes(by) ==
  /\ ops # <<>> /\ Head(ops).by = by
  /\ store' = StoreAfter(Head(ops))
  /\ UNCHANGED mishaps
Fails(by) ==
  /\ ops # <<>> /\ Head(ops).by = by
  /\ mishaps < MaxMishaps
  /\ mishaps' = mishaps + 1
  /\ UNCHANGED store

-----------------------------------------------------------------------------
Init ==
  /\ mem = <<>> /\ store = {} /\ loaded = FALSE /\ ops = <<>>
  /\ flush = NoFlush
  /\ pass = "off" /\ window = {} /\ sweep = <<>>
  /\ applied = 0 /\ cursor = 0 /\ clock = 0
  /\ log = <<>> /\ mishaps = 0
  /\ authored = {} /\ dropped = {} /\ acked = {} /\ rejected = {} /\ unswept = {}

\* rehydrate: the rows become the queue, sorted by their stamp.
Rehydrate ==
  /\ ~loaded
  /\ loaded' = TRUE
  /\ mem' = LET stamps == {e.hlc : e \in store}
            IN [k \in 1..Cardinality(stamps) |->
                  CHOOSE e \in store : e.hlc = Ascending(stamps)[k]]
  /\ UNCHANGED <<store, ops, flush, session, clock, server, mishaps, history>>

\* A reload: memory and unfinished requests are gone, rows and the durable
\* cursor stay.
Reload ==
  /\ mishaps < MaxMishaps
  /\ mishaps' = mishaps + 1
  /\ mem' = <<>> /\ loaded' = FALSE /\ ops' = <<>> /\ flush' = NoFlush
  /\ pass' = "off" /\ window' = {} /\ sweep' = <<>> /\ cursor' = 0
  /\ unswept' = unswept \cup window
  /\ UNCHANGED <<store, applied, clock, server, authored, dropped, acked, rejected>>

-----------------------------------------------------------------------------
(* enqueue: stamp, persist, then buffer *)

Enqueue(id) ==
  /\ loaded
  /\ id \notin authored /\ ~Busy(id)
  /\ clock' = clock + 1
  /\ ops' = Append(ops, PutReq([id |-> id, status |-> "pending", hlc |-> clock + 1,
                                basedOnGsn |-> cursor], "enqueue"))
  /\ UNCHANGED <<mem, store, loaded, flush, session, server, mishaps, history>>

EnqueueStored ==
  /\ \/ /\ Completes("enqueue")
        /\ mem' = Append(mem, Head(ops).row)
        /\ authored' = authored \cup {Head(ops).row.id}
     \/ /\ Fails("enqueue")
        /\ UNCHANGED <<mem, authored>>
  /\ ops' = Tail(ops)
  /\ UNCHANGED <<loaded, flush, session, clock, server, dropped, acked, rejected, unswept>>

-----------------------------------------------------------------------------
(* runFlush: submit what is pending, then persist each entry's new status *)

\* The gate (flushScheduler.hold) is closed during a catch-up pass.
StartFlush ==
  /\ loaded /\ pass = "off"
  /\ flush.phase = "idle" /\ Pending # <<>>
  /\ flush' = [NoFlush EXCEPT !.phase = "submitting", !.batch = Pending]
  /\ UNCHANGED <<mem, store, loaded, ops, session, clock, server, mishaps, history>>

\* Index of the first batch entry from k on that is still pending in q.
NextLive(k, q) ==
  LET live == {j \in k..Len(flush.batch) : Buffered(q, flush.batch[j].id, {"pending"})}
  IN IF live = {} THEN Len(flush.batch) + 1 ELSE CHOOSE j \in live : \A i \in live : j <= i

StatusFor(id, refused) == IF id \in refused THEN "error" ELSE "acknowledged"

\* The persist loop goes on from batch index k, with queue q and requests r.
FlushFrom(k, q, refused, r) ==
  LET j == NextLive(k, q)
  IN IF j > Len(flush.batch)
     THEN flush' = NoFlush /\ ops' = r
     ELSE /\ flush' = [flush EXCEPT !.phase = "storing", !.at = j, !.refused = refused]
          /\ ops' = Append(r, PutReq([flush.batch[j] EXCEPT
                                        !.status = StatusFor(flush.batch[j].id, refused)], "flush"))

\* External: the server commits the accepted actions it has not seen before.
Committed == {log[g].id : g \in DOMAIN log} \ {Foreign}
CommitBatch(refused) ==
  LET new == Picked(flush.batch, {i \in DOMAIN flush.batch :
                                    flush.batch[i].id \notin refused \cup Committed})
  IN log' = log \o [i \in DOMAIN new |-> [id |-> new[i].id, subject |-> SubjectOf[new[i].id]]]

Answered(refused) ==
  /\ flush.phase = "submitting"
  /\ refused \subseteq {e.id : e \in Range(flush.batch)} \ Committed
  /\ CommitBatch(refused)
  /\ rejected' = rejected \cup refused
  /\ FlushFrom(1, mem, refused, ops)
  /\ UNCHANGED <<mem, store, loaded, session, clock, mishaps, authored, dropped, acked, unswept>>

\* The submit throws: the request never arrived, or its answer was lost.
Unreachable ==
  /\ flush.phase = "submitting"
  /\ flush' = NoFlush
  /\ \/ UNCHANGED log
     \/ CommitBatch({})
  /\ UNCHANGED <<mem, store, loaded, ops, session, clock, mishaps, history>>

\* The put completed: the newer of the two states wins.
FlushStored ==
  /\ flush.phase = "storing" /\ Completes("flush")
  /\ LET row == Head(ops).row
         id == row.id
     IN /\ acked' = IF row.status = "acknowledged" THEN acked \cup {id} ELSE acked
        /\ \/ /\ ~Known(id)
              /\ flush' = [flush EXCEPT !.phase = "repairing"]
              /\ ops' = Append(Tail(ops), DeleteReq(row, "flush"))
              /\ UNCHANGED mem
           \/ /\ Known(id) /\ EntryOf(mem, id).status # "pending"
              /\ flush' = [flush EXCEPT !.phase = "repairing"]
              /\ ops' = Append(Tail(ops), PutReq(EntryOf(mem, id), "flush"))
              /\ UNCHANGED mem
           \/ /\ Buffered(mem, id, {"pending"})
              /\ mem' = WithStatus(mem, id, row.status)
              /\ FlushFrom(flush.at + 1, mem', flush.refused, Tail(ops))
  /\ UNCHANGED <<loaded, session, clock, server, authored, dropped, rejected, unswept>>

FlushRepaired ==
  /\ flush.phase = "repairing" /\ Completes("flush")
  /\ FlushFrom(flush.at + 1, mem, flush.refused, Tail(ops))
  /\ UNCHANGED <<mem, loaded, session, clock, server, history>>

\* A store fault rejects the flush; entries already moved stay moved.
FlushFault ==
  /\ Fails("flush")
  /\ flush' = NoFlush /\ ops' = Tail(ops)
  /\ UNCHANGED <<mem, loaded, session, clock, server, history>>

-----------------------------------------------------------------------------
(* What the application does with a rejected or conflicted entry *)

Retry(id) ==
  /\ loaded /\ ~Busy(id) /\ Buffered(mem, id, {"error"})
  /\ ops' = Append(ops, PutReq([EntryOf(mem, id) EXCEPT !.status = "pending"], "retry"))
  /\ UNCHANGED <<mem, store, loaded, flush, session, clock, server, mishaps, history>>

RetryStored ==
  /\ \/ Completes("retry") /\ mem' = WithStatus(mem, Head(ops).row.id, "pending")
     \/ Fails("retry") /\ UNCHANGED mem
  /\ ops' = Tail(ops)
  /\ UNCHANGED <<loaded, flush, session, clock, server, history>>

\* clearError and clearConflict delete a row in the status they are for.
Clear(id, status) ==
  /\ loaded /\ ~Busy(id) /\ Buffered(mem, id, {status})
  /\ ops' = Append(ops, DeleteReq(EntryOf(mem, id), "clear"))
  /\ UNCHANGED <<mem, store, loaded, flush, session, clock, server, mishaps, history>>
ClearError(id) == Clear(id, "error")
ClearConflict(id) == Clear(id, "conflicted")

ClearStored ==
  /\ \/ /\ Completes("clear")
        /\ mem' = Filtered(mem, Head(ops).drop)
        /\ dropped' = dropped \cup {Head(ops).drop}
     \/ Fails("clear") /\ UNCHANGED <<mem, dropped>>
  /\ ops' = Tail(ops)
  /\ UNCHANGED <<loaded, flush, session, clock, server, authored, acked, rejected, unswept>>

\* A conflict retried: one request stores a re-assert under a fresh id and
\* deletes the held row.
RetryConflicted(id, new) ==
  /\ loaded /\ ~Busy(id) /\ Buffered(mem, id, {"conflicted"})
  /\ new \notin authored /\ ~Busy(new) /\ SubjectOf[new] = SubjectOf[id]
  /\ clock' = clock + 1
  /\ ops' = Append(ops, SwapReq([id |-> new, status |-> "pending", hlc |-> clock + 1,
                                 basedOnGsn |-> cursor], id, "retryConflicted"))
  /\ UNCHANGED <<mem, store, loaded, flush, session, server, mishaps, history>>

RetryConflictedStored ==
  /\ \/ /\ Completes("retryConflicted")
        /\ mem' = Append(Filtered(mem, Head(ops).drop), Head(ops).row)
        /\ authored' = authored \cup {Head(ops).row.id}
        /\ dropped' = dropped \cup {Head(ops).drop}
     \/ Fails("retryConflicted") /\ UNCHANGED <<mem, authored, dropped>>
  /\ ops' = Tail(ops)
  /\ UNCHANGED <<loaded, flush, session, clock, server, acked, rejected, unswept>>

-----------------------------------------------------------------------------
(* The inbound funnel: every received action, live or caught up *)

\* External: another client commits an action.
ForeignCommit(s) ==
  /\ Cardinality({g \in DOMAIN log : log[g].id = Foreign}) < MaxForeign
  /\ log' = Append(log, [id |-> Foreign, subject |-> s])
  /\ UNCHANGED <<mem, store, loaded, ops, flush, session, clock, mishaps, history>>

\* _applyAction of the next action: an own action that is buffered as pending
\* or acknowledged is removed first, and then the durable cursor moves.  A
\* live event moves the session cursor once it is applied.
Received(g) ==
  /\ applied' = g
  /\ window' = IF pass = "draining" THEN window \cup {g} ELSE window
  /\ cursor' = IF pass = "off" THEN g ELSE cursor

Deliver ==
  /\ loaded /\ pass \in {"off", "draining"}
  /\ applied < Len(log) /\ ~Waiting("echo")
  /\ LET g == applied + 1
     IN \/ /\ Buffered(mem, log[g].id, {"pending", "acknowledged"})
           /\ ops' = Append(ops, DeleteReq(EntryOf(mem, log[g].id), "echo"))
           /\ UNCHANGED <<applied, window, cursor>>
        \/ /\ ~Buffered(mem, log[g].id, {"pending", "acknowledged"})
           /\ Received(g)
           /\ UNCHANGED ops
  /\ UNCHANGED <<mem, store, loaded, flush, pass, sweep, clock, server, mishaps, history>>

MatchEchoStored ==
  /\ \/ Completes("echo") /\ mem' = Filtered(mem, Head(ops).drop)
     \/ Fails("echo") /\ UNCHANGED mem
  /\ ops' = Tail(ops)
  /\ Received(applied + 1)
  /\ UNCHANGED <<loaded, flush, pass, sweep, clock, server, history>>

-----------------------------------------------------------------------------
(* The catch-up pass and its conflict sweep *)

\* connectAndDrain closes the gate and starts a pass with an empty window.
StartPass ==
  /\ loaded /\ pass = "off" /\ ~Waiting("echo")
  /\ pass' = "draining" /\ window' = {}
  /\ UNCHANGED <<mem, store, loaded, ops, flush, sweep, applied, cursor, clock, server,
                 mishaps, history>>

\* A page request fails: the pass is abandoned and a later connect starts anew
\* (the gate stays closed in between).
PageFails ==
  /\ pass = "draining" /\ ~Waiting("echo")
  /\ window' = {} /\ cursor' = applied
  /\ unswept' = unswept \cup window
  /\ UNCHANGED <<mem, store, loaded, ops, flush, pass, sweep, applied, clock, server,
                 mishaps, authored, dropped, acked, rejected>>

\* The last page: the session cursor moves, then the replica is saved.
Drained ==
  /\ pass = "draining" /\ applied = Len(log) /\ ~Waiting("echo")
  /\ pass' = "saving" /\ cursor' = applied
  /\ UNCHANGED <<mem, store, loaded, ops, flush, window, sweep, applied, clock, server,
                 mishaps, history>>

IsConcurrent(e, g) == g > e.basedOnGsn
\* An entry loses when a missed action it was not based on writes its position.
Loses(e) ==
  /\ e.status \in {"pending", "acknowledged"}
  /\ \E g \in window : IsConcurrent(e, g) /\ log[g].subject = SubjectOf[e.id]

\* detectConflicts classifies the buffer at once and marks the losers one by one.
DetectConflicts ==
  LET losers == Picked(mem, {i \in DOMAIN mem : Loses(mem[i])})
  IN /\ pass = "saving"
     /\ sweep' = [i \in DOMAIN losers |-> losers[i].id]
     /\ pass' = IF losers = <<>> THEN "off" ELSE "sweeping"
     /\ window' = {}
     /\ UNCHANGED <<mem, store, loaded, ops, flush, applied, cursor, clock, server,
                    mishaps, history>>

\* The next loser is marked, or was removed meanwhile; the gate opens after the last.
Swept == IF Len(sweep) = 1 THEN "off" ELSE "sweeping"
MarkConflicted ==
  /\ pass = "sweeping" /\ ~Waiting("mark")
  /\ LET id == Head(sweep)
     IN \/ /\ ~Known(id)
           /\ sweep' = Tail(sweep) /\ pass' = Swept
           /\ UNCHANGED <<mem, ops>>
        \/ /\ Known(id)
           /\ mem' = WithStatus(mem, id, "conflicted")
           /\ ops' = Append(ops, PutReq(EntryOf(mem', id), "mark"))
           /\ UNCHANGED <<sweep, pass>>
  /\ UNCHANGED <<store, loaded, flush, window, applied, cursor, clock, server, mishaps, history>>

\* A fault is reported and the sweep goes on: the hold then lasts this session.
MarkStored ==
  /\ Completes("mark") \/ Fails("mark")
  /\ ops' = Tail(ops)
  /\ sweep' = Tail(sweep) /\ pass' = Swept
  /\ UNCHANGED <<mem, loaded, flush, window, applied, cursor, clock, server, history>>

-----------------------------------------------------------------------------
Next ==
  \/ Rehydrate \/ Reload
  \/ \E id \in Ids : Enqueue(id) \/ Retry(id) \/ ClearError(id) \/ ClearConflict(id)
  \/ \E id, new \in Ids : RetryConflicted(id, new)
  \/ EnqueueStored \/ RetryStored \/ ClearStored \/ RetryConflictedStored
  \/ StartFlush \/ Unreachable \/ FlushStored \/ FlushRepaired \/ FlushFault
  \/ \E refused \in SUBSET Ids : Answered(refused)
  \/ \E s \in Subjects : ForeignCommit(s)
  \/ Deliver \/ MatchEchoStored
  \/ StartPass \/ PageFails \/ Drained \/ DetectConflicts \/ MarkConflicted \/ MarkStored

Spec == Init /\ [][Next]_vars

-----------------------------------------------------------------------------
(* Properties *)

\* Every variable has its type, ids are unique in the buffer and in the store.
TypeOK ==
  /\ mem \in Seq(OutboxEntry) /\ store \subseteq OutboxEntry
  /\ \A i, j \in DOMAIN mem : mem[i].id = mem[j].id => i = j
  /\ \A a, b \in store : a.id = b.id => a = b
  /\ loaded \in BOOLEAN
  /\ pass \in {"off", "draining", "saving", "sweeping"}
  /\ window \subseteq DOMAIN log /\ unswept \subseteq DOMAIN log
  /\ applied \in 0..Len(log) /\ cursor \in 0..Len(log)
  /\ flush.phase \in {"idle", "submitting", "storing", "repairing"}

\* enqueue persists before it buffers and only an echo or the application
\* removes a row: a stored write is in the store, in the server's log, or was
\* dropped by the application, whatever reloads and faults happen.
NoLostWrite ==
  \A id \in authored :
    \/ \E e \in store : e.id = id
    \/ id \in Committed
    \/ id \in dropped

\* Authoring order: the queue is sorted by the stamp a reload sorts by, so the
\* server receives actions in one order before and after a reload.
QueueInStampOrder ==
  \A i, j \in DOMAIN mem : i < j => mem[i].hlc < mem[j].hlc

\* runFlush: an action whose acknowledgement is stored is never submitted
\* again, and one the application dropped is never submitted at all, not even
\* by the session after a reload.
NeverResubmitted ==
  flush.phase = "idle" /\ flush'.phase = "submitting" =>
    {e.id : e \in Range(flush'.batch)} \cap (acked \cup dropped) = {}

\* markConflicted makes the row itself the hold, so neither a reload nor the
\* flush that was in flight can submit a loser: an entry the server never
\* refused stays conflicted in the store until the application resolves it.
StoredConflictHolds ==
  \A e \in store :
    /\ e.status = "conflicted" /\ e.id \notin rejected
    /\ ~\E f \in store' : f.id = e.id /\ f.status = "conflicted"
    => ops # <<>> /\ Head(ops).by \in {"clear", "retryConflicted"}

\* Nothing that is settled or held goes to the wire.
SettledStaysHome == [][NeverResubmitted /\ StoredConflictHolds]_vars

\* What was stored is kept, and kept in the order it was authored.
WritesKept == NoLostWrite /\ QueueInStampOrder

\* client.ts: "Detection runs once over the whole missed window, after every
\* page has drained": an entry the server never refused is submitted only if no
\* action a catch-up pass delivered without sweeping writes its position.
SweptBeforeSubmit ==
  [][flush.phase = "idle" /\ flush'.phase = "submitting" =>
       \A e \in Range(flush'.batch) :
         \/ e.id \in rejected
         \/ ~\E g \in unswept : IsConcurrent(e, g) /\ log[g].subject = SubjectOf[e.id]]_vars
=============================================================================

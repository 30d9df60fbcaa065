---------------------------- MODULE WriterIntake ----------------------------
(***************************************************************************)
(* The Writer's intake: how a write_actions call travels from admission    *)
(* through the mailbox and the prepare pool into the CommitPipeline's      *)
(* `pending`, and when the pending calls are flushed.                      *)
(*                                                                         *)
(* The Writer's GenServer state is the record w; a handler is an operator  *)
(* from state to state, as in the source, and HandleHead applies the one   *)
(* for the message at the head of the mailbox.  What a flushed batch does  *)
(* until its commit result arrives is the subject of module WritePath:     *)
(* here a batch is the calls in it.                                        *)
(***************************************************************************)
EXTENDS Integers, Sequences, FiniteSets, FiniteSetsExt, SequencesExt

CONSTANTS
  Calls,            \* write_actions calls
  Replays,          \* the calls whose Actions are all durable already
  MaxSize,          \* bound: Actions in one call
  BatchMaxSize,     \* :writer_batch_max_size; 0 disables the cap
  BatchTimer,       \* :writer_batch_timeout_ms > 0
  QueueMax,         \* :writer_prepare_queue_max
  PoolSize,         \* :writer_prepare_pool_size
  MaxInFlight,      \* :writer_max_in_flight
  MaxPendingCalls,  \* :writer_max_pending_calls
  MaxTimeouts,      \* bound: prepare timers that fire
  MaxFailures,      \* bound: prepares and commits that fail
  MaxGivenUp,       \* bound: callers whose GenServer.call times out
  MaxCrashes,       \* bound: Writer crashes
  MaxFaults         \* bound: all of these together

ASSUME IntakeAssumption ==
  /\ IsFiniteSet(Calls) /\ Replays \subseteq Calls
  /\ {MaxSize, QueueMax, PoolSize, MaxInFlight, MaxPendingCalls} \subseteq Nat \ {0}
  /\ {BatchMaxSize, MaxTimeouts, MaxFailures, MaxGivenUp, MaxCrashes, MaxFaults} \subseteq Nat
  /\ BatchTimer \in BOOLEAN

VARIABLES
  w,         \* the Writer's state
  mailbox,   \* the Writer's mailbox
  pool,      \* the PreparePool: waiting jobs, running jobs, workers to replace
  armed,     \* prepare timers: the seqs whose timer is running
  caller,    \* per call: idle, waiting, down (its Writer died) or returned
  size,      \* per call: its number of Actions
  slots,     \* the current admission counter
  epoch,     \* which counter that is: init/1 creates one per Writer
  slot,      \* per call: the epoch of the counter it holds a slot of, or 0
  timeouts, failures, givenUp, crashes   \* what has used up the bounds

poolVars   == <<pool, armed>>
callerVars == <<caller, size, slots, epoch, slot>>
budgets    == <<timeouts, failures, givenUp, crashes>>

\* Another fault fits the bound.
FaultLeft == timeouts + failures + givenUp + crashes < MaxFaults
vars == <<w, mailbox, poolVars, callerVars, budgets>>

NoSeq == -1
Seqs  == 0..(Cardinality(Calls) - 1)

\* from: the call behind a seq; burst: burst_max_seq; marked and flushing: a
\* :prepare_flush or :flush marker is on its way; timer: the marker is a
\* running timer; open: the batches in claim order; out: messages to itself.
NewWriter(replies) ==
  [from |-> <<>>, enqueueSeq |-> 0, burst |-> NoSeq, preparing |-> {},
   prepared |-> [s \in Seqs |-> "none"], pending |-> <<>>, open |-> <<>>,
   marked |-> FALSE, timer |-> FALSE, flushing |-> FALSE, out |-> <<>>,
   replies |-> replies]

NewPool == [waiting |-> <<>>, running |-> {}, dying |-> 0]

CallOf(s, seq)  == s.from[seq + 1]
NextCallSeq(s)  == Len(s.from)
Actions(C)      == MapThenSumSet(LAMBDA c : size[c], C)
PendingCount(s) == Actions(ToSet(s.pending))
Prepared(s)     == {q \in Seqs : s.prepared[q] # "none"}

\* The source's `state |> f()`: f applied to the state s.
Then(s, f(_)) == CHOOSE t \in {f(x) : x \in {s}} : TRUE

Reply(s, C) == [s EXCEPT !.replies = [c \in Calls |-> @[c] + IF c \in C THEN 1 ELSE 0]]
Send(s, m)  == [s EXCEPT !.out = Append(@, m)]

AtCapacity(s) == Len(s.open) >= MaxInFlight
CapReached(s) == BatchMaxSize > 0 /\ PendingCount(s) >= BatchMaxSize

(***************************************************************************)
(* Flushing.                                                               *)
(***************************************************************************)
\* flush: a burst with nothing fresh is answered at once and opens no batch.
Flush(s) ==
  LET taken == [s EXCEPT !.pending = <<>>, !.flushing = FALSE]
      calls == ToSet(s.pending)
  IN  IF calls \subseteq Replays
      THEN Reply(taken, calls)
      ELSE [taken EXCEPT !.open = Append(@, [calls |-> s.pending, committed |-> FALSE])]

\* schedule_flush_now
ScheduleFlushNow(s) ==
  IF AtCapacity(s) THEN s
  ELSE IF s.pending = <<>> THEN [s EXCEPT !.flushing = FALSE]
  ELSE IF CapReached(s) THEN Flush(s)
  ELSE IF s.flushing THEN s
  ELSE Send([s EXCEPT !.flushing = TRUE], [type |-> "flush"])

\* maybe_schedule_prepare_flush: one marker per burst.
SchedulePrepareFlush(s) ==
  IF s.marked \/ s.burst # NoSeq \/ (s.preparing = {} /\ Prepared(s) = {}) THEN s
  ELSE IF BatchTimer THEN [s EXCEPT !.marked = TRUE, !.timer = TRUE]
  ELSE Send([s EXCEPT !.marked = TRUE], [type |-> "prepare_flush"])

\* Mutant: the burst does not wait for a call that is still being prepared.
BurstStopsLate(s, e) ==
  \/ e > s.burst
  \/ BatchMaxSize > 0 /\ PendingCount(s) +
       Actions({CallOf(s, q) : q \in {p \in s.enqueueSeq..(e - 1) :
                                        s.prepared[p] = "ready"}}) >= BatchMaxSize

\* take_burst stops behind the snapshot, at a call that is still being
\* prepared, or at the cap.
BurstStops(s, e) ==
  \/ e > s.burst
  \/ s.prepared[e] = "none"
  \/ BatchMaxSize > 0 /\ PendingCount(s) +
       Actions({CallOf(s, q) : q \in {p \in s.enqueueSeq..(e - 1) :
                                        s.prepared[p] = "ready"}}) >= BatchMaxSize

\* take_burst: the prepared prefix of the snapshot moves to pending, in
\* arrival order; failed calls are holes.
TakeBurst(s) ==
  LET end == CHOOSE e \in s.enqueueSeq..Max({s.enqueueSeq, s.burst + 1}) :
               /\ BurstStops(s, e)
               /\ \A x \in s.enqueueSeq..(e - 1) : ~BurstStops(s, x)
      taken == [i \in 1..(end - s.enqueueSeq) |-> s.enqueueSeq + i - 1]
      ready == SelectSeq(taken, LAMBDA q : s.prepared[q] = "ready")
  IN  [s EXCEPT !.enqueueSeq = end,
                !.prepared = [q \in Seqs |-> IF q < end THEN "none" ELSE @[q]],
                !.pending = @ \o [i \in DOMAIN ready |-> CallOf(s, ready[i])]]

\* Mutant: calls that arrived during the burst get no marker.
BurstTakenNoMarker(s) ==
  IF s.enqueueSeq > s.burst THEN Then([s EXCEPT !.burst = NoSeq], ScheduleFlushNow)
  ELSE IF CapReached(s) THEN ScheduleFlushNow(s)
  ELSE s

\* The burst is complete, or at the cap, or waits for a prepare.
BurstTaken(s) ==
  IF s.enqueueSeq > s.burst
  THEN Then(Then([s EXCEPT !.burst = NoSeq], ScheduleFlushNow), SchedulePrepareFlush)
  ELSE IF CapReached(s) THEN ScheduleFlushNow(s)
  ELSE s

\* advance_burst
AdvanceBurst(s) ==
  IF s.burst = NoSeq THEN s ELSE Then(Then(s, TakeBurst), BurstTaken)

(***************************************************************************)
(* The prepare pool.                                                       *)
(***************************************************************************)
\* dispatch: the oldest waiting job goes to an idle worker.
Dispatch(p) ==
  IF p.waiting = <<>> \/ Cardinality(p.running) + p.dying >= PoolSize THEN p
  ELSE [p EXCEPT !.waiting = Tail(@), !.running = @ \cup {Head(p.waiting)}]

\* A worker finishes or dies; the owner gets one result.
PoolResult(q, ok) ==
  /\ q \in pool.running
  /\ ok \/ (failures < MaxFailures /\ FaultLeft)
  /\ failures' = failures + IF ok THEN 0 ELSE 1
  /\ pool' = Dispatch([pool EXCEPT !.running = @ \ {q}])
  /\ mailbox' = Append(mailbox, [type |-> "prepare_result", seq |-> q, ok |-> ok])
  /\ UNCHANGED <<w, armed, callerVars, timeouts, givenUp, crashes>>

\* The DOWN of a worker killed by abandon: it is replaced.
WorkerDown ==
  /\ pool.dying > 0
  /\ pool' = Dispatch([pool EXCEPT !.dying = @ - 1])
  /\ UNCHANGED <<w, mailbox, armed, callerVars, budgets>>

\* abandon: a waiting job is dropped, a running one's worker is killed.
AbandonJob(p, q) ==
  IF q \in p.running
  THEN [p EXCEPT !.running = @ \ {q}, !.dying = @ + 1]
  ELSE [p EXCEPT !.waiting = SelectSeq(@, LAMBDA x : x # q)]

(***************************************************************************)
(* Timers and commit results reach the Writer as messages.                 *)
(***************************************************************************)
PrepareTimer(q) ==
  /\ q \in armed
  /\ timeouts < MaxTimeouts /\ FaultLeft
  /\ timeouts' = timeouts + 1
  /\ armed' = armed \ {q}
  /\ mailbox' = Append(mailbox, [type |-> "prepare_timeout", seq |-> q])
  /\ UNCHANGED <<w, pool, callerVars, failures, givenUp, crashes>>

FlushTimer ==
  /\ w.timer
  /\ w' = [w EXCEPT !.timer = FALSE]
  /\ mailbox' = Append(mailbox, [type |-> "prepare_flush"])
  /\ UNCHANGED <<poolVars, callerVars, budgets>>

\* The result of an open batch, named by its first call; at most one each.
CommitterReports(i, ok) ==
  /\ i \in DOMAIN w.open
  /\ ~w.open[i].committed
  /\ \A m \in ToSet(mailbox) :
       m.type = "committer_result" => m.call # Head(w.open[i].calls)
  /\ ok \/ (failures < MaxFailures /\ FaultLeft)
  /\ failures' = failures + IF ok THEN 0 ELSE 1
  /\ mailbox' = Append(mailbox, [type |-> "committer_result",
                                 call |-> Head(w.open[i].calls), ok |-> ok])
  /\ UNCHANGED <<w, poolVars, callerVars, timeouts, givenUp, crashes>>

(***************************************************************************)
(* Callers: write_actions runs in the caller's process.                    *)
(***************************************************************************)
\* admit: take a slot, or be turned away.
Admit(c, n) ==
  /\ caller[c] = "idle"
  /\ size' = [size EXCEPT ![c] = n]
  /\ \/ /\ slots >= MaxPendingCalls
        /\ caller' = [caller EXCEPT ![c] = "returned"]
        /\ UNCHANGED <<slots, slot, mailbox>>
     \/ /\ slots < MaxPendingCalls
        /\ slots' = slots + 1
        /\ slot' = [slot EXCEPT ![c] = epoch]
        /\ caller' = [caller EXCEPT ![c] = "waiting"]
        /\ mailbox' = Append(mailbox, [type |-> "write_actions", call |-> c])
  /\ UNCHANGED <<w, poolVars, epoch, budgets>>

\* release: the slot goes back to the counter it was taken from.
Release(c) ==
  /\ slots' = IF slot[c] = epoch THEN slots - 1 ELSE slots
  /\ slot' = [slot EXCEPT ![c] = 0]
  /\ caller' = [caller EXCEPT ![c] = "returned"]

\* GenServer.call returns or exits.
CallReturns(c) ==
  /\ caller[c] = "down" \/ (caller[c] = "waiting" /\ w.replies[c] > 0)
  /\ Release(c)
  /\ UNCHANGED <<w, mailbox, poolVars, size, epoch, budgets>>

\* GenServer.call times out: the slot is free, the call is still with the Writer.
CallGivesUp(c) ==
  /\ caller[c] = "waiting"
  /\ w.replies[c] = 0
  /\ givenUp < MaxGivenUp /\ FaultLeft
  /\ givenUp' = givenUp + 1
  /\ Release(c)
  /\ UNCHANGED <<w, mailbox, poolVars, size, epoch, timeouts, failures, crashes>>

(***************************************************************************)
(* The Writer's handlers.                                                  *)
(***************************************************************************)
\* The handler is done: s is the new state, its messages join the mailbox.
Continue(s) ==
  \E t \in {s} :
    /\ w' = [t EXCEPT !.out = <<>>]
    /\ mailbox' = Tail(mailbox) \o t.out

\* Mutant: the limit counts the new call too late.
QueueFullLate(s) == Cardinality(s.preparing) + Cardinality(Prepared(s)) > QueueMax

\* prepare_queue_full?
QueueFull(s) == Cardinality(s.preparing) + Cardinality(Prepared(s)) >= QueueMax

\* inline_prepare?
InlinePrepare(s) ==
  /\ s.preparing = {}
  /\ Prepared(s) = {}
  /\ s.burst = NoSeq
  /\ s.pending = <<>>
  /\ s.open = <<>>

\* fail_prepare, fail_inline_prepare: the seq becomes a hole.
Fail(s, q) ==
  [Reply(s, {CallOf(s, q)}) EXCEPT !.prepared[q] = "skipped"]

HandleWriteActions(m) ==
  LET q == NextCallSeq(w)
      s == [w EXCEPT !.from = Append(@, m.call)]
  IN  /\ m.type = "write_actions"
      /\ \/ /\ QueueFull(w)
            /\ Continue(Reply(w, {m.call}))
            /\ UNCHANGED <<poolVars, failures>>
         \/ /\ ~QueueFull(w) /\ InlinePrepare(w)
            /\ \/ /\ Continue(SchedulePrepareFlush([s EXCEPT !.prepared[q] = "ready"]))
                  /\ UNCHANGED failures
               \/ /\ failures < MaxFailures /\ FaultLeft
                  /\ failures' = failures + 1
                  /\ Continue(SchedulePrepareFlush(Fail(s, q)))
            /\ UNCHANGED poolVars
         \/ /\ ~QueueFull(w) /\ ~InlinePrepare(w)
            /\ pool' = Dispatch([pool EXCEPT !.waiting = Append(@, q)])
            /\ armed' = armed \cup {q}
            /\ Continue(SchedulePrepareFlush([s EXCEPT !.preparing = @ \cup {q}]))
            /\ UNCHANGED failures
      /\ UNCHANGED timeouts

\* Mutant: a result that lost the race against its timeout is taken too.
HandlePrepareResultStale(m) ==
  LET s == [w EXCEPT !.preparing = @ \ {m.seq}]
  IN  /\ m.type = "prepare_result"
      /\ Continue(Then(IF m.ok THEN [s EXCEPT !.prepared[m.seq] = "ready"]
                            ELSE Fail(s, m.seq), AdvanceBurst))
      /\ armed' = armed \ {m.seq}
      /\ UNCHANGED <<pool, failures, timeouts>>

\* A result for a timed-out job is stale and ignored.
HandlePrepareResult(m) ==
  LET s == [w EXCEPT !.preparing = @ \ {m.seq}]
  IN  /\ m.type = "prepare_result"
      /\ Continue(IF m.seq \notin w.preparing THEN w
                  ELSE Then(IF m.ok THEN [s EXCEPT !.prepared[m.seq] = "ready"]
                            ELSE Fail(s, m.seq), AdvanceBurst))
      /\ armed' = IF m.seq \in w.preparing THEN armed \ {m.seq} ELSE armed
      /\ UNCHANGED <<pool, failures, timeouts>>

HandlePrepareTimeout(m) ==
  LET s == [w EXCEPT !.preparing = @ \ {m.seq}]
  IN  /\ m.type = "prepare_timeout"
      /\ IF m.seq \notin w.preparing
         THEN Continue(w) /\ UNCHANGED pool
         ELSE /\ Continue(Then(Fail(s, m.seq), AdvanceBurst))
              /\ pool' = AbandonJob(pool, m.seq)
      /\ UNCHANGED <<armed, failures, timeouts>>

\* The burst is the snapshot of the calls that arrived before the marker.
HandlePrepareFlush(m) ==
  LET s == [w EXCEPT !.marked = FALSE, !.timer = FALSE]
  IN  /\ m.type = "prepare_flush"
      /\ Continue(IF s.burst # NoSeq \/ NextCallSeq(s) = 0 THEN s
                  ELSE Then([s EXCEPT !.burst = NextCallSeq(s) - 1], AdvanceBurst))
      /\ UNCHANGED <<poolVars, failures, timeouts>>

HandleFlush(m) ==
  LET s == [w EXCEPT !.flushing = FALSE]
  IN  /\ m.type = "flush"
      /\ Continue(IF AtCapacity(s) THEN s ELSE Flush(s))
      /\ UNCHANGED <<poolVars, failures, timeouts>>

\* drain_releasable: the committed prefix is answered and released.
Drain(s) ==
  LET k == CHOOSE n \in 0..Len(s.open) :
             /\ \A i \in 1..n : s.open[i].committed
             /\ n < Len(s.open) => ~s.open[n + 1].committed
  IN  [Reply(s, UNION {ToSet(s.open[i].calls) : i \in 1..k})
         EXCEPT !.open = SubSeq(@, k + 1, Len(@))]

\* advance_pipeline
AdvancePipeline(s) ==
  LET flush(t) == IF t.burst = NoSeq THEN ScheduleFlushNow(t) ELSE t
  IN  Then(Then(Then(Then(s, Drain), AdvanceBurst), flush), SchedulePrepareFlush)

HandleCommitterResult(m) ==
  LET i == CHOOSE j \in DOMAIN w.open : Head(w.open[j].calls) = m.call
  IN  /\ m.type = "committer_result"
      /\ Continue(Then(
           IF m.ok THEN [w EXCEPT !.open[i].committed = TRUE]
           ELSE [Reply(w, ToSet(w.open[i].calls)) EXCEPT !.open = RemoveAt(@, i)],
           AdvancePipeline))
      /\ UNCHANGED <<poolVars, failures, timeouts>>

Handle(m) ==
  \/ HandleWriteActions(m)
  \/ HandlePrepareResult(m)
  \/ HandlePrepareTimeout(m)
  \/ HandlePrepareFlush(m)
  \/ HandleFlush(m)
  \/ HandleCommitterResult(m)

HandleHead ==
  /\ mailbox # <<>>
  /\ Handle(Head(mailbox))
  /\ UNCHANGED <<callerVars, givenUp, crashes>>

\* The Writer dies, with its mailbox, its pools and its timers; its callers
\* exit.  init/1 of the next one creates a new admission counter.
WriterCrash ==
  /\ crashes < MaxCrashes /\ FaultLeft
  /\ crashes' = crashes + 1
  /\ w' = NewWriter(w.replies)
  /\ mailbox' = <<>>
  /\ pool' = NewPool
  /\ armed' = {}
  /\ caller' = [c \in Calls |-> IF caller[c] = "waiting" /\ w.replies[c] = 0
                                THEN "down" ELSE caller[c]]
  /\ slots' = 0
  /\ epoch' = epoch + 1
  /\ UNCHANGED <<size, slot, timeouts, failures, givenUp>>

-----------------------------------------------------------------------------
Init ==
  /\ w = NewWriter([c \in Calls |-> 0])
  /\ mailbox = <<>>
  /\ pool = NewPool
  /\ armed = {}
  /\ caller = [c \in Calls |-> "idle"]
  /\ size = [c \in Calls |-> 0]
  /\ slots = 0
  /\ epoch = 1
  /\ slot = [c \in Calls |-> 0]
  /\ timeouts = 0
  /\ failures = 0
  /\ givenUp = 0
  /\ crashes = 0

PoolStep == WorkerDown \/ \E q \in Seqs, ok \in BOOLEAN : PoolResult(q, ok)

CommitStep == \E i \in 1..MaxInFlight, ok \in BOOLEAN : CommitterReports(i, ok)

Next ==
  \/ \E c \in Calls, n \in 1..MaxSize : Admit(c, n)
  \/ \E c \in Calls : CallReturns(c) \/ CallGivesUp(c)
  \/ HandleHead
  \/ \E q \in Seqs : PrepareTimer(q)
  \/ PoolStep
  \/ FlushTimer
  \/ CommitStep
  \/ WriterCrash

Spec == Init /\ [][Next]_vars

(***************************************************************************)
(* Fairness: the Writer handles its mailbox, workers finish or die and     *)
(* killed ones are replaced, the flush timer fires, and the watchdog       *)
(* guarantees each open batch a result.  Prepare timers need not fire.     *)
(***************************************************************************)
Fairness ==
  /\ WF_vars(HandleHead)
  /\ WF_vars(PoolStep)
  /\ WF_vars(FlushTimer)
  /\ WF_vars(CommitStep)

FairSpec == Spec /\ Fairness
-----------------------------------------------------------------------------
\* Type invariant.
TypeOK ==
  /\ w.from \in Seq(Calls) /\ Len(w.from) <= Cardinality(Calls)
  /\ w.enqueueSeq \in 0..Cardinality(Calls)
  /\ w.burst \in Seqs \cup {NoSeq}
  /\ w.preparing \subseteq Seqs
  /\ w.prepared \in [Seqs -> {"none", "ready", "skipped"}]
  /\ w.pending \in Seq(Calls)
  /\ w.open \in Seq([calls : Seq(Calls), committed : BOOLEAN])
  /\ {w.marked, w.timer, w.flushing} \subseteq BOOLEAN
  /\ w.out = <<>>
  /\ w.replies \in [Calls -> Nat]
  /\ pool.waiting \in Seq(Seqs) /\ pool.running \subseteq Seqs
  /\ pool.dying \in 0..PoolSize
  /\ armed \subseteq Seqs
  /\ caller \in [Calls -> {"idle", "waiting", "down", "returned"}]
  /\ size \in [Calls -> 0..MaxSize]
  /\ slots \in 0..MaxPendingCalls
  /\ epoch \in Nat
  /\ slot \in [Calls -> Nat]
  /\ {timeouts, failures, givenUp, crashes} \subseteq Nat

ArrivalOf(c) == CHOOSE q \in Seqs : q < NextCallSeq(w) /\ CallOf(w, q) = c

\* The pipeline receives calls in the order the Writer accepted them, however
\* the prepare pool reorders, fails or times out the work.
ClaimedInArrivalOrder ==
  LET queue == FlattenSeq([i \in DOMAIN w.open |-> w.open[i].calls]) \o w.pending
  IN  /\ \A i, j \in DOMAIN queue : i < j => ArrivalOf(queue[i]) < ArrivalOf(queue[j])
      /\ \A i \in DOMAIN queue : ArrivalOf(queue[i]) < w.enqueueSeq
      /\ \A q \in Prepared(w) \cup w.preparing : q >= w.enqueueSeq

\* No call gets two replies: a prepare result races its timeout, and a flush
\* races a commit result, but only one of them answers.
AnsweredOnce == \A c \in Calls : w.replies[c] <= 1

\* What the Writer buffers stays within its limits: the prepare queue within
\* queue_max, and the pending burst within one call of the batch cap.
BuffersBounded ==
  /\ Cardinality(w.preparing) + Cardinality(Prepared(w)) <= QueueMax
  /\ BatchMaxSize > 0 => PendingCount(w) < BatchMaxSize + MaxSize
  /\ Len(w.open) <= MaxInFlight

\* The admission counter equals the calls that hold a slot of it, across
\* crashes, give-ups and late returns: it never underflows its unsigned word,
\* which would turn every later call away.
AdmissionBalanced == slots = Cardinality({c \in Calls : slot[c] = epoch})

\* Limits: buffers and admission stay within theirs while calls pile up, give
\* up and return late.
LimitsHold == BuffersBounded /\ AdmissionBalanced

\* Every admitted call is answered, or its Writer died.
EveryCallAnswered ==
  \A c \in Calls : caller[c] = "waiting" ~> (w.replies[c] > 0 \/ caller[c] # "waiting")
=============================================================================

---------------------------- MODULE FunctionSession ----------------------------
(***************************************************************************)
(* One pooled runner process and the host that drives it: the session,     *)
(* transport and invocation of packages/runner, the commit of              *)
(* packages/functions-runtime, and the invocation loop of                  *)
(* ebb_server/functions/invocation.ex at the other end of the socket.      *)
(*                                                                         *)
(* The socket is two FIFO queues of frames.  A handler is code: it writes, *)
(* calls the host without waiting for the answer or with, commits, returns *)
(* or throws, in any order.  Promise callbacks run before the next frame   *)
(* is read, so settling and finishing an invocation is one step.           *)
(***************************************************************************)
EXTENDS Integers, Sequences, FiniteSets, SequencesExt

CONSTANTS Invocations,      \* invocation ids: an id names its Action
          MaxHostCalls,     \* limits.max_host_calls, at both ends
          MaxInFlight,      \* host calls the invocation loop runs at once
          MaxRetries,       \* invocations the callers repeat under the same id
          MaxBad            \* frames the host's end garbles

None == "none"

ASSUME LimitsAssumption == /\ {MaxHostCalls, MaxInFlight} \subseteq Nat \ {0}
                           /\ {MaxRetries, MaxBad} \subseteq Nat
                           /\ None \notin Invocations

VARIABLES
  run,        \* the runner process
  toRunner, toHost,
  loop,       \* the host's invocation loop
  outcome,    \* invocation -> what its caller was told last
  durable,    \* invocation -> times its Action was applied
  retries, bad,
  results,    \* history: result frames of this attempt
  wrote,      \* history: attempts whose handler buffered a write
  loose,      \* history: attempts whose handler has a commit of its own unanswered
  foreign     \* history: a reply settled a call of another invocation

fsVars == <<run, toRunner, toHost, loop, outcome, durable, retries, bad, results, wrote, loose,
            foreign>>

\* A session before its first frame, and one invocation's transport and surface.
FreshRun ==
  [ready |-> FALSE, fatal |-> FALSE, current |-> None, settled |-> FALSE, phase |-> "idle",
   buffered |-> FALSE, sealed |-> FALSE, calls |-> 0, pending |-> {}]

IdleLoop == [inv |-> None, calls |-> 0, inFlight |-> {}, queue |-> <<>>]

Init ==
  /\ run = FreshRun /\ toRunner = <<>> /\ toHost = <<>> /\ loop = IdleLoop
  /\ outcome = [i \in Invocations |-> None]
  /\ durable = [i \in Invocations |-> 0]
  /\ retries = 0 /\ bad = 0 /\ results = 0
  /\ wrote = {} /\ loose = {} /\ foreign = FALSE

Frame(type, id, op, ok, inv) == [type |-> type, id |-> id, op |-> op, ok |-> ok, inv |-> inv]

-----------------------------------------------------------------------------
(* session.ts                                                               *)

Halted == run.fatal

\* Sent unless the session has halted.
Sent(frames) == toHost' = IF Halted THEN toHost ELSE toHost \o frames

Opened ==
  /\ ~run.ready /\ ~Halted
  /\ run' = [run EXCEPT !.ready = TRUE]
  /\ Sent(<<Frame("ready", 0, None, TRUE, None)>>)
  /\ UNCHANGED <<toRunner, loop, outcome, durable, retries, bad, results, wrote, loose, foreign>>

\* outcomeOf and finish: one result unless one was written, then the transport
\* is closed, which rejects what is still pending.
MayWriteResult == ~Halted /\ ~run.settled
Settle(ok) ==
  /\ Sent(IF MayWriteResult THEN <<Frame("result", 0, None, ok, run.current)>> ELSE <<>>)
  /\ results' = results + (IF MayWriteResult THEN 1 ELSE 0)
  /\ run' = [run EXCEPT !.current = None, !.settled = TRUE, !.phase = "idle", !.pending = {}]

\* Mutant: the invocation is not marked as settled.
FailUnmarked ==
  /\ IF run.current # None /\ ~run.settled
     THEN Sent(<<Frame("result", 0, None, FALSE, run.current)>>) /\ results' = results + 1
     ELSE UNCHANGED <<toHost, results>>
  /\ run' = [run EXCEPT !.pending = {}]

\* fail: an error result for the invocation the host waits on, then the end.
Fail ==
  /\ IF run.current # None /\ ~run.settled
     THEN Sent(<<Frame("result", 0, None, FALSE, run.current)>>) /\ results' = results + 1
     ELSE UNCHANGED <<toHost, results>>
  /\ run' = [run EXCEPT !.fatal = TRUE, !.settled = TRUE, !.pending = {}]

\* invoke: a fresh transport, call ids from one again, a fresh write surface.
Invoke(frame) ==
  IF run.current # None THEN Fail
  ELSE /\ run' = [run EXCEPT !.current = frame.inv, !.settled = FALSE, !.phase = "handler",
                             !.buffered = FALSE, !.sealed = FALSE, !.calls = 0, !.pending = {}]
       /\ UNCHANGED <<toHost, results>>

\* handleReply: the call it answers, if it is pending.  The runner's own commit
\* is the one call the invocation ends with.
HandleReply(frame) ==
  LET mine == {c \in run.pending : c.id = frame.id}
  IN  /\ foreign' = (foreign \/ (mine # {} /\ frame.inv # run.current))
      /\ loose' = IF mine # {} /\ frame.op = "commit" THEN loose \ {run.current} ELSE loose
      /\ IF \E c \in mine : c.last THEN Settle(frame.ok)
         ELSE /\ run' = [run EXCEPT !.pending = @ \ mine]
              /\ UNCHANGED <<toHost, results>>

\* receive and dispatch, frame by frame.  An unknown type is ignored; what does
\* not decode is a protocol error.
Receive ==
  /\ toRunner # <<>>
  /\ toRunner' = Tail(toRunner)
  /\ LET frame == Head(toRunner)
     IN  CASE Halted \/ frame.type = "unknown" -> UNCHANGED <<run, toHost, results, foreign, loose>>
           [] ~Halted /\ frame.type = "garbled" -> Fail /\ UNCHANGED <<foreign, loose>>
           [] ~Halted /\ frame.type = "invoke"  -> Invoke(frame) /\ UNCHANGED <<foreign, loose>>
           [] ~Halted /\ frame.type = "reply"   -> HandleReply(frame)
  /\ UNCHANGED <<loop, outcome, durable, retries, bad, wrote>>

-----------------------------------------------------------------------------
(* The handler (runInvocation), on its context.                             *)

Handling == run.phase = "handler"
Same == UNCHANGED <<toRunner, loop, outcome, durable, retries, bad, foreign>>

\* ctx.create, update, delete, relate: refused once the surface is sealed.
HandlerWrites ==
  /\ Handling /\ ~run.sealed /\ ~run.buffered
  /\ run' = [run EXCEPT !.buffered = TRUE]
  /\ wrote' = wrote \union {run.current}
  /\ Same /\ UNCHANGED <<toHost, results, loose>>

\* guardTransport and SocketHostTransport.call: the budget first, then a fresh id.
\* A frame too large for the codec spends an id and is not sent.
CallRefused(large) == run.calls >= MaxHostCalls \/ large
Called(op, last, large) ==
  IF CallRefused(large) THEN [run EXCEPT !.calls = IF run.calls >= MaxHostCalls THEN @ ELSE @ + 1]
  ELSE [run EXCEPT !.calls = @ + 1, !.pending = @ \union {[id |-> run.calls + 1, last |-> last]}]
CallFrames(op, large) ==
  IF CallRefused(large) THEN <<>> ELSE <<Frame("call", run.calls + 1, op, TRUE, run.current)>>

\* ctx.get.  The handler may wait for it or not; a budget refusal is its to catch.
HandlerGets ==
  /\ Handling
  /\ run' = Called("get", FALSE, FALSE)
  /\ Sent(CallFrames("get", FALSE))
  /\ Same /\ UNCHANGED <<results, wrote, loose>>

\* commit seals the surface and empties the buffer before the call goes out.
Sealed(r) == [r EXCEPT !.sealed = TRUE, !.buffered = FALSE]

\* The handler's own ctx.commit().  It may drop the promise, and with it a refusal.
HandlerCommits(large) ==
  /\ Handling /\ run.buffered
  /\ run' = Sealed(Called("commit", FALSE, large))
  /\ Sent(CallFrames("commit", large))
  /\ loose' = loose \union {run.current}
  /\ Same /\ UNCHANGED <<results, wrote>>

\* The handler returns: pending writes are flushed as one Action, then the
\* result is written.  big: the value does not fit the result frame.
HandlerReturns(large, big) ==
  /\ Handling
  /\ IF ~run.buffered THEN Settle(~big)
     ELSE IF CallRefused(large) THEN Settle(FALSE)
     ELSE /\ run' = [Sealed(Called("commit", TRUE, large)) EXCEPT !.phase = "commit"]
          /\ Sent(CallFrames("commit", large))
          /\ UNCHANGED results
  /\ Same /\ UNCHANGED <<wrote, loose>>

HandlerThrows ==
  /\ Handling
  /\ Settle(FALSE)
  /\ Same /\ UNCHANGED <<wrote, loose>>

-----------------------------------------------------------------------------
(* invocation.ex: the host's loop, one invocation at a time on this worker. *)

\* finish: host calls still running are killed.  A successful result returns
\* the worker to the pool; any other closes it, and the pool starts another.
Finish(ok) ==
  /\ outcome' = [outcome EXCEPT ![loop.inv] = IF ok THEN "ok" ELSE "error"]
  /\ loop' = IdleLoop
  /\ IF ok THEN UNCHANGED <<run, toRunner>> /\ toHost' = Tail(toHost)
     ELSE run' = FreshRun /\ toRunner' = <<>> /\ toHost' = <<>>

HostInvokes(i) ==
  /\ loop.inv = None
  /\ \/ outcome[i] = None /\ UNCHANGED retries
     \/ outcome[i] = "error" /\ retries < MaxRetries /\ retries' = retries + 1
  /\ loop' = [loop EXCEPT !.inv = i]
  /\ outcome' = [outcome EXCEPT ![i] = None]
  /\ toRunner' = Append(toRunner, Frame("invoke", 0, None, TRUE, i))
  /\ results' = 0 /\ wrote' = wrote \ {i} /\ loose' = loose \ {i}
  /\ UNCHANGED <<run, toHost, durable, bad, foreign>>

Started(l, call) ==
  [l EXCEPT !.inFlight = @ \union {[id |-> call.id, op |-> call.op, inv |-> call.inv, done |-> FALSE]}]

\* dispatch_or_queue
Dispatched(call) ==
  LET l == [loop EXCEPT !.calls = @ + 1]
  IN  IF Cardinality(l.inFlight) < MaxInFlight THEN Started(l, call)
      ELSE [l EXCEPT !.queue = Append(@, call)]

\* fill_slots
Filled(l) ==
  IF Cardinality(l.inFlight) < MaxInFlight /\ l.queue # <<>>
  THEN Started([l EXCEPT !.queue = Tail(@)], Head(l.queue)) ELSE l

HostReads ==
  /\ loop.inv # None /\ toHost # <<>>
  /\ LET frame == Head(toHost)
     IN  CASE frame.type = "ready" ->
                /\ toHost' = Tail(toHost)
                /\ UNCHANGED <<run, toRunner, loop, outcome>>
           [] frame.type = "call" /\ loop.calls >= MaxHostCalls -> Finish(FALSE)
           [] frame.type = "call" /\ loop.calls < MaxHostCalls ->
                /\ toHost' = Tail(toHost)
                /\ loop' = Dispatched(frame)
                /\ UNCHANGED <<run, toRunner, outcome>>
           [] frame.type = "result" -> Finish(frame.ok)
  /\ UNCHANGED <<durable, retries, bad, results, wrote, loose, foreign>>

\* A commit takes effect in its own process, before the loop hears of it.  The
\* Action id is derived from the invocation's, so a second copy is a replay.
CommitApplies(i) == durable[i] = 0
HostCommits(c) ==
  /\ c \in loop.inFlight /\ c.op = "commit" /\ ~c.done
  /\ loop' = [loop EXCEPT !.inFlight = (@ \ {c}) \union {[c EXCEPT !.done = TRUE]}]
  /\ durable' = [durable EXCEPT ![loop.inv] = @ + (IF CommitApplies(loop.inv) THEN 1 ELSE 0)]
  /\ UNCHANGED <<run, toRunner, toHost, outcome, retries, bad, results, wrote, loose, foreign>>

\* handle_host_result: a value is replied and the next call started; an error
\* ends the invocation.
HostReplies(c) ==
  /\ c \in loop.inFlight /\ (c.op = "commit" => c.done)
  /\ toRunner' = Append(toRunner, Frame("reply", c.id, c.op, TRUE, c.inv))
  /\ loop' = Filled([loop EXCEPT !.inFlight = @ \ {c}])
  /\ UNCHANGED <<run, toHost, outcome, durable, retries, bad, results, wrote, loose, foreign>>

HostCallFails(c) ==
  /\ c \in loop.inFlight
  /\ Finish(FALSE)
  /\ UNCHANGED <<durable, retries, bad, results, wrote, loose, foreign>>

\* The deadline, or a worker found dead.
Deadline ==
  /\ loop.inv # None
  /\ Finish(FALSE)
  /\ UNCHANGED <<durable, retries, bad, results, wrote, loose, foreign>>

\* A frame this protocol version does not know, or one that does not decode.
HostGarbles(type) ==
  /\ bad < MaxBad
  /\ bad' = bad + 1
  /\ toRunner' = Append(toRunner, Frame(type, 0, None, TRUE, None))
  /\ UNCHANGED <<run, toHost, loop, outcome, durable, retries, results, wrote, loose, foreign>>

Next ==
  \/ Opened \/ Receive
  \/ HandlerWrites \/ HandlerGets \/ HandlerThrows
  \/ \E large \in BOOLEAN : HandlerCommits(large)
  \/ \E large, big \in BOOLEAN : HandlerReturns(large, big)
  \/ \E i \in Invocations : HostInvokes(i)
  \/ \E c \in loop.inFlight : HostCommits(c) \/ HostReplies(c) \/ HostCallFails(c)
  \/ HostReads \/ Deadline
  \/ \E type \in {"unknown", "garbled"} : HostGarbles(type)

Spec == Init /\ [][Next]_fsVars

-----------------------------------------------------------------------------
\* One invocation is answered by one result frame, whether its handler settles
\* it, a protocol error does, or one follows the other.
OneResult == results <= 1

\* A reply settles a call of the invocation it answers, though call ids start
\* over with every invocation and a call may outlive the one that made it.
RepliesStayHome == ~foreign

\* A runner is only given an invocation while it has none: as long as the host's
\* frames decode, no session ends in a protocol error.
NeverFatal == run.fatal => bad > 0

\* A caller that was told ok has its writes, and once, however often it retried
\* under the same id - provided the handler waited for a commit of its own.
OkMeansCommitted ==
  \A i \in Invocations :
    /\ durable[i] <= 1
    /\ outcome[i] = "ok" /\ i \in wrote \ loose => durable[i] = 1

\* What a runner's session promises its host and the caller.
SessionHolds == OneResult /\ RepliesStayHome /\ NeverFatal /\ OkMeansCommitted

\* The same for every handler.
OkAlwaysCommitted ==
  \A i \in Invocations : outcome[i] = "ok" /\ i \in wrote => durable[i] = 1

-----------------------------------------------------------------------------
(* The inductive invariant behind SessionHolds *)

FrameOf(types) == [type : types, id : Nat, op : {None, "get", "commit"}, ok : BOOLEAN,
                   inv : Invocations \union {None}]
RunnerFrame == FrameOf({"ready", "call", "result"})
HostFrame == FrameOf({"invoke", "reply", "unknown", "garbled"})

RunType ==
  [ready : BOOLEAN, fatal : BOOLEAN, current : Invocations \union {None}, settled : BOOLEAN,
   phase : {"idle", "handler", "commit"}, buffered : BOOLEAN, sealed : BOOLEAN, calls : Nat,
   pending : SUBSET [id : Nat, last : BOOLEAN]]

HostCallType ==
  [id : Nat, op : {None, "get", "commit"}, inv : Invocations \union {None}, done : BOOLEAN]
LoopType ==
  [inv : Invocations \union {None}, calls : Nat, inFlight : SUBSET HostCallType,
   queue : Seq(RunnerFrame)]

FsTypeOK ==
  /\ run \in RunType /\ loop \in LoopType
  /\ toRunner \in Seq(HostFrame) /\ toHost \in Seq(RunnerFrame)
  /\ outcome \in [Invocations -> {None, "ok", "error"}]
  /\ durable \in [Invocations -> 0..1]
  /\ retries \in Nat /\ bad \in Nat /\ results \in 0..1
  /\ wrote \in SUBSET Invocations /\ loose \in SUBSET Invocations /\ foreign \in BOOLEAN

FramesIn(s) == {s[p] : p \in DOMAIN s}
FollowedBy(s, t, types) == \A p, q \in DOMAIN s : s[p].type = t /\ p < q => s[q].type \in types

\* Nothing of an invocation is on its way to the host or at work there.
HostQuiet ==
  /\ loop.inFlight = {} /\ loop.queue = <<>>
  /\ \A x \in FramesIn(toHost) : x.type = "ready"

\* Between two invocations the runner has none; the one it has is the host's, it is
\* unanswered, and so is its caller.
OneAtATime ==
  /\ loop.inv = None => HostQuiet
  /\ run.current # None =>
       /\ run.current = loop.inv /\ outcome[loop.inv] = None
       /\ ~run.fatal => ~run.settled /\ results = 0
  /\ run.current = None => run.phase = "idle" /\ run.pending = {}

\* An invocation on its way to the runner finds it free; behind it there is only noise,
\* so the replies of the one before are read before it.
InvokeFindsRunnerFree ==
  /\ FollowedBy(toRunner, "invoke", {"unknown", "garbled"})
  /\ \A x \in FramesIn(toRunner) : x.type = "invoke" =>
       /\ loop.inv # None /\ x.inv = loop.inv /\ outcome[loop.inv] = None
       /\ run.current = None /\ HostQuiet /\ results = 0 /\ loop.inv \notin wrote

\* A result is the last that the host hears of an invocation, and a good one is sent
\* when the writes are durable or the handler did not wait for its own commit.
ResultIsLast ==
  /\ FollowedBy(toHost, "result", {"ready"})
  /\ \A x \in FramesIn(toHost) : x.type = "result" =>
       /\ run.current = None \/ (run.fatal /\ ~x.ok)
       /\ x.ok /\ loop.inv \in wrote \ loose => durable[loop.inv] = 1

\* The call x was made by the runner's invocation, and if the invocation ends with the
\* reply to it, it is a commit.
IsCall(x) ==
  /\ x.id <= run.calls
  /\ \A c \in run.pending : c.last /\ c.id = x.id => x.op = "commit"

CallsAreTheLoops ==
  /\ \A x \in {y \in FramesIn(toHost) : y.type = "call"} \union FramesIn(loop.queue)
             \union loop.inFlight :
       x.inv = loop.inv /\ IsCall(x)
  /\ \A c \in run.pending : c.id <= run.calls

\* A reply comes after what it reports and answers the runner's invocation, if it has
\* one; and what does not decode was garbled.
RepliesAreTrue ==
  /\ \A c \in loop.inFlight : c.done => durable[loop.inv] = 1
  /\ \A x \in FramesIn(toRunner) : x.type = "reply" =>
       /\ x.ok /\ x.inv \in Invocations
       /\ x.op = "commit" => durable[x.inv] = 1
       /\ run.current # None => x.inv = run.current /\ IsCall(x)
  /\ \A x \in FramesIn(toRunner) : x.type = "garbled" => bad > 0

\* Once a handler wrote, the write is buffered or a commit took it.
WritesAreHeld ==
  run.current # None =>
    /\ run.current \in wrote => run.buffered \/ run.sealed
    /\ run.buffered => ~run.sealed
    /\ run.phase = "handler" /\ run.sealed /\ run.current \notin loose => durable[run.current] = 1

SessionInv ==
  /\ FsTypeOK /\ OneAtATime /\ InvokeFindsRunnerFree /\ ResultIsLast /\ CallsAreTheLoops
  /\ RepliesAreTrue /\ WritesAreHeld /\ RepliesStayHome /\ NeverFatal /\ OkMeansCommitted
=============================================================================

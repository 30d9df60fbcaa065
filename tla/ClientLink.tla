----------------------------- MODULE ClientLink -----------------------------
(***************************************************************************)
(* The sync session and the flush scheduler of one client, joined at the   *)
(* gate: the loop's hold() and release() are the scheduler's, so what      *)
(* reopens the gate is the session itself and nothing is assumed of it.    *)
(* A reload takes every waiter with it and is left to ClientSession.       *)
(***************************************************************************)
EXTENDS ClientSession

CONSTANTS
  Callers, MaxAttempt,   \* of FlushScheduler
  MaxEvents              \* bound: sessions begun, writes, commits, joins and faults, together

VARIABLES stopped, timer, armed, flight, waiters, tries, unreachable, pending, result

Flush == INSTANCE FlushScheduler WITH ready <- gate, attempt <- tries

\* The waiter that release() adds is nobody's write.
ASSUME LinkAssumption == Flush!Gate \notin Callers

flushVars == <<stopped, timer, armed, flight, waiters, tries, unreachable, pending, result>>
linkVars == <<vars, flushVars>>

LinkInit == Init /\ Flush!Init

\* What a step of the session does to the scheduler: hold() and release() act on
\* a change of the gate only, and on nothing once the client is closed.
Gated ==
  \/ gate' = gate /\ UNCHANGED flushVars
  \/ gate /\ ~gate' /\ Flush!Hold
  \/ ~gate /\ gate' /\ Flush!Release

\* close: the timers stop, then the session ends; no release() has an effect.
Close ==
  /\ Flush!Stop
  /\ sub' = [s \in Subs |-> IF s = active THEN Cancelled(sub[s]) ELSE sub[s]]
  /\ active' = None /\ Transition("offline")
  /\ UNCHANGED <<attempt, cursors, server, drops, reloads, escaped>>

LinkedLoopStep(s) == LoopStep(s) /\ Gated

Events == Turns + Cardinality({c \in Callers : result[c] # "new"})
May(A) == Events < MaxEvents /\ A

\* Calls of one kind are interchangeable: the next one takes the first unused name.
NextSub == CHOOSE s \in Subs : sub[s].phase = "new"
NextCaller == CHOOSE c \in Callers : result[c] = "new"

SessionCall(s) ==
  /\ ~stopped
  /\ \/ May((Greet(s) /\ s = NextSub) \/ CatchUpFails(s) \/ StreamBreaks(s))
     \/ Subscribe(s) \/ Unsubscribe(s)
  /\ Gated

Server ==
  /\ Resolve \/ May((\E g \in Groups : Commit(g)) \/ JoinGroup)
  /\ UNCHANGED flushVars

FlushStep(A) == A /\ UNCHANGED vars
FlushCall(c) == May(Flush!Enqueue(c) /\ c = NextCaller) \/ Flush!Schedule(c) \/ Flush!FlushNow(c)
FlushSettles == Flush!Accepted \/ Flush!Unreachable \/ Flush!Rejected
FlushRuns == Flush!TimerFires \/ Flush!Submit \/ FlushSettles

LinkNext ==
  \/ \E s \in Subs : LinkedLoopStep(s) \/ SessionCall(s)
  \/ Server
  \/ \E c \in Callers : FlushStep(FlushCall(c))
  \/ FlushStep(Flush!TimerFires) \/ FlushStep(Flush!Submit) \/ FlushStep(FlushSettles)
  \/ Close

\* Requests are answered, timers fire and the event loop runs.
LinkSpec ==
  /\ LinkInit /\ [][LinkNext]_linkVars
  /\ \A s \in Subs : WF_linkVars(LinkedLoopStep(s))
  /\ WF_linkVars(FlushStep(FlushRuns))

-----------------------------------------------------------------------------
(* Properties *)

\* A held gate reopens unless the client is closed, whatever fails or is taken over;
\* and a write that waits for a flush is told an outcome, even when the
\* gate closes over its timer, a flight is under way, or the client is closed.
NothingWaitsForEver ==
  /\ ~gate ~> gate \/ stopped
  /\ Flush!EveryWaiterSettles

\* One timer at most, none while the gate is held; the gate is held, and no timer runs,
\* while the current subscription catches up; and a write is reported as accepted only
\* when the flush carried it.
FlushIsTruthful == Flush!OneTimer /\ Flush!AcceptedWasCarried /\ RebaseHoldsGate

-----------------------------------------------------------------------------
(* The inductive invariant behind FlushIsTruthful *)

Waiters == Callers \cup {Flush!Gate}
Answers == {"new", "buffered", "waiting", "shared", "accepted", "unreachable", "rejected"}

\* The values that the scheduler's fields take.
FlushTypeOK ==
  /\ armed \in Nat /\ timer \in {"none", "debounce", "retry"}
  /\ flight \in [phase : {"none", "loading", "submitted"},
                 batch : SUBSET Waiters, entries : SUBSET Callers]
  /\ waiters \in SUBSET Waiters /\ pending \in SUBSET Callers
  /\ result \in [Callers -> Answers]

\* A caller is in one list at most, and only while it waits for its answer.
WaitsInOneList ==
  /\ \A c \in Callers : c \in waiters \cup flight.batch => result[c] = "waiting"
  /\ \A c \in Callers : ~(c \in waiters /\ c \in flight.batch)
  /\ flight.phase = "none" => flight.batch = {}

\* A flight that was submitted carries what its callers still have pending.
FlightCarriesBatch ==
  flight.phase = "submitted" =>
    \A c \in Callers : c \in flight.batch /\ c \in pending => c \in flight.entries

FlushTold == Flush!OneTimer /\ Flush!AcceptedWasCarried
FlushInv == FlushTypeOK /\ FlushTold /\ WaitsInOneList /\ FlightCarriesBatch

\* One loop at most is neither over, nor cancelled, nor yet to start: the current one.
LoopInv ==
  /\ DOMAIN sub = Subs /\ active \in Subs \cup {None}
  /\ \A s \in Subs : {"phase", "cancelled"} \subseteq DOMAIN sub[s]
  /\ \A s \in Subs \ {active} : sub[s].cancelled \/ sub[s].phase \in {"new", "greeting", "ended"}
  /\ RebaseHoldsGate

LinkInv == FlushInv /\ LoopInv
=============================================================================

-------------------------- MODULE ClientLinkProofs --------------------------
(***************************************************************************)
(* The flush scheduler under its session tells the truth, for any number   *)
(* of callers, subscriptions, groups and commits.                          *)
(*                                                                         *)
(* FlushIsTruthful is not inductive: that an accepted write has left the   *)
(* outbox rests on the flight having taken it (FlightCarriesBatch), and    *)
(* that on a caller being in one list, and waiting, until it is answered   *)
(* (WaitsInOneList).                                                       *)
(***************************************************************************)
EXTENDS ClientLink, TLAPS

\* A new client has no timer, no flight and nobody waiting.
LEMMA FlushStarts == LinkInit => FlushInv
BY DEF LinkInit, Init, Flush!Init, FlushInv, FlushTypeOK, FlushTold, WaitsInOneList,
       FlightCarriesBatch, Waiters, Answers, Flush!NoFlight, Flush!OneTimer,
       Flush!AcceptedWasCarried, Flush!Flying

\* A step that leaves the scheduler and the gate alone keeps the invariant.
LEMMA FlushStutters == FlushInv /\ UNCHANGED flushVars /\ gate' = gate => FlushInv'
BY DEF flushVars, FlushInv, FlushTypeOK, FlushTold, WaitsInOneList,
       FlightCarriesBatch, Flush!OneTimer, Flush!AcceptedWasCarried, Flush!Flying

\* write: the caller's entry is buffered.
LEMMA EnqueueKeeps ==
  ASSUME NEW c \in Callers, FlushInv, Flush!Enqueue(c)
  PROVE  FlushInv'
<1>1. FlushTypeOK'
  BY DEF FlushInv, FlushTypeOK, Flush!Enqueue, Answers
<1>2. FlushTold'
  BY DEF FlushInv, FlushTypeOK, FlushTold, Flush!OneTimer, Flush!AcceptedWasCarried,
         Flush!Flying, Flush!Enqueue
<1>3. WaitsInOneList' /\ FlightCarriesBatch'
  BY DEF FlushInv, FlushTypeOK, WaitsInOneList, FlightCarriesBatch, Flush!Enqueue
<1> QED BY <1>1, <1>2, <1>3 DEF FlushInv

\* schedule(): a caller joins the waiters, or is told at once.
LEMMA ScheduleKeeps ==
  ASSUME NEW c \in Callers, FlushInv, Flush!Schedule(c)
  PROVE  FlushInv'
<1>1. FlushTypeOK'
  BY DEF FlushInv, FlushTypeOK, Flush!Schedule, Flush!Tell, Flush!Arm, Flush!KeepTimer, Answers,
         Waiters
<1>2. FlushTold'
  BY DEF FlushInv, FlushTypeOK, FlushTold, Flush!OneTimer, Flush!AcceptedWasCarried,
         Flush!Flying, Flush!Schedule, Flush!Tell, Flush!Arm, Flush!KeepTimer
<1>3. WaitsInOneList' /\ FlightCarriesBatch'
  BY DEF FlushInv, FlushTypeOK, WaitsInOneList, FlightCarriesBatch, Flush!Schedule, Flush!Tell
<1> QED BY <1>1, <1>2, <1>3 DEF FlushInv

\* runFlush clears the timer and makes a flight of the waiters ws, or leaves them waiting.
LEMMA RunFlushMoves ==
  ASSUME NEW ws \in SUBSET Waiters, FlushTypeOK, Flush!OneTimer, Flush!RunFlush(ws)
  PROVE  /\ timer' = "none" /\ armed' = 0
         /\ \/ flight' = flight /\ waiters' = ws
            \/ /\ flight.phase = "none" /\ waiters' = {}
               /\ flight' = [phase |-> "loading", batch |-> ws, entries |-> {}]
<1>1. timer' = "none" /\ armed' = 0
  BY DEF FlushTypeOK, Flush!OneTimer, Flush!RunFlush, Flush!ClearTimer
<1> QED BY <1>1 DEF Flush!RunFlush, Flush!Flying

\* runFlush keeps the invariant when everyone in ws waits for an answer.
LEMMA RunFlushKeeps ==
  ASSUME NEW ws \in SUBSET Waiters, FlushInv, Flush!RunFlush(ws),
         result' \in [Callers -> Answers], pending' = pending,
         \A c \in Callers : c \in ws \cup flight.batch => result'[c] = "waiting",
         \A c \in Callers : ~(c \in ws /\ c \in flight.batch),
         \A c \in Callers : result'[c] = "accepted" => result[c] = "accepted"
  PROVE  FlushInv'
<1>1. /\ timer' = "none" /\ armed' = 0
      /\ \/ flight' = flight /\ waiters' = ws
         \/ /\ flight.phase = "none" /\ waiters' = {}
            /\ flight' = [phase |-> "loading", batch |-> ws, entries |-> {}]
  BY RunFlushMoves DEF FlushInv, FlushTold
<1>2. FlushTypeOK'
  BY <1>1 DEF FlushInv, FlushTypeOK
<1>3. FlushTold'
  BY <1>1 DEF FlushInv, FlushTold, Flush!OneTimer, Flush!AcceptedWasCarried
<1>4. WaitsInOneList' /\ FlightCarriesBatch'
  BY <1>1 DEF FlushInv, WaitsInOneList, FlightCarriesBatch
<1> QED BY <1>2, <1>3, <1>4 DEF FlushInv

\* flushNow(): a caller starts a flight with everyone who waits, shares one, or is told.
LEMMA FlushNowKeeps ==
  ASSUME NEW c \in Callers, FlushInv, Flush!FlushNow(c)
  PROVE  FlushInv'
<1>1. c \notin waiters \cup flight.batch /\ pending' = pending /\ gate' = gate /\ stopped' = stopped
  BY DEF FlushInv, WaitsInOneList, Flush!FlushNow
<1>2. CASE /\ Flush!Tell(c, "unreachable") \/ Flush!Tell(c, "shared")
           /\ UNCHANGED <<timer, armed, flight, waiters>>
  <2>1. FlushTypeOK'
    BY <1>1, <1>2 DEF FlushInv, FlushTypeOK, Flush!Tell, Answers
  <2>2. FlushTold'
    BY <1>1, <1>2 DEF FlushInv, FlushTypeOK, FlushTold, Flush!OneTimer,
         Flush!AcceptedWasCarried, Flush!Flying, Flush!Tell
  <2>3. WaitsInOneList' /\ FlightCarriesBatch'
    BY <1>1, <1>2 DEF FlushInv, FlushTypeOK, WaitsInOneList, FlightCarriesBatch, Flush!Tell
  <2> QED BY <2>1, <2>2, <2>3 DEF FlushInv
<1>3. CASE Flush!Tell(c, "waiting") /\ Flush!RunFlush(waiters \cup {c})
  <2>1. waiters \cup {c} \in SUBSET Waiters
    BY DEF FlushInv, FlushTypeOK, Waiters
  <2>2. /\ result' \in [Callers -> Answers]
        /\ \A d \in Callers : d \in (waiters \cup {c}) \cup flight.batch => result'[d] = "waiting"
        /\ \A d \in Callers : result'[d] = "accepted" => result[d] = "accepted"
    BY <1>3 DEF FlushInv, FlushTypeOK, WaitsInOneList, Flush!Tell, Answers
  <2>3. \A d \in Callers : ~(d \in waiters \cup {c} /\ d \in flight.batch)
    BY <1>1 DEF FlushInv, WaitsInOneList
  <2> QED BY <1>1, <1>3, <2>1, <2>2, <2>3, RunFlushKeeps
<1> QED BY <1>2, <1>3 DEF Flush!FlushNow

\* A timer fires: everyone who waits goes with the flight.
LEMMA TimerKeeps == FlushInv /\ Flush!TimerFires => FlushInv'
<1> SUFFICES ASSUME FlushInv, Flush!TimerFires PROVE FlushInv'
  OBVIOUS
<1>1. waiters \in SUBSET Waiters /\ result' \in [Callers -> Answers]
  BY DEF FlushInv, FlushTypeOK, Flush!TimerFires
<1>2. \A c \in Callers : c \in waiters \cup flight.batch => result'[c] = "waiting"
  BY DEF FlushInv, WaitsInOneList, Flush!TimerFires
<1>3. \A c \in Callers : ~(c \in waiters /\ c \in flight.batch)
  BY DEF FlushInv, WaitsInOneList
<1> QED BY <1>1, <1>2, <1>3, RunFlushKeeps DEF Flush!TimerFires

\* Outbox.flush takes what is pending.
LEMMA SubmitKeeps == FlushInv /\ Flush!Submit => FlushInv'
<1> SUFFICES ASSUME FlushInv, Flush!Submit PROVE FlushInv'
  OBVIOUS
<1>1. FlushTypeOK'
  BY DEF FlushInv, FlushTypeOK, Flush!Submit
<1>2. FlushTold'
  BY DEF FlushInv, FlushTypeOK, FlushTold, Flush!OneTimer, Flush!AcceptedWasCarried,
         Flush!Flying, Flush!Submit
<1>3. WaitsInOneList' /\ FlightCarriesBatch'
  BY DEF FlushInv, FlushTypeOK, WaitsInOneList, FlightCarriesBatch, Flush!Submit
<1> QED BY <1>1, <1>2, <1>3 DEF FlushInv

\* A flush settles: every caller of the batch is told the answer, nobody else is, and a
\* timer starts only on an idle, open scheduler, which has none.
LEMMA SettlesKeep ==
  ASSUME FlushInv, flight.phase = "submitted", NEW answer \in Answers,
         Flush!Settled(answer), flight' = Flush!NoFlight,
         pending' \in SUBSET pending, waiters' = waiters, gate' = gate, stopped' = stopped,
         answer = "accepted" => pending' = pending \ flight.entries,
         answer # "waiting",
         Flush!KeepTimer \/ (~stopped /\ gate /\ \E k \in {"debounce", "retry"} : Flush!Arm(k))
  PROVE  FlushInv'
<1>1. /\ result' \in [Callers -> Answers]
      /\ \A c \in Callers : result'[c] = IF c \in flight.batch THEN answer ELSE result[c]
  BY DEF Flush!Settled, FlushInv, FlushTypeOK
<1>2. timer = "none" /\ armed = 0
  BY DEF FlushInv, FlushTold, Flush!OneTimer, Flush!Flying
<1>3. flight'.phase = "none" /\ flight'.batch = {} /\ flight'.entries = {}
  BY DEF Flush!NoFlight
<1>4. FlushTypeOK'
  BY <1>1, <1>2 DEF FlushInv, FlushTypeOK, Flush!NoFlight, Flush!KeepTimer, Flush!Arm
<1>5. Flush!OneTimer'
  BY <1>2, <1>3 DEF Flush!OneTimer, Flush!Flying, Flush!KeepTimer, Flush!Arm
<1>6. Flush!AcceptedWasCarried'
  <2> SUFFICES ASSUME NEW c \in Callers, result'[c] = "accepted" PROVE c \notin pending'
    BY DEF Flush!AcceptedWasCarried
  <2>1. CASE c \in flight.batch
    BY <1>1, <2>1 DEF FlushInv, FlightCarriesBatch
  <2>2. CASE c \notin flight.batch
    BY <1>1, <2>2 DEF FlushInv, FlushTold, Flush!AcceptedWasCarried
  <2> QED BY <2>1, <2>2
<1>7. WaitsInOneList' /\ FlightCarriesBatch'
  BY <1>1, <1>3 DEF FlushInv, WaitsInOneList, FlightCarriesBatch
<1> QED BY <1>4, <1>5, <1>6, <1>7 DEF FlushInv, FlushTold

\* afterSettled and the restart after a rejected flush arm a timer only when open.
LEMMA AfterSettledArms ==
  ASSUME NEW failed \in BOOLEAN, NEW p, Flush!AfterSettled(failed, p)
  PROVE  Flush!KeepTimer \/ (~stopped /\ gate /\ \E k \in {"debounce", "retry"} : Flush!Arm(k))
BY DEF Flush!AfterSettled, Flush!DebounceIfWaited

\* The three outcomes of a flight.
LEMMA OutcomesKeep == FlushInv /\ FlushSettles => FlushInv'
<1> SUFFICES ASSUME FlushInv, FlushSettles PROVE FlushInv'
  OBVIOUS
<1> DEFINE Armed == Flush!KeepTimer \/ (~stopped /\ gate /\ \E k \in {"debounce", "retry"} : Flush!Arm(k))
<1>1. CASE Flush!Accepted
  <2>1. Armed
    BY <1>1, AfterSettledArms DEF Flush!Accepted
  <2>2. "accepted" \in Answers
    BY DEF Answers
  <2> QED BY <1>1, <2>1, <2>2, SettlesKeep DEF Flush!Accepted
<1>2. CASE Flush!Unreachable
  <2>1. Armed
    BY <1>2, AfterSettledArms DEF Flush!Unreachable
  <2>2. "unreachable" \in Answers
    BY DEF Answers
  <2> QED BY <1>2, <2>1, <2>2, SettlesKeep DEF Flush!Unreachable
<1>3. CASE Flush!Rejected
  <2>1. Armed
    BY <1>3 DEF Flush!Rejected, Flush!DebounceIfWaited
  <2>2. "rejected" \in Answers
    BY DEF Answers
  <2> QED BY <1>3, <2>1, <2>2, SettlesKeep DEF Flush!Rejected
<1> QED BY <1>1, <1>2, <1>3 DEF FlushSettles

\* hold() stops the timer before the gate is shut.
LEMMA HoldKeeps == FlushInv /\ Flush!Hold => FlushInv'
<1> SUFFICES ASSUME FlushInv, Flush!Hold PROVE FlushInv'
  OBVIOUS
<1>1. timer' = "none" /\ armed' = 0
  BY DEF FlushInv, FlushTypeOK, FlushTold, Flush!OneTimer, Flush!Hold, Flush!HoldTimer,
         Flush!ClearTimer
<1>2. UNCHANGED <<flight, waiters, pending, result>>
  BY DEF Flush!Hold
<1> QED BY <1>1, <1>2 DEF FlushInv, FlushTypeOK, FlushTold, Flush!OneTimer,
         Flush!AcceptedWasCarried, WaitsInOneList, FlightCarriesBatch

\* release() starts a flush for everyone who was held, or leaves that to the flight.
LEMMA ReleaseKeeps == FlushInv /\ Flush!Release => FlushInv'
<1> SUFFICES ASSUME FlushInv, Flush!Release PROVE FlushInv'
  OBVIOUS
<1> DEFINE ws == waiters \cup {Flush!Gate}
<1>1. ws \in SUBSET Waiters /\ result' \in [Callers -> Answers] /\ pending' = pending
  BY DEF FlushInv, FlushTypeOK, Flush!Release, Waiters
<1>2. \A c \in Callers : c \in ws => c \in waiters
  BY LinkAssumption
<1>3. \A c \in Callers : c \in ws \cup flight.batch => result'[c] = "waiting"
  BY <1>2 DEF FlushInv, WaitsInOneList, Flush!Release
<1>4. \A c \in Callers : ~(c \in ws /\ c \in flight.batch)
  BY <1>2 DEF FlushInv, WaitsInOneList
<1>5. CASE Flush!Flying
  <2>1. UNCHANGED <<stopped, timer, armed, flight, pending, result>> /\ waiters' = ws
    BY <1>5 DEF Flush!Release, Flush!KeepTimer
  <2>2. FlushTypeOK'
    BY <1>1, <2>1 DEF FlushInv, FlushTypeOK
  <2>3. FlushTold'
    BY <1>5, <2>1 DEF FlushInv, FlushTold, Flush!OneTimer, Flush!AcceptedWasCarried,
           Flush!Flying
  <2>4. WaitsInOneList' /\ FlightCarriesBatch'
    BY <1>3, <1>4, <2>1 DEF FlushInv, WaitsInOneList, FlightCarriesBatch
  <2> QED BY <2>2, <2>3, <2>4 DEF FlushInv
<1>6. CASE ~Flush!Flying
  <2>1. Flush!RunFlush(ws) /\ result' = result
    BY <1>6 DEF Flush!Release
  <2> HIDE DEF ws
  <2> QED BY <1>1, <1>3, <1>4, <2>1, RunFlushKeeps
<1> QED BY <1>5, <1>6

\* stop() settles everyone who waits and leaves the flight to its callers.
LEMMA StopKeeps == FlushInv /\ Flush!Stop => FlushInv'
<1> SUFFICES ASSUME FlushInv, Flush!Stop PROVE FlushInv'
  OBVIOUS
<1>1. timer' = "none" /\ armed' = 0
  BY DEF FlushInv, FlushTypeOK, FlushTold, Flush!OneTimer, Flush!Stop, Flush!ClearTimer
<1>2. /\ UNCHANGED <<flight, pending>> /\ waiters' = {}
      /\ result' \in [Callers -> Answers]
      /\ \A c \in Callers : result'[c] = IF c \in waiters THEN "unreachable" ELSE result[c]
  BY DEF FlushInv, FlushTypeOK, Flush!Stop, Answers
<1>3. FlushTypeOK'
  BY <1>1, <1>2 DEF FlushInv, FlushTypeOK
<1>4. FlushTold'
  BY <1>1, <1>2 DEF FlushInv, FlushTold, Flush!OneTimer, Flush!AcceptedWasCarried
<1>5. WaitsInOneList' /\ FlightCarriesBatch'
  BY <1>2 DEF FlushInv, WaitsInOneList, FlightCarriesBatch
<1> QED BY <1>3, <1>4, <1>5 DEF FlushInv

\* Whatever the session does to the gate goes through hold() and release().
LEMMA GatedKeeps == FlushInv /\ Gated => FlushInv'
BY FlushStutters, HoldKeeps, ReleaseKeeps DEF Gated

\* Every step of the client and its server keeps the scheduler's invariant.
LEMMA FlushKeeps == FlushInv /\ [LinkNext]_linkVars => FlushInv'
<1> SUFFICES ASSUME FlushInv, [LinkNext]_linkVars PROVE FlushInv'
  OBVIOUS
<1>1. ASSUME NEW s \in Subs, LinkedLoopStep(s) \/ SessionCall(s) PROVE FlushInv'
  BY <1>1, GatedKeeps DEF LinkedLoopStep, SessionCall
<1>2. CASE Server
  BY <1>2, FlushStutters DEF Server, May, Resolve, Commit, JoinGroup
<1>3. ASSUME NEW c \in Callers, FlushStep(FlushCall(c)) PROVE FlushInv'
  BY <1>3, EnqueueKeeps, ScheduleKeeps, FlushNowKeeps DEF FlushStep, FlushCall, May
<1>4. CASE FlushStep(Flush!TimerFires) \/ FlushStep(Flush!Submit) \/ FlushStep(FlushSettles)
  BY <1>4, TimerKeeps, SubmitKeeps, OutcomesKeep DEF FlushStep
<1>5. CASE Close
  BY <1>5, StopKeeps DEF Close
<1>6. CASE UNCHANGED linkVars
  BY <1>6, FlushStutters DEF linkVars, vars
<1> QED BY <1>1, <1>2, <1>3, <1>4, <1>5, <1>6 DEF LinkNext

-----------------------------------------------------------------------------
(* The session holds the gate while it rebases *)

\* No loop has started.
LEMMA LoopStarts == LinkInit => LoopInv
BY DEF LinkInit, Init, LoopInv, RebaseHoldsGate, ActiveSubscription

\* A step of the loop s that leaves the gate and what the loop is alone, or shuts the gate,
\* or ends a phase of the current loop.
LEMMA LoopMoves ==
  ASSUME LoopInv, NEW s \in Subs, NEW r, Loop(s, r), active' = active,
         {"phase", "cancelled"} \subseteq DOMAIN r, r.cancelled = sub[s].cancelled,
         sub[s].phase \notin {"new", "greeting", "ended"} \/ r.phase = sub[s].phase,
         \/ ~gate'
         \/ gate' = gate /\ (r.phase \in {"asking", "seed", "rebase"} =>
                             sub[s].phase \in {"asking", "seed", "rebase"})
         \/ /\ ~sub[s].cancelled /\ sub[s].phase \notin {"new", "greeting", "ended"}
            /\ r.phase \notin {"asking", "seed", "rebase"}
  PROVE  LoopInv'
<1>1. sub'[s] = r /\ (\A t \in Subs \ {s} : sub'[t] = sub[t]) /\ DOMAIN sub' = Subs
  BY DEF LoopInv, Loop
<1>2. /\ \A t \in Subs : {"phase", "cancelled"} \subseteq DOMAIN sub'[t]
      /\ \A t \in Subs \ {active} : sub'[t].cancelled \/ sub'[t].phase \in {"new", "greeting", "ended"}
  BY <1>1 DEF LoopInv
<1>3. RebaseHoldsGate'
  <2> SUFFICES ASSUME active # None, sub'[active].phase \in {"asking", "seed", "rebase"} PROVE ~gate'
    BY DEF RebaseHoldsGate
  <2>1. CASE active = s
    BY <1>1, <2>1 DEF LoopInv, RebaseHoldsGate
  <2>2. CASE active # s
    BY <1>1, <2>2 DEF LoopInv, RebaseHoldsGate
  <2> QED BY <2>1, <2>2
<1> QED BY <1>1, <1>2, <1>3 DEF LoopInv

\* The end of a connection.
LEMMA EndKeeps ==
  ASSUME LoopInv, NEW s \in Subs, Disconnected(s), active' = active,
         sub[s].phase \notin {"new", "greeting", "ended"}
  PROVE  LoopInv'
<1>1. CASE sub[s].cancelled /\ Loop(s, Over(sub[s])) /\ gate' = gate
  BY <1>1, LoopMoves DEF Over, ActiveSubscription
<1>2. CASE ~sub[s].cancelled /\ Loop(s, Over(sub[s]))
  BY <1>2, LoopMoves DEF Over, ActiveSubscription
<1>3. CASE ~sub[s].cancelled /\ Loop(s, [Over(sub[s]) EXCEPT !.phase = "backoff"])
  BY <1>3, LoopMoves DEF Over, ActiveSubscription
<1> QED BY <1>1, <1>2, <1>3 DEF Disconnected

\* The loop's own steps.
LEMMA LoopStepKeeps ==
  ASSUME LoopInv, NEW s \in Subs, LoopStep(s) PROVE LoopInv'
<1> USE DEF LoopInv
<1>1. CASE Seed(s)
  BY <1>1, LoopMoves DEF Seed
<1>2. CASE CatchUp(s)
  BY <1>2, LoopMoves DEF CatchUp, NextGroup
<1>3. CASE ApplyPage(s)
  BY <1>3, LoopMoves DEF ApplyPage, NextGroup
<1>4. CASE Checkpoint(s)
  BY <1>4, LoopMoves DEF Checkpoint, Opening, Over, ActiveSubscription
<1>5. CASE Open(s)
  BY <1>5, LoopMoves DEF Open
<1>6. CASE StaleCursor(s)
  BY <1>6, LoopMoves DEF StaleCursor
<1>7. CASE Resumes(s)
  BY <1>7, LoopMoves, EndKeeps DEF Resumes
<1>8. CASE Receive(s)
  BY <1>8, LoopMoves DEF Receive, Drains
<1>9. CASE Received(s)
  BY <1>9, LoopMoves DEF Received, Over, ActiveSubscription
<1>10. CASE GroupsChanged(s)
  BY <1>10, LoopMoves DEF GroupsChanged, Drains, Asked
<1>11. CASE Refreshed(s)
  BY <1>11, LoopMoves DEF Refreshed, Adopt, Heard, Over, ActiveSubscription
<1>12. CASE Closed(s)
  BY <1>12, EndKeeps DEF Closed
<1>13. CASE Reconnect(s)
  BY <1>13, LoopMoves DEF Reconnect, Asked
<1>14. CASE Reconnected(s)
  BY <1>14, LoopMoves DEF Reconnected, Adopt, Rebasing, Heard, Over, ActiveSubscription
<1>15. CASE Answer(s)
  BY <1>15, LoopMoves DEF Answer
<1> QED BY <1>1, <1>2, <1>3, <1>4, <1>5, <1>6, <1>7, <1>8, <1>9, <1>10, <1>11, <1>12, <1>13, <1>14, <1>15
        DEF LoopStep

\* subscribe() and its end, and the faults of the loop s.
LEMMA SessionCallKeeps ==
  ASSUME LoopInv, NEW s \in Subs, SessionCall(s) PROVE LoopInv'
<1>1. CASE Subscribe(s)
  BY <1>1, SessionAssumption
     DEF Subscribe, LoopInv, RebaseHoldsGate, Rebasing, Heard, Cancelled, Over, ActiveSubscription
<1>2. CASE Unsubscribe(s)
  BY <1>2, SessionAssumption DEF Unsubscribe, LoopInv, RebaseHoldsGate, Loop, Cancelled, Over, ActiveSubscription
<1>3. CASE CatchUpFails(s)
  BY <1>3, EndKeeps DEF CatchUpFails
<1>4. CASE StreamBreaks(s)
  BY <1>4, EndKeeps DEF StreamBreaks
<1>5. CASE Greet(s)
  BY <1>5, SessionAssumption DEF Greet, Asked, Loop, LoopInv, RebaseHoldsGate
<1> QED BY <1>1, <1>2, <1>3, <1>4, <1>5 DEF SessionCall, May

\* The server pushes to streams and moves no loop.
LEMMA ServerKeeps == LoopInv /\ Server => LoopInv'
<1> SUFFICES ASSUME LoopInv, Server PROVE LoopInv'
  OBVIOUS
<1>1. CASE Resolve
  BY <1>1, SessionAssumption DEF Resolve, LoopInv, RebaseHoldsGate
<1>2. CASE JoinGroup
  BY <1>2, SessionAssumption DEF JoinGroup, LoopInv, RebaseHoldsGate
<1>3. ASSUME NEW g \in Groups, Commit(g) PROVE LoopInv'
  BY <1>3 DEF Commit, LoopInv, RebaseHoldsGate
<1> QED BY <1>1, <1>2, <1>3 DEF Server, May

\* Every step of the client and its server keeps the session's invariant.
LEMMA LoopKeeps == LoopInv /\ [LinkNext]_linkVars => LoopInv'
<1> SUFFICES ASSUME LoopInv, [LinkNext]_linkVars PROVE LoopInv'
  OBVIOUS
<1>1. ASSUME UNCHANGED vars PROVE LoopInv'
  BY <1>1 DEF vars, LoopInv, RebaseHoldsGate
<1>2. ASSUME NEW s \in Subs, LinkedLoopStep(s) \/ SessionCall(s) PROVE LoopInv'
  BY <1>2, LoopStepKeeps, SessionCallKeeps DEF LinkedLoopStep
<1>3. CASE Close
  BY <1>3, SessionAssumption DEF Close, LoopInv, RebaseHoldsGate, Cancelled, Over, ActiveSubscription
<1> QED BY <1>1, <1>2, <1>3, ServerKeeps DEF LinkNext, linkVars, FlushStep

\* Under any session, one timer at most is armed and none behind a held gate, a flight or
\* stop(); the gate is held while the current subscription catches up, whatever a loop
\* that was taken over still does; and schedule() and flushNow() report a write as
\* accepted only once the outbox no longer holds it as pending.
THEOREM FlushTruthful == LinkSpec => []FlushIsTruthful
<1>1. LinkInit => LinkInv
  BY FlushStarts, LoopStarts DEF LinkInv
<1>2. LinkInv /\ [LinkNext]_linkVars => LinkInv'
  BY FlushKeeps, LoopKeeps DEF LinkInv
<1>3. LinkInv => FlushIsTruthful
  BY DEF LinkInv, FlushInv, LoopInv, FlushTold, FlushIsTruthful
<1> QED BY <1>1, <1>2, <1>3, PTL DEF LinkSpec
=============================================================================

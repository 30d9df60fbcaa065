--------------------------- MODULE FlushScheduler ---------------------------
(***************************************************************************)
(* When the outbox is flushed (packages/client/src/sync/flush-scheduler.ts *)
(* and the write path of client.ts that waits on it).                      *)
(*                                                                         *)
(* A caller buffers its entry and then waits for the flush that carries    *)
(* it.  A debounce timer, a retry timer, a manual flush, the catch-up gate *)
(* and stop() compete for one flight.  The outbox is the set of entries    *)
(* that are pending; its flush snapshots them one microtask after it is    *)
(* called.                                                                 *)
(***************************************************************************)
EXTENDS Naturals, FiniteSets

CONSTANTS
  Callers,     \* one write() per caller
  MaxAttempt   \* bound: the attempt from which the delay is at its maximum

VARIABLES
  stopped, ready,
  timer,         \* the timer the scheduler knows of
  armed,         \* timers that are really armed
  flight,        \* the flush in flight
  waiters,       \* who waits for the next flush
  attempt,       \* consecutive unreachable outcomes
  unreachable,   \* lastUnreachable is set
  pending,       \* callers whose entry the outbox holds as pending
  result         \* what each caller was told

vars == <<stopped, ready, timer, armed, flight, waiters, attempt, unreachable, pending, result>>

Gate == "gate"   \* the waiter that release() adds for nobody
NoFlight == [phase |-> "none", batch |-> {}, entries |-> {}]

Init ==
  /\ stopped = FALSE /\ ready = TRUE
  /\ timer = "none" /\ armed = 0
  /\ flight = NoFlight /\ waiters = {}
  /\ attempt = 0 /\ unreachable = FALSE
  /\ pending = {}
  /\ result = [c \in Callers |-> "new"]

-----------------------------------------------------------------------------
(* Timers *)

Flying == flight.phase # "none"

\* clearTimer, and setTimeout on top of whatever is armed.
ClearTimer == timer' = "none" /\ armed' = IF timer = "none" THEN armed ELSE armed - 1
Arm(kind) == timer' = kind /\ armed' = armed + 1
KeepTimer == UNCHANGED <<timer, armed>>

\* backoffDelayMs: the delay doubles until it reaches its maximum.
NextAttempt == IF attempt < MaxAttempt THEN attempt + 1 ELSE attempt

\* runFlush with the waiters ws.
RunFlush(ws) ==
  /\ ClearTimer
  /\ IF stopped \/ Flying
     THEN waiters' = ws /\ UNCHANGED flight
     ELSE /\ flight' = [phase |-> "loading", batch |-> ws, entries |-> {}]
          /\ waiters' = {}

TimerFires ==
  /\ timer # "none"
  /\ RunFlush(waiters)
  /\ UNCHANGED <<stopped, ready, attempt, unreachable, pending, result>>

-----------------------------------------------------------------------------
(* Callers.  A call that shares the outcome of a flight is told "shared". *)

\* write: the action is validated and enqueued.
Enqueue(c) ==
  /\ result[c] = "new"
  /\ result' = [result EXCEPT ![c] = "buffered"]
  /\ pending' = pending \cup {c}
  /\ UNCHANGED <<stopped, ready, timer, armed, flight, waiters, attempt, unreachable>>

Tell(c, answer) == result' = [result EXCEPT ![c] = answer]

\* schedule(): settled at once when stopped, held or backing off.
Schedule(c) ==
  /\ result[c] = "buffered"
  /\ IF stopped \/ ~ready \/ (~Flying /\ timer # "none" /\ unreachable)
     THEN /\ Tell(c, "unreachable") /\ KeepTimer /\ UNCHANGED waiters
     ELSE /\ Tell(c, "waiting")
          /\ waiters' = waiters \cup {c}
          /\ IF ~Flying /\ timer = "none" THEN Arm("debounce") ELSE KeepTimer
  /\ UNCHANGED <<stopped, ready, flight, attempt, unreachable, pending>>

\* flushNow(): a caller that finds a flight shares its outcome.
FlushNow(c) ==
  /\ result[c] = "buffered"
  /\ \/ /\ stopped \/ ~ready
        /\ Tell(c, "unreachable")
        /\ UNCHANGED <<timer, armed, flight, waiters>>
     \/ /\ ~stopped /\ ready /\ Flying
        /\ Tell(c, "shared")
        /\ UNCHANGED <<timer, armed, flight, waiters>>
     \/ /\ ~stopped /\ ready /\ ~Flying
        /\ Tell(c, "waiting")
        /\ RunFlush(waiters \cup {c})
  /\ UNCHANGED <<stopped, ready, attempt, unreachable, pending>>

-----------------------------------------------------------------------------
(* The flight *)

\* Outbox.flush takes what is pending and posts it (submitActions).
Submit ==
  /\ flight.phase = "loading"
  /\ flight' = [flight EXCEPT !.phase = "submitted", !.entries = pending]
  /\ UNCHANGED <<stopped, ready, timer, armed, waiters, attempt, unreachable, pending, result>>

\* Mutant: the waiters are taken when the flush settles, not when it starts.
SettledLate(answer) ==
  result' = [c \in Callers |-> IF c \in flight.batch \cup waiters THEN answer ELSE result[c]]

Settled(answer) ==
  result' = [c \in Callers |-> IF c \in flight.batch THEN answer ELSE result[c]]

DebounceIfWaited == IF waiters # {} THEN Arm("debounce") ELSE KeepTimer

\* afterSettled, with p the entries that are still pending.
AfterSettled(failed, p) ==
  \/ /\ stopped \/ ~ready
     /\ KeepTimer /\ UNCHANGED <<attempt, unreachable>>
  \/ /\ ~stopped /\ ready /\ failed /\ p # {}
     /\ unreachable' = TRUE
     /\ attempt' = NextAttempt
     /\ Arm("retry")
  \/ /\ ~stopped /\ ready /\ ~(failed /\ p # {})
     /\ attempt' = 0 /\ unreachable' = FALSE
     /\ DebounceIfWaited

\* The server answered (accepted, partial) or there was nothing to send.
Accepted ==
  /\ flight.phase = "submitted"
  /\ pending' = pending \ flight.entries
  /\ Settled("accepted")
  /\ flight' = NoFlight
  /\ AfterSettled(FALSE, pending')
  /\ UNCHANGED <<stopped, ready, waiters>>

Unreachable ==
  /\ flight.phase = "submitted" /\ flight.entries # {}
  /\ Settled("unreachable")
  /\ flight' = NoFlight
  /\ AfterSettled(TRUE, pending)
  /\ UNCHANGED <<stopped, ready, waiters, pending>>

\* A store fault rejects the flush: it moved some entries, and no backoff starts.
Rejected ==
  /\ flight.phase = "submitted" /\ flight.entries # {}
  /\ \E moved \in SUBSET flight.entries : pending' = pending \ moved
  /\ Settled("rejected")
  /\ flight' = NoFlight
  /\ IF ~stopped /\ ready THEN DebounceIfWaited ELSE KeepTimer
  /\ UNCHANGED <<stopped, ready, waiters, attempt, unreachable>>

-----------------------------------------------------------------------------
(* The gate (held from connect to the catch-up checkpoint) and stop() *)

HoldTimer == ClearTimer

Hold ==
  /\ ~stopped /\ ready
  /\ ready' = FALSE
  /\ HoldTimer
  /\ UNCHANGED <<stopped, flight, waiters, attempt, unreachable, pending, result>>

Release ==
  /\ ~stopped /\ ~ready
  /\ ready' = TRUE
  /\ IF Flying
     THEN waiters' = waiters \cup {Gate} /\ KeepTimer /\ UNCHANGED flight
     ELSE RunFlush(waiters \cup {Gate})
  /\ UNCHANGED <<stopped, attempt, unreachable, pending, result>>

Stop ==
  /\ ~stopped
  /\ stopped' = TRUE
  /\ ClearTimer
  /\ waiters' = {}
  /\ result' = [c \in Callers |-> IF c \in waiters THEN "unreachable" ELSE result[c]]
  /\ UNCHANGED <<ready, flight, attempt, unreachable, pending>>

-----------------------------------------------------------------------------
Next ==
  \/ \E c \in Callers : Enqueue(c) \/ Schedule(c) \/ FlushNow(c)
  \/ TimerFires \/ Submit \/ Accepted \/ Unreachable \/ Rejected
  \/ Hold \/ Release \/ Stop

Spec == Init /\ [][Next]_vars

\* Timers fire, a flush that was started settles, and the session loop reopens
\* the gate it closed (at the checkpoint, on giving up, or on unsubscribe).
Fairness ==
  /\ WF_vars(TimerFires) /\ WF_vars(Submit)
  /\ WF_vars(Accepted \/ Unreachable \/ Rejected)
  /\ WF_vars(Release)

FairSpec == Spec /\ Fairness

-----------------------------------------------------------------------------
(* Properties *)

\* One timer at most is armed, the scheduler can clear it, and none is armed
\* during a flight, while the gate is held or after stop(): nothing but an open
\* gate lets a pending action reach the wire.
OneTimer ==
  /\ armed = IF timer = "none" THEN 0 ELSE 1
  /\ Flying \/ ~ready \/ stopped => timer = "none"

\* "A write that arrives mid-flight is settled by the next flush, which is the
\* one that actually carries its entry": schedule() reports success only when
\* the entry has left the outbox's pending set.
AcceptedWasCarried ==
  \A c \in Callers : result[c] = "accepted" => c \notin pending

\* schedule() never leaves a caller waiting for a flush nobody starts.
EveryWaiterSettles ==
  \A c \in Callers : result[c] = "waiting" ~> result[c] # "waiting"
=============================================================================

----------------------------- MODULE QueryCache ------------------------------
(***************************************************************************)
(* One key of the reactive query cache (client/src/sync/query-cache.ts):   *)
(* hydration, invalidation by the replica's journal, re-runs that may be   *)
(* in flight while further changes land, listeners that come and go, and   *)
(* eviction after the TTL.                                                 *)
(*                                                                         *)
(* An application may keep the store that a watch gave it for as long as   *)
(* it likes.  The store closes over its entry, so the key's entries are    *)
(* all kept: one at most is in the map, which is what the replica's signal *)
(* visits, and the others are those that an eviction took out of it.       *)
(*                                                                         *)
(* The query's result is one of two values, so that a re-run may return    *)
(* what is already shown.  A change of the replica is relevant when it     *)
(* touches a type the query reads.                                         *)
(***************************************************************************)
EXTENDS Integers, Sequences, FiniteSets

CONSTANTS
  QueryListeners,
  KeptChanges,    \* capacity of the replica's journal
  MaxWork,        \* bound: changes of the replica and entries that watches make for
                  \* the key, together
  MaxSubscribes   \* bound: subscriptions

Undefined == -1
Results == {0, 1}

VARIABLES
  result,    \* what the query yields on the replica now
  changes,   \* one BOOLEAN for each revision: was it relevant
  sync,      \* whether the source answers in the same tick
  isReady,   \* whether the source is ready
  made,      \* every CacheEntry made for the key, with its listeners and its run in flight
  mapped,    \* the index of the entry that the map holds, 0 for none
  subscribes, \* subscriptions so far
  seen       \* the snapshot each listener has last read

queryVars == <<result, changes, sync, isReady, made, mapped, subscribes, seen>>

Revision == Len(changes)

NoRun == [revision |-> 0, hadData |-> FALSE, hadError |-> FALSE, startedStale |-> FALSE,
          publishedStale |-> FALSE, microtask |-> FALSE, rows |-> Undefined]
Snapshot(data, status) == [data |-> data, status |-> status]
Detached == [on |-> FALSE, initial |-> TRUE, revision |-> 0]
NewEntry == [data |-> Undefined, error |-> FALSE, revision |-> Undefined,
             snapshot |-> Snapshot(Undefined, "unloaded"), running |-> "no", run |-> NoRun,
             listeners |-> [l \in QueryListeners |-> Detached], evictTimer |-> FALSE]

Init ==
  /\ result = 0 /\ changes = <<>> /\ sync \in BOOLEAN /\ isReady \in BOOLEAN
  /\ made = <<>> /\ mapped = 0 /\ subscribes = 0
  /\ seen = [l \in QueryListeners |-> NewEntry.snapshot]

Subscribed(e) == {l \in QueryListeners : e.listeners[l].on}
Refs(e) == Cardinality(Subscribed(e))

-----------------------------------------------------------------------------
(* The entry's own functions *)

StatusOf(e, rev) ==
  CASE e.error -> "failed"
    [] ~e.error /\ e.data = Undefined -> "unloaded"
    [] ~e.error /\ e.data # Undefined /\ e.revision = rev -> "current"
    [] OTHER -> "stale"

Refresh(e, rev) == [e EXCEPT !.snapshot = Snapshot(e.data, StatusOf(e, rev))]

\* Mutant: a journal that no longer reaches back means that nothing changed.
IsRelevantNoGap(cs, from) ==
  /\ Len(cs) # from
  /\ from >= Len(cs) - KeptChanges /\ \E r \in from + 1..Len(cs) : cs[r]

\* isRelevant: a gap in the journal counts as a change.
IsRelevant(cs, from) ==
  /\ Len(cs) # from
  /\ from < Len(cs) - KeptChanges \/ \E r \in from + 1..Len(cs) : cs[r]

\* notifyInitial: listeners that opted out are told of a relevant change only.
InitialListeners(e, cs) ==
  {l \in Subscribed(e) : e.listeners[l].initial \/ IsRelevant(cs, e.listeners[l].revision)}

Outcome(e, who) == [e |-> e, who |-> who]

\* execute: the run starts at a revision.
Begun(e, rev) ==
  Refresh([e EXCEPT !.running = "run",
                    !.run = [NoRun EXCEPT !.revision = rev, !.hadData = e.data # Undefined,
                                          !.hadError = e.error, !.microtask = ~sync,
                                          !.startedStale = e.snapshot.status = "stale"]], rev)

\* A view that saw the entry stale or failed must see it settle.
WorthTelling(r, changed) == changed \/ r.hadError \/ r.startedStale \/ r.publishedStale

\* settle, and fail when ok is FALSE.
Settled(e, rows, ok, cs) ==
  LET r == e.run
      changed == IF ok THEN ~r.hadData \/ e.data # rows ELSE ~e.error
      next == Refresh([e EXCEPT !.running = "no", !.run = NoRun,
                                !.data = IF ok THEN rows ELSE @,
                                !.error = ~ok,
                                !.revision = IF ok THEN r.revision ELSE @], Len(cs))
  IN IF ok
     THEN Outcome(next, IF ~r.hadData THEN InitialListeners(e, cs)
                        ELSE IF WorthTelling(r, changed) THEN Subscribed(e) ELSE {})
     ELSE Outcome(next, IF changed \/ r.startedStale \/ r.publishedStale
                        THEN IF r.hadData THEN Subscribed(e) ELSE InitialListeners(e, cs)
                        ELSE {})

\* execute with a source that answers now, or later.
Execute(e, cs, rows, ok) ==
  LET b == Begun(e, Len(cs))
  IN IF sync THEN Settled(b, rows, ok, cs) ELSE Outcome(b, {})

\* hydrate
Hydrate(e, cs, rows, ok) ==
  IF isReady THEN Execute(e, cs, rows, ok)
  ELSE Outcome([e EXCEPT !.running = "ready"], {})

\* reconcile with the replica's revision
Reconcile(e, cs, rows, ok) ==
  LET rev == Len(cs)
  IN CASE e.running # "no" -> Outcome(e, {})
       [] e.running = "no" /\ e.data = Undefined ->
            IF Refs(e) > 0 /\ e.error /\ IsRelevant(cs, IF e.revision = Undefined THEN 0 ELSE e.revision)
            THEN Hydrate(e, cs, rows, ok) ELSE Outcome(e, {})
       [] e.running = "no" /\ e.data # Undefined ->
            IF e.revision = rev THEN Outcome(e, {})
            ELSE IF Refs(e) = 0 THEN Outcome(Refresh(e, rev), {})
            ELSE IF ~IsRelevant(cs, e.revision)
            THEN Outcome(Refresh([e EXCEPT !.revision = rev], rev), {})
            ELSE Execute(e, cs, rows, ok)

\* The entry and the listeners that were called, which read its snapshot.
Publish(k, o) ==
  /\ made' = [made EXCEPT ![k] = o.e]
  /\ seen' = [l \in QueryListeners |-> IF l \in o.who THEN o.e.snapshot ELSE seen[l]]

-----------------------------------------------------------------------------
(* Steps *)

\* watch: a key without an entry gets one.  A store of one that is there changes nothing.
Watch ==
  /\ mapped = 0 /\ Len(made) + Revision < MaxWork
  /\ made' = Append(made, NewEntry) /\ mapped' = Len(made) + 1
  /\ UNCHANGED <<result, changes, sync, isReady, subscribes, seen>>

\* The replica changes, and its signal reconciles the entry of the map, no other.
Change(relevant, v, ok) ==
  LET cs == Append(changes, relevant)
  IN /\ Len(made) + Revision < MaxWork
     /\ v # result => relevant
     /\ changes' = cs /\ result' = v
     /\ IF mapped = 0 THEN UNCHANGED <<made, seen>>
        ELSE Publish(mapped, Reconcile(made[mapped], cs, v, ok))
     /\ UNCHANGED <<sync, isReady, mapped, subscribes>>

\* subscribe: a listener of a store reads the snapshot of its entry, whether or not the
\* map still holds that entry, and a missing or old result runs.
Subscribe(k, l, initial, ok) ==
  LET e == [made[k] EXCEPT
              !.listeners[l] = [on |-> TRUE, initial |-> initial, revision |-> Revision],
              !.evictTimer = @ /\ Refs(made[k]) > 0]
      o == IF e.running # "no" THEN Outcome(e, {})
           ELSE IF e.data = Undefined THEN Hydrate(e, changes, result, ok)
           ELSE IF e.error \/ e.revision # Revision THEN Execute(e, changes, result, ok)
           ELSE Outcome(e, {})
  IN /\ subscribes < MaxSubscribes /\ subscribes' = subscribes + 1
     /\ \A j \in DOMAIN made : l \notin Subscribed(made[j])
     /\ Publish(k, Outcome(o.e, o.who \union {l}))
     /\ UNCHANGED <<result, changes, sync, isReady, mapped>>

Unsubscribe(k, l) ==
  /\ l \in Subscribed(made[k])
  /\ made' = [made EXCEPT ![k] = [@ EXCEPT !.listeners[l] = Detached,
                                          !.evictTimer = made[k].evictTimer \/ Refs(made[k]) = 1]]
  /\ seen' = [seen EXCEPT ![l] = NewEntry.snapshot]
  /\ UNCHANGED <<result, changes, sync, isReady, mapped, subscribes>>

\* The TTL passes: nobody listens to the entry, and its key leaves the map, with
\* whichever entry the map holds for it by now.
Evicted(k) ==
  /\ made[k].evictTimer /\ made' = [made EXCEPT ![k] = [@ EXCEPT !.evictTimer = FALSE]]
  /\ mapped' = IF Refs(made[k]) = 0 THEN 0 ELSE mapped
  /\ UNCHANGED <<result, changes, sync, isReady, subscribes, seen>>

\* ready() resolves or rejects.
Ready(k, ok, runs) ==
  /\ made[k].running = "ready"
  /\ LET e == [made[k] EXCEPT !.running = "no"]
     IN IF ok THEN isReady' = TRUE /\ Publish(k, Execute(e, changes, result, runs))
        ELSE /\ UNCHANGED isReady
             /\ Publish(k, Outcome(Refresh([e EXCEPT !.error = TRUE], Revision),
                                   InitialListeners(e, changes)))
  /\ UNCHANGED <<result, changes, sync, mapped, subscribes>>

\* An asynchronous source reads the replica.
RunReads(k) ==
  /\ made[k].running = "run" /\ made[k].run.rows = Undefined
  /\ made' = [made EXCEPT ![k] = [@ EXCEPT !.run.rows = result]]
  /\ UNCHANGED <<result, changes, sync, isReady, mapped, subscribes, seen>>

\* The microtask after a pending run: a mounted view shows the stale result.
StalePublished(k) ==
  /\ made[k].running = "run" /\ made[k].run.microtask
  /\ LET e == made[k]
         shows == e.run.hadData /\ ~e.run.startedStale /\ e.snapshot.status = "stale"
     IN Publish(k, Outcome([e EXCEPT !.run.microtask = FALSE, !.run.publishedStale = shows],
                           IF shows THEN Subscribed(e) ELSE {}))
  /\ UNCHANGED <<result, changes, sync, isReady, mapped, subscribes>>

\* Changes that landed during the run were skipped: reconcile once more.
AfterRun(o, ok) ==
  LET again == Reconcile(o.e, changes, result, ok)
  IN Outcome(again.e, o.who \cup again.who)

RunSettles(k, ok) ==
  /\ made[k].running = "run" /\ made[k].run.rows # Undefined
  /\ LET o == Settled(made[k], made[k].run.rows, ok, changes)
     IN Publish(k, IF made[k].run.revision = Revision THEN o ELSE AfterRun(o, ok))
  /\ UNCHANGED <<result, changes, sync, isReady, mapped, subscribes>>

Next ==
  \/ Watch
  \/ \E relevant \in BOOLEAN, v \in Results, ok \in BOOLEAN : Change(relevant, v, ok)
  \/ \E k \in DOMAIN made :
       \/ \E l \in QueryListeners : Unsubscribe(k, l) \/ \E i, ok \in BOOLEAN : Subscribe(k, l, i, ok)
       \/ Evicted(k) \/ RunReads(k) \/ StalePublished(k)
       \/ \E ok \in BOOLEAN : RunSettles(k, ok) \/ \E runs \in BOOLEAN : Ready(k, ok, runs)

Spec == Init /\ [][Next]_queryVars

-----------------------------------------------------------------------------
(* Properties *)

\* At rest, heard by somebody and with a result.
Resting(e) == Refs(e) > 0 /\ e.running = "no" /\ ~e.error /\ e.data # Undefined
ShowsResult(e) == e.data = result /\ e.snapshot.status = "current"

\* query-cache.ts: what a subscribed entry of the map shows at rest is the query's result
\* on the replica as it is now, whatever changed while runs were in flight or the journal
\* was cut.  An entry that an eviction took out of the map, whose store the application
\* kept, shows it until the replica moves on from the revision it last ran at.
RestingIsCurrent ==
  \A k \in DOMAIN made :
    Resting(made[k]) /\ (k = mapped \/ made[k].revision = Revision) => ShowsResult(made[k])

\* The same of every entry that somebody listens to.
HeardIsCurrent == \A k \in DOMAIN made : Resting(made[k]) => ShowsResult(made[k])

\* query-cache.ts: no listener that asked to be primed is left with an earlier result, in
\* the map or out of it: at rest it has read the entry's data and whether it failed.
ListenersHaveRead ==
  \A k \in DOMAIN made : made[k].running = "no" =>
    \A l \in Subscribed(made[k]) : made[k].listeners[l].initial =>
       /\ seen[l].data = made[k].snapshot.data
       /\ (seen[l].status = "failed") = (made[k].snapshot.status = "failed")
=============================================================================

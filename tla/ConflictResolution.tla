-------------------------- MODULE ConflictResolution --------------------------
(***************************************************************************)
(* The application's conflict surface (packages/client/src/sync/           *)
(* conflicts.ts) over the outbox's conflicted rows, with the two calls of  *)
(* client.ts that a resolution makes.                                      *)
(*                                                                         *)
(* The view caches the conflicted rows, grouped, and is refreshed by the   *)
(* outbox's change stream.  A resolution walks the entries of a conflict   *)
(* one by one, awaiting the store for each; several resolutions and a      *)
(* detection may be under way at once, and the page may be reloaded.       *)
(***************************************************************************)
EXTENDS Integers, Sequences, FiniteSets, SequencesExt

CONSTANTS Losers,       \* Actions that lose a conflict
          ConflictOf,   \* the conflict detection files each under
          SubjectOf,    \* the subject each writes
          Callers,      \* concurrent calls of resolve
          MaxFaults, MaxReloads, MaxCalls

VARIABLES
  rows,        \* the outbox's conflicted rows in memory: detectedAt and the states of the subject
  stored,      \* the losers the store holds as conflicted
  load,        \* the outbox's rehydration: idle, loading, loaded
  view,        \* the grouped conflicts the manager has cached
  call,        \* each caller's resolution
  shown,       \* the losers whose optimistic writes the replica shows
  reasserts,   \* re-asserts queued per loser (durable and in memory alike)
  clock, faults, reloads, calls,
  discarded,   \* losers a call was asked to discard
  overlapped,  \* losers two calls worked on at once
  known        \* losers that were ever stored as conflicted

crVars == <<rows, stored, load, view, call, shown, reasserts, clock, faults, reloads, calls,
            discarded, overlapped, known>>

Idle == [pc |-> "idle", want |-> 0, how |-> "retry", todo |-> <<>>, resolved |-> {}, failed |-> {}]

-----------------------------------------------------------------------------
(* The grouped view                                                         *)

\* Mutant: the losing writes are taken in the order of their ids.
ByName(rs, ids) == SetToSeq(ids)

ByDetection(rs, ids) == SetToSortSeq(ids, LAMBDA a, b : rs[a].at < rs[b].at)

\* aggregateSubjectStates: the state before the first loss, and after the last.
SubjectState(rs, ordered, s) ==
  LET own == SelectSeq(ordered, LAMBDA id : SubjectOf[id] = s)
  IN  [subject |-> s, before |-> rs[own[1]].before, after |-> rs[own[Len(own)]].after]

\* groupConflicts: entries oldest first, conflicts by their oldest entry.
GroupConflicts(rs) ==
  LET of(c) == {id \in DOMAIN rs : ConflictOf[id] = c}
      one(c) == LET ordered == ByDetection(rs, of(c))
                IN  [id |-> c, entries |-> ordered,
                     states |-> {SubjectState(rs, ordered, SubjectOf[id]) : id \in of(c)}]
  IN  SetToSortSeq({one(c) : c \in {ConflictOf[id] : id \in DOMAIN rs}},
                   LAMBDA x, y : rs[x.entries[1]].at < rs[y.entries[1]].at)
Entries(v) == UNION {{v[i].entries[j] : j \in DOMAIN v[i].entries} : i \in DOMAIN v}

\* refresh, on a change of the outbox.  emit tells nobody when no depth changed.
Refresh == view' = IF DOMAIN rows' = DOMAIN rows THEN view ELSE GroupConflicts(rows')

Without(f, id) == [x \in DOMAIN f \ {id} |-> f[x]]
Fault == faults < MaxFaults /\ faults' = faults + 1

-----------------------------------------------------------------------------
(* The outbox: loading, and a detection.                                    *)

\* Both memoised loads start with the client; a failed one is retried by the
\* next call, and fails the calls that waited for it.
LoadDone ==
  /\ load = "loading" /\ load' = "loaded"
  /\ \E rs \in [stored -> [at : 1 .. clock, before : {0}, after : {1}]] :
       /\ \A a, b \in stored : a # b => rs[a].at # rs[b].at
       /\ rows' = rs
  /\ view' = GroupConflicts(rows')
  /\ shown' = shown \union stored
  /\ UNCHANGED <<stored, call, reasserts, clock, faults, reloads, calls, discarded, overlapped, known>>
LoadFails ==
  /\ load = "loading" /\ load' = "idle" /\ Fault
  /\ call' = [c \in Callers |-> IF call[c].pc = "load" THEN Idle ELSE call[c]]
  /\ UNCHANGED <<rows, stored, view, shown, reasserts, clock, reloads, calls, discarded, overlapped, known>>

\* A catch-up finds a loser: marked in memory, then in the store.
Detect(id) ==
  /\ load = "loaded" /\ id \notin DOMAIN rows /\ id \notin stored \union discarded /\ reasserts[id] = 0
  /\ clock' = clock + 1
  /\ rows' = [x \in DOMAIN rows \union {id} |->
                IF x = id THEN [at |-> clock + 1, before |-> clock, after |-> clock + 1] ELSE rows[x]]
  /\ stored' = stored \union {id} /\ shown' = shown \union {id}
  /\ Refresh
  /\ known' = known \union {id}
  /\ UNCHANGED <<load, call, reasserts, faults, reloads, calls, discarded, overlapped>>

\* The page goes away with everything but the store.
Reload ==
  /\ reloads < MaxReloads /\ reloads' = reloads + 1
  /\ rows' = <<>> /\ view' = <<>> /\ load' = "loading"
  /\ call' = [c \in Callers |-> Idle] /\ shown' = {}
  /\ UNCHANGED <<stored, reasserts, clock, faults, calls, discarded, overlapped, known>>

-----------------------------------------------------------------------------
(* resolve                                                                  *)

Set(c, pc) == call' = [call EXCEPT ![c].pc = pc]
CallUnchanged == UNCHANGED <<clock, reloads, calls, discarded, overlapped, known>>

Resolve(c, conflict, how) ==
  /\ call[c].pc \in {"idle", "done"} /\ calls < MaxCalls /\ calls' = calls + 1
  /\ call' = [call EXCEPT ![c] = [Idle EXCEPT !.pc = "load", !.want = conflict, !.how = how]]
  /\ load' = IF load = "idle" THEN "loading" ELSE load
  /\ UNCHANGED <<rows, stored, view, shown, reasserts, clock, faults, reloads, discarded, overlapped, known>>

\* An unknown conflict is a no-op.
Find(c) ==
  /\ call[c].pc = "load" /\ load = "loaded"
  /\ LET found == SelectSeq(view, LAMBDA v : v.id = call[c].want)
     IN  call' = [call EXCEPT ![c].pc = "next", ![c].todo = IF found = <<>> THEN <<>> ELSE found[1].entries]
  /\ UNCHANGED <<rows, stored, load, view, shown, reasserts, faults>> /\ CallUnchanged

\* resolveEntries: an entry the view no longer has is skipped.
NextEntry(c) ==
  /\ call[c].pc = "next"
  /\ IF call[c].todo = <<>> THEN Set(c, "done")
     ELSE IF call[c].todo[1] \notin Entries(view) THEN call' = [call EXCEPT ![c].todo = Tail(@)]
     ELSE Set(c, "apply")
  /\ UNCHANGED <<rows, stored, load, view, shown, reasserts, faults>> /\ CallUnchanged

Cur(c) == call[c].todo[1]
Working(id) == \E d \in Callers : call[d].pc \in {"put", "mirror", "delete"} /\ Cur(d) = id
\* The entry is done with, resolved or failed; the walk goes on.
Settle(c, field) ==
  call' = [call EXCEPT ![c] = IF field = "resolved"
                              THEN [@ EXCEPT !.pc = "next", !.todo = Tail(@), !.resolved = @ \union {Cur(c)}]
                              ELSE [@ EXCEPT !.pc = "next", !.todo = Tail(@), !.failed = @ \union {Cur(c)}]]

\* applyOne.  A retry is a no-op for a row no longer conflicted; a discard first
\* takes the optimistic writes away.
ApplyOne(c) ==
  /\ call[c].pc = "apply"
  /\ overlapped' = IF Working(Cur(c)) THEN overlapped \union {Cur(c)} ELSE overlapped
  /\ \/ /\ call[c].how = "retry"
        /\ IF Cur(c) \in DOMAIN rows THEN Set(c, "put") ELSE Settle(c, "resolved")
        /\ UNCHANGED <<shown, discarded>>
     \/ /\ call[c].how = "discard" /\ Set(c, "mirror")
        /\ shown' = shown \ {Cur(c)} /\ discarded' = discarded \union {Cur(c)}
  /\ UNCHANGED <<rows, stored, load, view, reasserts, clock, faults, reloads, calls, known>>

\* putAndDelete swaps the rows in one store write; memory follows it.
PutStored(c) ==
  /\ call[c].pc = "put"
  /\ rows' = Without(rows, Cur(c)) /\ stored' = stored \ {Cur(c)}
  /\ reasserts' = [reasserts EXCEPT ![Cur(c)] = @ + 1]
  /\ Refresh /\ Set(c, "optimistic")
  /\ UNCHANGED <<load, shown, faults>> /\ CallUnchanged
\* The re-assert is shown, and the flush it schedules is awaited.
Shown(c) ==
  /\ call[c].pc = "optimistic" /\ Settle(c, "resolved")
  /\ UNCHANGED <<rows, stored, load, view, shown, reasserts, faults>> /\ CallUnchanged

MirrorStored(c) ==
  /\ call[c].pc = "mirror"
  /\ IF Cur(c) \in DOMAIN rows THEN Set(c, "delete") ELSE Settle(c, "resolved")
  /\ UNCHANGED <<rows, stored, load, view, shown, reasserts, faults>> /\ CallUnchanged
DeleteStored(c) ==
  /\ call[c].pc = "delete"
  /\ rows' = Without(rows, Cur(c)) /\ stored' = stored \ {Cur(c)}
  /\ Refresh /\ Settle(c, "resolved")
  /\ UNCHANGED <<load, shown, reasserts, faults>> /\ CallUnchanged

\* A store request that fails ends the entry; the walk goes on to the next.
StoreFails(c) ==
  /\ call[c].pc \in {"put", "optimistic", "mirror", "delete"} /\ Fault
  /\ Settle(c, "failed")
  /\ UNCHANGED <<rows, stored, load, view, shown, reasserts>> /\ CallUnchanged

-----------------------------------------------------------------------------

CrInit ==
  /\ stored \in SUBSET Losers /\ rows = <<>> /\ view = <<>> /\ load = "loading"
  /\ call = [c \in Callers |-> Idle] /\ shown = {}
  /\ reasserts = [id \in Losers |-> 0]
  /\ clock = Cardinality(Losers) /\ faults = 0 /\ reloads = 0 /\ calls = 0
  /\ discarded = {} /\ overlapped = {} /\ known = stored

CrNext ==
  \/ LoadDone \/ LoadFails \/ Reload \/ \E id \in Losers : Detect(id)
  \/ \E c \in Callers :
       \/ \E conflict \in {ConflictOf[id] : id \in Losers}, how \in {"retry", "discard"} : Resolve(c, conflict, how)
       \/ Find(c) \/ NextEntry(c) \/ ApplyOne(c) \/ PutStored(c) \/ Shown(c)
       \/ MirrorStored(c) \/ DeleteStored(c) \/ StoreFails(c)

CrSpec == CrInit /\ [][CrNext]_crVars

-----------------------------------------------------------------------------
(* Properties                                                               *)

\* The cached view is the outbox's conflicted rows, grouped, oldest first, with
\* each subject's state before the first and after the last loss, although the
\* outbox only announces a change of its depths.
ViewIsOutbox ==
  /\ load = "loaded" => Entries(view) = DOMAIN rows
  /\ \A i \in DOMAIN view :
       /\ \A j, k \in DOMAIN view[i].entries :
            j < k => rows[view[i].entries[j]].at < rows[view[i].entries[k]].at
       /\ \A s \in view[i].states : s.before < s.after

\* A resolution interrupted anywhere, by a failed store, by another resolution
\* or by a reload, loses no write: a loser that was ever stored as conflicted
\* is still stored, or re-asserted, or somebody chose to discard it.
NothingLost ==
  \A id \in known \ discarded : id \in stored \/ reasserts[id] > 0

\* A retry that failed is not repeated beside itself: a loser is re-asserted at
\* most once, unless two resolutions worked on it at the same time.
OneReassert == \A id \in Losers \ overlapped : reasserts[id] <= 1

\* conflicts.ts: "a failed entry stays conflicted and resolvable".
FailedStaysConflicted ==
  \A c \in Callers : \A id \in call[c].failed \ overlapped : call[c].pc = "done" => id \in DOMAIN rows
=============================================================================

---------------------------- MODULE ClientSession ----------------------------
(***************************************************************************)
(* The client's sync session (packages/client/src/sync/client.ts): the     *)
(* subscription loop with its rebase phase, the live stream, backoff,      *)
(* takeover by a second subscribe(), membership refresh, the flush gate,   *)
(* and the cursors that decide what is requested again after a reload.     *)
(*                                                                         *)
(* Every await is a point where another loop, the server or a reload can   *)
(* step in.  Applying one action is two steps: the action reaches the log, *)
(* then the group's durable cursor moves.  A handshake is three: the       *)
(* durable cursors are read and sent, the server answers, and the answer   *)
(* is adopted, by which time other loops may have moved on.                *)
(*                                                                         *)
(* A loop has the groups of its own answers; which groups it has when      *)
(* answers to several handshakes cross is Membership's question.           *)
(*                                                                         *)
(* The server (external) stores actions and resolves its watermark later;  *)
(* a stream carries what is resolved while it is open and never replays.   *)
(* Seeding a group from the listing is one step here; GroupSeed takes it   *)
(* apart.                                                                  *)
(***************************************************************************)
EXTENDS Integers, Sequences, FiniteSets, FiniteSetsExt

CONSTANTS
  Subs,           \* subscribe() calls
  NGroups,        \* groups are 1..NGroups, in subscription order
  PageSizes,      \* rows of one catch-up page, one of these
  Depth,          \* bound: actions stored and not yet resolved
  MaxGsn,         \* bound: actions committed
  MaxAttempts,    \* MAX_RECONNECT_ATTEMPTS
  MaxFaults,      \* bound: requests that fail, streams that break, reloads
  MaxTurns        \* bound: sessions begun, commits, joins and faults, together

None == "none"
WakeUp == 0     \* a groups_changed control event; data events are GSNs
Groups == 1..NGroups
NoCursor == -1
Rejected == -2  \* the server's answer to a cursor above its watermark

SessionConstants ==
  /\ None \notin Subs /\ NGroups \in Nat \ {0} /\ PageSizes \subseteq Nat \ {0}
  /\ Depth \in Nat \ {0} /\ MaxAttempts \in Nat \ {0} /\ MaxGsn \in Nat
ASSUME SessionAssumption == SessionConstants

VARIABLES
  active,     \* activeSub
  sub,        \* each subscription's loop
  gate,       \* the flush gate is open
  conn,       \* connection state
  attempt,    \* reconnectAttempt
  applied,    \* GSNs in the durable action log
  durable,    \* durable cursor of each group, NoCursor for none
  cursor,     \* in-memory cursor of each group (groupCursors), 0 for none
  log,        \* server: group of every stored action, by GSN
  watermark,  \* server: every GSN up to here is resolved
  members,    \* server: the actor's groups are 1..members
  listing,    \* server: serves the group listing
  pageSize,   \* server: rows of a catch-up page
  drops, reloads,
  escaped     \* history: the Actions that the session is known to skip (see Resolve,
              \* StaleCursor, Adopt and CatchUp)

server == <<log, watermark, members, listing, pageSize>>
cursors == <<applied, durable, cursor>>
vars == <<active, sub, gate, conn, attempt, applied, durable, cursor, log,
          watermark, members, listing, pageSize, drops, reloads, escaped>>

\* phase: "new", "greeting" (the application's handshake), "asking" (the handshake of a
\* reconnect), "seed", "rebase", "opening", "resuming" (at a stale cursor), "live",
\* "closing", "backoff", "ended".
\* In the rebase phase: the group it is at, the offset of that group's next page
\* (NoCursor for the first, and on the last), the rows of the page that are still to be
\* applied, the lowest first, and the one half applied.  The offset of a stream that
\* opens or resumes is the cursor it was given.
\* call: the handshake under way, "no", "asked" or "answered", with the cursors sent, or
\* as they were answered, and the actor's groups.
ActiveSubscription ==
  [phase |-> "new", cancelled |-> FALSE, groups |-> 1, at |-> 1,
   offset |-> NoCursor, todo |-> {}, half |-> 0, stream |-> <<>>,
   call |-> "no", sent |-> [g \in Groups |-> NoCursor], roster |-> 1]

Max2(a, b) == IF a > b THEN a ELSE b

Init ==
  /\ active = None
  /\ sub = [s \in Subs |-> ActiveSubscription]
  /\ gate = TRUE /\ conn = "connecting" /\ attempt = 0
  /\ applied = {} /\ durable = [g \in Groups |-> NoCursor] /\ cursor = [g \in Groups |-> 0]
  /\ log = <<>> /\ watermark = 0 /\ members = 1
  /\ listing \in BOOLEAN /\ pageSize \in PageSizes
  /\ drops = 0 /\ reloads = 0 /\ escaped = {}

Loop(s, r) == sub' = [sub EXCEPT ![s] = r]

Turns ==
  Cardinality({s \in Subs : sub[s].phase # "new"}) + Len(log) + members - 1 + drops + reloads

\* ConnectionStateMachine.transition; who listens is not modelled.
Transition(next) == conn' = next

-----------------------------------------------------------------------------
(* The subscription loop *)

\* The loop is over.
Over(r) == [ActiveSubscription EXCEPT !.phase = "ended", !.cancelled = r.cancelled, !.groups = r.groups]

\* handshake: the request carries the durable cursors.
Asked(r) == [r EXCEPT !.call = "asked", !.sent = durable]
Heard(r) == [r EXCEPT !.call = "no", !.sent = ActiveSubscription.sent, !.roster = 1]

\* The server answers with the actor's groups and the cursors it was sent, but rejects
\* one above its watermark.
Answer(s) ==
  /\ sub[s].call = "asked"
  /\ Loop(s, [sub[s] EXCEPT !.call = "answered", !.roster = members,
                            !.sent = [g \in Groups |-> IF @[g] > watermark THEN Rejected ELSE @[g]]])
  /\ UNCHANGED <<active, gate, conn, attempt, cursors, server, drops, reloads, escaped>>

\* Between the first page of a group and its last.
MidGroup(r) == r.phase = "rebase" /\ (r.todo # {} \/ r.half # 0 \/ r.offset # NoCursor)

\* History: what a loop goes on from, whatever another does to the log: the groups it has
\* drained and streams, for one that was taken over the one it is at; and what an answer
\* on its way carries.
BuildsOn(r, n) ==
  \/ MidGroup(r) /\ log[n] = r.at
  \/ ~r.cancelled /\ r.phase = "rebase" /\ log[n] < r.at
  \/ ~r.cancelled /\ r.phase \in {"opening", "live"} /\ log[n] <= r.groups
  \/ r.phase \in {"live", "closing"} /\ log[n] = 1
  \/ r.phase = "resuming" /\ log[n] <= r.groups
Carries(r, n) == r.call # "no" /\ n <= r.sent[log[n]]

\* The answer becomes the memory cursors.  If a cursor was rejected, the log and every
\* durable cursor are dropped, while the memory cursors of the groups that were not
\* rejected are restored all the same.
Adopt(s) ==
  LET r == sub[s]
      of(g) == IF g <= r.roster THEN r.sent[g] ELSE NoCursor
  IN /\ r.call = "answered"
     /\ cursor' = [g \in Groups |-> Max2(of(g), 0)]
     /\ IF \E g \in Groups : of(g) = Rejected
        THEN /\ applied' = {} /\ durable' = [g \in Groups |-> NoCursor]
             /\ escaped' = escaped \cup {n \in applied :
                  \E t \in Subs : BuildsOn(sub[t], n) \/ (t # s /\ Carries(sub[t], n))}
        ELSE UNCHANGED <<applied, durable, escaped>>

\* The groups a loop has to seed, given the durable cursors d: those without a cursor,
\* if the server has the listing.
ToSeed(from, to, d) == {g \in from..to : listing /\ d[g] = NoCursor}

\* catchUpSubscribed: the groups of the answer are seeded and then drained, in turn.
Rebasing(r) ==
  [Heard(r) EXCEPT !.phase = IF ToSeed(1, r.roster, durable') = {} THEN "rebase" ELSE "seed",
                   !.groups = r.roster, !.at = 1]

\* cancelSubscription of the loop r; a loop that sleeps wakes up and ends.
Cancelled(r) ==
  IF r.phase \in {"backoff", "opening", "live", "closing"} /\ r.half = 0 /\ r.call = "no"
  THEN Over([r EXCEPT !.cancelled = TRUE])
  ELSE [r EXCEPT !.cancelled = TRUE, !.stream = <<>>]

\* The application's handshake, before it subscribes.
Greet(s) ==
  /\ sub[s].phase = "new" /\ Turns < MaxTurns
  /\ Loop(s, Asked([sub[s] EXCEPT !.phase = "greeting"]))
  /\ UNCHANGED <<active, gate, conn, attempt, cursors, server, drops, reloads, escaped>>

\* subscribe: the running session is taken over with the gate as it is, and the new
\* loop's rebase phase closes it.
Subscribe(s) ==
  /\ sub[s].phase = "greeting"
  /\ active' = s
  /\ Adopt(s)
  /\ sub' = [t \in Subs |-> CASE t = s -> Rebasing(sub[s])
                              [] t = active -> Cancelled(sub[t])
                              [] OTHER -> sub[t]]
  /\ Transition(IF conn = "live" THEN conn ELSE "connecting")
  /\ gate' = FALSE
  /\ UNCHANGED <<attempt, server, drops, reloads>>

\* The unsubscribe function: ends the session and lets pending writes go.  It is inert
\* when another subscription has taken over.
Unsubscribe(s) ==
  /\ active = s
  /\ Loop(s, Cancelled(sub[s]))
  /\ active' = None
  /\ gate' = TRUE /\ Transition("offline")
  /\ UNCHANGED <<attempt, cursors, server, drops, reloads, escaped>>

\* The end of connectAndDrain for any reason, then scheduleReconnect.
Disconnected(s) ==
  \/ /\ sub[s].cancelled
     /\ Loop(s, Over(sub[s]))
     /\ UNCHANGED <<gate, conn, attempt>>
  \/ /\ ~sub[s].cancelled /\ attempt >= MaxAttempts
     /\ Loop(s, Over(sub[s]))
     /\ Transition("offline") /\ gate' = TRUE
     /\ UNCHANGED attempt
  \/ /\ ~sub[s].cancelled /\ attempt < MaxAttempts
     /\ Loop(s, [Over(sub[s]) EXCEPT !.phase = "backoff"])
     /\ Transition("reconnecting") /\ attempt' = attempt + 1
     /\ UNCHANGED gate

\* The timer fires: the loop connects again.  connectAndDrain closes the gate before it
\* awaits anything, and asks for the authoritative group set.
Reconnect(s) ==
  /\ sub[s].phase = "backoff"
  /\ Loop(s, Asked([sub[s] EXCEPT !.phase = "asking"]))
  /\ Transition("connecting") /\ gate' = FALSE
  /\ UNCHANGED <<active, attempt, cursors, server, drops, reloads, escaped>>

\* A loop that was cancelled while it asked adopts the answer, and ends.
Reconnected(s) ==
  /\ sub[s].phase = "asking"
  /\ Adopt(s)
  /\ Loop(s, IF sub[s].cancelled THEN Over(sub[s]) ELSE Rebasing(sub[s]))
  /\ UNCHANGED <<active, gate, conn, attempt, server, drops, reloads>>

-----------------------------------------------------------------------------
(* The rebase phase: seed and catch up every group, sweep, open the gate *)

\* bootstrapGroupListing of the next group: its cursor becomes the watermark, with all
\* that is resolved in the log.
Seeded(g) ==
  /\ applied' = applied \cup {n \in 1..watermark : log[n] = g}
  /\ durable' = [durable EXCEPT ![g] = watermark]
  /\ cursor' = [cursor EXCEPT ![g] = Max2(@, watermark)]
Seed(s) ==
  LET left == ToSeed(sub[s].at, sub[s].groups, durable)
      next == ToSeed(Min(left) + 1, sub[s].groups, durable)
  IN /\ sub[s].phase = "seed"
     /\ IF left = {} THEN UNCHANGED cursors ELSE Seeded(Min(left))
     /\ Loop(s, IF left = {} \/ next = {}
                THEN [sub[s] EXCEPT !.phase = "rebase", !.at = 1]
                ELSE [sub[s] EXCEPT !.at = Min(next)])
     /\ UNCHANGED <<active, gate, conn, attempt, server, drops, reloads, escaped>>

\* External: the catch-up endpoint, the first pageSize rows of the group.  The offset is
\* exclusive and the rows are bounded by the watermark, but at watermark 0 not at all.
Bound == IF watermark = 0 THEN Len(log) ELSE watermark
RowsAfter(g, offset) == {n \in DOMAIN log : log[n] = g /\ n > offset /\ n <= Bound}
PageAfter(g, offset) ==
  LET rows == RowsAfter(g, offset)
  IN {n \in rows : Cardinality({m \in rows : m < n}) < pageSize}

\* catchUp: the first page starts at the durable cursor, or else the memory cursor, the
\* others where the last one ended; a page that is not full is the last.  The memory
\* cursor follows once the page is applied.
Offset(g) == IF durable[g] = NoCursor THEN cursor[g] ELSE durable[g]
\* History: what a group without a durable cursor skips when it starts from a memory
\* cursor that a reset, or the last event of a loop taken over, has left behind.
SkippedTo(g) == {n \in DOMAIN log \ applied : log[n] = g /\ durable[g] = NoCursor /\ n <= cursor[g]}
Followed(g, to) == cursor' = [cursor EXCEPT ![g] = Max2(@, to)]
NextGroup(r) == IF r.offset = NoCursor THEN [r EXCEPT !.at = @ + 1] ELSE r
CatchUp(s) ==
  LET g == sub[s].at
      page == PageAfter(g, IF sub[s].offset = NoCursor THEN Offset(g) ELSE sub[s].offset)
      r == [sub[s] EXCEPT !.todo = page,
                          !.offset = IF Cardinality(page) < pageSize THEN NoCursor ELSE Max(page)]
  IN /\ sub[s].phase = "rebase" /\ g <= sub[s].groups
     /\ sub[s].todo = {} /\ sub[s].half = 0
     /\ IF page = {}
        THEN Loop(s, NextGroup(r)) /\ Followed(g, durable[g])
        ELSE Loop(s, r) /\ UNCHANGED cursor
     /\ escaped' = IF sub[s].offset = NoCursor THEN escaped \cup SkippedTo(g) ELSE escaped
     /\ UNCHANGED <<active, gate, conn, attempt, applied, durable, server, drops, reloads>>

CatchUpFails(s) ==
  /\ sub[s].phase \in {"asking", "seed", "rebase"} /\ sub[s].todo = {} /\ sub[s].half = 0
  /\ drops + reloads < MaxFaults /\ Turns < MaxTurns
  /\ drops' = drops + 1
  /\ Disconnected(s)
  /\ UNCHANGED <<active, cursors, server, reloads, escaped>>

\* _applyAction, first half: the action is in the log.
Append1(n) == applied' = applied \cup {n} /\ UNCHANGED durable
\* Second half: the durable cursor of group g moves.
Advance(g, n) == durable' = [durable EXCEPT ![g] = Max2(@, n)] /\ UNCHANGED applied

ApplyPage(s) ==
  /\ sub[s].phase = "rebase" /\ sub[s].todo # {}
  /\ IF sub[s].half = 0
     THEN /\ Append1(Min(sub[s].todo))
          /\ Loop(s, [sub[s] EXCEPT !.half = Min(sub[s].todo)])
          /\ UNCHANGED cursor
     ELSE LET r == [sub[s] EXCEPT !.half = 0, !.todo = @ \ {sub[s].half}]
          IN /\ Advance(sub[s].at, sub[s].half)
             /\ IF r.todo = {}
                THEN Loop(s, NextGroup(r)) /\ Followed(sub[s].at, durable'[sub[s].at])
                ELSE Loop(s, r) /\ UNCHANGED cursor
  /\ UNCHANGED <<active, gate, conn, attempt, server, drops, reloads, escaped>>

\* computeResumeCursor: the stream asks from the largest cursor of the subscribed groups.
ResumeCursor(r) == Max({cursor[g] : g \in 1..r.groups})
Opening(r) == [r EXCEPT !.phase = "opening", !.at = 1, !.offset = ResumeCursor(r)]

\* Mutant: a loop that was taken over opens the gate all the same.
CheckpointAnyway(s) ==
  /\ sub[s].phase = "rebase" /\ sub[s].at > sub[s].groups
  /\ Loop(s, IF sub[s].cancelled THEN Over(sub[s]) ELSE Opening(sub[s]))
  /\ gate' = TRUE /\ Transition("live")
  /\ UNCHANGED <<active, attempt, cursors, server, drops, reloads, escaped>>

\* Mutant: the gate stays closed at the checkpoint.
CheckpointHeld(s) ==
  /\ sub[s].phase = "rebase" /\ sub[s].at > sub[s].groups
  /\ Loop(s, IF sub[s].cancelled THEN Over(sub[s]) ELSE Opening(sub[s]))
  /\ Transition("live")
  /\ UNCHANGED <<active, gate, attempt, cursors, server, drops, reloads, escaped>>

\* Every group is drained and the sweep has run: the gate opens, the stream is
\* requested.  A loop that was cancelled meanwhile ends without either.
Checkpoint(s) ==
  /\ sub[s].phase = "rebase" /\ sub[s].at > sub[s].groups
  /\ \/ /\ sub[s].cancelled
        /\ Loop(s, Over(sub[s]))
        /\ UNCHANGED <<gate, conn>>
     \/ /\ ~sub[s].cancelled
        /\ Loop(s, Opening(sub[s]))
        /\ gate' = TRUE /\ Transition("live")
  /\ UNCHANGED <<active, attempt, cursors, server, drops, reloads, escaped>>

-----------------------------------------------------------------------------
(* The live stream *)

\* The server takes the connection; from here it carries what is resolved.
Open(s) ==
  /\ sub[s].phase = "opening" /\ sub[s].offset <= watermark
  /\ Loop(s, [sub[s] EXCEPT !.phase = "live", !.offset = NoCursor])
  /\ UNCHANGED <<active, gate, conn, attempt, cursors, server, drops, reloads, escaped>>

\* A cursor ahead of the watermark is answered with one control event: every cursor
\* becomes the server's resume point, group by group, the memory cursor and then, an
\* await later, the durable one.  The event is the first of its connection, so the
\* attempts start anew.
\* History: the Action at the resume point may be one that no page has brought.
StaleCursor(s) ==
  LET from == watermark + 1
  IN /\ sub[s].phase = "opening" /\ sub[s].offset > watermark
     /\ cursor' = [cursor EXCEPT ![1] = from]
     /\ Loop(s, [sub[s] EXCEPT !.phase = "resuming", !.offset = from])
     /\ attempt' = 0
     /\ escaped' = escaped \cup {n \in {from} \ applied : log[n] <= sub[s].groups}
     /\ UNCHANGED <<active, gate, conn, applied, durable, server, drops, reloads>>
Resumes(s) ==
  LET r == sub[s]
  IN /\ r.phase = "resuming"
     /\ durable' = [durable EXCEPT ![r.at] = r.offset]
     /\ IF r.at < r.groups
        THEN /\ cursor' = [cursor EXCEPT ![r.at + 1] = r.offset]
             /\ Loop(s, [r EXCEPT !.at = @ + 1])
             /\ UNCHANGED <<gate, conn, attempt>>
        ELSE Disconnected(s) /\ UNCHANGED cursor
     /\ UNCHANGED <<active, applied, server, drops, reloads, escaped>>

\* handleSSEEvent of a data event, both halves.  The first event of a connection
\* resets the attempts, and nothing raises them while it is open.  The event does not name its
\* group: the durable cursor of the first group moves, and every memory cursor.
Drains(r) == r.phase \in {"live", "closing"} /\ r.half = 0 /\ r.call = "no"
Receive(s) ==
  /\ Drains(sub[s]) /\ sub[s].stream # <<>> /\ Head(sub[s].stream) # WakeUp
  /\ attempt' = 0
  /\ Append1(Head(sub[s].stream))
  /\ Loop(s, [sub[s] EXCEPT !.half = Head(sub[s].stream), !.stream = Tail(@)])
  /\ UNCHANGED <<active, gate, conn, cursor, server, drops, reloads, escaped>>

Received(s) ==
  /\ sub[s].phase \in {"live", "closing"} /\ sub[s].half # 0
  /\ Advance(1, sub[s].half)
  /\ cursor' = [g \in Groups |-> IF g <= sub[s].groups THEN Max2(cursor[g], sub[s].half) ELSE cursor[g]]
  /\ Loop(s, IF sub[s].cancelled THEN Over(sub[s]) ELSE [sub[s] EXCEPT !.half = 0])
  /\ UNCHANGED <<active, gate, conn, attempt, server, drops, reloads, escaped>>

\* A groups_changed control event: the loop asks for the new set.
GroupsChanged(s) ==
  /\ Drains(sub[s]) /\ sub[s].stream # <<>> /\ Head(sub[s].stream) = WakeUp
  /\ attempt' = 0
  /\ Loop(s, Asked([sub[s] EXCEPT !.stream = Tail(@)]))
  /\ UNCHANGED <<active, gate, conn, cursors, server, drops, reloads, escaped>>

\* refreshMembership: a changed set closes the stream so that the loop seeds and drains
\* the rest.  What a closed stream still holds is delivered first.
Refreshed(s) ==
  /\ sub[s].phase \in {"live", "closing"}
  /\ Adopt(s)
  /\ Loop(s, IF sub[s].cancelled THEN Over(sub[s])
             ELSE [Heard(sub[s]) EXCEPT !.groups = sub[s].roster,
                                        !.phase = IF sub[s].groups = sub[s].roster THEN @ ELSE "closing"])
  /\ UNCHANGED <<active, gate, conn, attempt, server, drops, reloads>>

Closed(s) ==
  /\ sub[s].phase = "closing" /\ Drains(sub[s]) /\ sub[s].stream = <<>>
  /\ Disconnected(s)
  /\ UNCHANGED <<active, cursors, server, drops, reloads, escaped>>

\* The connection breaks, or the handshake fails; what the stream still held is lost.
StreamBreaks(s) ==
  /\ sub[s].phase \in {"opening", "live"} /\ sub[s].half = 0
  /\ drops + reloads < MaxFaults /\ Turns < MaxTurns
  /\ drops' = drops + 1
  /\ Disconnected(s)
  /\ UNCHANGED <<active, cursors, server, reloads, escaped>>

-----------------------------------------------------------------------------
(* External: the server, and the page *)

Commit(g) ==
  /\ Len(log) < MaxGsn /\ Len(log) - watermark < Depth /\ Turns < MaxTurns
  /\ log' = Append(log, g)
  /\ UNCHANGED <<active, sub, gate, conn, attempt, cursors, watermark, members,
                 listing, pageSize, drops, reloads, escaped>>

\* The next commit is resolved and pushed to every open stream of its group.
Watches(r, g) == r.phase = "live" /\ g <= r.groups /\ ~r.cancelled
\* History: what a loop has drained the group of, while its stream is not open yet.
Drained(r, g) ==
  ~r.cancelled /\ \/ r.phase = "opening" /\ g <= r.groups
                  \/ r.phase = "rebase" /\ (g < r.at \/ (g = r.at /\ r.todo # {} /\ r.offset = NoCursor))
Resolve ==
  LET n == watermark + 1
  IN /\ n \in DOMAIN log
     /\ watermark' = n
     /\ sub' = [s \in Subs |-> IF Watches(sub[s], log[n])
                               THEN [sub[s] EXCEPT !.stream = Append(@, n)] ELSE sub[s]]
     /\ escaped' = IF n \notin applied /\ \E s \in Subs : Drained(sub[s], log[n])
                   THEN escaped \cup {n} ELSE escaped
     /\ UNCHANGED <<active, gate, conn, attempt, cursors, log, members, listing, pageSize, drops, reloads>>

\* The actor joins the next group; its open streams are told.
JoinGroup ==
  /\ members < NGroups /\ Turns < MaxTurns
  /\ members' = members + 1
  /\ sub' = [s \in Subs |-> IF Watches(sub[s], 1)
                            THEN [sub[s] EXCEPT !.stream = Append(@, WakeUp)] ELSE sub[s]]
  /\ UNCHANGED <<active, gate, conn, attempt, cursors, log, watermark, listing, pageSize, drops, reloads, escaped>>

\* A reload: the log and the durable cursors stay, the rest starts anew.
Reload ==
  /\ drops + reloads < MaxFaults /\ Turns < MaxTurns
  /\ reloads' = reloads + 1
  /\ active' = None /\ gate' = TRUE /\ Transition("connecting") /\ attempt' = 0
  /\ sub' = [s \in Subs |-> IF sub[s].phase = "new" THEN sub[s]
                            ELSE [ActiveSubscription EXCEPT !.phase = "ended"]]
  /\ cursor' = [g \in Groups |-> 0]
  /\ UNCHANGED <<applied, durable, server, drops, escaped>>

-----------------------------------------------------------------------------
LoopStep(s) ==
  \/ Answer(s) \/ Seed(s) \/ CatchUp(s) \/ ApplyPage(s) \/ Checkpoint(s)
  \/ Open(s) \/ StaleCursor(s) \/ Resumes(s) \/ Receive(s) \/ Received(s)
  \/ GroupsChanged(s) \/ Refreshed(s) \/ Closed(s) \/ Reconnect(s) \/ Reconnected(s)

Next ==
  \/ \E s \in Subs : Greet(s) \/ Subscribe(s) \/ Unsubscribe(s) \/ CatchUpFails(s) \/ StreamBreaks(s)
  \/ \E s \in Subs : LoopStep(s)
  \/ \E g \in Groups : Commit(g)
  \/ Resolve \/ JoinGroup \/ Reload

Spec == Init /\ [][Next]_vars

\* Requests are answered, timers fire and the event loop runs; the server
\* resolves what it has stored.
FairSpec ==
  /\ Spec
  /\ \A s \in Subs : WF_vars(LoopStep(s))
  /\ WF_vars(Resolve)

-----------------------------------------------------------------------------
(* Properties *)

\* The rebase phase holds the wire: while the current subscription is catching
\* up the gate is closed, whatever a loop that was taken over still does.
RebaseHoldsGate ==
  active # None /\ sub[active].phase \in {"asking", "seed", "rebase"} => ~gate

\* Base first, cursor second: after a reload at any point no action at or below a group's
\* durable cursor is missing from the log, nor, while the session is up, below the memory
\* cursor that a write is based on.  Excepted are four ways of skipping one, each named
\* where it happens: the server resolves it between the group's last page and the opening
\* of the stream (Resolve), it stands at a resume point that no page brought
\* (StaleCursor), a reset drops it beneath another loop that builds on it or an answer
\* that carries it (Adopt), or a group without a durable cursor starts from a memory
\* cursor left behind above it (CatchUp).
Claimed(g) ==
  IF active # None /\ sub[active].phase \in {"opening", "live"} /\ g <= sub[active].groups
  THEN Max2(durable[g], cursor[g]) ELSE durable[g]
GapsOnlyAtHandOver ==
  \A n \in DOMAIN log : n <= Claimed(log[n]) => n \in applied \cup escaped

\* A subscription that rebases holds the wire and skips nothing it is not told of.
RebaseIsComplete == RebaseHoldsGate /\ GapsOnlyAtHandOver

\* ebb_server/README.md: "Gap-filling is the client's HTTP catch-up before it
\* opens the stream": nothing at or below a durable cursor is missing.
NoGapBelowCursor ==
  \A n \in DOMAIN log : n <= durable[log[n]] => n \in applied

\* appliedBaseGsn, the base that a write is stamped with: the smallest cursor of the
\* subscribed groups that have one.
AppliedBaseGsn ==
  LET of(groups) == {cursor[g] : g \in groups} \ {0}
      best(cs, less(_, _)) == IF cs = {} THEN 0 ELSE CHOOSE c \in cs : \A d \in cs : ~less(d, c)
  IN IF active # None THEN best(of(1..sub[active].groups), <) ELSE best(of(Groups), >)

\* client.ts: "The highest server sequence the client can claim to have applied".
BaseIsApplied ==
  active # None =>
    \A n \in DOMAIN log :
      log[n] <= sub[active].groups /\ n <= AppliedBaseGsn => n \in applied \cup escaped
=============================================================================

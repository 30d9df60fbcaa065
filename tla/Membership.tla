----------------------------- MODULE Membership -----------------------------
(***************************************************************************)
(* How a client follows its actor's group membership (client.ts handshake, *)
(* refreshMembership, reconcileLiveMembership, reconcileSubscriptionScope).*)
(*                                                                         *)
(* The server says only that membership changed; the client asks for the   *)
(* whole group set with a handshake and applies the difference from the    *)
(* set of its previous handshake to the live subscription.  Handshakes are *)
(* also made by the application, and any two of them may overlap.          *)
(*                                                                         *)
(* One session at a time: a subscribe() that takes a session over is in    *)
(* ClientSession.                                                          *)
(***************************************************************************)
EXTENDS Naturals, FiniteSets

CONSTANTS
  Groups,
  MaxMoves,    \* bound on membership and scope changes at the server
  MaxCalls,    \* bound on handshakes made by the application
  MaxFaults    \* bound on failed requests and dropped streams

Callers == {"app", "loop"}

VARIABLES
  member,      \* server: the groups the actor is in
  outside,     \* server: the groups that are not in the app's scope
  scoped,      \* the client was given an appId
  actorGroups, \* client: the groups of the last handshake adopted
  inAppScope,  \* client: the same, kept only with an appId
  handshakeRan,
  cursors,     \* client: the groups with a cached cursor
  sub,         \* client: the live subscription and its connection
  scope,       \* client: the groups whose rows are resident
  wake,        \* a groups_changed event is on its way on the open stream
  call,        \* the handshakes in flight, by caller
  budget,      \* what is left of the bounds
  declined,    \* history: groups the application chose not to subscribe to
  extra,       \* history: groups it subscribed to without being a member
  missed       \* history: groups whose last change no difference will show

mbVars == <<member, outside, scoped, actorGroups, inAppScope, handshakeRan, cursors,
            sub, scope, wake, call, budget, declined, extra, missed>>

Idle == [at |-> "idle", compare |-> FALSE, previous |-> {}, answer |-> {},
         valid |-> {}, crossed |-> FALSE]

NoSub == [on |-> FALSE, groups |-> {}, phase |-> "none", opened |-> {}]

SymDiff(A, B) == (A \ B) \cup (B \ A)

(***************************************************************************)
(* The server.  A change of membership wakes the streams that are open; a  *)
(* change of a group's app scope wakes nobody.                             *)
(***************************************************************************)
Streaming == sub.on /\ sub.phase \in {"open", "handling"}

IsInAppScope(g) == ~scoped \/ g \notin outside

Visible == {g \in member : IsInAppScope(g)}

\* The change comes after the answer of the refresh that the stream about to
\* open rests on, and before that stream is there to be woken; so does every
\* change on the first connect, which makes no handshake.
TooLate ==
  /\ sub.on
  /\ \/ sub.phase \in {"first", "ready"}
     \/ sub.phase = "refresh" /\ call["loop"].at = "answered"

MoveMember(g) ==
  /\ budget.moves > 0
  /\ member' = SymDiff(member, {g})
  /\ wake' = (wake \/ Streaming)
  /\ missed' = IF TooLate THEN missed \cup {g} ELSE missed
  /\ budget' = [budget EXCEPT !.moves = @ - 1]
  /\ UNCHANGED <<outside, scoped, actorGroups, inAppScope, handshakeRan, cursors, sub, scope,
                 call, declined, extra>>

MoveScope(g) ==
  /\ scoped /\ budget.moves > 0
  /\ outside' = SymDiff(outside, {g})
  /\ missed' = missed \cup {g}
  /\ budget' = [budget EXCEPT !.moves = @ - 1]
  /\ UNCHANGED <<member, scoped, actorGroups, inAppScope, handshakeRan, cursors, sub, scope,
                 wake, call, declined, extra>>

(***************************************************************************)
(* A handshake: the request, the server's answer, and its adoption.        *)
(***************************************************************************)
Asked(compare) ==
  [Idle EXCEPT !.at = "asked", !.compare = compare /\ handshakeRan,
               !.previous = IF compare /\ handshakeRan THEN actorGroups ELSE {},
               !.crossed = \E c \in Callers : call[c].at # "idle"]

\* A call that begins while another is in flight marks both.
WithCall(c, k) ==
  [d \in Callers |-> IF d = c THEN k
                     ELSE [call[d] EXCEPT !.crossed = @ \/ call[d].at # "idle"]]

\* The server's log may have lost what a cursor claims: it rejects that group.
Answer(c, rejected) ==
  /\ call[c].at = "asked"
  /\ rejected \subseteq cursors
  /\ call' = [call EXCEPT ![c].at = "answered", ![c].answer = Visible,
                          ![c].valid = Visible \ rejected]
  /\ UNCHANGED <<member, outside, scoped, actorGroups, inAppScope, handshakeRan, cursors, sub,
                 scope, wake, budget, declined, extra, missed>>

\* The group set a live subscription adopts: an empty one ends the session,
\* a new one reopens the stream.
ApplyLiveSubscription(s, kept) ==
  IF ~s.on \/ kept = s.groups THEN s
  ELSE IF kept = {} THEN NoSub
  ELSE [s EXCEPT !.groups = kept,
                 !.phase = IF @ \in {"open", "handling"} THEN "waiting" ELSE @]

\* With an appId every handshake drops the groups that left the app's scope.
ReconcileSubscriptionScope(s, next) ==
  IF ~scoped THEN s ELSE ApplyLiveSubscription(s, s.groups \ (inAppScope \ next))

\* Mutant: only groups that joined are reconciled.
ReconcileGainsOnly(s, k) ==
  IF ~k.compare THEN s
  ELSE ApplyLiveSubscription(s, s.groups \cup (k.answer \ k.previous))

\* A refresh also applies the difference from the handshake before it.
ReconcileLiveMembership(s, k) ==
  IF ~k.compare THEN s
  ELSE ApplyLiveSubscription(s, (s.groups \ (k.previous \ k.answer))
                                  \cup (k.answer \ k.previous))

\* Where the loop goes on after its refresh.
AfterRefresh(s, c) ==
  IF c # "loop" \/ ~s.on THEN s
  ELSE [s EXCEPT !.phase = IF @ = "refresh" THEN "ready"
                           ELSE IF @ = "handling" THEN "open" ELSE @]

\* What this adoption hides from every later difference: all that changed,
\* when the calls crossed; when it is the application's own handshake, what
\* the scope reconciliation does not apply.
Hidden(c, k) ==
  IF k.crossed THEN SymDiff(actorGroups, k.answer) \cup SymDiff(k.previous, k.answer)
  ELSE IF c = "app" /\ handshakeRan /\ sub.on
  THEN SymDiff(actorGroups, k.answer) \ (IF scoped THEN actorGroups \ k.answer ELSE {})
  ELSE {}

\* What a refresh that crossed no other call reconciles and is still so.
Shown(k) ==
  IF k.compare /\ ~k.crossed
  THEN {g \in SymDiff(k.previous, k.answer) : (g \in k.answer) = (g \in Visible)}
  ELSE {}

Adopt(c) ==
  LET k    == call[c]
      next == k.answer
      s    == AfterRefresh(ReconcileLiveMembership(ReconcileSubscriptionScope(sub, next), k), c)
  IN  /\ k.at = "answered"
      /\ cursors' = k.valid
      /\ actorGroups' = next
      /\ handshakeRan' = TRUE
      /\ inAppScope' = IF scoped THEN next ELSE inAppScope
      /\ sub' = s
      /\ scope' = IF sub.on /\ s.groups # sub.groups THEN s.groups ELSE scope
      /\ wake' = (wake /\ s.on /\ s.phase \in {"open", "handling"})
      /\ call' = [call EXCEPT ![c] = Idle]
      /\ declined' = IF handshakeRan THEN declined \cap next ELSE next \ sub.groups
      /\ extra' = IF handshakeRan THEN extra \ next ELSE sub.groups \ next
      /\ missed' = (missed \ Shown(k)) \cup Hidden(c, k)
                     \cup (IF wake \/ s.phase \in {"waiting", "refresh"} THEN {}
                           ELSE SymDiff(next, Visible))
      /\ UNCHANGED <<member, outside, scoped, budget>>

\* The request or its answer is lost: the application's call throws, the
\* loop's ends the connection and is made again on the reconnect.
HandshakeFails(c) ==
  /\ call[c].at # "idle" /\ budget.faults > 0
  /\ call' = [call EXCEPT ![c] = Idle]
  /\ sub' = IF c = "loop" /\ sub.on THEN [sub EXCEPT !.phase = "waiting"] ELSE sub
  /\ wake' = (wake /\ c # "loop")
  /\ budget' = [budget EXCEPT !.faults = @ - 1]
  /\ UNCHANGED <<member, outside, scoped, actorGroups, inAppScope, handshakeRan, cursors,
                 scope, declined, extra, missed>>

AppHandshake ==
  /\ call["app"].at = "idle" /\ budget.calls > 0
  /\ call' = WithCall("app", Asked(FALSE))
  /\ budget' = [budget EXCEPT !.calls = @ - 1]
  /\ UNCHANGED <<member, outside, scoped, actorGroups, inAppScope, handshakeRan, cursors, sub,
                 scope, wake, declined, extra, missed>>

(***************************************************************************)
(* The session: subscribe, connect, the stream, and the reconnect.         *)
(***************************************************************************)
Subscribe(choice) ==
  /\ ~sub.on /\ call["loop"].at = "idle"
  /\ sub' = [on |-> TRUE, groups |-> choice, phase |-> "first", opened |-> {}]
  /\ scope' = choice
  /\ declined' = IF handshakeRan THEN actorGroups \ choice ELSE {}
  /\ extra' = IF handshakeRan THEN choice \ actorGroups ELSE choice
  /\ missed' = missed \cup SymDiff(actorGroups, Visible)
  /\ UNCHANGED <<member, outside, scoped, actorGroups, inAppScope, handshakeRan, cursors, wake,
                 call, budget>>

OpenStream ==
  /\ sub.on /\ sub.phase \in {"first", "ready"}
  /\ sub' = [sub EXCEPT !.phase = "open", !.opened = sub.groups]
  /\ cursors' = cursors \cup sub.groups
  /\ UNCHANGED <<member, outside, scoped, actorGroups, inAppScope, handshakeRan, scope, wake,
                 call, budget, declined, extra, missed>>

StreamDrops ==
  /\ sub.on /\ sub.phase = "open" /\ budget.faults > 0
  /\ sub' = [sub EXCEPT !.phase = "waiting"]
  /\ wake' = FALSE
  /\ budget' = [budget EXCEPT !.faults = @ - 1]
  /\ UNCHANGED <<member, outside, scoped, actorGroups, inAppScope, handshakeRan, cursors, scope,
                 call, declined, extra, missed>>

Reconnect ==
  /\ sub.on /\ sub.phase = "waiting" /\ call["loop"].at = "idle"
  /\ IF handshakeRan
     THEN /\ sub' = [sub EXCEPT !.phase = "refresh"]
          /\ call' = WithCall("loop", Asked(TRUE))
     ELSE /\ sub' = [sub EXCEPT !.phase = "ready"]
          /\ call' = call
  /\ UNCHANGED <<member, outside, scoped, actorGroups, inAppScope, handshakeRan, cursors, scope,
                 wake, budget, declined, extra, missed>>

HandleGroupsChanged ==
  /\ sub.on /\ sub.phase = "open" /\ wake
  /\ wake' = FALSE
  /\ sub' = [sub EXCEPT !.phase = "handling"]
  /\ call' = WithCall("loop", Asked(TRUE))
  /\ UNCHANGED <<member, outside, scoped, actorGroups, inAppScope, handshakeRan, cursors, scope,
                 budget, declined, extra, missed>>

MbInit ==
  /\ member \in SUBSET Groups /\ scoped \in BOOLEAN /\ outside = {}
  /\ actorGroups = {} /\ inAppScope = {} /\ handshakeRan = FALSE /\ cursors = {}
  /\ sub = NoSub /\ scope = {} /\ wake = FALSE
  /\ call = [c \in Callers |-> Idle]
  /\ budget = [moves |-> MaxMoves, calls |-> MaxCalls, faults |-> MaxFaults]
  /\ declined = {} /\ extra = {} /\ missed = {}

MbNext ==
  \/ \E g \in Groups : MoveMember(g) \/ MoveScope(g)
  \/ \E c \in Callers : Adopt(c) \/ HandshakeFails(c) \/ \E r \in SUBSET Groups : Answer(c, r)
  \/ AppHandshake
  \/ \E choice \in SUBSET Groups \ {{}} : Subscribe(choice)
  \/ OpenStream \/ StreamDrops \/ Reconnect \/ HandleGroupsChanged

MbSpec == MbInit /\ [][MbNext]_mbVars

(***************************************************************************)
(* Properties.                                                             *)
(***************************************************************************)
Quiet ==
  /\ sub.on /\ sub.phase = "open" /\ ~wake /\ handshakeRan
  /\ \A c \in Callers : call[c].at = "idle"

\* The groups the subscription should hold: the membership, but for what the
\* application declined, and what it asked for beyond its membership.
Followed == (Visible \ declined) \cup extra

(* When nothing is on its way, the open stream, the subscription and the   *)
(* resident scope are one set, and it is the actor's membership less what  *)
(* the application declined - for every group but those whose change was   *)
(* hidden from the difference: adopted by the application's own handshake  *)
(* or by crossed handshakes, or made between a refresh and the stream it   *)
(* prepares (client.ts refreshMembership, applyLiveSubscription).          *)
SubscriptionFollows ==
  Quiet => /\ sub.opened = sub.groups /\ scope = sub.groups
           /\ \A g \in Groups \ missed : (g \in sub.groups) = (g \in Followed)

(* The same without exceptions, as the comments on refreshMembership and   *)
(* on the router's wake-ups say it.                                        *)
SubscriptionAlwaysFollows == Quiet => sub.groups = Followed
=============================================================================

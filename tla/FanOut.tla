------------------------------- MODULE FanOut -------------------------------
(***************************************************************************)
(* Live fan-out: the FanOutRouter, its Plan, its Recovery from the log and *)
(* the FanOutFrontier that survives it, following the commit feed of the   *)
(* storage tree.  The Writer's notifications are messages: they are lost   *)
(* while no Router is registered and when the Router dies.                 *)
(*                                                                         *)
(* A push hands one range to the GroupServers.  Which groups receive an    *)
(* Action is decided by pending_groups, the group sets the Writer sent or  *)
(* the recovery read; a GSN without an entry is resolved against caches    *)
(* that may have moved on.                                                 *)
(***************************************************************************)
EXTENDS CommitFeed

CONSTANTS
  MaxRouterCrashes,    \* bound: Router crashes
  MaxFrontierCrashes   \* bound: restarts of the FanOutFrontier owner

ASSUME FanOutAssumption ==
  /\ MaxRouterCrashes \in Nat
  /\ MaxFrontierCrashes \in Nat

VARIABLES
  router,      \* "down", "init" (registered), "drain", "ready" or "pushing"
  mailbox,     \* the Router's messages
  plan,        \* Plan: pending_notifications, acked, last_pushed_gsn
  groups,      \* pending_groups: the GSNs that have a group set
  meta,        \* batch_meta: the ranges with carried payloads
  toPush,      \* the ranges the current handler pushes ...
  sent,        \* ... and how many of them it has pushed
  frontier,    \* FanOutFrontier, or Empty
  pushed,      \* history: GSNs handed to the GroupServers
  guessed,     \* history: GSNs whose first push took its groups from the caches
  coldAt,      \* history: the highest watermark a cold start began from
  routerCrashes, frontierCrashes

routerVars == <<router, mailbox, plan, groups, meta, toPush, sent>>
pushVars   == <<pushed, guessed, coldAt>>
vars == <<feedVars, routerVars, frontier, pushVars, routerCrashes, frontierCrashes>>

Empty == -1

Greater(m, n) == IF m > n THEN m ELSE n
GsnRange(from, to) == [from |-> from, to |-> to]
GsnsOfRange(x) == x.from..x.to
GsnsOfSeq(s) == UNION {GsnsOfRange(s[i]) : i \in DOMAIN s}

(***************************************************************************)
(* Plan: the pending ranges in GSN order, and which of them are acked.     *)
(***************************************************************************)
NewPlan(ranges, last) ==
  [pending |-> ranges, acked |-> {ranges[i] : i \in DOMAIN ranges}, last |-> last]

\* Mutant: a claimed range is put before the others whatever its GSNs.
PlanClaimUnsorted(p, x) ==
  IF \E i \in DOMAIN p.pending : p.pending[i] = x THEN p ELSE
  [p EXCEPT !.pending = <<x>> \o @]

\* The ranges that start before x come before it, and the others after it.
Place(ranges, x) ==
  CHOOSE k \in 0..Len(ranges) : \A i \in DOMAIN ranges : ranges[i].from < x.from <=> i <= k

PlanClaim(p, x) ==
  IF \E i \in DOMAIN p.pending : p.pending[i] = x THEN p ELSE
  LET k == Place(p.pending, x)
  IN  [p EXCEPT !.pending = SubSeq(@, 1, k) \o <<x>> \o SubSeq(@, k + 1, Len(@))]

\* A commit notification is both the claim and the ack.
PlanAck(p, x) == [PlanClaim(p, x) EXCEPT !.acked = @ \cup {x}]

\* An abandoned range is dropped; only an exact match counts.  No range is pending twice.
Without(ranges, x) ==
  LET k == CHOOSE i \in DOMAIN ranges : ranges[i] = x
  IN  IF \E i \in DOMAIN ranges : ranges[i] = x
      THEN SubSeq(ranges, 1, k - 1) \o SubSeq(ranges, k + 1, Len(ranges))
      ELSE ranges

PlanResolve(p, x) == [p EXCEPT !.pending = Without(@, x), !.acked = @ \ {x}]

Releasable(p, i, w) == p.pending[i].to <= w /\ p.pending[i] \in p.acked

\* split_pushable: how many ranges at the head are releasable.
IsReleasedPrefix(p, w, k) ==
  /\ \A i \in 1..k : Releasable(p, i, w)
  /\ k < Len(p.pending) => ~Releasable(p, k + 1, w)

\* The plan p is drained: the released ranges go to push_and_update.
Drain(p, w) ==
  \E k \in 0..Len(p.pending) :
    LET released == SubSeq(p.pending, 1, k)
        ends == {p.last} \cup {released[i].to : i \in 1..k}
    IN  /\ IsReleasedPrefix(p, w, k)
        /\ toPush' = released
        /\ sent' = 0
        /\ plan' = [pending |-> SubSeq(p.pending, k + 1, Len(p.pending)),
                    acked   |-> p.acked \ {released[i] : i \in 1..k},
                    last    |-> CHOOSE m \in ends : \A n \in ends : n <= m]
        /\ router' = "pushing"

(***************************************************************************)
(* The feed, as the Router hears of it.                                    *)
(***************************************************************************)
\* notify_router: dropped when no Router is registered.
Notify(messages) ==
  mailbox' = IF router = "down" THEN mailbox ELSE mailbox \o messages

Message(kind, r) == [kind |-> kind, range |-> GsnRange(claim[r].first, claim[r].last)]

Announce(r) == Release(r) /\ Notify(<<Message("batch_committed", r)>>)

Abandon(r, R) ==
  /\ Drop(r, R)
  /\ \E s \in [1..Cardinality(R) -> R] :
       /\ \A i, j \in DOMAIN s : i < j => s[i] < s[j]
       /\ Notify([i \in DOMAIN s |-> Message("range_resolved", s[i])])

SilentFeed ==
  /\ \/ \E r \in Refs, n \in 1..MaxClaim : Claim(r, n)
     \/ \E r \in Refs : Store(r) \/ Ack(r)
     \/ WriterCrash
     \/ WriterStart
  /\ UNCHANGED mailbox

FeedStep ==
  /\ \/ SilentFeed
     \/ \E r \in Refs : Announce(r)
     \/ \E r \in Refs, R \in SUBSET Refs : Abandon(r, R)
  /\ UNCHANGED <<router, plan, groups, meta, toPush, sent, frontier, pushVars,
                 routerCrashes, frontierCrashes>>

(***************************************************************************)
(* Handlers.  Each one updates the plan, pushes what it released, then     *)
(* persists the frontier.                                                  *)
(***************************************************************************)
HandleBatchCommitted ==
  /\ router = "ready"
  /\ mailbox # <<>>
  /\ Head(mailbox).kind = "batch_committed"
  /\ LET x == Head(mailbox).range
     IN  /\ groups' = groups \cup GsnsOfRange(x)
         /\ meta' = meta \cup {x}
         /\ Drain(PlanAck(plan, x), watermark)
  /\ mailbox' = Tail(mailbox)
  /\ UNCHANGED <<feedVars, frontier, pushVars, routerCrashes, frontierCrashes>>

HandleRangeResolved ==
  /\ router = "ready"
  /\ mailbox # <<>>
  /\ Head(mailbox).kind = "range_resolved"
  /\ LET x == Head(mailbox).range
     IN  /\ groups' = groups \ GsnsOfRange(x)
         /\ meta' = meta \ {x}
         /\ Drain(PlanResolve(plan, x), watermark)
  /\ mailbox' = Tail(mailbox)
  /\ UNCHANGED <<feedVars, frontier, pushVars, routerCrashes, frontierCrashes>>

\* push_gsn_range
Push ==
  /\ router = "pushing"
  /\ sent < Len(toPush)
  /\ sent' = sent + 1
  /\ pushed' = pushed \cup GsnsOfRange(toPush[sent + 1])
  /\ guessed' = guessed \cup (GsnsOfRange(toPush[sent + 1]) \ (groups \cup pushed))
  /\ UNCHANGED <<feedVars, router, mailbox, plan, groups, meta, toPush, frontier,
                 coldAt, routerCrashes, frontierCrashes>>

\* Mutant: the frontier is persisted before the ranges are pushed.
PersistFirst ==
  /\ router = "pushing"
  /\ IF sent < Len(toPush)
     THEN /\ frontier # Greater(frontier, plan.last)
          /\ UNCHANGED <<router, groups, meta, toPush, sent>>
     ELSE /\ router' = "ready"
          /\ groups' = groups \ GsnsOfSeq(toPush)
          /\ meta' = meta \ {toPush[i] : i \in DOMAIN toPush}
          /\ toPush' = <<>>
          /\ sent' = 0
  /\ frontier' = Greater(frontier, plan.last)
  /\ UNCHANGED <<feedVars, mailbox, plan, pushVars, routerCrashes, frontierCrashes>>

\* Mutant: the group sets of the pushed GSNs are kept.
PersistKeepsGroups ==
  /\ router = "pushing"
  /\ sent = Len(toPush)
  /\ frontier' = Greater(frontier, plan.last)
  /\ meta' = meta \ {toPush[i] : i \in DOMAIN toPush}
  /\ router' = "ready"
  /\ toPush' = <<>>
  /\ sent' = 0
  /\ UNCHANGED <<feedVars, mailbox, plan, groups, pushVars, routerCrashes,
                 frontierCrashes>>

\* The frontier is persisted after the pushes: at least once, never zero.
Persist ==
  /\ router = "pushing"
  /\ sent = Len(toPush)
  /\ frontier' = Greater(frontier, plan.last)
  /\ groups' = groups \ GsnsOfSeq(toPush)
  /\ meta' = meta \ {toPush[i] : i \in DOMAIN toPush}
  /\ router' = "ready"
  /\ toPush' = <<>>
  /\ sent' = 0
  /\ UNCHANGED <<feedVars, mailbox, plan, pushVars, routerCrashes, frontierCrashes>>

(***************************************************************************)
(* Restarts.  A Router is registered before its init runs.                 *)
(***************************************************************************)
RouterCrash ==
  /\ router # "down"
  /\ routerCrashes < MaxRouterCrashes
  /\ routerCrashes' = routerCrashes + 1
  /\ router' = "down"
  /\ mailbox' = <<>>
  /\ plan' = NewPlan(<<>>, 0)
  /\ groups' = {}
  /\ meta' = {}
  /\ toPush' = <<>>
  /\ sent' = 0
  /\ UNCHANGED <<feedVars, frontier, pushVars, frontierCrashes>>

RouterRegister ==
  /\ router = "down"
  /\ router' = "init"
  /\ UNCHANGED <<feedVars, mailbox, plan, groups, meta, toPush, sent, frontier,
                 pushVars, routerCrashes, frontierCrashes>>

\* cold_start: nothing was ever pushed, or the frontier is lost.
RouterColdStart ==
  /\ router = "init"
  /\ frontier = Empty
  /\ frontier' = watermark
  /\ plan' = NewPlan(<<>>, watermark)
  /\ coldAt' = Greater(coldAt, watermark)
  /\ router' = "ready"
  /\ UNCHANGED <<feedVars, mailbox, groups, meta, toPush, sent, pushed, guessed,
                 routerCrashes, frontierCrashes>>

\* The maximal runs of GSNs in G.
Runs(G) ==
  {x \in {GsnRange(f, t) : f \in G, t \in G} :
     /\ x.from <= x.to
     /\ GsnsOfRange(x) \subseteq G
     /\ x.from - 1 \notin G
     /\ x.to + 1 \notin G}

\* Mutant: the first GSN above the frontier is taken as pushed.
RecoverableOffByOne(last) == {g \in StoredGsns : g > last + 1}

\* The scan of cf_actions from last_pushed_gsn + 1 to the highest key.
Recoverable(last) == {g \in StoredGsns : g > last}

\* resume, up to the read of the watermark: recover_committed folds the stored
\* GSNs into ranges and finds every one's groups in cf_group_actions.
RouterRecover ==
  /\ router = "init"
  /\ frontier # Empty
  /\ \E ranges \in {Runs(Recoverable(frontier))} :
     \E s \in [1..Cardinality(ranges) -> ranges] :
       /\ \A i, j \in DOMAIN s : i < j => s[i].to < s[j].from
       /\ plan' = NewPlan(s, frontier)
       /\ groups' = GsnsOfSeq(s)
  /\ router' = "drain"
  /\ UNCHANGED <<feedVars, mailbox, meta, toPush, sent, frontier, pushVars,
                 routerCrashes, frontierCrashes>>

\* resume, the rest.
RouterDrain ==
  /\ router = "drain"
  /\ Drain(plan, watermark)
  /\ UNCHANGED <<feedVars, mailbox, groups, meta, frontier, pushVars,
                 routerCrashes, frontierCrashes>>

\* The owner of the frontier table restarts with an empty one.
FrontierCrash ==
  /\ frontierCrashes < MaxFrontierCrashes
  /\ frontierCrashes' = frontierCrashes + 1
  /\ frontier' = Empty
  /\ UNCHANGED <<feedVars, routerVars, pushVars, routerCrashes>>

-----------------------------------------------------------------------------
Init ==
  /\ FeedInit
  /\ router = "init"
  /\ mailbox = <<>>
  /\ plan = NewPlan(<<>>, 0)
  /\ groups = {}
  /\ meta = {}
  /\ toPush = <<>>
  /\ sent = 0
  /\ frontier = Empty
  /\ pushed = {}
  /\ guessed = {}
  /\ coldAt = 0
  /\ routerCrashes = 0
  /\ frontierCrashes = 0

RouterHandle == HandleBatchCommitted \/ HandleRangeResolved \/ Push \/ Persist

RouterStart == RouterRegister \/ RouterColdStart \/ RouterRecover \/ RouterDrain

Next ==
  \/ FeedStep
  \/ RouterHandle
  \/ RouterStart
  \/ RouterCrash
  \/ FrontierCrash

Spec == Init /\ [][Next]_vars

(***************************************************************************)
(* No claim stays open for ever and a committed one is released, the       *)
(* Router handles its mailbox, and the supervisors restart what died.      *)
(***************************************************************************)
Fairness ==
  /\ WF_vars(FeedStep /\ \E r \in Refs : Ack(r) \/ \E R \in SUBSET Refs : Drop(r, R))
  /\ WF_vars(FeedStep /\ \E r \in Refs : Release(r))
  /\ WF_vars(FeedStep /\ WriterStart)
  /\ WF_vars(RouterHandle)
  /\ WF_vars(RouterStart)

FairSpec == Spec /\ Fairness
-----------------------------------------------------------------------------
(***************************************************************************)
(* Properties.                                                             *)
(***************************************************************************)
RangeType == [from : Gsns, to : Gsns]

\* Type invariant.
TypeOK ==
  /\ up \in BOOLEAN
  /\ counter \in 0..MaxGsn
  /\ watermark \in 0..MaxGsn
  /\ claim \in [Refs -> ClaimType]
  /\ stored \subseteq Refs
  /\ crashes \in Nat
  /\ router \in {"down", "init", "drain", "ready", "pushing"}
  /\ mailbox \in Seq([kind : {"batch_committed", "range_resolved"}, range : RangeType])
  /\ plan \in [pending : Seq(RangeType), acked : SUBSET RangeType, last : 0..MaxGsn]
  /\ groups \subseteq Gsns
  /\ meta \subseteq RangeType
  /\ toPush \in Seq(RangeType)
  /\ sent \in 0..Len(toPush)
  /\ frontier \in -1..MaxGsn
  /\ pushed \subseteq Gsns
  /\ guessed \subseteq Gsns
  /\ coldAt \in 0..MaxGsn
  /\ routerCrashes \in Nat
  /\ frontierCrashes \in Nat

\* Subscribers only ever see Actions that are in the log and at or below the
\* watermark, so a catch-up started after the event cannot miss it: also when
\* a restarted Router found them in the log before the Writer knew of them.
PushedIsCommitted ==
  \A g \in pushed : g \in StoredGsns /\ g <= watermark

\* "A restart cannot skip an unpushed range": the persisted frontier never
\* passes a claim that is not given up and was not pushed.  Only a cold start
\* moves past what is already committed.
FrontierNeverSkips ==
  \A r \in Refs : claim[r].state \in {"open", "acked", "released"} =>
    \A g \in RangeOf(claim[r]) : coldAt < g /\ g <= frontier => g \in pushed

\* Whatever is lost or repeated around a restart, an Action that is pushed
\* for the first time lies above everything pushed before it, unless its claim
\* was given up and its write landed late, or a cold start had passed it.
FirstPushesInOrder ==
  [][\A g \in (pushed' \ pushed) \ GsnsIn("dropped") :
       coldAt < g => \A h \in pushed : h < g]_vars

\* "No payloads or group sets should outlive their claim": an idle Router
\* holds group sets and payloads of pending ranges only.
NothingOutlivesItsClaim ==
  router = "ready" =>
    /\ groups \subseteq GsnsOfSeq(plan.pending)
    /\ \A x \in meta : \E i \in DOMAIN plan.pending : plan.pending[i] = x

\* "The caches may have moved since the commit": a committed Action is first
\* pushed with the group sets of its commit, which the Writer sent or the
\* recovery read, never with what the caches say by then.
GroupsFromCommit == guessed \subseteq GsnsIn("dropped")

\* What the Router keeps beside a range is the commit's, and goes with it.
BesideRangesExact == NothingOutlivesItsClaim /\ GroupsFromCommit

\* The frontier and the pushes agree with the log and the watermark.
PushesMatchLog == PushedIsCommitted /\ FrontierNeverSkips

\* Every range the Writer released reaches the subscribers, although the
\* notification may be dropped, the Router may die with it in the mailbox or
\* half pushed, and a recovered range may have to wait for the watermark.  The
\* Writer stays up: a restarted Writer advances the watermark without a message.
EveryReleasePushed ==
  \A g \in Gsns :
    g \in GsnsIn("released") ~> (g \in pushed \/ g <= coldAt \/ crashes > 0)

-----------------------------------------------------------------------------
(***************************************************************************)
(* The inductive invariant behind the safety properties.  The parts about  *)
(* what is due hold at depth one, where no claim is held below another.    *)
(***************************************************************************)
\* g belongs to a claim that was not given up, above every cold start.
Live(r) == claim[r].state \in {"open", "acked", "released"}
Due(g) == coldAt < g /\ \E r \in Refs : Live(r) /\ g \in RangeOf(claim[r])
IsRangeOf(x, r) == x.from = claim[r].first /\ x.to = claim[r].last

\* Claims follow each other, are stored before they are acked, and are released in order,
\* each below the watermark; no open one is; and a dead Writer holds none.
FeedInv ==
  /\ watermark <= counter
  /\ \A r \in Refs : claim[r].state = "none" => claim[r] = NoClaim /\ r \notin stored
  /\ \A r \in Refs : claim[r].state # "none" => claim[r].first <= claim[r].last /\ claim[r].last <= counter
  /\ \A q, r \in Refs : q < r /\ claim[r].state # "none" =>
       claim[q].state # "none" /\ claim[q].last < claim[r].first
  /\ \A r \in Refs : claim[r].state = "open" => watermark < claim[r].first
  /\ \A r \in Refs : claim[r].state \in {"acked", "released"} => r \in stored
  /\ \A r \in Refs : claim[r].state = "released" => claim[r].last <= watermark
  /\ \A q, r \in Refs : q < r /\ claim[r].state = "released" => ~Held(q)
  /\ ~up => \A r \in Refs : ~Held(r)

\* No claim is made over a held one.
OneHeld == \A q, r \in Refs : q < r /\ claim[r].state # "none" => ~Held(q)

\* The messages name ranges that were released, in that order, and ranges given up.
MailInv ==
  /\ \A i \in DOMAIN mailbox :
       \E r \in Refs : /\ IsRangeOf(mailbox[i].range, r)
                       /\ claim[r].state = IF mailbox[i].kind = "batch_committed"
                                           THEN "released" ELSE "dropped"
  /\ \A i, j \in DOMAIN mailbox :
       i < j /\ mailbox[i].kind = "batch_committed" /\ mailbox[j].kind = "batch_committed" =>
         mailbox[i].range.to < mailbox[j].range.from

\* The ranges s are in order, none is empty, and the log holds them.
InLog(s) ==
  /\ \A i \in DOMAIN s : s[i].from <= s[i].to /\ GsnsOfRange(s[i]) \subseteq StoredGsns
  /\ \A i, j \in DOMAIN s : i < j => s[i].from <= s[j].from
NoneTwice(s) == \A i, j \in DOMAIN s : s[i] = s[j] => i = j

RouterInv ==
  /\ InLog(plan.pending) /\ NoneTwice(plan.pending) /\ InLog(toPush)
  /\ \A i \in DOMAIN toPush : toPush[i].to <= watermark
  /\ \A i \in 1..sent : GsnsOfRange(toPush[i]) \subseteq pushed
  /\ plan.last <= watermark /\ frontier <= watermark /\ coldAt <= watermark
  /\ router \in {"down", "init"} => plan.pending = <<>> /\ groups = {} /\ meta = {}
  /\ router # "pushing" => toPush = <<>> /\ sent = 0
  /\ router = "down" => mailbox = <<>>

Unsent(g) == \E i \in (sent + 1)..Len(toPush) : g \in GsnsOfRange(toPush[i])

\* What the Router holds beside its ranges belongs to one of them, and what it has yet to
\* push has its groups.
BesideInv ==
  /\ groups \subseteq GsnsOfSeq(plan.pending) \cup GsnsOfSeq(toPush)
  /\ \A x \in meta : (\E i \in DOMAIN plan.pending : plan.pending[i] = x)
                     \/ (\E i \in DOMAIN toPush : toPush[i] = x)
  /\ \A g \in Gsns : g \in GsnsOfSeq(plan.pending) \/ Unsent(g) =>
       g \in groups \cup pushed \cup GsnsIn("dropped")

\* Nothing that is due is missing below a pending range of the plan p.
NoHole(p) ==
  \A g \in Gsns : Due(g) /\ p.last < g /\ (\E i \in DOMAIN p.pending : g <= p.pending[i].to) =>
    g \in GsnsOfSeq(p.pending)

\* What was released is pushed, pending in p or named by a message of mb.
Mailed(mb, g) == \E i \in DOMAIN mb : mb[i].kind = "batch_committed" /\ g \in GsnsOfRange(mb[i].range)
Heard(p, mb) ==
  \A r \in Refs : claim[r].state = "released" =>
    \A g \in RangeOf(claim[r]) :
      coldAt < g /\ p.last < g => g \in GsnsOfSeq(p.pending) \/ Mailed(mb, g)

\* What is due at or below last_pushed_gsn, or below a range that is being pushed, was
\* pushed or comes first; and what is due below anything pushed was pushed.
PushInv ==
  /\ router \in {"drain", "ready", "pushing"} =>
       /\ NoHole(plan) /\ Heard(plan, mailbox)
       /\ \A g \in Gsns : Due(g) /\ g <= plan.last => g \in pushed \/ Unsent(g)
  /\ \A i \in (sent + 1)..Len(toPush) : \A g \in Gsns : Due(g) /\ g <= toPush[i].to =>
       g \in pushed \/ \E j \in (sent + 1)..i : g \in GsnsOfRange(toPush[j])
  /\ \A h \in pushed : \A g \in Gsns : Due(g) /\ g < h => g \in pushed
  /\ \A g \in Gsns : Due(g) /\ g <= frontier => g \in pushed

LogInv == TypeOK /\ FeedInv /\ MailInv /\ RouterInv /\ PushedIsCommitted
SafeInv == LogInv /\ BesideInv /\ GroupsFromCommit
OrderInv == OneHeld /\ PushInv
=============================================================================

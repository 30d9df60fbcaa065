--------------------------- MODULE MCClientData ---------------------------
(* The modules of the client's clock, storage, queries and subscription side by    *)
(* side, one at a time: `part` names the one that runs, the variables of the others  *)
(* rest.                                                                             *)
EXTENDS HlcClock, TLC

CONSTANTS MbGroups, MbMoves, MbCalls, MbFaults   \* the bounds of Membership

VARIABLES part,   \* the module that runs
  slog, srec, core, arriving, nextOf, chain, saving, inFlight, again, scope, evicted,
  backup, restoring, restored, sreloads, scopes, truth, unsafe, adapter, log, marking,
  dirty, entities, index, reader, crashes, overtaken, crossed, member, outside, scoped,
  actorGroups, inAppScope, handshakeRan, cursors, sub, mbScope, wake, call, budget,
  declined, extra, missed, qrows, qindex, query, qchain, changed

\* Two rows of two groups.  One stream for each group and one for the backfill's
\* snapshot of f; action 2 writes rows of both groups and arrives in two parts.
Put(i, hlc) == [sub |-> i, method |-> "put", hlc |-> hlc]
Patch(i, hlc) == [sub |-> i, method |-> "patch", hlc |-> hlc]
Delivery(act, gsn, updates) == [act |-> act, gsn |-> gsn, updates |-> updates]
Streams ==
  [live |-> <<Delivery(1, 1, {Put("e", 1)}), Delivery(2, 2, {Patch("e", 2)})>>,
   other |-> <<Delivery(2, 2, {Patch("f", 2)}), Delivery(4, 4, {Patch("f", 4)})>>,
   backfill |-> <<Delivery(3, 3, {Put("f", 3)})>>]
Replica == INSTANCE ReplicaStore WITH
  Ids <- {"e", "f"}, Groups <- {"g", "h"}, GroupOf <- [e |-> "g", f |-> "h"],
  Feed <- Streams, MaxReloads <- 1, MaxScopes <- 2, MaxEvents <- 2

\* Two rows that may point at one target, two readers, two appends and a crash.
Entities == INSTANCE EntityStore WITH
  Ids <- {1, 2}, Targets <- {7}, Source <- 9, Readers <- {"r", "s"}, MaxAppends <- 2,
  MaxCrashes <- 1

\* The memberships and the subscription.
Live == INSTANCE Membership WITH
  scope <- mbScope, Groups <- MbGroups, MaxMoves <- MbMoves, MaxCalls <- MbCalls,
  MaxFaults <- MbFaults

\* Two tasks, two users (one not held at first), a group, two links and a membership.
Unwritten == -2
Cleared == -1
Plain(id, type, value, live) == [id |-> id, type |-> type, live |-> live, from |-> 0, to |-> 0, value |-> value]
Link(id, type, from, to, live) == [id |-> id, type |-> type, live |-> live, from |-> from, to |-> to, value |-> Unwritten]

Absent(id) == Plain(id, "none", Unwritten, FALSE)
SmallStart ==
  << Plain(1, "task", 1, TRUE), Plain(2, "task", Unwritten, TRUE), Plain(3, "user", 1, TRUE), Absent(4),
     Plain(5, "group", Unwritten, TRUE), Link(6, "relationship", 1, 3, TRUE), Absent(7),
     Link(8, "entityGroup", 1, 5, TRUE) >>
SmallVersions ==
  {Plain(1, "task", v, TRUE) : v \in {Cleared, 2, 9}} \union {Plain(1, "task", 1, FALSE)}
  \union {Plain(2, "task", v, TRUE) : v \in {1, 2}}
  \union {Plain(3, "user", 1, FALSE), Plain(4, "user", 2, TRUE), Plain(5, "group", Unwritten, FALSE)}
  \union {Link(6, "relationship", f, t, TRUE) : f \in {1, 2}, t \in {3, 4}}
  \union {Link(6, "relationship", 1, 3, FALSE), Link(7, "relationship", 1, 3, TRUE), Link(7, "relationship", 2, 3, TRUE)}
  \union {Link(8, "entityGroup", 2, 5, TRUE), Link(8, "entityGroup", 1, 5, FALSE), Link(8, "entityGroup", 3, 5, TRUE)}
SmallPredicates ==
  {[kind |-> "field", value |-> v, anyOf |-> {}] : v \in {Cleared, 1}}
  \union {[kind |-> "relationship", value |-> Unwritten, anyOf |-> s] : s \in {{3}, {3, 4}, {}}}
  \union {[kind |-> "membership", value |-> Unwritten, anyOf |-> {5}]}

Find == INSTANCE Query WITH
  rows <- qrows, index <- qindex, chain <- qchain,
  Ids <- 1..8, Start <- SmallStart, Versions <- SmallVersions, Predicates <- SmallPredicates,
  Default <- 2, ToOne <- TRUE, MaxOps <- 3, MaxChanges <- 1

clockVars == <<wall, clock, stamps, open, wraps, heard, merges>>
replicaVars == <<slog, srec, core, arriving, nextOf, chain, saving, inFlight, again,
           scope, evicted, backup, restoring, restored, sreloads, scopes, truth, unsafe>>
entityVars == <<adapter, log, marking, dirty, entities, index, reader, crashes,
           overtaken, crossed>>
membershipVars == <<member, outside, scoped, actorGroups, inAppScope, handshakeRan,
           cursors, sub, mbScope, wake, call, budget, declined, extra, missed>>
queryVars == <<qrows, qindex, query, qchain, changed>>
allVars == <<part, clockVars, replicaVars, entityVars, membershipVars, queryVars>>

Off == "off"
clockOff ==
  /\ wall = Off /\ clock = Off /\ stamps = Off /\ open = Off /\ wraps = Off
  /\ heard = Off /\ merges = Off
replicaOff ==
  /\ slog = Off /\ srec = Off /\ core = Off /\ arriving = Off /\ nextOf = Off
  /\ chain = Off /\ saving = Off /\ inFlight = Off /\ again = Off /\ scope = Off
  /\ evicted = Off /\ backup = Off /\ restoring = Off /\ restored = Off
  /\ sreloads = Off /\ scopes = Off /\ truth = Off /\ unsafe = Off
entityOff ==
  /\ adapter = Off /\ log = Off /\ marking = Off /\ dirty = Off /\ entities = Off
  /\ index = Off /\ reader = Off /\ crashes = Off /\ overtaken = Off /\ crossed = Off
membershipOff ==
  /\ member = Off /\ outside = Off /\ scoped = Off /\ actorGroups = Off
  /\ inAppScope = Off /\ handshakeRan = Off /\ cursors = Off /\ sub = Off
  /\ mbScope = Off /\ wake = Off /\ call = Off /\ budget = Off /\ declined = Off
  /\ extra = Off /\ missed = Off
queryOff ==
  /\ qrows = Off /\ qindex = Off /\ query = Off /\ qchain = Off /\ changed = Off

SumInit ==
  \/ part = "clock" /\ HlInit /\ replicaOff /\ entityOff /\ membershipOff /\ queryOff
  \/ part = "replica" /\ Replica!Init /\ clockOff /\ entityOff /\ membershipOff
     /\ queryOff
  \/ part = "entities" /\ Entities!EsInit /\ clockOff /\ replicaOff /\ membershipOff
     /\ queryOff
  \/ part = "membership" /\ Live!MbInit /\ clockOff /\ replicaOff /\ entityOff
     /\ queryOff
  \/ part = "query" /\ Find!QyInit /\ clockOff /\ replicaOff /\ entityOff
     /\ membershipOff

SumNext ==
  \/ part = "clock" /\ HlNext
     /\ UNCHANGED <<part, replicaVars, entityVars, membershipVars, queryVars>>
  \/ part = "replica" /\ Replica!Next
     /\ UNCHANGED <<part, clockVars, entityVars, membershipVars, queryVars>>
  \/ part = "entities" /\ Entities!EsNext
     /\ UNCHANGED <<part, clockVars, replicaVars, membershipVars, queryVars>>
  \/ part = "membership" /\ Live!MbNext
     /\ UNCHANGED <<part, clockVars, replicaVars, entityVars, queryVars>>
  \/ part = "query" /\ Find!QyNext
     /\ UNCHANGED <<part, clockVars, replicaVars, entityVars, membershipVars>>

SumSpec == SumInit /\ [][SumNext]_allVars

-----------------------------------------------------------------------------
\* A client's stamps follow its own order and never lead its wall clock by more than the
\* server allows.
StampsAreSound == part = "clock" => OwnOrder /\ NeverTooFarAhead

\* Both stores give back what was written: a reload or a return to a group shows the
\* replica's rows as the log has them, and a stored entity that is not marked dirty is
\* the replay of its log, with the reverse index that its rows derive.
StorageIsCurrent ==
  /\ part = "replica" => Replica!ReloadBringsBack /\ Replica!ResidentIsCurrent
  /\ part = "entities" => Entities!StoreIsCurrent

\* The stream and the scope follow the actor's memberships once handshakes settle.
SubscriptionIsMembership == part = "membership" => Live!SubscriptionFollows

\* A query gives the rows its groups ask for, once each and in order, however its plan
\* seeds, reorders and limits them.
QueriesMeanTheirGroups == part = "query" => Find!QueryMeansItsGroups

\* A change of a type that a query's plan does not name leaves its result as it was.
RerunsSuffice == [][part = "query" => Find!RerunsSuffice]_allVars
=============================================================================

--------------------------- MODULE MCClientViews ---------------------------
(* The modules of what an application sees and does through the client, side by side, *)
(* one at a time: `part` names the one that runs, and the variables of the others     *)
(* rest.                                                                              *)
EXTENDS Integers, FiniteSets, TLC

CONSTANTS
  Nobody,                                          \* no id
  CqListeners, CqKept, CqWork, CqSubscribes, \* of QueryCache
  PrPeers, PrTargets, PrTtl, PrCap, PrNow, PrSends \* of Presence

ASSUME ViewsAssumption ==
  /\ IsFiniteSet(CqListeners) /\ CqKept \in Nat
  /\ PrTtl \in Nat /\ PrCap \in Nat \ {0} /\ PrNow \in Nat /\ PrSends \in Nat

VARIABLES part,   \* the module that runs
  store, folded, base, overlay, pins, reads, current, buffered, opens, journal, floor,
  revision, issued, loads, seen, seenAt, past, rec, rows, orphans, seededAt, known,
  fence, loop, fetch, serves, crossed, faults, result, changes, sync, isReady, made,
  mapped, subscribes, cacheSeen, rowRows, edges, rowPins, read, told, rowChanges,
  seenLinks, seenRows, shaken, unheard, last, pending, posts, posted, sends, entries,
  presenceTimer, now, closed, presenceSeen, conflictRows, stored, load, view, call,
  shown, reasserts, clock, conflictFaults, reloads, calls, discarded, overlapped,
  conflictKnown, draftStore, act, ran, stale, twice

\* A held row and two on-demand rows with room to pin one, and a journal of two changes.
View == INSTANCE ReplicaView WITH
  Held <- {"h1"}, OnDemand <- {"d1", "d2"}, Acts <- {101},
  ActId <- [a \in {101} |-> "d1"], PinnedCapacity <- 1, JournalCapacity <- 2,
  MaxWrites <- 2, MaxOpens <- 2, MaxLoads <- 1

\* A group of two pages that is seeded while four Actions come, with one crash or refusal.
Seed == INSTANCE GroupSeed WITH
  Pages <- 2, SeedLoops <- {1}, RollingDeploy <- FALSE, MaxGsn <- 4, MaxFaults <- 1

\* One cached query with two listeners, a journal that keeps one change, and an entry with
\* two changes or two entries, the first of them evicted, with one.
Cache == INSTANCE QueryCache WITH
  seen <- cacheSeen, QueryListeners <- CqListeners, KeptChanges <- CqKept,
  MaxWork <- CqWork, MaxSubscribes <- CqSubscribes

\* Two rows with a document each, two links and a membership; one document can be pinned.
Rows == INSTANCE RowAccess WITH
  rows <- rowRows, pins <- rowPins, changes <- rowChanges, Sources <- {1, 2},
  Bodies <- {11, 12}, GroupIds <- {21}, Edges <- {31, 32}, Members <- {41}, Cap <- 1,
  MaxChanges <- 2

\* Two peers on two targets that show one peer each.
Peers == INSTANCE Presence WITH
  timer <- presenceTimer, seen <- presenceSeen, Peers <- PrPeers, Targets <- PrTargets,
  Ttl <- PrTtl, Cap <- PrCap, MaxNow <- PrNow, MaxSends <- PrSends

\* Two losing writes of one subject in one conflict, two resolutions, a fault and a reload.
Conflicts == INSTANCE ConflictResolution WITH
  rows <- conflictRows, faults <- conflictFaults, known <- conflictKnown,
  Losers <- {1, 2}, ConflictOf <- <<7, 7>>, SubjectOf <- <<9, 9>>,
  Callers <- {"a", "b"}, MaxFaults <- 1, MaxReloads <- 1, MaxCalls <- 2

\* An action of two verbs and one of one, on a stored and a new row, two groups and their
\* members.  Ids are tuples, as membership ids are made of two of them.
Draft == INSTANCE Drafts WITH
  store <- draftStore, Actions <- {"a", "b"}, Existing <- <<"x">>, Fresh <- {<<"n">>},
  Groups <- {<<"g1">>, <<"g2">>}, Home <- <<"g1">>, Members <- {<<"m1">>, <<"m2">>},
  MaxVerbs <- [a |-> 2, b |-> 1]

viewVars == <<store, folded, base, overlay, pins, reads, current, buffered, opens,
           journal, floor, revision, issued, loads, seen, seenAt>>
seedVars == <<past, rec, rows, orphans, seededAt, known, fence, loop, fetch, serves,
           crossed, faults>>
cacheVars == <<result, changes, sync, isReady, made, mapped, subscribes, cacheSeen>>
rowVars == <<rowRows, edges, rowPins, read, told, rowChanges, seenLinks, seenRows,
           shaken, unheard>>
presenceVars == <<last, pending, posts, posted, sends, entries, presenceTimer, now,
           closed, presenceSeen>>
conflictVars == <<conflictRows, stored, load, view, call, shown, reasserts, clock,
           conflictFaults, reloads, calls, discarded, overlapped, conflictKnown>>
draftVars == <<draftStore, act, ran, stale, twice>>
allVars == <<part, viewVars, seedVars, cacheVars, rowVars, presenceVars, conflictVars, draftVars>>

Off == "off"
viewOff ==
  /\ store = Off /\ folded = Off /\ base = Off /\ overlay = Off /\ pins = Off
  /\ reads = Off /\ current = Off /\ buffered = Off /\ opens = Off /\ journal = Off
  /\ floor = Off /\ revision = Off /\ issued = Off /\ loads = Off /\ seen = Off
  /\ seenAt = Off
seedOff ==
  /\ past = Off /\ rec = Off /\ rows = Off /\ orphans = Off /\ seededAt = Off
  /\ known = Off /\ fence = Off /\ loop = Off /\ fetch = Off /\ serves = Off
  /\ crossed = Off /\ faults = Off
cacheOff ==
  /\ result = Off /\ changes = Off /\ sync = Off /\ isReady = Off /\ made = Off
  /\ mapped = Off /\ subscribes = Off /\ cacheSeen = Off
rowOff ==
  /\ rowRows = Off /\ edges = Off /\ rowPins = Off /\ read = Off /\ told = Off
  /\ rowChanges = Off /\ seenLinks = Off /\ seenRows = Off /\ shaken = Off
  /\ unheard = Off
presenceOff ==
  /\ last = Off /\ pending = Off /\ posts = Off /\ posted = Off /\ sends = Off
  /\ entries = Off /\ presenceTimer = Off /\ now = Off /\ closed = Off
  /\ presenceSeen = Off
conflictOff ==
  /\ conflictRows = Off /\ stored = Off /\ load = Off /\ view = Off /\ call = Off
  /\ shown = Off /\ reasserts = Off /\ clock = Off /\ conflictFaults = Off
  /\ reloads = Off /\ calls = Off /\ discarded = Off /\ overlapped = Off
  /\ conflictKnown = Off
draftOff ==
  /\ draftStore = Off /\ act = Off /\ ran = Off /\ stale = Off /\ twice = Off

SumInit ==
  \/ part = "view" /\ View!Init /\ seedOff /\ cacheOff /\ rowOff /\ presenceOff
     /\ conflictOff /\ draftOff
  \/ part = "seed" /\ Seed!Init /\ viewOff /\ cacheOff /\ rowOff /\ presenceOff
     /\ conflictOff /\ draftOff
  \/ part = "cache" /\ Cache!Init /\ viewOff /\ seedOff /\ rowOff /\ presenceOff
     /\ conflictOff /\ draftOff
  \/ part = "rows" /\ Rows!RaInit /\ viewOff /\ seedOff /\ cacheOff /\ presenceOff
     /\ conflictOff /\ draftOff
  \/ part = "presence" /\ Peers!PrInit /\ viewOff /\ seedOff /\ cacheOff /\ rowOff
     /\ conflictOff /\ draftOff
  \/ part = "conflicts" /\ Conflicts!CrInit /\ viewOff /\ seedOff /\ cacheOff /\ rowOff
     /\ presenceOff /\ draftOff
  \/ part = "drafts" /\ Draft!DrInit /\ viewOff /\ seedOff /\ cacheOff /\ rowOff
     /\ presenceOff /\ conflictOff

SumNext ==
  \/ part = "view" /\ View!Next
     /\ UNCHANGED <<part, seedVars, cacheVars, rowVars, presenceVars, conflictVars, draftVars>>
  \/ part = "seed" /\ Seed!Next
     /\ UNCHANGED <<part, viewVars, cacheVars, rowVars, presenceVars, conflictVars, draftVars>>
  \/ part = "cache" /\ Cache!Next
     /\ UNCHANGED <<part, viewVars, seedVars, rowVars, presenceVars, conflictVars, draftVars>>
  \/ part = "rows" /\ Rows!RaNext
     /\ UNCHANGED <<part, viewVars, seedVars, cacheVars, presenceVars, conflictVars, draftVars>>
  \/ part = "presence" /\ Peers!PrNext
     /\ UNCHANGED <<part, viewVars, seedVars, cacheVars, rowVars, conflictVars, draftVars>>
  \/ part = "conflicts" /\ Conflicts!CrNext
     /\ UNCHANGED <<part, viewVars, seedVars, cacheVars, rowVars, presenceVars, draftVars>>
  \/ part = "drafts" /\ Draft!DrNext
     /\ UNCHANGED <<part, viewVars, seedVars, cacheVars, rowVars, presenceVars, conflictVars>>

SumSpec == SumInit /\ [][SumNext]_allVars

\* Listeners of the query cache differ in nothing but what they do.
SameListeners == Permutations(CqListeners)

-----------------------------------------------------------------------------
\* A reader that follows the journal, or opens an on-demand row, shows the row as it is.
ReadersAreCurrent == part = "view" => View!JournalTellsAll /\ View!OpenedIsCurrent

\* A group's durable cursor never stands above something its rows miss.
SeedIsComplete == part = "seed" => Seed!CursorMeansComplete

\* A cached query at rest shows the replica as it is, to every listener, unless it is the
\* kept store of an entry that was evicted and the replica moved on.
CachedQueriesAreCurrent == part = "cache" => Cache!RestingIsCurrent /\ Cache!ListenersHaveRead

\* Row accessors and joins give what was true while they read, without holes, and tell
\* their listeners.
RowReadsAreTrue == part = "rows" => Rows!ReadsAreTrue

\* Peers are shown while they are there, and the newest value of each target is sent.
PresenceIsCurrent == part = "presence" => Peers!PeersAreCurrent /\ Peers!LatestIsSent

\* Resolving a conflict loses no write, re-asserts it once, and the list of conflicts is
\* the outbox's.
ConflictsResolve ==
  part = "conflicts" =>
    Conflicts!ViewIsOutbox /\ Conflicts!NothingLost /\ Conflicts!OneReassert

\* The verbs of an action compose, strand no row and no group, and take documents along.
DraftsCompose ==
  part = "drafts" => Draft!VerbsCompose /\ Draft!NothingStranded /\ Draft!DocumentsTravel
=============================================================================

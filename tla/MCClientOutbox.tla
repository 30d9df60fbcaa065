-------------------------- MODULE MCClientOutbox --------------------------
(* ClientOutbox and, on an instance of its own, ClientSession: `part` names the one *)
(* that runs.  All own actions write one position.                                  *)
EXTENDS ClientOutbox, TLC

CONSTANTS
  Subs, NGroups, PageSizes, Depth, MaxGsn, MaxAttempts, MaxFaults, MaxTurns   \* of ClientSession

VARIABLES part,   \* the module that runs
  active, sub, gate, conn, attempt, synced, durable, reached, commits, watermark,
  members, listing, pageSize, drops, reloads, escaped

MCSubjectOf == [id \in Ids |-> CHOOSE s \in Subjects : TRUE]

\* Actions with one position are interchangeable, and so are subscribe() calls.
Symmetry == Permutations(Ids) \union Permutations(Subs)

Session == INSTANCE ClientSessionProofs WITH applied <- synced, cursor <- reached, log <- commits

outboxVars == <<mem, store, loaded, ops, flush, pass, window, sweep, applied, cursor,
           clock, log, mishaps, authored, dropped, acked, rejected, unswept>>
loopVars == <<active, sub, gate, conn, attempt, synced, durable, reached, commits,
           watermark, members, listing, pageSize, drops, reloads, escaped>>
allVars == <<part, outboxVars, loopVars>>

Off == "off"
outboxOff ==
  /\ mem = Off /\ store = Off /\ loaded = Off /\ ops = Off /\ flush = Off /\ pass = Off
  /\ window = Off /\ sweep = Off /\ applied = Off /\ cursor = Off /\ clock = Off
  /\ log = Off /\ mishaps = Off /\ authored = Off /\ dropped = Off /\ acked = Off
  /\ rejected = Off /\ unswept = Off
loopOff ==
  /\ active = Off /\ sub = Off /\ gate = Off /\ conn = Off /\ attempt = Off
  /\ synced = Off /\ durable = Off /\ reached = Off /\ commits = Off /\ watermark = Off
  /\ members = Off /\ listing = Off /\ pageSize = Off /\ drops = Off /\ reloads = Off
  /\ escaped = Off

SumInit ==
  \/ part = "outbox" /\ Init /\ loopOff
  \/ part = "session" /\ Session!Init /\ outboxOff

SumNext ==
  \/ part = "outbox" /\ Next /\ UNCHANGED <<part, loopVars>>
  \/ part = "session" /\ Session!Next /\ UNCHANGED <<part, outboxVars>>

SumSpec == SumInit /\ [][SumNext]_allVars

-----------------------------------------------------------------------------
\* What was stored is kept, and kept in the order it was authored.
BufferKeepsWrites == part = "outbox" => WritesKept

\* Nothing that was settled is sent again or freed from a stored conflict.
BufferStaysSettled ==
  [][part = "outbox" => NeverResubmitted /\ StoredConflictHolds]_allVars

\* The session holds the wire while it rebases and skips nothing it is not told of.
SessionSkipsNothing == part = "session" => Session!RebaseIsComplete
=============================================================================

----------------------------- MODULE CommitFeed -----------------------------
(***************************************************************************)
(* What the storage write path promises to whoever follows the log: claims *)
(* are issued in GSN order, become durable in any order, and are released  *)
(* or dropped; the committed watermark is the GSN just below the oldest    *)
(* claim that is still open.  How the Writer keeps that promise (pipeline, *)
(* resolved-GSN buffer, committer pool) is module WritePath, which is      *)
(* shown to implement this one.                                            *)
(*                                                                         *)
(* The life of one storage tree: a restart of the whole tree, which        *)
(* reseeds the GSN counter, is outside this specification.                 *)
(***************************************************************************)
EXTENDS Integers, Sequences, FiniteSets

CONSTANTS
  MaxGsn,         \* bound: the GSNs the model has room for
  MaxBatches,     \* bound: the claims the model has room for
  MaxClaim,       \* bound: GSNs in one claim
  MaxInFlight,    \* :writer_max_in_flight
  MaxCrashes      \* bound: Writer crashes

ASSUME FeedAssumption ==
  /\ MaxGsn \in Nat
  /\ MaxBatches \in Nat
  /\ MaxClaim \in Nat
  /\ MaxInFlight \in 1..4
  /\ MaxCrashes \in Nat

Gsns == 1..MaxGsn
Refs == 1..MaxBatches

VARIABLES
  up,          \* a Writer is running
  counter,     \* the last GSN claimed
  watermark,   \* every GSN up to here is resolved
  claim,       \* the claims, by ref, in claim order
  stored,      \* refs whose batch is in cf_actions
  crashes      \* Writer crashes so far

feedVars == <<up, counter, watermark, claim, stored, crashes>>

NoClaim == [first |-> 1, last |-> 0, state |-> "none"]

ClaimType ==
  [first : 1..(MaxGsn + 1), last : 0..MaxGsn,
   state : {"none", "open", "acked", "released", "dropped"}]

RangeOf(c) == c.first..c.last
Held(r)    == claim[r].state \in {"open", "acked"}

\* The GSN keys of cf_actions.
StoredGsns == UNION {RangeOf(claim[r]) : r \in stored}

\* The GSNs of the claims in state s.
GsnsIn(s) == UNION {RangeOf(claim[r]) : r \in {q \in Refs : claim[q].state = s}}

\* The resolution frontier of the claims cs when n GSNs have been claimed.
IsResolvedUpTo(cs, n, w) ==
  /\ w \in 0..n
  /\ \A r \in Refs : cs[r].state = "open" => w < cs[r].first
  /\ w < n => \E r \in Refs : cs[r].state = "open" /\ cs[r].first = w + 1

\* The claims in R move to state s, and the watermark follows.
Move(R, s) ==
  /\ claim' = [r \in Refs |-> IF r \in R THEN [claim[r] EXCEPT !.state = s]
                                         ELSE claim[r]]
  /\ \E w \in 0..MaxGsn : IsResolvedUpTo(claim', counter, w) /\ watermark' = w

\* A flush claims the next n GSNs.
Claim(r, n) ==
  /\ up
  /\ claim[r].state = "none"
  /\ \A q \in Refs : q < r => claim[q].state # "none"
  /\ Cardinality({q \in Refs : Held(q)}) < MaxInFlight
  /\ counter + n <= MaxGsn
  /\ claim' = [claim EXCEPT ![r] = [first |-> counter + 1, last |-> counter + n,
                                    state |-> "open"]]
  /\ counter' = counter + n
  /\ UNCHANGED <<up, watermark, stored, crashes>>

\* The batch becomes durable, possibly after its claim was given up.
Store(r) ==
  /\ claim[r].state \in {"open", "dropped"}
  /\ r \notin stored
  /\ stored' = stored \cup {r}
  /\ UNCHANGED <<up, counter, watermark, claim, crashes>>

\* The Writer learns that the batch is durable.
Ack(r) ==
  /\ up
  /\ claim[r].state = "open"
  /\ r \in stored
  /\ Move({r}, "acked")
  /\ UNCHANGED <<up, counter, stored, crashes>>

\* The oldest held claim, once acked, is applied and announced.
Release(r) ==
  /\ up
  /\ claim[r].state = "acked"
  /\ \A q \in Refs : q < r => ~Held(q)
  /\ Move({r}, "released")
  /\ UNCHANGED <<up, counter, stored, crashes>>

\* A failed commit drops its claim, with any later claim of R that could not
\* be prepared again without it.
Drop(r, R) ==
  /\ up
  /\ \A q \in R : r <= q /\ claim[q].state = "open"
  /\ r \in R
  /\ Move(R, "dropped")
  /\ UNCHANGED <<up, counter, stored, crashes>>

\* The Writer dies: nothing is resolved until the next one starts.
WriterCrash ==
  /\ up
  /\ crashes < MaxCrashes
  /\ up' = FALSE
  /\ crashes' = crashes + 1
  /\ claim' = [r \in Refs |-> IF Held(r) THEN [claim[r] EXCEPT !.state = "dropped"]
                                         ELSE claim[r]]
  /\ UNCHANGED <<counter, watermark, stored>>

\* The next Writer resolves everything the old one left.
WriterStart ==
  /\ ~up
  /\ up' = TRUE
  /\ watermark' = counter
  /\ UNCHANGED <<counter, claim, stored, crashes>>

FeedInit ==
  /\ up = TRUE
  /\ counter = 0
  /\ watermark = 0
  /\ claim = [r \in Refs |-> NoClaim]
  /\ stored = {}
  /\ crashes = 0

FeedNext ==
  \/ \E r \in Refs, n \in 1..MaxClaim : Claim(r, n)
  \/ \E r \in Refs : Store(r) \/ Ack(r) \/ Release(r)
  \/ \E r \in Refs, R \in SUBSET Refs : Drop(r, R)
  \/ WriterCrash
  \/ WriterStart

FeedSpec == FeedInit /\ [][FeedNext]_feedVars
=============================================================================

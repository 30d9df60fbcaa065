-------------------------- MODULE WritePathProofs --------------------------
(***************************************************************************)
(* Machine-checked proofs about WritePath, for every value of its          *)
(* constants: types, the GSN counter and the frontier; then what a caller, *)
(* a retry and the FanOutRouter may rely on; last, that the write path     *)
(* implements the commit feed.                                             *)
(***************************************************************************)
EXTENDS WritePath, FiniteSetTheorems, TLAPS

(***************************************************************************)
(* Type correctness.                                                       *)
(***************************************************************************)

\* The ids a flush claims are Actions, and their number is a natural.
LEMMA FreshIdsFinite ==
  ASSUME TypeOK
  PROVE  /\ FreshIds \subseteq Actions
         /\ Cardinality(FreshIds) \in Nat
         /\ FreshIds # {} => Cardinality(FreshIds) >= 1
<1>1. PendingCalls \subseteq Calls
  BY DEF TypeOK, PendingCalls
<1>2. FreshIds \subseteq Actions
  BY <1>1 DEF TypeOK, FreshIds
<1>3. IsFiniteSet(FreshIds)
  BY <1>2, FS_Subset, ConstantsAssumption
<1>4. Cardinality(FreshIds) \in Nat
  BY <1>3, FS_CardinalityType
<1>5. FreshIds # {} => Cardinality(FreshIds) # 0
  BY <1>3, FS_EmptySet
<1> QED
  BY <1>2, <1>4, <1>5

\* A set of refs has a natural number of elements.
LEMMA RefSetFinite ==
  ASSUME NEW X \in SUBSET Refs
  PROVE  Cardinality(X) \in Nat
<1>1. IsFiniteSet(Refs)
  BY FS_Interval, ConstantsAssumption DEF Refs
<1> QED
  BY <1>1, FS_Subset, FS_CardinalityType

\* Resolution yields Movers.
LEMMA ResolutionType ==
  ASSUME TypeOK, NEW bs, NEW r
  PROVE  Resolution(bs, r) \in SUBSET Movers
BY DEF TypeOK, Resolution, OverlayBefore, MoversOf

\* Handing a batch to the pool keeps the types of batches and jobs.
LEMMA StartNextCommitType ==
  ASSUME NEW bs \in [Refs -> BatchType],
         NEW js \in [Refs -> {"none", "running", "written", "late", "gone"}],
         StartNextCommit(bs, js)
  PROVE  /\ batch' \in [Refs -> BatchType]
         /\ job' \in [Refs -> {"none", "running", "written", "late", "gone"}]
BY DEF StartNextCommit, BatchType, Phases

\* Advancing the frontier keeps the types of the WatermarkTracker.
LEMMA MarkResolvedType ==
  ASSUME TypeOK, NEW G \in SUBSET Gsns, MarkResolved(G)
  PROVE  watermark' \in 0..MaxGsn /\ resolved' \subseteq Gsns
<1>1. PICK m \in watermark..MaxGsn :
        watermark' = m /\ resolved' = {g \in resolved \cup G : g > m}
  BY DEF MarkResolved
<1>2. watermark' \in 0..MaxGsn
  BY <1>1, ConstantsAssumption DEF TypeOK
<1>3. resolved' \subseteq Gsns
  BY <1>1 DEF TypeOK
<1> QED
  BY <1>2, <1>3

\* The GSNs of a batch are GSNs of the model.
LEMMA GsnsOfType ==
  ASSUME NEW b \in BatchType
  PROVE  GsnsOf(b) \subseteq Gsns
BY ConstantsAssumption DEF BatchType, GsnsOf, Gsns

\* A new phase keeps the type of a batch.
LEMMA PhaseType ==
  ASSUME NEW b \in BatchType, NEW p \in Phases
  PROVE  [b EXCEPT !.phase = p] \in BatchType
BY DEF BatchType

LEMMA InitType == Init => TypeOK
<1> SUFFICES ASSUME Init PROVE TypeOK
  OBVIOUS
<1>1. NoBatch \in BatchType
  BY ConstantsAssumption DEF NoBatch, BatchType, Phases
<1>2. 0 \in 0..MaxGsn /\ 1 \in 1..(MaxBatches + 1)
  BY ConstantsAssumption
<1>3. /\ batch \in [Refs -> BatchType]
      /\ job \in [Refs -> {"none", "running", "written", "late", "gone"}]
      /\ log \in [Gsns -> Refs \cup {0}]
  BY <1>1 DEF Init
<1>4. /\ acts \in [Calls -> SUBSET Actions]
      /\ grant \in [Calls -> [ref : Refs \cup {0}, gsns : SUBSET Gsns]]
      /\ reply \in [Calls -> {"none", "ok", "error", "down"}]
  BY DEF Init
<1>5. pending \in Seq(Calls) /\ notified \in Seq(Refs)
  BY DEF Init
<1> QED
  BY <1>2, <1>3, <1>4, <1>5 DEF Init, TypeOK

\* A flush claims GSNs that exist and grants its callers a part of them.
LEMMA FlushType ==
  ASSUME TypeOK, Flush
  PROVE  TypeOK'
<1> USE ConstantsAssumption
<1> DEFINE n == Cardinality(FreshIds)
           r == nextRef
<1>1. n \in Nat /\ n >= 1 /\ FreshIds \subseteq Actions /\ PendingCalls \subseteq Calls
  BY FreshIdsFinite DEF Flush, TypeOK, PendingCalls
<1>2. PICK ids \in FreshOrders :
        /\ inflight' = inflight \cup FreshIds
        /\ counter' = counter + n
        /\ grant' = GrantsOf(r, counter + 1, ids)
        /\ StartNextCommit([batch EXCEPT ![r] =
              [first |-> counter + 1, last |-> counter + n, ids |-> ids,
               calls |-> PendingCalls, basis |-> Resolution(batch, r),
               phase |-> "prepared"]], job)
  BY DEF Flush
<1> DEFINE new == [first |-> counter + 1, last |-> counter + n, ids |-> ids,
                   calls |-> PendingCalls, basis |-> Resolution(batch, r),
                   phase |-> "prepared"]
<1>3. r \in Refs /\ counter + n \in 0..MaxGsn /\ counter \in 0..MaxGsn
  BY <1>1 DEF Flush, TypeOK, Refs
<1>4. ids \in Seq(Actions) /\ DOMAIN ids = 1..n
  BY <1>1, <1>2 DEF FreshOrders
<1>5. new \in BatchType
  <2>1. Resolution(batch, r) \in SUBSET Movers
    BY ResolutionType
  <2> QED
    BY <2>1, <1>1, <1>3, <1>4 DEF BatchType, Phases
<1>6. [batch EXCEPT ![r] = new] \in [Refs -> BatchType]
  BY <1>5, <1>3 DEF TypeOK
<1>7. /\ batch' \in [Refs -> BatchType]
      /\ job' \in [Refs -> {"none", "running", "written", "late", "gone"}]
  <2> HIDE DEF new
  <2>1. StartNextCommit([batch EXCEPT ![r] = new], job)
    BY <1>2 DEF new
  <2>2. job \in [Refs -> {"none", "running", "written", "late", "gone"}]
    BY DEF TypeOK
  <2> QED
    BY <2>1, <2>2, <1>6, StartNextCommitType
<1>8. grant' \in [Calls -> [ref : Refs \cup {0}, gsns : SUBSET Gsns]]
  <2>1. ASSUME NEW c \in Calls
        PROVE  GrantsOf(r, counter + 1, ids)[c]
                 \in [ref : Refs \cup {0}, gsns : SUBSET Gsns]
    <3>1. CASE c \in PendingCalls
      <4> DEFINE own == {x \in DOMAIN ids : \E i \in DOMAIN pending :
                           pending[i] = c /\ IsOwner(i, ids[x])}
      <4>1. \A k \in own : counter + 1 + k - 1 \in Gsns
        BY <1>3, <1>4, <1>1 DEF Gsns
      <4>2. {counter + 1 + k - 1 : k \in own} \in SUBSET Gsns
        BY <4>1
      <4> HIDE DEF own
      <4>3. GrantsOf(r, counter + 1, ids)[c]
              = [ref |-> r, gsns |-> {counter + 1 + k - 1 : k \in own}]
        BY <3>1 DEF GrantsOf, own
      <4> QED
        BY <4>2, <4>3, <1>3
    <3>2. CASE c \notin PendingCalls
      BY <3>2 DEF GrantsOf, TypeOK
    <3> QED
      BY <3>1, <3>2
  <2>2. GrantsOf(r, counter + 1, ids) = [c \in Calls |-> GrantsOf(r, counter + 1, ids)[c]]
    BY DEF GrantsOf
  <2> QED
    BY <1>2, <2>1, <2>2
<1>9. nextRef' \in 1..(MaxBatches + 1) /\ pending' \in Seq(Calls)
  BY DEF Flush, TypeOK
<1>10. inflight' \subseteq Actions /\ counter' \in 0..MaxGsn
  BY <1>1, <1>2, <1>3 DEF TypeOK
<1>11. UNCHANGED <<stage, watermark, resolved, durable, log, applied, notified,
                   acts, reply, escalated, lost, crashes, treeCrashes, rebuildFaults>>
  BY DEF Flush, diskVars, budgets
<1> QED
  BY <1>7, <1>8, <1>9, <1>10, <1>11 DEF TypeOK

\* Abandoning a batch, and the successors whose rebuild raises, keeps the types.
LEMMA CommitFailedType ==
  ASSUME TypeOK, NEW r \in Refs, NEW outcome \in {"late", "gone"},
         CommitFailed(r, outcome), lost' \in Nat
  PROVE  TypeOK'
<1> USE ConstantsAssumption
<1>1. PICK X \in SUBSET Successors(r) :
        rebuildFaults' = rebuildFaults + Cardinality(X) /\ Abandon(r, X)
  BY DEF CommitFailed
<1>2. X \subseteq Refs /\ Cardinality(X) \in Nat
  BY <1>1, RefSetFinite DEF Successors
<1> DEFINE gone == {r} \cup X
           left == [q \in Refs |-> IF q \in gone
                                   THEN [batch[q] EXCEPT !.phase = "abandoned"]
                                   ELSE batch[q]]
<1>3. batch' \in [Refs -> BatchType]
  <2>1. left \in [Refs -> BatchType]
    BY PhaseType DEF TypeOK, Phases
  <2>2. batch' = [q \in Refs |-> IF left[q].phase = "prepared" /\ q > r
                                 THEN [left[q] EXCEPT !.basis = Resolution(left, q)]
                                 ELSE left[q]]
    BY <1>1 DEF Abandon
  <2>3. \A q \in Refs : Resolution(left, q) \in SUBSET Movers
    BY ResolutionType
  <2> HIDE DEF left
  <2>4. ASSUME NEW q \in Refs
        PROVE  [left[q] EXCEPT !.basis = Resolution(left, q)] \in BatchType
    BY <2>1, <2>3 DEF BatchType
  <2> QED
    BY <2>1, <2>2, <2>4
<1>4. inflight' \subseteq Actions
  BY <1>1 DEF Abandon, TypeOK
<1>5. UNION {GsnsOf(batch[q]) : q \in gone} \in SUBSET Gsns
  <2>1. \A q \in Refs : GsnsOf(batch[q]) \subseteq Gsns
    BY GsnsOfType DEF TypeOK
  <2> QED
    BY <1>2, <2>1
<1>6. watermark' \in 0..MaxGsn /\ resolved' \subseteq Gsns
  <2>1. MarkResolved(UNION {GsnsOf(batch[q]) : q \in gone})
    BY <1>1 DEF Abandon
  <2> HIDE DEF gone
  <2> QED
    BY <1>5, <2>1, MarkResolvedType
<1>7. reply' \in [Calls -> {"none", "ok", "error", "down"}]
  BY DEF CommitFailed, Answer, TypeOK
<1>8. job' \in [Refs -> {"none", "running", "written", "late", "gone"}]
  BY DEF CommitFailed, TypeOK
<1>9. rebuildFaults' \in Nat
  BY <1>1, <1>2 DEF TypeOK
<1> QED
  BY <1>3, <1>4, <1>6, <1>7, <1>8, <1>9 DEF CommitFailed, TypeOK, diskVars

\* Every step keeps the types.
LEMMA StepType ==
  ASSUME TypeOK, [Next]_vars
  PROVE  TypeOK'
<1> USE ConstantsAssumption
<1>1. ASSUME NEW c \in Calls, NEW A \in CallSets, Submit(c, A)
      PROVE  TypeOK'
  BY <1>1 DEF TypeOK, Submit, CallSets, seqVars, diskVars, budgets
<1>2. CASE FlushNothingFresh
  BY <1>2 DEF TypeOK, FlushNothingFresh, Answer, seqVars, diskVars, budgets
<1>3. CASE Flush
  BY <1>3, FlushType
<1>4. ASSUME NEW r \in Refs, CommitterWrite(r) \/ LateWrite(r)
      PROVE  TypeOK'
  <2>1. WriteBatch(r) /\ job' \in [Refs -> {"none", "running", "written", "late", "gone"}]
    BY <1>4 DEF TypeOK, CommitterWrite, LateWrite
  <2>2. durable' \subseteq Refs /\ log' \in [Gsns -> Refs \cup {0}]
    BY <2>1 DEF WriteBatch, TypeOK
  <2>3. UNCHANGED <<stage, seqVars, pending, batch, nextRef, applied, notified,
                    callVars, escalated, budgets>>
    BY <1>4 DEF CommitterWrite, LateWrite
  <2> QED
    BY <2>1, <2>2, <2>3 DEF TypeOK, seqVars, callVars, budgets
<1>5. ASSUME NEW r \in Refs, LateDrop(r)
      PROVE  TypeOK'
  BY <1>5 DEF TypeOK, LateDrop, seqVars, callVars, diskVars, budgets
<1>6. ASSUME NEW r \in Refs, CommitAck(r)
      PROVE  TypeOK'
  <2>1. batch' \in [Refs -> BatchType]
    BY <1>6, PhaseType DEF CommitAck, TypeOK, Phases
  <2>2. watermark' \in 0..MaxGsn /\ resolved' \subseteq Gsns
    <3>1. GsnsOf(batch[r]) \subseteq Gsns
      BY GsnsOfType DEF TypeOK
    <3> QED
      BY <1>6, <3>1, MarkResolvedType DEF CommitAck
  <2> QED
    BY <1>6, <2>1, <2>2 DEF CommitAck, TypeOK, diskVars, callVars, budgets
<1>7. ASSUME NEW r \in Refs, CommitError(r) \/ CommitTimeout(r) \/ CommitResultLost(r)
      PROVE  TypeOK'
  <2>1. lost' \in Nat
    BY <1>7 DEF CommitError, CommitTimeout, CommitResultLost, TypeOK
  <2> QED
    BY <1>7, <2>1, CommitFailedType DEF CommitError, CommitTimeout, CommitResultLost
<1>8. ASSUME NEW r \in Refs, ApplyOne(r)
      PROVE  TypeOK'
  <2>1. batch' \in [Refs -> BatchType]
    BY <1>8, PhaseType DEF ApplyOne, TypeOK, Phases
  <2>2. applied' \subseteq Movers /\ notified' \in Seq(Refs)
    BY <1>8 DEF ApplyOne, TypeOK, MoversOf
  <2>3. reply' \in [Calls -> {"none", "ok", "error", "down"}]
    BY <1>8 DEF ApplyOne, Answer, TypeOK
  <2> QED
    BY <1>8, <2>1, <2>2, <2>3 DEF ApplyOne, TypeOK, seqVars, diskVars, budgets
<1>9. ASSUME NEW r \in Refs, ApplyFails(r)
      PROVE  TypeOK'
  <2>1. batch' \in [Refs -> BatchType]
    BY <1>9, PhaseType DEF ApplyFails, TypeOK, Phases
  <2>2. reply' \in [Calls -> {"none", "ok", "error", "down"}]
    BY <1>9 DEF ApplyFails, Answer, TypeOK
  <2> QED
    BY <1>9, <2>1, <2>2 DEF ApplyFails, TypeOK, seqVars, diskVars, budgets
<1>10. CASE FinishDrain
  BY <1>10, StartNextCommitType
     DEF FinishDrain, TypeOK, seqVars, diskVars, callVars, budgets
<1>11. ASSUME WriterDies, WriterCrash \/ TreeCrash
       PROVE  TypeOK'
  <2>1. batch' \in [Refs -> BatchType]
    BY <1>11, PhaseType DEF WriterDies, TypeOK, Phases
  <2>2. job' \in [Refs -> {"none", "running", "written", "late", "gone"}]
    BY <1>11 DEF WriterDies, TypeOK
  <2>3. reply' \in [Calls -> {"none", "ok", "error", "down"}]
    BY <1>11 DEF WriterDies, Answer, TypeOK
  <2>4. pending' \in Seq(Calls)
    BY <1>11 DEF WriterDies
  <2>5. /\ stage' \in {"cache", "writer"}
        /\ escalated' \in BOOLEAN
    BY <1>11 DEF WriterCrash, TreeCrash, TypeOK
  <2>6. /\ lost' \in Nat
        /\ crashes' \in Nat
        /\ treeCrashes' \in Nat
        /\ rebuildFaults' \in Nat
    BY <1>11 DEF WriterCrash, TreeCrash, TypeOK
  <2>7. UNCHANGED <<counter, watermark, resolved, inflight, nextRef, durable, log,
                    applied, notified, acts, grant>>
    BY <1>11 DEF WriterDies, seqVars, diskVars
  <2> QED
    BY <2>1, <2>2, <2>3, <2>4, <2>5, <2>6, <2>7 DEF TypeOK
<1>12. CASE WriterCrash
  BY <1>11, <1>12 DEF WriterCrash
<1>13. CASE TreeCrash
  BY <1>11, <1>13 DEF TreeCrash
<1>14. CASE SystemCacheInit
  <2>1. applied' \subseteq Movers
    BY <1>14 DEF SystemCacheInit, MoversOf
  <2> QED
    BY <1>14, <2>1 DEF SystemCacheInit, TypeOK, diskVars, callVars, budgets
<1>15. CASE WatermarkInit
  BY <1>15 DEF WatermarkInit, TypeOK, diskVars, callVars, budgets
<1>16. CASE WriterInit
  <2>1. counter' \in 0..MaxGsn
    BY <1>16 DEF WriterInit, TypeOK
  <2>2. watermark' \in 0..MaxGsn /\ resolved' \subseteq Gsns
    <3>1. (watermark + 1)..counter' \in SUBSET Gsns
      BY <2>1 DEF TypeOK, Gsns
    <3>2. CASE MarkResolved((watermark + 1)..counter')
      BY <3>1, <3>2, MarkResolvedType
    <3>3. CASE UNCHANGED <<watermark, resolved>>
      BY <3>3 DEF TypeOK
    <3> QED
      BY <1>16, <3>2, <3>3 DEF WriterInit
  <2> QED
    BY <1>16, <2>1, <2>2 DEF WriterInit, TypeOK, diskVars, callVars, budgets
<1>17. CASE UNCHANGED vars
  BY <1>17 DEF vars, TypeOK, seqVars, diskVars, callVars, budgets
<1> QED
  BY <1>1, <1>2, <1>3, <1>4, <1>5, <1>6, <1>7, <1>8, <1>9, <1>10, <1>12, <1>13,
     <1>14, <1>15, <1>16, <1>17
     DEF Next, Committer, CommitResult, Restart

\* Every variable of the write path keeps its type in every behaviour.
THEOREM TypeCorrect == Spec => []TypeOK
<1>1. Init => TypeOK
  BY InitType
<1>2. TypeOK /\ [Next]_vars => TypeOK'
  BY StepType
<1> QED
  BY <1>1, <1>2, PTL DEF Spec

(***************************************************************************)
(* The frontier.  ClaimInv is inductive relative to TypeOK: marking a      *)
(* range resolved cannot carry the frontier into a range that is disjoint  *)
(* from everything resolved, and the open ranges are pairwise disjoint.    *)
(***************************************************************************)

\* Handing a batch to the pool changes nothing but one phase, from one
\* unresolved phase to the other.
LEMMA StartNextCommitFrame ==
  ASSUME NEW bs \in [Refs -> BatchType], NEW js, StartNextCommit(bs, js),
         NEW q \in Refs
  PROVE  /\ batch'[q].first = bs[q].first
         /\ batch'[q].last = bs[q].last
         /\ batch'[q].ids = bs[q].ids
         /\ batch'[q].calls = bs[q].calls
         /\ batch'[q].phase \in UnresolvedPhases <=> bs[q].phase \in UnresolvedPhases
         /\ batch'[q].phase \in OpenPhases <=> bs[q].phase \in OpenPhases
         /\ batch'[q].phase = "none" <=> bs[q].phase = "none"
<1>1. CASE MayCommit(bs, q)
  <2>1. batch'[q] = [bs[q] EXCEPT !.phase = "committing"]
    BY <1>1 DEF StartNextCommit
  <2>2. bs[q].phase = "prepared" /\ bs[q] \in BatchType
    BY <1>1 DEF MayCommit
  <2> QED
    BY <2>1, <2>2 DEF BatchType, UnresolvedPhases, OpenPhases
<1>2. CASE ~MayCommit(bs, q)
  BY <1>2 DEF StartNextCommit
<1> QED
  BY <1>1, <1>2

\* The frontier only moves up, and not beyond what was ever resolved.
LEMMA MarkResolvedBounded ==
  ASSUME TypeOK, NEW G \in SUBSET Gsns, MarkResolved(G), NEW n \in Nat,
         watermark <= n, resolved \subseteq 1..n, G \subseteq 1..n
  PROVE  watermark <= watermark' /\ watermark' <= n /\ resolved' \subseteq 1..n
<1>1. PICK m \in watermark..MaxGsn :
        /\ IsFrontier(watermark, resolved \cup G, m)
        /\ watermark' = m
        /\ resolved' = {g \in resolved \cup G : g > m}
  BY DEF MarkResolved
<1>2. watermark \in Nat /\ m \in Nat /\ watermark <= m
  BY <1>1, ConstantsAssumption DEF TypeOK
<1>3. m > watermark => m \in resolved \cup G
  BY <1>1, <1>2 DEF IsFrontier
<1>4. m <= n
  BY <1>2, <1>3
<1> QED
  BY <1>1, <1>2, <1>4

\* A range above the frontier and disjoint from what is resolved stays so.
LEMMA MarkResolvedKeepsApart ==
  ASSUME TypeOK, NEW G \in SUBSET Gsns, MarkResolved(G), NEW b \in BatchType,
         watermark < b.first, b.first <= b.last,
         GsnsOf(b) \cap (resolved \cup G) = {}
  PROVE  watermark' < b.first /\ GsnsOf(b) \cap resolved' = {}
<1>1. PICK m \in watermark..MaxGsn :
        /\ IsFrontier(watermark, resolved \cup G, m)
        /\ watermark' = m
        /\ resolved' = {g \in resolved \cup G : g > m}
  BY DEF MarkResolved
<1>2. watermark \in Nat /\ m \in Nat /\ b.first \in Nat /\ b.last \in Nat
  BY <1>1, ConstantsAssumption DEF TypeOK, BatchType
<1>3. b.first \in GsnsOf(b)
  BY <1>2 DEF GsnsOf
<1>4. m >= b.first => b.first \in resolved \cup G
  BY <1>1, <1>2 DEF IsFrontier
<1> QED
  BY <1>1, <1>2, <1>3, <1>4

LEMMA InitClaims == Init => ClaimInv
<1> SUFFICES ASSUME Init PROVE ClaimInv
  OBVIOUS
<1>1. \A r \in Refs : batch[r].phase = "none"
  BY DEF Init, NoBatch
<1>2. Unresolved = {}
  BY <1>1 DEF Unresolved, UnresolvedPhases
<1> QED
  BY <1>1, <1>2 DEF ClaimInv, RefsInOrder, FrontierBounded, OpenClaimsApart, Init,
                    WriterUp, OpenPhases

\* A step that leaves the sequencer and the batches alone, and removes
\* nothing from the log, keeps ClaimInv.
LEMMA ClaimFrame ==
  ASSUME TypeOK, ClaimInv,
         UNCHANGED <<stage, counter, watermark, resolved, batch, nextRef>>,
         \A g \in Gsns : log[g] # 0 => log'[g] # 0
  PROVE  ClaimInv'
<1>1. Unresolved' = Unresolved /\ WriterUp' = WriterUp
  BY DEF Unresolved, WriterUp
<1>2. RefsInOrder'
  BY <1>1 DEF ClaimInv, RefsInOrder
<1>3. FrontierBounded'
  BY <1>1 DEF ClaimInv, FrontierBounded
<1>4. OpenClaimsApart'
  BY <1>1 DEF ClaimInv, OpenClaimsApart, GsnsOf
<1> QED
  BY <1>2, <1>3, <1>4 DEF ClaimInv

\* A step that only moves batches between phases without resolving or opening
\* one keeps ClaimInv, if the Writer stays up.
LEMMA ClaimPhases ==
  ASSUME TypeOK, ClaimInv, WriterUp, WriterUp',
         UNCHANGED <<counter, watermark, resolved, nextRef>>,
         \A q \in Refs :
           /\ batch'[q].first = batch[q].first
           /\ batch'[q].last = batch[q].last
           /\ batch'[q].phase \in UnresolvedPhases => batch[q].phase \in UnresolvedPhases
           /\ batch[q].phase = "none" => batch'[q].phase = "none"
  PROVE  ClaimInv'
<1>1. Unresolved' \subseteq Unresolved
  BY DEF Unresolved
<1>2. RefsInOrder'
  BY DEF ClaimInv, RefsInOrder
<1>3. FrontierBounded'
  BY DEF ClaimInv, FrontierBounded, WriterUp
<1>4. OpenClaimsApart'
  BY <1>1 DEF ClaimInv, OpenClaimsApart, GsnsOf, Unresolved
<1> QED
  BY <1>2, <1>3, <1>4 DEF ClaimInv

\* A dead Writer holds no claim.
LEMMA ClaimsDown ==
  ASSUME TypeOK, RefsInOrder, WriterDies, FrontierBounded', ~WriterUp'
  PROVE  ClaimInv'
<1>1. \A q \in Refs : /\ batch'[q].phase \notin OpenPhases
                      /\ batch[q].phase = "none" => batch'[q].phase = "none"
  BY DEF WriterDies, OpenPhases, TypeOK, BatchType
<1>2. Unresolved' = {}
  BY <1>1 DEF Unresolved, UnresolvedPhases, OpenPhases
<1>3. nextRef' = nextRef
  BY DEF WriterDies
<1> QED
  BY <1>1, <1>2, <1>3 DEF ClaimInv, RefsInOrder, OpenClaimsApart

\* A flush takes the next ref for a range just above the counter, and leaves
\* the other batches alone but for handing one of them to the pool.
LEMMA FlushShape ==
  ASSUME TypeOK, Flush
  PROVE  /\ nextRef \in Refs /\ counter \in Nat /\ counter' \in 0..MaxGsn
         /\ counter < counter'
         /\ batch'[nextRef].first = counter + 1
         /\ batch'[nextRef].last = counter'
         /\ \A q \in Refs : q # nextRef =>
              /\ batch'[q].first = batch[q].first
              /\ batch'[q].last = batch[q].last
              /\ q \in Unresolved' <=> q \in Unresolved
              /\ batch'[q].phase = "none" <=> batch[q].phase = "none"
<1> USE ConstantsAssumption
<1> DEFINE n == Cardinality(FreshIds)
           r == nextRef
<1>1. n \in Nat /\ n >= 1
  BY FreshIdsFinite DEF Flush
<1>2. PICK ids \in FreshOrders :
        /\ counter' = counter + n
        /\ StartNextCommit([batch EXCEPT ![r] =
              [first |-> counter + 1, last |-> counter + n, ids |-> ids,
               calls |-> PendingCalls, basis |-> Resolution(batch, r),
               phase |-> "prepared"]], job)
  BY DEF Flush
<1> DEFINE new == [first |-> counter + 1, last |-> counter + n, ids |-> ids,
                   calls |-> PendingCalls, basis |-> Resolution(batch, r),
                   phase |-> "prepared"]
           bs  == [batch EXCEPT ![r] = new]
<1>3. r \in Refs /\ counter \in Nat /\ watermark \in Nat /\ counter + n \in 0..MaxGsn
  BY <1>1 DEF Flush, TypeOK, Refs
<1>4. new \in BatchType
  <2>1. Resolution(batch, r) \in SUBSET Movers
    BY ResolutionType
  <2>2. FreshIds \subseteq Actions /\ PendingCalls \subseteq Calls
    BY FreshIdsFinite DEF TypeOK, PendingCalls
  <2>3. ids \in Seq(Actions)
    BY <1>1, <1>2, <2>2 DEF FreshOrders
  <2> QED
    BY <1>1, <1>3, <2>1, <2>2, <2>3 DEF BatchType, Phases
<1>5. bs \in [Refs -> BatchType]
  BY <1>3, <1>4 DEF TypeOK
<1>6. StartNextCommit(bs, job)
  BY <1>2
<1>7. /\ bs[r].first = counter + 1 /\ bs[r].last = counter + n
      /\ bs[r].phase = "prepared"
      /\ \A q \in Refs : q # r => bs[q] = batch[q]
  BY <1>3 DEF TypeOK
<1> HIDE DEF bs
<1>8. \A q \in Refs :
         /\ batch'[q].first = bs[q].first
         /\ batch'[q].last = bs[q].last
         /\ batch'[q].phase \in UnresolvedPhases <=> bs[q].phase \in UnresolvedPhases
         /\ batch'[q].phase = "none" <=> bs[q].phase = "none"
  BY <1>5, <1>6, StartNextCommitFrame
<1> HIDE DEF new, n
<1>9. /\ batch'[r].first = counter + 1 /\ batch'[r].last = counter + n
      /\ \A q \in Refs : q # r =>
           /\ batch'[q].first = batch[q].first /\ batch'[q].last = batch[q].last
           /\ q \in Unresolved' <=> q \in Unresolved
           /\ batch'[q].phase = "none" <=> batch[q].phase = "none"
  BY <1>3, <1>7, <1>8 DEF Unresolved
<1>10. counter' = counter + n /\ n \in Nat /\ n >= 1
  BY <1>1, <1>2 DEF n
<1> QED
  BY <1>3, <1>9, <1>10

\* The new claim of a flush lies above the counter, hence above every other.
LEMMA FlushClaims ==
  ASSUME TypeOK, ClaimInv, Flush
  PROVE  ClaimInv'
<1> USE ConstantsAssumption
<1> DEFINE r == nextRef
<1>1. r \in Refs /\ counter \in Nat /\ counter' \in Nat /\ watermark \in Nat
      /\ counter < counter'
  BY FlushShape DEF TypeOK
<1>2. /\ batch'[r].first = counter + 1 /\ batch'[r].last = counter'
      /\ \A q \in Refs : q # r =>
           /\ batch'[q].first = batch[q].first /\ batch'[q].last = batch[q].last
           /\ q \in Unresolved' <=> q \in Unresolved
           /\ batch'[q].phase = "none" <=> batch[q].phase = "none"
  BY FlushShape
<1>3. /\ WriterUp /\ WriterUp' /\ stage' = stage /\ nextRef' = nextRef + 1
      /\ UNCHANGED <<watermark, resolved>>
  BY DEF Flush, WriterUp
<1>4. RefsInOrder'
  <2>1. ASSUME NEW q \in Refs, q >= nextRef'
        PROVE  batch'[q].phase = "none"
    <3>1. q >= nextRef /\ q # nextRef
      BY <1>1, <1>3, <2>1 DEF Refs
    <3> QED
      BY <1>2, <3>1 DEF ClaimInv, RefsInOrder
  <2> QED
    BY <1>3, <2>1 DEF RefsInOrder
<1>5. FrontierBounded'
  BY <1>1, <1>3 DEF ClaimInv, FrontierBounded, WriterUp
<1>6. OpenClaimsApart'
  <2>1. watermark <= counter /\ resolved \subseteq 1..counter
    BY <1>3 DEF ClaimInv, FrontierBounded
  <2>2. \A q \in Refs : q # r /\ q \in Unresolved' =>
          /\ q < r
          /\ watermark' < batch'[q].first /\ batch'[q].first <= batch'[q].last
          /\ batch'[q].last <= counter
          /\ GsnsOf(batch'[q]) \cap resolved' = {}
    <3>1. SUFFICES ASSUME NEW q \in Refs, q # r, q \in Unresolved'
                   PROVE  /\ q < r
                          /\ watermark' < batch'[q].first
                          /\ batch'[q].first <= batch'[q].last
                          /\ batch'[q].last <= counter
                          /\ GsnsOf(batch'[q]) \cap resolved' = {}
      OBVIOUS
    <3>2. q \in Unresolved
      BY <1>2, <3>1
    <3>3. q < r
      <4>1. batch[q].phase # "none"
        BY <3>2 DEF Unresolved, UnresolvedPhases
      <4> QED
        BY <4>1, <3>1 DEF ClaimInv, RefsInOrder, Refs, TypeOK
    <3>4. GsnsOf(batch'[q]) = GsnsOf(batch[q])
      BY <1>2, <3>1 DEF GsnsOf
    <3>5. /\ watermark < batch[q].first /\ batch[q].first <= batch[q].last
          /\ batch[q].last <= counter /\ GsnsOf(batch[q]) \cap resolved = {}
      BY <3>2 DEF ClaimInv, OpenClaimsApart
    <3> QED
      BY <1>2, <1>3, <3>1, <3>3, <3>4, <3>5
  <2>3. /\ watermark' < batch'[r].first /\ batch'[r].first <= batch'[r].last
        /\ batch'[r].last <= counter' /\ GsnsOf(batch'[r]) \cap resolved' = {}
    BY <1>1, <1>2, <1>3, <2>1 DEF GsnsOf
  <2>4. Unresolved' \subseteq Refs
    BY DEF Unresolved
  <2>5. counter' >= counter
    BY <1>1
  <2>6. \A q \in Unresolved' :
          /\ watermark' < batch'[q].first /\ batch'[q].first <= batch'[q].last
          /\ batch'[q].last <= counter' /\ GsnsOf(batch'[q]) \cap resolved' = {}
    <3>1. ASSUME NEW q \in Refs
          PROVE  batch'[q].last \in Int
      <4>1. CASE q = r
        BY <1>1, <1>2, <4>1
      <4>2. CASE q # r
        <5>1. batch'[q].last = batch[q].last
          BY <1>2, <4>2
        <5>2. batch[q] \in BatchType
          BY DEF TypeOK
        <5> QED
          BY <5>1, <5>2 DEF BatchType
      <4> QED
        BY <4>1, <4>2
    <3>2. counter' \in Int
      BY <1>1
    <3> QED
      BY <1>1, <2>2, <2>3, <2>4, <2>5, <3>1, <3>2
  <2>7. ASSUME NEW q \in Unresolved', NEW p \in Unresolved', q < p
        PROVE  batch'[q].last < batch'[p].first
    <3>1. q \in Refs /\ p \in Refs /\ q \in Int /\ p \in Int /\ r \in Int
      BY <2>4, <1>1 DEF Refs
    <3>2. q # r
      BY <2>2, <2>7, <3>1
    <3>3. CASE p = r
      <4>1. batch'[q].last <= counter /\ batch'[q].last \in Int
        <5>1. batch'[q].last <= counter
          BY <2>2, <2>7, <3>1, <3>2
        <5>2. batch'[q].last = batch[q].last
          BY <3>1, <3>2, <1>2
        <5>3. batch[q].last \in Int
          BY <3>1 DEF TypeOK, BatchType
        <5> QED
          BY <5>1, <5>2, <5>3
      <4> QED
        BY <4>1, <3>3, <1>1, <1>2
    <3>4. CASE p # r
      BY <2>7, <3>1, <3>2, <3>4, <1>2 DEF ClaimInv, OpenClaimsApart
    <3> QED
      BY <3>3, <3>4
  <2> QED
    BY <2>6, <2>7 DEF OpenClaimsApart
<1> QED
  BY <1>4, <1>5, <1>6 DEF ClaimInv

\* Resolving the ranges of a set of open batches, which then leave the
\* pipeline, keeps the other claims apart from the frontier.
LEMMA ClaimsResolved ==
  ASSUME TypeOK, ClaimInv, WriterUp, WriterUp', NEW D \in SUBSET Unresolved,
         MarkResolved(UNION {GsnsOf(batch[q]) : q \in D}),
         UNCHANGED <<counter, nextRef>>,
         \A q \in Refs :
           /\ batch'[q].first = batch[q].first
           /\ batch'[q].last = batch[q].last
           /\ batch'[q].phase \in UnresolvedPhases =>
                batch[q].phase \in UnresolvedPhases /\ q \notin D
           /\ batch[q].phase = "none" => batch'[q].phase = "none"
  PROVE  ClaimInv'
<1> USE ConstantsAssumption
<1> DEFINE G == UNION {GsnsOf(batch[q]) : q \in D}
<1>1. /\ Unresolved \subseteq Refs /\ Unresolved' \subseteq Unresolved \ D
      /\ \A q \in Refs : GsnsOf(batch'[q]) = GsnsOf(batch[q])
  BY DEF Unresolved, GsnsOf
<1>2. watermark <= counter /\ resolved \subseteq 1..counter /\ counter \in Nat
  BY DEF ClaimInv, FrontierBounded, TypeOK
<1>3. \A q \in Unresolved : GsnsOf(batch[q]) \subseteq 1..counter
  <2>1. ASSUME NEW q \in Unresolved, NEW g \in GsnsOf(batch[q])
        PROVE  g \in 1..counter
    <3>1. batch[q].last <= counter /\ batch[q] \in BatchType
      BY <1>1 DEF ClaimInv, OpenClaimsApart, TypeOK
    <3> QED
      BY <3>1, <1>2 DEF GsnsOf, BatchType
  <2> QED
    BY <2>1
<1>4. G \subseteq 1..counter /\ G \in SUBSET Gsns
  <2>1. \A q \in D : GsnsOf(batch[q]) \subseteq 1..counter
    BY <1>3
  <2>2. 1..counter \subseteq Gsns
    BY <1>2 DEF Gsns, TypeOK
  <2> QED
    BY <2>1, <2>2
<1>5. \A q \in Unresolved \ D : GsnsOf(batch[q]) \cap G = {}
  <2>1. ASSUME NEW q \in Unresolved \ D, NEW p \in D, NEW g,
               g \in GsnsOf(batch[q]), g \in GsnsOf(batch[p])
        PROVE  FALSE
    <3>1. /\ q \in Refs /\ p \in Refs /\ q # p /\ q \in Int /\ p \in Int
          /\ batch[q] \in BatchType /\ batch[p] \in BatchType /\ p \in Unresolved
      <4>1. p \in Unresolved /\ q \in Unresolved /\ q # p
        OBVIOUS
      <4>2. q \in Refs /\ p \in Refs
        BY <4>1, <1>1
      <4> QED
        BY <4>1, <4>2 DEF TypeOK, Refs
    <3>2. batch[q].last < batch[p].first \/ batch[p].last < batch[q].first
      BY <3>1 DEF ClaimInv, OpenClaimsApart
    <3>3. /\ g \in Int /\ batch[q].first <= g /\ g <= batch[q].last
          /\ batch[p].first <= g /\ g <= batch[p].last
      BY <2>1, <3>1 DEF GsnsOf, BatchType
    <3> QED
      BY <3>1, <3>2, <3>3 DEF BatchType
  <2> QED
    BY <2>1
<1>6. MarkResolved(G)
  OBVIOUS
<1> HIDE DEF G
<1>7. watermark' <= counter' /\ resolved' \subseteq 1..counter'
  BY <1>2, <1>4, <1>6, MarkResolvedBounded
<1>8. ASSUME NEW q \in Unresolved'
      PROVE  /\ watermark' < batch'[q].first
             /\ batch'[q].first <= batch'[q].last
             /\ batch'[q].last <= counter'
             /\ GsnsOf(batch'[q]) \cap resolved' = {}
  <2>1. q \in Unresolved /\ q \in Refs /\ batch[q] \in BatchType /\ q \notin D
    BY <1>1 DEF TypeOK
  <2>2. /\ watermark < batch[q].first /\ batch[q].first <= batch[q].last
        /\ batch[q].last <= counter /\ GsnsOf(batch[q]) \cap resolved = {}
    BY <2>1 DEF ClaimInv, OpenClaimsApart
  <2>3. GsnsOf(batch[q]) \cap (resolved \cup G) = {}
    BY <2>1, <2>2, <1>5
  <2>4. watermark' < batch[q].first /\ GsnsOf(batch[q]) \cap resolved' = {}
    BY <2>1, <2>2, <2>3, <1>4, <1>6, MarkResolvedKeepsApart
  <2> QED
    BY <2>1, <2>2, <2>4, <1>1
<1>9. \A p, q \in Unresolved' : p < q => batch'[p].last < batch'[q].first
  BY <1>1 DEF ClaimInv, OpenClaimsApart
<1>10. RefsInOrder'
  BY DEF ClaimInv, RefsInOrder
<1> QED
  BY <1>7, <1>8, <1>9, <1>10
     DEF ClaimInv, OpenClaimsApart, FrontierBounded, WriterUp

\* What abandoning r and the successors X does to the batches.
LEMMA AbandonFrame ==
  ASSUME TypeOK, NEW r \in Refs, NEW X \in SUBSET Refs, Abandon(r, X), NEW q \in Refs
  PROVE  /\ batch'[q].first = batch[q].first
         /\ batch'[q].last = batch[q].last
         /\ batch'[q].ids = batch[q].ids
         /\ batch'[q].calls = batch[q].calls
         /\ q \in {r} \cup X => batch'[q].phase = "abandoned"
         /\ q \notin {r} \cup X => batch'[q].phase = batch[q].phase
<1> DEFINE gone == {r} \cup X
           left == [p \in Refs |-> IF p \in gone
                                   THEN [batch[p] EXCEPT !.phase = "abandoned"]
                                   ELSE batch[p]]
<1>1. batch'[q] = IF left[q].phase = "prepared" /\ q > r
                  THEN [left[q] EXCEPT !.basis = Resolution(left, q)]
                  ELSE left[q]
  BY DEF Abandon
<1>2. batch[q] \in BatchType
  BY DEF TypeOK
<1>3. left[q] = IF q \in gone THEN [batch[q] EXCEPT !.phase = "abandoned"] ELSE batch[q]
  OBVIOUS
<1> HIDE DEF left, gone
<1>4. left[q] \in BatchType
  BY <1>2, <1>3, PhaseType DEF Phases
<1>5. /\ batch'[q].first = left[q].first /\ batch'[q].last = left[q].last
      /\ batch'[q].ids = left[q].ids /\ batch'[q].calls = left[q].calls
      /\ batch'[q].phase = left[q].phase
  BY <1>1, <1>4 DEF BatchType
<1>6. /\ left[q].first = batch[q].first /\ left[q].last = batch[q].last
      /\ left[q].ids = batch[q].ids /\ left[q].calls = batch[q].calls
      /\ q \in gone => left[q].phase = "abandoned"
      /\ q \notin gone => left[q].phase = batch[q].phase
  BY <1>2, <1>3 DEF BatchType
<1> QED
  BY <1>5, <1>6 DEF gone

\* Every step keeps ClaimInv.
LEMMA ClaimStep ==
  ASSUME TypeOK, ClaimInv, [Next]_vars
  PROVE  ClaimInv'
<1> USE ConstantsAssumption
<1>1. ASSUME NEW c \in Calls, NEW A \in CallSets, Submit(c, A)
      PROVE  ClaimInv'
  BY <1>1, ClaimFrame DEF Submit, seqVars, diskVars
<1>2. CASE FlushNothingFresh
  BY <1>2, ClaimFrame DEF FlushNothingFresh, seqVars, diskVars
<1>3. CASE Flush
  BY <1>3, FlushClaims
<1>4. ASSUME NEW r \in Refs, Committer(r)
      PROVE  ClaimInv'
  <2>1. \A g \in Gsns : log[g] # 0 => log'[g] # 0
    <3>1. CASE LateDrop(r)
      BY <3>1 DEF LateDrop, diskVars
    <3>2. CASE WriteBatch(r)
      BY <3>2 DEF WriteBatch, Refs
    <3> QED
      BY <1>4, <3>1, <3>2 DEF Committer, CommitterWrite, LateWrite
  <2> QED
    BY <1>4, <2>1, ClaimFrame
       DEF Committer, CommitterWrite, LateWrite, LateDrop, seqVars
<1>5. ASSUME NEW r \in Refs, CommitAck(r)
      PROVE  ClaimInv'
  <2>1. r \in Unresolved
    BY <1>5 DEF CommitAck, Unresolved, UnresolvedPhases
  <2>2. UNION {GsnsOf(batch[q]) : q \in {r}} = GsnsOf(batch[r])
    OBVIOUS
  <2>3. \A q \in Refs :
          /\ batch'[q].first = batch[q].first
          /\ batch'[q].last = batch[q].last
          /\ batch'[q].phase \in UnresolvedPhases =>
               batch[q].phase \in UnresolvedPhases /\ q \notin {r}
          /\ batch[q].phase = "none" => batch'[q].phase = "none"
    BY <1>5 DEF CommitAck, TypeOK, BatchType, UnresolvedPhases
  <2>4. WriterUp /\ WriterUp' /\ UNCHANGED <<counter, nextRef>>
    BY <1>5 DEF CommitAck, WriterUp
  <2>5. MarkResolved(UNION {GsnsOf(batch[q]) : q \in {r}})
    BY <1>5, <2>2 DEF CommitAck
  <2> QED
    BY <2>1, <2>3, <2>4, <2>5, ClaimsResolved
<1>6. ASSUME NEW r \in Refs, NEW outcome, CommitFailed(r, outcome)
      PROVE  ClaimInv'
  <2>1. PICK X \in SUBSET Successors(r) : Abandon(r, X)
    BY <1>6 DEF CommitFailed
  <2> DEFINE gone == {r} \cup X
  <2>2. gone \in SUBSET Unresolved /\ X \in SUBSET Refs
    BY <1>6, <2>1 DEF CommitFailed, Successors, Unresolved, UnresolvedPhases
  <2>3. \A q \in Refs :
          /\ batch'[q].first = batch[q].first
          /\ batch'[q].last = batch[q].last
          /\ q \in gone => batch'[q].phase = "abandoned"
          /\ q \notin gone => batch'[q].phase = batch[q].phase
    BY <2>1, <2>2, AbandonFrame
  <2>4. \A q \in gone : batch[q].phase # "none"
    BY <2>2 DEF Unresolved, UnresolvedPhases
  <2>5. MarkResolved(UNION {GsnsOf(batch[q]) : q \in gone})
    BY <2>1 DEF Abandon
  <2>6. WriterUp /\ WriterUp' /\ UNCHANGED <<counter, nextRef>>
    BY <1>6 DEF CommitFailed, WriterUp
  <2> HIDE DEF gone
  <2>7. \A q \in Refs :
          /\ batch'[q].first = batch[q].first
          /\ batch'[q].last = batch[q].last
          /\ batch'[q].phase \in UnresolvedPhases =>
               batch[q].phase \in UnresolvedPhases /\ q \notin gone
          /\ batch[q].phase = "none" => batch'[q].phase = "none"
    BY <2>3, <2>4 DEF UnresolvedPhases
  <2> QED
    BY <2>2, <2>5, <2>6, <2>7, ClaimsResolved
<1>7. ASSUME NEW r \in Refs, ApplyOne(r) \/ ApplyFails(r)
      PROVE  ClaimInv'
  <2>1. \A q \in Refs :
          /\ batch'[q].first = batch[q].first
          /\ batch'[q].last = batch[q].last
          /\ batch'[q].phase \in UnresolvedPhases => batch[q].phase \in UnresolvedPhases
          /\ batch[q].phase = "none" => batch'[q].phase = "none"
    <3>1. PICK p \in {"released", "applying"} : batch' = [batch EXCEPT ![r].phase = p]
      BY <1>7 DEF ApplyOne, ApplyFails
    <3>2. batch[r].phase = "committed"
      BY <1>7 DEF ApplyOne, ApplyFails
    <3> QED
      BY <3>1, <3>2 DEF TypeOK, BatchType, UnresolvedPhases
  <2>2. /\ WriterUp /\ WriterUp'
        /\ UNCHANGED <<counter, watermark, resolved, nextRef>>
    BY <1>7 DEF ApplyOne, ApplyFails, WriterUp, seqVars
  <2> QED
    BY <2>1, <2>2, ClaimPhases
<1>8. CASE FinishDrain
  <2>1. StartNextCommit(batch, job) /\ batch \in [Refs -> BatchType]
    BY <1>8 DEF FinishDrain, TypeOK
  <2>2. \A q \in Refs :
          /\ batch'[q].first = batch[q].first
          /\ batch'[q].last = batch[q].last
          /\ batch'[q].phase \in UnresolvedPhases => batch[q].phase \in UnresolvedPhases
          /\ batch[q].phase = "none" => batch'[q].phase = "none"
    BY <2>1, StartNextCommitFrame
  <2>3. /\ WriterUp /\ WriterUp'
        /\ UNCHANGED <<counter, watermark, resolved, nextRef>>
    BY <1>8 DEF FinishDrain, WriterUp, seqVars
  <2> QED
    BY <2>2, <2>3, ClaimPhases
<1>9. CASE WriterCrash
  <2>1. WriterDies /\ stage' = "writer" /\ WriterUp
    BY <1>9 DEF WriterCrash, WriterUp
  <2>2. FrontierBounded' /\ ~WriterUp'
    BY <2>1 DEF WriterDies, ClaimInv, FrontierBounded, WriterUp, seqVars
  <2> QED
    BY <2>1, <2>2, ClaimsDown DEF ClaimInv
<1>10. CASE TreeCrash
  <2>1. WriterDies /\ stage' = "cache"
    BY <1>10 DEF TreeCrash
  <2>2. FrontierBounded' /\ ~WriterUp'
    BY <2>1 DEF FrontierBounded, WriterUp
  <2> QED
    BY <2>1, <2>2, ClaimsDown DEF ClaimInv
<1>11. ASSUME SystemCacheInit \/ WatermarkInit
       PROVE  ClaimInv'
  <2>1. ~WriterUp /\ ~WriterUp' /\ UNCHANGED <<batch, nextRef>>
    BY <1>11 DEF SystemCacheInit, WatermarkInit, WriterUp
  <2>2. RefsInOrder' /\ Unresolved' = {}
    BY <2>1 DEF ClaimInv, RefsInOrder, Unresolved, OpenPhases, UnresolvedPhases
  <2>3. FrontierBounded'
    <3>1. CASE SystemCacheInit
      BY <3>1, <2>1 DEF SystemCacheInit, FrontierBounded
    <3>2. CASE WatermarkInit
      <4>1. PICK max \in 0..MaxGsn : IsMaxGsn(max) /\ watermark' = max
        BY <3>2 DEF WatermarkInit
      <4>2. resolved' = {} /\ counter' = counter /\ log' = log /\ counter \in Nat
        BY <3>2 DEF WatermarkInit, diskVars, TypeOK
      <4>3. max = 0 \/ (max \in Gsns /\ log[max] # 0)
        BY <4>1 DEF IsMaxGsn, Gsns
      <4> QED
        BY <2>1, <4>1, <4>2, <4>3 DEF FrontierBounded, Gsns
    <3> QED
      BY <1>11, <3>1, <3>2
  <2> QED
    BY <2>2, <2>3 DEF ClaimInv, OpenClaimsApart
<1>12. CASE WriterInit
  <2>1. ~WriterUp /\ WriterUp' /\ UNCHANGED <<batch, nextRef>> /\ stage = "writer"
    BY <1>12 DEF WriterInit, WriterUp
  <2>2. RefsInOrder' /\ Unresolved' = {}
    BY <2>1 DEF ClaimInv, RefsInOrder, Unresolved, OpenPhases, UnresolvedPhases
  <2>3. PICK max \in 0..MaxGsn :
          IsMaxGsn(max) /\ counter' = IF max > counter THEN max ELSE counter
    BY <1>12 DEF WriterInit
  <2>4. counter \in Nat /\ watermark \in Nat /\ counter' \in 0..MaxGsn /\ counter' >= counter
    BY <2>3 DEF TypeOK
  <2>5. watermark <= counter' /\ resolved \subseteq 1..counter'
    <3>1. \A g \in Gsns : log[g] # 0 => g <= counter'
      BY <2>3, <2>4 DEF IsMaxGsn, Gsns
    <3>2. resolved \subseteq 1..counter
      BY <2>1 DEF ClaimInv, FrontierBounded
    <3>3. watermark <= counter \/ \E g \in Gsns : log[g] # 0 /\ watermark <= g
      BY <2>1 DEF ClaimInv, FrontierBounded
    <3>4. watermark <= counter'
      BY <2>4, <3>1, <3>3 DEF Gsns
    <3> QED
      BY <2>4, <3>2, <3>4
  <2>6. watermark' <= counter' /\ resolved' \subseteq 1..counter'
    <3>1. CASE MarkResolved((watermark + 1)..counter')
      <4>1. (watermark + 1)..counter' \in SUBSET Gsns
        BY <2>4 DEF Gsns
      <4>2. (watermark + 1)..counter' \subseteq 1..counter' /\ counter' \in Nat
        BY <2>4
      <4> DEFINE n == counter'
                 G == (watermark + 1)..n
      <4> HIDE DEF n, G
      <4>3. n \in Nat /\ G \in SUBSET Gsns /\ G \subseteq 1..n /\ MarkResolved(G)
            /\ watermark <= n /\ resolved \subseteq 1..n
        BY <3>1, <4>1, <4>2, <2>5 DEF n, G
      <4>4. watermark' <= n /\ resolved' \subseteq 1..n
        BY <4>3, MarkResolvedBounded
      <4> QED
        BY <4>4 DEF n
    <3>2. CASE UNCHANGED <<watermark, resolved>>
      BY <3>2, <2>5
    <3> QED
      BY <1>12, <3>1, <3>2 DEF WriterInit
  <2> QED
    BY <2>1, <2>2, <2>6 DEF ClaimInv, OpenClaimsApart, FrontierBounded, WriterUp
<1>13. CASE UNCHANGED vars
  BY <1>13, ClaimFrame DEF vars, seqVars, diskVars
<1> QED
  BY <1>1, <1>2, <1>3, <1>4, <1>5, <1>6, <1>7, <1>8, <1>9, <1>10, <1>11, <1>12, <1>13
     DEF Next, CommitResult, CommitError, CommitTimeout, CommitResultLost, Restart

\* The resolution frontier never reaches a GSN whose range is still open, for
\* every pipeline depth and every pattern of failures and restarts.
THEOREM FrontierSafe == Spec => []FrontierBelowOpenClaims
<1>1. Init => TypeOK /\ ClaimInv
  BY InitType, InitClaims
<1>2. TypeOK /\ ClaimInv /\ [Next]_vars => (TypeOK /\ ClaimInv)'
  BY StepType, ClaimStep
<1>3. ClaimInv => FrontierBelowOpenClaims
  BY DEF ClaimInv, OpenClaimsApart, FrontierBelowOpenClaims
<1> QED
  BY <1>1, <1>2, <1>3, PTL DEF Spec

(***************************************************************************)
(* GSNs are never reused.  Claims are made above the counter, and until    *)
(* SystemCache restarts the counter only grows.                            *)
(***************************************************************************)

\* A step that moves no range, opens no batch and does not lower the counter
\* keeps IssueInv.
LEMMA IssueFrame ==
  ASSUME TypeOK, IssueInv, treeCrashes' = treeCrashes,
         stage' \in {"cache", "watermark"} => stage = "cache",
         counter' \in Nat, counter <= counter',
         \A q \in Refs :
           /\ batch'[q].first = batch[q].first
           /\ batch'[q].last = batch[q].last
           /\ batch[q].phase = "none" => batch'[q].phase = "none"
  PROVE  IssueInv'
<1> SUFFICES ASSUME treeCrashes' = 0
             PROVE  /\ stage' \notin {"cache", "watermark"}
                    /\ \A r \in Refs : batch'[r].last <= counter'
                    /\ ClaimsNeverReused'
  BY DEF IssueInv
<1>1. /\ stage \notin {"cache", "watermark"} /\ ClaimsNeverReused
      /\ \A r \in Refs : batch[r].last <= counter
  BY DEF IssueInv
<1>2. \A r \in Refs : batch[r].last \in Int /\ counter \in Int
  BY DEF TypeOK, BatchType
<1>3. \A r \in Refs : batch'[r].last <= counter'
  BY <1>1, <1>2
<1>4. ClaimsNeverReused'
  BY <1>1 DEF ClaimsNeverReused
<1> QED
  BY <1>1, <1>3, <1>4

\* Every step keeps IssueInv.
LEMMA IssueStep ==
  ASSUME TypeOK, TypeOK', ClaimInv, IssueInv, [Next]_vars
  PROVE  IssueInv'
<1> USE ConstantsAssumption
<1>1. counter \in Nat /\ counter' \in Nat /\ treeCrashes \in Nat
  BY DEF TypeOK
<1> DEFINE Same == \A q \in Refs :
                     /\ batch'[q].first = batch[q].first
                     /\ batch'[q].last = batch[q].last
                     /\ batch[q].phase = "none" => batch'[q].phase = "none"
<1>2. CASE /\ UNCHANGED <<counter, treeCrashes>>
           /\ stage' \in {"ready", "draining", "writer"} \/ stage' = stage
           /\ Same
  <2>1. CASE stage' = stage
    <3>1. CASE stage = "watermark"
      <4>1. treeCrashes # 0
        BY <3>1 DEF IssueInv
      <4> QED
        BY <4>1, <1>2 DEF IssueInv
    <3>2. CASE stage # "watermark"
      BY <1>1, <1>2, <2>1, <3>2, IssueFrame
    <3> QED
      BY <3>1, <3>2
  <2>2. CASE stage' \in {"ready", "draining", "writer"}
    BY <1>1, <1>2, <2>2, IssueFrame
  <2> QED
    BY <1>2, <2>1, <2>2
<1>3. ASSUME \/ \E c \in Calls, A \in CallSets : Submit(c, A)
             \/ FlushNothingFresh
             \/ \E r \in Refs : Committer(r)
             \/ UNCHANGED vars
      PROVE  IssueInv'
  <2>1. UNCHANGED <<counter, treeCrashes, stage, batch>>
    BY <1>3 DEF Submit, FlushNothingFresh, Committer, CommitterWrite, LateWrite,
                LateDrop, vars, seqVars, budgets
  <2> QED
    BY <2>1, <1>2
<1>4. CASE Flush
  <2> SUFFICES ASSUME treeCrashes' = 0
               PROVE  /\ stage' \notin {"cache", "watermark"}
                      /\ \A r \in Refs : batch'[r].last <= counter'
                      /\ ClaimsNeverReused'
    BY DEF IssueInv
  <2>1. treeCrashes = 0 /\ stage' = "ready"
    BY <1>4 DEF Flush, budgets
  <2>2. /\ \A r \in Refs : batch[r].last <= counter /\ batch[r].last \in Int
        /\ ClaimsNeverReused
    BY <2>1 DEF IssueInv, TypeOK, BatchType
  <2>3. /\ nextRef \in Refs /\ counter < counter'
        /\ batch'[nextRef].first = counter + 1
        /\ batch'[nextRef].last = counter'
        /\ \A q \in Refs : q # nextRef =>
             /\ batch'[q].first = batch[q].first
             /\ batch'[q].last = batch[q].last
             /\ batch'[q].phase = "none" <=> batch[q].phase = "none"
    BY <1>4, FlushShape
  <2>4. \A r \in Refs : batch'[r].last <= counter'
    BY <1>1, <2>2, <2>3
  <2>5. ASSUME NEW r \in Refs, NEW q \in Refs, r < q, batch'[q].phase # "none"
        PROVE  batch'[r].last < batch'[q].first
    <3>1. r \in Int /\ q \in Int /\ nextRef \in Int
      BY <2>3 DEF Refs
    <3>2. r # nextRef
      <4>1. ASSUME r = nextRef PROVE FALSE
        <5>1. batch[q].phase # "none" /\ q >= nextRef
          BY <2>3, <2>5, <3>1, <4>1
        <5> QED
          BY <5>1 DEF ClaimInv, RefsInOrder
      <4> QED
        BY <4>1
    <3>3. CASE q = nextRef
      BY <1>1, <2>2, <2>3, <3>2, <3>3
    <3>4. CASE q # nextRef
      BY <2>2, <2>3, <2>5, <3>2, <3>4 DEF ClaimsNeverReused
    <3> QED
      BY <3>3, <3>4
  <2>6. ClaimsNeverReused'
    BY <2>5 DEF ClaimsNeverReused
  <2> QED
    BY <2>1, <2>4, <2>6
<1>5. ASSUME NEW r \in Refs, NEW p \in Phases \ {"none"},
             batch[r].phase # "none", batch' = [batch EXCEPT ![r].phase = p]
      PROVE  Same
  <2>1. DOMAIN batch = Refs /\ batch[r] \in BatchType
    BY DEF TypeOK
  <2>2. batch'[r] = [batch[r] EXCEPT !.phase = p] /\ \A q \in Refs \ {r} : batch'[q] = batch[q]
    BY <1>5, <2>1
  <2>3. batch'[r].first = batch[r].first /\ batch'[r].last = batch[r].last
    BY <2>1, <2>2 DEF BatchType
  <2> QED BY <1>5, <2>2, <2>3
<1>6. ASSUME NEW r \in Refs, CommitAck(r) \/ ApplyOne(r) \/ ApplyFails(r)
      PROVE  IssueInv'
  <2>1. PICK p \in {"committed", "released", "applying"} :
          batch' = [batch EXCEPT ![r].phase = p]
    BY <1>6 DEF CommitAck, ApplyOne, ApplyFails
  <2>2. batch[r].phase # "none"
    BY <1>6 DEF CommitAck, ApplyOne, ApplyFails
  <2>3. Same
    BY <1>5, <2>1, <2>2 DEF Phases
  <2>4. UNCHANGED <<counter, treeCrashes>> /\ stage' \in {"ready", "draining"}
    BY <1>6 DEF CommitAck, ApplyOne, ApplyFails, seqVars, budgets
  <2> QED
    BY <1>2, <2>3, <2>4
<1>7. ASSUME NEW r \in Refs, NEW outcome, CommitFailed(r, outcome)
      PROVE  IssueInv'
  <2>1. PICK X \in SUBSET Successors(r) : Abandon(r, X)
    BY <1>7 DEF CommitFailed
  <2>2. X \in SUBSET Refs /\ \A q \in {r} \cup X : batch[q].phase # "none"
    BY <1>7, <2>1 DEF CommitFailed, Successors
  <2>3. Same
    BY <2>1, <2>2, AbandonFrame
  <2>4. UNCHANGED <<counter, treeCrashes>> /\ stage' = "draining"
    BY <1>7 DEF CommitFailed
  <2> QED
    BY <1>2, <2>3, <2>4
<1>8. CASE FinishDrain
  <2>1. StartNextCommit(batch, job) /\ batch \in [Refs -> BatchType]
    BY <1>8 DEF FinishDrain, TypeOK
  <2>2. Same
    BY <2>1, StartNextCommitFrame
  <2>3. UNCHANGED <<counter, treeCrashes>> /\ stage' = "ready"
    BY <1>8 DEF FinishDrain, seqVars, budgets
  <2> QED
    BY <1>2, <2>2, <2>3
<1>9. CASE WriterCrash
  <2>1. Same
    <3>1. SUFFICES ASSUME NEW q \in Refs
                   PROVE  /\ batch'[q].first = batch[q].first
                          /\ batch'[q].last = batch[q].last
                          /\ batch[q].phase = "none" => batch'[q].phase = "none"
      OBVIOUS
    <3>2. batch[q] \in BatchType
      BY DEF TypeOK
    <3>3. batch'[q] = IF batch[q].phase \in OpenPhases
                      THEN [batch[q] EXCEPT !.phase = "orphaned"] ELSE batch[q]
      BY <1>9 DEF WriterCrash, WriterDies
    <3> QED
      BY <3>2, <3>3 DEF BatchType, OpenPhases
  <2>2. UNCHANGED <<counter, treeCrashes>> /\ stage' = "writer"
    BY <1>9 DEF WriterCrash, WriterDies, seqVars
  <2> QED
    BY <1>2, <2>1, <2>2
<1>10. CASE TreeCrash
  <2>1. treeCrashes' # 0
    BY <1>10, <1>1 DEF TreeCrash
  <2> QED
    BY <2>1 DEF IssueInv
<1>11. ASSUME SystemCacheInit \/ WatermarkInit
       PROVE  IssueInv'
  <2>1. treeCrashes' = treeCrashes /\ stage \in {"cache", "watermark"}
    BY <1>11 DEF SystemCacheInit, WatermarkInit, budgets
  <2> QED
    BY <2>1 DEF IssueInv
<1>12. CASE WriterInit
  <2>1. counter <= counter'
    BY <1>12, <1>1 DEF WriterInit
  <2>2. UNCHANGED <<batch, treeCrashes>> /\ stage' = "ready"
    BY <1>12 DEF WriterInit, budgets
  <2> QED
    BY <1>1, <2>1, <2>2, IssueFrame
<1> QED
  BY <1>3, <1>4, <1>6, <1>7, <1>8, <1>9, <1>10, <1>11, <1>12
     DEF Next, CommitResult, CommitError, CommitTimeout, CommitResultLost, Restart

\* However often the Writer crashes and whatever commits fail or land late, a
\* GSN is claimed once, until the storage tree itself restarts.
THEOREM GsnsUnique == Spec => []GsnsNeverReused
<1>1. Init => TypeOK /\ ClaimInv /\ IssueInv
  <2>1. Init => IssueInv
    BY DEF Init, IssueInv, ClaimsNeverReused, NoBatch
  <2> QED
    BY <2>1, InitType, InitClaims
<1>2. TypeOK /\ ClaimInv /\ IssueInv /\ [Next]_vars => (TypeOK /\ ClaimInv /\ IssueInv)'
  BY StepType, ClaimStep, IssueStep
<1>3. IssueInv => GsnsNeverReused
  BY DEF IssueInv, GsnsNeverReused
<1> QED
  BY <1>1, <1>2, <1>3, PTL DEF Spec

(***************************************************************************)
(* What the steps do to the batches.                                       *)
(***************************************************************************)

\* The range, the ids and the callers of a batch, fixed by its flush.
ClaimKept(q) ==
  /\ batch'[q].first = batch[q].first
  /\ batch'[q].last = batch[q].last
  /\ batch'[q].ids = batch[q].ids
  /\ batch'[q].calls = batch[q].calls

\* A kept claim keeps its GSNs, its ids and its Movers.
LEMMA KeptSets ==
  ASSUME NEW q, ClaimKept(q)
  PROVE  /\ GsnsOf(batch'[q]) = GsnsOf(batch[q])
         /\ IdsOf(batch'[q]) = IdsOf(batch[q])
         /\ MoversOf(batch'[q]) = MoversOf(batch[q])
BY DEF ClaimKept, GsnsOf, IdsOf, MoversOf

\* One batch changes its phase.
LEMMA PhaseEffect ==
  ASSUME TypeOK, NEW r \in Refs, NEW p \in Phases,
         batch' = [batch EXCEPT ![r].phase = p], NEW q \in Refs
  PROVE  /\ ClaimKept(q)
         /\ batch'[q].basis = batch[q].basis
         /\ batch'[q].phase = IF q = r THEN p ELSE batch[q].phase
BY DEF TypeOK, BatchType, ClaimKept

\* The pool gets batch q: nothing before it is still prepared, and what is
\* still committing before it has no Movers.
Started(q) ==
  /\ batch'[q].phase = "committing"
  /\ job'[q] = "running"
  /\ \A p \in Refs : p < q =>
       /\ batch'[p].phase # "prepared"
       /\ batch'[p].phase = "committing" => MoversOf(batch'[p]) = {}

\* Handing the ready batch to the pool.
LEMMA StartEffect ==
  ASSUME NEW bs \in [Refs -> BatchType], NEW js, StartNextCommit(bs, js), NEW q \in Refs
  PROVE  /\ batch'[q].first = bs[q].first
         /\ batch'[q].last = bs[q].last
         /\ batch'[q].ids = bs[q].ids
         /\ batch'[q].calls = bs[q].calls
         /\ batch'[q].basis = bs[q].basis
         /\ \/ batch'[q].phase = bs[q].phase /\ job'[q] = js[q]
            \/ bs[q].phase = "prepared" /\ Started(q)
<1>1. CASE MayCommit(bs, q)
  <2>1. batch'[q] = [bs[q] EXCEPT !.phase = "committing"] /\ job'[q] = "running"
    BY <1>1 DEF StartNextCommit
  <2>2. bs[q].phase = "prepared" /\ bs[q] \in BatchType
    BY <1>1 DEF MayCommit
  <2>3. \A p \in Refs : p < q => ~MayCommit(bs, p)
    BY <1>1 DEF MayCommit
  <2>4. \A p \in Refs : p < q => batch'[p] = bs[p]
    BY <2>3 DEF StartNextCommit
  <2>5. \A p \in Refs : p < q => /\ batch'[p].phase # "prepared"
                                 /\ batch'[p].phase = "committing" => MoversOf(batch'[p]) = {}
    BY <1>1, <2>4 DEF MayCommit
  <2>6. /\ batch'[q].first = bs[q].first /\ batch'[q].last = bs[q].last
        /\ batch'[q].ids = bs[q].ids /\ batch'[q].calls = bs[q].calls
        /\ batch'[q].basis = bs[q].basis /\ batch'[q].phase = "committing"
    BY <2>1, <2>2 DEF BatchType
  <2> QED
    BY <2>1, <2>2, <2>5, <2>6 DEF Started
<1>2. CASE ~MayCommit(bs, q)
  BY <1>2 DEF StartNextCommit
<1> QED
  BY <1>1, <1>2

\* The Writer's death orphans the open batches.
LEMMA DiesEffect ==
  ASSUME TypeOK, WriterDies, NEW q \in Refs
  PROVE  /\ ClaimKept(q)
         /\ batch'[q].basis = batch[q].basis
         /\ batch'[q].phase = IF batch[q].phase \in OpenPhases THEN "orphaned"
                                                               ELSE batch[q].phase
<1>1. batch'[q] = IF batch[q].phase \in OpenPhases
                  THEN [batch[q] EXCEPT !.phase = "orphaned"] ELSE batch[q]
  BY DEF WriterDies
<1>2. batch[q] \in BatchType
  BY DEF TypeOK
<1> QED
  BY <1>1, <1>2 DEF BatchType, ClaimKept

\* A flush makes one batch of the fresh ids and leaves the others alone, but
\* for handing one batch to the pool.
LEMMA FlushEffect ==
  ASSUME TypeOK, Flush
  PROVE  /\ nextRef \in Refs
         /\ batch'[nextRef].first = counter + 1
         /\ batch'[nextRef].last = counter'
         /\ IdsOf(batch'[nextRef]) = FreshIds
         /\ batch'[nextRef].calls = PendingCalls
         /\ batch'[nextRef].basis = Resolution(batch, nextRef)
         /\ batch'[nextRef].phase \in UnresolvedPhases
         /\ \A q \in Refs : q # nextRef => ClaimKept(q) /\ batch'[q].basis = batch[q].basis
         /\ \A q \in Refs :
              \/ /\ batch'[q].phase = IF q = nextRef THEN "prepared" ELSE batch[q].phase
                 /\ job'[q] = job[q]
              \/ (q = nextRef \/ batch[q].phase = "prepared") /\ Started(q)
<1> USE ConstantsAssumption
<1> DEFINE n == Cardinality(FreshIds)
           r == nextRef
<1>1. n \in Nat /\ n >= 1
  BY FreshIdsFinite DEF Flush
<1>2. PICK ids \in FreshOrders :
        /\ counter' = counter + n
        /\ StartNextCommit([batch EXCEPT ![r] =
              [first |-> counter + 1, last |-> counter + n, ids |-> ids,
               calls |-> PendingCalls, basis |-> Resolution(batch, r),
               phase |-> "prepared"]], job)
  BY DEF Flush
<1> DEFINE new == [first |-> counter + 1, last |-> counter + n, ids |-> ids,
                   calls |-> PendingCalls, basis |-> Resolution(batch, r),
                   phase |-> "prepared"]
           bs  == [batch EXCEPT ![r] = new]
<1>3. r \in Refs /\ counter \in Nat /\ counter + n \in 0..MaxGsn
  BY <1>1 DEF Flush, TypeOK, Refs
<1>4. new \in BatchType
  <2>1. Resolution(batch, r) \in SUBSET Movers
    BY ResolutionType
  <2>2. FreshIds \subseteq Actions /\ PendingCalls \subseteq Calls
    BY FreshIdsFinite DEF TypeOK, PendingCalls
  <2>3. ids \in Seq(Actions)
    BY <1>1, <1>2, <2>2 DEF FreshOrders
  <2> QED
    BY <1>1, <1>3, <2>1, <2>2, <2>3 DEF BatchType, Phases
<1>5. bs \in [Refs -> BatchType]
  BY <1>3, <1>4 DEF TypeOK
<1>6. StartNextCommit(bs, job)
  BY <1>2
<1>7. {ids[i] : i \in DOMAIN ids} = FreshIds
  BY <1>1, <1>2 DEF FreshOrders
<1>8. /\ bs[r] = new
      /\ \A q \in Refs : q # r => bs[q] = batch[q]
  BY <1>3 DEF TypeOK
<1>9. /\ bs[r].first = counter + 1 /\ bs[r].last = counter' /\ bs[r].ids = ids
      /\ bs[r].calls = PendingCalls /\ bs[r].basis = Resolution(batch, r)
      /\ bs[r].phase = "prepared"
  BY <1>2, <1>8
<1> HIDE DEF bs, new, n
<1>10. ASSUME NEW q \in Refs
       PROVE  /\ batch'[q].first = bs[q].first
              /\ batch'[q].last = bs[q].last
              /\ batch'[q].ids = bs[q].ids
              /\ batch'[q].calls = bs[q].calls
              /\ batch'[q].basis = bs[q].basis
              /\ \/ batch'[q].phase = bs[q].phase /\ job'[q] = job[q]
                 \/ bs[q].phase = "prepared" /\ Started(q)
  BY <1>5, <1>6, StartEffect
<1>11. IdsOf(batch'[r]) = FreshIds
  BY <1>3, <1>7, <1>9, <1>10 DEF IdsOf
<1>12. /\ batch'[r].first = counter + 1 /\ batch'[r].last = counter'
       /\ batch'[r].calls = PendingCalls /\ batch'[r].basis = Resolution(batch, r)
       /\ batch'[r].phase \in UnresolvedPhases
  BY <1>3, <1>9, <1>10 DEF UnresolvedPhases, Started
<1>13. \A q \in Refs : q # r => ClaimKept(q) /\ batch'[q].basis = batch[q].basis
  BY <1>8, <1>10 DEF ClaimKept
<1>14. ASSUME NEW q \in Refs
       PROVE  \/ /\ batch'[q].phase = IF q = r THEN "prepared" ELSE batch[q].phase
                 /\ job'[q] = job[q]
              \/ (q = r \/ batch[q].phase = "prepared") /\ Started(q)
  <2>1. bs[q].phase = IF q = r THEN "prepared" ELSE batch[q].phase
    BY <1>8, <1>9
  <2> QED
    BY <2>1, <1>10
<1> QED
  BY <1>3, <1>11, <1>12, <1>13, <1>14

(***************************************************************************)
(* Jobs, the log and the callers: what an "ok" is worth.                   *)
(***************************************************************************)

\* A step that leaves the phases, the jobs and the durable refs alone.
LEMMA JobsFrame ==
  ASSUME JobsMatchPhases, UNCHANGED <<batch, job, durable>>
  PROVE  JobsMatchPhases'
BY DEF JobsMatchPhases

\* Every step keeps JobsMatchPhases.
LEMMA JobsStep ==
  ASSUME TypeOK, RefsInOrder, JobsMatchPhases, [Next]_vars
  PROVE  JobsMatchPhases'
<1> USE ConstantsAssumption
<1> DEFINE OK(q) ==
      /\ batch[q].phase \in {"none", "prepared"} => job[q] = "none" /\ q \notin durable
      /\ job[q] \in {"running", "written"} => batch[q].phase = "committing"
      /\ job[q] = "late" => batch[q].phase \in {"abandoned", "orphaned"}
      /\ job[q] \in {"running", "late"} => q \notin durable
      /\ job[q] = "written" => q \in durable
      /\ batch[q].phase \in {"committed", "applying", "released"} => q \in durable
<1>0. /\ \A q \in Refs : OK(q)
      /\ (\A q \in Refs : OK(q)') => JobsMatchPhases'
  BY DEF JobsMatchPhases
<1>1. ASSUME \/ \E c \in Calls, A \in CallSets : Submit(c, A)
             \/ FlushNothingFresh \/ Restart \/ UNCHANGED vars
      PROVE  JobsMatchPhases'
  <2>1. UNCHANGED <<batch, job, durable>>
    BY <1>1 DEF Submit, FlushNothingFresh, Restart, SystemCacheInit, WatermarkInit,
                WriterInit, vars, diskVars
  <2> QED
    BY <2>1, JobsFrame
<1>2. CASE Flush
  <2>1. durable' = durable /\ batch[nextRef].phase = "none" /\ nextRef \in Refs
    BY <1>2, FlushEffect DEF Flush, diskVars, RefsInOrder, Refs
  <2>2. ASSUME NEW q \in Refs PROVE OK(q)'
    <3>1. \/ /\ batch'[q].phase = IF q = nextRef THEN "prepared" ELSE batch[q].phase
             /\ job'[q] = job[q]
          \/ (q = nextRef \/ batch[q].phase = "prepared") /\ Started(q)
      BY <1>2, FlushEffect
    <3>2. OK(q)
      BY <1>0
    <3> QED
      BY <2>1, <3>1, <3>2 DEF Started
  <2> QED
    BY <1>0, <2>2
<1>3. ASSUME NEW r \in Refs, Committer(r)
      PROVE  JobsMatchPhases'
  <2>1. ASSUME NEW q \in Refs PROVE OK(q)'
    <3>1. batch' = batch /\ OK(q) /\ OK(r)
      BY <1>0, <1>3 DEF Committer, CommitterWrite, LateWrite, LateDrop
    <3>2. CASE LateDrop(r)
      BY <3>1, <3>2 DEF LateDrop, diskVars, TypeOK
    <3>3. CASE CommitterWrite(r)
      BY <3>1, <3>3 DEF CommitterWrite, WriteBatch, TypeOK
    <3>4. CASE LateWrite(r)
      BY <3>1, <3>4 DEF LateWrite, WriteBatch, TypeOK
    <3> QED
      BY <1>3, <3>2, <3>3, <3>4 DEF Committer
  <2> QED
    BY <1>0, <2>1
<1>4. ASSUME NEW r \in Refs, CommitAck(r)
      PROVE  JobsMatchPhases'
  <2>1. ASSUME NEW q \in Refs PROVE OK(q)'
    <3>1. batch'[q].phase = IF q = r THEN "committed" ELSE batch[q].phase
      <4>1. batch' = [batch EXCEPT ![r].phase = "committed"] /\ "committed" \in Phases
        BY <1>4 DEF CommitAck, Phases
      <4> QED
        BY <4>1, PhaseEffect
    <3>2. OK(q) /\ OK(r) /\ durable' = durable
      BY <1>0, <1>4 DEF CommitAck, diskVars
    <3>3. job'[q] = IF q = r THEN "gone" ELSE job[q]
      BY <1>4 DEF CommitAck, TypeOK
    <3>4. batch[r].phase = "committing" /\ job[r] = "written"
      BY <1>4 DEF CommitAck
    <3> QED
      BY <3>1, <3>2, <3>3, <3>4
  <2> QED
    BY <1>0, <2>1
<1>5. ASSUME NEW r \in Refs, NEW outcome \in {"late", "gone"}, CommitFailed(r, outcome),
             outcome = "late" => job[r] = "running"
      PROVE  JobsMatchPhases'
  <2>1. PICK X \in SUBSET Successors(r) : Abandon(r, X)
    BY <1>5 DEF CommitFailed
  <2>2. X \in SUBSET Refs /\ \A q \in X : batch[q].phase = "prepared"
    BY <2>1 DEF Successors
  <2>3. ASSUME NEW q \in Refs PROVE OK(q)'
    <3>1. /\ q \in {r} \cup X => batch'[q].phase = "abandoned"
          /\ q \notin {r} \cup X => batch'[q].phase = batch[q].phase
      BY <2>1, <2>2, AbandonFrame
    <3>2. OK(q) /\ OK(r) /\ durable' = durable
      BY <1>0, <1>5 DEF CommitFailed, diskVars
    <3>3. job'[q] = IF q = r THEN outcome ELSE job[q]
      BY <1>5 DEF CommitFailed, TypeOK
    <3>4. batch[r].phase = "committing"
      BY <1>5 DEF CommitFailed
    <3> QED
      BY <1>5, <2>2, <3>1, <3>2, <3>3, <3>4
  <2> QED
    BY <1>0, <2>3
<1>6. ASSUME NEW r \in Refs, CommitError(r) \/ CommitTimeout(r) \/ CommitResultLost(r)
      PROVE  JobsMatchPhases'
  BY <1>5, <1>6 DEF CommitError, CommitTimeout, CommitResultLost
<1>7. ASSUME NEW r \in Refs, ApplyOne(r) \/ ApplyFails(r)
      PROVE  JobsMatchPhases'
  <2>1. PICK p \in {"released", "applying"} : batch' = [batch EXCEPT ![r].phase = p]
    BY <1>7 DEF ApplyOne, ApplyFails
  <2>2. batch[r].phase = "committed" /\ UNCHANGED <<job, durable>>
    BY <1>7 DEF ApplyOne, ApplyFails, diskVars
  <2>3. ASSUME NEW q \in Refs PROVE OK(q)'
    <3>1. batch'[q].phase = IF q = r THEN p ELSE batch[q].phase
      <4>1. p \in Phases
        BY <2>1 DEF Phases
      <4> QED
        BY <2>1, <4>1, PhaseEffect
    <3>2. OK(q) /\ OK(r)
      BY <1>0
    <3> QED
      BY <2>1, <2>2, <3>1, <3>2
  <2> QED
    BY <1>0, <2>3
<1>8. CASE FinishDrain
  <2>1. StartNextCommit(batch, job) /\ batch \in [Refs -> BatchType] /\ durable' = durable
    BY <1>8 DEF FinishDrain, TypeOK, diskVars
  <2>2. ASSUME NEW q \in Refs PROVE OK(q)'
    <3>1. \/ batch'[q].phase = batch[q].phase /\ job'[q] = job[q]
          \/ batch[q].phase = "prepared" /\ Started(q)
      BY <2>1, StartEffect
    <3>2. OK(q)
      BY <1>0
    <3> QED
      BY <2>1, <3>1, <3>2 DEF Started
  <2> QED
    BY <1>0, <2>2
<1>9. ASSUME WriterCrash \/ TreeCrash
      PROVE  JobsMatchPhases'
  <2>1. WriterDies /\ durable' = durable
    BY <1>9 DEF WriterCrash, TreeCrash, WriterDies, diskVars
  <2>2. ASSUME NEW q \in Refs PROVE OK(q)'
    <3>1. batch'[q].phase = IF batch[q].phase \in OpenPhases THEN "orphaned"
                                                             ELSE batch[q].phase
      BY <2>1, DiesEffect
    <3>2. job'[q] = IF job[q] = "running" THEN "late"
                    ELSE IF job[q] = "written" THEN "gone" ELSE job[q]
      BY <2>1 DEF WriterDies
    <3>3. OK(q)
      BY <1>0
    <3> QED
      BY <2>1, <3>1, <3>2, <3>3 DEF OpenPhases
  <2> QED
    BY <1>0, <2>2
<1> QED
  BY <1>1, <1>2, <1>3, <1>4, <1>6, <1>7, <1>8, <1>9 DEF Next, CommitResult, Restart

\* A claimed batch keeps its range, its ids and its callers for ever, and only
\* a flush claims one.
LEMMA StepKeepsClaims ==
  ASSUME TypeOK, RefsInOrder, [Next]_vars, NEW q \in Refs
  PROVE  /\ batch[q].phase # "none" \/ ~Flush => ClaimKept(q)
         /\ batch[q].phase # "none" => batch'[q].phase # "none"
<1> USE ConstantsAssumption
<1> DEFINE Goal == /\ batch[q].phase # "none" \/ ~Flush => ClaimKept(q)
                   /\ batch[q].phase # "none" => batch'[q].phase # "none"
<1>1. CASE batch' = batch
  BY <1>1 DEF ClaimKept
<1>2. CASE Flush
  <2>1. batch[q].phase # "none" => q # nextRef
    BY <1>2, FlushEffect DEF RefsInOrder, Refs
  <2>2. batch[q].phase # "none" => ClaimKept(q) /\ (batch'[q].phase = batch[q].phase \/ Started(q))
    BY <1>2, <2>1, FlushEffect
  <2> QED
    BY <1>2, <2>2 DEF Started
<1>3. ASSUME NEW r \in Refs, CommitAck(r) \/ ApplyOne(r) \/ ApplyFails(r)
      PROVE  Goal
  <2>1. PICK p \in {"committed", "released", "applying"} :
          batch' = [batch EXCEPT ![r].phase = p]
    BY <1>3 DEF CommitAck, ApplyOne, ApplyFails
  <2>2. p \in Phases
    BY <2>1 DEF Phases
  <2>3. ClaimKept(q) /\ batch'[q].phase = IF q = r THEN p ELSE batch[q].phase
    BY <2>1, <2>2, PhaseEffect
  <2> QED
    BY <2>1, <2>3
<1>4. ASSUME NEW r \in Refs, NEW outcome, CommitFailed(r, outcome)
      PROVE  Goal
  <2>1. PICK X \in SUBSET Successors(r) : Abandon(r, X)
    BY <1>4 DEF CommitFailed
  <2>2. X \in SUBSET Refs
    BY <2>1 DEF Successors
  <2> QED
    BY <2>1, <2>2, AbandonFrame DEF ClaimKept
<1>5. CASE FinishDrain
  <2>1. StartNextCommit(batch, job) /\ batch \in [Refs -> BatchType]
    BY <1>5 DEF FinishDrain, TypeOK
  <2>2. ClaimKept(q) /\ (batch'[q].phase = batch[q].phase \/ Started(q))
    BY <2>1, StartEffect DEF ClaimKept
  <2> QED
    BY <2>2 DEF Started
<1>6. CASE WriterCrash \/ TreeCrash
  BY <1>6, DiesEffect DEF WriterCrash, TreeCrash
<1> QED
  BY <1>1, <1>2, <1>3, <1>4, <1>5, <1>6
     DEF Next, vars, Submit, FlushNothingFresh, Committer, CommitterWrite, LateWrite,
         LateDrop, CommitResult, CommitError, CommitTimeout, CommitResultLost, Restart,
         SystemCacheInit, WatermarkInit, WriterInit

\* A step that writes nothing keeps StoredStays.
LEMMA StoredFrame ==
  ASSUME TypeOK, TypeOK', StoredStays, UNCHANGED diskVars,
         treeCrashes' = 0 => treeCrashes = 0 /\ counter <= counter',
         \A q \in durable : ClaimKept(q)
  PROVE  StoredStays'
<1>1. \A q \in durable : GsnsOf(batch'[q]) = GsnsOf(batch[q])
  BY KeptSets
<1>2. durable' = durable /\ log' = log
  BY DEF diskVars
<1>3. \A r \in durable' : \A g \in GsnsOf(batch'[r]) :
        log'[g] # 0 /\ (treeCrashes' = 0 => log'[g] = r)
  BY <1>1, <1>2 DEF StoredStays
<1>4. treeCrashes' = 0 => \A g \in Gsns : log'[g] # 0 => g <= counter'
  BY <1>2, ConstantsAssumption DEF StoredStays, Gsns, TypeOK
<1> QED
  BY <1>3, <1>4 DEF StoredStays

\* A write lands in its own range, which no other batch shares.
LEMMA StoredWrite ==
  ASSUME TypeOK, IssueInv, StoredStays, NEW r \in Refs, WriteBatch(r),
         batch[r].phase # "none", \A q \in durable : batch[q].phase # "none",
         UNCHANGED <<batch, counter, treeCrashes>>
  PROVE  StoredStays'
<1> USE ConstantsAssumption
<1>1. /\ durable' = durable \cup {r}
      /\ \A g \in Gsns : log'[g] = IF g \in GsnsOf(batch[r]) THEN r ELSE log[g]
  BY DEF WriteBatch
<1>2. durable \subseteq Refs /\ \A q \in Refs : batch[q] \in BatchType
  BY DEF TypeOK
<1>3. \A q \in Refs : GsnsOf(batch[q]) \subseteq Gsns
  BY <1>2, GsnsOfType
<1>4. ASSUME NEW q \in durable, q # r, treeCrashes = 0
      PROVE  GsnsOf(batch[q]) \cap GsnsOf(batch[r]) = {}
  <2>1. q \in Refs /\ q \in Int /\ r \in Int /\ batch[q].phase # "none"
    BY <1>2 DEF Refs
  <2>2. ClaimsNeverReused
    BY <1>4 DEF IssueInv
  <2>3. batch[q].last < batch[r].first \/ batch[r].last < batch[q].first
    BY <1>4, <2>1, <2>2 DEF ClaimsNeverReused
  <2>4. /\ batch[q].first \in Int /\ batch[q].last \in Int
        /\ batch[r].first \in Int /\ batch[r].last \in Int
    BY <1>2, <2>1 DEF BatchType
  <2> QED
    BY <2>3, <2>4 DEF GsnsOf
<1>5. ASSUME NEW q \in durable', NEW g \in GsnsOf(batch'[q])
      PROVE  log'[g] # 0 /\ (treeCrashes' = 0 => log'[g] = q)
  <2>1. q \in Refs /\ g \in GsnsOf(batch[q]) /\ g \in Gsns /\ r # 0
    BY <1>1, <1>2, <1>3, <1>5 DEF Refs
  <2>2. CASE q = r
    BY <1>1, <2>1, <2>2
  <2>3. CASE q # r
    <3>1. q \in durable /\ log[g] # 0 /\ (treeCrashes = 0 => log[g] = q)
      BY <1>1, <2>1, <2>3 DEF StoredStays
    <3>2. treeCrashes = 0 => g \notin GsnsOf(batch[r])
      BY <1>4, <2>1, <2>3, <3>1
    <3> QED
      BY <1>1, <2>1, <3>1, <3>2
  <2> QED
    BY <2>2, <2>3
<1>6. ASSUME treeCrashes' = 0, NEW g \in Gsns, log'[g] # 0
      PROVE  g <= counter'
  <2>1. batch[r].last <= counter /\ batch[r].last \in Int /\ counter \in Int
    BY <1>2, <1>6 DEF IssueInv, BatchType, TypeOK
  <2>2. g \in GsnsOf(batch[r]) => g <= batch[r].last
    BY <1>2 DEF GsnsOf, BatchType
  <2> QED
    BY <1>1, <1>6, <2>1, <2>2 DEF StoredStays, Gsns
<1> QED
  BY <1>5, <1>6 DEF StoredStays

\* Every step keeps StoredStays.
LEMMA StoredStep ==
  ASSUME TypeOK, TypeOK', RefsInOrder, IssueInv, JobsMatchPhases, StoredStays, [Next]_vars
  PROVE  StoredStays'
<1> USE ConstantsAssumption
<1>1. durable \subseteq Refs /\ \A q \in durable : batch[q].phase # "none"
  BY DEF TypeOK, JobsMatchPhases
<1>2. \A q \in durable : ClaimKept(q)
  BY <1>1, StepKeepsClaims
<1>3. ASSUME NEW r \in Refs, CommitterWrite(r) \/ LateWrite(r)
      PROVE  StoredStays'
  <2>1. WriteBatch(r) /\ UNCHANGED <<batch, counter, treeCrashes>>
    BY <1>3 DEF CommitterWrite, LateWrite, seqVars, budgets
  <2>2. batch[r].phase # "none"
    BY <1>3 DEF CommitterWrite, LateWrite, JobsMatchPhases
  <2> QED
    BY <1>1, <2>1, <2>2, StoredWrite
<1>4. CASE /\ UNCHANGED diskVars
           /\ treeCrashes' = 0 => treeCrashes = 0 /\ counter <= counter'
  BY <1>2, <1>4, StoredFrame
<1>5. counter \in Nat /\ counter' \in Nat /\ treeCrashes \in Nat
  BY DEF TypeOK
<1>6. CASE UNCHANGED <<diskVars, counter, treeCrashes>>
  BY <1>4, <1>5, <1>6
<1>7. CASE Flush
  BY <1>4, <1>5, <1>7, FlushShape DEF Flush, budgets
<1>8. CASE TreeCrash
  BY <1>4, <1>5, <1>8 DEF TreeCrash, WriterDies
<1>9. CASE SystemCacheInit
  BY <1>4, <1>5, <1>9 DEF SystemCacheInit, IssueInv, budgets
<1>10. CASE WriterInit
  BY <1>4, <1>5, <1>10 DEF WriterInit, budgets
<1>11. ASSUME NEW r \in Refs, NEW outcome, CommitFailed(r, outcome)
       PROVE  StoredStays'
  BY <1>6, <1>11 DEF CommitFailed
<1>12. ASSUME NEW r \in Refs, LateDrop(r) \/ CommitAck(r) \/ ApplyOne(r) \/ ApplyFails(r)
       PROVE  StoredStays'
  BY <1>6, <1>12 DEF LateDrop, CommitAck, ApplyOne, ApplyFails, seqVars, budgets
<1>13. ASSUME \/ \E c \in Calls, A \in CallSets : Submit(c, A)
              \/ FlushNothingFresh \/ FinishDrain \/ WriterCrash \/ WatermarkInit
              \/ UNCHANGED vars
       PROVE  StoredStays'
  BY <1>6, <1>13 DEF Submit, FlushNothingFresh, FinishDrain, WriterCrash, WriterDies,
                     WatermarkInit, vars, seqVars, budgets
<1> QED
  BY <1>3, <1>7, <1>8, <1>9, <1>10, <1>11, <1>12, <1>13
     DEF Next, Committer, CommitResult, CommitError, CommitTimeout, CommitResultLost, Restart

\* A flush grants each pending call a part of the new batch's range.
LEMMA FlushGrants ==
  ASSUME TypeOK, Flush, NEW c \in Calls
  PROVE  /\ c \in PendingCalls => /\ grant'[c].ref = nextRef
                                  /\ grant'[c].gsns \subseteq (counter + 1)..counter'
         /\ c \notin PendingCalls => grant'[c] = grant[c]
<1> DEFINE n == Cardinality(FreshIds)
<1>1. n \in Nat /\ counter \in Nat
  BY FreshIdsFinite, ConstantsAssumption DEF TypeOK
<1>2. PICK ids \in FreshOrders : /\ counter' = counter + n
                                 /\ grant' = GrantsOf(nextRef, counter + 1, ids)
  BY DEF Flush
<1>3. DOMAIN ids = 1..n
  BY <1>2 DEF FreshOrders
<1> HIDE DEF n
<1>4. ASSUME c \in PendingCalls
      PROVE  /\ grant'[c].ref = nextRef
             /\ grant'[c].gsns \subseteq (counter + 1)..counter'
  <2>1. grant'[c] = [ref |-> nextRef,
                     gsns |-> {(counter + 1) + k - 1 : k \in {x \in DOMAIN ids :
                        \E i \in DOMAIN pending : pending[i] = c /\ IsOwner(i, ids[x])}}]
    BY <1>2, <1>4 DEF GrantsOf
  <2> QED
    BY <1>1, <1>2, <1>3, <2>1
<1>5. c \notin PendingCalls => grant'[c] = grant[c]
  BY <1>2 DEF GrantsOf
<1> QED
  BY <1>4, <1>5

\* A step that touches no pending call, grant or answer keeps CallsMatchGrants.
LEMMA CallsFrame ==
  ASSUME TypeOK, CallsMatchGrants, UNCHANGED <<pending, acts, grant, reply>>,
         durable \subseteq durable',
         \A q \in Refs : ClaimKept(q) /\ (batch[q].phase # "none" => batch'[q].phase # "none")
  PROVE  CallsMatchGrants'
<1>1. PendingCalls' = PendingCalls
  BY DEF PendingCalls
<1>2. \A q \in Refs : GsnsOf(batch'[q]) = GsnsOf(batch[q]) /\ batch'[q].calls = batch[q].calls
  BY KeptSets DEF ClaimKept
<1>3. \A c \in Calls : grant[c].ref \in Refs \cup {0}
  BY DEF TypeOK
<1> QED
  BY <1>1, <1>2, <1>3 DEF CallsMatchGrants

\* Every step keeps CallsMatchGrants.
LEMMA CallsStep ==
  ASSUME TypeOK, RefsInOrder, JobsMatchPhases, CallsMatchGrants, [Next]_vars
  PROVE  CallsMatchGrants'
<1> USE ConstantsAssumption
<1> DEFINE OK(c) ==
      /\ acts[c] = {} \/ c \in PendingCalls => grant[c].ref = 0 /\ reply[c] = "none"
      /\ acts[c] = {} => c \notin PendingCalls
      /\ grant[c].ref = 0 => grant[c].gsns = {}
      /\ grant[c].ref # 0 => /\ batch[grant[c].ref].phase # "none"
                             /\ grant[c].gsns \subseteq GsnsOf(batch[grant[c].ref])
      /\ \A r \in Refs : c \in batch[r].calls => grant[c].ref = r
      /\ reply[c] = "ok" => grant[c].ref \in durable \cup {0}
<1>0. /\ \A c \in Calls : OK(c)
      /\ (\A c \in Calls : OK(c)') => CallsMatchGrants'
  BY DEF CallsMatchGrants
<1>1. \A c \in Calls : grant[c].ref \in Refs \cup {0}
  BY DEF TypeOK
<1>2. 0 \notin Refs
  BY DEF Refs
<1>3. ASSUME NEW c0 \in Calls, NEW A \in CallSets, Submit(c0, A)
      PROVE  CallsMatchGrants'
  <2>1. PendingCalls' = PendingCalls \cup {c0}
    <3>1. pending' = Append(pending, c0) /\ pending \in Seq(Calls)
      BY <1>3 DEF Submit, TypeOK
    <3> QED
      BY <3>1 DEF PendingCalls
  <2>2. ASSUME NEW c \in Calls PROVE OK(c)'
    <3>1. /\ acts'[c] = IF c = c0 THEN A ELSE acts[c]
          /\ acts[c0] = {} /\ A # {}
          /\ UNCHANGED <<grant, reply, durable, batch>>
      BY <1>3 DEF Submit, TypeOK, CallSets, diskVars
    <3>2. OK(c)
      BY <1>0
    <3> HIDE DEF OK
    <3>3. OK(c)'
      BY <2>1, <3>1, <3>2 DEF OK, GsnsOf
    <3> QED
      BY <3>3
  <2> QED
    BY <1>0, <2>2
<1>4. CASE FlushNothingFresh
  <2>1. PendingCalls' = {}
    BY <1>4 DEF FlushNothingFresh, PendingCalls
  <2>2. ASSUME NEW c \in Calls PROVE OK(c)'
    <3>1. /\ reply'[c] = IF c \in PendingCalls THEN "ok" ELSE reply[c]
          /\ UNCHANGED <<grant, acts, durable, batch>>
      BY <1>4 DEF FlushNothingFresh, Answer, diskVars
    <3>2. OK(c)
      BY <1>0
    <3> QED
      BY <2>1, <3>1, <3>2 DEF GsnsOf
  <2> QED
    BY <1>0, <2>2
<1>5. CASE Flush
  <2>1. PendingCalls' = {}
    BY <1>5 DEF Flush, PendingCalls
  <2>2. /\ nextRef \in Refs /\ batch[nextRef].phase = "none"
        /\ batch'[nextRef].calls = PendingCalls
        /\ batch'[nextRef].phase # "none"
        /\ GsnsOf(batch'[nextRef]) = (counter + 1)..counter'
        /\ \A q \in Refs : q # nextRef => ClaimKept(q)
    BY <1>5, FlushEffect DEF RefsInOrder, Refs, GsnsOf, UnresolvedPhases
  <2>3. \A q \in Refs : batch[q].phase # "none" => batch'[q].phase # "none"
    BY StepKeepsClaims
  <2>4. \A q \in Refs : q # nextRef => /\ GsnsOf(batch'[q]) = GsnsOf(batch[q])
                                       /\ batch'[q].calls = batch[q].calls
    BY <2>2, KeptSets DEF ClaimKept
  <2>5. ASSUME NEW c \in Calls PROVE OK(c)'
    <3>1. UNCHANGED <<acts, reply, durable>>
      BY <1>5 DEF Flush, diskVars
    <3>2. OK(c) /\ grant[c].ref \in Refs \cup {0}
      BY <1>0, <1>1
    <3>3. CASE c \in PendingCalls
      <4>1. /\ grant'[c].ref = nextRef
            /\ grant'[c].gsns \subseteq GsnsOf(batch'[nextRef])
        BY <1>5, <2>2, <3>3, FlushGrants
      <4>2. grant[c].ref = 0 /\ reply[c] = "none" /\ acts[c] # {}
        BY <3>2, <3>3
      <4>3. \A q \in Refs : c \in batch'[q].calls => q = nextRef
        BY <1>2, <2>4, <3>2, <4>2
      <4> QED
        BY <1>2, <2>1, <2>2, <3>1, <4>1, <4>2, <4>3
    <3>4. CASE c \notin PendingCalls
      <4>1. grant'[c] = grant[c]
        BY <1>5, <3>4, FlushGrants
      <4>2. grant[c].ref # nextRef
        BY <1>2, <2>2, <3>2
      <4>3. \A q \in Refs : c \in batch'[q].calls => grant[c].ref = q
        BY <2>2, <2>4, <3>2, <3>4
      <4> QED
        BY <2>1, <2>3, <2>4, <3>1, <3>2, <4>1, <4>2, <4>3
    <3> QED
      BY <3>3, <3>4
  <2> QED
    BY <1>0, <2>5
<1>6. ASSUME UNCHANGED <<pending, acts, grant, reply>>, durable \subseteq durable', ~Flush
      PROVE  CallsMatchGrants'
  <2>1. \A q \in Refs : ClaimKept(q) /\ (batch[q].phase # "none" => batch'[q].phase # "none")
    BY <1>6, StepKeepsClaims
  <2> QED
    BY <1>6, <2>1, CallsFrame
<1>7. ASSUME NEW C \in SUBSET Calls, NEW out \in {"ok", "error", "down"}, Answer(C, out),
             UNCHANGED <<acts, grant, durable>>, pending' = pending \/ pending' = <<>>,
             ~Flush,
             \A c \in C : acts[c] # {} /\ (c \in PendingCalls => pending' = <<>>),
             out = "ok" => \A c \in C : grant[c].ref \in durable
      PROVE  CallsMatchGrants'
  <2>1. \A q \in Refs : /\ ClaimKept(q) /\ GsnsOf(batch'[q]) = GsnsOf(batch[q])
                        /\ batch[q].phase # "none" => batch'[q].phase # "none"
                        /\ batch'[q].calls = batch[q].calls
    BY <1>7, StepKeepsClaims, KeptSets DEF ClaimKept
  <2>2. PendingCalls' \subseteq PendingCalls /\ (pending' = <<>> => PendingCalls' = {})
    BY <1>7 DEF PendingCalls
  <2>3. ASSUME NEW c \in Calls PROVE OK(c)'
    <3>1. reply'[c] = IF c \in C THEN out ELSE reply[c]
      BY <1>7 DEF Answer
    <3>2. OK(c) /\ grant[c].ref \in Refs \cup {0}
      BY <1>0, <1>1
    <3> QED
      BY <1>7, <2>1, <2>2, <3>1, <3>2
  <2> QED
    BY <1>0, <2>3
<1>8. ASSUME NEW r \in Refs, NEW c \in batch[r].calls
      PROVE  c \in Calls /\ grant[c].ref = r /\ acts[c] # {} /\ c \notin PendingCalls
  <2>1. c \in Calls
    BY <1>8 DEF TypeOK, BatchType
  <2> QED
    BY <1>0, <1>2, <1>8, <2>1
<1>9. ASSUME NEW r \in Refs, NEW outcome, CommitFailed(r, outcome)
      PROVE  CallsMatchGrants'
  <2>1. /\ Answer(batch[r].calls, "error") /\ ~Flush
        /\ UNCHANGED <<acts, grant, durable, pending>>
    BY <1>9 DEF CommitFailed, diskVars, Flush
  <2>2. batch[r].calls \in SUBSET Calls
    BY <1>8
  <2> QED
    BY <1>7, <1>8, <2>1, <2>2
<1>10. ASSUME NEW r \in Refs, ApplyOne(r) \/ ApplyFails(r)
       PROVE  CallsMatchGrants'
  <2>1. /\ Answer(batch[r].calls, "ok") /\ ~Flush
        /\ UNCHANGED <<acts, grant, durable, pending>>
    BY <1>10 DEF ApplyOne, ApplyFails, diskVars, Flush
  <2>2. batch[r].calls \in SUBSET Calls
    BY <1>8
  <2>3. r \in durable
    BY <1>10 DEF ApplyOne, ApplyFails, JobsMatchPhases
  <2> QED
    BY <1>7, <1>8, <2>1, <2>2, <2>3
<1>11. ASSUME WriterCrash \/ TreeCrash
       PROVE  CallsMatchGrants'
  <2>1. WriterDies /\ ~Flush
    BY <1>11 DEF WriterCrash, TreeCrash, Flush
  <2>2. /\ Answer(Unanswered, "down") /\ pending' = <<>>
        /\ UNCHANGED <<acts, grant, durable>>
    BY <2>1 DEF WriterDies, diskVars
  <2>3. Unanswered \in SUBSET Calls /\ \A c \in Unanswered : acts[c] # {}
    BY DEF Unanswered
  <2> QED
    BY <1>7, <2>1, <2>2, <2>3
<1>12. ASSUME \/ \E r \in Refs : Committer(r) \/ CommitAck(r)
              \/ FinishDrain \/ Restart \/ UNCHANGED vars
       PROVE  CallsMatchGrants'
  <2>1. UNCHANGED <<pending, acts, grant, reply>> /\ durable \subseteq durable'
    BY <1>12 DEF Committer, CommitterWrite, LateWrite, LateDrop, WriteBatch, CommitAck,
                 FinishDrain, Restart, SystemCacheInit, WatermarkInit, WriterInit, vars,
                 callVars, diskVars
  <2> QED
    BY <1>5, <1>6, <2>1
<1> QED
  BY <1>3, <1>4, <1>5, <1>9, <1>10, <1>11, <1>12
     DEF Next, CommitResult, CommitError, CommitTimeout, CommitResultLost

\* Nothing has been claimed, written, submitted or announced at the start.
LEMMA InitEmpty ==
  ASSUME Init
  PROVE  /\ TypeOK /\ ClaimInv /\ IssueInv /\ AckInv
         /\ Unresolved = {}
         /\ \A r \in Refs : batch[r].phase = "none"
<1>1. \A r \in Refs : batch[r] = NoBatch /\ job[r] = "none"
  BY DEF Init
<1>2. TypeOK /\ ClaimInv
  BY InitType, InitClaims
<1>3. IssueInv
  BY <1>1 DEF Init, IssueInv, ClaimsNeverReused, NoBatch
<1>4. JobsMatchPhases
  BY <1>1 DEF Init, JobsMatchPhases, NoBatch
<1>5. StoredStays
  BY DEF Init, StoredStays
<1>6. CallsMatchGrants
  <2>1. PendingCalls = {} /\ \A r \in Refs : batch[r].calls = {}
    BY <1>1 DEF Init, PendingCalls, NoBatch
  <2>2. \A c \in Calls : grant[c] = [ref |-> 0, gsns |-> {}] /\ reply[c] = "none"
    BY DEF Init
  <2> QED
    BY <2>1, <2>2 DEF CallsMatchGrants
<1>7. Unresolved = {} /\ \A r \in Refs : batch[r].phase = "none"
  BY <1>1 DEF Unresolved, UnresolvedPhases, NoBatch
<1> QED
  BY <1>2, <1>3, <1>4, <1>5, <1>6, <1>7 DEF AckInv

\* The invariants so far are inductive together.
LEMMA AckStep ==
  ASSUME TypeOK, ClaimInv, IssueInv, AckInv, [Next]_vars
  PROVE  TypeOK' /\ ClaimInv' /\ IssueInv' /\ AckInv'
<1>1. TypeOK' /\ ClaimInv'
  BY StepType, ClaimStep
<1>2. IssueInv'
  BY <1>1, IssueStep
<1>3. RefsInOrder /\ JobsMatchPhases /\ StoredStays /\ CallsMatchGrants
  BY DEF ClaimInv, AckInv
<1>4. JobsMatchPhases' /\ StoredStays' /\ CallsMatchGrants'
  BY <1>1, <1>3, JobsStep, StoredStep, CallsStep
<1> QED
  BY <1>1, <1>2, <1>4 DEF AckInv

\* A GSN range a caller was acked with holds that caller's Actions until the
\* storage tree restarts: whatever the Writer gives up on, however late its
\* write lands and however often the Writer crashes.
THEOREM AcksDurable == Spec => []AckedStaysDurable
<1>1. Init => TypeOK /\ ClaimInv /\ IssueInv /\ AckInv
  BY InitEmpty
<1>2. TypeOK /\ ClaimInv /\ IssueInv /\ AckInv /\ [Next]_vars
        => (TypeOK /\ ClaimInv /\ IssueInv /\ AckInv)'
  BY AckStep
<1>3. TypeOK /\ AckInv => AckedStaysDurable
  <2> SUFFICES ASSUME TypeOK, AckInv, treeCrashes = 0, NEW c \in Calls, reply[c] = "ok",
                      NEW g \in grant[c].gsns
               PROVE  log[g] = grant[c].ref
    BY DEF AckedStaysDurable, AckedNeverOverwritten
  <2>1. grant[c].ref # 0
    BY DEF AckInv, CallsMatchGrants
  <2>2. grant[c].ref \in durable /\ g \in GsnsOf(batch[grant[c].ref])
    BY <2>1 DEF AckInv, CallsMatchGrants
  <2> QED
    BY <2>2 DEF AckInv, StoredStays
<1> QED
  BY <1>1, <1>2, <1>3, PTL DEF Spec

(***************************************************************************)
(* Retries: the in-flight guard and the dedup keys.                        *)
(***************************************************************************)

\* Taking the ids of some unresolved batches out of the guard leaves the ids
\* of the others in it.
LEMMA GuardRemove ==
  ASSUME GuardMatchesOpenClaims, WriterUp, NEW D \in SUBSET Unresolved,
         inflight' = inflight \ UNION {IdsOf(batch[q]) : q \in D},
         \A q \in Refs : ClaimKept(q),
         Unresolved' = Unresolved \ D
  PROVE  GuardMatchesOpenClaims'
<1>1. \A q \in Refs : IdsOf(batch'[q]) = IdsOf(batch[q])
  BY KeptSets
<1>2. Unresolved \subseteq Refs
  BY DEF Unresolved
<1>3. /\ inflight = UNION {IdsOf(batch[r]) : r \in Unresolved}
      /\ \A r, q \in Unresolved : r # q => IdsOf(batch[r]) \cap IdsOf(batch[q]) = {}
  BY DEF GuardMatchesOpenClaims
<1>4. ASSUME NEW a
      PROVE  a \in inflight' <=> \E r \in Unresolved \ D : a \in IdsOf(batch[r])
  <2>1. a \in inflight' <=> /\ \E r \in Unresolved : a \in IdsOf(batch[r])
                            /\ \A q \in D : a \notin IdsOf(batch[q])
    BY <1>3
  <2>2. ASSUME NEW r \in Unresolved \ D, a \in IdsOf(batch[r]), NEW q \in D
        PROVE  a \notin IdsOf(batch[q])
    BY <1>3, <2>2
  <2> QED
    BY <2>1, <2>2
<1>5. ASSUME NEW a
      PROVE  a \in UNION {IdsOf(batch'[r]) : r \in Unresolved'} <=>
               \E r \in Unresolved \ D : a \in IdsOf(batch[r])
  BY <1>1, <1>2
<1>6. inflight' = UNION {IdsOf(batch'[r]) : r \in Unresolved'}
  BY <1>4, <1>5
<1>7. \A r, q \in Unresolved' : r # q => IdsOf(batch'[r]) \cap IdsOf(batch'[q]) = {}
  BY <1>1, <1>2, <1>3
<1> QED
  BY <1>6, <1>7 DEF GuardMatchesOpenClaims

\* What each step does to the set of unresolved batches.
LEMMA UnresolvedStep ==
  ASSUME TypeOK, RefsInOrder, [Next]_vars
  PROVE  /\ Flush => Unresolved' = Unresolved \cup {nextRef} /\ nextRef \notin Unresolved
         /\ \A r \in Refs : CommitAck(r) => Unresolved' = Unresolved \ {r}
         /\ \A r \in Refs : \A X \in SUBSET Successors(r) :
              Abandon(r, X) => Unresolved' = Unresolved \ ({r} \cup X)
         /\ FinishDrain \/ UNCHANGED batch => Unresolved' = Unresolved
         /\ \A r \in Refs : ApplyOne(r) \/ ApplyFails(r) => Unresolved' = Unresolved
<1> USE ConstantsAssumption
<1>1. ASSUME Flush
      PROVE  Unresolved' = Unresolved \cup {nextRef} /\ nextRef \notin Unresolved
  <2>1. nextRef \in Refs /\ batch[nextRef].phase = "none"
    BY <1>1, FlushEffect DEF RefsInOrder, Refs
  <2>2. \A q \in Refs : /\ q \in Unresolved' <=> batch'[q].phase \in UnresolvedPhases
                        /\ q \in Unresolved <=> batch[q].phase \in UnresolvedPhases
    BY DEF Unresolved
  <2>3. \A q \in Refs : q # nextRef => (q \in Unresolved' <=> q \in Unresolved)
    BY <1>1, FlushShape
  <2>4. nextRef \in Unresolved' /\ nextRef \notin Unresolved
    BY <1>1, <2>1, <2>2, FlushEffect DEF UnresolvedPhases
  <2>5. Unresolved \subseteq Refs /\ Unresolved' \subseteq Refs
    BY DEF Unresolved
  <2> QED
    BY <2>1, <2>3, <2>4, <2>5
<1>2. ASSUME NEW r \in Refs, CommitAck(r)
      PROVE  Unresolved' = Unresolved \ {r}
  <2>1. batch' = [batch EXCEPT ![r].phase = "committed"] /\ "committed" \in Phases
    BY <1>2 DEF CommitAck, Phases
  <2>2. \A q \in Refs : batch'[q].phase = IF q = r THEN "committed" ELSE batch[q].phase
    BY <2>1, PhaseEffect
  <2> QED
    BY <2>2 DEF Unresolved, UnresolvedPhases
<1>3. ASSUME NEW r \in Refs, NEW X \in SUBSET Successors(r), Abandon(r, X)
      PROVE  Unresolved' = Unresolved \ ({r} \cup X)
  <2>1. X \in SUBSET Refs
    BY <1>3 DEF Successors
  <2>2. \A q \in Refs : /\ q \in {r} \cup X => batch'[q].phase = "abandoned"
                        /\ q \notin {r} \cup X => batch'[q].phase = batch[q].phase
    BY <1>3, <2>1, AbandonFrame
  <2> QED
    BY <2>2 DEF Unresolved, UnresolvedPhases
<1>4. ASSUME FinishDrain
      PROVE  Unresolved' = Unresolved
  <2>1. StartNextCommit(batch, job) /\ batch \in [Refs -> BatchType]
    BY <1>4 DEF FinishDrain, TypeOK
  <2>2. \A q \in Refs : batch'[q].phase \in UnresolvedPhases <=> batch[q].phase \in UnresolvedPhases
    BY <2>1, StartNextCommitFrame
  <2> QED
    BY <2>2 DEF Unresolved
<1>5. ASSUME NEW r \in Refs, ApplyOne(r) \/ ApplyFails(r)
      PROVE  Unresolved' = Unresolved
  <2>1. PICK p \in {"released", "applying"} : batch' = [batch EXCEPT ![r].phase = p]
    BY <1>5 DEF ApplyOne, ApplyFails
  <2>2. p \in Phases /\ batch[r].phase = "committed"
    BY <1>5, <2>1 DEF Phases, ApplyOne, ApplyFails
  <2>3. \A q \in Refs : batch'[q].phase = IF q = r THEN p ELSE batch[q].phase
    BY <2>1, <2>2, PhaseEffect
  <2> QED
    BY <2>1, <2>2, <2>3 DEF Unresolved, UnresolvedPhases
<1>6. UNCHANGED batch => Unresolved' = Unresolved
  BY DEF Unresolved
<1> QED
  BY <1>1, <1>2, <1>3, <1>4, <1>5, <1>6

\* Every step keeps the guard equal to the open claims.
LEMMA GuardStep ==
  ASSUME TypeOK, RefsInOrder, GuardMatchesOpenClaims, [Next]_vars
  PROVE  GuardMatchesOpenClaims'
<1> USE ConstantsAssumption
<1>1. Unresolved \subseteq Refs /\ \A q \in Refs : ~Flush => ClaimKept(q)
  BY StepKeepsClaims DEF Unresolved
<1>2. ASSUME ~Flush, inflight' = inflight, Unresolved' = Unresolved, WriterUp' => WriterUp
      PROVE  GuardMatchesOpenClaims'
  <2>1. \A q \in Refs : IdsOf(batch'[q]) = IdsOf(batch[q])
    BY <1>1, <1>2, KeptSets
  <2>2. UNION {IdsOf(batch'[r]) : r \in Unresolved'} = UNION {IdsOf(batch[r]) : r \in Unresolved}
    BY <1>1, <1>2, <2>1
  <2> QED
    BY <1>1, <1>2, <2>1, <2>2 DEF GuardMatchesOpenClaims
<1>3. ASSUME \/ \E c \in Calls, A \in CallSets : Submit(c, A)
             \/ FlushNothingFresh \/ FinishDrain
             \/ \E r \in Refs : Committer(r) \/ ApplyOne(r) \/ ApplyFails(r)
             \/ UNCHANGED vars
      PROVE  GuardMatchesOpenClaims'
  <2>1. ~Flush \/ UNCHANGED vars
    BY <1>3, SMTT(30) DEF Submit, FlushNothingFresh, FinishDrain, Committer, CommitterWrite, LateWrite,
                LateDrop, ApplyOne, ApplyFails, Flush, TypeOK
  <2>2. inflight' = inflight /\ (WriterUp' => WriterUp)
    BY <1>3 DEF Submit, FlushNothingFresh, FinishDrain, Committer, CommitterWrite, LateWrite,
                LateDrop, ApplyOne, ApplyFails, vars, seqVars, WriterUp
  <2>3. Unresolved' = Unresolved
    <3>1. \/ FinishDrain \/ UNCHANGED batch
          \/ \E r \in Refs : ApplyOne(r) \/ ApplyFails(r)
      BY <1>3 DEF Submit, FlushNothingFresh, Committer, CommitterWrite, LateWrite, LateDrop, vars
    <3> QED
      BY <3>1, UnresolvedStep
  <2>4. CASE UNCHANGED vars
    BY <2>4 DEF vars, seqVars, GuardMatchesOpenClaims, WriterUp, Unresolved
  <2> QED
    BY <1>2, <2>1, <2>2, <2>3, <2>4
<1>4. CASE Flush
  <2>1. /\ Unresolved' = Unresolved \cup {nextRef} /\ nextRef \notin Unresolved
        /\ WriterUp /\ inflight' = inflight \cup FreshIds
    BY <1>4, UnresolvedStep DEF Flush, WriterUp
  <2>2. /\ nextRef \in Refs /\ IdsOf(batch'[nextRef]) = FreshIds
        /\ \A q \in Unresolved : IdsOf(batch'[q]) = IdsOf(batch[q])
    BY <1>1, <1>4, <2>1, FlushEffect, KeptSets
  <2>3. /\ inflight = UNION {IdsOf(batch[r]) : r \in Unresolved}
        /\ \A r, q \in Unresolved : r # q => IdsOf(batch[r]) \cap IdsOf(batch[q]) = {}
    BY <2>1 DEF GuardMatchesOpenClaims
  <2>4. FreshIds \cap inflight = {}
    BY DEF FreshIds
  <2>5. \A a : a \in inflight' <=> \E r \in Unresolved' : a \in IdsOf(batch'[r])
    BY <2>1, <2>2, <2>3
  <2>6. \A r \in Unresolved : IdsOf(batch[r]) \cap FreshIds = {}
    BY <2>3, <2>4
  <2>7. \A r, q \in Unresolved' : r # q => IdsOf(batch'[r]) \cap IdsOf(batch'[q]) = {}
    BY <2>1, <2>2, <2>3, <2>6
  <2>8. inflight' = UNION {IdsOf(batch'[r]) : r \in Unresolved'}
    BY <2>5
  <2> QED
    BY <2>7, <2>8 DEF GuardMatchesOpenClaims
<1>5. ASSUME NEW r \in Refs, CommitAck(r)
      PROVE  GuardMatchesOpenClaims'
  <2>1. /\ WriterUp /\ ~Flush /\ r \in Unresolved
        /\ inflight' = inflight \ UNION {IdsOf(batch[q]) : q \in {r}}
    BY <1>5 DEF CommitAck, WriterUp, Flush, Unresolved, UnresolvedPhases
  <2>2. Unresolved' = Unresolved \ {r} /\ {r} \in SUBSET Unresolved
    BY <1>5, <2>1, UnresolvedStep
  <2> QED
    BY <1>1, <2>1, <2>2, GuardRemove
<1>6. ASSUME NEW r \in Refs, NEW outcome, CommitFailed(r, outcome)
      PROVE  GuardMatchesOpenClaims'
  <2>1. PICK X \in SUBSET Successors(r) : Abandon(r, X)
    BY <1>6 DEF CommitFailed
  <2>2. {r} \cup X \in SUBSET Unresolved /\ WriterUp /\ ~Flush
    BY <1>6, <2>1 DEF CommitFailed, Successors, Unresolved, UnresolvedPhases, WriterUp, Flush
  <2>3. Unresolved' = Unresolved \ ({r} \cup X)
    BY <2>1, UnresolvedStep
  <2>4. inflight' = inflight \ UNION {IdsOf(batch[q]) : q \in {r} \cup X}
    BY <2>1 DEF Abandon
  <2> QED
    BY <1>1, <2>2, <2>3, <2>4, GuardRemove
<1>7. CASE WriterCrash \/ TreeCrash \/ SystemCacheInit \/ WatermarkInit
  BY <1>7 DEF WriterCrash, TreeCrash, SystemCacheInit, WatermarkInit,
              GuardMatchesOpenClaims, WriterUp
<1>8. CASE WriterInit
  <2>1. inflight' = {} /\ batch' = batch /\ ~WriterUp
    BY <1>8 DEF WriterInit, WriterUp
  <2>2. Unresolved' = {}
    BY <2>1 DEF RefsInOrder, Unresolved, OpenPhases, UnresolvedPhases
  <2> QED
    BY <2>1, <2>2 DEF GuardMatchesOpenClaims
<1> QED
  BY <1>3, <1>4, <1>5, <1>6, <1>7, <1>8
     DEF Next, CommitResult, CommitError, CommitTimeout, CommitResultLost, Restart

\* Once an outcome is lost, it stays lost.
LEMMA LostStays ==
  ASSUME TypeOK, [Next]_vars, NothingLost'
  PROVE  /\ NothingLost
         /\ ~WriterCrash /\ ~TreeCrash
         /\ \A r \in Refs : ~CommitTimeout(r) /\ ~CommitResultLost(r)
<1>1. lost' >= lost /\ crashes' >= crashes /\ treeCrashes' >= treeCrashes
  BY DEF TypeOK, Next, vars, budgets, Submit, FlushNothingFresh, Flush, Committer,
         CommitterWrite, LateWrite, LateDrop, CommitResult, CommitAck, CommitError,
         CommitTimeout, CommitResultLost, CommitFailed, ApplyOne, ApplyFails, FinishDrain,
         WriterCrash, TreeCrash, Restart, SystemCacheInit, WatermarkInit, WriterInit
<1>2. lost \in Nat /\ crashes \in Nat /\ treeCrashes \in Nat
  BY DEF TypeOK
<1>3. NothingLost
  BY <1>1, <1>2 DEF NothingLost
<1> QED
  BY <1>2, <1>3 DEF NothingLost, WriterCrash, TreeCrash, CommitTimeout, CommitResultLost

\* Every step keeps ClaimedOnce.
LEMMA OnceStep ==
  ASSUME TypeOK, RefsInOrder, JobsMatchPhases, GuardMatchesOpenClaims, ClaimedOnce, [Next]_vars
  PROVE  ClaimedOnce'
<1> USE ConstantsAssumption
<1> DEFINE Acked(r) == \/ job[r] = "written"
                       \/ batch[r].phase \in {"committed", "applying", "released"}
           Apart == \A r, q \in Unresolved \cup durable :
                      r # q => IdsOf(batch[r]) \cap IdsOf(batch[q]) = {}
<1> SUFFICES ASSUME NothingLost'
             PROVE  /\ WriterUp'
                    /\ \A r \in Refs : job'[r] # "late"
                    /\ \A r \in durable' : Acked(r)'
                    /\ Apart'
  BY DEF ClaimedOnce
<1>1. /\ NothingLost /\ ~WriterCrash /\ ~TreeCrash
      /\ \A r \in Refs : ~CommitTimeout(r) /\ ~CommitResultLost(r)
  BY LostStays
<1>2. /\ WriterUp
      /\ \A r \in Refs : job[r] # "late"
      /\ \A r \in durable : Acked(r)
      /\ Apart
  BY <1>1 DEF ClaimedOnce
<1>3. durable \subseteq Refs /\ Unresolved \subseteq Refs
  BY DEF TypeOK, Unresolved
<1>4. ASSUME ~Flush, Unresolved' \cup durable' \subseteq Unresolved \cup durable
      PROVE  Apart'
  <2>1. \A q \in Refs : IdsOf(batch'[q]) = IdsOf(batch[q])
    BY <1>4, StepKeepsClaims, KeptSets
  <2> QED
    BY <1>2, <1>3, <1>4, <2>1
<1> HIDE DEF Apart
<1>5. CASE Flush
  <2>1. WriterUp' /\ durable' = durable
    BY <1>5 DEF Flush, WriterUp, diskVars
  <2>2. nextRef \in Refs /\ batch[nextRef].phase = "none" /\ nextRef \notin durable
    BY <1>5, FlushEffect DEF RefsInOrder, Refs, JobsMatchPhases
  <2>3. ASSUME NEW q \in Refs
        PROVE  job'[q] # "late" /\ (q \in durable => Acked(q)')
    <3>1. \/ /\ batch'[q].phase = IF q = nextRef THEN "prepared" ELSE batch[q].phase
             /\ job'[q] = job[q]
          \/ (q = nextRef \/ batch[q].phase = "prepared") /\ Started(q)
      BY <1>5, FlushEffect
    <3>2. batch[q].phase = "prepared" => q \notin durable
      BY DEF JobsMatchPhases
    <3> QED
      BY <1>2, <2>2, <3>1, <3>2 DEF Started
  <2>4. Unresolved' = Unresolved \cup {nextRef} /\ nextRef \notin Unresolved
    BY <1>5, UnresolvedStep
  <2>5. IdsOf(batch'[nextRef]) = FreshIds
    BY <1>5, FlushEffect
  <2>6. ASSUME NEW q \in Unresolved \cup durable
        PROVE  IdsOf(batch'[q]) = IdsOf(batch[q]) /\ IdsOf(batch[q]) \cap FreshIds = {}
    <3>1. q \in Refs /\ q # nextRef
      BY <1>3, <2>2, <2>4
    <3>2. IdsOf(batch'[q]) = IdsOf(batch[q])
      BY <1>5, <3>1, FlushEffect, KeptSets
    <3>3. IdsOf(batch[q]) \subseteq DedupIds \cup inflight
      BY <1>2 DEF DedupIds, GuardMatchesOpenClaims
    <3> QED
      BY <3>2, <3>3 DEF FreshIds
  <2>7. Apart'
    <3>1. SUFFICES ASSUME NEW p \in Unresolved' \cup durable', NEW q \in Unresolved' \cup durable',
                          p # q
                   PROVE  IdsOf(batch'[p]) \cap IdsOf(batch'[q]) = {}
      BY DEF Apart
    <3>2. p \in Unresolved \cup durable \cup {nextRef} /\ q \in Unresolved \cup durable \cup {nextRef}
      BY <2>1, <2>4
    <3>3. CASE p = nextRef
      BY <2>5, <2>6, <3>1, <3>2, <3>3
    <3>4. CASE q = nextRef
      BY <2>5, <2>6, <3>1, <3>2, <3>4
    <3>5. CASE p # nextRef /\ q # nextRef
      BY <1>2, <2>6, <3>1, <3>2, <3>5 DEF Apart
    <3> QED
      BY <3>3, <3>4, <3>5
  <2> QED
    BY <2>1, <2>3, <2>7, <1>3
<1>6. ASSUME UNCHANGED <<batch, job, durable>>, WriterUp', ~Flush
      PROVE  /\ WriterUp' /\ \A r \in Refs : job'[r] # "late"
             /\ \A r \in durable' : Acked(r)'
             /\ Apart'
  <2>1. Unresolved' = Unresolved
    BY <1>6 DEF Unresolved
  <2> QED
    BY <1>2, <1>4, <1>6, <2>1
<1>7. CASE \/ \E c \in Calls, A \in CallSets : Submit(c, A)
           \/ FlushNothingFresh
  <2>1. UNCHANGED <<batch, job, durable>> /\ WriterUp'
    BY <1>7 DEF Submit, FlushNothingFresh, WriterUp, diskVars
  <2> QED
    BY <1>5, <1>6, <2>1
<1>8. CASE UNCHANGED vars
  <2>1. UNCHANGED <<batch, job, durable>> /\ WriterUp'
    BY <1>2, <1>8 DEF vars, WriterUp, diskVars
  <2> QED
    BY <1>5, <1>6, <2>1
<1>9. ASSUME NEW r \in Refs, Committer(r)
      PROVE  /\ WriterUp' /\ \A q \in Refs : job'[q] # "late"
             /\ \A q \in durable' : Acked(q)'
             /\ Apart'
  <2>1. CommitterWrite(r) /\ ~Flush
    BY <1>2, <1>9 DEF Committer, LateWrite, LateDrop, CommitterWrite, Flush, TypeOK
  <2>2. r \in Unresolved
    BY <2>1 DEF CommitterWrite, JobsMatchPhases, Unresolved, UnresolvedPhases
  <2>3. /\ durable' = durable \cup {r} /\ UNCHANGED <<batch, stage>>
        /\ job' = [job EXCEPT ![r] = "written"]
    BY <2>1 DEF CommitterWrite, WriteBatch
  <2>4. Unresolved' = Unresolved /\ WriterUp'
    BY <1>2, <2>3 DEF Unresolved, WriterUp
  <2>5. Apart'
    BY <1>4, <2>1, <2>2, <2>3, <2>4
  <2> QED
    BY <1>2, <1>3, <2>3, <2>4, <2>5 DEF TypeOK
<1>10. ASSUME NEW r \in Refs, CommitAck(r)
       PROVE  /\ WriterUp' /\ \A q \in Refs : job'[q] # "late"
              /\ \A q \in durable' : Acked(q)'
              /\ Apart'
  <2>1. batch' = [batch EXCEPT ![r].phase = "committed"] /\ "committed" \in Phases
    BY <1>10 DEF CommitAck, Phases
  <2>2. \A q \in Refs : batch'[q].phase = IF q = r THEN "committed" ELSE batch[q].phase
    BY <2>1, PhaseEffect
  <2>3. /\ durable' = durable /\ job' = [job EXCEPT ![r] = "gone"] /\ WriterUp' /\ ~Flush
    BY <1>10 DEF CommitAck, diskVars, WriterUp, Flush
  <2>4. Unresolved' \cup durable' \subseteq Unresolved \cup durable
    BY <1>10, <2>3, UnresolvedStep
  <2>5. \A q \in Refs : job'[q] # "late" /\ (q \in durable => Acked(q)')
    BY <1>2, <2>2, <2>3 DEF TypeOK
  <2> QED
    BY <1>3, <1>4, <2>3, <2>4, <2>5
<1>11. ASSUME NEW r \in Refs, CommitError(r)
       PROVE  /\ WriterUp' /\ \A q \in Refs : job'[q] # "late"
              /\ \A q \in durable' : Acked(q)'
              /\ Apart'
  <2>1. CommitFailed(r, "gone") /\ job[r] = "running"
    BY <1>11 DEF CommitError
  <2>2. PICK X \in SUBSET Successors(r) : Abandon(r, X)
    BY <2>1 DEF CommitFailed
  <2>3. /\ durable' = durable /\ job' = [job EXCEPT ![r] = "gone"] /\ WriterUp' /\ ~Flush
    BY <2>1 DEF CommitFailed, diskVars, WriterUp, Flush
  <2>4. X \in SUBSET Refs /\ \A q \in {r} \cup X : q \notin durable
    BY <2>1, <2>2 DEF Successors, JobsMatchPhases
  <2>5. \A q \in Refs : q \notin {r} \cup X => batch'[q].phase = batch[q].phase
    BY <2>2, <2>4, AbandonFrame
  <2>6. Unresolved' \cup durable' \subseteq Unresolved \cup durable
    BY <2>2, <2>3, UnresolvedStep
  <2>7. \A q \in Refs : job'[q] # "late" /\ (q \in durable => Acked(q)')
    BY <1>2, <2>3, <2>4, <2>5 DEF TypeOK
  <2> QED
    BY <1>3, <1>4, <2>3, <2>6, <2>7
<1>12. ASSUME NEW r \in Refs, ApplyOne(r) \/ ApplyFails(r)
       PROVE  /\ WriterUp' /\ \A q \in Refs : job'[q] # "late"
              /\ \A q \in durable' : Acked(q)'
              /\ Apart'
  <2>1. PICK p \in {"released", "applying"} : batch' = [batch EXCEPT ![r].phase = p]
    BY <1>12 DEF ApplyOne, ApplyFails
  <2>2. p \in Phases
    BY <2>1 DEF Phases
  <2>3. \A q \in Refs : batch'[q].phase = IF q = r THEN p ELSE batch[q].phase
    BY <2>1, <2>2, PhaseEffect
  <2>4. UNCHANGED <<durable, job>> /\ WriterUp' /\ ~Flush
    BY <1>12 DEF ApplyOne, ApplyFails, diskVars, WriterUp, Flush
  <2>5. Unresolved' = Unresolved
    BY <1>12, UnresolvedStep
  <2>6. \A q \in Refs : job'[q] # "late" /\ (q \in durable => Acked(q)')
    BY <1>2, <2>1, <2>3, <2>4
  <2> QED
    BY <1>3, <1>4, <2>4, <2>5, <2>6
<1>13. CASE FinishDrain
  <2>1. /\ StartNextCommit(batch, job) /\ batch \in [Refs -> BatchType]
        /\ durable' = durable /\ WriterUp' /\ ~Flush
    BY <1>13 DEF FinishDrain, TypeOK, diskVars, WriterUp, Flush
  <2>2. ASSUME NEW q \in Refs
        PROVE  job'[q] # "late" /\ (q \in durable => Acked(q)')
    <3>1. \/ batch'[q].phase = batch[q].phase /\ job'[q] = job[q]
          \/ batch[q].phase = "prepared" /\ Started(q)
      BY <2>1, StartEffect
    <3>2. batch[q].phase = "prepared" => q \notin durable
      BY DEF JobsMatchPhases
    <3> QED
      BY <1>2, <3>1, <3>2 DEF Started
  <2>3. Unresolved' = Unresolved
    BY <1>13, UnresolvedStep
  <2> QED
    BY <1>3, <1>4, <2>1, <2>2, <2>3
<1>14. ~Restart
  BY <1>2 DEF Restart, SystemCacheInit, WatermarkInit, WriterInit, WriterUp
<1> QED
  BY <1>1, <1>5, <1>7, <1>8, <1>9, <1>10, <1>11, <1>12, <1>13, <1>14 DEF Next, CommitResult

\* A retry is never in flight twice: the guard holds exactly the ids of the
\* claims that may still be written.  And while no commit outcome was lost, no
\* Action is stored twice, however often its client retries it.
THEOREM RetriesOnce == Spec => []RetriesAccounted
<1> DEFINE I == TypeOK /\ ClaimInv /\ IssueInv /\ AckInv /\ RetryInv
<1>1. Init => I
  <2> SUFFICES ASSUME Init PROVE RetryInv
    BY InitEmpty
  <2>1. Unresolved = {} /\ durable = {} /\ inflight = {} /\ WriterUp
    BY InitEmpty DEF Init, WriterUp
  <2>2. \A r \in Refs : job[r] = "none"
    BY DEF Init
  <2> QED
    BY <2>1, <2>2 DEF RetryInv, GuardMatchesOpenClaims, ClaimedOnce
<1>2. I /\ [Next]_vars => I'
  BY AckStep, GuardStep, OnceStep DEF ClaimInv, AckInv, RetryInv
<1>3. I => RetriesAccounted
  BY DEF RetryInv, ClaimedOnce, RetriesAccounted, NoDoubleAppend, RetryNeverAppendsTwice
<1> HIDE DEF I
<1> QED
  BY <1>1, <1>2, <1>3, PTL DEF Spec

(***************************************************************************)
(* Order: the pipeline is a queue, and the Router hears of its head.       *)
(***************************************************************************)

\* All the ways a batch changes its phase.
LEMMA PhaseStep ==
  ASSUME TypeOK, RefsInOrder, [Next]_vars, NEW q \in Refs
  PROVE  \/ batch'[q].phase = batch[q].phase
         \/ /\ Flush /\ q = nextRef /\ batch[q].phase = "none"
            /\ batch'[q].phase = "prepared" \/ Started(q)
         \/ batch[q].phase = "prepared" /\ Started(q)
         \/ /\ batch[q].phase = "committing" /\ batch'[q].phase = "committed"
            /\ CommitAck(q)
         \/ batch[q].phase \in UnresolvedPhases /\ batch'[q].phase = "abandoned"
         \/ /\ batch[q].phase = "committed" /\ batch'[q].phase = "released"
            /\ ApplyOne(q)
         \/ batch[q].phase = "committed" /\ batch'[q].phase = "applying"
         \/ batch[q].phase \in OpenPhases /\ batch'[q].phase = "orphaned"
<1> USE ConstantsAssumption
<1> DEFINE Goal == \/ batch'[q].phase = batch[q].phase
                   \/ /\ Flush /\ q = nextRef /\ batch[q].phase = "none"
                      /\ batch'[q].phase = "prepared" \/ Started(q)
                   \/ batch[q].phase = "prepared" /\ Started(q)
                   \/ /\ batch[q].phase = "committing" /\ batch'[q].phase = "committed"
                      /\ CommitAck(q)
                   \/ batch[q].phase \in UnresolvedPhases /\ batch'[q].phase = "abandoned"
                   \/ /\ batch[q].phase = "committed" /\ batch'[q].phase = "released"
                      /\ ApplyOne(q)
                   \/ batch[q].phase = "committed" /\ batch'[q].phase = "applying"
                   \/ batch[q].phase \in OpenPhases /\ batch'[q].phase = "orphaned"
<1>1. CASE batch' = batch
  BY <1>1
<1>2. CASE Flush
  <2>1. q = nextRef => batch[q].phase = "none"
    BY <1>2, FlushEffect DEF RefsInOrder, Refs
  <2>2. \/ batch'[q].phase = IF q = nextRef THEN "prepared" ELSE batch[q].phase
        \/ (q = nextRef \/ batch[q].phase = "prepared") /\ Started(q)
    BY <1>2, FlushEffect
  <2> QED
    BY <1>2, <2>1, <2>2
<1>3. ASSUME NEW r \in Refs, CommitAck(r) \/ ApplyOne(r) \/ ApplyFails(r)
      PROVE  Goal
  <2>1. PICK p \in {"committed", "released", "applying"} :
          /\ batch' = [batch EXCEPT ![r].phase = p]
          /\ p = "committed" => batch[r].phase = "committing" /\ CommitAck(r)
          /\ p # "committed" => batch[r].phase = "committed"
          /\ p = "released" => ApplyOne(r)
    <3>1. CASE CommitAck(r)
      <4>1. /\ batch' = [batch EXCEPT ![r].phase = "committed"]
            /\ batch[r].phase = "committing"
        BY <3>1 DEF CommitAck
      <4> QED
        BY <3>1, <4>1
    <3>2. CASE ApplyOne(r)
      <4>1. /\ batch' = [batch EXCEPT ![r].phase = "released"]
            /\ batch[r].phase = "committed"
        BY <3>2 DEF ApplyOne
      <4> QED
        BY <3>2, <4>1
    <3>3. CASE ApplyFails(r)
      <4>1. /\ batch' = [batch EXCEPT ![r].phase = "applying"]
            /\ batch[r].phase = "committed"
        BY <3>3 DEF ApplyFails
      <4> QED
        BY <3>3, <4>1
    <3> QED
      BY <1>3, <3>1, <3>2, <3>3
  <2>2. p \in Phases
    BY <2>1 DEF Phases
  <2>3. batch'[q].phase = IF q = r THEN p ELSE batch[q].phase
    BY <2>1, <2>2, PhaseEffect
  <2> QED
    BY <2>1, <2>3
<1>4. ASSUME NEW r \in Refs, NEW outcome, CommitFailed(r, outcome)
      PROVE  Goal
  <2>1. PICK X \in SUBSET Successors(r) : Abandon(r, X)
    BY <1>4 DEF CommitFailed
  <2>2. /\ X \in SUBSET Refs
        /\ \A p \in {r} \cup X : batch[p].phase \in UnresolvedPhases
    BY <1>4, <2>1 DEF Successors, CommitFailed, UnresolvedPhases
  <2>3. /\ q \in {r} \cup X => batch'[q].phase = "abandoned"
        /\ q \notin {r} \cup X => batch'[q].phase = batch[q].phase
    BY <2>1, <2>2, AbandonFrame
  <2> QED
    BY <2>2, <2>3
<1>5. CASE FinishDrain
  <2>1. StartNextCommit(batch, job) /\ batch \in [Refs -> BatchType]
    BY <1>5 DEF FinishDrain, TypeOK
  <2>2. \/ batch'[q].phase = batch[q].phase
        \/ batch[q].phase = "prepared" /\ Started(q)
    BY <2>1, StartEffect
  <2> QED
    BY <2>2
<1>6. CASE WriterCrash \/ TreeCrash
  BY <1>6, DiesEffect DEF WriterCrash, TreeCrash
<1> QED
  BY <1>1, <1>2, <1>3, <1>4, <1>5, <1>6
     DEF Next, vars, Submit, FlushNothingFresh, Committer, CommitterWrite, LateWrite,
         LateDrop, CommitResult, CommitError, CommitTimeout, CommitResultLost, Restart,
         SystemCacheInit, WatermarkInit, WriterInit

\* Only a flush opens a batch, and the batch it opens is the newest.
LEMMA OpenStep ==
  ASSUME TypeOK, RefsInOrder, [Next]_vars, NEW q \in Refs, batch'[q].phase \in OpenPhases
  PROVE  batch[q].phase \in OpenPhases \/ (Flush /\ q = nextRef)
BY PhaseStep DEF OpenPhases, UnresolvedPhases, Started

\* The counter, and the next ref, only move up while a Writer is up.
LEMMA CounterStep ==
  ASSUME TypeOK, TypeOK', [Next]_vars
  PROVE  /\ WriterUp => counter <= counter'
         /\ ~Flush => nextRef' = nextRef
         /\ Flush => nextRef' = nextRef + 1 /\ counter < counter'
<1>1. counter \in Nat /\ counter' \in Nat
  BY DEF TypeOK
<1>2. Flush => nextRef' = nextRef + 1 /\ counter < counter'
  BY FlushShape DEF Flush
<1>3. ASSUME ~Flush
      PROVE  nextRef' = nextRef /\ (WriterUp => counter' = counter)
  BY <1>3 DEF Next, vars, seqVars, Submit, FlushNothingFresh, Committer, CommitterWrite,
              LateWrite, LateDrop, CommitResult, CommitAck, CommitError, CommitTimeout,
              CommitResultLost, CommitFailed, ApplyOne, ApplyFails, FinishDrain, WriterCrash,
              TreeCrash, WriterDies, Restart, SystemCacheInit, WatermarkInit, WriterInit,
              WriterUp
<1> QED
  BY <1>1, <1>2, <1>3

\* Every step keeps the pipeline a queue.
LEMMA PipelineStep ==
  ASSUME TypeOK, TypeOK', RefsInOrder, RefsInOrder', PipelineInOrder, [Next]_vars
  PROVE  PipelineInOrder'
<1> USE ConstantsAssumption
<1>1. /\ counter \in Nat /\ counter' \in Nat /\ nextRef \in Nat
      /\ \A q \in Refs : /\ q \in Int
                         /\ batch[q].first \in Int /\ batch[q].last \in Int
                         /\ batch'[q].first \in Int /\ batch'[q].last \in Int
  <2>1. counter \in Nat /\ counter' \in Nat /\ nextRef \in Nat
    BY DEF TypeOK
  <2>2. ASSUME NEW q \in Refs
        PROVE  q \in Int /\ batch[q] \in BatchType /\ batch'[q] \in BatchType
    BY SMTT(30) DEF TypeOK, Refs
  <2>3. \A b \in BatchType : b.first \in Int /\ b.last \in Int
    BY DEF BatchType
  <2> QED
    BY <2>1, <2>2, <2>3
<1>2. \A q \in Refs : batch[q].phase # "none" => q < nextRef
  BY <1>1 DEF RefsInOrder
<1>3. \A q \in Refs : batch[q].phase # "none" =>
        /\ ClaimKept(q) /\ batch'[q].phase # "none"
        /\ batch'[q].first = batch[q].first /\ batch'[q].last = batch[q].last
        /\ MoversOf(batch'[q]) = MoversOf(batch[q])
  BY StepKeepsClaims, KeptSets DEF ClaimKept
<1>4. Flush => /\ nextRef \in Refs /\ counter < counter'
               /\ batch'[nextRef].first = counter + 1 /\ batch'[nextRef].last = counter'
               /\ batch'[nextRef].phase # "none"
  BY FlushEffect, FlushShape DEF UnresolvedPhases
<1>5. /\ ~Flush => nextRef' = nextRef
      /\ Flush => nextRef' = nextRef + 1
      /\ WriterUp => counter <= counter'
  BY CounterStep
<1>6. ASSUME NEW q \in Refs, batch'[q].phase \in OpenPhases
      PROVE  batch[q].phase \in OpenPhases \/ (Flush /\ q = nextRef)
  BY <1>6, OpenStep
<1>7. ASSUME NEW q \in Refs, batch[q].phase \in OpenPhases
      PROVE  WriterUp /\ batch[q].phase # "none"
  BY <1>7 DEF RefsInOrder, OpenPhases
<1>8. ASSUME NEW r \in Refs, r < nextRef'
      PROVE  batch'[r].phase # "none"
  BY <1>1, <1>3, <1>4, <1>5, <1>8 DEF PipelineInOrder
<1>9. ASSUME NEW r \in Refs, batch'[r].phase # "none"
      PROVE  batch'[r].first <= batch'[r].last
  <2>1. CASE batch[r].phase # "none"
    BY <1>3, <2>1 DEF PipelineInOrder
  <2>2. CASE batch[r].phase = "none"
    <3>1. Flush /\ r = nextRef
      BY <1>9, <2>2, PhaseStep DEF UnresolvedPhases, OpenPhases
    <3> QED
      BY <1>1, <1>4, <3>1
  <2> QED
    BY <2>1, <2>2
<1>10. ASSUME NEW r \in Refs, batch'[r].phase \in OpenPhases
       PROVE  batch'[r].last <= counter'
  <2>1. CASE batch[r].phase \in OpenPhases
    <3>1. batch[r].last <= counter /\ counter <= counter' /\ batch'[r].last = batch[r].last
      BY <1>3, <1>5, <1>7, <2>1 DEF PipelineInOrder
    <3> QED
      BY <1>1, <3>1
  <2>2. CASE Flush /\ r = nextRef
    BY <1>1, <1>4, <2>2
  <2> QED
    BY <1>6, <1>10, <2>1, <2>2
<1>11. ASSUME NEW r \in Refs, NEW q \in Refs, r < q, batch'[r].phase \in OpenPhases,
              batch'[q].phase \in OpenPhases
       PROVE  batch'[r].last < batch'[q].first
  <2>1. CASE batch[r].phase \in OpenPhases /\ batch[q].phase \in OpenPhases
    BY <1>3, <1>7, <1>11, <2>1 DEF PipelineInOrder
  <2>2. CASE Flush /\ q = nextRef
    <3>1. batch[r].phase \in OpenPhases
      BY <1>1, <1>6, <1>11, <2>2
    <3>2. batch[r].last <= counter /\ batch'[r].last = batch[r].last
      BY <1>3, <1>7, <3>1 DEF PipelineInOrder
    <3> QED
      BY <1>1, <1>4, <2>2, <3>2
  <2>3. CASE Flush /\ r = nextRef
    <3>1. batch[q].phase \in OpenPhases
      BY <1>1, <1>6, <1>11, <2>3
    <3>2. q < nextRef
      BY <1>2, <1>7, <3>1
    <3> QED
      BY <1>1, <1>11, <2>3, <3>2
  <2> QED
    BY <1>6, <1>11, <2>1, <2>2, <2>3
<1> DEFINE Ahead == {"committing", "committed", "applying", "released"}
<1>12. ASSUME NEW r \in Refs, NEW q \in Refs, q < r, batch'[r].phase \in Ahead
       PROVE  /\ batch'[q].phase # "prepared"
              /\ batch'[q].phase = "committing" => MoversOf(batch'[q]) = {}
  <2>1. CASE Started(r)
    BY <1>12, <2>1 DEF Started
  <2>2. CASE batch[r].phase \in Ahead
    <3>1. /\ batch[q].phase # "prepared"
          /\ batch[q].phase = "committing" => MoversOf(batch[q]) = {}
      BY <1>12, <2>2 DEF PipelineInOrder
    <3>2. ~(Flush /\ q = nextRef)
      BY <1>1, <1>2, <1>12, <2>2
    <3>3. batch'[q].phase \in UnresolvedPhases => batch'[q].phase = batch[q].phase
      BY <3>1, <3>2, PhaseStep DEF UnresolvedPhases, OpenPhases, Started
    <3> QED
      BY <1>3, <3>1, <3>3 DEF UnresolvedPhases
  <2> QED
    BY <1>12, <2>1, <2>2, PhaseStep DEF UnresolvedPhases, OpenPhases, Started
<1>13. ASSUME NEW r \in Refs, NEW q \in Refs, q < r, batch'[r].phase = "released"
       PROVE  batch'[q].phase \notin OpenPhases
  <2>1. batch[r].phase # "none" /\ batch[q].phase \notin OpenPhases
    <3>1. batch[r].phase = "released" \/ (batch[r].phase = "committed" /\ ApplyOne(r))
      BY <1>13, PhaseStep DEF UnresolvedPhases, OpenPhases, Started
    <3> QED
      BY <1>13, <3>1 DEF PipelineInOrder, ApplyOne, IsOldestOpen
  <2>2. q # nextRef
    BY <1>1, <1>2, <1>13, <2>1
  <2> QED
    BY <1>6, <2>1, <2>2
<1> QED
  BY <1>8, <1>9, <1>10, <1>11, <1>12, <1>13 DEF PipelineInOrder

\* Marking ranges leaves the frontier exact: a claimed GSN above it is still
\* resolved, or still in an unresolved batch.
LEMMA MarkResolvedExact ==
  ASSUME TypeOK, ClaimInv, FrontierExact, WriterUp, NEW D \in SUBSET Unresolved,
         MarkResolved(UNION {GsnsOf(batch[q]) : q \in D}),
         Unresolved' = Unresolved \ D, counter' = counter,
         \A q \in Refs : ClaimKept(q)
  PROVE  FrontierExact'
<1> USE ConstantsAssumption
<1> DEFINE G == UNION {GsnsOf(batch[q]) : q \in D}
<1>1. PICK m \in watermark..MaxGsn :
        /\ IsFrontier(watermark, resolved \cup G, m)
        /\ watermark' = m
        /\ resolved' = {g \in resolved \cup G : g > m}
  BY DEF MarkResolved
<1>2. watermark \in Nat /\ m \in Nat /\ watermark <= m /\ counter \in Nat
  BY <1>1 DEF TypeOK
<1>3. watermark' + 1 \notin resolved'
  BY <1>1 DEF IsFrontier
<1>4. ASSUME NEW g \in (watermark' + 1)..counter'
      PROVE  g \in resolved' \/ \E r \in Unresolved' : g \in GsnsOf(batch'[r])
  <2>1. g \in (watermark + 1)..counter /\ g > m
    BY <1>1, <1>2, <1>4
  <2>2. g \in resolved \/ \E r \in Unresolved : g \in GsnsOf(batch[r])
    BY <2>1 DEF FrontierExact
  <2>3. \A r \in Unresolved : GsnsOf(batch'[r]) = GsnsOf(batch[r])
    BY KeptSets DEF Unresolved
  <2>4. CASE g \in resolved
    BY <1>1, <2>1, <2>4
  <2>5. ASSUME NEW r \in Unresolved, g \in GsnsOf(batch[r])
        PROVE  g \in resolved' \/ \E q \in Unresolved' : g \in GsnsOf(batch'[q])
    <3>1. CASE r \in D
      <4>1. g \in G
        BY <2>5, <3>1
      <4> HIDE DEF G
      <4> QED
        BY <1>1, <2>1, <4>1
    <3>2. CASE r \notin D
      BY <2>3, <2>5, <3>2
    <3> QED
      BY <3>1, <3>2
  <2> QED
    BY <2>2, <2>4, <2>5
<1> QED
  BY <1>3, <1>4 DEF FrontierExact

\* Every step keeps the frontier exact.
LEMMA ExactStep ==
  ASSUME TypeOK, TypeOK', ClaimInv, ClaimInv', FrontierExact, [Next]_vars
  PROVE  FrontierExact'
<1> USE ConstantsAssumption
<1>0. RefsInOrder
  BY DEF ClaimInv
<1>1. ASSUME UNCHANGED <<counter, watermark, resolved>>, Unresolved' = Unresolved,
             WriterUp' => WriterUp, \A q \in Refs : ClaimKept(q)
      PROVE  FrontierExact'
  <2>1. \A r \in Unresolved : GsnsOf(batch'[r]) = GsnsOf(batch[r])
    BY <1>1, KeptSets DEF Unresolved
  <2> QED
    BY <1>1, <2>1 DEF FrontierExact
<1>2. ASSUME \/ \E c \in Calls, A \in CallSets : Submit(c, A)
             \/ FlushNothingFresh \/ FinishDrain
             \/ \E r \in Refs : Committer(r) \/ ApplyOne(r) \/ ApplyFails(r)
             \/ UNCHANGED vars
      PROVE  FrontierExact'
  <2>1. UNCHANGED <<counter, watermark, resolved, nextRef>> /\ (WriterUp' => WriterUp)
    BY <1>2 DEF Submit, FlushNothingFresh, FinishDrain, Committer, CommitterWrite, LateWrite,
                LateDrop, ApplyOne, ApplyFails, vars, seqVars, WriterUp
  <2>2. ~Flush
    BY <2>1, CounterStep DEF TypeOK
  <2>3. Unresolved' = Unresolved
    <3>1. \/ FinishDrain \/ UNCHANGED batch
          \/ \E r \in Refs : ApplyOne(r) \/ ApplyFails(r)
      BY <1>2 DEF Submit, FlushNothingFresh, Committer, CommitterWrite, LateWrite, LateDrop, vars
    <3> QED
      BY <1>0, <3>1, UnresolvedStep
  <2> QED
    BY <1>0, <1>1, <2>1, <2>2, <2>3, StepKeepsClaims
<1>3. CASE Flush
  <2>1. /\ Unresolved' = Unresolved \cup {nextRef} /\ nextRef \notin Unresolved
        /\ UNCHANGED <<watermark, resolved>> /\ WriterUp
    BY <1>0, <1>3, UnresolvedStep DEF Flush, WriterUp
  <2>2. GsnsOf(batch'[nextRef]) = (counter + 1)..counter'
    BY <1>3, FlushEffect DEF GsnsOf
  <2>3. \A r \in Unresolved : GsnsOf(batch'[r]) = GsnsOf(batch[r])
    BY <1>3, <2>1, FlushEffect, KeptSets DEF Unresolved
  <2>4. watermark' + 1 \notin resolved'
    BY <2>1 DEF FrontierExact
  <2>5. ASSUME NEW g \in (watermark' + 1)..counter'
        PROVE  g \in resolved' \/ \E r \in Unresolved' : g \in GsnsOf(batch'[r])
    <3>1. g \in (watermark + 1)..counter \/ g \in (counter + 1)..counter'
      BY <2>1, <2>5 DEF TypeOK
    <3>2. CASE g \in (counter + 1)..counter'
      BY <2>1, <2>2, <3>2
    <3>3. CASE g \in (watermark + 1)..counter
      BY <2>1, <2>3, <3>3 DEF FrontierExact
    <3> QED
      BY <3>1, <3>2, <3>3
  <2> QED
    BY <2>4, <2>5 DEF FrontierExact
<1>4. ASSUME NEW r \in Refs, CommitAck(r)
      PROVE  FrontierExact'
  <2>1. /\ WriterUp /\ ~Flush /\ {r} \in SUBSET Unresolved /\ counter' = counter
        /\ MarkResolved(UNION {GsnsOf(batch[q]) : q \in {r}})
    BY <1>4 DEF CommitAck, WriterUp, Flush, Unresolved, UnresolvedPhases
  <2>2. Unresolved' = Unresolved \ {r}
    BY <1>0, <1>4, UnresolvedStep
  <2>3. \A q \in Refs : ClaimKept(q)
    BY <1>0, <2>1, StepKeepsClaims
  <2> QED
    BY <2>1, <2>2, <2>3, MarkResolvedExact
<1>5. ASSUME NEW r \in Refs, NEW outcome, CommitFailed(r, outcome)
      PROVE  FrontierExact'
  <2>1. PICK X \in SUBSET Successors(r) : Abandon(r, X)
    BY <1>5 DEF CommitFailed
  <2>2. {r} \cup X \in SUBSET Unresolved /\ WriterUp /\ ~Flush /\ counter' = counter
    BY <1>5, <2>1 DEF CommitFailed, Successors, Unresolved, UnresolvedPhases, WriterUp, Flush
  <2>3. Unresolved' = Unresolved \ ({r} \cup X)
    BY <1>0, <2>1, UnresolvedStep
  <2>4. MarkResolved(UNION {GsnsOf(batch[q]) : q \in {r} \cup X})
    BY <2>1 DEF Abandon
  <2>5. \A q \in Refs : ClaimKept(q)
    BY <1>0, <2>2, StepKeepsClaims
  <2> QED
    BY <2>2, <2>3, <2>4, <2>5, MarkResolvedExact
<1>6. CASE WriterCrash \/ TreeCrash \/ SystemCacheInit \/ WatermarkInit
  BY <1>6 DEF WriterCrash, TreeCrash, SystemCacheInit, WatermarkInit, FrontierExact, WriterUp
<1>7. CASE WriterInit
  <2>1. watermark' <= counter' /\ resolved' \subseteq 1..counter'
    BY <1>7 DEF WriterInit, ClaimInv, FrontierBounded, WriterUp
  <2>2. /\ counter \in Nat /\ counter' \in Nat /\ watermark \in Nat /\ watermark' \in Nat
    BY DEF TypeOK
  <2>3. watermark' >= counter'
    <3>1. CASE MarkResolved((watermark + 1)..counter')
      <4>1. PICK m \in watermark..MaxGsn :
              /\ IsFrontier(watermark, resolved \cup ((watermark + 1)..counter'), m)
              /\ watermark' = m
        BY <3>1 DEF MarkResolved
      <4>2. m + 1 \notin (watermark + 1)..counter'
        BY <4>1 DEF IsFrontier
      <4> QED
        BY <2>2, <4>1, <4>2
    <3>2. CASE ~(counter' > watermark) /\ watermark' = watermark
      BY <2>2, <3>2
    <3> QED
      BY <1>7, <3>1, <3>2 DEF WriterInit
  <2>4. watermark' = counter'
    BY <2>1, <2>2, <2>3
  <2>5. watermark' + 1 \notin resolved'
    BY <2>1, <2>2, <2>4
  <2>6. \A g : g \notin (watermark' + 1)..counter'
    <3>1. \A n \in Nat : \A g : g \notin (n + 1)..n
      OBVIOUS
    <3> QED
      BY <2>2, <2>4, <3>1
  <2> QED
    BY <2>5, <2>6 DEF FrontierExact
<1> QED
  BY <1>2, <1>3, <1>4, <1>5, <1>6, <1>7
     DEF Next, CommitResult, CommitError, CommitTimeout, CommitResultLost, Restart

\* The frontier never moves back, except that a restarted WatermarkTracker
\* sets it anew.
LEMMA FrontierGrows ==
  ASSUME TypeOK, [Next]_vars, ~WatermarkInit
  PROVE  watermark <= watermark'
<1>1. watermark \in Nat
  BY DEF TypeOK
<1>2. \A G : MarkResolved(G) => watermark <= watermark'
  BY <1>1, ConstantsAssumption DEF MarkResolved
<1>3. ASSUME NEW r \in Refs, CommitFailed(r, "gone") \/ CommitFailed(r, "late")
      PROVE  watermark <= watermark'
  <2>1. PICK X : Abandon(r, X)
    BY <1>3 DEF CommitFailed
  <2> QED
    BY <1>2, <2>1 DEF Abandon
<1>4. CASE watermark' = watermark
  BY <1>1, <1>4
<1>5. ASSUME NEW r \in Refs, CommitAck(r)
      PROVE  watermark <= watermark'
  BY <1>2, <1>5 DEF CommitAck
<1>6. CASE WriterInit
  BY <1>2, <1>4, <1>6 DEF WriterInit
<1> QED
  BY <1>3, <1>4, <1>5, <1>6
     DEF Next, vars, seqVars, Submit, FlushNothingFresh, Flush, Committer, CommitterWrite,
         LateWrite, LateDrop, CommitResult, CommitError, CommitTimeout, CommitResultLost,
         ApplyOne, ApplyFails, FinishDrain, WriterCrash, TreeCrash, WriterDies, Restart,
         SystemCacheInit

\* When the oldest open batch is committed, the frontier has passed its range:
\* an unresolved claim at or below it would be an older open batch.
LEMMA OldestIsBehindFrontier ==
  ASSUME TypeOK, ClaimInv, PipelineInOrder, FrontierExact, WriterUp,
         NEW r \in Refs, IsOldestOpen(r), batch[r].phase = "committed"
  PROVE  batch[r].last <= watermark
<1> USE ConstantsAssumption
<1>1. /\ watermark \in Nat /\ counter \in Nat /\ batch[r] \in BatchType
      /\ \A q \in Refs : batch[q] \in BatchType
  BY DEF TypeOK
<1>2. \A b \in BatchType : b.first \in Nat /\ b.last \in Nat
  BY DEF BatchType
<1>3. batch[r].phase \in OpenPhases /\ batch[r].last <= counter
  BY DEF PipelineInOrder, OpenPhases
<1>4. SUFFICES ASSUME watermark < batch[r].last
               PROVE  FALSE
  BY <1>1, <1>2
<1>5. watermark + 1 \in (watermark + 1)..counter /\ watermark + 1 <= batch[r].last
  BY <1>1, <1>2, <1>3, <1>4
<1>6. PICK q \in Unresolved : watermark + 1 \in GsnsOf(batch[q])
  BY <1>5 DEF FrontierExact
<1>7. q \in Refs /\ q # r /\ batch[q].phase \in OpenPhases /\ batch[q].first <= watermark + 1
  BY <1>6 DEF Unresolved, UnresolvedPhases, OpenPhases, GsnsOf
<1>8. r < q
  BY <1>7 DEF IsOldestOpen, Refs
<1>9. batch[r].last < batch[q].first
  BY <1>3, <1>7, <1>8 DEF PipelineInOrder
<1> QED
  BY <1>1, <1>2, <1>5, <1>7, <1>9

\* Every step keeps the announcements in order, released and behind the
\* frontier.
LEMMA AnnouncedStep ==
  ASSUME TypeOK, TypeOK', ClaimInv, JobsMatchPhases, StoredStays, PipelineInOrder,
         FrontierExact, AnnouncedReleased, [Next]_vars
  PROVE  AnnouncedReleased'
<1> USE ConstantsAssumption
<1>0. RefsInOrder
  BY DEF ClaimInv
<1>1. /\ watermark \in Nat /\ watermark' \in Nat
      /\ notified \in Seq(Refs)
      /\ \A i \in DOMAIN notified : notified[i] \in Refs
  BY DEF TypeOK
<1>2. \A q \in Refs : batch[q].last \in Nat
  BY DEF TypeOK, BatchType
<1>3. \A i \in DOMAIN notified : batch[notified[i]].phase = "released"
  BY DEF AnnouncedReleased
<1>4. \A q \in Refs : batch[q].phase = "released" =>
        batch'[q].phase = "released" /\ batch'[q].last = batch[q].last
  BY <1>0, PhaseStep, StepKeepsClaims DEF UnresolvedPhases, OpenPhases, ClaimKept
<1>5. ASSUME notified' = notified,
             stage' \notin {"cache", "watermark"} =>
               stage \notin {"cache", "watermark"} /\ watermark <= watermark'
      PROVE  AnnouncedReleased'
  <2>1. ASSUME NEW i \in DOMAIN notified, stage' \notin {"cache", "watermark"}
        PROVE  batch'[notified[i]].last <= watermark'
    <3>1. batch[notified[i]].last <= watermark /\ watermark <= watermark'
      BY <1>5, <2>1 DEF AnnouncedReleased
    <3> QED
      BY <1>1, <1>2, <1>3, <1>4, <3>1
  <2> QED
    BY <1>1, <1>3, <1>4, <1>5, <2>1 DEF AnnouncedReleased
<1>6. ASSUME NEW r \in Refs, ApplyOne(r)
      PROVE  AnnouncedReleased'
  <2>1. /\ notified' = Append(notified, r) /\ WriterUp /\ IsOldestOpen(r)
        /\ batch[r].phase = "committed" /\ stage' = stage /\ watermark' = watermark
        /\ stage = "draining" /\ r \in Int
    BY <1>6 DEF ApplyOne, WriterUp, seqVars, Refs
  <2>2. batch[r].last <= watermark
    BY <2>1, OldestIsBehindFrontier
  <2>3. batch'[r].phase = "released" /\ batch'[r].last = batch[r].last
    <3>1. batch'[r].phase = "released"
      BY <1>6 DEF ApplyOne, TypeOK, BatchType
    <3>2. ClaimKept(r)
      BY <1>0, <2>1, StepKeepsClaims
    <3> QED
      BY <3>1, <3>2 DEF ClaimKept
  <2>4. \A i \in DOMAIN notified : notified[i] < r
    <3>1. ASSUME NEW i \in DOMAIN notified PROVE notified[i] < r
      <4>1. notified[i] \in Int /\ notified[i] # r
        BY <1>1, <1>3, <2>1 DEF Refs
      <4>2. ~(r < notified[i])
        BY <1>1, <1>3, <2>1 DEF PipelineInOrder, OpenPhases
      <4> QED
        BY <2>1, <4>1, <4>2
    <3> QED
      BY <3>1
  <2>5. /\ DOMAIN notified' = 1..(Len(notified) + 1) /\ DOMAIN notified = 1..Len(notified)
        /\ Len(notified) \in Nat
        /\ \A i \in DOMAIN notified : notified'[i] = notified[i]
        /\ notified'[Len(notified) + 1] = r
    BY <1>1, <2>1
  <2>6. ASSUME NEW i \in DOMAIN notified', NEW j \in DOMAIN notified', i < j
        PROVE  notified'[i] < notified'[j]
    <3>1. i \in DOMAIN notified
      BY <2>5, <2>6
    <3>2. j \in DOMAIN notified \/ j = Len(notified) + 1
      BY <2>5
    <3> QED
      BY <2>4, <2>5, <2>6, <3>1, <3>2 DEF AnnouncedReleased
  <2>7. ASSUME NEW i \in DOMAIN notified'
        PROVE  batch'[notified'[i]].phase = "released" /\ batch'[notified'[i]].last <= watermark'
    <3>1. CASE i \in DOMAIN notified
      <4>1. batch[notified[i]].last <= watermark
        BY <2>1, <3>1 DEF AnnouncedReleased
      <4> QED
        BY <1>1, <1>3, <1>4, <2>1, <2>5, <3>1, <4>1
    <3>2. CASE i = Len(notified) + 1
      BY <2>1, <2>2, <2>3, <2>5, <3>2
    <3> QED
      BY <2>5, <3>1, <3>2
  <2> QED
    BY <2>6, <2>7 DEF AnnouncedReleased
<1>7. CASE WatermarkInit
  <2>1. PICK max \in 0..MaxGsn : IsMaxGsn(max) /\ watermark' = max
    BY <1>7 DEF WatermarkInit
  <2>2. notified' = notified /\ batch' = batch
    BY <1>7 DEF WatermarkInit
  <2>3. ASSUME NEW i \in DOMAIN notified
        PROVE  batch[notified[i]].last <= watermark'
    <3>1. notified[i] \in durable /\ batch[notified[i]].first <= batch[notified[i]].last
      BY <1>1, <1>3 DEF JobsMatchPhases, PipelineInOrder
    <3>2. batch[notified[i]] \in BatchType
      BY <1>1 DEF TypeOK
    <3>3. /\ batch[notified[i]].last \in GsnsOf(batch[notified[i]])
          /\ batch[notified[i]].last \in Gsns
      BY <3>1, <3>2 DEF BatchType, GsnsOf, Gsns
    <3>4. log[batch[notified[i]].last] # 0
      BY <3>1, <3>3 DEF StoredStays
    <3> QED
      BY <2>1, <3>3, <3>4 DEF IsMaxGsn
  <2> QED
    BY <1>1, <1>3, <2>2, <2>3 DEF AnnouncedReleased
<1>8. ASSUME ~WatermarkInit, \A r \in Refs : ~ApplyOne(r)
      PROVE  /\ notified' = notified
             /\ stage' \notin {"cache", "watermark"} => stage \notin {"cache", "watermark"}
  BY <1>8 DEF Next, vars, seqVars, Submit, FlushNothingFresh, Flush, Committer, CommitterWrite,
              LateWrite, LateDrop, CommitResult, CommitAck, CommitError, CommitTimeout,
              CommitResultLost, CommitFailed, ApplyFails, FinishDrain, WriterCrash,
              TreeCrash, WriterDies, Restart, SystemCacheInit, WriterInit
<1> QED
  BY <1>5, <1>6, <1>7, <1>8, FrontierGrows

(***************************************************************************)
(* Scopes.  ScopesMatchClaims, one Mover at a time.                        *)
(***************************************************************************)
Live(q) == batch[q].phase \in LivePhases

AppliedExact(a) ==
  a \in applied <=> \E q \in Refs : batch[q].phase = "released" /\ a \in MoversOf(batch[q])

BasisExact(r, a) ==
  a \in batch[r].basis <=> \E q \in Refs : q < r /\ Live(q) /\ a \in MoversOf(batch[q])

ScopesExact ==
  /\ \A a : AppliedExact(a)
  /\ \A r \in Refs : Live(r) => \A a : BasisExact(r, a)

\* ScopesExact is ScopesMatchClaims.
LEMMA ScopesPointwise ==
  ScopesMatchClaims <=> (NothingLost => ScopesExact)
<1> DEFINE Rel == {p \in Refs : batch[p].phase = "released"}
           Before(r) == {p \in Refs : p < r /\ batch[p].phase \in LivePhases}
<1>1. applied = UNION {MoversOf(batch[q]) : q \in Rel} <=> \A a : AppliedExact(a)
  <2>1. \A a : a \in UNION {MoversOf(batch[q]) : q \in Rel} <=>
                 \E q \in Refs : batch[q].phase = "released" /\ a \in MoversOf(batch[q])
    OBVIOUS
  <2> QED
    BY <2>1 DEF AppliedExact
<1>2. ASSUME NEW r \in Refs
      PROVE  batch[r].basis = UNION {MoversOf(batch[q]) : q \in Before(r)} <=>
               \A a : BasisExact(r, a)
  <2>1. \A a : a \in UNION {MoversOf(batch[q]) : q \in Before(r)} <=>
                 \E q \in Refs : q < r /\ Live(q) /\ a \in MoversOf(batch[q])
    BY DEF Live
  <2> QED
    BY <2>1 DEF BasisExact
<1> QED
  BY <1>1, <1>2 DEF ScopesMatchClaims, ScopesExact, Live

\* A failed commit: the prepared successors are resolved against the caches
\* and the batches still open before them, the others keep their scopes.
LEMMA AbandonScopes ==
  ASSUME TypeOK, NEW r \in Refs, NEW X \in SUBSET Refs, Abandon(r, X), NEW q \in Refs
  PROVE  /\ batch[q].phase = "prepared" /\ q \notin {r} \cup X /\ q > r =>
              \A a : a \in batch'[q].basis <=>
                 \/ a \in applied
                 \/ \E p \in Refs : /\ p < q /\ batch'[p].phase \in OpenPhases
                                    /\ a \in MoversOf(batch'[p])
         /\ ~(batch[q].phase = "prepared" /\ q \notin {r} \cup X /\ q > r) =>
              batch'[q].basis = batch[q].basis
<1> DEFINE gone == {r} \cup X
           left == [p \in Refs |-> IF p \in gone
                                   THEN [batch[p] EXCEPT !.phase = "abandoned"]
                                   ELSE batch[p]]
<1>1. \A p \in Refs : batch[p] \in BatchType
  BY DEF TypeOK
<1>2. \A p \in Refs : /\ left[p].phase = IF p \in gone THEN "abandoned" ELSE batch[p].phase
                      /\ left[p].ids = batch[p].ids /\ left[p].basis = batch[p].basis
  BY <1>1 DEF BatchType
<1>3. batch'[q] = IF left[q].phase = "prepared" /\ q > r
                  THEN [left[q] EXCEPT !.basis = Resolution(left, q)] ELSE left[q]
  BY DEF Abandon
<1>4. \A p \in Refs : left[p] \in BatchType
  BY <1>1, PhaseType DEF Phases
<1>5. \A p \in Refs : /\ batch'[p].phase = left[p].phase
                      /\ MoversOf(batch'[p]) = MoversOf(left[p])
  BY <1>2, AbandonFrame DEF MoversOf, IdsOf
<1> HIDE DEF left
<1>6. \A a : a \in Resolution(left, q) <=>
                 \/ a \in applied
                 \/ \E p \in Refs : /\ p < q /\ left[p].phase \in OpenPhases
                                    /\ a \in MoversOf(left[p])
  BY DEF Resolution, OverlayBefore
<1>7. left[q].phase = "prepared" <=> batch[q].phase = "prepared" /\ q \notin {r} \cup X
  BY <1>2
<1>8. CASE left[q].phase = "prepared" /\ q > r
  <2>1. batch'[q].basis = Resolution(left, q)
    BY <1>3, <1>4, <1>8 DEF BatchType
  <2> QED
    BY <1>5, <1>6, <1>7, <1>8, <2>1
<1>9. CASE ~(left[q].phase = "prepared" /\ q > r)
  BY <1>2, <1>3, <1>7, <1>9
<1> QED
  BY <1>8, <1>9

\* A flush resolves the new batch against the caches, which hold the released
\* batches, and the open ones.
LEMMA FlushScopes ==
  ASSUME TypeOK, RefsInOrder, [Next]_vars, Flush,
         ScopesExact
  PROVE  ScopesExact'
<1>0. PICK n \in Refs : n = nextRef
  BY FlushEffect
<1>1. /\ applied' = applied /\ batch[n].phase = "none"
      /\ \A q \in Refs : q \in Int
  BY <1>0 DEF Flush, RefsInOrder, Refs
<1>2. \A q \in Refs : q # n =>
        /\ MoversOf(batch'[q]) = MoversOf(batch[q])
        /\ batch'[q].basis = batch[q].basis
  BY <1>0, FlushEffect, KeptSets
<1>3. \A q \in Refs : Live(q) => q < n
  BY <1>0, <1>1 DEF RefsInOrder, Live, LivePhases, OpenPhases
<1>4. ASSUME NEW q \in Refs, q # n
      PROVE  /\ Live(q)' <=> Live(q)
             /\ batch'[q].phase = "released" <=> batch[q].phase = "released"
  BY <1>0, <1>4, FlushEffect DEF Live, LivePhases, OpenPhases, Started
<1>5. batch'[n].phase # "released"
  BY <1>0, FlushEffect DEF UnresolvedPhases
<1>6. ASSUME NEW a
      PROVE  AppliedExact(a)'
  BY <1>1, <1>2, <1>4, <1>5 DEF ScopesExact, AppliedExact
<1>7. ASSUME NEW r \in Refs, Live(r)', NEW a, r # n
      PROVE  BasisExact(r, a)'
  <2>1. Live(r) /\ r < n /\ BasisExact(r, a)
    BY <1>3, <1>4, <1>7 DEF ScopesExact
  <2>2. \A q \in Refs : q < r => q # n
    BY <1>1, <2>1
  <2> QED
    BY <1>2, <1>4, <1>7, <2>1, <2>2 DEF BasisExact
<1>8. ASSUME NEW a
      PROVE  BasisExact(n, a)'
  <2>1. a \in batch'[n].basis <=>
          \/ a \in applied
          \/ \E q \in Refs : /\ q < n /\ batch[q].phase \in OpenPhases
                             /\ a \in MoversOf(batch[q])
    BY <1>0, FlushEffect DEF Resolution, OverlayBefore
  <2>2. a \in batch'[n].basis <=>
          \E q \in Refs : q < n /\ Live(q) /\ a \in MoversOf(batch[q])
    BY <1>3, <2>1 DEF ScopesExact, AppliedExact, Live, LivePhases
  <2>3. \A q \in Refs : q < n => q # n
    BY <1>1
  <2> QED
    BY <1>2, <1>4, <2>2, <2>3 DEF BasisExact
<1> QED
  BY <1>6, <1>7, <1>8 DEF ScopesExact

\* A failed commit takes its Movers out of every batch that was resolved
\* against them: only prepared successors were, and they are rebuilt.
LEMMA AbandonKeepsScopes ==
  ASSUME TypeOK, PipelineInOrder, NEW r \in Refs, NEW X \in SUBSET Successors(r),
         Abandon(r, X), batch[r].phase = "committing", applied' = applied,
         ScopesExact
  PROVE  ScopesExact'
<1> DEFINE gone == {r} \cup X
<1>1. /\ \A q \in Refs : q \in Int
      /\ X \in SUBSET Refs
      /\ \A q \in X : q > r /\ batch[q].phase = "prepared"
  <2>1. X \in SUBSET Refs /\ \A q \in X : q > r /\ batch[q].phase = "prepared"
    BY DEF Successors
  <2> QED
    BY <2>1 DEF Refs
<1>2. ASSUME NEW q \in Refs
      PROVE  /\ MoversOf(batch'[q]) = MoversOf(batch[q])
             /\ batch'[q].phase = IF q \in gone THEN "abandoned" ELSE batch[q].phase
  BY <1>1, AbandonFrame DEF MoversOf, IdsOf
<1>3. ASSUME NEW q \in Refs
      PROVE  /\ Live(q)' <=> Live(q) /\ q \notin gone
             /\ batch'[q].phase = "released" <=> batch[q].phase = "released"
             /\ batch'[q].phase \in OpenPhases => Live(q)'
  BY <1>1, <1>2 DEF Live, LivePhases, OpenPhases
<1>4. ASSUME NEW a
      PROVE  AppliedExact(a)'
  BY <1>2, <1>3 DEF ScopesExact, AppliedExact
<1>5. ASSUME NEW q \in Refs, Live(q)', NEW a
      PROVE  BasisExact(q, a)'
  <2>1. Live(q) /\ q \notin gone /\ BasisExact(q, a)
    BY <1>3, <1>5 DEF ScopesExact
  <2>2. CASE batch[q].phase = "prepared" /\ q > r
    <3>1. a \in batch'[q].basis <=>
            \/ a \in applied
            \/ \E p \in Refs : /\ p < q /\ batch'[p].phase \in OpenPhases
                               /\ a \in MoversOf(batch'[p])
      BY <1>1, <2>1, <2>2, AbandonScopes
    <3>2. ASSUME NEW p \in Refs, batch[p].phase = "released"
          PROVE  p < q
      BY <1>1, <2>2, <3>2 DEF PipelineInOrder, OpenPhases
    <3>3. a \in applied <=>
            \E p \in Refs : p < q /\ batch'[p].phase = "released" /\ a \in MoversOf(batch'[p])
      BY <1>2, <1>3, <3>2 DEF ScopesExact, AppliedExact
    <3> QED
      BY <3>1, <3>3 DEF BasisExact, Live, LivePhases
  <2>3. CASE ~(batch[q].phase = "prepared" /\ q > r)
    <3>1. batch'[q].basis = batch[q].basis
      BY <1>1, <2>3, AbandonScopes
    <3>2. ASSUME NEW p \in Refs, p < q, p \in gone
          PROVE  a \notin MoversOf(batch[p])
      <4>1. r < q /\ batch[q].phase # "prepared"
        BY <1>1, <2>1, <2>3, <3>2
      <4>2. batch[q].phase \in {"committing", "committed", "applying", "released"}
        BY <2>1, <4>1 DEF Live, LivePhases, OpenPhases
      <4>3. batch[p].phase # "prepared" /\ MoversOf(batch[r]) = {}
        BY <3>2, <4>1, <4>2 DEF PipelineInOrder
      <4> QED
        BY <1>1, <3>2, <4>3
    <3> QED
      BY <1>2, <1>3, <2>1, <3>1, <3>2 DEF BasisExact
  <2> QED
    BY <2>2, <2>3
<1> QED
  BY <1>4, <1>5 DEF ScopesExact

\* Every step keeps ScopesMatchClaims.
LEMMA ScopesStep ==
  ASSUME TypeOK, RefsInOrder, PipelineInOrder, ClaimedOnce, ScopesMatchClaims, [Next]_vars
  PROVE  ScopesMatchClaims'
<1>1. SUFFICES ASSUME NothingLost'
               PROVE  ScopesExact'
  <2>1. ScopesMatchClaims' <=> (NothingLost' => ScopesExact')
    BY ScopesPointwise, PTL
  <2> QED
    BY <2>1
<1>2. /\ NothingLost /\ WriterUp /\ ~WriterCrash /\ ~TreeCrash
      /\ \A r \in Refs : ~CommitTimeout(r) /\ ~CommitResultLost(r)
  BY <1>1, LostStays DEF ClaimedOnce
<1>3. ScopesExact
  BY <1>2, ScopesPointwise
<1>4. ASSUME applied' = applied, ~Flush,
             \A q \in Refs : /\ batch'[q].basis = batch[q].basis
                             /\ Live(q)' <=> Live(q)
                             /\ batch'[q].phase = "released" <=> batch[q].phase = "released"
      PROVE  ScopesExact'
  <2>1. \A q \in Refs : MoversOf(batch'[q]) = MoversOf(batch[q])
    BY <1>4, StepKeepsClaims, KeptSets
  <2> QED
    BY <1>3, <1>4, <2>1 DEF ScopesExact, AppliedExact, BasisExact
<1>5. CASE UNCHANGED <<batch, applied>>
  BY <1>3, <1>5 DEF ScopesExact, AppliedExact, BasisExact, Live
<1>6. CASE Flush
  BY <1>3, <1>6, FlushScopes
<1>7. CASE FinishDrain
  <2>1. batch \in [Refs -> BatchType] /\ StartNextCommit(batch, job) /\ applied' = applied
    BY <1>7 DEF FinishDrain, TypeOK
  <2>2. ~Flush
    BY <1>7 DEF FinishDrain, Flush
  <2>3. ASSUME NEW q \in Refs
        PROVE  /\ batch'[q].basis = batch[q].basis
               /\ \/ batch'[q].phase = batch[q].phase
                  \/ batch[q].phase = "prepared" /\ batch'[q].phase = "committing"
    BY <2>1, StartEffect DEF Started
  <2> QED
    BY <1>4, <2>1, <2>2, <2>3 DEF Live, LivePhases, OpenPhases
<1>8. ASSUME NEW r \in Refs, CommitAck(r) \/ ApplyFails(r)
      PROVE  ScopesExact'
  <2>1. PICK p \in {"committed", "applying"} : batch' = [batch EXCEPT ![r].phase = p]
    BY <1>8 DEF CommitAck, ApplyFails
  <2>2. /\ applied' = applied /\ ~Flush /\ p \in Phases
        /\ batch[r].phase \in {"committing", "committed"}
    BY <1>8, <2>1 DEF CommitAck, ApplyFails, Flush, Phases
  <2>3. \A q \in Refs : /\ batch'[q].basis = batch[q].basis
                        /\ batch'[q].phase = IF q = r THEN p ELSE batch[q].phase
    BY <2>1, <2>2, PhaseEffect
  <2> QED
    BY <1>4, <2>1, <2>2, <2>3 DEF Live, LivePhases, OpenPhases
<1>9. ASSUME NEW r \in Refs, ApplyOne(r)
      PROVE  ScopesExact'
  <2>1. batch' = [batch EXCEPT ![r].phase = "released"] /\ "released" \in Phases
    BY <1>9 DEF ApplyOne, Phases
  <2>2. applied' = applied \cup MoversOf(batch[r]) /\ batch[r].phase = "committed"
    BY <1>9 DEF ApplyOne
  <2>3. \A q \in Refs : /\ batch'[q].basis = batch[q].basis
                        /\ batch'[q].phase = IF q = r THEN "released" ELSE batch[q].phase
                        /\ MoversOf(batch'[q]) = MoversOf(batch[q])
    BY <2>1, PhaseEffect, KeptSets
  <2>4. \A q \in Refs : Live(q)' <=> Live(q)
    BY <2>2, <2>3 DEF Live, LivePhases, OpenPhases
  <2>5. ASSUME NEW a PROVE AppliedExact(a)'
    BY <1>3, <2>2, <2>3 DEF ScopesExact, AppliedExact
  <2> QED
    BY <1>3, <2>3, <2>4, <2>5 DEF ScopesExact, BasisExact
<1>10. ASSUME NEW r \in Refs, CommitError(r)
       PROVE  ScopesExact'
  <2>1. PICK X \in SUBSET Successors(r) : Abandon(r, X)
    BY <1>10 DEF CommitError, CommitFailed
  <2>2. batch[r].phase = "committing" /\ applied' = applied
    BY <1>10 DEF CommitError, CommitFailed
  <2> QED
    BY <1>3, <2>1, <2>2, AbandonKeepsScopes
<1> QED
  BY <1>2, <1>5, <1>6, <1>7, <1>8, <1>9, <1>10
     DEF Next, vars, Submit, FlushNothingFresh, Committer, CommitterWrite, LateWrite, LateDrop,
         CommitResult, Restart, SystemCacheInit, WatermarkInit, WriterInit, WriterUp

\* What is durable is live, past the prepared phase, and nothing before it can
\* still fail with Movers: so the live batches with Movers below it are the
\* durable ones.
LEMMA ScopesFromClaims ==
  ASSUME JobsMatchPhases, ClaimedOnce, PipelineInOrder, ScopesMatchClaims, TypeOK
  PROVE  ScopesMatchLog
<1>1. SUFFICES ASSUME NothingLost, NEW r \in durable
               PROVE  batch[r].basis =
                        UNION {MoversOf(batch[q]) : q \in {p \in durable : p < r}}
  BY DEF ScopesMatchLog
<1>2. ASSUME NEW q \in durable
      PROVE  /\ q \in Refs
             /\ batch[q].phase \in {"committing", "committed", "applying", "released"}
  BY <1>1 DEF ClaimedOnce, JobsMatchPhases, TypeOK
<1>3. \A q \in durable : Live(q)
  BY <1>2 DEF Live, LivePhases, OpenPhases
<1>4. ASSUME NEW q \in Refs, q < r, Live(q), NEW a \in MoversOf(batch[q])
      PROVE  q \in durable
  <2>1. batch[q].phase \notin {"prepared", "committing"}
    BY <1>2, <1>4 DEF PipelineInOrder
  <2> QED
    BY <1>4, <2>1 DEF JobsMatchPhases, Live, LivePhases, OpenPhases
<1>5. ASSUME NEW a
      PROVE  a \in batch[r].basis <=> \E q \in durable : q < r /\ a \in MoversOf(batch[q])
  <2>1. BasisExact(r, a)
    BY <1>1, <1>2, <1>3, ScopesPointwise DEF ScopesExact
  <2> QED
    BY <1>2, <1>3, <1>4, <2>1 DEF BasisExact
<1> QED
  BY <1>5

\* Everything the proofs of this module maintain.
PathInv == TypeOK /\ ClaimInv /\ IssueInv /\ AckInv /\ RetryInv /\ OrderInv

\* It holds of the empty storage ...
LEMMA PathInit ==
  ASSUME Init
  PROVE  PathInv
<1>1. /\ TypeOK /\ ClaimInv /\ IssueInv /\ AckInv /\ Unresolved = {}
      /\ \A r \in Refs : batch[r].phase = "none"
  BY InitEmpty
<1>2. RetryInv
  BY <1>1 DEF Init, RetryInv, GuardMatchesOpenClaims, ClaimedOnce, WriterUp
<1>3. PipelineInOrder /\ AnnouncedReleased
  BY <1>1 DEF Init, PipelineInOrder, AnnouncedReleased, OpenPhases, Refs
<1>4. FrontierExact
  BY DEF Init, FrontierExact
<1>5. ScopesMatchClaims
  BY <1>1 DEF Init, ScopesMatchClaims, LivePhases, OpenPhases
<1> QED
  BY <1>1, <1>2, <1>3, <1>4, <1>5 DEF PathInv, OrderInv

\* ... and every step keeps it.
LEMMA PathStep ==
  ASSUME PathInv, [Next]_vars
  PROVE  PathInv'
<1>1. TypeOK' /\ ClaimInv' /\ IssueInv' /\ AckInv'
  BY AckStep DEF PathInv
<1>2. RetryInv'
  BY GuardStep, OnceStep DEF PathInv, ClaimInv, AckInv, RetryInv
<1>3. PipelineInOrder' /\ FrontierExact'
  BY <1>1, PipelineStep, ExactStep DEF PathInv, ClaimInv, OrderInv
<1>4. AnnouncedReleased'
  BY <1>1, AnnouncedStep DEF PathInv, AckInv, OrderInv
<1>5. ScopesMatchClaims'
  BY ScopesStep DEF PathInv, ClaimInv, RetryInv, OrderInv
<1> QED
  BY <1>1, <1>2, <1>3, <1>4, <1>5 DEF PathInv, OrderInv

\* The Router is told of durable ranges only, in claim order, behind the
\* frontier; and, if no commit outcome was lost, the scopes stored with a batch
\* were resolved against exactly the Movers durable below it.
THEOREM AnnouncedInOrder == Spec => []CommittedInOrder
<1>1. PathInv => CommittedInOrder
  <2> SUFFICES ASSUME PathInv PROVE CommittedInOrder
    OBVIOUS
  <2>1. ScopesMatchLog
    BY ScopesFromClaims DEF PathInv, AckInv, RetryInv, OrderInv
  <2>2. \A i \in DOMAIN notified : notified[i] \in Refs
    BY DEF PathInv, TypeOK
  <2>3. NotifiedInClaimOrder
    BY <2>2 DEF PathInv, NotifiedInClaimOrder, OrderInv, AnnouncedReleased, AckInv, JobsMatchPhases,
                WriterUp
  <2> QED
    BY <2>1, <2>3 DEF CommittedInOrder
<1> QED
  BY <1>1, PathInit, PathStep, PTL DEF Spec

(***************************************************************************)
(* The write path implements the commit feed, as long as the storage tree  *)
(* stays up: each step of WritePath is a step of CommitFeed on the claims' *)
(* view, or leaves that view alone.                                        *)
(***************************************************************************)

\* The variables of the feed, as the write path sees them.
ViewKept ==
  UNCHANGED <<WriterUp, counter, watermark, ClaimView, durable, crashes>>

\* What the view shows of a batch.
LEMMA ViewOf ==
  ASSUME NEW r \in Refs
  PROVE  /\ ClaimView[r].first = batch[r].first
         /\ ClaimView[r].last = batch[r].last
         /\ ClaimView[r].state = StateOf(batch[r].phase)
BY DEF ClaimView

\* The states of the view are the phases of the pipeline, put together.
LEMMA StateMeans ==
  ASSUME NEW p \in Phases
  PROVE  /\ StateOf(p) = "none" <=> p = "none"
         /\ StateOf(p) = "open" <=> p \in UnresolvedPhases
         /\ StateOf(p) = "acked" <=> p \in {"committed", "applying"}
         /\ StateOf(p) = "released" <=> p = "released"
         /\ StateOf(p) = "dropped" <=> p \in {"abandoned", "orphaned"}
         /\ StateOf(p) \in {"open", "acked"} <=> p \in OpenPhases
BY DEF StateOf, Phases, UnresolvedPhases, OpenPhases

\* A step that keeps every claim and every state keeps the view; one that
\* changes the states of some changes it there.
LEMMA ViewMoves ==
  ASSUME NEW R, NEW s,
         \A q \in Refs : ClaimKept(q),
         \A q \in Refs : StateOf(batch'[q].phase) =
                           IF q \in R THEN s ELSE StateOf(batch[q].phase)
  PROVE  ClaimView' = [q \in Refs |-> IF q \in R THEN [ClaimView[q] EXCEPT !.state = s]
                                                 ELSE ClaimView[q]]
<1>1. ASSUME NEW q \in Refs
      PROVE  ClaimView'[q] = IF q \in R THEN [ClaimView[q] EXCEPT !.state = s]
                                        ELSE ClaimView[q]
  BY DEF ClaimView, ClaimKept
<1> QED
  BY <1>1 DEF ClaimView

\* The frontier of a running Writer is the one the feed asks for.
Resolved == Feed!IsResolvedUpTo(ClaimView, counter, watermark)

LEMMA FrontierIsResolved ==
  TypeOK /\ ClaimInv /\ FrontierExact /\ WriterUp => Resolved
<1> SUFFICES ASSUME TypeOK, ClaimInv, FrontierExact, WriterUp
             PROVE  Resolved
  OBVIOUS
<1>1. /\ watermark \in Nat /\ counter \in Nat /\ watermark <= counter
      /\ \A r \in Refs : batch[r] \in BatchType /\ batch[r].phase \in Phases
  <2>1. watermark \in Nat /\ counter \in Nat /\ batch \in [Refs -> BatchType]
    BY ConstantsAssumption DEF TypeOK
  <2>2. watermark <= counter
    BY DEF ClaimInv, FrontierBounded
  <2> QED
    BY <2>1, <2>2 DEF BatchType
<1>2. \A r \in Refs : ClaimView[r].state = "open" <=> r \in Unresolved
  <2>1. \A r \in Refs : StateOf(batch[r].phase) = "open" <=> batch[r].phase \in UnresolvedPhases
    BY <1>1, StateMeans
  <2> QED
    BY <2>1, ViewOf DEF Unresolved
<1>3. ASSUME NEW r \in Refs, ClaimView[r].state = "open"
      PROVE  watermark < ClaimView[r].first
  BY <1>2, <1>3, ViewOf DEF ClaimInv, OpenClaimsApart
<1>4. ASSUME watermark < counter
      PROVE  \E r \in Refs : ClaimView[r].state = "open" /\ ClaimView[r].first = watermark + 1
  <2>1. PICK r \in Unresolved : watermark + 1 \in GsnsOf(batch[r])
    BY <1>1, <1>4 DEF FrontierExact
  <2>2. r \in Refs /\ watermark < batch[r].first /\ batch[r].first <= watermark + 1
    BY <2>1 DEF Unresolved, ClaimInv, OpenClaimsApart, GsnsOf
  <2>3. batch[r].first \in Nat
    BY <1>1, <2>2 DEF BatchType
  <2>4. batch[r].first = watermark + 1
    BY <1>1, <2>2, <2>3
  <2> QED
    BY <1>2, <2>1, <2>2, <2>4, ViewOf
<1> QED
  BY <1>1, <1>3, <1>4 DEF Resolved, Feed!IsResolvedUpTo, Feed!Refs, Refs

\* Steps of the feed that move claims: the watermark follows.
LEMMA MoveOf ==
  ASSUME PathInv, PathInv', WriterUp', counter' = counter, NEW R, NEW s,
         \A q \in Refs : ClaimKept(q),
         \A q \in Refs : StateOf(batch'[q].phase) =
                           IF q \in R THEN s ELSE StateOf(batch[q].phase)
  PROVE  Feed!Move(R, s)
<1>1. ClaimView' = [q \in Refs |-> IF q \in R THEN [ClaimView[q] EXCEPT !.state = s]
                                              ELSE ClaimView[q]]
  BY ViewMoves, SMTT(30)
<1>2. Resolved'
  <2>1. (TypeOK /\ ClaimInv /\ FrontierExact /\ WriterUp)' => Resolved'
    BY FrontierIsResolved, PTL
  <2> QED
    BY <2>1 DEF PathInv, OrderInv
<1>3. watermark' \in 0..MaxGsn
  BY DEF PathInv, TypeOK
<1>4. Feed!IsResolvedUpTo(ClaimView', counter, watermark')
  BY <1>2 DEF Resolved, Feed!IsResolvedUpTo
<1> QED
  BY <1>1, <1>3, <1>4 DEF Feed!Move, Feed!Refs, Refs

\* A flush is a claim of the feed.
LEMMA FlushClaimsInFeed ==
  ASSUME PathInv, PathInv', [Next]_vars, Flush
  PROVE  \E r \in Feed!Refs, n \in 1..Cardinality(Actions) : Feed!Claim(r, n)
<1> DEFINE n == Cardinality(FreshIds)
<1>0. PICK r \in Refs : r = nextRef
  BY FlushEffect DEF PathInv
<1>1. TypeOK /\ RefsInOrder /\ PipelineInOrder
  BY DEF PathInv, ClaimInv, OrderInv
<1>2. n \in 1..Cardinality(Actions)
  <2>1. n \in Nat /\ n >= 1 /\ FreshIds \subseteq Actions
    BY <1>1, FreshIdsFinite DEF Flush
  <2>2. Cardinality(Actions) \in Nat /\ n <= Cardinality(Actions)
    BY <2>1, FS_Subset, FS_CardinalityType, ConstantsAssumption
  <2> QED
    BY <2>1, <2>2
<1>3. /\ counter' = counter + n /\ counter + n <= MaxGsn
      /\ WriterUp /\ WriterUp' /\ watermark' = watermark /\ durable' = durable
      /\ crashes' = crashes
  BY DEF Flush, WriterUp, diskVars, budgets
<1>4. \A q \in Refs : batch[q].phase \in Phases /\ batch'[q].phase \in Phases
  BY DEF PathInv, TypeOK, BatchType
<1>5. \A q \in Refs : /\ ClaimView[q].state = "none" <=> batch[q].phase = "none"
                      /\ ClaimView[q].state \in {"open", "acked"} <=> batch[q].phase \in OpenPhases
  <2>1. \A q \in Refs :
          /\ StateOf(batch[q].phase) = "none" <=> batch[q].phase = "none"
          /\ StateOf(batch[q].phase) \in {"open", "acked"} <=> batch[q].phase \in OpenPhases
    BY <1>4, StateMeans
  <2> QED
    BY <2>1, ViewOf
<1>6. /\ ClaimView[r].state = "none"
      /\ \A q \in Refs : q < r => ClaimView[q].state # "none"
  BY <1>0, <1>1, <1>5 DEF RefsInOrder, PipelineInOrder, Refs
<1>7. Cardinality({q \in Refs : ClaimView[q].state \in {"open", "acked"}}) < MaxInFlight
  <2>1. {q \in Refs : ClaimView[q].state \in {"open", "acked"}}
          = {q \in Refs : batch[q].phase \in OpenPhases}
    BY <1>5
  <2>2. Cardinality({q \in Refs : batch[q].phase \in OpenPhases}) \in Nat
    BY RefSetFinite
  <2>3. ~(Cardinality({q \in Refs : batch[q].phase \in OpenPhases}) >= MaxInFlight)
    BY DEF Flush, AtCapacity
  <2> DEFINE card == Cardinality({q \in Refs : batch[q].phase \in OpenPhases})
  <2>4. card < MaxInFlight
    <3> HIDE DEF card
    <3>1. card \in Nat /\ ~(card >= MaxInFlight) /\ MaxInFlight \in Nat
      BY <2>2, <2>3, ConstantsAssumption DEF card
    <3> QED
      BY <3>1
  <2> QED
    BY <2>1, <2>4
<1>8. ClaimView' = [ClaimView EXCEPT ![r] = [first |-> counter + 1, last |-> counter + n,
                                             state |-> "open"]]
  <2>1. /\ batch'[r].first = counter + 1 /\ batch'[r].last = counter + n
        /\ batch'[r].phase \in UnresolvedPhases
    BY <1>0, <1>1, <1>3, FlushEffect
  <2>2. ASSUME NEW q \in Refs, q # r
        PROVE  /\ ClaimKept(q)
               /\ StateOf(batch'[q].phase) = StateOf(batch[q].phase)
    BY <1>0, <1>1, <2>2, FlushEffect DEF Started, StateOf, UnresolvedPhases
  <2>3. ASSUME NEW q \in Refs
        PROVE  ClaimView'[q] = IF q = r THEN [first |-> counter + 1, last |-> counter + n,
                                              state |-> "open"]
                                        ELSE ClaimView[q]
    BY <1>4, <2>1, <2>2, StateMeans DEF ClaimView, ClaimKept
  <2> HIDE DEF n
  <2> QED
    BY <2>3 DEF ClaimView
<1>9. Feed!Claim(r, n)
  <2>1. Feed!Cardinality({q \in Feed!Refs : Feed!Held(q)}) < MaxInFlight
    BY <1>7 DEF Feed!Held, Feed!Refs, Refs, Feed!Cardinality, Cardinality
  <2> QED
    BY <1>3, <1>6, <2>1, <1>8 DEF Feed!Claim, Feed!Refs, Refs
<1> QED
  BY <1>2, <1>9 DEF Feed!Refs, Refs

\* A failed commit is a drop of the feed.
LEMMA FailureDropsInFeed ==
  ASSUME PathInv, PathInv', [Next]_vars, NEW r \in Refs, NEW outcome, CommitFailed(r, outcome)
  PROVE  \E R \in SUBSET Feed!Refs : Feed!Drop(r, R)
<1>1. PICK X \in SUBSET Successors(r) : Abandon(r, X)
  BY DEF CommitFailed
<1> DEFINE R == {r} \cup X
<1>2. /\ TypeOK /\ RefsInOrder /\ WriterUp /\ WriterUp'
      /\ counter' = counter /\ durable' = durable /\ crashes' = crashes
      /\ batch[r].phase = "committing" /\ ~Flush
  BY DEF PathInv, ClaimInv, CommitFailed, WriterUp, diskVars, Flush
<1>3. /\ X \in SUBSET Refs
      /\ \A q \in X : q > r /\ batch[q].phase = "prepared"
  BY DEF Successors
<1>4. \A q \in Refs : batch[q].phase \in Phases
  BY <1>2 DEF TypeOK, BatchType
<1>5. ASSUME NEW q \in Refs
      PROVE  ClaimKept(q) /\ StateOf(batch'[q].phase) =
                               IF q \in R THEN "dropped" ELSE StateOf(batch[q].phase)
  <2>1. /\ ClaimKept(q)
        /\ batch'[q].phase = IF q \in R THEN "abandoned" ELSE batch[q].phase
    BY <1>1, <1>2, <1>3, AbandonFrame DEF ClaimKept
  <2>2. StateOf("abandoned") = "dropped"
    BY StateMeans DEF Phases
  <2> QED
    BY <2>1, <2>2
<1>6. Feed!Move(R, "dropped")
  BY <1>2, <1>5, MoveOf
<1>7. ASSUME NEW q \in R
      PROVE  r <= q /\ ClaimView[q].state = "open"
  <2>1. q \in Refs /\ batch[q].phase \in UnresolvedPhases /\ r <= q
    <3>1. CASE q = r
      BY <1>2, <3>1 DEF UnresolvedPhases, Refs
    <3>2. CASE q \in X
      BY <1>3, <3>2 DEF UnresolvedPhases, Refs
    <3> QED
      BY <3>1, <3>2
  <2>2. StateOf(batch[q].phase) = "open"
    BY <1>4, <2>1, StateMeans
  <2> QED
    BY <2>1, <2>2, ViewOf
<1>8. Feed!Drop(r, R)
  BY <1>2, <1>6, <1>7 DEF Feed!Drop
<1>9. R \in SUBSET Feed!Refs
  BY <1>3 DEF Feed!Refs, Refs
<1> QED
  BY <1>8, <1>9

\* Steps that keep every claim and every state, and nothing else of the feed,
\* are stuttering steps of it.
LEMMA Stutters ==
  ASSUME PathInv, [Next]_vars, ~Flush, WriterUp' <=> WriterUp,
         UNCHANGED <<counter, watermark, durable, crashes>>,
         \A q \in Refs : StateOf(batch'[q].phase) = StateOf(batch[q].phase)
  PROVE  UNCHANGED Feed!feedVars
<1>1. \A q \in Refs : ClaimKept(q)
  BY StepKeepsClaims DEF PathInv, ClaimInv
<1>2. ClaimView' = ClaimView
  BY <1>1 DEF ClaimView, ClaimKept
<1>3. WriterUp' = WriterUp
  BY DEF WriterUp
<1> QED
  BY <1>2, <1>3 DEF Feed!feedVars

\* Every step with the storage tree up is a step of the feed, or stutters.
LEMMA FeedStep ==
  ASSUME PathInv, PathInv', treeCrashes = 0, treeCrashes' = 0, [Next]_vars
  PROVE  [Feed!FeedNext]_(Feed!feedVars)
<1>1. /\ TypeOK /\ RefsInOrder /\ ClaimInv' /\ JobsMatchPhases /\ FrontierExact'
      /\ stage \notin {"cache", "watermark"} /\ Feed!Refs = Refs
      /\ \A q \in Refs : batch[q].phase \in Phases /\ q \in Int
  <2>1. \A q \in Refs : batch[q].phase \in Phases
    BY DEF PathInv, TypeOK, BatchType
  <2> QED
    BY <2>1 DEF PathInv, ClaimInv, AckInv, IssueInv, OrderInv, Feed!Refs, Refs
<1>2. ~TreeCrash /\ ~SystemCacheInit /\ ~WatermarkInit
  BY <1>1 DEF TreeCrash, SystemCacheInit, WatermarkInit
<1>3. CASE \/ UNCHANGED vars
           \/ \E c \in Calls, A \in CallSets : Submit(c, A)
           \/ FlushNothingFresh
           \/ \E r \in Refs : LateDrop(r)
  <2>1. /\ UNCHANGED <<stage, counter, watermark, durable, crashes, batch>>
        /\ ~Flush
    BY <1>3 DEF vars, seqVars, diskVars, budgets, Submit, FlushNothingFresh, LateDrop, Flush
  <2> QED
    BY <2>1, Stutters DEF WriterUp
<1>4. CASE Flush
  BY <1>4, FlushClaimsInFeed DEF Feed!FeedNext
<1>5. CASE FinishDrain
  <2>1. /\ batch \in [Refs -> BatchType] /\ StartNextCommit(batch, job)
        /\ UNCHANGED <<counter, watermark, durable, crashes>>
        /\ WriterUp' /\ WriterUp /\ ~Flush
    BY <1>1, <1>5 DEF FinishDrain, TypeOK, seqVars, diskVars, budgets, WriterUp, Flush
  <2>2. ASSUME NEW q \in Refs
        PROVE  \/ batch'[q].phase = batch[q].phase
               \/ batch[q].phase = "prepared" /\ batch'[q].phase = "committing"
    BY <2>1, StartEffect DEF Started
  <2>3. StateOf("prepared") = StateOf("committing")
    BY StateMeans DEF Phases, UnresolvedPhases
  <2> QED
    BY <2>1, <2>2, <2>3, Stutters
<1>6. ASSUME NEW r \in Refs, CommitterWrite(r) \/ LateWrite(r)
      PROVE  Feed!Store(r)
  <2>1. /\ durable' = durable \cup {r} /\ r \notin durable
        /\ batch[r].phase \in {"committing", "abandoned", "orphaned"}
        /\ UNCHANGED <<stage, counter, watermark, crashes, batch>>
    BY <1>1, <1>6 DEF CommitterWrite, LateWrite, WriteBatch, JobsMatchPhases, seqVars, budgets
  <2>2. StateOf(batch[r].phase) \in {"open", "dropped"}
    BY <1>1, <2>1, StateMeans DEF UnresolvedPhases
  <2>3. ClaimView' = ClaimView /\ WriterUp' = WriterUp
    BY <2>1 DEF ClaimView, WriterUp
  <2>4. ClaimView[r].state \in {"open", "dropped"}
    BY <2>2, ViewOf
  <2> QED
    BY <2>1, <2>3, <2>4 DEF Feed!Store
<1>7. ASSUME NEW r \in Refs, CommitAck(r)
      PROVE  Feed!Ack(r)
  <2>1. /\ WriterUp /\ WriterUp' /\ r \in durable /\ ~Flush /\ batch[r].phase = "committing"
        /\ UNCHANGED <<counter, durable, crashes>>
    BY <1>1, <1>7 DEF CommitAck, WriterUp, JobsMatchPhases, Flush, diskVars, budgets
  <2>2. batch' = [batch EXCEPT ![r].phase = "committed"] /\ "committed" \in Phases
    BY <1>7 DEF CommitAck, Phases
  <2>3. \A q \in Refs : ClaimKept(q) /\ batch'[q].phase = IF q = r THEN "committed"
                                                                  ELSE batch[q].phase
    BY <1>1, <2>2, PhaseEffect
  <2>4. StateOf("committed") = "acked" /\ StateOf("committing") = "open"
    BY StateMeans DEF Phases, UnresolvedPhases
  <2>5. Feed!Move({r}, "acked")
    BY <2>1, <2>3, <2>4, MoveOf
  <2>6. ClaimView[r].state = "open"
    BY <2>1, <2>4, ViewOf
  <2> QED
    BY <2>1, <2>5, <2>6 DEF Feed!Ack
<1>8. ASSUME NEW r \in Refs, ApplyOne(r)
      PROVE  Feed!Release(r)
  <2>1. /\ WriterUp /\ WriterUp' /\ ~Flush /\ batch[r].phase = "committed"
        /\ UNCHANGED <<counter, durable, crashes>>
        /\ \A q \in Refs : q < r => batch[q].phase \notin OpenPhases
    BY <1>8 DEF ApplyOne, IsOldestOpen, WriterUp, Flush, seqVars, diskVars, budgets
  <2>2. batch' = [batch EXCEPT ![r].phase = "released"] /\ "released" \in Phases
    BY <1>8 DEF ApplyOne, Phases
  <2>3. \A q \in Refs : ClaimKept(q) /\ batch'[q].phase = IF q = r THEN "released"
                                                                  ELSE batch[q].phase
    BY <1>1, <2>2, PhaseEffect
  <2>4. StateOf("committed") = "acked" /\ StateOf("released") = "released"
    BY StateMeans DEF Phases, UnresolvedPhases
  <2>5. Feed!Move({r}, "released")
    BY <2>1, <2>3, <2>4, MoveOf
  <2>6. ClaimView[r].state = "acked"
    BY <2>1, <2>4, ViewOf
  <2>7. ASSUME NEW q \in Refs, q < r
        PROVE  ClaimView[q].state \notin {"open", "acked"}
    <3>1. StateOf(batch[q].phase) \notin {"open", "acked"}
      BY <1>1, <2>1, <2>7, StateMeans
    <3> QED
      BY <3>1, ViewOf
  <2> QED
    BY <1>1, <2>1, <2>5, <2>6, <2>7 DEF Feed!Release, Feed!Held
<1>9. ASSUME NEW r \in Refs, ApplyFails(r)
      PROVE  UNCHANGED Feed!feedVars
  <2>1. /\ WriterUp /\ WriterUp' /\ ~Flush /\ batch[r].phase = "committed"
        /\ UNCHANGED <<counter, watermark, durable, crashes>>
    BY <1>9 DEF ApplyFails, WriterUp, Flush, seqVars, diskVars, budgets
  <2>2. batch' = [batch EXCEPT ![r].phase = "applying"] /\ "applying" \in Phases
    BY <1>9 DEF ApplyFails, Phases
  <2>3. \A q \in Refs : batch'[q].phase = IF q = r THEN "applying" ELSE batch[q].phase
    BY <1>1, <2>2, PhaseEffect
  <2>4. StateOf("committed") = StateOf("applying")
    BY StateMeans DEF Phases
  <2> QED
    BY <2>1, <2>3, <2>4, Stutters
<1>10. CASE WriterCrash
  <2>1. /\ WriterUp /\ ~WriterUp' /\ crashes < MaxCrashes /\ crashes' = crashes + 1
        /\ UNCHANGED <<counter, watermark, durable>> /\ WriterDies
    BY <1>10 DEF WriterCrash, WriterDies, WriterUp, seqVars, diskVars
  <2>2. ASSUME NEW q \in Refs
        PROVE  /\ ClaimKept(q)
               /\ batch'[q].phase = IF batch[q].phase \in OpenPhases THEN "orphaned"
                                                                     ELSE batch[q].phase
    BY <1>1, <2>1, DiesEffect
  <2>3. ASSUME NEW q \in Refs
        PROVE  Feed!Held(q) <=> batch[q].phase \in OpenPhases
    <3>1. StateOf(batch[q].phase) \in {"open", "acked"} <=> batch[q].phase \in OpenPhases
      BY <1>1, StateMeans
    <3> QED
      BY <3>1, ViewOf DEF Feed!Held
  <2>4. StateOf("orphaned") = "dropped"
    BY StateMeans DEF Phases
  <2>5. PICK R : R = {q \in Refs : batch[q].phase \in OpenPhases}
    OBVIOUS
  <2>6. \A q \in Refs : StateOf(batch'[q].phase) =
                          IF q \in R THEN "dropped" ELSE StateOf(batch[q].phase)
    BY <2>2, <2>4, <2>5
  <2>7. ClaimView' = [q \in Refs |-> IF q \in R THEN [ClaimView[q] EXCEPT !.state = "dropped"]
                                                ELSE ClaimView[q]]
    BY <2>2, <2>6, ViewMoves
  <2>8. ClaimView' = [q \in Refs |-> IF Feed!Held(q)
                                     THEN [ClaimView[q] EXCEPT !.state = "dropped"]
                                     ELSE ClaimView[q]]
    BY <2>3, <2>7, <2>5
  <2>9. WriterUp' = FALSE
    BY <2>1 DEF WriterUp
  <2>10. Feed!WriterCrash
    BY <1>1, <2>1, <2>8, <2>9 DEF Feed!WriterCrash
  <2> QED
    BY <2>10 DEF Feed!FeedNext
<1>11. CASE WriterInit
  <2>1. /\ ~WriterUp /\ WriterUp' /\ UNCHANGED <<batch, durable, crashes>>
    BY <1>11 DEF WriterInit, WriterUp, diskVars, budgets
  <2>2. counter \in Nat /\ watermark' \in Nat
    BY DEF PathInv, TypeOK
  <2>3. counter' = counter
    <3>1. PICK max \in 0..MaxGsn :
            /\ IsMaxGsn(max)
            /\ counter' = IF max > counter THEN max ELSE counter
      BY <1>11 DEF WriterInit
    <3>2. \A g \in Gsns : log[g] # 0 => g <= counter
      BY DEF PathInv, AckInv, StoredStays
    <3>3. max <= counter
      BY <2>2, <3>1, <3>2, ConstantsAssumption DEF IsMaxGsn, Gsns
    <3> QED
      BY <2>2, <3>1, <3>3
  <2>4. \A r \in Refs : batch[r].phase \notin OpenPhases
    BY <1>1, <2>1 DEF RefsInOrder
  <2>5. Unresolved' = {}
    BY <2>1, <2>4 DEF Unresolved, UnresolvedPhases, OpenPhases
  <2>6. watermark' = counter
    <3>1. watermark' <= counter /\ watermark' + 1 \notin resolved'
      BY <1>1, <2>1, <2>3 DEF ClaimInv, FrontierBounded, FrontierExact
    <3>2. SUFFICES ASSUME watermark' < counter
                   PROVE  FALSE
      BY <2>2, <3>1
    <3>3. watermark' + 1 \in (watermark' + 1)..counter'
      <4>1. \A w, n \in Nat : w < n => w + 1 \in (w + 1)..n
        OBVIOUS
      <4> QED
        BY <2>2, <2>3, <3>2, <4>1
    <3> QED
      BY <1>1, <2>1, <2>5, <3>1, <3>3 DEF FrontierExact
  <2>7. ClaimView' = ClaimView /\ WriterUp' = TRUE
    BY <2>1 DEF ClaimView, WriterUp
  <2>8. Feed!WriterStart
    BY <2>1, <2>3, <2>6, <2>7 DEF Feed!WriterStart
  <2> QED
    BY <2>8 DEF Feed!FeedNext
<1>12. ASSUME NEW r \in Refs, CommitError(r) \/ CommitTimeout(r) \/ CommitResultLost(r)
       PROVE  Feed!FeedNext
  <2>1. CommitFailed(r, "gone") \/ CommitFailed(r, "late")
    BY <1>12 DEF CommitError, CommitTimeout, CommitResultLost
  <2>2. \E R \in SUBSET Feed!Refs : Feed!Drop(r, R)
    BY <2>1, FailureDropsInFeed
  <2> QED
    BY <1>1, <2>2 DEF Feed!FeedNext
<1>13. ASSUME NEW r \in Refs, Feed!Store(r) \/ Feed!Ack(r) \/ Feed!Release(r)
       PROVE  Feed!FeedNext
  BY <1>1, <1>13 DEF Feed!FeedNext
<1> QED
  BY <1>2, <1>3, <1>4, <1>5, <1>6, <1>7, <1>8, <1>9, <1>10, <1>11, <1>12, <1>13
     DEF Next, Committer, CommitResult, Restart

\* The initial states of the write path are initial states of the feed.
LEMMA FeedStart ==
  ASSUME Init
  PROVE  Feed!FeedInit
<1>1. WriterUp = TRUE
  BY DEF Init, WriterUp
<1>2. ClaimView = [r \in Feed!Refs |-> Feed!NoClaim]
  <2>1. StateOf("none") = "none"
    BY StateMeans DEF Phases
  <2> QED
    BY <2>1 DEF Init, ClaimView, NoBatch, Feed!Refs, Refs, Feed!NoClaim
<1> QED
  BY <1>1, <1>2 DEF Init, Feed!FeedInit

\* Behind the abstract commit feed, as long as the storage tree does not
\* restart: claims are issued in GSN order, the batches are stored in any
\* order, released in claim order or dropped, and the watermark is always the
\* GSN below the oldest open claim.  Writer crashes, timeouts, late writes and
\* failed rebuilds are steps of the feed.
THEOREM FeedImplemented == Spec /\ [](treeCrashes = 0) => ImplementsFeed
<1>1. Init => Feed!FeedInit
  BY FeedStart
<1>2. /\ PathInv /\ PathInv' /\ (treeCrashes = 0) /\ (treeCrashes = 0)' /\ [Next]_vars
        => [Feed!FeedNext]_(Feed!feedVars)
  BY FeedStep
<1>3. Init => PathInv
  BY PathInit
<1>4. PathInv /\ [Next]_vars => PathInv'
  BY PathStep
<1> QED
  BY <1>1, <1>2, <1>3, <1>4, PTL DEF Spec, ImplementsFeed, Feed!FeedSpec
=============================================================================
